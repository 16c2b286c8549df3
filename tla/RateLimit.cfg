SPECIFICATION Spec
CONSTANTS
    Ips = {ip1, ip2}
    Ids = {id1}
    HostPerIp = 1
    ViewerPerIp = 1
    ViewerPerId = 2
    Window = 2
    MaxTime = 4
    MaxCalls = 3
INVARIANTS TypeOK AtMostTwicePerWindow RefusalEarned
CHECK_DEADLOCK FALSE
