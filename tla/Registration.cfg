SPECIFICATION Spec
CONSTANTS
    Hosts = {h1, h2}
    Viewers = {v1}
    Keys = {k1, k2}
    None = None
    ClaimAttempts = 2
INVARIANTS RegisteredWaits OneDevicePerId
PROPERTIES NoGhostHost
CHECK_DEADLOCK FALSE
