CONSTANTS
    HostSockets = {h1, h2}
    ViewerSockets = {v1, v2}
    Keys = {k1}
    NoKey = NoKey
    NoSocket = NoSocket
    Data = {d}
    MaxAuths = 1
    MaxRelays = 1
    HostMisbehaves = TRUE
    SplitClose = TRUE
SPECIFICATION Spec
CHECK_DEADLOCK FALSE
SYMMETRY Symmetry
INVARIANTS
    TypeOK
    RelayFromAnnounced
    SessionWillEnd
    DepartureAnnounced
