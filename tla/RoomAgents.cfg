CONSTANTS
    HostSockets = {h1, h2}
    ViewerSockets = {v1, v2}
    Keys = {k1, k2}
    NoKey = NoKey
    NoSocket = NoSocket
    Data = {d}
    MaxAuths = 1
    MaxRelays = 1
    HostMisbehaves = FALSE
    SplitClose = FALSE
SPECIFICATION Spec
CHECK_DEADLOCK FALSE
SYMMETRY Symmetry
INVARIANTS
    OneAuthedHost
    AuthedKeyIsOwner
    LeftMatchesJoin
    ViewerHasItsHost
PROPERTIES
    OwnerKept
    ImplementsRendezvous
