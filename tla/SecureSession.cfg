SPECIFICATION Spec
CONSTANTS
    Viewers = {v1, v2}
    Attempts = {a1, a2}
    Codes = {c1, c2}
    HostIds = {i1, i2}
    None = None
    Damaged = Damaged
    MaxSeals = 2
INVARIANTS TypeOK KeysPairUp StreamExact IdentityIsPeers
SYMMETRY Symmetry
CHECK_DEADLOCK FALSE
