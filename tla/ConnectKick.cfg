CONSTANTS
    Host = host
    Viewers = {v1, v2}
    Rogues = {}
    RotateAfter = 2
    None = None
SPECIFICATION Spec
CHECK_DEADLOCK FALSE
PROPERTY KickHitsItsViewer
