CONSTANTS
    TicksPerMs = 2
    MsPerSecond = 1
    Cap = 4
    ShiftLimit = 3
    RotateAfter = 5
    Horizon = 40
    NoWait = NoWait
    MaxCode = 4
    MaxConfirms = 2
SPECIFICATION Spec
CHECK_DEADLOCK FALSE
INVARIANTS
    TypeOK
    GuessRate
    FreshCode
    RetryAfterSuffices
    LockoutBounded
PROPERTIES
    ReplySpacing
