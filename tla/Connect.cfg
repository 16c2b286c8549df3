SPECIFICATION FairSpec
CONSTANTS
    Host = host
    Viewers = {v1, v2}
    Rogues = {v1}
    RotateAfter = 2
    None = None
INVARIANTS TypeOK AskedOnlyForCodeHolder SessionAgreement OneSessionPerCode AttemptServesItsViewer
PROPERTIES SlotFreed AnnouncementTaken
CHECK_DEADLOCK FALSE
