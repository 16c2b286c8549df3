CONSTANTS
    Words = {y, n}
    Yes = y
    NotAsking = NotAsking
    MaxQuestions = 3
    MaxLines = 3
SPECIFICATION FairSpec
CHECK_DEADLOCK FALSE
INVARIANTS
    OneRequestInFlight
PROPERTIES
    UserHeard
