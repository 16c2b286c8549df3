CONSTANTS
    Words = {y, n}
    Yes = y
    NotAsking = NotAsking
    MaxQuestions = 2
    MaxLines = 2
SPECIFICATION Spec
CHECK_DEADLOCK FALSE
INVARIANT OnlyOwnLineGrants
