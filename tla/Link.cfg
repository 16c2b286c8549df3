SPECIFICATION Spec
CONSTANTS
    Messages = {m1, m2}
    Bad = Bad
    Ping = Ping
    Codes = {c1}
    NotClosed = NotClosed
    NoCode = NoCode
    Pieces = 3
    MaxWait = 3
    MaxFrames = 3
INVARIANTS TypeOK OverrunBounded
PROPERTIES ImplementsPipe
