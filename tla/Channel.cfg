SPECIFICATION Spec
CONSTANTS
    Host = Host
    Viewer = Viewer
    MaxSent = 3
    Buffer = 2
PROPERTIES ImplementsPipe ReadToTheEnd
CHECK_DEADLOCK FALSE
