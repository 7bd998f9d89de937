SPECIFICATION FairOta
CONSTANTS
    Size = 5
    Window = 4
    Stall = 1
    MaxBegins = 2
    MaxFaults = 2
CHECK_DEADLOCK FALSE
INVARIANTS
    InSequence
PROPERTIES
    EscapesReturn
    Completes
