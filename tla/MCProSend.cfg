SPECIFICATION FairSend
CONSTANTS
    Rest = rest
    Press = press
    Centre = centre
    Tilt = tilt
    Buttons <- MCButtons
    Axes <- MCAxes
    Inputs <- MCInputs
    Neutral <- MCNeutral
    NoButtons = none
    QueueLen = 2
    Settle = 1
    KeepAlive = 2
    MaxAsks = 3
INVARIANTS
    RepliesOwed
    LatchLive
    PostedOnce
    Prompt
PROPERTIES
    HandedOff
    Delivered
    Answered
