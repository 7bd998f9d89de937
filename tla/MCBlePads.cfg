SPECIFICATION BleSpec
CONSTANTS
    Members <- MCMembers
    Windows <- MCWindows
    Off = Off
    Hold = Hold
    None = None
    PulseLen = 3
    MaxGap = 2
INVARIANTS
    DecidedOnce
    ChordIffFresh
    OneHand
    HostFollows
PROPERTIES
    RoleStable
    MinusLetsGo
