SPECIFICATION LoopSpec
CONSTANTS
    Members <- MCMembers
    Windows <- MCWindows
    Off = Off
    Hold = Hold
    None = None
    PulseLen = 1
    MaxGap = 1
    HoldLen = 3
    UnconnMax = 3
    QuietMax = 3
INVARIANTS
    RunsOnce
PROPERTIES
    RunsOnlyHeld
    ChordKeepsPairing
    WakeHoldInert
    SleepsUnconnected
    SleepsUntouched
