SPECIFICATION FairSleep
CONSTANTS
    BootTicks = 3
    FlushTicks = 2
    Debounce = 2
    DrainMax = 4
INVARIANTS
    WakesForCause
PROPERTIES
    Settles
    StartWakes
    ChargerWakes
