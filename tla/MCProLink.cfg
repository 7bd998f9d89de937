SPECIFICATION LinkSpec
CONSTANTS
    Hosts = {h1, h2}
    Initiators = {h1, h2}
    Forgetful = {h1}
    Closers = {h1, h2}
    NoHost = NoHost
    Stale = Stale
    Cids = {1, 2, 3, 4}
    FastMax = 2
    SlowMax = 1
    MaxFaults = 2
INVARIANTS
    AppFollowsDevice
    Findable
    Budget
PROPERTIES
    NoKickWhenOpen
CHECK_DEADLOCK FALSE
