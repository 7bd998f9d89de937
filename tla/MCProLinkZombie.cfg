SPECIFICATION LinkSpec
CONSTANTS
    Hosts = {h1}
    Initiators = {h1}
    Forgetful = {}
    Closers = {h1}
    NoHost = NoHost
    Stale = Stale
    Cids = {1, 2, 3, 4}
    FastMax = 2
    SlowMax = 1
    MaxFaults = 3
INVARIANT
    CidMeansConnected
CHECK_DEADLOCK FALSE
