SPECIFICATION FairLink
CONSTANTS
    Hosts = {h1}
    Initiators = {}
    Forgetful = {}
    Closers = {}
    NoHost = NoHost
    Stale = Stale
    Cids = {1, 2, 3, 4, 5, 6, 7}
    FastMax = 2
    SlowMax = 2
    MaxFaults = 3
INVARIANTS
    CidMeansConnected
    KeepsPaging
PROPERTIES
    NoStackedConnect
    Level2OnFreshAcl
    Rejoins
CHECK_DEADLOCK FALSE
