SPECIFICATION FairSpec
CONSTANTS
    NumFiles = 1
    MaxClock = 1
    Browsers = {b1}
    MaxLoads = 2
    SockCap = 1
    NoConn = NoConn
INVARIANT StalePageIsTold
PROPERTIES OpenPageIsFresh GoroutinesEnd WatcherKept HubKept
CHECK_DEADLOCK FALSE
