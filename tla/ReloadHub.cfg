SPECIFICATION FairSpec
CONSTANTS
    Conns = {c1, c2}
    Draining = {c1, c2}
    NoConn = NoConn
    SockCap = 2
INVARIANTS TypeOK NoLostReload NoConnectionLeaks
PROPERTIES MapNotRaced OwedIsPaid UpgradedIsRegistered
CHECK_DEADLOCK FALSE
