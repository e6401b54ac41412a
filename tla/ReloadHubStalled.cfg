SPECIFICATION FairSpec
CONSTANTS
    Conns = {c1, c2}
    Draining = {c1}
    NoConn = NoConn
    SockCap = 1
PROPERTY ReadingClientIsPaid
CHECK_DEADLOCK FALSE
