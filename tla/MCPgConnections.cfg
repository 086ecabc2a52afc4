SPECIFICATION FairSpec
CONSTANTS
    Threads = {t1, t2}
    Conns = {c1, c2, c3, c4, c5}
    NoConn = NoConn
    MaxConn = 1
    Threshold = 2
    Window = 2
    Reset = 2
INVARIANTS
    Exclusive
    
    BreakerExact
PROPERTIES
    Recovers
