SPECIFICATION FairSpec
CONSTANTS
    NoConn = NoConn
    Calls = {t1, r1}
    Reads = {r1}
    Conns = {c1, c2}
    Max = 1
    Word = 16
    MaxAttempts = 2
INVARIANT CapacityRespected
PROPERTY CallsComplete
CHECK_DEADLOCK FALSE
