SPECIFICATION Spec
CONSTANTS
    NoConn = NoConn
    Calls = {t1, r1}
    Reads = {r1}
    Conns = {c1, c2, c3}
    Max = 2
    Word = 16
    MaxAttempts = 2
SYMMETRY Symmetry
INVARIANTS
    ExclusiveCheckout
    NoneStranded
    IdleGaugeSettles
    IdleIsClean
    AnswerTrue
CHECK_DEADLOCK FALSE
