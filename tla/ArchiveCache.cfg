SPECIFICATION Spec
CONSTANTS
    b1 = b1  b2 = b2
    o1 = o1  o2 = o2  o3 = o3  o4 = o4
    Tasks = {t1, t2}
    Buckets = {b1, b2}
    ObjectKeys = {o1, o2, o3, o4}
    Owner <- MCOwner
    Size <- MCSize
    MaxBytes = 3
    MaxEntries = 2
    MaxStamp = 6
    NoRequest = NoRequest
SYMMETRY Symmetry
INVARIANTS
    WithinBudget
    AnswersTrue
PROPERTY EvictsOldestForRoom
CHECK_DEADLOCK FALSE
