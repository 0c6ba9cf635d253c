SPECIFICATION Spec
CONSTANTS
    None = None
    Records = {r1, r2}
    Tokens = {w1, w2, w3, w4}
    MaxCopies = 2
SYMMETRY Symmetry
INVARIANTS
    VisibleExact
PROPERTY ConformsToCockroach
CHECK_DEADLOCK FALSE
