SPECIFICATION Spec
CONSTANTS
    None = None
    Records = {r1, r2}
    Runners = {a, b}
    Directs = {d}
    Workers = {a, b, d}
    Readers = {d}
    MaxFaults = 1
SYMMETRY Symmetry
INVARIANTS
    CutoverInv
    AckedDurable
    PublishedComplete
    ReportedOutcomeTrue
    RoutesCoherent
    ReadsComplete
PROPERTIES
    PublicationFinal
    RowsLeaveOnlyArchived
    ImplementsLogicalBucket
CHECK_DEADLOCK FALSE
