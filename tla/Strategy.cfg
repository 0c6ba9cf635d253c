SPECIFICATION FenceSpec
CONSTANTS
    None = None
    Processes = {p1, p2}
    Strategies = {"calendar_year_utc", "calendar_month_utc"}
    Boundaries <- MCBoundaries
    Horizon = 2
    Partitions = {k1, k2}
    MaxRestarts = 1
    MaxArchives = 2
SYMMETRY Symmetry
INVARIANTS
    OneStrategy
    WritersReadAll
CHECK_DEADLOCK FALSE
