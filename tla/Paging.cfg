SPECIFICATION FairSpec
CONSTANTS
    Starts <- MCStarts
    Horizon <- MCHorizon
    Keys <- MCKeys
    Ranges <- MCRanges
    WritableBuckets = 2
    Tick = 2
    Clock = {0, 7}
    Limits = {0, 1, 3}
    UsizeMax = 3
    MaxParallel = 2
    MaxFaults = 1
    NoCursor = NoCursor
    NoRange = NoRange
INVARIANTS
    WalkComplete
    SettledExact
PROPERTIES
    PagesAdvance
    WalkEnds
CHECK_DEADLOCK FALSE
