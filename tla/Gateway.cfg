SPECIFICATION Spec
CONSTANTS
    None = None
    Sessions = {s1, s2}
    Extended = {s1}
    Simple <- MCSimple
    Prepared <- MCPrepared
    Bindings <- MCBindings
    Starts <- MCStarts
    Horizon = 12
    ArrowMax = 10
    WritableBuckets = 2
    Tick = 2
    Now = 6
    MaxFaults = 1
INVARIANTS
    OnlyAdmitted
    ReadsSeeInserts
    ScansSound
    DescribeHonest
CHECK_DEADLOCK FALSE
