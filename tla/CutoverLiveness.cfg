SPECIFICATION FairSpec
CONSTANTS
    None = None
    Records = {r1}
    Runners = {a}
    Directs = {d}
    Workers = {a, d}
    Readers = {}
    MaxFaults = 2
PROPERTIES
    ArchivalCompletes
    CallsEnd
CHECK_DEADLOCK FALSE
