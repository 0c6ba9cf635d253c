CONSTANTS
    Runners = {r1, r2}
    Buckets <- MCBuckets
    EndsBy <- MCEndsBy
    FailsAt <- FirstUploadFails
    ScanLimit = 2
    Interval = 1
    Backoff = 3
    LeaseFor = 1
    Lag = 1
    LastYear = 2
    MaxFaults = 1

SPECIFICATION FairSpec

INVARIANTS
    WorkListSound
    OkCycleFinishedAll

PROPERTIES
    RowsLeftAlone
    EveryRowServed
