CONSTANTS
    Runners = {r1}
    Buckets <- MCBuckets
    EndsBy <- MCEndsBy
    FailsAt <- FirstUploadFails
    ScanLimit = 2
    Interval = 1
    Backoff = 1
    LeaseFor = 1
    Lag = 0
    LastYear = 2
    MaxFaults = 0

SPECIFICATION FairSpec

PROPERTY EveryRowServed
