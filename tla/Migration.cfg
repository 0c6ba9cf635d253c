SPECIFICATION Spec
CONSTANTS
    old = old  new = new  twin = twin  edited = edited
    Jobs = {old, new, twin, edited}
    First = 4
    Last = 5
    Latest <- MCLatest
    Checksum <- MCChecksum
    Checksums = {"original", "edited"}
    MaxAttempts = 2
    Absent = Absent
SYMMETRY Symmetry
INVARIANTS
    HistorySound
    MigratedForGood
PROPERTY HistoryAppendOnly
CHECK_DEADLOCK FALSE
