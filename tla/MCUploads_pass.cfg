SPECIFICATION FairSpec
CONSTANTS
    k1 = k1
    k2 = k2
    k3 = k3
    Path = {"one", "two"}
    Chunk = {k1, k2, k3}
    Content <- Overlapping
    Absent = Absent
    None = None
    Tick = 2
    CacheSettle = 2
    FlushAt = 2
    MaxClock = 2
    MaxEdits = 1
    MaxLosses = 1
    MaxFaults = 1
INVARIANTS
    TypeOK
    CacheHidesNoEdit
    NothingUnconfirmed
    NoFalseDeletion
PROPERTIES
    RelayGetsTheTree
CHECK_DEADLOCK FALSE
