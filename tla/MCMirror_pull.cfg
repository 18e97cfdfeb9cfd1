SPECIFICATION FairSpec
CONSTANTS
    a = a
    b = b
    k1 = k1
    k2 = k2
    Path = {"file", ".git"}
    GitPath = {".git"}
    Content = {a, b}
    Chunk = {k1, k2}
    ChunksOf <- SharedChunk
    Absent = Absent
    None = None
    Torn = Torn
    HeadKeep = 2
    MaxCommits = 2
    MaxLosses = 1
    MaxInterrupts = 1
INVARIANTS
    NeverMidApply
    IdleIsHonest
PROPERTIES
    CatchesUp
CHECK_DEADLOCK FALSE
