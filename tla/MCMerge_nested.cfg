SPECIFICATION MergeSpec
CONSTANTS
    Absent = Absent
    Git = Git
    Remote = Remote
    Merger = Merger
    PassStamp = PassStamp
    F = F
    X = X
    Data = {1, 2}
    MTimes = {1, 2}
    Trees <- Nested
INVARIANT MergedValidates
CHECK_DEADLOCK FALSE
