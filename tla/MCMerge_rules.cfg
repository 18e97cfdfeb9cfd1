SPECIFICATION MergeSpec
CONSTANTS
    Absent = Absent
    Git = Git
    Remote = Remote
    Merger = Merger
    PassStamp = PassStamp
    F = F
    X = X
    Data = {1, 2}
    MTimes = {1, 2}
    Trees <- Siblings
INVARIANTS
    KeepsEveryEdit
    CopiesAreNew
    RetryIsStable
    OrderDoesNotMatter
CHECK_DEADLOCK FALSE
