SPECIFICATION LiveSpec
CONSTANTS
    Capacity = 1
    MaxHead = 1
    MaxEdits = 1
    MaxDrops = 1
    MaxFails = 1
    MaxLost = 1
INVARIANTS
    NoLocalGap
    NoRemoteGap
PROPERTY CaughtUp
