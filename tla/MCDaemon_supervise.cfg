SPECIFICATION FairSpec
CONSTANTS
    Path = {p1, p2}
    LoopId = {l1, l2}
INVARIANTS
    TypeOK
    LoopsAreOwned
    AcksSurvive
    HonestStatus
    WindsDown
PROPERTIES
    DrainFinishes
    ShutdownEnds
