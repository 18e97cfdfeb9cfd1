SPECIFICATION Spec
CONSTANTS
    Absent = Absent
    Git = Git
    Remote = Remote
    F = F
    X = X
    Device = {a, b}
    Stamps = {s}
    MTimes = {1, 2}
    MaxAttempts = 2
    UserPaths <- Nested
    SavePhases <- Always
    DeletePhases <- Always
    UploadFaults = TRUE
    MaxEdits = 2
    MaxFaults = 1
INVARIANTS
    TypeOK
    BaseIsPublished
    MergesTheSubmitted
    CommitsTheHead
SYMMETRY DeviceSymmetry
