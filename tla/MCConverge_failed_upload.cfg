SPECIFICATION Spec
CONSTANTS
    Absent = Absent
    Git = Git
    Remote = Remote
    F = F
    X = X
    Device = {a, b}
    Stamps = {s}
    MTimes = {1, 2}
    MaxAttempts = 2
    UserPaths <- File
    SavePhases <- Between
    DeletePhases <- Between
    UploadFaults = TRUE
    MaxEdits = 2
    MaxFaults = 0
INVARIANT NoByteLost
SYMMETRY DeviceSymmetry
