SPECIFICATION Spec
CONSTANTS
    Absent = Absent
    Git = Git
    Remote = Remote
    F = F
    X = X
    Device = {a, b}
    Stamps = {s}
    MTimes = {1, 2}
    MaxAttempts = 2
    UserPaths <- File
    SavePhases <- Between
    DeletePhases <- Always
    UploadFaults = FALSE
    MaxEdits = 3
    MaxFaults = 1
INVARIANTS
    NoByteLost
    ConflictsAreReal
PROPERTIES
    ImplementsFolder
    HeadNeverGoesBack
SYMMETRY DeviceSymmetry
