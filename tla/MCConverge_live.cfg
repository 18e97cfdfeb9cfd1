SPECIFICATION LiveSpec
CONSTANTS
    Absent = Absent
    Git = Git
    Remote = Remote
    F = F
    X = X
    Device = {a, b}
    Stamps = {s}
    MTimes = {1, 2}
    MaxAttempts = 2
    UserPaths <- File
    SavePhases <- Between
    DeletePhases <- Always
    UploadFaults = FALSE
    MaxEdits = 2
    MaxFaults = 1
PROPERTY Convergence
