SPECIFICATION LegacySpec
CONSTANTS
    w1 = w1
    w2 = w2
    u1 = u1
    u2 = u2
    u3 = u3
    c1 = c1
    c2 = c2
    Writer = {u1, u2, u3}
    Workspace = {w1, w2}
    Chunk = {c1, c2}
    Home <- Home3
    Reads <- Reads3
    Admins = {u3}
    Legacy = {w2}
    HeadKeep = 1
    MaxPushes = 2
    MaxRestarts = 1
INVARIANTS
    PoolTypeOK
    RowsAreWhole
    RejectedOnlyAfterSweep
    NoFlushForgotten
PROPERTY Reclaimed
