\* One item created here, two on the server; user and cycle never hold the same row.
CONSTANTS
    TempIds = {i1}
    ServerIds = {s1, s2}
    Tolerance = 1
    MaxClock = 4
SYMMETRY Symmetry
SPECIFICATION CalmSpec
INVARIANTS
    SyncTypeOK
    SyncedWasStored
    NoDoubles
PROPERTY
    PullKeepsEdits
CHECK_DEADLOCK FALSE
