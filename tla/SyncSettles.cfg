\* Every interleaving, failure and kill, with one item created here.
CONSTANTS
    TempIds = {i1}
    ServerIds = {s1}
    Tolerance = 1
    MaxClock = 3
SPECIFICATION FairSyncSpec
PROPERTY
    Settles
