\* Two requests overlap in each service.
CONSTANTS
    Owners = {u1, u2}
    Sets = {s1, s2}
    SetItems = {i1, i2, i3}
    SetMeals = {m1}
    SetRequests = {r1, r2}
    NoSet = NoSet
    NoRow = NoRow
    People = {p1}
    GearTrips = {t1, t2}
    LibraryGear = {g1, g2}
    LibraryMeals = {l1}
    TripGear = {e1, e2}
    Uploads = {a1, a2}
    NoEntry = NoEntry
    Viewers = {v1}
    Views = {w1, w2}
    Beats = {b1, b2}
    MaxCount = 2
    Requests = {}
    NoToken = NoToken
    MaxTime = 1
    AccessTTL = 1
    RefreshTTL = 2
    MaxFailures = 0
    Calls = {c1}
    Counters = {k1, k2}
    Attempts = {n1, n2}
    NoAttempt = NoAttempt
    NoCounter = NoCounter
    MaxAttempts = 2
    Visits = {x1, x2}
    Codes = {y1, y2, y3}
    NoCode = NoCode
    Flags = {f1, f2}
    Setters = {z1, z2}
    NoFlag = NoFlag
SYMMETRY Symmetry
SPECIFICATION ServicesSpec
INVARIANTS
    SetsAreWhole
    ReferencesAreListed
    ServedAreKnown
    OpenToEverybody
    AttemptsAreBounded
    SentCodeCounts
    CopyAgrees
PROPERTIES
    EntriesKeepOwners
    CountsGrow
CHECK_DEADLOCK FALSE
