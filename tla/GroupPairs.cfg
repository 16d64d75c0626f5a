\* Two requests overlap: two to the event service, or one to it and one to the
\* trip service.
CONSTANTS
    Users = {u1, u2}
    Trips = {t1}
    Requests = {r1}
    Nobody = Nobody
    Events = {e1}
    GroupRequests = {g1, g2}
    NoTrip = NoTrip
    OtherStatuses = {}
    MaxApps = 1
SYMMETRY Symmetry
SPECIFICATION PairSpec
INVARIANTS
    GroupTypeOK
    TripsStaySound
    ReferencesExist
PROPERTY
    OwnersDecide
CHECK_DEADLOCK FALSE
