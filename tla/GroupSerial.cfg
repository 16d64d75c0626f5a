\* One request to the event service at a time, two trips to link to, two
\* applications.
CONSTANTS
    Users = {u1, u2, u3}
    Trips = {t1, t2}
    Requests = {}
    Nobody = Nobody
    Events = {e1}
    GroupRequests = {g1}
    NoTrip = NoTrip
    OtherStatuses = {other}
    MaxApps = 2
SYMMETRY Symmetry
SPECIFICATION SerialSpec
PROPERTIES
    ApprovalAdmits
    LosingApprovalRevokes
    RelinkMovesEverybody
CHECK_DEADLOCK FALSE
