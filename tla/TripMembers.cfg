\* Three users and two overlapping requests on one trip.  A run ends when the
\* trip is deleted: its id is never used again.
CONSTANTS
    Users = {u1, u2, u3}
    Trips = {t1}
    Requests = {r1, r2}
    Nobody = Nobody
SYMMETRY Symmetry
SPECIFICATION TripSpec
INVARIANTS
    NoMembersWithoutTrip
    EditorsHaveOwned
    OwnerLeads
PROPERTY
    KeepsPromise
CHECK_DEADLOCK FALSE
