\* Three requests overlap; no user has two toggles of a like under way.
CONSTANTS
    Users = {ann, ben, cat}
    Events = {e1}
    Comments = {c1, c2}
    Requests = {r1, r2, r3}
    Nobody = Nobody
    MaxDrift = 2
SYMMETRY Symmetry
SPECIFICATION PatientSpec
INVARIANTS
    CommentsCounted
    LikesCounted
CHECK_DEADLOCK FALSE
