\* Requests overlap in two polls; no user has two votes under way.
CONSTANTS
    Users = {ann, ben}
    Owner = ann
    Polls = {p1, p2}
    Options = {o1, o2, o3}
    Requests = {r1, r2}
    NoPoll = NoPoll
SYMMETRY Symmetry
SPECIFICATION PatientSpec
INVARIANTS
    VotesHaveOptions
    OneChoice
CHECK_DEADLOCK FALSE
