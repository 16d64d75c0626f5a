\* Two requests overlap on one trip: an edit with or without a version, meal days, meals.
CONSTANTS
    Trips = {t1}
    Days = {d1, d2}
    Meals = {m1}
    Items = {i1}
    Names = {"D1"}
    FirstName = "D1"
    Fields = {title, cover}
    FieldSets = {{title}, {cover}}
    Requests = {r1, r2}
    MaxVersion = 3
    Unsaid = Unsaid
    Unborn = Unborn
    Gone = Gone
SYMMETRY Symmetry
SPECIFICATION Spec
INVARIANTS
    LinksHaveNames
    PlanBelongs
PROPERTIES
    GuardedEditsRevertNothing
CHECK_DEADLOCK FALSE
