SPECIFICATION AuthSpec
CONSTANTS
  Requests = {j1, j2}
  NoToken = NoToken
  NoRequest = NoRequest
  MaxTime = 1
  AccessTTL = 1
  RefreshTTL = 2
  MaxFailures = 1
  MaxBegun = 3
INVARIANTS
  RotatedOnce
  SessionStaysGood
  SharersAreServed
SYMMETRY RequestSymmetry
CHECK_DEADLOCK FALSE
