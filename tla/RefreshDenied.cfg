SPECIFICATION AuthSpec
CONSTANTS
  Requests = {j1, j2}
  NoToken = NoToken
  NoRequest = NoRequest
  MaxTime = 1
  AccessTTL = 1
  RefreshTTL = 2
  MaxFailures = 0
  MaxBegun = 3
INVARIANTS
  GoodRefreshIsTaken
CHECK_DEADLOCK FALSE
