CONSTANTS
  Cohort = {c1}
  c1 = c1
  NumCohorts = 1
  MaxCohorts = 120
  MaxTime = 1
  MaxRequests = 2
  CallsGetLost = TRUE
SPECIFICATION Spec
INVARIANTS
  ClientIsToldTheTruth
PROPERTIES
  PreparedOnce
CHECK_DEADLOCK FALSE
