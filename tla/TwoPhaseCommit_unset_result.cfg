CONSTANTS
  Cohort = {c1, c2}
  c1 = c1
  c2 = c2
  NumCohorts = 2
  MaxCohorts = 120
  MaxTime = 1
  MaxRequests = 1
  CallsGetLost = FALSE
SPECIFICATION Spec
INVARIANTS
  ResultIsDocumented
CHECK_DEADLOCK FALSE
