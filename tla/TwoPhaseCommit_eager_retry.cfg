CONSTANTS
  Cohort = {c1, c2}
  c1 = c1
  c2 = c2
  NumCohorts = 2
  MaxCohorts = 120
  MaxTime = 1
  MaxRequests = 2
  CallsGetLost = FALSE
SPECIFICATION EagerSpec
SYMMETRY Symmetry
INVARIANTS
  Agreement
CHECK_DEADLOCK FALSE
