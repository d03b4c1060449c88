CONSTANTS
  c1 = c1
  c2 = c2
  a = a
  b = b
  Cohort = {c1, c2}
  Key = {a, b}
  NoValue = NoValue
  Files <- MCEqualFiles
  NumThreads = 2
SPECIFICATION OverlappingSpec
INVARIANTS
  CommittedResponseIsComplete
CHECK_DEADLOCK FALSE
