CONSTANTS
  Cohort = {c1, c2}
  c1 = c1
  c2 = c2
  NumCohorts = 2
  MaxCohorts = 120
  MaxTime = 2
  MaxRequests = 2
  CallsGetLost = TRUE
SPECIFICATION Spec
SYMMETRY Symmetry
INVARIANTS
  TypeOK
  RequestInv
  VoteInv
  DecisionInv
  CommittedIsReplayable
  Agreement
  ResultInv
  ClientIsToldTheTruth
PROPERTIES
  ImplementsAtomicCommit
  DecisionIsFinal
  BallotsAreCastOnce
  PreparedOnce
CHECK_DEADLOCK FALSE
