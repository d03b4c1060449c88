CONSTANTS
  TransactionId = {t1, t2}
  t1 = t1
  t2 = t2
  MaxCohorts = 3
  MaxTime = 2
  CohortCount = {2, 3, 4}
SPECIFICATION Spec
INVARIANTS
  TypeOK
  AnswersAsBallotTable
PROPERTIES
  BehavesAsBallotTable
  ExpiredDecisionIsFinal
  EveryVotingIsDecided
CHECK_DEADLOCK FALSE
