CONSTANTS
  c1 = c1
  c2 = c2
  k = k
  n = n
  put = put
  read = read
  update = update
  default = default
  move = move
  Cohort = {c1, c2}
  Key = {k, n}
  Transaction = {put, read, update, default, move}
  NoValue = NoValue
  MaxCohorts = 120
  Initial <- MCInitial
  Ops <- MCOps
  NumWorkers <- MCWorkers
  MaxTime = 1
  Mixes = {{put, read}, {move, default}, {put, move}, {move, update}}
  MayGiveUp = {read}
  MayLoseVote = {read}
  MayCrash = {c1}
SPECIFICATION FairSpec
INVARIANTS
  TypeOK
  BeginDoesNotBlock
  LocksAreAccountedFor
  NoOperationIsRefused
PROPERTIES
  ImplementsSerialExecution
  EveryTransactionEnds
CHECK_DEADLOCK FALSE
