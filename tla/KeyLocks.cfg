CONSTANTS
  cohort = cohort
  a = a
  b = b
  t1 = t1
  t2 = t2
  t3 = t3
  Cohort = {cohort}
  Key = {a, b}
  NoValue = NoValue
  Transaction = {t1, t2, t3}
  Programs <- MCPrograms
SPECIFICATION FairSpec
INVARIANTS
  TypeOK
  KeysAreExclusive
  MetadataTellsLocks
PROPERTIES
  OneKeyTransactionsEnd
CHECK_DEADLOCK FALSE
