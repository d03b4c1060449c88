CONSTANTS
  c1 = c1
  c2 = c2
  a = a
  b = b
  Cohort = {c1, c2}
  Key = {a, b}
  NoValue = NoValue
  Files <- MCFiles
  NumThreads = 2
SPECIFICATION FairSpec
INVARIANTS
  TypeOK
  CommittedResponseIsComplete
  PutKeysAreFound
  
PROPERTIES
  FilesEnd
CHECK_DEADLOCK FALSE
