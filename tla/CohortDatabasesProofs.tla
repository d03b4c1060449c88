------------------------ MODULE CohortDatabasesProofs ------------------------
(***************************************************************************)
(* The lock on the whole database, for any sets of cohorts and             *)
(* transactions, any operations and any numbers of workers.                *)
(*                                                                         *)
(* The argument: a transaction has no lock before it is out of the queue,  *)
(* and it is in the queue once; it takes the lock in the mode its metadata *)
(* then say, and releases it by the same flags in the step that ends it.   *)
(* So the mutex counts exactly those whose metadata say so, and a database *)
(* transaction that writes is only ever open under the exclusive lock.     *)
(***************************************************************************)
EXTENDS CohortDatabases, FiniteSetTheorems, TLAPS

LockTypeOK ==
  /\ queue \in [Cohort -> Seq(Transaction)]
  /\ stage \in PerTransaction(Stage)
  /\ lock \in PerTransaction({"none", "read", "write"})
  /\ mutex \in [Cohort -> [writer : BOOLEAN, readers : Nat]]

\* The tasks in the queue are those that are queued, once each.
QueueInv ==
  \A c \in Cohort :
    /\ \A i \in 1 .. Len(queue[c]) : stage[c][queue[c][i]] = "queued"
    /\ \A i, j \in 1 .. Len(queue[c]) : queue[c][i] = queue[c][j] => i = j

Locking == {"none", "queued", "locking", "committed", "aborted"}

\* Who has the lock, and how.
HolderInv ==
  \A c \in Cohort :
    /\ \A t \in Transaction : stage[c][t] \in Locking => lock[c][t] = "none"
    /\ IsFiniteSet(Holders(c, "read"))
    /\ mutex[c].readers = Cardinality(Holders(c, "read"))
    /\ mutex[c].writer => \E t \in Transaction : Holders(c, "write") = {t}
    /\ ~mutex[c].writer => Holders(c, "write") = {}
    /\ mutex[c].writer => mutex[c].readers = 0

\* A database transaction that may write is open under the exclusive lock.
WriterInv ==
  /\ DOMAIN adapter = Cohort
  /\ \A c \in Cohort : DOMAIN adapter[c] = Transaction
  /\ \A c \in Cohort, t \in Transaction :
       /\ DOMAIN adapter[c][t] = {"txn", "view"}
       /\ adapter[c][t].txn = "read-write" =>
            lock[c][t] = "write" /\ stage[c][t] # "beginning"

Inv == LockTypeOK /\ QueueInv /\ HolderInv /\ WriterInv
-----------------------------------------------------------------------------
\* In the beginning no transaction has begun.
LEMMA InitInv == Init => Inv
PROOF
<1> SUFFICES ASSUME Init PROVE Inv
  OBVIOUS
<1> USE DEF Init, ForAll
<1>1. LockTypeOK
  BY DEF LockTypeOK, PerTransaction, Stage
<1>2. QueueInv
  BY DEF QueueInv
<1>3. HolderInv
  <2>1. \A c \in Cohort, mode \in {"read", "write"} : Holders(c, mode) = {}
    BY DEF Holders
  <2>2. IsFiniteSet({}) /\ Cardinality({}) = 0
    BY FS_EmptySet
  <2> QED
    BY <2>1, <2>2 DEF HolderInv, Locking
<1>4. WriterInv
  BY DEF WriterInv, DatabaseInit, NoTxn
<1> QED
  BY <1>1, <1>2, <1>3, <1>4 DEF Inv

\* Steps that leave the locks and the database transactions alone and move a
\* transaction on.
LEMMA StageInv ==
  ASSUME Inv, UNCHANGED <<queue, lock, mutex, adapter>>,
         NEW c \in Cohort, NEW t \in Transaction,
         NEW s \in Stage \ {"beginning", "queued"}, stage' = [stage EXCEPT ![c][t] = s],
         stage[c][t] # "queued",
         s \in Locking => lock[c][t] = "none"
  PROVE  Inv'
PROOF
<1>1. LockTypeOK'
  BY DEF Inv, LockTypeOK, PerTransaction
<1>2. QueueInv'
  BY DEF Inv, QueueInv, LockTypeOK, PerTransaction
<1>3. HolderInv'
  <2>1. \A d \in Cohort, mode \in {"read", "write"} : Holders(d, mode)' = Holders(d, mode)
    BY DEF Holders
  <2>2. \A d \in Cohort, u \in Transaction :
          stage'[d][u] \in Locking => lock[d][u] = "none"
    BY DEF Inv, LockTypeOK, PerTransaction, HolderInv
  <2> QED
    BY <2>1, <2>2 DEF Inv, HolderInv
<1>4. WriterInv'
  BY DEF Inv, WriterInv, LockTypeOK, PerTransaction
<1> QED
  BY <1>1, <1>2, <1>3, <1>4 DEF Inv

\* A task joins the queue of its cohort.
LEMMA PrepareInv ==
  ASSUME Inv, NEW c \in Cohort, NEW t \in Transaction, PrepareTransaction(c, t)
  PROVE  Inv'
PROOF
<1> USE DEF PrepareTransaction, databaseVars
<1>1. LockTypeOK'
  <2>1. queue' \in [Cohort -> Seq(Transaction)]
    BY DEF Inv, LockTypeOK
  <2>2. stage' \in PerTransaction(Stage)
    BY DEF Inv, LockTypeOK, PerTransaction, Stage
  <2> QED
    BY <2>1, <2>2 DEF Inv, LockTypeOK
<1>2. QueueInv'
  <2> SUFFICES ASSUME NEW d \in Cohort
               PROVE  /\ \A i \in 1 .. Len(queue'[d]) : stage'[d][queue'[d][i]] = "queued"
                      /\ \A i, j \in 1 .. Len(queue'[d]) :
                           queue'[d][i] = queue'[d][j] => i = j
    BY DEF QueueInv
  <2>1. /\ \A i \in 1 .. Len(queue[d]) : stage[d][queue[d][i]] = "queued"
        /\ \A i, j \in 1 .. Len(queue[d]) : queue[d][i] = queue[d][j] => i = j
        /\ queue[d] \in Seq(Transaction)
    BY DEF Inv, QueueInv, LockTypeOK
  <2>2. /\ \A u \in Transaction : stage[d][u] = "queued" => stage'[d][u] = "queued"
        /\ stage'[c][t] = "queued"
    BY DEF Inv, LockTypeOK, PerTransaction
  <2>3. CASE d = c
    <3>1. queue'[c] = Append(queue[c], t)
      BY DEF Inv, LockTypeOK
    <3>2. /\ Len(queue'[c]) = Len(queue[c]) + 1
          /\ queue'[c][Len(queue[c]) + 1] = t
          /\ \A i \in 1 .. Len(queue[c]) : queue'[c][i] = queue[c][i]
      BY <2>1, <2>3, <3>1
    <3>3. \A i \in 1 .. Len(queue[c]) : queue[c][i] # t
      BY <2>1, <2>3
    <3> HIDE DEF PrepareTransaction
    <3>4. Len(queue[c]) \in Nat
      BY <2>1, <2>3
    <3>5. \A i \in 1 .. Len(queue'[c]) :
            i \in 1 .. Len(queue[c]) \/ i = Len(queue[c]) + 1
      BY <3>2, <3>4
    <3>6. \A i \in 1 .. Len(queue[c]) : queue[c][i] \in Transaction
      BY <2>1, <2>3
    <3>7. ASSUME NEW i \in 1 .. Len(queue'[c])
          PROVE  stage'[c][queue'[c][i]] = "queued"
      <4>1. CASE i \in 1 .. Len(queue[c])
        BY <2>1, <2>2, <2>3, <3>2, <3>6, <4>1
      <4>2. CASE i = Len(queue[c]) + 1
        BY <2>2, <3>2, <4>2
      <4> QED
        BY <3>5, <4>1, <4>2
    <3>8. ASSUME NEW i \in 1 .. Len(queue'[c]), NEW j \in 1 .. Len(queue'[c]),
                 queue'[c][i] = queue'[c][j]
          PROVE  i = j
      <4>1. CASE i \in 1 .. Len(queue[c]) /\ j \in 1 .. Len(queue[c])
        BY <2>1, <2>3, <3>2, <3>8, <4>1
      <4>2. CASE i = Len(queue[c]) + 1 \/ j = Len(queue[c]) + 1
        BY <3>2, <3>3, <3>5, <3>8, <4>2
      <4> QED
        BY <3>5, <4>1, <4>2
    <3> QED
      BY <2>3, <3>7, <3>8
  <2>4. CASE d # c
    <3>1. queue'[d] = queue[d] /\ stage'[d] = stage[d]
      BY <2>4 DEF Inv, LockTypeOK, PerTransaction
    <3> QED
      BY <2>1, <3>1
  <2> QED
    BY <2>3, <2>4
<1>3. HolderInv'
  <2>1. \A d \in Cohort, mode \in {"read", "write"} : Holders(d, mode)' = Holders(d, mode)
    BY DEF Holders
  <2>2. \A d \in Cohort, u \in Transaction :
          stage'[d][u] \in Locking => lock[d][u] = "none"
    BY DEF Inv, LockTypeOK, PerTransaction, HolderInv, Locking
  <2> QED
    BY <2>1, <2>2 DEF Inv, HolderInv
<1>4. WriterInv'
  BY DEF Inv, WriterInv, LockTypeOK, PerTransaction
<1> QED
  BY <1>1, <1>2, <1>3, <1>4 DEF Inv

\* A worker takes the oldest task, which no other worker has.
LEMMA StartInv ==
  ASSUME Inv, NEW c \in Cohort, StartTask(c)
  PROVE  Inv'
PROOF
<1> USE DEF StartTask, databaseVars
<1> DEFINE t == Head(queue[c])
<1>1. /\ queue[c] \in Seq(Transaction)
      /\ queue[c] # << >>
      /\ Len(queue[c]) \in Nat
      /\ Len(queue[c]) > 0
      /\ t \in Transaction
      /\ t = queue[c][1]
  BY DEF Inv, LockTypeOK
<1>2. stage[c][t] = "queued"
  BY <1>1 DEF Inv, QueueInv
<1>3. /\ queue'[c] \in Seq(Transaction)
      /\ Len(queue'[c]) = Len(queue[c]) - 1
      /\ \A i \in 1 .. Len(queue'[c]) : queue'[c][i] = queue[c][i + 1]
  BY <1>1 DEF Inv, LockTypeOK
<1>4. \A d \in Cohort \ {c} : queue'[d] = queue[d] /\ stage'[d] = stage[d]
  BY DEF Inv, LockTypeOK, PerTransaction
<1>5. /\ stage'[c][t] = "locking"
      /\ \A u \in Transaction \ {t} : stage'[c][u] = stage[c][u]
  BY <1>1 DEF Inv, LockTypeOK, PerTransaction
<1>6. LockTypeOK'
  BY <1>1, <1>3 DEF Inv, LockTypeOK, PerTransaction, Stage
<1>7. QueueInv'
  <2> HIDE DEF StartTask, t
  <2>1. ASSUME NEW i \in 1 .. Len(queue'[c])
        PROVE  stage'[c][queue'[c][i]] = "queued"
    <3>1. i + 1 \in 1 .. Len(queue[c]) /\ 1 \in 1 .. Len(queue[c]) /\ i + 1 # 1
      BY <1>1, <1>3
    <3>2. queue[c][i + 1] # t
      BY <1>1, <3>1 DEF Inv, QueueInv
    <3>3. queue[c][i + 1] \in Transaction
      BY <1>1, <3>1
    <3>4. stage[c][queue[c][i + 1]] = "queued"
      BY <3>1 DEF Inv, QueueInv
    <3> QED
      BY <1>3, <1>5, <3>2, <3>3, <3>4
  <2>2. ASSUME NEW i \in 1 .. Len(queue'[c]), NEW j \in 1 .. Len(queue'[c]),
               queue'[c][i] = queue'[c][j]
        PROVE  i = j
    <3>1. i + 1 \in 1 .. Len(queue[c]) /\ j + 1 \in 1 .. Len(queue[c])
      BY <1>1, <1>3
    <3>2. i + 1 = j + 1
      BY <1>3, <2>2, <3>1 DEF Inv, QueueInv
    <3> QED
      BY <3>2
  <2> QED
    BY <1>4, <2>1, <2>2 DEF Inv, QueueInv
<1>8. HolderInv'
  <2>1. \A d \in Cohort, mode \in {"read", "write"} : Holders(d, mode)' = Holders(d, mode)
    BY DEF Holders
  <2>2. \A d \in Cohort, u \in Transaction :
          stage'[d][u] \in Locking => lock[d][u] = "none"
    BY <1>2, <1>4, <1>5 DEF Inv, HolderInv, Locking
  <2> QED
    BY <2>1, <2>2 DEF Inv, HolderInv
<1>9. WriterInv'
  BY <1>4, <1>5 DEF Inv, WriterInv
<1> QED
  BY <1>6, <1>7, <1>8, <1>9 DEF Inv

\* A transaction takes the lock, in a mode that the mutex allows.
LEMMA AcquireInv ==
  ASSUME Inv, NEW c \in Cohort, NEW t \in Transaction, AcquireWholeDbLock(c, t)
  PROVE  Inv'
PROOF
<1> DEFINE mode == LockMode(OpsAt(c, t))
<1>1. mode \in {"none", "read", "write"}
  BY DEF LockMode
<1>2. /\ stage[c][t] = "locking"
      /\ CanLock(c, mode)
      /\ mutex' = [mutex EXCEPT ![c] =
                     [writer  |-> @.writer \/ mode = "write",
                      readers |-> IF mode = "read" THEN @.readers + 1 ELSE @.readers]]
      /\ lock' = [lock EXCEPT ![c][t] = mode]
      /\ stage' = [stage EXCEPT ![c][t] = "beginning"]
      /\ queue' = queue /\ adapter' = adapter
  BY DEF AcquireWholeDbLock, databaseVars
<1> HIDE DEF mode
<1>3. /\ mutex[c].writer \in BOOLEAN /\ mutex[c].readers \in Nat
      /\ lock[c][t] = "none"
      /\ mode = "write" => ~mutex[c].writer /\ mutex[c].readers = 0
      /\ mode = "read" => ~mutex[c].writer
  BY <1>2 DEF Inv, LockTypeOK, HolderInv, Locking, CanLock
<1>4. \A d \in Cohort \ {c} :
        /\ lock'[d] = lock[d] /\ stage'[d] = stage[d] /\ mutex'[d] = mutex[d]
        /\ \A m \in {"read", "write"} : Holders(d, m)' = Holders(d, m)
  BY <1>2 DEF Inv, LockTypeOK, PerTransaction, Holders
<1>5. /\ lock'[c][t] = mode /\ stage'[c][t] = "beginning"
      /\ \A u \in Transaction \ {t} : lock'[c][u] = lock[c][u] /\ stage'[c][u] = stage[c][u]
  BY <1>2 DEF Inv, LockTypeOK, PerTransaction
<1>6. mutex'[c] = [writer  |-> mutex[c].writer \/ mode = "write",
                   readers |-> IF mode = "read" THEN mutex[c].readers + 1
                                                ELSE mutex[c].readers]
  BY <1>2 DEF Inv, LockTypeOK
<1>7. LockTypeOK'
  BY <1>1, <1>2, <1>3 DEF Inv, LockTypeOK, PerTransaction, Stage
<1>8. QueueInv'
  BY <1>2 DEF Inv, QueueInv, LockTypeOK, PerTransaction
<1>9. HolderInv'
  <2>1. \A u \in Transaction : stage'[c][u] \in Locking => lock'[c][u] = "none"
    BY <1>5 DEF Inv, HolderInv, Locking
  <2>2. /\ IsFiniteSet(Holders(c, "read")')
        /\ mutex'[c].readers = Cardinality(Holders(c, "read")')
    <3>1. CASE mode = "read"
      <4>1. Holders(c, "read")' = Holders(c, "read") \cup {t} /\ t \notin Holders(c, "read")
        BY <1>3, <1>5, <3>1 DEF Holders
      <4>2. IsFiniteSet(Holders(c, "read"))
        BY DEF Inv, HolderInv
      <4>3. /\ IsFiniteSet(Holders(c, "read") \cup {t})
            /\ Cardinality(Holders(c, "read") \cup {t}) = Cardinality(Holders(c, "read")) + 1
        BY <4>1, <4>2, FS_AddElement
      <4> QED
        BY <1>6, <3>1, <4>1, <4>3 DEF Inv, HolderInv
    <3>2. CASE mode # "read"
      <4>1. Holders(c, "read")' = Holders(c, "read")
        BY <1>3, <1>5, <3>2 DEF Holders
      <4> QED
        BY <1>6, <3>2, <4>1 DEF Inv, HolderInv
    <3> QED
      BY <3>1, <3>2
  <2>3. /\ mutex'[c].writer => \E u \in Transaction : Holders(c, "write")' = {u}
        /\ ~mutex'[c].writer => Holders(c, "write")' = {}
        /\ mutex'[c].writer => mutex'[c].readers = 0
    <3>1. CASE mode = "write"
      <4>1. Holders(c, "write") = {}
        BY <1>3, <3>1 DEF Inv, HolderInv
      <4>2. Holders(c, "write")' = {t}
        BY <1>5, <3>1, <4>1 DEF Holders
      <4>3. mutex'[c].writer
        <5>1. mutex'[c].writer = (mutex[c].writer \/ mode = "write")
          BY <1>6
        <5> QED
          BY <3>1, <5>1
      <4>4. mutex'[c].readers = 0
        BY <1>3, <1>6, <3>1
      <4> QED
        BY <4>2, <4>3, <4>4
    <3>2. CASE mode # "write"
      <4>1. Holders(c, "write")' = Holders(c, "write")
        BY <1>3, <1>5, <3>2 DEF Holders
      <4>2. mutex'[c].writer = mutex[c].writer
        BY <1>3, <1>6, <3>2
      <4>3. mutex[c].writer => mutex'[c].readers = mutex[c].readers
        BY <1>3, <1>6
      <4> QED
        BY <4>1, <4>2, <4>3 DEF Inv, HolderInv
    <3> QED
      BY <3>1, <3>2
  <2> QED
    BY <1>4, <2>1, <2>2, <2>3 DEF Inv, HolderInv
<1>10. WriterInv'
  BY <1>2, <1>3, <1>4, <1>5 DEF Inv, WriterInv
<1> QED
  BY <1>7, <1>8, <1>9, <1>10 DEF Inv

\* A transaction ends: it gives back what its metadata say it has.
LEMMA ReleaseInv ==
  ASSUME Inv, NEW c \in Cohort, NEW t \in Transaction,
         stage[c][t] \notin {"none", "queued"},
         NEW s \in {"committed", "aborted"}, stage' = [stage EXCEPT ![c][t] = s],
         ReleaseLocks(c, t), queue' = queue,
         adapter' = [adapter EXCEPT ![c][t] = NoTxn]
  PROVE  Inv'
PROOF
<1>1. /\ mutex' = [mutex EXCEPT ![c] =
                    [writer  |-> @.writer /\ lock[c][t] # "write",
                     readers |-> IF lock[c][t] = "read" THEN @.readers - 1
                                                        ELSE @.readers]]
      /\ lock' = [lock EXCEPT ![c][t] = "none"]
  BY DEF ReleaseLocks
<1>2. /\ mutex[c].writer \in BOOLEAN /\ mutex[c].readers \in Nat
      /\ lock[c][t] \in {"none", "read", "write"}
  BY DEF Inv, LockTypeOK, PerTransaction
<1>3. \A d \in Cohort \ {c} :
        /\ lock'[d] = lock[d] /\ stage'[d] = stage[d] /\ mutex'[d] = mutex[d]
        /\ \A m \in {"read", "write"} : Holders(d, m)' = Holders(d, m)
  BY <1>1 DEF Inv, LockTypeOK, PerTransaction, Holders
<1>4. /\ lock'[c][t] = "none" /\ stage'[c][t] = s
      /\ \A u \in Transaction \ {t} : lock'[c][u] = lock[c][u] /\ stage'[c][u] = stage[c][u]
  BY <1>1 DEF Inv, LockTypeOK, PerTransaction
<1>5. mutex'[c] = [writer  |-> mutex[c].writer /\ lock[c][t] # "write",
                   readers |-> IF lock[c][t] = "read" THEN mutex[c].readers - 1
                                                      ELSE mutex[c].readers]
  BY <1>1 DEF Inv, LockTypeOK
<1>6. Holders(c, "read")' = Holders(c, "read") \ {t}
  BY <1>4 DEF Holders
<1>7. Holders(c, "write")' = Holders(c, "write") \ {t}
  BY <1>4 DEF Holders
<1>8. /\ IsFiniteSet(Holders(c, "read"))
      /\ mutex[c].readers = Cardinality(Holders(c, "read"))
  BY DEF Inv, HolderInv
<1>9. /\ IsFiniteSet(Holders(c, "read") \ {t})
      /\ mutex'[c].readers = Cardinality(Holders(c, "read") \ {t})
      /\ mutex'[c].readers \in Nat
  <2>1. CASE lock[c][t] = "read"
    <3>1. t \in Holders(c, "read")
      BY <2>1 DEF Holders
    <3>2. /\ IsFiniteSet(Holders(c, "read") \ {t})
          /\ Cardinality(Holders(c, "read") \ {t}) = Cardinality(Holders(c, "read")) - 1
      BY <1>8, <3>1, FS_RemoveElement
    <3>3. Cardinality(Holders(c, "read") \ {t}) \in Nat
      BY <3>2, FS_CardinalityType
    <3> QED
      BY <1>5, <1>8, <2>1, <3>2, <3>3
  <2>2. CASE lock[c][t] # "read"
    <3>1. Holders(c, "read") \ {t} = Holders(c, "read")
      BY <2>2 DEF Holders
    <3>2. mutex'[c].readers = mutex[c].readers
      BY <1>5, <2>2
    <3> QED
      BY ONLY <1>2, <1>8, <3>1, <3>2
  <2> QED
    BY <2>1, <2>2
<1>10. LockTypeOK'
  <2>1. mutex' \in [Cohort -> [writer : BOOLEAN, readers : Nat]]
    BY <1>1, <1>2, <1>5, <1>9 DEF Inv, LockTypeOK
  <2>2. stage' \in PerTransaction(Stage) /\ lock' \in PerTransaction({"none", "read", "write"})
    BY <1>1 DEF Inv, LockTypeOK, PerTransaction, Stage
  <2> QED
    BY <2>1, <2>2 DEF Inv, LockTypeOK
<1>11. QueueInv'
  BY DEF Inv, QueueInv, LockTypeOK, PerTransaction
<1>12. HolderInv'
  <2>1. \A u \in Transaction : stage'[c][u] \in Locking => lock'[c][u] = "none"
    BY <1>4 DEF Inv, HolderInv
  <2>2. /\ mutex'[c].writer => \E u \in Transaction : Holders(c, "write")' = {u}
        /\ ~mutex'[c].writer => Holders(c, "write")' = {}
        /\ mutex'[c].writer => mutex'[c].readers = 0
    <3>1. CASE lock[c][t] = "write"
      <4>1. Holders(c, "write") \subseteq {t}
        <5>1. t \in Holders(c, "write")
          BY <3>1 DEF Holders
        <5>2. Holders(c, "write") = {} \/ \E u \in Transaction : Holders(c, "write") = {u}
          BY DEF Inv, HolderInv
        <5> QED
          BY <5>1, <5>2
      <4>2. ~mutex'[c].writer
        <5>1. mutex'[c].writer = (mutex[c].writer /\ lock[c][t] # "write")
          BY <1>5
        <5> QED
          BY <3>1, <5>1
      <4> QED
        BY <1>7, <4>1, <4>2
    <3>2. CASE lock[c][t] # "write"
      <4>1. Holders(c, "write") \ {t} = Holders(c, "write")
        BY <3>2 DEF Holders
      <4>2. mutex'[c].writer = mutex[c].writer
        BY <1>2, <1>5, <3>2
      <4>3. mutex[c].writer => mutex'[c].readers = 0
        <5>1. SUFFICES ASSUME mutex[c].writer PROVE mutex'[c].readers = 0
          OBVIOUS
        <5>2. mutex[c].readers = 0 /\ Holders(c, "read") = {}
          BY <1>8, <5>1, FS_EmptySet DEF Inv, HolderInv
        <5>3. lock[c][t] # "read"
          BY <5>2 DEF Holders
        <5> QED
          BY <1>5, <5>2, <5>3
      <4> QED
        BY <1>7, <4>1, <4>2, <4>3 DEF Inv, HolderInv
    <3> QED
      BY <3>1, <3>2
  <2> QED
    <3>1. ASSUME NEW d \in Cohort \ {c}
          PROVE  /\ \A u \in Transaction : stage'[d][u] \in Locking => lock'[d][u] = "none"
                 /\ IsFiniteSet(Holders(d, "read")')
                 /\ mutex'[d].readers = Cardinality(Holders(d, "read")')
                 /\ mutex'[d].writer => \E u \in Transaction : Holders(d, "write")' = {u}
                 /\ ~mutex'[d].writer => Holders(d, "write")' = {}
                 /\ mutex'[d].writer => mutex'[d].readers = 0
      BY <1>3, <3>1 DEF Inv, HolderInv
    <3>2. /\ IsFiniteSet(Holders(c, "read")')
          /\ mutex'[c].readers = Cardinality(Holders(c, "read")')
      BY <1>6, <1>9
    <3> QED
      BY <2>1, <2>2, <3>1, <3>2 DEF HolderInv
<1>13. WriterInv'
  BY <1>3, <1>4 DEF Inv, WriterInv, NoTxn
<1> QED
  BY <1>10, <1>11, <1>12, <1>13 DEF Inv

\* A transaction begins, for writing only under the exclusive lock.
LEMMA BeginInv ==
  ASSUME Inv, NEW c \in Cohort, NEW t \in Transaction, BeginInDb(c, t)
  PROVE  Inv'
PROOF
<1>1. /\ stage[c][t] = "beginning"
      /\ stage' = [stage EXCEPT ![c][t] = "executing"]
      /\ UNCHANGED <<queue, lock, mutex>>
  BY DEF BeginInDb
<1>2. PICK txn \in {"read-only", "read-write"} :
        /\ adapter' = [adapter EXCEPT ![c][t] = [txn |-> txn, view |-> store[c]]]
        /\ txn = "read-write" => lock[c][t] = "write"
  BY DEF BeginInDb, Begin, BeginReadOnly
<1>3. \A d \in Cohort, u \in Transaction :
        stage'[d][u] = IF d = c /\ u = t THEN "executing" ELSE stage[d][u]
  BY <1>1 DEF Inv, LockTypeOK, PerTransaction
<1>4. LockTypeOK'
  BY <1>1 DEF Inv, LockTypeOK, PerTransaction, Stage
<1>5. QueueInv'
  BY <1>1, <1>3 DEF Inv, QueueInv, LockTypeOK
<1>6. HolderInv'
  <2>1. \A d \in Cohort, mode \in {"read", "write"} : Holders(d, mode)' = Holders(d, mode)
    BY <1>1 DEF Holders
  <2>2. \A d \in Cohort, u \in Transaction :
          stage'[d][u] \in Locking => lock[d][u] = "none"
    BY <1>3 DEF Inv, HolderInv, Locking
  <2> QED
    BY <1>1, <2>1, <2>2 DEF Inv, HolderInv
<1>7. WriterInv'
  BY <1>1, <1>2, <1>3 DEF Inv, WriterInv
<1> QED
  BY <1>4, <1>5, <1>6, <1>7 DEF Inv

\* What does not touch locks, tasks and stages.
LEMMA LocksFrame ==
  ASSUME Inv, UNCHANGED <<queue, stage, lock, mutex>>
  PROVE  LockTypeOK' /\ QueueInv' /\ HolderInv'
PROOF
<1>1. LockTypeOK'
  BY DEF Inv, LockTypeOK
<1>2. QueueInv'
  BY DEF Inv, QueueInv
<1>3. HolderInv'
  <2>1. \A d \in Cohort, mode \in {"read", "write"} : Holders(d, mode)' = Holders(d, mode)
    BY DEF Holders
  <2> QED
    BY <2>1 DEF Inv, HolderInv
<1> QED
  BY <1>1, <1>2, <1>3

\* An operation may change what the transaction has put, no more.
LEMMA OperationInv ==
  ASSUME Inv, NEW c \in Cohort, NEW t \in Transaction, ProcessOperationInDb(c, t)
  PROVE  Inv'
PROOF
<1>1. UNCHANGED <<queue, stage, lock, mutex>>
  BY DEF ProcessOperationInDb
<1>2. \/ adapter' = adapter
      \/ \E key, value : adapter' = [adapter EXCEPT ![c][t].view[key] = value]
  BY DEF ProcessOperationInDb, PutValue, databaseVars
<1>3. WriterInv'
  <2>1. CASE adapter' = adapter
    BY <1>1, <2>1 DEF Inv, WriterInv
  <2>2. ASSUME NEW key, NEW value, adapter' = [adapter EXCEPT ![c][t].view[key] = value]
        PROVE  WriterInv'
    BY <1>1, <2>2 DEF Inv, WriterInv
  <2> QED
    BY <1>2, <2>1, <2>2
<1> QED
  BY <1>1, <1>3, LocksFrame DEF Inv

\* A step elsewhere.
LEMMA FrameInv ==
  ASSUME Inv, UNCHANGED <<queue, stage, lock, mutex, adapter>>
  PROVE  Inv'
PROOF
  BY LocksFrame DEF Inv, WriterInv

\* Every step preserves the invariant.
LEMMA NextInv == Inv /\ [Next]_vars => Inv'
PROOF
<1> SUFFICES ASSUME Inv, [Next]_vars PROVE Inv'
  OBVIOUS
<1>1. CASE UNCHANGED vars
  BY <1>1, FrameInv DEF vars, databaseVars
<1>2. CASE Tick
  BY <1>2, FrameInv DEF Tick, databaseVars
<1>3. ASSUME NEW t \in Transaction, StartVoting(t)
      PROVE  Inv'
  BY <1>3, FrameInv DEF StartVoting, databaseVars
<1>4. ASSUME NEW c \in Cohort, CohortNext(c)
      PROVE  Inv'
  <2>1. CASE StartTask(c)
    BY <2>1, StartInv
  <2>2. CASE Crash(c)
    BY <2>2, FrameInv DEF Crash, databaseVars
  <2>3. ASSUME NEW t \in Transaction
        PROVE  /\ PrepareTransaction(c, t) => Inv'
               /\ AcquireWholeDbLock(c, t) => Inv'
               /\ BeginInDb(c, t) => Inv'
               /\ ProcessOperationInDb(c, t) => Inv'
    BY PrepareInv, AcquireInv, BeginInv, OperationInv
  <2>4. ASSUME NEW t \in Transaction,
               \/ GiveUpLock(c, t) \/ OperationFails(c, t) \/ PersistFails(c, t)
               \/ PersistTransaction(c, t) \/ VoteCommit(c, t)
        PROVE  Inv'
    <3>1. PICK s \in {"aborting", "voting", "waiting"} :
            /\ UNCHANGED <<queue, lock, mutex, adapter>>
            /\ stage' = [stage EXCEPT ![c][t] = s]
            /\ stage[c][t] # "queued"
      BY <2>4 DEF GiveUpLock, OperationFails, PersistFails, PersistTransaction,
                  VoteCommit, Fail, AllDone, databaseVars
    <3>2. s \in Stage \ {"beginning", "queued"} /\ s \notin Locking
      BY DEF Stage, Locking
    <3> QED
      BY <3>1, <3>2, StageInv
  <2>5. ASSUME NEW t \in Transaction,
               CommitOnlyCohort(c, t) \/ CommitDecided(c, t)
        PROVE  Inv'
    BY <2>5, ReleaseInv DEF CommitOnlyCohort, CommitDecided, CommitTransaction,
                            Commit, AllDone
  <2>6. ASSUME NEW t \in Transaction,
               VoteAbort(c, t) \/ AbortDecided(c, t)
        PROVE  Inv'
    BY <2>6, ReleaseInv DEF VoteAbort, AbortDecided, EndAborted, Abort
  <2> QED
    BY <1>4, <2>1, <2>2, <2>3, <2>4, <2>5, <2>6 DEF CohortNext, Process
<1> QED
  BY <1>1, <1>2, <1>3, <1>4 DEF Next
-----------------------------------------------------------------------------
\* So it holds at all times.
LEMMA InvHolds == Spec => []Inv
PROOF
  BY InitInv, NextInv, PTL DEF Spec

\* The mutex of a database is held by exactly those transactions whose metadata
\* say so, and by none that has ended (AcquireWholeDbLock,
\* ReleaseLocksAndDeleteMetadata).
THEOREM LocksAreAlwaysAccountedFor == Spec => []LocksAreAccountedFor
PROOF
<1>1. Inv => LocksAreAccountedFor
  <2> SUFFICES ASSUME Inv, NEW c \in Cohort
               PROVE  /\ mutex[c].readers = Cardinality(Holders(c, "read"))
                      /\ Cardinality(Holders(c, "write"))
                           = (IF mutex[c].writer THEN 1 ELSE 0)
                      /\ mutex[c].writer => mutex[c].readers = 0
                      /\ \A t \in Transaction : lock[c][t] # "none" => t \in Active(c)
    BY DEF LocksAreAccountedFor
  <2>1. /\ mutex[c].readers = Cardinality(Holders(c, "read"))
        /\ mutex[c].writer => mutex[c].readers = 0
    BY DEF Inv, HolderInv
  <2>2. Cardinality(Holders(c, "write")) = (IF mutex[c].writer THEN 1 ELSE 0)
    <3>1. CASE mutex[c].writer
      <4>1. PICK t \in Transaction : Holders(c, "write") = {t}
        BY <3>1 DEF Inv, HolderInv
      <4> QED
        BY <3>1, <4>1, FS_Singleton
    <3>2. CASE ~mutex[c].writer
      BY <3>2, FS_EmptySet DEF Inv, HolderInv
    <3> QED
      BY <3>1, <3>2
  <2>3. \A t \in Transaction : lock[c][t] # "none" => t \in Active(c)
    BY DEF Inv, HolderInv, Locking, Active
  <2> QED
    BY <2>1, <2>2, <2>3
<1> QED
  BY InvHolds, <1>1, PTL

\* A transaction that is about to begin for writing finds no other writer, so
\* that txn::begin does not block its worker (ProcessTransactionInDb).
THEOREM BeginNeverBlocks == Spec => []BeginDoesNotBlock
PROOF
<1>1. Inv => BeginDoesNotBlock
  <2> SUFFICES ASSUME Inv, NEW c \in Cohort, NEW t \in Transaction, NEW u \in Transaction,
                      stage[c][t] = "beginning", lock[c][t] = "write",
                      adapter[c][u].txn = "read-write"
               PROVE  FALSE
    BY DEF BeginDoesNotBlock, WriterOpen
  <2>1. lock[c][u] = "write" /\ u # t
    BY DEF Inv, WriterInv
  <2>2. {t, u} \subseteq Holders(c, "write")
    BY <2>1 DEF Holders
  <2>3. Holders(c, "write") = {} \/ \E w \in Transaction : Holders(c, "write") = {w}
    BY DEF Inv, HolderInv
  <2> QED
    BY <2>1, <2>2, <2>3
<1> QED
  BY InvHolds, <1>1, PTL
=============================================================================
