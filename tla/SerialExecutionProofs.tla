------------------------ MODULE SerialExecutionProofs ------------------------
(***************************************************************************)
(* The databases of the cohorts are one database whose transactions take   *)
(* place one after the other, for any sets of cohorts, transactions and    *)
(* keys, any operations and any numbers of workers.                        *)
(*                                                                         *)
(* The argument: what a transaction does at one database depends on its    *)
(* operations there alone, in their order, so executing all operations one *)
(* after the other and executing each sub-transaction at its database is   *)
(* the same (ExecutionIsLocal).  While a transaction has a lock, nobody    *)
(* changes what it reads: its view and its results are those of its first  *)
(* operations on the committed state (WorkInv).  A cohort that has not     *)
(* voted has no ballot and one that has waits for the decision (VoteInv):  *)
(* when the last ballot makes the decision a commit, every participant is  *)
(* done and has its lock, and that is when the transaction takes place.    *)
(***************************************************************************)
EXTENDS CohortDatabasesProofs, OperationsProofs

-----------------------------------------------------------------------------
(* Executing the operations *)

\* What SerialExecution keeps of one database while a transaction executes.
At == [data : View, results : Seq(Int), ok : BOOLEAN]

LEMMA UnreadType ==
  ASSUME NEW data \in View
  PROVE  Serial!Unread(data) \in At
PROOF
  BY DEF Serial!Unread, At

LEMMA ExecuteType ==
  ASSUME NEW at \in At, NEW op \in Operation
  PROVE  Serial!Execute(at, op) \in At
PROOF
<1> DEFINE current == IF op.type = "relative" /\ at.data[op.key] = NoValue
                      THEN op.default ELSE at.data[op.key]
<1>1. /\ at.data \in View /\ at.results \in Seq(Int) /\ at.ok \in BOOLEAN
      /\ op.key \in Key /\ op.value \in Int /\ op.default \in Int \cup {NoValue}
      /\ op.type \in {"get", "put", "relative", "none"}
  BY DEF At, Operation
<1>2. current \in Int \cup {NoValue}
  BY <1>1 DEF View
<1>3. CASE op.type \in {"get", "relative"} /\ current = NoValue
  <2>1. Serial!Execute(at, op) = [at EXCEPT !.ok = FALSE]
    BY <1>3 DEF Serial!Execute
  <2> QED
    BY <2>1 DEF At
<1>4. CASE op.type = "get" /\ current # NoValue
  <2>1. Serial!Execute(at, op) = [at EXCEPT !.results = Append(@, current)]
    BY <1>4 DEF Serial!Execute
  <2>2. current \in Int
    BY <1>2, <1>4
  <2> HIDE DEF current
  <2>3. Append(at.results, current) \in Seq(Int)
    BY <1>1, <2>2
  <2> QED
    BY <2>1, <2>3 DEF At
<1>5. CASE op.type = "relative" /\ current # NoValue
  <2>1. Serial!Execute(at, op) = [at EXCEPT !.data[op.key] = current + op.value]
    BY <1>5 DEF Serial!Execute
  <2>2. current \in Int
    BY <1>2, <1>5
  <2> HIDE DEF current
  <2>3. [at.data EXCEPT ![op.key] = current + op.value] \in View
    BY <1>1, <2>2 DEF View
  <2> QED
    BY <2>1, <2>3 DEF At
<1>6. CASE op.type = "put"
  <2>1. Serial!Execute(at, op) = [at EXCEPT !.data[op.key] = op.value]
    BY <1>6 DEF Serial!Execute
  <2>2. [at.data EXCEPT ![op.key] = op.value] \in View
    BY <1>1 DEF View
  <2> QED
    BY <2>1, <2>2 DEF At
<1>7. CASE op.type = "none"
  BY <1>7 DEF Serial!Execute
<1> QED
  BY <1>1, <1>3, <1>4, <1>5, <1>6, <1>7

\* s is what the first operations of ops make of one database.
IsLocalExecution(s, ops, data) ==
  s = [i \in 0 .. Len(ops) |-> IF i = 0 THEN Serial!Unread(data)
                               ELSE Serial!Execute(s[i - 1], ops[i])]

\* ops one after the other at a database that has data: what SerialExecution
\* does at each of its databases.
Locally(ops, data) == CHOOSE s : IsLocalExecution(s, ops, data)

LEMMA LocallyStep ==
  ASSUME NEW ops \in Seq(Operation), NEW data \in View
  PROVE  /\ Locally(ops, data)[0] = Serial!Unread(data)
         /\ \A i \in Nat : i < Len(ops) =>
              Locally(ops, data)[i + 1] = Serial!Execute(Locally(ops, data)[i], ops[i + 1])
PROOF
<1> DEFINE step == [n \in Nat |-> [at \in At |->
                      IF n < Len(ops) THEN Serial!Execute(at, ops[n + 1]) ELSE at]]
           start == Serial!Unread(data)
<1>1. Len(ops) \in Nat /\ start \in At
  BY UnreadType
<1>2. \A n \in Nat : n < Len(ops) => ops[n + 1] \in Operation
  OBVIOUS
<1>3. \A n \in Nat, at \in At : n < Len(ops) => Serial!Execute(at, ops[n + 1]) \in At
  BY <1>2, ExecuteType
<1>4. step \in [Nat -> [At -> At]]
  BY <1>3
<1>5. \A n \in Nat, at \in At : n < Len(ops) => step[n][at] = Serial!Execute(at, ops[n + 1])
  OBVIOUS
<1> HIDE DEF step, start
<1>6. PICK g : g \in Approximations(At, start, step, Len(ops))
  <2>1. Approximations(At, start, step, Len(ops)) # {}
    BY <1>1, <1>4, ApproximationExists, Zenon
  <2> QED
    BY <2>1
<1>7. /\ g \in [0 .. Len(ops) -> At]
      /\ g[0] = start
      /\ \A k \in 0 .. Len(ops) - 1 : g[k + 1] = step[k][g[k]]
  BY <1>6 DEF Approximations
<1>8. ASSUME NEW i \in 0 .. Len(ops), i # 0
      PROVE  g[i] = Serial!Execute(g[i - 1], ops[i])
  <2> DEFINE n == i - 1
  <2>1. n \in 0 .. Len(ops) - 1 /\ n \in Nat /\ n < Len(ops) /\ n + 1 = i /\ g[n] \in At
    BY <1>1, <1>7, <1>8
  <2> HIDE DEF n
  <2>2. g[i] = step[n][g[n]]
    BY <1>7, <2>1
  <2>3. step[n][g[n]] = Serial!Execute(g[n], ops[i])
    BY <1>5, <2>1
  <2> QED
    BY <2>2, <2>3 DEF n
<1>9. g = [i \in 0 .. Len(ops) |-> IF i = 0 THEN start
                                   ELSE Serial!Execute(g[i - 1], ops[i])]
  BY <1>7, <1>8
<1>10. IsLocalExecution(g, ops, data)
  BY <1>9, Zenon DEF IsLocalExecution, start
<1> DEFINE s == Locally(ops, data)
<1>11. IsLocalExecution(s, ops, data)
  BY <1>10, Zenon DEF Locally
<1> HIDE DEF s
<1>12. \A i \in 0 .. Len(ops) : s[i] = IF i = 0 THEN start
                                       ELSE Serial!Execute(s[i - 1], ops[i])
  BY <1>11, Zenon DEF IsLocalExecution, start
<1>13. s[0] = start
  BY <1>1, <1>12
<1>14. ASSUME NEW i \in Nat, i < Len(ops)
       PROVE  s[i + 1] = Serial!Execute(s[i], ops[i + 1])
  <2>1. i + 1 \in 0 .. Len(ops) /\ i + 1 # 0 /\ (i + 1) - 1 = i
    BY <1>1, <1>14
  <2> QED
    BY <1>12, <2>1
<1> QED
  BY <1>13, <1>14 DEF s, start

\* s is what the first operations of ops make of all databases.
IsExecution(s, ops, db) ==
  s = [i \in 0 .. Len(ops) |->
         IF i = 0 THEN [c \in Cohort |-> Serial!Unread(db[c])]
         ELSE [s[i - 1] EXCEPT ![ops[i].namespace] = Serial!Execute(@, ops[i])]]

LEMMA ExecutionStep ==
  ASSUME NEW ops \in Seq(Operation), NEW db \in [Cohort -> View]
  PROVE  /\ Serial!Execution(ops, db)[0] = [c \in Cohort |-> Serial!Unread(db[c])]
         /\ \A i \in 0 .. Len(ops) : Serial!Execution(ops, db)[i] \in [Cohort -> At]
         /\ \A i \in Nat : i < Len(ops) =>
              Serial!Execution(ops, db)[i + 1] =
                [Serial!Execution(ops, db)[i] EXCEPT ![ops[i + 1].namespace] =
                   Serial!Execute(@, ops[i + 1])]
PROOF
<1> DEFINE All == [Cohort -> At]
           step == [n \in Nat |-> [all \in All |->
                      IF n < Len(ops)
                      THEN [all EXCEPT ![ops[n + 1].namespace] = Serial!Execute(@, ops[n + 1])]
                      ELSE all]]
           start == [c \in Cohort |-> Serial!Unread(db[c])]
<1>1. Len(ops) \in Nat
  OBVIOUS
<1>2. start \in All
  BY UnreadType
<1>3. \A n \in Nat : n < Len(ops) =>
        ops[n + 1] \in Operation /\ ops[n + 1].namespace \in Cohort
  <2>1. \A n \in Nat : n < Len(ops) => ops[n + 1] \in Operation
    OBVIOUS
  <2> QED
    BY <2>1 DEF Operation
<1>4. ASSUME NEW n \in Nat, n < Len(ops), NEW all \in All
      PROVE  [all EXCEPT ![ops[n + 1].namespace] = Serial!Execute(@, ops[n + 1])] \in All
  <2>1. Serial!Execute(all[ops[n + 1].namespace], ops[n + 1]) \in At
    BY <1>3, <1>4, ExecuteType
  <2> QED
    BY <2>1
<1>5. step \in [Nat -> [All -> All]]
  BY <1>4
<1>6. \A n \in Nat, all \in All : n < Len(ops) =>
        step[n][all] = [all EXCEPT ![ops[n + 1].namespace] = Serial!Execute(@, ops[n + 1])]
  OBVIOUS
<1> HIDE DEF step, start
<1>7. PICK g : g \in Approximations(All, start, step, Len(ops))
  <2> HIDE DEF All
  <2>1. Approximations(All, start, step, Len(ops)) # {}
    BY <1>1, <1>2, <1>5, ApproximationExists, Zenon
  <2> QED
    BY <2>1
<1> HIDE DEF All
<1>8. /\ g \in [0 .. Len(ops) -> All]
      /\ g[0] = start
      /\ \A k \in 0 .. Len(ops) - 1 : g[k + 1] = step[k][g[k]]
  BY <1>7 DEF Approximations
<1>9. ASSUME NEW i \in 0 .. Len(ops), i # 0
      PROVE  g[i] = [g[i - 1] EXCEPT ![ops[i].namespace] = Serial!Execute(@, ops[i])]
  <2> DEFINE n == i - 1
  <2>1. n \in 0 .. Len(ops) - 1 /\ n \in Nat /\ n < Len(ops) /\ n + 1 = i /\ g[n] \in All
    BY <1>1, <1>8, <1>9
  <2> HIDE DEF n
  <2>2. g[i] = step[n][g[n]]
    BY <1>8, <2>1
  <2>3. step[n][g[n]] = [g[n] EXCEPT ![ops[i].namespace] = Serial!Execute(@, ops[i])]
    BY <1>6, <2>1
  <2> QED
    BY <2>2, <2>3 DEF n
<1>10. g = [i \in 0 .. Len(ops) |->
              IF i = 0 THEN start
              ELSE [g[i - 1] EXCEPT ![ops[i].namespace] = Serial!Execute(@, ops[i])]]
  BY <1>8, <1>9
<1>11. IsExecution(g, ops, db)
  BY <1>10, Zenon DEF IsExecution, start
<1> DEFINE s == Serial!Execution(ops, db)
<1>12. IsExecution(s, ops, db)
  <2>1. s = CHOOSE x : IsExecution(x, ops, db)
    BY DEF Serial!Execution, IsExecution
  <2> QED
    BY <1>11, <2>1, Zenon
<1> HIDE DEF s
<1>13. \A i \in 0 .. Len(ops) :
         s[i] = IF i = 0 THEN start
                ELSE [s[i - 1] EXCEPT ![ops[i].namespace] = Serial!Execute(@, ops[i])]
  BY <1>12, Zenon DEF IsExecution, start
<1>14. s[0] = start
  <2>1. 0 \in 0 .. Len(ops)
    BY <1>1
  <2> QED
    BY <1>13, <2>1, Zenon
<1>15. ASSUME NEW i \in Nat, i < Len(ops)
       PROVE  s[i + 1] = [s[i] EXCEPT ![ops[i + 1].namespace] = Serial!Execute(@, ops[i + 1])]
  <2>1. i + 1 \in 0 .. Len(ops) /\ i + 1 # 0 /\ (i + 1) - 1 = i
    BY <1>1, <1>15
  <2> QED
    BY <1>13, <2>1
<1> DEFINE P == {i \in Nat : i <= Len(ops) => s[i] \in All}
<1>16. 0 \in P
  BY <1>2, <1>14
<1>17. ASSUME NEW i \in Nat, i \in P
       PROVE  i + 1 \in P
  <2> SUFFICES ASSUME i + 1 <= Len(ops)
               PROVE  s[i + 1] \in All
    OBVIOUS
  <2>1. i < Len(ops) /\ s[i] \in All
    BY <1>1, <1>17
  <2> QED
    BY <1>4, <1>15, <2>1
<1> HIDE DEF P
<1>18. \A i \in Nat : i \in P
  BY <1>16, <1>17, NatInductionSet
<1>19. \A i \in 0 .. Len(ops) : s[i] \in All
  BY <1>1, <1>18 DEF P
<1> QED
  BY <1>14, <1>15, <1>19 DEF s, start, All

\* Executing all operations one after the other does at each database what
\* executing its own operations there does, after each of them.
LEMMA ExecutionIsLocal ==
  ASSUME NEW ops \in Seq(Operation), NEW db \in [Cohort -> View], NEW c \in Cohort
  PROVE  Serial!Execution(ops, db)[Len(ops)][c]
           = Locally(SubTransaction(ops, c), db[c])[Len(SubTransaction(ops, c))]
PROOF
<1> DEFINE all   == Serial!Execution(ops, db)
           local == Locally(SubTransaction(ops, c), db[c])
           sub   == Split(ops, c)
           P     == {i \in Nat : i <= Len(ops) => all[i][c] = local[Len(sub[i])]}
<1>1. Len(ops) \in Nat
  OBVIOUS
<1>2. /\ all[0] = [d \in Cohort |-> Serial!Unread(db[d])]
      /\ \A i \in 0 .. Len(ops) : all[i] \in [Cohort -> At]
      /\ \A i \in Nat : i < Len(ops) =>
           all[i + 1] = [all[i] EXCEPT ![ops[i + 1].namespace] =
                           Serial!Execute(@, ops[i + 1])]
  BY ExecutionStep
<1>3. /\ SubTransaction(ops, c) \in Seq(Operation)
      /\ Len(SubTransaction(ops, c)) \in Nat
      /\ db[c] \in View
  BY SubTransactionType
<1>4. /\ local[0] = Serial!Unread(db[c])
      /\ \A j \in Nat : j < Len(SubTransaction(ops, c)) =>
           local[j + 1] = Serial!Execute(local[j], SubTransaction(ops, c)[j + 1])
  BY <1>3, LocallyStep
<1>5. /\ sub[0] = << >>
      /\ \A i \in 0 .. Len(ops) : sub[i] \in Seq(Operation)
      /\ \A i \in Nat : i < Len(ops) /\ ops[i + 1].namespace # c => sub[i + 1] = sub[i]
  BY SplitStep
<1>6. ASSUME NEW i \in Nat, i < Len(ops), ops[i + 1].namespace = c
      PROVE  /\ Len(sub[i + 1]) = Len(sub[i]) + 1
             /\ Len(sub[i]) + 1 \in 1 .. Len(SubTransaction(ops, c))
             /\ SubTransaction(ops, c)[Len(sub[i]) + 1] = ops[i + 1]
  BY <1>6, SplitPlace
<1> HIDE DEF all, local, sub
<1>7. 0 \in P
  <2>1. all[0][c] = Serial!Unread(db[c]) /\ Len(sub[0]) = 0
    BY <1>2, <1>5
  <2> QED
    BY <1>4, <2>1
<1>8. ASSUME NEW i \in Nat, i \in P
      PROVE  i + 1 \in P
  <2> SUFFICES ASSUME i + 1 <= Len(ops)
               PROVE  all[i + 1][c] = local[Len(sub[i + 1])]
    OBVIOUS
  <2>1. i < Len(ops) /\ i \in 0 .. Len(ops) /\ all[i][c] = local[Len(sub[i])]
    BY <1>1, <1>8
  <2>2. all[i] \in [Cohort -> At] /\ sub[i] \in Seq(Operation) /\ Len(sub[i]) \in Nat
    BY <1>2, <1>5, <2>1
  <2>3. all[i + 1] = [all[i] EXCEPT ![ops[i + 1].namespace] =
                        Serial!Execute(@, ops[i + 1])]
    BY <1>2, <2>1
  <2>4. CASE ops[i + 1].namespace = c
    <3>1. all[i + 1][c] = Serial!Execute(all[i][c], ops[i + 1])
      BY <2>2, <2>3, <2>4
    <3>2. /\ Len(sub[i + 1]) = Len(sub[i]) + 1
          /\ Len(sub[i]) < Len(SubTransaction(ops, c))
          /\ SubTransaction(ops, c)[Len(sub[i]) + 1] = ops[i + 1]
      BY <1>3, <1>6, <2>1, <2>2, <2>4
    <3>3. local[Len(sub[i]) + 1] = Serial!Execute(local[Len(sub[i])], ops[i + 1])
      BY <1>4, <2>2, <3>2
    <3> QED
      BY <2>1, <3>1, <3>2, <3>3
  <2>5. CASE ops[i + 1].namespace # c
    <3>1. all[i + 1][c] = all[i][c]
      BY <2>2, <2>3, <2>5
    <3> QED
      BY <1>5, <2>1, <2>5, <3>1
  <2> QED
    BY <2>4, <2>5
<1> HIDE DEF P
<1>9. Len(ops) \in P
  BY <1>1, <1>7, <1>8, NatInductionSet
<1> QED
  BY <1>1, <1>9 DEF P, all, local, sub, SubTransaction

\* Operations that neither get nor put do nothing.
LEMMA LocallyNothing ==
  ASSUME NEW ops \in Seq(Operation), NEW data \in View, ~HasGet(ops), ~HasPut(ops)
  PROVE  Locally(ops, data)[Len(ops)] = Serial!Unread(data)
PROOF
<1> DEFINE s == Locally(ops, data)
           P == {i \in Nat : i <= Len(ops) => s[i] = Serial!Unread(data)}
<1>1. Len(ops) \in Nat
  OBVIOUS
<1>2. /\ s[0] = Serial!Unread(data)
      /\ \A i \in Nat : i < Len(ops) => s[i + 1] = Serial!Execute(s[i], ops[i + 1])
  BY LocallyStep
<1> HIDE DEF s
<1>3. 0 \in P
  BY <1>2
<1>4. ASSUME NEW i \in Nat, i \in P
      PROVE  i + 1 \in P
  <2> SUFFICES ASSUME i + 1 <= Len(ops)
               PROVE  s[i + 1] = Serial!Unread(data)
    OBVIOUS
  <2>1. i < Len(ops) /\ i + 1 \in DOMAIN ops /\ ops[i + 1] \in Operation
    BY <1>1
  <2>2. ops[i + 1].type = "none"
    BY <2>1 DEF HasGet, HasPut, Operation
  <2>3. Serial!Execute(s[i], ops[i + 1]) = s[i]
    BY <2>2 DEF Serial!Execute
  <2> QED
    BY <1>1, <1>2, <1>4, <2>1, <2>3
<1> HIDE DEF P
<1>5. Len(ops) \in P
  BY <1>1, <1>3, <1>4, NatInductionSet
<1> QED
  BY <1>5 DEF P, s

-----------------------------------------------------------------------------
(* The inductive invariant *)

DataTypeOK ==
  /\ DatabaseTypeOK
  /\ block_time \in 0 .. MaxTime
  /\ down \subseteq Cohort
  /\ done \in PerTransaction(Nat)
  /\ gets \in PerTransaction(Seq(Int))
  /\ db_status \in PerTransaction(DbStatus)

Started    == {"executing", "voting", "waiting"}
NotStarted == {"none", "queued", "locking", "beginning"}

\* A transaction at a cohort: how it has begun, what it has done, and that what
\* it has seen of the committed state is what is there now.
WorkInv(c, t) ==
  /\ db_status[c][t] # "failed_precondition"
  /\ stage[c][t] \in NotStarted =>
       adapter[c][t].txn = "none" /\ done[c][t] = 0 /\ gets[c][t] = << >>
  /\ Ended(c, t) => adapter[c][t].txn = "none"
  /\ stage[c][t] \in {"beginning"} \cup Started => lock[c][t] = LockMode(OpsAt(c, t))
  /\ stage[c][t] \in Started =>
       /\ adapter[c][t].txn = (IF lock[c][t] = "write" THEN "read-write" ELSE "read-only")
       /\ done[c][t] <= Len(OpsAt(c, t))
       /\ stage[c][t] # "executing" => done[c][t] = Len(OpsAt(c, t))
       /\ lock[c][t] # "none" =>
            Locally(OpsAt(c, t), store[c])[done[c][t]]
              = [data |-> adapter[c][t].view, results |-> gets[c][t], ok |-> TRUE]
       /\ lock[c][t] = "read" => adapter[c][t].view = store[c]
       /\ lock[c][t] = "none" => gets[c][t] = << >>

\* The entries the contract can have for a voting of n cohorts.
VotingOf(n) == [cohorts : {n}, vote_timeout_time : Nat, ballots : [0 .. n - 1 -> Ballot]]

EntryInv(t) ==
  \/ voting[t] = NoVoting
  \/ ~OnlyCohort(t) /\ voting[t] \in VotingOf(Cardinality(Participants(Ops[t])))

BallotOf(c, t) == voting[t].ballots[Index(c, t)]

\* The ballot of a cohort is cast in its Vote, and its transaction ends by the
\* decision, or by giving up before or instead of a COMMIT vote.
VoteInv(c, t) ==
  /\ stage[c][t] # "none" =>
       c \in Participants(Ops[t]) /\ (OnlyCohort(t) \/ HasVoting(voting[t]))
  /\ HasVoting(voting[t]) /\ c \in Participants(Ops[t])
       /\ stage[c][t] \notin {"waiting", "committed", "aborted"} =>
       BallotOf(c, t) = "UNKNOWN"
  /\ stage[c][t] = "committed" /\ ~OnlyCohort(t) => AllVotedToCommit(voting[t])
  /\ stage[c][t] = "aborted" /\ ~OnlyCohort(t) =>
       \/ VotedToAbort(voting[t])
       \/ BallotOf(c, t) = "UNKNOWN"
       \/ block_time >= voting[t].vote_timeout_time /\ ~AllVotedToCommit(voting[t])

ExecutionInv ==
  /\ Inv
  /\ DataTypeOK
  /\ DOMAIN voting = Transaction
  /\ \A t \in Transaction : EntryInv(t)
  /\ \A c \in Cohort, t \in Transaction : WorkInv(c, t) /\ VoteInv(c, t)

-----------------------------------------------------------------------------
(* What the parts of the invariant depend on *)

LEMMA OpsAtType ==
  ASSUME NEW c \in Cohort, NEW t \in Transaction
  PROVE  /\ OpsAt(c, t) = SubTransaction(Ops[t], c)
         /\ OpsAt(c, t) \in Seq(Operation)
         /\ Len(OpsAt(c, t)) \in Nat
         /\ c \notin Participants(Ops[t]) => OpsAt(c, t) = << >>
PROOF
<1>1. OpsAt(c, t) = SubTransaction(Ops[t], c)
  BY DEF OpsAt, SubTransactions
<1>2. Ops[t] \in Seq(Operation)
  BY OpsAssumption
<1>3. SubTransaction(Ops[t], c) \in Seq(Operation) /\ Len(SubTransaction(Ops[t], c)) \in Nat
  BY <1>2, SubTransactionType
<1> QED
  BY <1>1, <1>3 DEF Participants

LEMMA IndexType ==
  ASSUME NEW t \in Transaction, NEW c \in Participants(Ops[t])
  PROVE  /\ Index(c, t) \in 0 .. Cardinality(Participants(Ops[t])) - 1
         /\ \A d \in Participants(Ops[t]) : Index(c, t) = Index(d, t) => c = d
PROOF
<1>1. IsNumbering(CohortIndex(Ops[t]), Participants(Ops[t]))
  BY OpsAssumption, CohortIndexNumbers
<1>2. Indices[t] = CohortIndex(Ops[t])
  BY DEF Indices
<1> QED
  BY <1>1, <1>2 DEF IsNumbering, Index

\* A transaction with a voting has several participants, one without has none
\* to vote.
LEMMA EntryType ==
  ASSUME NEW t \in Transaction, EntryInv(t)
  PROVE  /\ ~HasVoting(voting[t]) => voting[t] = NoVoting
         /\ HasVoting(voting[t]) =>
              /\ ~OnlyCohort(t)
              /\ voting[t] \in VotingOf(Cardinality(Participants(Ops[t])))
              /\ \A c \in Participants(Ops[t]) :
                   Index(c, t) \in DOMAIN voting[t].ballots /\ BallotOf(c, t) \in Ballot
PROOF
<1>1. ~HasVoting(NoVoting)
  BY DEF HasVoting, NoVoting
<1> SUFFICES ASSUME HasVoting(voting[t])
             PROVE  /\ ~OnlyCohort(t)
                    /\ voting[t] \in VotingOf(Cardinality(Participants(Ops[t])))
                    /\ \A c \in Participants(Ops[t]) :
                         /\ Index(c, t) \in DOMAIN voting[t].ballots
                         /\ BallotOf(c, t) \in Ballot
  <2>1. CASE voting[t] = NoVoting
    BY <1>1, <2>1
  <2>2. CASE ~OnlyCohort(t) /\ voting[t] \in VotingOf(Cardinality(Participants(Ops[t])))
    <3>1. Ops[t] \in Seq(Operation)
      BY OpsAssumption
    <3>2. IsFiniteSet(Participants(Ops[t])) /\ Cardinality(Participants(Ops[t])) \in Nat
      BY <3>1, ParticipantsFinite
    <3>3. t \notin OnlyCohorts
      BY <2>2 DEF OnlyCohort
    <3>4. Cardinality(Participants(Ops[t])) > 1
      BY <3>3 DEF OnlyCohorts, RequiresBlockchain
    <3>5. HasVoting(voting[t])
      BY <2>2, <3>2, <3>4 DEF HasVoting, VotingOf
    <3> QED
      BY <3>5
  <2> QED
    BY <2>1, <2>2 DEF EntryInv
<1>2. ~OnlyCohort(t) /\ voting[t] \in VotingOf(Cardinality(Participants(Ops[t])))
  BY <1>1 DEF EntryInv
<1>3. voting[t].ballots \in [0 .. Cardinality(Participants(Ops[t])) - 1 -> Ballot]
  BY <1>2 DEF VotingOf
<1>4. ASSUME NEW c \in Participants(Ops[t])
      PROVE  Index(c, t) \in DOMAIN voting[t].ballots /\ BallotOf(c, t) \in Ballot
  BY <1>3, IndexType DEF BallotOf
<1> QED
  BY <1>2, <1>4

\* The decision to commit depends on the ballots alone.
LEMMA CommitDecision ==
  ASSUME NEW t \in Transaction
  PROVE  DecisionOf(t) = "COMMIT" <=>
           HasVoting(voting[t]) /\ ~VotedToAbort(voting[t]) /\ AllVotedToCommit(voting[t])
PROOF
  BY DEF DecisionOf, getVotingDecision

\* Whoever holds the lock exclusively is alone.
LEMMA Exclusive ==
  ASSUME Inv, NEW c \in Cohort, NEW t \in Transaction, NEW u \in Transaction,
         lock[c][t] = "write", u # t
  PROVE  lock[c][u] = "none"
PROOF
<1>1. t \in Holders(c, "write")
  BY DEF Holders
<1>2. mutex[c].writer /\ mutex[c].readers = 0 /\ Holders(c, "write") = {t}
  BY <1>1 DEF Inv, HolderInv
<1>3. Holders(c, "read") = {}
  BY <1>2, FS_EmptySet DEF Inv, HolderInv
<1>4. lock[c][u] \in {"none", "read", "write"}
  BY DEF Inv, LockTypeOK, PerTransaction
<1> QED
  BY <1>2, <1>3, <1>4 DEF Holders

\* A transaction at a cohort where nothing happens, or nothing it has locked.
Same(c, t) ==
  /\ stage'[c][t] = stage[c][t]
  /\ adapter'[c][t] = adapter[c][t]
  /\ done'[c][t] = done[c][t]
  /\ gets'[c][t] = gets[c][t]
  /\ db_status'[c][t] = db_status[c][t]
  /\ lock'[c][t] = lock[c][t]
  /\ store'[c] = store[c] \/ lock[c][t] = "none"

LEMMA WorkFrame ==
  ASSUME NEW c \in Cohort, NEW t \in Transaction, WorkInv(c, t), Same(c, t)
  PROVE  WorkInv(c, t)'
PROOF
<1> USE DEF Same, WorkInv, Ended
<1>1. CASE store'[c] = store[c]
  BY <1>1
<1>2. CASE lock[c][t] = "none"
  BY <1>2
<1> QED
  BY <1>1, <1>2

LEMMA VoteFrame ==
  ASSUME NEW c \in Cohort, NEW t \in Transaction, VoteInv(c, t),
         stage'[c][t] = stage[c][t], voting'[t] = voting[t],
         block_time' = block_time \/ block_time' = block_time + 1,
         block_time \in Nat, EntryInv(t)
  PROVE  VoteInv(c, t)'
PROOF
<1>1. BallotOf(c, t)' = BallotOf(c, t)
  BY DEF BallotOf
<1>2. voting[t].vote_timeout_time \in Nat
  BY DEF EntryInv, NoVoting, VotingOf
<1>3. block_time >= voting[t].vote_timeout_time => block_time' >= voting'[t].vote_timeout_time
  BY <1>2
<1> QED
  BY <1>1, <1>3 DEF VoteInv

\* In the beginning.
LEMMA ExecutionInvInit == Init => ExecutionInv
PROOF
<1> SUFFICES ASSUME Init PROVE ExecutionInv
  OBVIOUS
<1> USE DEF Init, ForAll
<1>1. Inv
  BY InitInv
<1>2. DataTypeOK
  <2>1. Initial \in [Cohort -> View] /\ 0 \in 0 .. MaxTime /\ << >> \in Seq(Int)
    BY InitialAssumption, BoundsAssumption
  <2>2. DatabaseTypeOK
    BY <2>1 DEF DatabaseTypeOK, DatabaseInit, NoTxn, View
  <2> QED
    BY <2>1, <2>2 DEF DataTypeOK, PerTransaction, DbStatus
<1>3. DOMAIN voting = Transaction /\ \A t \in Transaction : voting[t] = NoVoting
  OBVIOUS
<1>4. \A t \in Transaction : EntryInv(t)
  BY <1>3 DEF EntryInv
<1>5. ASSUME NEW c \in Cohort, NEW t \in Transaction
      PROVE  WorkInv(c, t) /\ VoteInv(c, t)
  <2>1. WorkInv(c, t)
    BY DEF WorkInv, NotStarted, Started, Ended, DatabaseInit, NoTxn
  <2>2. VoteInv(c, t)
    BY <1>3 DEF VoteInv, HasVoting, NoVoting
  <2> QED
    BY <2>1, <2>2
<1> QED
  BY <1>1, <1>2, <1>3, <1>4, <1>5 DEF ExecutionInv

-----------------------------------------------------------------------------
(* Steps of one transaction at one cohort *)

\* The stages from which a transaction can go neither to a COMMIT vote that may
\* have been counted nor to an end without a further step.
Undecided == Stage \ {"none", "waiting", "committed", "aborted"}

LEMMA VoteMove ==
  ASSUME NEW c \in Cohort, NEW t \in Transaction, VoteInv(c, t), voting' = voting,
         c \in Participants(Ops[t]), OnlyCohort(t) \/ HasVoting(voting[t]),
         stage[c][t] \in {"none"} \cup Undecided, stage'[c][t] \in Undecided
  PROVE  VoteInv(c, t)'
PROOF
<1>1. BallotOf(c, t)' = BallotOf(c, t)
  BY DEF BallotOf
<1>2. stage[c][t] \notin {"waiting", "committed", "aborted"}
      /\ stage'[c][t] \notin {"waiting", "committed", "aborted"}
  BY DEF Undecided
<1> QED
  BY <1>1, <1>2 DEF VoteInv

\* A step of t at c leaves all else alone.
LEMMA Assemble ==
  ASSUME ExecutionInv, Inv', DataTypeOK', voting' = voting, block_time' = block_time,
         NEW c \in Cohort, NEW t \in Transaction,
         \A d \in Cohort, u \in Transaction : d # c \/ u # t => Same(d, u),
         WorkInv(c, t)', VoteInv(c, t)'
  PROVE  ExecutionInv'
PROOF
<1>1. block_time \in Nat
  BY BoundsAssumption DEF ExecutionInv, DataTypeOK
<1>2. \A u \in Transaction : EntryInv(u)'
  BY DEF ExecutionInv, EntryInv
<1>3. ASSUME NEW d \in Cohort, NEW u \in Transaction
      PROVE  WorkInv(d, u)' /\ VoteInv(d, u)'
  <2>1. CASE d = c /\ u = t
    BY <2>1
  <2>2. CASE d # c \/ u # t
    <3>1. Same(d, u) /\ WorkInv(d, u) /\ VoteInv(d, u) /\ EntryInv(u)
      BY <2>2 DEF ExecutionInv
    <3>2. WorkInv(d, u)'
      BY <3>1, WorkFrame
    <3>3. stage'[d][u] = stage[d][u] /\ voting'[u] = voting[u]
      BY <3>1 DEF Same
    <3>4. VoteInv(d, u)'
      BY <1>1, <3>1, <3>3, VoteFrame
    <3> QED
      BY <3>2, <3>4
  <2> QED
    BY <2>1, <2>2
<1> QED
  BY <1>2, <1>3 DEF ExecutionInv

\* Steps to another stage that do not touch the databases.
LEMMA MoveStep ==
  ASSUME ExecutionInv, Inv',
         NEW c \in Cohort, NEW t \in Transaction, NEW s \in Undecided,
         stage' = [stage EXCEPT ![c][t] = s],
         stage[c][t] \in {"none"} \cup Undecided,
         UNCHANGED <<store, adapter, done, gets, voting, block_time, down>>,
         NEW status \in DbStatus \ {"failed_precondition"},
         db_status' = db_status \/ db_status' = [db_status EXCEPT ![c][t] = status],
         NEW mode, lock' = lock \/ lock' = [lock EXCEPT ![c][t] = mode],
         c \in Participants(Ops[t]), OnlyCohort(t) \/ HasVoting(voting[t]),
         WorkInv(c, t)'
  PROVE  ExecutionInv'
PROOF
<1>1. DataTypeOK'
  <2>1. db_status' \in PerTransaction(DbStatus)
    <3>1. db_status \in PerTransaction(DbStatus) /\ status \in DbStatus
      BY DEF ExecutionInv, DataTypeOK
    <3>2. CASE db_status' = db_status
      BY <3>1, <3>2
    <3>3. CASE db_status' = [db_status EXCEPT ![c][t] = status]
      BY <3>1, <3>3 DEF PerTransaction
    <3> QED
      BY <3>2, <3>3
  <2> QED
    BY <2>1 DEF ExecutionInv, DataTypeOK, DatabaseTypeOK
<1>2. stage'[c][t] = s
  BY DEF ExecutionInv, Inv, LockTypeOK, PerTransaction
<1>3. VoteInv(c, t)'
  BY <1>2, VoteMove DEF ExecutionInv
<1>4. ASSUME NEW d \in Cohort, NEW u \in Transaction, d # c \/ u # t
      PROVE  Same(d, u)
  <2>1. stage'[d][u] = stage[d][u]
    BY <1>4 DEF ExecutionInv, Inv, LockTypeOK, PerTransaction
  <2>2. db_status'[d][u] = db_status[d][u]
    BY <1>4 DEF ExecutionInv, DataTypeOK, PerTransaction
  <2>3. lock'[d][u] = lock[d][u]
    BY <1>4 DEF ExecutionInv, Inv, LockTypeOK, PerTransaction
  <2> QED
    BY <2>1, <2>2, <2>3 DEF Same
<1> QED
  BY <1>1, <1>3, <1>4, Assemble

LEMMA ParticipantFacts ==
  ASSUME ExecutionInv, NEW c \in Cohort, NEW t \in Transaction, stage[c][t] # "none"
  PROVE  c \in Participants(Ops[t]) /\ (OnlyCohort(t) \/ HasVoting(voting[t]))
PROOF
  BY DEF ExecutionInv, VoteInv

LEMMA PrepareExecution ==
  ASSUME ExecutionInv, Inv', NEW c \in Cohort, NEW t \in Transaction,
         PrepareTransaction(c, t)
  PROVE  ExecutionInv'
PROOF
<1>1. /\ stage[c][t] = "none" /\ stage' = [stage EXCEPT ![c][t] = "queued"]
      /\ UNCHANGED <<store, adapter, done, gets, db_status, voting, block_time, down, lock>>
      /\ c \in Participants(Ops[t]) /\ (OnlyCohort(t) \/ HasVoting(voting[t]))
  BY DEF PrepareTransaction, databaseVars, executionVars, chainVars
<1>2. stage'[c][t] = "queued"
  BY <1>1 DEF ExecutionInv, Inv, LockTypeOK, PerTransaction
<1>3. WorkInv(c, t)
  BY DEF ExecutionInv
<1>4. WorkInv(c, t)'
  BY <1>1, <1>2, <1>3 DEF WorkInv, NotStarted, Started, Ended
<1>5. "queued" \in Undecided /\ "ok" \in DbStatus \ {"failed_precondition"}
  BY DEF Undecided, Stage, DbStatus
<1> QED
  BY <1>1, <1>4, <1>5, MoveStep

LEMMA StartExecution ==
  ASSUME ExecutionInv, Inv', NEW c \in Cohort, StartTask(c)
  PROVE  ExecutionInv'
PROOF
<1>1. queue[c] \in Seq(Transaction) /\ queue[c] # << >>
  BY DEF StartTask, ExecutionInv, Inv, LockTypeOK
<1>2. PICK t \in Transaction :
        t = Head(queue[c]) /\ t = queue[c][1] /\ 1 \in 1 .. Len(queue[c])
  <2>1. Head(queue[c]) \in Transaction /\ Head(queue[c]) = queue[c][1]
        /\ 1 \in 1 .. Len(queue[c])
    BY <1>1
  <2> QED
    BY <2>1
<1>3. stage[c][t] = "queued"
  BY <1>2 DEF ExecutionInv, Inv, QueueInv
<1>4. /\ stage' = [stage EXCEPT ![c][t] = "locking"]
      /\ UNCHANGED <<store, adapter, done, gets, db_status, voting, block_time, down, lock>>
  BY <1>2 DEF StartTask, databaseVars, executionVars, chainVars
<1>5. stage'[c][t] = "locking"
  BY <1>2, <1>4 DEF ExecutionInv, Inv, LockTypeOK, PerTransaction
<1>6. WorkInv(c, t)
  BY <1>2 DEF ExecutionInv
<1>7. WorkInv(c, t)'
  BY <1>3, <1>4, <1>5, <1>6 DEF WorkInv, NotStarted, Started, Ended
<1>8. /\ "queued" \in Undecided /\ "locking" \in Undecided
      /\ "ok" \in DbStatus \ {"failed_precondition"}
  BY DEF Undecided, Stage, DbStatus
<1>9. c \in Participants(Ops[t]) /\ (OnlyCohort(t) \/ HasVoting(voting[t]))
  BY <1>2, <1>3, ParticipantFacts
<1> QED
  BY <1>2, <1>3, <1>4, <1>7, <1>8, <1>9, MoveStep

LEMMA AcquireExecution ==
  ASSUME ExecutionInv, Inv', NEW c \in Cohort, NEW t \in Transaction,
         AcquireWholeDbLock(c, t)
  PROVE  ExecutionInv'
PROOF
<1> DEFINE mode == LockMode(OpsAt(c, t))
<1>1. /\ stage[c][t] = "locking" /\ stage' = [stage EXCEPT ![c][t] = "beginning"]
      /\ lock' = [lock EXCEPT ![c][t] = mode]
      /\ UNCHANGED <<store, adapter, done, gets, db_status, voting, block_time, down>>
  BY DEF AcquireWholeDbLock, databaseVars, executionVars, chainVars
<1> HIDE DEF mode
<1>2. stage'[c][t] = "beginning" /\ lock'[c][t] = mode
  BY <1>1 DEF ExecutionInv, Inv, LockTypeOK, PerTransaction
<1>3. WorkInv(c, t)
  BY DEF ExecutionInv
<1>4. WorkInv(c, t)'
  BY <1>1, <1>2, <1>3 DEF WorkInv, NotStarted, Started, Ended, mode
<1>5. /\ "beginning" \in Undecided /\ "locking" \in Undecided
      /\ "ok" \in DbStatus \ {"failed_precondition"}
  BY DEF Undecided, Stage, DbStatus
<1>6. c \in Participants(Ops[t]) /\ (OnlyCohort(t) \/ HasVoting(voting[t]))
  BY <1>1, ParticipantFacts
<1> QED
  BY <1>1, <1>4, <1>5, <1>6, MoveStep

\* What has begun for its operations can do each of them.
LEMMA NextOpFacts ==
  ASSUME ExecutionInv, NEW c \in Cohort, NEW t \in Transaction,
         stage[c][t] = "executing", done[c][t] < Len(OpsAt(c, t)),
         NEW op, op = NextOp(c, t)
  PROVE  /\ op \in Operation
         /\ done[c][t] + 1 \in 1 .. Len(OpsAt(c, t))
         /\ op.type \in {"put", "relative"} =>
              lock[c][t] = "write" /\ adapter[c][t].txn = "read-write"
         /\ op.type = "get" => lock[c][t] # "none"
         /\ adapter[c][t].txn # "none"
PROOF
<1>1. done[c][t] \in Nat
  BY DEF ExecutionInv, DataTypeOK, PerTransaction
<1>2. OpsAt(c, t) \in Seq(Operation) /\ Len(OpsAt(c, t)) \in Nat
  BY OpsAtType
<1>3. done[c][t] + 1 \in 1 .. Len(OpsAt(c, t)) /\ done[c][t] + 1 \in DOMAIN OpsAt(c, t)
  BY <1>1, <1>2
<1>4. op \in Operation
  BY <1>2, <1>3 DEF NextOp
<1>5. /\ lock[c][t] = LockMode(OpsAt(c, t))
      /\ adapter[c][t].txn = (IF lock[c][t] = "write" THEN "read-write" ELSE "read-only")
  BY DEF ExecutionInv, WorkInv, Started
<1>6. ASSUME op.type \in {"put", "relative"}
      PROVE  lock[c][t] = "write"
  <2>1. HasPut(OpsAt(c, t))
    BY <1>3, <1>6 DEF HasPut, NextOp
  <2> QED
    BY <1>5, <2>1 DEF LockMode
<1>7. ASSUME op.type = "get"
      PROVE  lock[c][t] # "none"
  <2>1. HasGet(OpsAt(c, t))
    BY <1>3, <1>7 DEF HasGet, NextOp
  <2> QED
    BY <1>5, <2>1 DEF LockMode
<1> QED
  BY <1>3, <1>4, <1>5, <1>6, <1>7

LEMMA OperationStatusType ==
  ASSUME ExecutionInv, NEW c \in Cohort, NEW t \in Transaction,
         stage[c][t] = "executing", done[c][t] < Len(OpsAt(c, t))
  PROVE  OperationStatus(c, t, NextOp(c, t)) \in DbStatus \ {"failed_precondition"}
PROOF
<1>1. PICK op \in Operation :
        /\ op = NextOp(c, t)
        /\ op.type \in {"put", "relative"} => adapter[c][t].txn = "read-write"
        /\ adapter[c][t].txn # "none"
  BY NextOpFacts
<1>2. GetStatus(c, t, op.key) \in {"ok", "internal"}
  BY <1>1 DEF GetStatus
<1>3. op.type \in {"get", "put", "relative", "none"}
  BY DEF Operation
<1>4. op.type \in {"put", "relative"} => PutStatus(c, t) = "ok"
  BY <1>1 DEF PutStatus
<1>5. OperationStatus(c, t, op) \in {"ok", "internal"}
  BY <1>2, <1>3, <1>4 DEF OperationStatus, UsesDefault
<1> QED
  BY <1>1, <1>5 DEF DbStatus

LEMMA FailExecution ==
  ASSUME ExecutionInv, Inv', NEW c \in Cohort, NEW t \in Transaction,
         GiveUpLock(c, t) \/ OperationFails(c, t) \/ PersistFails(c, t)
  PROVE  ExecutionInv'
PROOF
<1>1. PICK status \in DbStatus \ {"failed_precondition"} :
        /\ stage[c][t] \in {"locking", "executing"}
        /\ Fail(c, t, status)
        /\ UNCHANGED <<store, adapter, done, gets, voting, block_time, down, lock>>
  <2>1. CASE GiveUpLock(c, t)
    BY <2>1 DEF GiveUpLock, DbStatus, databaseVars, chainVars
  <2>2. CASE OperationFails(c, t)
    BY <2>2, OperationStatusType DEF OperationFails, databaseVars, chainVars
  <2>3. CASE PersistFails(c, t)
    BY <2>3 DEF PersistFails, AllDone, DbStatus, databaseVars, chainVars
  <2> QED
    BY <2>1, <2>2, <2>3
<1>2. /\ stage' = [stage EXCEPT ![c][t] = "aborting"]
      /\ db_status' = [db_status EXCEPT ![c][t] = status]
  BY <1>1 DEF Fail
<1>3. stage'[c][t] = "aborting" /\ db_status'[c][t] = status
  BY <1>2 DEF ExecutionInv, Inv, LockTypeOK, DataTypeOK, PerTransaction
<1>4. WorkInv(c, t)'
  BY <1>3 DEF WorkInv, NotStarted, Started, Ended
<1>5. "aborting" \in Undecided /\ stage[c][t] \in {"none"} \cup Undecided
      /\ stage[c][t] # "none"
  BY <1>1 DEF Undecided, Stage
<1>6. c \in Participants(Ops[t]) /\ (OnlyCohort(t) \/ HasVoting(voting[t]))
  BY <1>5, ParticipantFacts
<1> QED
  BY <1>1, <1>2, <1>4, <1>5, <1>6, MoveStep

LEMMA PersistExecution ==
  ASSUME ExecutionInv, Inv', NEW c \in Cohort, NEW t \in Transaction,
         PersistTransaction(c, t)
  PROVE  ExecutionInv'
PROOF
<1>1. /\ stage[c][t] = "executing" /\ done[c][t] = Len(OpsAt(c, t))
      /\ stage' = [stage EXCEPT ![c][t] = "voting"]
      /\ UNCHANGED <<store, adapter, done, gets, db_status, voting, block_time, down, lock>>
  BY DEF PersistTransaction, AllDone, databaseVars, executionVars, chainVars
<1>2. stage'[c][t] = "voting"
  BY <1>1 DEF ExecutionInv, Inv, LockTypeOK, PerTransaction
<1>3. WorkInv(c, t)
  BY DEF ExecutionInv
<1>4. WorkInv(c, t)'
  BY <1>1, <1>2, <1>3 DEF WorkInv, NotStarted, Started, Ended
<1>5. /\ "executing" \in Undecided /\ "voting" \in Undecided
      /\ "ok" \in DbStatus \ {"failed_precondition"}
  BY DEF Undecided, Stage, DbStatus
<1>6. c \in Participants(Ops[t]) /\ (OnlyCohort(t) \/ HasVoting(voting[t]))
  BY <1>1, ParticipantFacts
<1> QED
  BY <1>1, <1>4, <1>5, <1>6, MoveStep

\* A transaction begins with the committed state, of which it has read nothing.
LEMMA BeginExecution ==
  ASSUME ExecutionInv, Inv', NEW c \in Cohort, NEW t \in Transaction, BeginInDb(c, t)
  PROVE  ExecutionInv'
PROOF
<1>1. /\ stage[c][t] = "beginning" /\ stage' = [stage EXCEPT ![c][t] = "executing"]
      /\ UNCHANGED <<store, done, gets, db_status, voting, block_time, down, lock>>
      /\ adapter' = [adapter EXCEPT ![c][t] =
                       [txn  |-> IF lock[c][t] = "write" THEN "read-write" ELSE "read-only",
                        view |-> store[c]]]
  BY DEF BeginInDb, Begin, BeginReadOnly, databaseVars, executionVars, chainVars
<1>2. stage'[c][t] = "executing"
  BY <1>1 DEF ExecutionInv, Inv, LockTypeOK, PerTransaction
<1>3. DatabaseTypeOK
  BY DEF ExecutionInv, DataTypeOK
<1>4. store[c] \in View
  BY <1>3 DEF DatabaseTypeOK
<1>5. adapter'[c][t] = [txn  |-> IF lock[c][t] = "write" THEN "read-write" ELSE "read-only",
                        view |-> store[c]]
  BY <1>1, <1>3 DEF DatabaseTypeOK
<1>6. DataTypeOK'
  <2>1. DatabaseTypeOK'
    BY <1>1, <1>3, <1>4 DEF DatabaseTypeOK
  <2> QED
    BY <1>1, <2>1 DEF ExecutionInv, DataTypeOK
<1>7. ASSUME NEW d \in Cohort, NEW u \in Transaction, d # c \/ u # t
      PROVE  Same(d, u)
  <2>1. stage'[d][u] = stage[d][u]
    BY <1>1, <1>7 DEF ExecutionInv, Inv, LockTypeOK, PerTransaction
  <2>2. adapter'[d][u] = adapter[d][u]
    BY <1>1, <1>3, <1>7 DEF DatabaseTypeOK
  <2> QED
    BY <1>1, <2>1, <2>2 DEF Same
<1>8. WorkInv(c, t)
  BY DEF ExecutionInv
<1>9. OpsAt(c, t) \in Seq(Operation) /\ Len(OpsAt(c, t)) \in Nat
  BY OpsAtType
<1>10. Locally(OpsAt(c, t), store[c])[0] = [data |-> store[c], results |-> << >>, ok |-> TRUE]
  BY <1>4, <1>9, LocallyStep DEF Serial!Unread
<1>11. /\ done[c][t] = 0 /\ gets[c][t] = << >> /\ db_status[c][t] # "failed_precondition"
       /\ lock[c][t] = LockMode(OpsAt(c, t))
  BY <1>1, <1>8 DEF WorkInv, NotStarted
<1>12. adapter'[c][t].view = store[c]
       /\ adapter'[c][t].txn = IF lock[c][t] = "write" THEN "read-write" ELSE "read-only"
  BY <1>5
<1>13. WorkInv(c, t)'
  <2>1. Locally(OpsAt(c, t), store'[c])[done'[c][t]]
          = [data |-> adapter'[c][t].view, results |-> gets'[c][t], ok |-> TRUE]
    BY <1>1, <1>10, <1>11, <1>12
  <2>2. done'[c][t] <= Len(OpsAt(c, t))
    BY <1>1, <1>9, <1>11
  <2>3. /\ adapter'[c][t].view = store'[c]
        /\ adapter'[c][t].txn = (IF lock'[c][t] = "write" THEN "read-write" ELSE "read-only")
    BY <1>1, <1>12
  <2>4. /\ gets'[c][t] = << >> /\ db_status'[c][t] # "failed_precondition"
        /\ lock'[c][t] = LockMode(OpsAt(c, t))
    BY <1>1, <1>11
  <2> QED
    BY ONLY <1>2, <2>1, <2>2, <2>3, <2>4 DEF WorkInv, NotStarted, Started, Ended
<1>14. VoteInv(c, t)'
  <2>1. "beginning" \in Undecided /\ "executing" \in Undecided
    BY DEF Undecided, Stage
  <2>2. c \in Participants(Ops[t]) /\ (OnlyCohort(t) \/ HasVoting(voting[t]))
    BY <1>1, ParticipantFacts
  <2> QED
    BY <1>1, <1>2, <2>1, <2>2, VoteMove DEF ExecutionInv
<1> QED
  BY <1>1, <1>6, <1>7, <1>13, <1>14, Assemble

\* An operation does to the view and the results what Execute does.
LEMMA OperationEffect ==
  ASSUME ExecutionInv, NEW c \in Cohort, NEW t \in Transaction,
         ProcessOperationInDb(c, t), NEW op, op = NextOp(c, t)
  PROVE  /\ store' = store
         /\ \A d \in Cohort, u \in Transaction : d # c \/ u # t =>
              adapter'[d][u] = adapter[d][u] /\ gets'[d][u] = gets[d][u]
         /\ DatabaseTypeOK' /\ gets' \in PerTransaction(Seq(Int))
         /\ adapter'[c][t].txn = adapter[c][t].txn
         /\ Serial!Execute([data |-> adapter[c][t].view, results |-> gets[c][t], ok |-> TRUE], op)
              = [data |-> adapter'[c][t].view, results |-> gets'[c][t], ok |-> TRUE]
         /\ op.type \notin {"put", "relative"} => adapter'[c][t].view = adapter[c][t].view
         /\ op.type # "get" => gets'[c][t] = gets[c][t]
PROOF
<1> DEFINE at == [data |-> adapter[c][t].view, results |-> gets[c][t], ok |-> TRUE]
<1>1. /\ stage[c][t] = "executing" /\ done[c][t] < Len(OpsAt(c, t))
      /\ OperationStatus(c, t, op) = "ok"
      /\ IF op.type = "get"
         THEN gets' = [gets EXCEPT ![c][t] = Append(@, adapter[c][t].view[op.key])]
         ELSE gets' = gets
      /\ IF op.type \in {"put", "relative"}
         THEN PutValue(c, t, op.key, ValueToPut(c, t, op))
         ELSE UNCHANGED databaseVars
  BY DEF ProcessOperationInDb
<1>2. op \in Operation /\ adapter[c][t].txn # "none"
  BY <1>1, NextOpFacts
<1>3. /\ op.key \in Key /\ op.value \in Int /\ op.default \in Int \cup {NoValue}
      /\ op.type \in {"get", "put", "relative", "none"}
  BY <1>2 DEF Operation
<1>4. DatabaseTypeOK /\ gets \in PerTransaction(Seq(Int))
  BY DEF ExecutionInv, DataTypeOK
<1>5. adapter[c][t] \in [txn : {"none", "read-only", "read-write"}, view : View]
      /\ gets[c][t] \in Seq(Int)
  BY <1>4 DEF DatabaseTypeOK, PerTransaction
<1>6. adapter[c][t].view \in View /\ adapter[c][t].txn \in {"none", "read-only", "read-write"}
  BY <1>5
<1>7. adapter[c][t].view[op.key] \in Int \cup {NoValue}
  BY <1>3, <1>6 DEF View
<1>8. GetStatus(c, t, op.key) = "ok" => adapter[c][t].view[op.key] # NoValue
  BY DEF GetStatus
<1>9. CASE op.type = "get"
  <2> DEFINE value == adapter[c][t].view[op.key]
  <2>1. value \in Int
    BY <1>1, <1>7, <1>8, <1>9 DEF OperationStatus
  <2>2. gets' = [gets EXCEPT ![c][t] = Append(@, value)] /\ adapter' = adapter /\ store' = store
    BY <1>1, <1>9 DEF databaseVars
  <2> HIDE DEF value
  <2>3. Append(gets[c][t], value) \in Seq(Int)
    BY <1>5, <2>1
  <2>4. /\ gets' \in PerTransaction(Seq(Int)) /\ gets'[c][t] = Append(gets[c][t], value)
        /\ \A d \in Cohort, u \in Transaction : d # c \/ u # t => gets'[d][u] = gets[d][u]
    BY <1>4, <2>2, <2>3 DEF PerTransaction
  <2>5. Serial!Execute(at, op) = [at EXCEPT !.results = Append(@, value)]
    <3>1. value # NoValue
      BY <2>1, NoValueAssumption
    <3> QED
      BY <1>9, <3>1 DEF Serial!Execute, value
  <2>6. Serial!Execute(at, op)
          = [data |-> adapter[c][t].view, results |-> Append(gets[c][t], value), ok |-> TRUE]
    BY <2>5
  <2> QED
    BY <1>4, <1>9, <2>2, <2>4, <2>6 DEF DatabaseTypeOK
<1>10. CASE op.type = "none"
  <2>1. UNCHANGED <<store, adapter, gets>>
    BY <1>1, <1>10 DEF databaseVars
  <2>2. Serial!Execute(at, op) = at
    BY <1>10 DEF Serial!Execute
  <2> QED
    BY <1>4, <1>10, <2>1, <2>2 DEF DatabaseTypeOK
<1>11. ASSUME op.type \in {"put", "relative"}, NEW value \in Int,
              value = ValueToPut(c, t, op),
              Serial!Execute(at, op) = [at EXCEPT !.data[op.key] = value]
       PROVE  /\ store' = store /\ gets' = gets
              /\ \A d \in Cohort, u \in Transaction : d # c \/ u # t =>
                   adapter'[d][u] = adapter[d][u]
              /\ DatabaseTypeOK'
              /\ adapter'[c][t].txn = adapter[c][t].txn
              /\ Serial!Execute(at, op)
                   = [data |-> adapter'[c][t].view, results |-> gets[c][t], ok |-> TRUE]
  <2>1. /\ adapter' = [adapter EXCEPT ![c][t].view[op.key] = value]
        /\ store' = store /\ gets' = gets
    BY <1>1, <1>11 DEF PutValue
  <2> DEFINE view == [adapter[c][t].view EXCEPT ![op.key] = value]
  <2>2. view \in View
    BY <1>3, <1>6, <1>11 DEF View
  <2>3. adapter'[c][t] = [adapter[c][t] EXCEPT !.view = view]
    BY <1>4, <2>1 DEF DatabaseTypeOK
  <2>4. \A d \in Cohort, u \in Transaction : d # c \/ u # t => adapter'[d][u] = adapter[d][u]
    BY <1>4, <2>1 DEF DatabaseTypeOK
  <2>5. Serial!Execute(at, op) = [data |-> view, results |-> gets[c][t], ok |-> TRUE]
    BY <1>11
  <2> HIDE DEF view
  <2>6. adapter'[c][t].view = view /\ adapter'[c][t].txn = adapter[c][t].txn
        /\ adapter'[c][t] \in [txn : {"none", "read-only", "read-write"}, view : View]
    BY <1>5, <2>2, <2>3
  <2>7. DatabaseTypeOK'
    <3> DEFINE Txns == [txn : {"none", "read-only", "read-write"}, view : View]
    <3>1. adapter \in [Cohort -> [Transaction -> Txns]] /\ store \in [Cohort -> View]
      BY <1>4 DEF DatabaseTypeOK
    <3>2. [adapter[c][t] EXCEPT !.view = view] \in Txns
      BY <2>3, <2>6
    <3>3. adapter' = [adapter EXCEPT ![c][t] = [adapter[c][t] EXCEPT !.view = view]]
      BY <2>1 DEF view
    <3> HIDE DEF Txns
    <3>4. adapter' \in [Cohort -> [Transaction -> Txns]]
      BY <3>1, <3>2, <3>3
    <3> QED
      BY <2>1, <3>1, <3>4 DEF DatabaseTypeOK, Txns
  <2>8. Serial!Execute(at, op)
          = [data |-> adapter'[c][t].view, results |-> gets[c][t], ok |-> TRUE]
    BY <2>5, <2>6
  <2> HIDE DEF at
  <2> QED
    BY <2>1, <2>4, <2>6, <2>7, <2>8
<1>12. CASE op.type = "put"
  <2>1. GetStatus(c, t, op.key) \in {"ok", "internal"}
    BY <1>2 DEF GetStatus
  <2>2. ValueToPut(c, t, op) = op.value
    BY <1>12, <2>1 DEF ValueToPut, UsesDefault
  <2>3. Serial!Execute(at, op) = [at EXCEPT !.data[op.key] = op.value]
    BY <1>12 DEF Serial!Execute
  <2> QED
    BY <1>3, <1>4, <1>11, <1>12, <2>2, <2>3
<1>13. CASE op.type = "relative"
  <2> DEFINE value == adapter[c][t].view[op.key]
  <2>1. GetStatus(c, t, op.key) \in {"ok", "internal"}
    BY <1>2 DEF GetStatus
  <2>2. ~UsesDefault(c, t, op)
    BY <2>1 DEF UsesDefault
  <2>3. GetStatus(c, t, op.key) = "ok"
    BY <1>1, <1>13, <2>1, <2>2 DEF OperationStatus
  <2>4. value \in Int /\ value # NoValue
    BY <1>7, <1>8, <2>3
  <2>5. ValueToPut(c, t, op) = value + op.value
    BY <1>13, <2>2 DEF ValueToPut
  <2>6. Serial!Execute(at, op) = [at EXCEPT !.data[op.key] = value + op.value]
    BY <1>13, <2>4 DEF Serial!Execute
  <2> HIDE DEF value
  <2>7. value + op.value \in Int
    BY <1>3, <2>4
  <2> QED
    BY <1>4, <1>11, <1>13, <2>5, <2>6, <2>7
<1> QED
  BY <1>3, <1>9, <1>10, <1>12, <1>13

LEMMA OperationExecution ==
  ASSUME ExecutionInv, Inv', NEW c \in Cohort, NEW t \in Transaction,
         ProcessOperationInDb(c, t)
  PROVE  ExecutionInv'
PROOF
<1>1. /\ stage[c][t] = "executing" /\ done[c][t] < Len(OpsAt(c, t))
      /\ done' = [done EXCEPT ![c][t] = @ + 1]
      /\ UNCHANGED <<stage, db_status, voting, block_time, down, lock>>
  BY DEF ProcessOperationInDb, chainVars
<1>2. PICK op : op = NextOp(c, t)
  OBVIOUS
<1>3. /\ op \in Operation
      /\ op.type \in {"put", "relative"} => lock[c][t] = "write"
      /\ op.type = "get" => lock[c][t] # "none"
  BY <1>1, <1>2, NextOpFacts
<1>4. /\ store' = store
      /\ \A d \in Cohort, u \in Transaction : d # c \/ u # t =>
           adapter'[d][u] = adapter[d][u] /\ gets'[d][u] = gets[d][u]
      /\ DatabaseTypeOK' /\ gets' \in PerTransaction(Seq(Int))
      /\ adapter'[c][t].txn = adapter[c][t].txn
      /\ Serial!Execute([data |-> adapter[c][t].view, results |-> gets[c][t], ok |-> TRUE], op)
           = [data |-> adapter'[c][t].view, results |-> gets'[c][t], ok |-> TRUE]
      /\ op.type \notin {"put", "relative"} => adapter'[c][t].view = adapter[c][t].view
      /\ op.type # "get" => gets'[c][t] = gets[c][t]
  BY <1>2, OperationEffect
<1>5. done[c][t] \in Nat /\ done \in PerTransaction(Nat) /\ Len(OpsAt(c, t)) \in Nat
      /\ OpsAt(c, t) \in Seq(Operation)
  BY OpsAtType DEF ExecutionInv, DataTypeOK, PerTransaction
<1>6. /\ done' \in PerTransaction(Nat) /\ done'[c][t] = done[c][t] + 1
      /\ \A d \in Cohort, u \in Transaction : d # c \/ u # t => done'[d][u] = done[d][u]
  BY <1>1, <1>5 DEF PerTransaction
<1>7. DataTypeOK'
  BY <1>1, <1>4, <1>6 DEF ExecutionInv, DataTypeOK
<1>8. \A d \in Cohort, u \in Transaction : d # c \/ u # t => Same(d, u)
  BY <1>1, <1>4, <1>6 DEF Same
<1>9. WorkInv(c, t) /\ VoteInv(c, t) /\ EntryInv(t) /\ block_time \in Nat
  BY BoundsAssumption DEF ExecutionInv, DataTypeOK
<1>10. lock[c][t] # "none" =>
         Locally(OpsAt(c, t), store[c])[done[c][t] + 1]
           = [data |-> adapter'[c][t].view, results |-> gets'[c][t], ok |-> TRUE]
  <2>1. store[c] \in View
    BY DEF ExecutionInv, DataTypeOK, DatabaseTypeOK
  <2>2. Locally(OpsAt(c, t), store[c])[done[c][t] + 1]
          = Serial!Execute(Locally(OpsAt(c, t), store[c])[done[c][t]],
                           OpsAt(c, t)[done[c][t] + 1])
    BY <1>1, <1>5, <2>1, LocallyStep
  <2>3. lock[c][t] # "none" =>
          Locally(OpsAt(c, t), store[c])[done[c][t]]
            = [data |-> adapter[c][t].view, results |-> gets[c][t], ok |-> TRUE]
    BY <1>1, <1>9 DEF WorkInv, Started
  <2>4. OpsAt(c, t)[done[c][t] + 1] = op
    BY <1>2 DEF NextOp
  <2> QED
    BY <1>4, <2>2, <2>3, <2>4
<1>11. WorkInv(c, t)'
  <2>1. /\ db_status'[c][t] # "failed_precondition"
        /\ lock'[c][t] = LockMode(OpsAt(c, t))
        /\ adapter'[c][t].txn = (IF lock'[c][t] = "write" THEN "read-write" ELSE "read-only")
        /\ stage'[c][t] = "executing"
    BY <1>1, <1>4, <1>9 DEF WorkInv, Started
  <2>2. done'[c][t] <= Len(OpsAt(c, t))
    BY <1>1, <1>5, <1>6
  <2>3. lock'[c][t] # "none" =>
          Locally(OpsAt(c, t), store'[c])[done'[c][t]]
            = [data |-> adapter'[c][t].view, results |-> gets'[c][t], ok |-> TRUE]
    BY <1>1, <1>4, <1>6, <1>10
  <2>4. lock'[c][t] = "read" => adapter'[c][t].view = store'[c]
    BY <1>1, <1>3, <1>4, <1>9 DEF WorkInv, Started
  <2>5. lock'[c][t] = "none" => gets'[c][t] = << >>
    BY <1>1, <1>3, <1>4, <1>9 DEF WorkInv, Started
  <2> QED
    BY ONLY <2>1, <2>2, <2>3, <2>4, <2>5 DEF WorkInv, NotStarted, Started, Ended
<1>12. VoteInv(c, t)'
  BY <1>1, <1>9, VoteFrame
<1> QED
  BY <1>1, <1>7, <1>8, <1>11, <1>12, Assemble

-----------------------------------------------------------------------------
(* Votes *)

\* The vote of a cohort that has not voted has entered its ballot.
Counted(c, t, ballot) ==
  /\ ~OnlyCohort(t) /\ HasVoting(voting[t]) /\ HasVoting(voting[t])'
  /\ voting[t] \in VotingOf(Cardinality(Participants(Ops[t])))
  /\ voting'[t] \in VotingOf(Cardinality(Participants(Ops[t])))
  /\ BallotOf(c, t) = "UNKNOWN"
  /\ block_time < voting[t].vote_timeout_time
  /\ voting'[t].vote_timeout_time = voting[t].vote_timeout_time
  /\ \A i \in 0 .. Cardinality(Participants(Ops[t])) - 1 :
       voting'[t].ballots[i] = IF i = Index(c, t) THEN ballot ELSE voting[t].ballots[i]

LEMMA VoteEffect ==
  ASSUME ExecutionInv, NEW c \in Cohort, NEW t \in Transaction,
         stage[c][t] \in {"voting", "aborting"},
         NEW ballot \in {"COMMIT", "ABORT"}, VoteReturns(c, t, ballot)
  PROVE  /\ DOMAIN voting' = Transaction
         /\ \A u \in Transaction : EntryInv(u)'
         /\ \A u \in Transaction : u # t => voting'[u] = voting[u]
         /\ voting'[t] = voting[t] \/ Counted(c, t, ballot)
PROOF
<1>1. CASE UNCHANGED voting
  BY <1>1 DEF ExecutionInv, EntryInv
<1>2. CASE /\ CanVote(voting[t], Index(c, t), ballot, block_time)
           /\ voting' = [voting EXCEPT ![t] = Voted(@, Index(c, t), ballot)]
  <2> DEFINE n == Cardinality(Participants(Ops[t]))
             i == Index(c, t)
             v == voting[t]
             w == Voted(v, i, ballot)
  <2>1. DOMAIN voting = Transaction
    BY DEF ExecutionInv
  <2>2. voting'[t] = w /\ DOMAIN voting' = Transaction
        /\ \A u \in Transaction : u # t => voting'[u] = voting[u]
    BY <1>2, <2>1
  <2>3. c \in Participants(Ops[t])
    BY ParticipantFacts
  <2>4. i \in 0 .. n - 1
    BY <2>3, IndexType
  <2>5. Ops[t] \in Seq(Operation)
    BY OpsAssumption
  <2>6. n \in Nat
    BY <2>5, ParticipantsFinite
  <2>7. EntryInv(t)
    BY DEF ExecutionInv
  <2>8. v.cohorts \in Nat
    BY <2>6, <2>7 DEF EntryInv, NoVoting, VotingOf
  <2>9. HasVoting(v) /\ block_time < v.vote_timeout_time
    BY <1>2, <2>4, <2>6, <2>8 DEF CanVote, HasVoting
  <2>10. ~OnlyCohort(t) /\ v \in VotingOf(n)
    BY <2>7, <2>9, EntryType
  <2>11. BallotOf(c, t) = "UNKNOWN"
    BY <2>3, <2>9 DEF ExecutionInv, VoteInv
  <2> HIDE DEF n, i, v
  <2>12. /\ v.cohorts = n /\ v.vote_timeout_time \in Nat /\ v.ballots \in [0 .. n - 1 -> Ballot]
         /\ w = [v EXCEPT !.ballots = [v.ballots EXCEPT ![i] = ballot]]
    BY <2>10 DEF VotingOf, Voted
  <2>13. /\ [v.ballots EXCEPT ![i] = ballot] \in [0 .. n - 1 -> Ballot]
         /\ \A j \in 0 .. n - 1 :
              [v.ballots EXCEPT ![i] = ballot][j] = IF j = i THEN ballot ELSE v.ballots[j]
    BY <2>4, <2>12 DEF Ballot
  <2>14. /\ w \in VotingOf(n) /\ w.cohorts = v.cohorts
         /\ w.vote_timeout_time = v.vote_timeout_time
         /\ w.ballots = [v.ballots EXCEPT ![i] = ballot]
    BY <2>10, <2>12, <2>13 DEF VotingOf
  <2> HIDE DEF w
  <2>15. EntryInv(t)'
    BY <2>2, <2>10, <2>14 DEF EntryInv, n
  <2>16. \A u \in Transaction : EntryInv(u)'
    BY <2>2, <2>15 DEF ExecutionInv, EntryInv
  <2>17. Counted(c, t, ballot)
    BY <2>2, <2>9, <2>10, <2>11, <2>13, <2>14 DEF Counted, HasVoting, n, i, v
  <2> QED
    BY <2>2, <2>16, <2>17
<1> QED
  BY <1>1, <1>2 DEF VoteReturns

\* A vote that is counted leaves the others' ballots, and comes before the end.
LEMMA VoteElsewhere ==
  ASSUME ExecutionInv, NEW c \in Cohort, NEW t \in Transaction,
         NEW ballot \in {"COMMIT", "ABORT"}, c \in Participants(Ops[t]),
         Counted(c, t, ballot),
         NEW d \in Cohort, d # c, stage'[d][t] = stage[d][t], block_time' = block_time
  PROVE  VoteInv(d, t)'
PROOF
<1> DEFINE n == Cardinality(Participants(Ops[t]))
<1>1. VoteInv(d, t) /\ EntryInv(t) /\ HasVoting(voting[t])
  BY DEF ExecutionInv, Counted
<1>2. /\ voting[t].ballots \in [0 .. n - 1 -> Ballot]
      /\ voting'[t].ballots \in [0 .. n - 1 -> Ballot]
      /\ voting[t].vote_timeout_time \in Nat
      /\ \A i \in 0 .. n - 1 :
           voting'[t].ballots[i] = IF i = Index(c, t) THEN ballot ELSE voting[t].ballots[i]
  BY DEF Counted, VotingOf
<1>3. Index(c, t) \in 0 .. n - 1
  BY IndexType
<1>4. d \in Participants(Ops[t]) => Index(d, t) \in 0 .. n - 1 /\ Index(d, t) # Index(c, t)
  BY IndexType
<1>5. voting[t].ballots[Index(c, t)] = "UNKNOWN"
  BY DEF Counted, BallotOf
<1> HIDE DEF n
<1>6. d \in Participants(Ops[t]) => BallotOf(d, t)' = BallotOf(d, t)
  BY <1>2, <1>4 DEF BallotOf
<1>7. VotedToAbort(voting[t]) => VotedToAbort(voting[t])'
  BY <1>2, <1>5 DEF VotedToAbort
<1>8. ~AllVotedToCommit(voting[t])
  BY <1>2, <1>3, <1>5 DEF AllVotedToCommit
<1>9. block_time \in Nat /\ ~(block_time >= voting[t].vote_timeout_time)
  BY <1>2, BoundsAssumption DEF Counted, ExecutionInv, DataTypeOK
<1>10. HasVoting(voting[t])'
  BY DEF Counted
<1> QED
  BY <1>1, <1>6, <1>7, <1>8, <1>9, <1>10 DEF VoteInv

\* A step of t at c that ends with its vote.
LEMMA AssembleVote ==
  ASSUME ExecutionInv, Inv', DataTypeOK', block_time' = block_time,
         NEW c \in Cohort, NEW t \in Transaction,
         stage[c][t] \in {"voting", "aborting"},
         NEW ballot \in {"COMMIT", "ABORT"}, VoteReturns(c, t, ballot),
         \A d \in Cohort, u \in Transaction : d # c \/ u # t => Same(d, u),
         WorkInv(c, t)', VoteInv(c, t)'
  PROVE  ExecutionInv'
PROOF
<1>1. /\ DOMAIN voting' = Transaction
      /\ \A u \in Transaction : EntryInv(u)'
      /\ \A u \in Transaction : u # t => voting'[u] = voting[u]
      /\ voting'[t] = voting[t] \/ Counted(c, t, ballot)
  BY VoteEffect
<1>2. c \in Participants(Ops[t])
  BY ParticipantFacts
<1>3. block_time \in Nat
  BY BoundsAssumption DEF ExecutionInv, DataTypeOK
<1>4. ASSUME NEW d \in Cohort, NEW u \in Transaction
      PROVE  WorkInv(d, u)' /\ VoteInv(d, u)'
  <2>1. CASE d = c /\ u = t
    BY <2>1
  <2>2. CASE d # c \/ u # t
    <3>1. Same(d, u) /\ WorkInv(d, u) /\ VoteInv(d, u) /\ EntryInv(u)
      BY <2>2 DEF ExecutionInv
    <3>2. WorkInv(d, u)'
      BY <3>1, WorkFrame
    <3>3. stage'[d][u] = stage[d][u]
      BY <3>1 DEF Same
    <3>4. CASE voting'[u] = voting[u]
      BY <1>3, <3>1, <3>2, <3>3, <3>4, VoteFrame
    <3>5. CASE u = t /\ Counted(c, t, ballot)
      <4>1. d # c /\ stage'[d][t] = stage[d][t] /\ Counted(c, t, ballot)
        BY <2>2, <3>3, <3>5
      <4>2. VoteInv(d, t)'
        BY <1>2, <4>1, VoteElsewhere
      <4> QED
        BY <3>2, <3>5, <4>2
    <3> QED
      BY <1>1, <3>2, <3>4, <3>5
  <2> QED
    BY <2>1, <2>2
<1> QED
  BY <1>1, <1>4 DEF ExecutionInv

LEMMA VoteCommitExecution ==
  ASSUME ExecutionInv, Inv', NEW c \in Cohort, NEW t \in Transaction, VoteCommit(c, t)
  PROVE  ExecutionInv'
PROOF
<1>1. /\ stage[c][t] = "voting" /\ stage' = [stage EXCEPT ![c][t] = "waiting"]
      /\ VoteReturns(c, t, "COMMIT")
      /\ UNCHANGED <<store, adapter, done, gets, db_status, block_time, down, lock>>
  BY DEF VoteCommit, databaseVars, executionVars
<1>2. \A d \in Cohort, u \in Transaction :
        stage'[d][u] = IF d = c /\ u = t THEN "waiting" ELSE stage[d][u]
  BY <1>1 DEF ExecutionInv, Inv, LockTypeOK, PerTransaction
<1>3. DataTypeOK'
  BY <1>1 DEF ExecutionInv, DataTypeOK, DatabaseTypeOK
<1>4. \A d \in Cohort, u \in Transaction : d # c \/ u # t => Same(d, u)
  BY <1>1, <1>2 DEF Same
<1>5. WorkInv(c, t) /\ stage'[c][t] = "waiting"
  BY <1>2 DEF ExecutionInv
<1>6. WorkInv(c, t)'
  BY <1>1, <1>5 DEF WorkInv, NotStarted, Started, Ended
<1>7. c \in Participants(Ops[t]) /\ (OnlyCohort(t) \/ HasVoting(voting[t]))
  BY <1>1, ParticipantFacts
<1>8. voting'[t] = voting[t] \/ Counted(c, t, "COMMIT")
  BY <1>1, VoteEffect
<1>9. OnlyCohort(t) \/ HasVoting(voting[t])'
  BY <1>7, <1>8 DEF Counted
<1>10. VoteInv(c, t)'
  BY <1>5, <1>7, <1>9 DEF VoteInv
<1> QED
  BY <1>1, <1>3, <1>4, <1>6, <1>10, AssembleVote

\* What the end of a transaction leaves of it, and of the others.
LEMMA EndEffect ==
  ASSUME ExecutionInv, Inv', NEW c \in Cohort, NEW t \in Transaction,
         NEW s \in {"committed", "aborted"}, stage' = [stage EXCEPT ![c][t] = s],
         Commit(c, t) \/ Abort(c, t), ReleaseLocks(c, t),
         UNCHANGED <<executionVars, block_time, down>>
  PROVE  /\ DataTypeOK'
         /\ \A d \in Cohort, u \in Transaction : d # c \/ u # t => Same(d, u)
         /\ WorkInv(c, t)' /\ stage'[c][t] = s
PROOF
<1>1. /\ adapter' = [adapter EXCEPT ![c][t] = NoTxn]
      /\ lock' = [lock EXCEPT ![c][t] = "none"]
      /\ UNCHANGED <<done, gets, db_status>>
      /\ \/ store' = store
         \/ /\ adapter[c][t].txn = "read-write"
            /\ store' = [store EXCEPT ![c] = adapter[c][t].view]
  BY DEF Commit, Abort, ReleaseLocks, executionVars
<1>2. DatabaseTypeOK /\ adapter[c][t].view \in View
  BY DEF ExecutionInv, DataTypeOK, DatabaseTypeOK
<1>3. NoTxn \in [txn : {"none", "read-only", "read-write"}, view : View]
  BY DEF NoTxn, View
<1>4. DatabaseTypeOK'
  <2>1. adapter' \in [Cohort -> [Transaction ->
                        [txn : {"none", "read-only", "read-write"}, view : View]]]
    BY <1>1, <1>2, <1>3 DEF DatabaseTypeOK
  <2>2. store' \in [Cohort -> View]
    BY <1>1, <1>2 DEF DatabaseTypeOK
  <2> QED
    BY <2>1, <2>2 DEF DatabaseTypeOK
<1>5. DataTypeOK'
  BY <1>1, <1>4 DEF ExecutionInv, DataTypeOK
<1>6. ASSUME NEW d \in Cohort, NEW u \in Transaction, d # c \/ u # t
      PROVE  Same(d, u)
  <2>1. /\ stage'[d][u] = stage[d][u] /\ lock'[d][u] = lock[d][u]
    BY <1>1, <1>6 DEF ExecutionInv, Inv, LockTypeOK, PerTransaction
  <2>2. adapter'[d][u] = adapter[d][u]
    BY <1>1, <1>2, <1>6 DEF DatabaseTypeOK
  <2>3. store'[d] = store[d] \/ lock[d][u] = "none"
    <3>1. CASE store' = store
      BY <3>1
    <3>2. CASE adapter[c][t].txn = "read-write" /\ store' = [store EXCEPT ![c] = adapter[c][t].view]
      <4>1. lock[c][t] = "write"
        BY <3>2 DEF ExecutionInv, Inv, WriterInv
      <4>2. d = c => lock[d][u] = "none"
        BY <1>6, <4>1, Exclusive DEF ExecutionInv
      <4>3. d # c => store'[d] = store[d]
        BY <1>2, <3>2 DEF DatabaseTypeOK
      <4> QED
        BY <4>2, <4>3
    <3> QED
      BY <1>1, <3>1, <3>2
  <2> QED
    BY <1>1, <2>1, <2>2, <2>3 DEF Same
<1>7. stage'[c][t] = s
  BY DEF ExecutionInv, Inv, LockTypeOK, PerTransaction
<1>8. WorkInv(c, t)'
  <2>1. adapter'[c][t] = NoTxn
    BY <1>1, <1>2 DEF DatabaseTypeOK
  <2>2. adapter'[c][t].txn = "none"
    BY <2>1 DEF NoTxn
  <2>3. db_status'[c][t] # "failed_precondition"
    BY <1>1 DEF ExecutionInv, WorkInv
  <2> QED
    BY <1>7, <2>2, <2>3 DEF WorkInv, NotStarted, Started, Ended
<1> QED
  BY <1>5, <1>6, <1>7, <1>8

LEMMA AbortExecution ==
  ASSUME ExecutionInv, Inv', NEW c \in Cohort, NEW t \in Transaction,
         VoteAbort(c, t) \/ AbortDecided(c, t)
  PROVE  ExecutionInv'
PROOF
<1>1. /\ stage' = [stage EXCEPT ![c][t] = "aborted"]
      /\ Abort(c, t) /\ ReleaseLocks(c, t)
      /\ UNCHANGED <<executionVars, block_time, down>>
      /\ stage[c][t] \in {"aborting", "waiting"}
  BY DEF VoteAbort, AbortDecided, EndAborted, chainVars
<1>2. /\ DataTypeOK'
      /\ \A d \in Cohort, u \in Transaction : d # c \/ u # t => Same(d, u)
      /\ WorkInv(c, t)' /\ stage'[c][t] = "aborted"
  BY <1>1, EndEffect
<1>3. c \in Participants(Ops[t]) /\ (OnlyCohort(t) \/ HasVoting(voting[t]))
  BY <1>1, ParticipantFacts
<1>4. CASE VoteAbort(c, t)
  <2>1. stage[c][t] = "aborting" /\ VoteReturns(c, t, "ABORT")
    BY <1>4 DEF VoteAbort
  <2>2. CASE voting'[t] = voting[t]
    <3>1. OnlyCohort(t) \/ BallotOf(c, t) = "UNKNOWN"
      BY <1>3, <2>1 DEF ExecutionInv, VoteInv
    <3>2. BallotOf(c, t)' = BallotOf(c, t)
      BY <2>2 DEF BallotOf
    <3>3. VoteInv(c, t)'
      BY <1>2, <1>3, <2>2, <3>1, <3>2 DEF VoteInv
    <3> QED
      BY <1>1, <1>2, <2>1, <3>3, AssembleVote
  <2>3. CASE Counted(c, t, "ABORT")
    <3>1. Index(c, t) \in 0 .. Cardinality(Participants(Ops[t])) - 1
      BY <1>3, IndexType
    <3>2. /\ voting'[t].ballots[Index(c, t)] = "ABORT"
          /\ Index(c, t) \in DOMAIN voting'[t].ballots
      BY <2>3, <3>1 DEF Counted, VotingOf
    <3>3. VotedToAbort(voting[t])'
      BY <3>2 DEF VotedToAbort
    <3>4. VoteInv(c, t)'
      BY <1>2, <1>3, <2>3, <3>3 DEF VoteInv, Counted
    <3> QED
      BY <1>1, <1>2, <2>1, <3>4, AssembleVote
  <2> QED
    BY <2>1, <2>2, <2>3, VoteEffect
<1>5. CASE AbortDecided(c, t)
  <2>1. voting' = voting /\ DecisionOf(t) = "ABORT" /\ block_time' = block_time
    BY <1>5 DEF AbortDecided, chainVars
  <2>2. \/ VotedToAbort(voting[t])
        \/ block_time >= voting[t].vote_timeout_time /\ ~AllVotedToCommit(voting[t])
    BY <2>1 DEF DecisionOf, getVotingDecision
  <2>3. VoteInv(c, t)'
    BY <1>2, <1>3, <2>1, <2>2 DEF VoteInv
  <2> QED
    BY <1>2, <2>1, <2>3, Assemble
<1> QED
  BY <1>4, <1>5

LEMMA CommitExecution ==
  ASSUME ExecutionInv, Inv', NEW c \in Cohort, NEW t \in Transaction,
         CommitOnlyCohort(c, t) \/ CommitDecided(c, t)
  PROVE  ExecutionInv'
PROOF
<1>1. /\ stage' = [stage EXCEPT ![c][t] = "committed"]
      /\ Commit(c, t) /\ ReleaseLocks(c, t)
      /\ UNCHANGED <<executionVars, voting, block_time, down>>
      /\ stage[c][t] \in {"executing", "waiting"}
  BY DEF CommitOnlyCohort, CommitDecided, CommitTransaction, AllDone, chainVars
<1>2. /\ DataTypeOK'
      /\ \A d \in Cohort, u \in Transaction : d # c \/ u # t => Same(d, u)
      /\ WorkInv(c, t)' /\ stage'[c][t] = "committed"
  BY <1>1, EndEffect
<1>3. c \in Participants(Ops[t]) /\ (OnlyCohort(t) \/ HasVoting(voting[t]))
  BY <1>1, ParticipantFacts
<1>4. OnlyCohort(t) \/ AllVotedToCommit(voting[t])
  BY CommitDecision DEF CommitOnlyCohort, CommitDecided
<1>5. VoteInv(c, t)'
  BY <1>1, <1>2, <1>3, <1>4 DEF VoteInv
<1> QED
  BY <1>1, <1>2, <1>5, Assemble

\* A voting is new: nobody has heard of the transaction.
LEMMA StartVotingExecution ==
  ASSUME ExecutionInv, Inv', NEW t \in Transaction, StartVoting(t)
  PROVE  ExecutionInv'
PROOF
<1> DEFINE n == Cardinality(Participants(Ops[t]))
<1>1. PICK timeout \in 1 .. MaxTime :
        /\ CanStartVoting(n, timeout, block_time)
        /\ voting' = [voting EXCEPT ![t] = StartedVoting(n, timeout)]
  BY DEF StartVoting
<1>2. /\ ~OnlyCohort(t) /\ ~HasVoting(voting[t])
      /\ UNCHANGED <<store, adapter, done, gets, db_status, block_time, down, stage, lock>>
  BY DEF StartVoting, databaseVars, executionVars
<1>3. DOMAIN voting = Transaction
  BY DEF ExecutionInv
<1>4. /\ voting'[t] = StartedVoting(n, timeout) /\ DOMAIN voting' = Transaction
      /\ \A u \in Transaction : u # t => voting'[u] = voting[u]
  BY <1>1, <1>3
<1>5. Ops[t] \in Seq(Operation)
  BY OpsAssumption
<1>6. n \in Nat
  BY <1>5, ParticipantsFinite
<1>7. timeout \in Nat
  BY BoundsAssumption
<1> HIDE DEF n
<1>8. voting'[t] \in VotingOf(n) /\ \A i \in 0 .. n - 1 : voting'[t].ballots[i] = "UNKNOWN"
  BY <1>4, <1>6, <1>7 DEF StartedVoting, VotingOf, Ballot
<1>9. \A u \in Transaction : EntryInv(u)'
  BY <1>2, <1>4, <1>8 DEF ExecutionInv, EntryInv, n
<1>10. DataTypeOK'
  BY <1>2 DEF ExecutionInv, DataTypeOK, DatabaseTypeOK
<1>11. block_time \in Nat
  BY BoundsAssumption DEF ExecutionInv, DataTypeOK
<1>12. ASSUME NEW c \in Cohort, NEW u \in Transaction
       PROVE  WorkInv(c, u)' /\ VoteInv(c, u)'
  <2>1. WorkInv(c, u)'
    BY <1>2, WorkFrame DEF Same, ExecutionInv
  <2>2. CASE u # t
    <3>1. VoteInv(c, u) /\ EntryInv(u) /\ stage'[c][u] = stage[c][u] /\ voting'[u] = voting[u]
      BY <1>2, <1>4, <2>2 DEF ExecutionInv
    <3> QED
      BY <1>2, <1>11, <2>1, <3>1, VoteFrame
  <2>3. CASE u = t
    <3>1. stage'[c][u] = "none"
      BY <1>2, <2>3, ParticipantFacts
    <3>2. c \in Participants(Ops[u]) => BallotOf(c, u)' = "UNKNOWN"
      BY <1>8, <2>3, IndexType DEF BallotOf, n
    <3> QED
      BY <2>1, <3>1, <3>2 DEF VoteInv
  <2> QED
    BY <2>2, <2>3
<1> QED
  BY <1>4, <1>9, <1>10, <1>12 DEF ExecutionInv

\* Time passes, or a cohort goes down.
LEMMA ElsewhereExecution ==
  ASSUME ExecutionInv, Inv',
         UNCHANGED <<store, adapter, done, gets, db_status, voting, stage, lock>>,
         block_time' = block_time \/ (block_time < MaxTime /\ block_time' = block_time + 1),
         down' \subseteq Cohort
  PROVE  ExecutionInv'
PROOF
<1>1. block_time \in Nat /\ block_time' \in 0 .. MaxTime
  BY BoundsAssumption DEF ExecutionInv, DataTypeOK
<1>2. DataTypeOK'
  BY <1>1 DEF ExecutionInv, DataTypeOK, DatabaseTypeOK
<1>3. \A t \in Transaction : EntryInv(t)'
  BY DEF ExecutionInv, EntryInv
<1>4. ASSUME NEW c \in Cohort, NEW t \in Transaction
      PROVE  WorkInv(c, t)' /\ VoteInv(c, t)'
  <2>1. WorkInv(c, t)'
    BY WorkFrame DEF Same, ExecutionInv
  <2>2. VoteInv(c, t) /\ EntryInv(t) /\ stage'[c][t] = stage[c][t] /\ voting'[t] = voting[t]
    BY DEF ExecutionInv
  <2>3. VoteInv(c, t)'
    BY <1>1, <2>2, VoteFrame
  <2> QED
    BY <2>1, <2>3
<1> QED
  BY <1>2, <1>3, <1>4 DEF ExecutionInv

\* Every step preserves the invariant.
LEMMA ExecutionInvNext == ExecutionInv /\ [Next]_vars => ExecutionInv'
PROOF
<1> SUFFICES ASSUME ExecutionInv, [Next]_vars PROVE ExecutionInv'
  OBVIOUS
<1>1. Inv'
  BY NextInv DEF ExecutionInv
<1>2. down \subseteq Cohort
  BY DEF ExecutionInv, DataTypeOK
<1>3. CASE UNCHANGED vars
  BY <1>1, <1>2, <1>3, ElsewhereExecution DEF vars, databaseVars
<1>4. CASE Tick
  BY <1>1, <1>2, <1>4, ElsewhereExecution DEF Tick, databaseVars, executionVars
<1>5. ASSUME NEW t \in Transaction, StartVoting(t)
      PROVE  ExecutionInv'
  BY <1>1, <1>5, StartVotingExecution
<1>6. ASSUME NEW c \in Cohort, CohortNext(c)
      PROVE  ExecutionInv'
  <2>1. CASE StartTask(c)
    BY <1>1, <2>1, StartExecution
  <2>2. CASE Crash(c)
    BY <1>1, <1>2, <2>2, ElsewhereExecution DEF Crash, databaseVars, executionVars, chainVars
  <2>3. ASSUME NEW t \in Transaction
        PROVE  /\ PrepareTransaction(c, t) => ExecutionInv'
               /\ AcquireWholeDbLock(c, t) => ExecutionInv'
               /\ BeginInDb(c, t) => ExecutionInv'
               /\ ProcessOperationInDb(c, t) => ExecutionInv'
               /\ PersistTransaction(c, t) => ExecutionInv'
               /\ VoteCommit(c, t) => ExecutionInv'
    BY <1>1, PrepareExecution, AcquireExecution, BeginExecution, OperationExecution,
       PersistExecution, VoteCommitExecution
  <2>4. ASSUME NEW t \in Transaction,
               GiveUpLock(c, t) \/ OperationFails(c, t) \/ PersistFails(c, t)
        PROVE  ExecutionInv'
    BY <1>1, <2>4, FailExecution
  <2>5. ASSUME NEW t \in Transaction, CommitOnlyCohort(c, t) \/ CommitDecided(c, t)
        PROVE  ExecutionInv'
    BY <1>1, <2>5, CommitExecution
  <2>6. ASSUME NEW t \in Transaction, VoteAbort(c, t) \/ AbortDecided(c, t)
        PROVE  ExecutionInv'
    BY <1>1, <2>6, AbortExecution
  <2> QED
    BY <1>6, <2>1, <2>2, <2>3, <2>4, <2>5, <2>6 DEF CohortNext, Process
<1> QED
  BY <1>3, <1>4, <1>5, <1>6 DEF Next

LEMMA ExecutionInvHolds == Spec => []ExecutionInv
PROOF
  BY ExecutionInvInit, ExecutionInvNext, PTL DEF Spec

\* The queues, the databases, the results and the stages are of their types.
THEOREM DatabasesTypeCorrect == Spec => []TypeOK
PROOF
<1>1. ExecutionInv => TypeOK
  BY DEF ExecutionInv, Inv, LockTypeOK, DataTypeOK, TypeOK
<1> QED
  BY <1>1, ExecutionInvHolds, PTL

\* No operation is refused because of how its database transaction was begun:
\* whoever puts has begun for writing (ProcessTransactionInDb).
THEOREM NoOperationIsEverRefused == Spec => []NoOperationIsRefused
PROOF
<1>1. ExecutionInv => NoOperationIsRefused
  BY DEF ExecutionInv, WorkInv, NoOperationIsRefused
<1> QED
  BY <1>1, ExecutionInvHolds, PTL

-----------------------------------------------------------------------------
(* One database *)

\* The only cohort of a transaction is the only one.
LEMMA OneParticipant ==
  ASSUME NEW t \in Transaction, OnlyCohort(t),
         NEW c \in Participants(Ops[t]), NEW d \in Participants(Ops[t])
  PROVE  c = d
PROOF
<1> DEFINE P == Participants(Ops[t])
<1>1. Ops[t] \in Seq(Operation)
  BY OpsAssumption
<1>2. IsFiniteSet(P) /\ Cardinality(P) \in Nat
  BY <1>1, ParticipantsFinite
<1>3. ~(Cardinality(P) > 1)
  BY DEF OnlyCohort, OnlyCohorts, RequiresBlockchain
<1> HIDE DEF P
<1>4. Cardinality(P) = 0 \/ Cardinality(P) = 1
  BY <1>2, <1>3
<1>5. c \in P /\ d \in P
  BY DEF P
<1>6. P # {}
  BY <1>5
<1>7. Cardinality(P) = 1
  BY <1>2, <1>4, <1>6, FS_EmptySet
<1>8. \E x : P = {x}
  BY <1>2, <1>7, FS_Singleton
<1> QED
  BY <1>5, <1>8

\* When a transaction takes place: its only cohort commits, or the last of its
\* cohorts votes.
PlaceByBallots(t, at, v) ==
  IF OnlyCohort(t) THEN \E c \in Cohort : at[c][t] = "committed"
                   ELSE HasVoting(v) /\ ~VotedToAbort(v) /\ AllVotedToCommit(v)

LEMMA TakenPlaceIff ==
  ASSUME NEW t \in Transaction
  PROVE  /\ TakenPlace(t) <=> PlaceByBallots(t, stage, voting[t])
         /\ TakenPlace(t)' <=> PlaceByBallots(t, stage', voting'[t])
PROOF
<1>1. TakenPlace(t) <=> PlaceByBallots(t, stage, voting[t])
  BY DEF TakenPlace, PlaceByBallots, DecisionOf, getVotingDecision
<1>2. TakenPlace(t)' <=> PlaceByBallots(t, stage', voting'[t])
  BY DEF TakenPlace, PlaceByBallots, DecisionOf, getVotingDecision
<1> QED
  BY <1>1, <1>2

\* A transaction that has taken place is done, or waits for a decision that is
\* there, at each of its cohorts.
PlaceInv ==
  \A c \in Cohort, t \in Transaction :
    TakenPlace(t) =>
      /\ stage[c][t] \in {"none", "waiting", "committed"}
      /\ stage[c][t] = "none" => c \notin Participants(Ops[t])
      /\ OnlyCohort(t) => stage[c][t] # "waiting"

LEMMA PlaceInvHolds == ExecutionInv => PlaceInv
PROOF
<1> SUFFICES ASSUME ExecutionInv, NEW c \in Cohort, NEW t \in Transaction, TakenPlace(t)
             PROVE  /\ stage[c][t] \in {"none", "waiting", "committed"}
                    /\ stage[c][t] = "none" => c \notin Participants(Ops[t])
                    /\ OnlyCohort(t) => stage[c][t] # "waiting"
  BY DEF PlaceInv
<1>1. VoteInv(c, t) /\ EntryInv(t)
  BY DEF ExecutionInv
<1>2. CASE OnlyCohort(t)
  <2>1. PICK d \in Cohort : stage[d][t] = "committed"
    BY <1>2 DEF TakenPlace
  <2>2. d \in Participants(Ops[t])
    BY <2>1, ParticipantFacts
  <2>3. c \in Participants(Ops[t]) => c = d
    BY <1>2, <2>2, OneParticipant
  <2>4. stage[c][t] # "none" => c \in Participants(Ops[t])
    BY ParticipantFacts
  <2> QED
    BY <2>1, <2>3, <2>4
<1>3. CASE ~OnlyCohort(t)
  <2>1. HasVoting(voting[t]) /\ ~VotedToAbort(voting[t]) /\ AllVotedToCommit(voting[t])
    BY <1>3, TakenPlaceIff DEF PlaceByBallots
  <2>2. c \in Participants(Ops[t]) => BallotOf(c, t) = "COMMIT"
    BY <1>1, <2>1, EntryType DEF AllVotedToCommit, BallotOf
  <2>3. c \in Participants(Ops[t]) => stage[c][t] \in {"waiting", "committed"}
    BY <1>1, <1>3, <2>1, <2>2 DEF VoteInv
  <2>4. stage[c][t] # "none" => c \in Participants(Ops[t])
    BY <1>1 DEF VoteInv
  <2> QED
    BY <1>3, <2>3, <2>4
<1> QED
  BY <1>2, <1>3

LEMMA PlaceInvNext == ExecutionInv' => PlaceInv'
PROOF
  BY PlaceInvHolds, PTL

\* What the one database has of a cohort.
LEMMA DatabaseAt ==
  ASSUME ExecutionInv, NEW c \in Cohort
  PROVE  /\ ToCommit(c) = {} => OneDatabase[c] = store[c]
         /\ \A t \in ToCommit(c) :
              /\ OneDatabase[c] = adapter[c][t].view
              /\ lock[c][t] = "write"
              /\ ToCommit(c) = {t}
PROOF
<1>1. \A t \in ToCommit(c) : t \in Transaction /\ lock[c][t] = "write"
  BY DEF ToCommit, ExecutionInv, Inv, WriterInv
<1>2. ASSUME NEW t \in ToCommit(c), NEW u \in ToCommit(c), u # t
      PROVE  FALSE
  BY <1>1, <1>2, Exclusive DEF ExecutionInv
<1>3. \A t \in ToCommit(c) : ToCommit(c) = {t} /\ (CHOOSE u \in ToCommit(c) : TRUE) = t
  BY <1>2
<1> QED
  BY <1>1, <1>3 DEF OneDatabase

DatabaseInv ==
  \A c \in Cohort :
    /\ ToCommit(c) = {} => OneDatabase[c] = store[c]
    /\ \A t \in ToCommit(c) : OneDatabase[c] = adapter[c][t].view

LEMMA DatabaseInvHolds == ExecutionInv => DatabaseInv
PROOF
  BY DatabaseAt DEF DatabaseInv

LEMMA DatabaseInvNext == ExecutionInv' => DatabaseInv'
PROOF
  BY DatabaseInvHolds, PTL

LEMMA OneDatabaseType ==
  ASSUME ExecutionInv
  PROVE  OneDatabase \in [Cohort -> View]
PROOF
<1>1. ASSUME NEW c \in Cohort
      PROVE  OneDatabase[c] \in View
  <2>1. DatabaseTypeOK
    BY DEF ExecutionInv, DataTypeOK
  <2>2. CASE ToCommit(c) = {}
    BY <2>1, <2>2, DatabaseAt DEF DatabaseTypeOK
  <2>3. ASSUME NEW t \in ToCommit(c)
        PROVE  OneDatabase[c] \in View
    <3>1. t \in Transaction /\ OneDatabase[c] = adapter[c][t].view
      BY DatabaseAt DEF ToCommit
    <3> QED
      BY <2>1, <3>1 DEF DatabaseTypeOK
  <2> QED
    BY <2>2, <2>3
<1>2. OneDatabase = [c \in Cohort |-> OneDatabase[c]]
  BY DEF OneDatabase
<1> QED
  BY <1>1, <1>2

\* A transaction that is done at a cohort and has not taken place has done there
\* what SerialExecution does to the one database.
Execution(c, t) == Locally(OpsAt(c, t), OneDatabase[c])[Len(OpsAt(c, t))]

\* What the one database has of a cohort when t has taken place.
After(c, t) == IF adapter[c][t].txn = "read-write" THEN adapter[c][t].view
                                                   ELSE OneDatabase[c]

LEMMA ReadyToCommit ==
  ASSUME ExecutionInv, NEW c \in Cohort, NEW t \in Transaction, ~TakenPlace(t),
         stage[c][t] \in Started, done[c][t] = Len(OpsAt(c, t))
  PROVE  /\ Execution(c, t) = [data |-> After(c, t), results |-> gets[c][t], ok |-> TRUE]
         /\ adapter[c][t].txn = "read-write" => ToCommit(c) = {}
PROOF
<1>1. WorkInv(c, t)
  BY DEF ExecutionInv
<1>2. /\ lock[c][t] = LockMode(OpsAt(c, t))
      /\ adapter[c][t].txn = (IF lock[c][t] = "write" THEN "read-write" ELSE "read-only")
      /\ lock[c][t] # "none" =>
           Locally(OpsAt(c, t), store[c])[Len(OpsAt(c, t))]
             = [data |-> adapter[c][t].view, results |-> gets[c][t], ok |-> TRUE]
      /\ lock[c][t] = "read" => adapter[c][t].view = store[c]
      /\ lock[c][t] = "none" => gets[c][t] = << >>
  BY <1>1 DEF WorkInv, Started
<1>3. \A u \in ToCommit(c) : u \in Transaction /\ lock[c][u] = "write" /\ u # t
  BY DatabaseAt DEF ToCommit
<1>4. lock[c][t] # "none" => ToCommit(c) = {}
  <2>1. \A u \in ToCommit(c) : lock[c][t] = "none"
    BY <1>3, Exclusive DEF ExecutionInv
  <2> QED
    BY <2>1
<1>5. lock[c][t] # "none" => OneDatabase[c] = store[c]
  BY <1>4, DatabaseAt
<1>6. CASE lock[c][t] = "write"
  BY <1>2, <1>4, <1>5, <1>6 DEF Execution, After
<1>7. CASE lock[c][t] = "read"
  BY <1>2, <1>5, <1>7 DEF Execution, After
<1>8. CASE lock[c][t] = "none"
  <2>1. ~HasPut(OpsAt(c, t)) /\ ~HasGet(OpsAt(c, t))
    BY <1>2, <1>8 DEF LockMode
  <2>2. OpsAt(c, t) \in Seq(Operation) /\ OneDatabase[c] \in View
    BY OpsAtType, OneDatabaseType
  <2>3. Execution(c, t) = Serial!Unread(OneDatabase[c])
    BY <2>1, <2>2, LocallyNothing DEF Execution
  <2> QED
    BY <1>2, <1>8, <2>3 DEF Serial!Unread, After
<1>9. lock[c][t] \in {"none", "read", "write"}
  BY DEF ExecutionInv, Inv, LockTypeOK, PerTransaction
<1> QED
  BY <1>6, <1>7, <1>8, <1>9

\* At a cohort that takes no part nothing happens.
LEMMA NoPart ==
  ASSUME ExecutionInv, NEW c \in Cohort, NEW t \in Transaction,
         c \notin Participants(Ops[t])
  PROVE  /\ Execution(c, t) = [data |-> After(c, t), results |-> gets[c][t], ok |-> TRUE]
         /\ adapter[c][t].txn # "read-write"
PROOF
<1>1. stage[c][t] = "none"
  BY ParticipantFacts
<1>2. adapter[c][t].txn = "none" /\ gets[c][t] = << >>
  BY <1>1 DEF ExecutionInv, WorkInv, NotStarted
<1>3. OpsAt(c, t) = << >> /\ OpsAt(c, t) \in Seq(Operation) /\ OneDatabase[c] \in View
  BY OpsAtType, OneDatabaseType
<1>4. Execution(c, t) = Serial!Unread(OneDatabase[c])
  <2>1. Locally(OpsAt(c, t), OneDatabase[c])[0] = Serial!Unread(OneDatabase[c])
    BY <1>3, LocallyStep
  <2>2. Len(OpsAt(c, t)) = 0
    BY <1>3
  <2> QED
    BY <2>1, <2>2 DEF Execution
<1> QED
  BY <1>2, <1>4 DEF Serial!Unread, After

\* A transaction takes place: the step of the one database.
LEMMA TakesPlace ==
  ASSUME ExecutionInv, NEW t \in Transaction, ~TakenPlace(t),
         \A c \in Participants(Ops[t]) :
           stage[c][t] \in Started /\ done[c][t] = Len(OpsAt(c, t)),
         \A u \in Transaction : TakenPlace(u)' <=> (TakenPlace(u) \/ u = t),
         \A c \in Cohort : OneDatabase'[c] = After(c, t),
         gets' = gets
  PROVE  Serial!Commit(t)
PROOF
<1> DEFINE executed == Serial!Execution(Ops[t], OneDatabase)[Len(Ops[t])]
<1>1. Ops[t] \in Seq(Operation) /\ OneDatabase \in [Cohort -> View]
  BY OpsAssumption, OneDatabaseType
<1>2. ASSUME NEW c \in Cohort
      PROVE  /\ executed[c].data = After(c, t)
             /\ executed[c].results = gets[c][t]
             /\ executed[c].ok
  <2>1. executed[c] = Execution(c, t)
    BY <1>1, ExecutionIsLocal, OpsAtType DEF Execution
  <2>2. CASE c \in Participants(Ops[t])
    <3>1. Execution(c, t) = [data |-> After(c, t), results |-> gets[c][t], ok |-> TRUE]
      BY <2>2, ReadyToCommit
    <3> QED
      BY <2>1, <3>1
  <2>3. CASE c \notin Participants(Ops[t])
    <3>1. Execution(c, t) = [data |-> After(c, t), results |-> gets[c][t], ok |-> TRUE]
      BY <2>3, NoPart
    <3> QED
      BY <2>1, <3>1
  <2> QED
    BY <2>2, <2>3
<1> HIDE DEF executed
<1>3. \A c \in Cohort : executed[c].ok
  BY <1>2
<1>4. OneDatabase' = [c \in Cohort |-> executed[c].data]
  <2>1. OneDatabase' = [c \in Cohort |-> OneDatabase'[c]]
    BY DEF OneDatabase
  <2>2. \A c \in Cohort : OneDatabase'[c] = executed[c].data
    BY <1>2
  <2>3. [c \in Cohort |-> OneDatabase'[c]] = [c \in Cohort |-> executed[c].data]
    BY ONLY <2>2
  <2> QED
    BY ONLY <2>1, <2>3
<1>5. t \notin {u \in Transaction : TakenPlace(u)}
  OBVIOUS
<1>6. {u \in Transaction : TakenPlace(u)}' = {u \in Transaction : TakenPlace(u)} \cup {t}
  <2>1. \A u \in Transaction : TakenPlace(u)' <=> (TakenPlace(u) \/ u = t)
    OBVIOUS
  <2> QED
    BY ONLY <2>1, t \in Transaction
<1> DEFINE results == [u \in Transaction |-> [c \in Cohort |->
                         IF TakenPlace(u) THEN gets[c][u] ELSE << >>]]
<1>7. results' = [results EXCEPT ![t] = [c \in Cohort |-> executed[c].results]]
  <2>1. [c \in Cohort |-> executed[c].results] = [c \in Cohort |-> gets[c][t]]
    BY <1>2
  <2>2. results' = [u \in Transaction |-> [c \in Cohort |->
                      IF TakenPlace(u) \/ u = t THEN gets[c][u] ELSE << >>]]
    <3>1. \A u \in Transaction : TakenPlace(u)' <=> (TakenPlace(u) \/ u = t)
      OBVIOUS
    <3> QED
      BY ONLY <3>1, gets' = gets
  <2> QED
    BY <2>1, <2>2
<1> QED
  BY <1>3, <1>4, <1>5, <1>6, <1>7 DEF Serial!Commit, executed

\* A step in which no transaction takes place and none is committed.
LEMMA Stutters ==
  ASSUME ExecutionInv,
         \A t \in Transaction : TakenPlace(t)' <=> TakenPlace(t),
         \A c \in Cohort : OneDatabase'[c] = OneDatabase[c],
         \A c \in Cohort, t \in Transaction : TakenPlace(t) => gets'[c][t] = gets[c][t]
  PROVE  UNCHANGED Serial!vars
PROOF
<1>1. OneDatabase' = OneDatabase
  <2>1. /\ OneDatabase = [c \in Cohort |-> OneDatabase[c]]
        /\ OneDatabase' = [c \in Cohort |-> OneDatabase'[c]]
    BY DEF OneDatabase
  <2> QED
    BY <2>1
<1>2. {t \in Transaction : TakenPlace(t)}' = {t \in Transaction : TakenPlace(t)}
  OBVIOUS
<1>3. [t \in Transaction |-> [c \in Cohort |->
         IF TakenPlace(t) THEN gets[c][t] ELSE << >>]]'
        = [t \in Transaction |-> [c \in Cohort |->
             IF TakenPlace(t) THEN gets[c][t] ELSE << >>]]
  OBVIOUS
<1> QED
  BY <1>1, <1>2, <1>3 DEF Serial!vars

\* The database of a cohort, before and after, by what is to be committed there.
LEMMA DatabaseFrame ==
  ASSUME ExecutionInv, ExecutionInv', NEW c \in Cohort,
         ToCommit(c)' = ToCommit(c), store'[c] = store[c],
         \A t \in ToCommit(c) : adapter'[c][t] = adapter[c][t]
  PROVE  OneDatabase'[c] = OneDatabase[c]
PROOF
<1>1. DatabaseInv /\ DatabaseInv'
  BY DatabaseInvHolds, DatabaseInvNext
<1>2. CASE ToCommit(c) = {}
  BY <1>1, <1>2 DEF DatabaseInv
<1>3. CASE ToCommit(c) # {}
  <2>1. PICK t : t \in ToCommit(c)
    BY <1>3
  <2>2. t \in ToCommit(c)'
    BY <2>1
  <2>3. OneDatabase[c] = adapter[c][t].view /\ OneDatabase'[c] = adapter'[c][t].view
    BY <1>1, <2>1, <2>2 DEF DatabaseInv
  <2> QED
    BY <2>1, <2>3
<1> QED
  BY <1>2, <1>3

-----------------------------------------------------------------------------
(* The steps of the cohorts as steps of the one database *)

LEMMA NotTakenPlace ==
  ASSUME ExecutionInv, NEW c \in Cohort, NEW t \in Transaction
  PROVE  /\ stage[c][t] \notin {"none", "waiting", "committed"} => ~TakenPlace(t)
         /\ stage[c][t] = "none" /\ c \in Participants(Ops[t]) => ~TakenPlace(t)
PROOF
  BY PlaceInvHolds DEF PlaceInv

LEMMA NotTakenPlaceNext ==
  ASSUME ExecutionInv', NEW c \in Cohort, NEW t \in Transaction,
         stage'[c][t] \notin {"none", "waiting", "committed"}
  PROVE  ~TakenPlace(t)'
PROOF
  BY PlaceInvNext DEF PlaceInv

\* The other transactions take place when they did.
LEMMA SamePlaces ==
  ASSUME NEW u \in Transaction, voting'[u] = voting[u],
         \A c \in Cohort : stage'[c][u] = stage[c][u]
  PROVE  TakenPlace(u)' <=> TakenPlace(u)
PROOF
<1>1. PlaceByBallots(u, stage', voting'[u]) <=> PlaceByBallots(u, stage, voting[u])
  BY DEF PlaceByBallots
<1> QED
  BY <1>1, TakenPlaceIff

\* Nothing happens to those that have taken place.
LEMMA StutterStep ==
  ASSUME ExecutionInv, ExecutionInv', store' = store,
         \A u \in Transaction : TakenPlace(u)' <=> TakenPlace(u),
         \A c \in Cohort, u \in Transaction : TakenPlace(u) =>
           /\ stage'[c][u] = stage[c][u]
           /\ adapter'[c][u] = adapter[c][u]
           /\ gets'[c][u] = gets[c][u]
  PROVE  UNCHANGED Serial!vars
PROOF
<1>1. ASSUME NEW c \in Cohort
      PROVE  OneDatabase'[c] = OneDatabase[c]
  <2>1. \A u \in Transaction : u \in ToCommit(c)' <=> u \in ToCommit(c)
    BY DEF ToCommit
  <2>2. ToCommit(c)' \subseteq Transaction /\ ToCommit(c) \subseteq Transaction
    BY DEF ToCommit
  <2>3. ToCommit(c)' = ToCommit(c)
    BY <2>1, <2>2
  <2>4. \A u \in ToCommit(c) : adapter'[c][u] = adapter[c][u]
    BY DEF ToCommit
  <2> QED
    BY <2>3, <2>4, DatabaseFrame
<1> QED
  BY <1>1, Stutters

\* A step of a transaction that has not taken place and does not then.
LEMMA PlainStep ==
  ASSUME ExecutionInv, ExecutionInv', NEW c \in Cohort, NEW t \in Transaction,
         NEW s, stage' = stage \/ stage' = [stage EXCEPT ![c][t] = s],
         store' = store,
         \A d \in Cohort, u \in Transaction : u # t =>
           adapter'[d][u] = adapter[d][u] /\ gets'[d][u] = gets[d][u],
         \A u \in Transaction : u # t => voting'[u] = voting[u],
         ~TakenPlace(t), ~TakenPlace(t)'
  PROVE  UNCHANGED Serial!vars
PROOF
<1>1. \A d \in Cohort, u \in Transaction : u # t => stage'[d][u] = stage[d][u]
  <2>1. stage \in [Cohort -> [Transaction -> Stage]]
    BY DEF ExecutionInv, Inv, LockTypeOK, PerTransaction
  <2>2. CASE stage' = stage
    BY ONLY <2>2
  <2>3. CASE stage' = [stage EXCEPT ![c][t] = s]
    BY ONLY <2>1, <2>3, c \in Cohort, t \in Transaction
  <2> QED
    BY <2>2, <2>3
<1>2. ASSUME NEW u \in Transaction
      PROVE  TakenPlace(u)' <=> TakenPlace(u)
  <2>1. CASE u = t
    BY <2>1
  <2>2. CASE u # t
    BY <1>1, <2>2, SamePlaces
  <2> QED
    BY <2>1, <2>2
<1>3. \A d \in Cohort, u \in Transaction : TakenPlace(u) =>
        /\ stage'[d][u] = stage[d][u]
        /\ adapter'[d][u] = adapter[d][u]
        /\ gets'[d][u] = gets[d][u]
  BY <1>1
<1> QED
  BY <1>2, <1>3, StutterStep

\* Before it votes a transaction has not taken place.
LEMMA EarlySteps ==
  ASSUME ExecutionInv, ExecutionInv', NEW c \in Cohort, NEW t \in Transaction,
         \/ PrepareTransaction(c, t) \/ AcquireWholeDbLock(c, t) \/ GiveUpLock(c, t)
         \/ BeginInDb(c, t) \/ OperationFails(c, t) \/ PersistFails(c, t)
         \/ PersistTransaction(c, t)
  PROVE  UNCHANGED Serial!vars
PROOF
<1>1. PICK s \in {"queued", "beginning", "executing", "aborting", "voting"} :
        /\ stage' = [stage EXCEPT ![c][t] = s]
        /\ UNCHANGED <<store, gets, voting>>
        /\ adapter' = adapter \/ \E x : adapter' = [adapter EXCEPT ![c][t] = x]
        /\ \/ stage[c][t] \in {"locking", "beginning", "executing"}
           \/ stage[c][t] = "none" /\ c \in Participants(Ops[t])
  <2>1. CASE PrepareTransaction(c, t)
    BY <2>1 DEF PrepareTransaction, databaseVars, executionVars, chainVars
  <2>2. CASE AcquireWholeDbLock(c, t)
    BY <2>2 DEF AcquireWholeDbLock, databaseVars, executionVars, chainVars
  <2>3. CASE GiveUpLock(c, t) \/ OperationFails(c, t) \/ PersistFails(c, t)
    BY <2>3 DEF GiveUpLock, OperationFails, PersistFails, AllDone, Fail, databaseVars, chainVars
  <2>4. CASE BeginInDb(c, t)
    BY <2>4 DEF BeginInDb, Begin, BeginReadOnly, executionVars, chainVars
  <2>5. CASE PersistTransaction(c, t)
    BY <2>5 DEF PersistTransaction, AllDone, databaseVars, executionVars, chainVars
  <2> QED
    BY <2>1, <2>2, <2>3, <2>4, <2>5
<1>2. stage'[c][t] = s
  BY <1>1 DEF ExecutionInv, Inv, LockTypeOK, PerTransaction
<1>3. ~TakenPlace(t) /\ ~TakenPlace(t)'
  BY <1>1, <1>2, NotTakenPlace, NotTakenPlaceNext
<1>4. \A d \in Cohort, u \in Transaction : u # t => adapter'[d][u] = adapter[d][u]
  <2>1. adapter \in [Cohort -> [Transaction ->
         [txn : {"none", "read-only", "read-write"}, view : View]]]
    BY DEF ExecutionInv, DataTypeOK, DatabaseTypeOK
  <2>2. CASE adapter' = adapter
    BY ONLY <2>2
  <2>3. ASSUME NEW x, adapter' = [adapter EXCEPT ![c][t] = x]
        PROVE  \A d \in Cohort, u \in Transaction : u # t => adapter'[d][u] = adapter[d][u]
    BY ONLY <2>1, <2>3, c \in Cohort, t \in Transaction
  <2> QED
    BY <1>1, <2>2, <2>3
<1> QED
  BY <1>1, <1>3, <1>4, PlainStep

LEMMA StartTaskStutters ==
  ASSUME ExecutionInv, ExecutionInv', NEW c \in Cohort, StartTask(c)
  PROVE  UNCHANGED Serial!vars
PROOF
<1>1. queue[c] \in Seq(Transaction) /\ queue[c] # << >>
  BY DEF StartTask, ExecutionInv, Inv, LockTypeOK
<1>2. PICK t \in Transaction :
        t = Head(queue[c]) /\ t = queue[c][1] /\ 1 \in 1 .. Len(queue[c])
  <2>1. Head(queue[c]) \in Transaction /\ Head(queue[c]) = queue[c][1]
        /\ 1 \in 1 .. Len(queue[c])
    BY <1>1
  <2> QED
    BY <2>1
<1>3. stage[c][t] = "queued"
  BY <1>2 DEF ExecutionInv, Inv, QueueInv
<1>4. stage' = [stage EXCEPT ![c][t] = "locking"] /\ UNCHANGED <<store, adapter, gets, voting>>
  BY <1>2 DEF StartTask, databaseVars, executionVars, chainVars
<1>5. stage'[c][t] = "locking"
  BY <1>4 DEF ExecutionInv, Inv, LockTypeOK, PerTransaction
<1>6. ~TakenPlace(t) /\ ~TakenPlace(t)'
  BY <1>3, <1>5, NotTakenPlace, NotTakenPlaceNext
<1> QED
  BY <1>4, <1>6, PlainStep

LEMMA OperationStutters ==
  ASSUME ExecutionInv, ExecutionInv', NEW c \in Cohort, NEW t \in Transaction,
         ProcessOperationInDb(c, t)
  PROVE  UNCHANGED Serial!vars
PROOF
<1>1. stage[c][t] = "executing" /\ stage' = stage /\ voting' = voting
  BY DEF ProcessOperationInDb, chainVars
<1>2. PICK op : op = NextOp(c, t)
  OBVIOUS
<1>3. /\ store' = store
      /\ \A d \in Cohort, u \in Transaction : u # t =>
           adapter'[d][u] = adapter[d][u] /\ gets'[d][u] = gets[d][u]
  <2>1. /\ store' = store
        /\ \A d \in Cohort, u \in Transaction : d # c \/ u # t =>
             adapter'[d][u] = adapter[d][u] /\ gets'[d][u] = gets[d][u]
        /\ DatabaseTypeOK' /\ gets' \in PerTransaction(Seq(Int))
        /\ adapter'[c][t].txn = adapter[c][t].txn
        /\ Serial!Execute([data |-> adapter[c][t].view, results |-> gets[c][t], ok |-> TRUE], op)
             = [data |-> adapter'[c][t].view, results |-> gets'[c][t], ok |-> TRUE]
        /\ op.type \notin {"put", "relative"} => adapter'[c][t].view = adapter[c][t].view
        /\ op.type # "get" => gets'[c][t] = gets[c][t]
    BY <1>2, OperationEffect
  <2> QED
    BY ONLY <2>1
<1>4. ~TakenPlace(t) /\ ~TakenPlace(t)'
  BY <1>1, NotTakenPlace, NotTakenPlaceNext
<1> QED
  BY <1>1, <1>3, <1>4, PlainStep

\* An abort vote or an abort.
LEMMA AbortStutters ==
  ASSUME ExecutionInv, ExecutionInv', NEW c \in Cohort, NEW t \in Transaction,
         VoteAbort(c, t) \/ AbortDecided(c, t)
  PROVE  UNCHANGED Serial!vars
PROOF
<1>1. /\ stage' = [stage EXCEPT ![c][t] = "aborted"] /\ store' = store
      /\ adapter' = [adapter EXCEPT ![c][t] = NoTxn] /\ gets' = gets
  BY DEF VoteAbort, AbortDecided, EndAborted, Abort, executionVars
<1>2. stage'[c][t] = "aborted"
  BY <1>1 DEF ExecutionInv, Inv, LockTypeOK, PerTransaction
<1>3. ~TakenPlace(t)'
  BY <1>2, NotTakenPlaceNext
<1>4. ~TakenPlace(t) /\ \A u \in Transaction : u # t => voting'[u] = voting[u]
  <2>1. CASE VoteAbort(c, t)
    BY <2>1, NotTakenPlace, VoteEffect DEF VoteAbort
  <2>2. CASE AbortDecided(c, t)
    <3>1. DecisionOf(t) = "ABORT" /\ voting' = voting
      BY <2>2 DEF AbortDecided, chainVars
    <3>2. HasVoting(voting[t])
      BY <3>1 DEF DecisionOf
    <3>3. ~OnlyCohort(t)
      BY <3>2, EntryType DEF ExecutionInv
    <3> QED
      BY <3>1, <3>3 DEF TakenPlace
  <2> QED
    BY <2>1, <2>2
<1>5. \A d \in Cohort, u \in Transaction : u # t => adapter'[d][u] = adapter[d][u]
  BY <1>1 DEF ExecutionInv, DataTypeOK, DatabaseTypeOK
<1> QED
  BY <1>1, <1>3, <1>4, <1>5, PlainStep

\* A COMMIT vote is counted or not; with the last one the transaction takes
\* place.
LEMMA VoteTakesPlace ==
  ASSUME ExecutionInv, ExecutionInv', NEW c \in Cohort, NEW t \in Transaction,
         VoteCommit(c, t)
  PROVE  UNCHANGED Serial!vars \/ Serial!Commit(t)
PROOF
<1>1. /\ stage[c][t] = "voting" /\ stage' = [stage EXCEPT ![c][t] = "waiting"]
      /\ VoteReturns(c, t, "COMMIT")
      /\ store' = store /\ adapter' = adapter /\ gets' = gets
  BY DEF VoteCommit, databaseVars, executionVars
<1>2. \A d \in Cohort, u \in Transaction :
        stage'[d][u] = IF d = c /\ u = t THEN "waiting" ELSE stage[d][u]
  BY <1>1 DEF ExecutionInv, Inv, LockTypeOK, PerTransaction
<1>3. ~TakenPlace(t)
  BY <1>1, NotTakenPlace
<1>4. \A u \in Transaction : u # t => voting'[u] = voting[u]
  BY <1>1, VoteEffect
<1>5. CASE ~TakenPlace(t)'
  BY <1>1, <1>3, <1>4, <1>5, PlainStep
<1>6. CASE TakenPlace(t)'
  <2>1. \A u \in Transaction : TakenPlace(u)' <=> (TakenPlace(u) \/ u = t)
    BY <1>2, <1>3, <1>4, <1>6, SamePlaces
  <2>2. c \in Participants(Ops[t]) /\ (OnlyCohort(t) \/ HasVoting(voting[t]))
    BY <1>1, ParticipantFacts
  <2>3. ASSUME NEW d \in Participants(Ops[t])
        PROVE  stage[d][t] \in {"voting", "waiting"} /\ done[d][t] = Len(OpsAt(d, t))
    <3>1. d \in Cohort
      BY DEF Participants
    <3>2. CASE d = c
      BY <1>1, <3>1, <3>2 DEF ExecutionInv, WorkInv, Started
    <3>3. CASE d # c
      <4>1. stage[d][t] \in {"waiting", "committed"}
        BY <1>2, <1>6, <3>1, <3>3, PlaceInvNext DEF PlaceInv
      <4>2. ~OnlyCohort(t)
        BY <2>2, <3>3, OneParticipant
      <4>3. BallotOf(c, t) = "UNKNOWN"
        BY <1>1, <2>2, <4>2 DEF ExecutionInv, VoteInv
      <4>4. ~AllVotedToCommit(voting[t])
        BY <2>2, <4>2, <4>3, EntryType DEF ExecutionInv, AllVotedToCommit, BallotOf
      <4>5. stage[d][t] = "waiting"
        BY <3>1, <4>1, <4>2, <4>4 DEF ExecutionInv, VoteInv
      <4> QED
        BY <3>1, <4>5 DEF ExecutionInv, WorkInv, Started
    <3> QED
      BY <3>2, <3>3
  <2>4. ASSUME NEW d \in Cohort
        PROVE  OneDatabase'[d] = After(d, t)
    <3>1. CASE adapter[d][t].txn = "read-write"
      <4>1. d \in Participants(Ops[t])
        BY <3>1, NoPart
      <4>2. stage'[d][t] # "committed"
        BY <1>2, <2>3, <4>1
      <4>3. t \in ToCommit(d)'
        BY <1>1, <1>6, <3>1, <4>2 DEF ToCommit
      <4>4. OneDatabase'[d] = adapter'[d][t].view
        BY <4>3, DatabaseInvNext DEF DatabaseInv
      <4> QED
        BY <1>1, <3>1, <4>4 DEF After
    <3>2. CASE adapter[d][t].txn # "read-write"
      <4>1. \A u \in Transaction : u \in ToCommit(d)' <=> u \in ToCommit(d)
        BY <1>1, <1>2, <2>1, <3>2 DEF ToCommit
      <4>2. ToCommit(d)' \subseteq Transaction /\ ToCommit(d) \subseteq Transaction
        BY DEF ToCommit
      <4>3. ToCommit(d)' = ToCommit(d)
        BY <4>1, <4>2
      <4>4. OneDatabase'[d] = OneDatabase[d]
        BY <1>1, <4>3, DatabaseFrame
      <4> QED
        BY <3>2, <4>4 DEF After
    <3> QED
      BY <3>1, <3>2
  <2>5. \A d \in Participants(Ops[t]) :
          stage[d][t] \in Started /\ done[d][t] = Len(OpsAt(d, t))
    BY <2>3 DEF Started
  <2> QED
    BY <1>1, <1>3, <2>1, <2>4, <2>5, TakesPlace
<1> QED
  BY <1>5, <1>6

\* What a commit does at the cohort, and what it leaves of the others.
LEMMA CommitEffect ==
  ASSUME ExecutionInv, NEW c \in Cohort, NEW t \in Transaction, CommitTransaction(c, t)
  PROVE  /\ gets' = gets /\ voting' = voting
         /\ \A d \in Cohort, u \in Transaction : d # c \/ u # t =>
              stage'[d][u] = stage[d][u] /\ adapter'[d][u] = adapter[d][u]
         /\ stage'[c][t] = "committed"
         /\ \A d \in Cohort : d # c => store'[d] = store[d]
         /\ store'[c] = IF adapter[c][t].txn = "read-write" THEN adapter[c][t].view
                                                            ELSE store[c]
PROOF
<1>1. /\ stage' = [stage EXCEPT ![c][t] = "committed"]
      /\ adapter' = [adapter EXCEPT ![c][t] = NoTxn]
      /\ gets' = gets /\ voting' = voting
  BY DEF CommitTransaction, Commit, executionVars, chainVars
<1>2. IF adapter[c][t].txn = "read-write"
      THEN store' = [store EXCEPT ![c] = adapter[c][t].view] ELSE store' = store
  BY DEF CommitTransaction, Commit
<1>3. /\ store \in [Cohort -> View]
      /\ adapter \in [Cohort -> [Transaction ->
           [txn : {"none", "read-only", "read-write"}, view : View]]]
      /\ stage \in [Cohort -> [Transaction -> Stage]]
  BY DEF ExecutionInv, Inv, LockTypeOK, PerTransaction, DataTypeOK, DatabaseTypeOK
<1>4. \A d \in Cohort, u \in Transaction : d # c \/ u # t =>
        stage'[d][u] = stage[d][u] /\ adapter'[d][u] = adapter[d][u]
  BY <1>1, <1>3
<1>5. stage'[c][t] = "committed"
  BY <1>1, <1>3
<1>6. /\ \A d \in Cohort : d # c => store'[d] = store[d]
      /\ store'[c] = IF adapter[c][t].txn = "read-write" THEN adapter[c][t].view
                                                         ELSE store[c]
  BY <1>2, <1>3
<1> QED
  BY <1>1, <1>4, <1>5, <1>6

\* At the only cohort the commit is when the transaction takes place.
LEMMA OnlyCohortTakesPlace ==
  ASSUME ExecutionInv, ExecutionInv', NEW c \in Cohort, NEW t \in Transaction,
         CommitOnlyCohort(c, t)
  PROVE  Serial!Commit(t)
PROOF
<1>1. /\ stage[c][t] = "executing" /\ done[c][t] = Len(OpsAt(c, t)) /\ OnlyCohort(t)
      /\ CommitTransaction(c, t)
  BY DEF CommitOnlyCohort, AllDone
<1>2. /\ gets' = gets /\ voting' = voting
      /\ \A d \in Cohort, u \in Transaction : d # c \/ u # t =>
           stage'[d][u] = stage[d][u] /\ adapter'[d][u] = adapter[d][u]
      /\ stage'[c][t] = "committed"
      /\ \A d \in Cohort : d # c => store'[d] = store[d]
      /\ store'[c] = IF adapter[c][t].txn = "read-write" THEN adapter[c][t].view
                                                         ELSE store[c]
  BY <1>1, CommitEffect
<1>3. ~TakenPlace(t)
  BY <1>1, NotTakenPlace
<1>4. TakenPlace(t)'
  <2>1. PlaceByBallots(t, stage', voting'[t])
    BY <1>1, <1>2 DEF PlaceByBallots
  <2> QED
    BY <2>1, TakenPlaceIff
<1>5. \A u \in Transaction : TakenPlace(u)' <=> (TakenPlace(u) \/ u = t)
  BY <1>2, <1>3, <1>4, SamePlaces
<1>6. c \in Participants(Ops[t])
  BY <1>1, ParticipantFacts
<1>7. \A d \in Participants(Ops[t]) : d = c
  BY <1>1, <1>6, OneParticipant
<1>8. \A d \in Participants(Ops[t]) :
        stage[d][t] \in Started /\ done[d][t] = Len(OpsAt(d, t))
  BY <1>1, <1>7 DEF Started
<1>9. \A d \in Cohort, u \in Transaction :
        u \in ToCommit(d)' <=> u \in ToCommit(d)
  <2> SUFFICES ASSUME NEW d \in Cohort, NEW u \in Transaction
               PROVE  u \in ToCommit(d)' <=> u \in ToCommit(d)
    OBVIOUS
  <2>1. CASE u # t
    BY <1>2, <1>5, <2>1 DEF ToCommit
  <2>2. CASE u = t /\ d = c
    BY <1>2, <1>3, <2>2 DEF ToCommit
  <2>3. CASE u = t /\ d # c
    <3>1. adapter[d][t].txn # "read-write"
      BY <1>7, <2>3, NoPart
    <3> QED
      BY <1>2, <1>3, <2>3, <3>1 DEF ToCommit
  <2> QED
    BY <2>1, <2>2, <2>3
<1>10. ASSUME NEW d \in Cohort
       PROVE  OneDatabase'[d] = After(d, t)
  <2>1. ToCommit(d)' \subseteq Transaction /\ ToCommit(d) \subseteq Transaction
    BY DEF ToCommit
  <2>2. ToCommit(d)' = ToCommit(d)
    BY <1>9, <2>1
  <2>3. CASE adapter[d][t].txn = "read-write"
    <3>1. d = c
      BY <1>7, <2>3, NoPart
    <3>2. ToCommit(c) = {}
      BY <1>1, <1>3, <2>3, <3>1, ReadyToCommit DEF Started
    <3>3. OneDatabase'[c] = store'[c]
      BY <2>2, <3>1, <3>2, DatabaseInvNext DEF DatabaseInv
    <3> QED
      BY <1>2, <2>3, <3>1, <3>3 DEF After
  <2>4. CASE adapter[d][t].txn # "read-write"
    <3>1. store'[d] = store[d]
      BY <1>2, <2>4
    <3>2. \A u \in ToCommit(d) : adapter'[d][u] = adapter[d][u]
      BY <1>2, <1>3 DEF ToCommit
    <3>3. OneDatabase'[d] = OneDatabase[d]
      BY <2>2, <3>1, <3>2, DatabaseFrame
    <3> QED
      BY <2>4, <3>3 DEF After
  <2> QED
    BY <2>3, <2>4
<1> QED
  BY <1>2, <1>3, <1>5, <1>8, <1>10, TakesPlace

\* A commit that is decided changes nothing: what it writes is there already.
LEMMA CommitDecidedStutters ==
  ASSUME ExecutionInv, ExecutionInv', NEW c \in Cohort, NEW t \in Transaction,
         CommitDecided(c, t)
  PROVE  UNCHANGED Serial!vars
PROOF
<1>1. stage[c][t] = "waiting" /\ DecisionOf(t) = "COMMIT" /\ CommitTransaction(c, t)
  BY DEF CommitDecided
<1>2. /\ gets' = gets /\ voting' = voting
      /\ \A d \in Cohort, u \in Transaction : d # c \/ u # t =>
           stage'[d][u] = stage[d][u] /\ adapter'[d][u] = adapter[d][u]
      /\ stage'[c][t] = "committed"
      /\ \A d \in Cohort : d # c => store'[d] = store[d]
      /\ store'[c] = IF adapter[c][t].txn = "read-write" THEN adapter[c][t].view
                                                         ELSE store[c]
  BY <1>1, CommitEffect
<1>3. HasVoting(voting[t])
  BY <1>1 DEF DecisionOf
<1>4. ~OnlyCohort(t)
  BY <1>3, EntryType DEF ExecutionInv
<1>5. TakenPlace(t)
  BY <1>1, <1>4 DEF TakenPlace
<1>6. ASSUME NEW u \in Transaction
      PROVE  TakenPlace(u)' <=> TakenPlace(u)
  <2>1. CASE u = t
    <3>1. PlaceByBallots(t, stage', voting'[t]) <=> PlaceByBallots(t, stage, voting[t])
      BY <1>2, <1>4 DEF PlaceByBallots
    <3> QED
      BY <2>1, <3>1, TakenPlaceIff
  <2>2. CASE u # t
    BY <1>2, <2>2, SamePlaces
  <2> QED
    BY <2>1, <2>2
<1>7. ASSUME NEW d \in Cohort
      PROVE  OneDatabase'[d] = OneDatabase[d]
  <2>1. ToCommit(d)' \subseteq Transaction /\ ToCommit(d) \subseteq Transaction
    BY DEF ToCommit
  <2>2. CASE d = c /\ adapter[c][t].txn = "read-write"
    <3>1. t \in ToCommit(c)
      BY <1>1, <1>5, <2>2 DEF ToCommit
    <3>2. OneDatabase[c] = adapter[c][t].view /\ ToCommit(c) = {t}
      BY <3>1, DatabaseAt
    <3>3. \A u \in Transaction : u \notin ToCommit(c)'
      BY <1>2, <1>6, <3>2 DEF ToCommit
    <3>4. ToCommit(c)' = {}
      BY <2>1, <2>2, <3>3
    <3>5. OneDatabase'[c] = store'[c]
      BY <3>4, DatabaseInvNext DEF DatabaseInv
    <3> QED
      BY <1>2, <2>2, <3>2, <3>5
  <2>3. CASE d # c \/ adapter[c][t].txn # "read-write"
    <3>1. store'[d] = store[d]
      BY <1>2, <2>3
    <3>2. t \notin ToCommit(c)'
      BY <1>2 DEF ToCommit
    <3>3. \A u \in Transaction : u \in ToCommit(d)' <=> u \in ToCommit(d)
      BY <1>2, <1>6, <2>3, <3>2 DEF ToCommit
    <3>4. ToCommit(d)' = ToCommit(d)
      BY <2>1, <3>3
    <3>5. \A u \in ToCommit(d) : adapter'[d][u] = adapter[d][u]
      BY <1>2, <2>3 DEF ToCommit
    <3> QED
      BY <3>1, <3>4, <3>5, DatabaseFrame
  <2> QED
    BY <2>2, <2>3
<1> QED
  BY <1>2, <1>6, <1>7, Stutters

\* A new voting has no ballots.
LEMMA StartVotingStutters ==
  ASSUME ExecutionInv, ExecutionInv', NEW t \in Transaction, StartVoting(t)
  PROVE  UNCHANGED Serial!vars
PROOF
<1> DEFINE n == Cardinality(Participants(Ops[t]))
<1>1. PICK timeout \in 1 .. MaxTime : voting' = [voting EXCEPT ![t] = StartedVoting(n, timeout)]
  BY DEF StartVoting
<1>2. /\ ~OnlyCohort(t) /\ ~HasVoting(voting[t])
      /\ store' = store /\ adapter' = adapter /\ gets' = gets /\ stage' = stage
  BY DEF StartVoting, databaseVars, executionVars
<1>3. DOMAIN voting = Transaction
  BY DEF ExecutionInv
<1>4. /\ voting'[t] = StartedVoting(n, timeout)
      /\ \A u \in Transaction : u # t => voting'[u] = voting[u]
  BY <1>1, <1>3
<1>5. n \in Nat
  <2>1. Ops[t] \in Seq(Operation)
    BY OpsAssumption
  <2> QED
    BY <2>1, ParticipantsFinite
<1>6. n > 1
  BY <1>2 DEF OnlyCohort, OnlyCohorts, RequiresBlockchain
<1> HIDE DEF n
<1>7. ~AllVotedToCommit(voting'[t])
  <2>1. 0 \in DOMAIN voting'[t].ballots /\ voting'[t].ballots[0] = "UNKNOWN"
    BY <1>4, <1>5, <1>6 DEF StartedVoting
  <2> QED
    BY <2>1 DEF AllVotedToCommit
<1>8. ~TakenPlace(t) /\ ~TakenPlace(t)'
  BY <1>2, <1>7, TakenPlaceIff DEF PlaceByBallots
<1>9. \A u \in Transaction : TakenPlace(u)' <=> TakenPlace(u)
  BY <1>2, <1>4, <1>8, SamePlaces
<1> QED
  BY <1>2, <1>9, StutterStep

\* Every step is one of the one database, or none of its.
LEMMA SerialNext == ExecutionInv /\ ExecutionInv' /\ [Next]_vars => [Serial!Next]_(Serial!vars)
PROOF
<1> SUFFICES ASSUME ExecutionInv, ExecutionInv', [Next]_vars
             PROVE  Serial!Next \/ UNCHANGED Serial!vars
  OBVIOUS
<1>1. ASSUME UNCHANGED <<store, adapter, gets, voting, stage>>
      PROVE  UNCHANGED Serial!vars
  <2>1. \A u \in Transaction : TakenPlace(u)' <=> TakenPlace(u)
    BY <1>1, SamePlaces
  <2> QED
    BY <1>1, <2>1, StutterStep
<1>2. CASE UNCHANGED vars
  BY <1>1, <1>2 DEF vars, databaseVars
<1>3. CASE Tick
  BY <1>1, <1>3 DEF Tick, databaseVars, executionVars
<1>4. ASSUME NEW t \in Transaction, StartVoting(t)
      PROVE  UNCHANGED Serial!vars
  BY <1>4, StartVotingStutters
<1>5. ASSUME NEW c \in Cohort, CohortNext(c)
      PROVE  Serial!Next \/ UNCHANGED Serial!vars
  <2>1. CASE StartTask(c)
    BY <2>1, StartTaskStutters
  <2>2. CASE Crash(c)
    BY <1>1, <2>2 DEF Crash, databaseVars, executionVars, chainVars
  <2>3. ASSUME NEW t \in Transaction,
               \/ PrepareTransaction(c, t) \/ AcquireWholeDbLock(c, t) \/ GiveUpLock(c, t)
               \/ BeginInDb(c, t) \/ OperationFails(c, t) \/ PersistFails(c, t)
               \/ PersistTransaction(c, t)
        PROVE  UNCHANGED Serial!vars
    BY <2>3, EarlySteps
  <2>4. ASSUME NEW t \in Transaction, ProcessOperationInDb(c, t)
        PROVE  UNCHANGED Serial!vars
    BY <2>4, OperationStutters
  <2>5. ASSUME NEW t \in Transaction, VoteAbort(c, t) \/ AbortDecided(c, t)
        PROVE  UNCHANGED Serial!vars
    BY <2>5, AbortStutters
  <2>6. ASSUME NEW t \in Transaction, CommitDecided(c, t)
        PROVE  UNCHANGED Serial!vars
    BY <2>6, CommitDecidedStutters
  <2>7. ASSUME NEW t \in Transaction, VoteCommit(c, t) \/ CommitOnlyCohort(c, t)
        PROVE  Serial!Commit(t) \/ UNCHANGED Serial!vars
    BY <2>7, VoteTakesPlace, OnlyCohortTakesPlace
  <2>8. ASSUME NEW t \in Transaction, Serial!Commit(t)
        PROVE  Serial!Next
    BY <2>8 DEF Serial!Next
  <2> QED
    BY <1>5, <2>1, <2>2, <2>3, <2>4, <2>5, <2>6, <2>7, <2>8 DEF CohortNext, Process
<1> QED
  BY <1>2, <1>3, <1>4, <1>5 DEF Next

\* Nothing has taken place at the start.
LEMMA SerialInit == Init => Serial!Init
PROOF
<1> SUFFICES ASSUME Init PROVE Serial!Init
  OBVIOUS
<1>1. \A t \in Transaction : ~TakenPlace(t)
  <2>1. \A t \in Transaction : voting[t] = NoVoting /\ ~HasVoting(voting[t])
    BY DEF Init, HasVoting, NoVoting
  <2>2. \A t \in Transaction, c \in Cohort : stage[c][t] = "none"
    BY DEF Init, ForAll
  <2> QED
    BY <2>1, <2>2, TakenPlaceIff DEF PlaceByBallots
<1>2. OneDatabase = Initial
  <2>1. \A c \in Cohort : ToCommit(c) = {}
    BY <1>1 DEF ToCommit
  <2>2. store = Initial
    BY DEF Init, DatabaseInit
  <2>3. Initial = [c \in Cohort |-> Initial[c]]
    BY InitialAssumption
  <2>4. OneDatabase = [c \in Cohort |-> Initial[c]]
    BY <2>1, <2>2 DEF OneDatabase
  <2> QED
    BY <2>3, <2>4
<1>3. {t \in Transaction : TakenPlace(t)} = {}
  BY <1>1
<1>4. [t \in Transaction |-> [c \in Cohort |-> IF TakenPlace(t) THEN gets[c][t] ELSE << >>]]
        = [t \in Transaction |-> Serial!NoResults]
  <2>1. \A t \in Transaction :
          [c \in Cohort |-> IF TakenPlace(t) THEN gets[c][t] ELSE << >>] = Serial!NoResults
    BY <1>1 DEF Serial!NoResults
  <2> QED
    BY ONLY <2>1
<1> QED
  BY <1>2, <1>3, <1>4 DEF Serial!Init

\* The transactions that commit, at one cohort or at several, read and write
\* what they would if they took place one after the other: the lock on the whole
\* database is held from before the first operation until the decision is
\* carried out (AcquireWholeDbLock, WaitForBlockchainDecision,
\* ReleaseLocksAndDeleteMetadata).
THEOREM SerialExecutionRefinement == Spec => ImplementsSerialExecution
PROOF
<1> QED
  BY SerialInit, SerialNext, ExecutionInvHolds, PTL
  DEF Spec, ImplementsSerialExecution, Serial!Spec
=============================================================================
