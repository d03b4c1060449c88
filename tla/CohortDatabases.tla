--------------------------- MODULE CohortDatabases ---------------------------
(***************************************************************************)
(* Several transactions at several cohorts.  A cohort pushes every         *)
(* PrepareTransaction as a task to its thread pool; a worker takes the     *)
(* lock on the whole database, executes the operations in a database       *)
(* transaction, votes, and keeps the worker and the lock until the         *)
(* decision is carried out.                                                *)
(*                                                                         *)
(* The steps of one transaction at one cohort, the coordinator's request   *)
(* and the blockchain are modelled in detail in TwoPhaseCommit; they are   *)
(* coarser here: a vote is mined and answered in one step, or its RPC      *)
(* fails, and a cohort asks for the decision when there is one.  A vote    *)
(* that comes after the timeout reverts, and nobody answers it unless the  *)
(* adapter dies.  A crashed cohort stays down.                             *)
(***************************************************************************)
EXTENDS DatabaseAdapter, Voting

CONSTANTS Ops,          \* the operations of each transaction
          NumWorkers,   \* num_db_threads of each cohort
          MaxTime,      \* bound: the last block timestamp
          Mixes,        \* bound: sets of transactions that are run together
          MayGiveUp,    \* bound: the transactions GiveUpLock may happen to
          MayLoseVote,  \* bound: the ones whose adapter may die during a Vote
          MayCrash      \* bound: the cohorts that may crash

ASSUME OpsAssumption == Ops \in [Transaction -> Seq(Operation)]
ASSUME NumWorkersAssumption == NumWorkers \in [Cohort -> Nat \ {0}]
ASSUME BoundsAssumption == /\ MaxTime \in Nat
                           /\ Mixes \subseteq SUBSET Transaction
                           /\ MayGiveUp \subseteq Transaction
                           /\ MayLoseVote \subseteq Transaction
                           /\ MayCrash \subseteq Cohort

VARIABLES voting,      \* the contract's entry of each transaction
          block_time,
          down,        \* the cohorts that have crashed
          queue,       \* tasks of each cohort's thread_pool_ not started yet
          stage,       \* where ProcessTransaction of each transaction is
          done,        \* how many of its operations are done
          gets,        \* get_responses of its committed_response
          db_status,   \* what ProcessTransactionInDb or PersistTransaction returned
          lock,        \* has_whole_db_read_lock, has_whole_db_write_lock
          mutex        \* whole_db_mutex_ of each cohort

vars == <<databaseVars, voting, block_time, down, queue, stage, done, gets,
          db_status, lock, mutex>>

Stage == {"none", "queued",
          "locking",     \* in AcquireWholeDbLock
          "beginning",   \* has the lock
          "executing",
          "voting",      \* in Vote(BALLOT_COMMIT)
          "waiting",     \* in WaitForBlockchainDecision
          "aborting",    \* in Vote(BALLOT_ABORT) of AbortTransaction
          "committed", "aborted"}

DbStatus == {"ok", "internal", "failed_precondition", "not_found",
             "deadline_exceeded"}

PerTransaction(S) == [Cohort -> [Transaction -> S]]
ForAll(x) == [c \in Cohort |-> [t \in Transaction |-> x]]

TypeOK ==
  /\ DatabaseTypeOK
  /\ DOMAIN voting = Transaction
  /\ block_time \in 0 .. MaxTime
  /\ down \subseteq Cohort
  /\ queue \in [Cohort -> Seq(Transaction)]
  /\ stage \in PerTransaction(Stage)
  /\ done \in PerTransaction(Nat)
  /\ gets \in PerTransaction(Seq(Int))
  /\ db_status \in PerTransaction(DbStatus)
  /\ lock \in PerTransaction({"none", "read", "write"})
  /\ mutex \in [Cohort -> [writer : BOOLEAN, readers : Nat]]

Init ==
  /\ DatabaseInit
  /\ voting = [t \in Transaction |-> NoVoting]
  /\ block_time = 0
  /\ down = {}
  /\ queue = [c \in Cohort |-> << >>]
  /\ stage = ForAll("none")
  /\ done = ForAll(0)
  /\ gets = ForAll(<< >>)
  /\ db_status = ForAll("ok")
  /\ lock = ForAll("none")
  /\ mutex = [c \in Cohort |-> [writer |-> FALSE, readers |-> 0]]

\* What is sent to the cohorts, as functions for TLC to evaluate them once.
SubTransactions == [c \in Cohort |->
                     [t \in Transaction |-> SubTransaction(Ops[t], c)]]
Indices         == [t \in Transaction |-> CohortIndex(Ops[t])]
OnlyCohorts     == {t \in Transaction : ~RequiresBlockchain(Ops[t])}

OpsAt(c, t)   == SubTransactions[c][t]
OnlyCohort(t) == t \in OnlyCohorts
Index(c, t)   == Indices[t][c]

DecisionOf(t) == IF HasVoting(voting[t]) THEN getVotingDecision(voting[t], block_time)
                                         ELSE "PENDING"

Active(c)   == {t \in Transaction :
                  stage[c][t] \notin {"none", "queued", "committed", "aborted"}}
Ended(c, t) == stage[c][t] \in {"committed", "aborted"}

executionVars == <<done, gets, db_status>>
chainVars     == <<voting, block_time>>
-----------------------------------------------------------------------------
(* The coordinator and the chain *)

\* The transactions the client has submitted so far, and this one.
Submit(t) ==
  \E mix \in Mixes :
    {t} \cup {u \in Transaction : \/ HasVoting(voting[u])
                                \/ \E c \in Cohort : stage[c][u] # "none"}
      \subseteq mix

\* CommitAtomicTransaction of a transaction with several participants starts
\* its voting before any cohort hears of it.
StartVoting(t) ==
  /\ Submit(t)
  /\ ~OnlyCohort(t)
  /\ ~HasVoting(voting[t])
  /\ \E timeout \in 1 .. MaxTime :
       LET cohorts == Cardinality(Participants(Ops[t])) IN
       /\ CanStartVoting(cohorts, timeout, block_time)
       /\ voting' = [voting EXCEPT ![t] = StartedVoting(cohorts, timeout)]
  /\ UNCHANGED <<databaseVars, executionVars, block_time, down, queue, stage,
                 lock, mutex>>

\* PrepareTransaction arrives at a participant: push_task.
PrepareTransaction(c, t) ==
  /\ Submit(t)
  /\ stage[c][t] = "none"
  /\ c \in Participants(Ops[t])
  /\ OnlyCohort(t) \/ HasVoting(voting[t])
  /\ stage' = [stage EXCEPT ![c][t] = "queued"]
  /\ queue' = [queue EXCEPT ![c] = Append(@, t)]
  /\ UNCHANGED <<databaseVars, executionVars, chainVars, down, lock, mutex>>

Tick ==
  /\ block_time < MaxTime
  /\ block_time' = block_time + 1
  /\ UNCHANGED <<databaseVars, executionVars, voting, down, queue, stage, lock,
                 mutex>>
-----------------------------------------------------------------------------
(* Tasks and locks *)

\* A free worker takes the oldest task.
StartTask(c) ==
  /\ queue[c] # << >>
  /\ Cardinality(Active(c)) < NumWorkers[c]
  /\ stage' = [stage EXCEPT ![c][Head(queue[c])] = "locking"]
  /\ queue' = [queue EXCEPT ![c] = Tail(@)]
  /\ UNCHANGED <<databaseVars, executionVars, chainVars, down, lock, mutex>>

LockMode_FirstOp(ops) ==
  IF ops[1].type = "get" THEN "read" ELSE IF HasPut(ops) THEN "write" ELSE "none"

\* A transaction with a put needs the lock exclusively, one with gets only
\* shares it, one without either takes none.
LockMode(ops) == IF HasPut(ops) THEN "write" ELSE IF HasGet(ops) THEN "read" ELSE "none"

\* absl::Mutex: an exclusive holder keeps out all others, sharing ones keep out
\* an exclusive one.
CanLock(c, mode) ==
  CASE mode = "write" -> ~mutex[c].writer /\ mutex[c].readers = 0
    [] mode = "read"  -> ~mutex[c].writer
    [] mode = "none"  -> TRUE

AcquireWholeDbLock(c, t) ==
  LET mode == LockMode(OpsAt(c, t)) IN
  /\ stage[c][t] = "locking"
  /\ CanLock(c, mode)
  /\ mutex' = [mutex EXCEPT ![c] =
                 [writer  |-> @.writer \/ mode = "write",
                  readers |-> IF mode = "read" THEN @.readers + 1 ELSE @.readers]]
  /\ lock' = [lock EXCEPT ![c][t] = mode]
  /\ stage' = [stage EXCEPT ![c][t] = "beginning"]
  /\ UNCHANGED <<databaseVars, executionVars, chainVars, down, queue>>

\* AbortTransaction with a status: a vote, first of all.
Fail(c, t, status) ==
  /\ stage' = [stage EXCEPT ![c][t] = "aborting"]
  /\ db_status' = [db_status EXCEPT ![c][t] = status]

\* LockWhenWithDeadline returns false.  The code expects this of a lock that is
\* not available at the presumed abort time (on the cohort's own clock).  By its
\* contract absl::Mutex waits for the lock even then, since the deadline is
\* about the condition only, which is kTrue here.  A transaction in MayGiveUp has
\* the behaviours of both readings, another one those of the contract.
GiveUpLock(c, t) ==
  /\ t \in MayGiveUp
  /\ stage[c][t] = "locking"
  /\ ~CanLock(c, LockMode(OpsAt(c, t)))
  /\ Fail(c, t, "deadline_exceeded")
  /\ UNCHANGED <<databaseVars, chainVars, down, queue, done, gets, lock, mutex>>

ReleaseLocks_BothKinds(c, t) ==
  /\ mutex' = [mutex EXCEPT ![c] = [writer |-> FALSE, readers |-> @.readers - 1]]
  /\ lock' = [lock EXCEPT ![c][t] = "none"]

ReleaseLocks_Readers(c, t) ==
  /\ mutex' = [mutex EXCEPT ![c] = [writer  |-> @.writer /\ lock[c][t] # "write",
                                    readers |-> @.readers]]
  /\ lock' = [lock EXCEPT ![c][t] = "none"]

\* ReleaseLocksAndDeleteMetadata goes by the flags in the metadata.
ReleaseLocks(c, t) ==
  /\ mutex' = [mutex EXCEPT ![c] =
                 [writer  |-> @.writer /\ lock[c][t] # "write",
                  readers |-> IF lock[c][t] = "read" THEN @.readers - 1
                                                     ELSE @.readers]]
  /\ lock' = [lock EXCEPT ![c][t] = "none"]
-----------------------------------------------------------------------------
(* Execution *)

\* ProcessTransactionInDb: a transaction that did not have to lock exclusively
\* begins read-only.  Begin blocks while LMDB has another writer.
BeginInDb(c, t) ==
  /\ stage[c][t] = "beginning"
  /\ IF lock[c][t] = "write" THEN Begin(c, t) ELSE BeginReadOnly(c, t)
  /\ stage' = [stage EXCEPT ![c][t] = "executing"]
  /\ UNCHANGED <<executionVars, chainVars, down, queue, lock, mutex>>

NextOp(c, t) == OpsAt(c, t)[done[c][t] + 1]

\* What ProcessOperationInDb returns, and what it puts.
UsesDefault(c, t, op) ==
  GetStatus(c, t, op.key) = "not_found" /\ op.default # NoValue

OperationStatus(c, t, op) ==
  CASE op.type = "get"  -> GetStatus(c, t, op.key)
    [] op.type = "put"  -> PutStatus(c, t)
    [] op.type = "none" -> "ok"
    [] op.type = "relative" ->
         IF GetStatus(c, t, op.key) = "ok" \/ UsesDefault(c, t, op)
         THEN PutStatus(c, t) ELSE GetStatus(c, t, op.key)

ValueToPut(c, t, op) ==
  CASE op.type = "put" -> op.value
    [] UsesDefault(c, t, op) -> op.default + op.value
    [] OTHER -> adapter[c][t].view[op.key] + op.value

ProcessOperationInDb(c, t) ==
  LET op == NextOp(c, t) IN
  /\ stage[c][t] = "executing"
  /\ done[c][t] < Len(OpsAt(c, t))
  /\ OperationStatus(c, t, op) = "ok"
  /\ done' = [done EXCEPT ![c][t] = @ + 1]
  /\ IF op.type = "get"
     THEN gets' = [gets EXCEPT ![c][t] = Append(@, adapter[c][t].view[op.key])]
     ELSE UNCHANGED gets
  /\ IF op.type \in {"put", "relative"}
     THEN PutValue(c, t, op.key, ValueToPut(c, t, op))
     ELSE UNCHANGED databaseVars
  /\ UNCHANGED <<chainVars, down, queue, stage, db_status, lock, mutex>>

OperationFails(c, t) ==
  /\ stage[c][t] = "executing"
  /\ done[c][t] < Len(OpsAt(c, t))
  /\ OperationStatus(c, t, NextOp(c, t)) # "ok"
  /\ Fail(c, t, OperationStatus(c, t, NextOp(c, t)))
  /\ UNCHANGED <<databaseVars, chainVars, down, queue, done, gets, lock, mutex>>

AllDone(c, t) == stage[c][t] = "executing" /\ done[c][t] = Len(OpsAt(c, t))

CommitTransaction(c, t) ==
  /\ stage' = [stage EXCEPT ![c][t] = "committed"]
  /\ Commit(c, t)
  /\ ReleaseLocks(c, t)
  /\ UNCHANGED <<executionVars, chainVars, down, queue>>

\* The only cohort commits as soon as it is done.
CommitOnlyCohort(c, t) ==
  /\ AllDone(c, t)
  /\ OnlyCohort(t)
  /\ CommitTransaction(c, t)

\* PersistTransaction fails, or the COMMIT vote is sent.
PersistFails(c, t) ==
  /\ AllDone(c, t)
  /\ ~OnlyCohort(t)
  /\ Fail(c, t, "internal")
  /\ UNCHANGED <<databaseVars, chainVars, down, queue, done, gets, lock, mutex>>

PersistTransaction_Unlocks(c, t) ==
  /\ AllDone(c, t)
  /\ ~OnlyCohort(t)
  /\ stage' = [stage EXCEPT ![c][t] = "voting"]
  /\ ReleaseLocks(c, t)
  /\ UNCHANGED <<databaseVars, executionVars, chainVars, down, queue>>

PersistTransaction(c, t) ==
  /\ AllDone(c, t)
  /\ ~OnlyCohort(t)
  /\ stage' = [stage EXCEPT ![c][t] = "voting"]
  /\ UNCHANGED <<databaseVars, executionVars, chainVars, down, queue, lock, mutex>>
-----------------------------------------------------------------------------
(* Votes and outcomes *)

\* The vote is counted, or its RPC fails without that; what else it may do
\* changes nothing here.
VoteReturns(c, t, ballot) ==
  \/ /\ CanVote(voting[t], Index(c, t), ballot, block_time)
     /\ voting' = [voting EXCEPT ![t] = Voted(@, Index(c, t), ballot)]
  \/ t \in MayLoseVote /\ UNCHANGED voting

VoteCommit(c, t) ==
  /\ stage[c][t] = "voting"
  /\ VoteReturns(c, t, "COMMIT")
  /\ stage' = [stage EXCEPT ![c][t] = "waiting"]
  /\ UNCHANGED <<databaseVars, executionVars, block_time, down, queue, lock, mutex>>

EndAborted_KeepsLocks(c, t) ==
  /\ stage' = [stage EXCEPT ![c][t] = "aborted"]
  /\ Abort(c, t)
  /\ UNCHANGED <<lock, mutex>>

EndAborted_KeepsTxn(c, t) ==
  /\ stage' = [stage EXCEPT ![c][t] = "aborted"]
  /\ UNCHANGED databaseVars
  /\ ReleaseLocks(c, t)

EndAborted(c, t) ==
  /\ stage' = [stage EXCEPT ![c][t] = "aborted"]
  /\ Abort(c, t)
  /\ ReleaseLocks(c, t)

VoteAbort(c, t) ==
  /\ stage[c][t] = "aborting"
  /\ VoteReturns(c, t, "ABORT")
  /\ EndAborted(c, t)
  /\ UNCHANGED <<executionVars, block_time, down, queue>>

\* WaitForBlockchainDecision returns.
CommitDecided(c, t) ==
  /\ stage[c][t] = "waiting"
  /\ DecisionOf(t) = "COMMIT"
  /\ CommitTransaction(c, t)

AbortDecided(c, t) ==
  /\ stage[c][t] = "waiting"
  /\ DecisionOf(t) = "ABORT"
  /\ EndAborted(c, t)
  /\ UNCHANGED <<executionVars, chainVars, down, queue>>

Crash(c) ==
  /\ c \in MayCrash
  /\ down' = down \cup {c}
  /\ UNCHANGED <<databaseVars, executionVars, chainVars, queue, stage, lock, mutex>>
-----------------------------------------------------------------------------
Process(c, t) ==
  \/ AcquireWholeDbLock(c, t) \/ BeginInDb(c, t) \/ ProcessOperationInDb(c, t)
  \/ OperationFails(c, t) \/ CommitOnlyCohort(c, t) \/ PersistTransaction(c, t)
  \/ VoteCommit(c, t) \/ VoteAbort(c, t) \/ CommitDecided(c, t) \/ AbortDecided(c, t)

CohortNext(c) ==
  /\ c \notin down
  /\ \/ StartTask(c)
     \/ Crash(c)
     \/ \E t \in Transaction : \/ PrepareTransaction(c, t)
                               \/ Process(c, t)
                               \/ GiveUpLock(c, t)
                               \/ PersistFails(c, t)

Next ==
  \/ Tick
  \/ \E t \in Transaction : StartVoting(t)
  \/ \E c \in Cohort : CohortNext(c)

Spec == Init /\ [][Next]_vars

\* Blocks keep coming and each cohort's workers run as long as one of them can:
\* which of them need not be said, since the transactions are finitely many and
\* each has finitely many steps.
WorkersRun(c) ==
  /\ c \notin down
  /\ StartTask(c) \/ \E t \in Transaction : Process(c, t)

FairSpec ==
  /\ Spec
  /\ WF_vars(Tick)
  /\ \A c \in Cohort : WF_vars(WorkersRun(c))
-----------------------------------------------------------------------------
(* Safety *)

\* A transaction takes place when its commit is decided; from then on its writes
\* are those of the view it is about to commit (of a cohort that is down: of the
\* request it has on disk).
TakenPlace(t) ==
  IF OnlyCohort(t) THEN \E c \in Cohort : stage[c][t] = "committed"
                   ELSE DecisionOf(t) = "COMMIT"

ToCommit(c) ==
  {t \in Transaction : /\ TakenPlace(t)
                       /\ stage[c][t] # "committed"
                       /\ adapter[c][t].txn = "read-write"}

OneDatabase ==
  [c \in Cohort |-> IF ToCommit(c) = {} THEN store[c]
                    ELSE adapter[c][CHOOSE t \in ToCommit(c) : TRUE].view]

Serial == INSTANCE SerialExecution WITH
  database  <- OneDatabase,
  committed <- {t \in Transaction : TakenPlace(t)},
  results   <- [t \in Transaction |-> [c \in Cohort |->
                  IF TakenPlace(t) THEN gets[c][t] ELSE << >>]]

\* The transactions that commit, at one cohort or at several, read and write
\* what they would if they took place one after the other, in the order their
\* commits are decided: the lock on the whole database is held from before the
\* first operation until the decision is carried out (AcquireWholeDbLock,
\* WaitForBlockchainDecision, ReleaseLocksAndDeleteMetadata).
ImplementsSerialExecution == Serial!Spec

\* When a transaction is about to begin for writing LMDB has no other writer, or
\* txn::begin would block the worker (lmdb_database_transaction_adapter.h:16).
BeginDoesNotBlock ==
  \A c \in Cohort, t \in Transaction :
    stage[c][t] = "beginning" /\ lock[c][t] = "write" => ~WriterOpen(c)

\* The mutex is held by exactly those transactions whose metadata says so: none
\* keeps it after its end, none releases what it has not, a writer is alone
\* (AcquireWholeDbLock, ReleaseLocksAndDeleteMetadata).
Holders(c, mode) == {t \in Transaction : lock[c][t] = mode}

LocksAreAccountedFor ==
  \A c \in Cohort :
    /\ mutex[c].readers = Cardinality(Holders(c, "read"))
    /\ Cardinality(Holders(c, "write")) = (IF mutex[c].writer THEN 1 ELSE 0)
    /\ mutex[c].writer => mutex[c].readers = 0
    /\ \A t \in Transaction : lock[c][t] # "none" => t \in Active(c)

\* No operation is refused because of how its database transaction was begun:
\* whoever puts has begun for writing (ProcessTransactionInDb).
NoOperationIsRefused ==
  \A c \in Cohort, t \in Transaction : db_status[c][t] # "failed_precondition"
-----------------------------------------------------------------------------
(* Liveness *)

\* A vote that waits for an answer nobody will give.
Unanswered(c, t) ==
  /\ stage[c][t] \in {"voting", "aborting"}
  /\ OnlyCohort(t) \/ block_time >= voting[t].vote_timeout_time

\* A transaction that a cohort was asked to prepare ends there, although it
\* waits in the queue behind others, for a lock, and for cohorts that are down
\* or wait for each other: votes time out, "crashes do not cause any other
\* cohorts to block for longer than the vote timeout" (paper.tex:195).  The
\* only way to be stuck is behind a vote that is never answered.
EveryTransactionEnds ==
  <>[](\A c \in Cohort, t \in Transaction :
         stage[c][t] # "none" =>
           \/ Ended(c, t)
           \/ c \in down
           \/ \E u \in Transaction : Unanswered(c, u))
=============================================================================
