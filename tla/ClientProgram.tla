---------------------------- MODULE ClientProgram ----------------------------
(***************************************************************************)
(* The client program: it makes the requests from a file of transactions,  *)
(* with random choices, and then sends them in order; it waits for the     *)
(* result of a transaction before it sends the next one unless the file    *)
(* says async.  The client library polls for the results on the threads of *)
(* a pool.                                                                 *)
(***************************************************************************)
EXTENDS TransactionService

CONSTANTS Files,        \* bound: the files of transactions
          NumThreads    \* of the client's pool

ASSUME NumThreadsAssumption == NumThreads \in Nat \ {0}

\* The choices that a file can leave to the program.
RandomAddress == "random address"
RandomKey     == "random key"
RandomPutKey  == "random put key"

\* An operation of a file; the kinds of values that it distinguishes are those of
\* the type: "put" writes any value, "relative" one relative to the old.
FileOperation == [type : {"get", "put", "relative"},
                  address : Cohort \cup {RandomAddress},
                  key : Key \cup {RandomKey, RandomPutKey}, repeat_count : Nat]
FileTransaction == [op : Seq(FileOperation), async : BOOLEAN]

ASSUME FilesAssumption ==
  \A f \in Files : f \in [initial_transaction : Seq(FileTransaction),
                          cycle_transaction : Seq(FileTransaction),
                          cycle_length : Nat]

VARIABLES file,
          building,   \* the operations of the request being made
          put_keys_by_address,
          requests,   \* RunInfo's: operations and async, in order
          main,       \* where the main thread is
          futures,    \* of the requests that were sent
          queue,      \* jobs of the pool that wait for a thread
          running     \* the jobs that have one

clientVars == <<file, building, put_keys_by_address, requests, main, futures,
                queue, running>>
vars == <<clientVars, serviceVars>>

Main == {"building", "connecting", "sending", "in CommitAtomicTransaction",
         "in CommitSync", "ended", "crashed"}

Waiting == [complete |-> FALSE, status |-> "waiting", gets |-> NoGets]
Error   == [complete |-> TRUE, status |-> "error", gets |-> NoGets]

TypeOK ==
  /\ ServiceTypeOK
  /\ file \in Files
  /\ building \in Seq(Operation)
  /\ put_keys_by_address \in [Cohort -> SUBSET Key]
  /\ requests \in Seq([ops : Seq(Operation), async : BOOLEAN])
  /\ main \in Main
  /\ \A i \in DOMAIN futures : futures[i] \in Response \cup {Waiting, Error}
  /\ Len(futures) <= Len(requests)
  /\ running \cap ToSet(queue) = {}
  /\ running \cup ToSet(queue) = {i \in DOMAIN futures : futures[i] = Waiting}
  /\ Cardinality(running) <= NumThreads
  /\ DOMAIN calls \subseteq running

Init ==
  /\ ServiceInit
  /\ file \in Files
  /\ building = << >>
  /\ put_keys_by_address = [c \in Cohort |-> {}]
  /\ requests = << >>
  /\ main = "building"
  /\ futures = << >>
  /\ queue = << >>
  /\ running = {}
-----------------------------------------------------------------------------
(* CreateRunInfoFromFile *)

Times(n, s) == FlattenSeq([i \in 1 .. n |-> s])

\* The transactions of a file in the order of their requests, and the operations
\* of one of them in the order of AddOperation's calls.
FileTransactions(f) == f.initial_transaction \o Times(f.cycle_length, f.cycle_transaction)

FileOperations(txn) ==
  FlattenSeq([i \in DOMAIN txn.op |->
    Times(IF txn.op[i].repeat_count = 0 THEN 1 ELSE txn.op[i].repeat_count,
          << txn.op[i] >>)])

ToBuild == FileTransactions(file)[Len(requests) + 1]

NewOperation(op, address, key) ==
  [namespace |-> address, type |-> op.type, key |-> key, value |-> 0,
   default |-> NoValue]

Addresses(op) == IF op.address = RandomAddress THEN Cohort ELSE {op.address}

KeysFor_AnyAddress(op, address) ==
  CASE op.key = RandomKey    -> Key
    [] op.key = RandomPutKey -> UNION Range(put_keys_by_address)
    [] OTHER                 -> {op.key}

KeysFor(op, address) ==
  CASE op.key = RandomKey    -> Key
    [] op.key = RandomPutKey -> put_keys_by_address[address]
    [] OTHER                 -> {op.key}

\* To choose one of no keys divides by zero.
AddOperation ==
  /\ main = "building"
  /\ Len(requests) < Len(FileTransactions(file))
  /\ Len(building) < Len(FileOperations(ToBuild))
  /\ LET op == FileOperations(ToBuild)[Len(building) + 1]
     IN  \E address \in Addresses(op) :
           \/ /\ KeysFor(op, address) = {}
              /\ main' = "crashed"
              /\ UNCHANGED <<building, put_keys_by_address>>
           \/ /\ \E key \in KeysFor(op, address) :
                   /\ building' = Append(building, NewOperation(op, address, key))
                   /\ put_keys_by_address' =
                        IF op.type = "get" THEN put_keys_by_address
                        ELSE [put_keys_by_address EXCEPT ![address] = @ \cup {key}]
              /\ UNCHANGED main
  /\ UNCHANGED <<file, requests, futures, queue, running, serviceVars>>

AddTransaction ==
  /\ main = "building"
  /\ Len(requests) < Len(FileTransactions(file))
  /\ Len(building) = Len(FileOperations(ToBuild))
  /\ requests' = Append(requests, [ops |-> building, async |-> ToBuild.async])
  /\ building' = << >>
  /\ UNCHANGED <<file, put_keys_by_address, main, futures, queue, running,
                 serviceVars>>

RunInfoCreated ==
  /\ main = "building"
  /\ Len(requests) = Len(FileTransactions(file))
  /\ main' = "connecting"
  /\ UNCHANGED <<file, building, put_keys_by_address, requests, futures, queue,
                 running, serviceVars>>
-----------------------------------------------------------------------------
(* SendRequests *)

\* The request for nothing that tells whether the coordinator is up leaves an
\* entry there.
WaitForCoordinator ==
  /\ main = "connecting"
  /\ NothingIsSent(WaitId)
  /\ main' = "sending"
  /\ UNCHANGED <<file, building, put_keys_by_address, requests, futures, queue, running>>

NextRequest == Len(futures) + 1
IdOf(i)     == ClientTransactionId(requests[i].ops)

\* CommitAsync: an error is the result, otherwise a job for the pool polls.
CommitOk(i) ==
  /\ \/ AlreadySent(IdOf(i))
     \/ requests[i].ops = << >> /\ NothingIsSent(IdOf(i))
     \/ requests[i].ops # << >> /\ SendToCohorts(IdOf(i))
  /\ futures' = Append(futures, Waiting)
  /\ queue' = Append(queue, i)

\* The request is answered with an error, or its answer is lost.
CommitFails(i) ==
  /\ \/ AlreadySent(IdOf(i)) \/ NothingIsSent(IdOf(i))
     \/ requests[i].ops # << >> /\ SendToCohorts(IdOf(i))
  /\ futures' = Append(futures, Error)
  /\ UNCHANGED queue

MainAfter(i) == IF requests[i].async THEN "sending" ELSE "in CommitSync"

\* startVoting reverts, is lost or gets no receipt: the adapter is silent about it
\* and the coordinator does not answer.
CommitBlocks(i) ==
  /\ ~SingleCohort(IdOf(i))
  /\ NothingIsSent(IdOf(i))
  /\ main' = "in CommitAtomicTransaction"
  /\ UNCHANGED <<futures, queue>>

SendRequest ==
  /\ main = "sending"
  /\ NextRequest <= Len(requests)
  /\ \/ /\ CommitOk(NextRequest) \/ CommitFails(NextRequest)
        /\ main' = MainAfter(NextRequest)
     \/ CommitBlocks(NextRequest)
  /\ UNCHANGED <<file, building, put_keys_by_address, requests, running>>

\* The call to the adapter fails after all, and so does the request.
CommitUnblocks ==
  /\ main = "in CommitAtomicTransaction"
  /\ futures' = Append(futures, Error)
  /\ main' = MainAfter(NextRequest)
  /\ UNCHANGED <<file, building, put_keys_by_address, requests, queue, running,
                 serviceVars>>

CommitSyncReturns ==
  /\ main = "in CommitSync"
  /\ futures[Len(futures)] # Waiting
  /\ main' = "sending"
  /\ UNCHANGED <<file, building, put_keys_by_address, requests, futures, queue,
                 running, serviceVars>>

\* All requests are sent and every future has a value.
End ==
  /\ main = "sending"
  /\ Len(futures) = Len(requests)
  /\ \A i \in DOMAIN futures : futures[i] # Waiting
  /\ main' = "ended"
  /\ UNCHANGED <<file, building, put_keys_by_address, requests, futures, queue,
                 running, serviceVars>>
-----------------------------------------------------------------------------
(* GetTransactionResults, on a thread of the pool *)

StartJob_MoreThreads ==
  /\ queue # << >>
  /\ running' = running \cup {Head(queue)}
  /\ queue' = Tail(queue)
  /\ UNCHANGED <<file, building, put_keys_by_address, requests, main, futures,
                 serviceVars>>

\* The pool has a fixed number of threads; the other jobs wait in order.
StartJob ==
  /\ queue # << >>
  /\ Cardinality(running) < NumThreads
  /\ running' = running \cup {Head(queue)}
  /\ queue' = Tail(queue)
  /\ UNCHANGED <<file, building, put_keys_by_address, requests, main, futures,
                 serviceVars>>

IsFinal_NotAborted(status) == status \notin {"partial", "aborted"}

\* A committed response that is not complete is not the final one; one without a
\* status is taken for it.
IsFinal(status) == status # "partial"

\* GetTransactionResult answers with the response.
TryGetTransactionResults(i) ==
  /\ \/ PollAborted(i, IdOf(i))
     \/ AddOnlyAnswer(i)
     \/ FinishCollecting(i)
     \/ /\ i \notin DOMAIN calls
        /\ Entry(response, IdOf(i), NoResponse).complete
        /\ UNCHANGED serviceVars
  /\ IF IsFinal(response'[IdOf(i)].status)
     THEN /\ futures' = [futures EXCEPT ![i] = response'[IdOf(i)]]
          /\ running' = running \ {i}
     ELSE UNCHANGED <<futures, running>>
  /\ UNCHANGED <<file, building, put_keys_by_address, requests, main, queue>>

\* The coordinator begins to ask the cohorts of the transaction.
BeginToAsk(i) ==
  /\ AskOnlyCohort(i, IdOf(i)) \/ BeginCollecting(i, IdOf(i))
  /\ UNCHANGED clientVars

\* No other caller is in the loop over the same cohorts.
AloneWith(id) ==
  \A j \in DOMAIN calls : calls[j].stage = "collecting" => calls[j].id # id

CollectStep(i) ==
  /\ \E c \in Cohort : \/ SkipCohort(i, c) \/ AddAnswer(i, c)
                      \/ \E answered \in {{}, {c}} : AskCohort(i, c, answered)
  /\ UNCHANGED clientVars

\* The read of the decision is not answered, or fails in the end.
ReadHangs(i) == ReadUnanswered(i, IdOf(i)) /\ UNCHANGED clientVars
ReadErrs(i)  == ReadFails(i) /\ UNCHANGED clientVars

\* Without a voting the read has no other outcome.
ReadReverts(i) == IdOf(i) \notin DOMAIN decision /\ ReadHangs(i)

JobStep(i) ==
  /\ i \in running
  /\ \/ TryGetTransactionResults(i)
     \/ AloneWith(IdOf(i)) /\ BeginToAsk(i)
     \/ CollectStep(i)
     \/ ReadReverts(i)

\* A cohort answers that it has committed.
GetsAnswer(i) ==
  /\ \E c \in Cohort : AskCohort(i, c, {c})
  /\ UNCHANGED clientVars
-----------------------------------------------------------------------------
Executes == \E id \in DOMAIN part : \E n \in DOMAIN part[id], c \in Cohort : Execute(id, n, c)
Decides  == \E id \in DOMAIN decision : Decide(id)
Commits  == \E id \in DOMAIN part : \E n \in DOMAIN part[id], c \in Cohort : Commit(id, n, c)

ServiceStep ==
  /\ \/ Executes \/ Decides \/ Commits
     \/ \E id \in DOMAIN part : \E n \in DOMAIN part[id], c \in Cohort :
          Block(id, n, c) \/ Unblock(id, n, c) \/ Abort(id, n, c)
  /\ UNCHANGED clientVars

MainStep ==
  \/ AddOperation \/ AddTransaction \/ RunInfoCreated
  \/ WaitForCoordinator \/ SendRequest \/ CommitSyncReturns \/ End

Next ==
  \/ MainStep
  \/ CommitUnblocks
  \/ StartJob
  \/ \E i \in running : JobStep(i) \/ ReadHangs(i) \/ ReadErrs(i)
  \/ ServiceStep

\* Of the callers that poll for one id, as the jobs of equal requests do, one at a
\* time is in the loop over the cohorts; nothing in the code sees to that.
Spec == Init /\ [][Next]_vars

OverlappingSpec == Init /\ [][Next \/ \E i \in running : BeginToAsk(i)]_vars

Jobs == UNION {DOMAIN FileTransactions(f) : f \in Files}

\* Threads, votings and cohorts go on as long as they can.  A poll that finds no
\* answer is repeated, and an RPC to a cohort that a job makes again and again
\* succeeds in the end.
FairSpec ==
  /\ Spec
  /\ WF_vars(MainStep) /\ WF_vars(StartJob)
  /\ WF_vars(Executes /\ UNCHANGED clientVars)
  /\ WF_vars(Decides /\ UNCHANGED clientVars)
  /\ WF_vars(Commits /\ UNCHANGED clientVars)
  /\ \A i \in Jobs : WF_vars(JobStep(i)) /\ SF_vars(i \in running /\ GetsAnswer(i))
-----------------------------------------------------------------------------
(* Safety *)

\* What a future says of a committed transaction is the whole of it: the reads of
\* every cohort are in it once, although the cohorts answer in different polls and
\* the coordinator checks, asks and adds in separate steps; and every database has
\* what the transaction wrote (UpdateCommittedResponseFromCohorts,
\* TryGetTransactionResults).
CommittedResponseIsComplete ==
  \A i \in DOMAIN futures : futures[i].status = "committed" =>
    \A c \in Cohort :
      /\ futures[i].gets[c] =
           IF c \in Participants(requests[i].ops) THEN 1 ELSE 0
      /\ PutKeys(requests[i].ops, c) \subseteq keys[c]

\* "Random from the set of all put keys to this address" (client.proto:29): as long
\* as the transactions of a file are not async and are told committed, the next one
\* finds the keys that were chosen in that way, so it does not fail on a missing
\* key; the choice was made before any of them ran (AddOperation, CommitSync).
UsesPutKeys(txn) ==
  \A i \in DOMAIN txn.op : txn.op[i].type \in {"get", "relative"} =>
    txn.op[i].key = RandomPutKey

PutKeysAreFound ==
  \A i \in DOMAIN futures :
    /\ UsesPutKeys(FileTransactions(file)[i])
    /\ \A j \in 1 .. i - 1 : ~requests[j].async /\ futures[j].status = "committed"
    /\ IdOf(i) \in DOMAIN part
    => \A n \in DOMAIN part[IdOf(i)], c \in Cohort : part[IdOf(i)][n][c] # "failed"

\* An equal transaction is sent again at most once, and not before the first one is
\* answered: if that was committed then every cohort had ended it, and none runs the
\* two beside each other, where they would share an entry of its metadata
\* (CommitAtomicTransaction, CleanUpTransactionMetadata, ProcessTransaction).
SentAgainAfterTheAnswer ==
  \A id \in DOMAIN part : Len(part[id]) > 1 =>
    /\ Len(part[id]) = 2
    /\ Entry(response, id, NoResponse).complete
    /\ response[id].status = "committed" =>
         \A c \in Participants(OpsOf(id)) : part[id][1][c] = "committed"
-----------------------------------------------------------------------------
(* Liveness *)

\* Some call to the blockchain is not answered.  For an only cohort that aborts it
\* never is, unless it fails: there is no voting.
Blocked ==
  \/ main = "in CommitAtomicTransaction"
  \/ \E i \in DOMAIN calls : calls[i].stage = "unanswered"
  \/ \E id \in DOMAIN part : \E n \in DOMAIN part[id], c \in Cohort :
       \/ part[id][n][c] = "blocked"
       \/ part[id][n][c] = "failed" /\ SingleCohort(id)

\* Every file gets to its end, whatever order the jobs get their threads in, also
\* when it asks for the same twice; or it has crashed.  What can keep it from that
\* is a call to the blockchain that is not answered, now or again and again, and an
\* only cohort that did not get its part (GetTransactionResults, SendRequests).
OnlyCohortsGetTheirPart ==
  \A id \in DOMAIN part : SingleCohort(id) =>
    \A n \in DOMAIN part[id], c \in Participants(OpsOf(id)) : part[id][n][c] # "none"

FilesEnd ==
  []OnlyCohortsGetTheirPart => <>(main \in {"ended", "crashed"}) \/ []<>Blocked
=============================================================================
