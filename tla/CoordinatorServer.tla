-------------------------- MODULE CoordinatorServer --------------------------
(***************************************************************************)
(* The coordinator, for one transaction id.  Each CommitAtomicTransaction  *)
(* request for the id runs in a handler of its own; the handlers and the   *)
(* GetTransactionResult calls share the entries of metadata_by_transaction_*)
(* and response_by_transaction_, which nothing locks.  The entries live in *)
(* memory only.                                                            *)
(***************************************************************************)
EXTENDS CohortServer, Sequences

VARIABLES handler,           \* where the handler of each request is
          sub_transactions,  \* SplitClientTransaction's order of the cohorts
          cohort_counter,    \* cohort_index of the loop over sub_transactions
          metadata,          \* entry of metadata_by_transaction_
          response,          \* entry of response_by_transaction_
          poll               \* the GetTransactionResult call being served

coordinatorVars == <<handler, sub_transactions, cohort_counter, metadata,
                     response, poll>>

HandlerStage == {"none",      \* request not made
                 "voting",    \* in StartVoting
                 "sending",   \* in SendCohortPrepareRequests
                 "ok",        \* returned OK
                 "failed"}    \* returned an error, or its server crashed

\* A transaction is split into one sub-transaction per cohort, in the order of
\* a hash map.
CohortOrder ==
  {order \in [CohortIndex -> Cohort] :
     /\ \A i, j \in CohortIndex : order[i] = order[j] => i = j
     /\ \A c \in Cohort : \E i \in CohortIndex : order[i] = c}

NotSplit == [i \in {} |-> i]

NoMetadata == [present |-> FALSE, possibly_sent_to_all_cohorts |-> FALSE,
               single_cohort |-> FALSE, cohort_namespaces |-> << >>,
               decision |-> "PENDING", cohorts_already_responded |-> {}]

NoResponse == [complete |-> FALSE, status |-> "unset"]

Status == {"unset",       \* no member of the oneof is set
           "partial",     \* committed_response with complete = false
           "committed",   \* committed_response with complete = true
           "pending", "aborted"}

NoPoll == [stage |-> "idle", next |-> 1, committed |-> 0]

CoordinatorTypeOK ==
  /\ handler \in [Request -> HandlerStage]
  /\ sub_transactions \in [Request -> CohortOrder \cup {NotSplit}]
  /\ cohort_counter \in [Request -> 0 .. NumCohorts]
  /\ metadata \in [present : BOOLEAN, possibly_sent_to_all_cohorts : BOOLEAN,
                   single_cohort : BOOLEAN, cohort_namespaces : Seq(Cohort),
                   decision : Decision,
                   cohorts_already_responded : SUBSET Cohort]
  /\ response \in [complete : BOOLEAN, status : Status]
  /\ poll \in [stage : {"idle", "unanswered", "collecting"},
               next : Nat \ {0}, committed : Nat]

CoordinatorInit ==
  /\ handler = [h \in Request |-> "none"]
  /\ sub_transactions = [h \in Request |-> NotSplit]
  /\ cohort_counter = [h \in Request |-> 0]
  /\ metadata = NoMetadata
  /\ response = NoResponse
  /\ poll = NoPoll
-----------------------------------------------------------------------------
(* CommitAtomicTransaction *)

\* metadata_by_transaction_[transaction_id] creates the entry; a request whose
\* transaction was possibly sent to all cohorts is answered with OK at once.
AlreadySent(h) ==
  /\ handler[h] = "none"
  /\ metadata.possibly_sent_to_all_cohorts
  /\ handler' = [handler EXCEPT ![h] = "ok"]
  /\ UNCHANGED <<sub_transactions, cohort_counter, metadata, response, poll,
                 chainVars>>

\* ComputeFinalConfig rejects a presumed abort time in the past.
RejectConfig(h) ==
  /\ handler[h] = "none"
  /\ ~metadata.possibly_sent_to_all_cohorts
  /\ handler' = [handler EXCEPT ![h] = "failed"]
  /\ metadata' = [metadata EXCEPT !.present = TRUE]
  /\ UNCHANGED <<sub_transactions, cohort_counter, response, poll, chainVars>>

\* A transaction for several cohorts starts the voting first.  The presumed
\* abort time is the client's or counted from the coordinator's clock; by the
\* clock of the blockchain it may have passed already.
BeginVoting_Resends(h, order, timeout) ==
  /\ handler[h] = "none"
  /\ ~OnlyCohort
  /\ handler' = [handler EXCEPT ![h] = "voting"]
  /\ metadata' = [metadata EXCEPT !.present = TRUE]
  /\ sub_transactions' = [sub_transactions EXCEPT ![h] = order]
  /\ SendStartVoting(h, timeout)
  /\ UNCHANGED <<cohort_counter, response, poll>>

BeginVoting(h, order, timeout) ==
  /\ handler[h] = "none"
  /\ ~metadata.possibly_sent_to_all_cohorts
  /\ ~OnlyCohort
  /\ handler' = [handler EXCEPT ![h] = "voting"]
  /\ metadata' = [metadata EXCEPT !.present = TRUE]
  /\ sub_transactions' = [sub_transactions EXCEPT ![h] = order]
  /\ SendStartVoting(h, timeout)
  /\ UNCHANGED <<cohort_counter, response, poll>>

BeginSingleCohort_Resends(h, order) ==
  /\ handler[h] = "none"
  /\ OnlyCohort
  /\ handler' = [handler EXCEPT ![h] = "sending"]
  /\ metadata' = [metadata EXCEPT !.present = TRUE, !.single_cohort = TRUE]
  /\ sub_transactions' = [sub_transactions EXCEPT ![h] = order]
  /\ UNCHANGED <<cohort_counter, response, poll, chainVars>>

\* SendCohortPrepareRequests starts: at once for a single cohort, after the
\* receipt of startVoting otherwise.
BeginSingleCohort(h, order) ==
  /\ handler[h] = "none"
  /\ ~metadata.possibly_sent_to_all_cohorts
  /\ OnlyCohort
  /\ handler' = [handler EXCEPT ![h] = "sending"]
  /\ metadata' = [metadata EXCEPT !.present = TRUE, !.single_cohort = TRUE]
  /\ sub_transactions' = [sub_transactions EXCEPT ![h] = order]
  /\ UNCHANGED <<cohort_counter, response, poll, chainVars>>

VotingStarted(h) ==
  /\ handler[h] = "voting"
  /\ start_rpc[h] = "ok"
  /\ handler' = [handler EXCEPT ![h] = "sending"]
  /\ metadata' = [metadata EXCEPT !.present = TRUE]
  /\ UNCHANGED <<sub_transactions, cohort_counter, response, poll, chainVars>>

StartVotingFailed(h) ==
  /\ handler[h] = "voting"
  /\ start_rpc[h] = "error"
  /\ handler' = [handler EXCEPT ![h] = "failed"]
  /\ UNCHANGED <<sub_transactions, cohort_counter, metadata, response, poll,
                 chainVars>>

\* One round of the loop of SendCohortPrepareRequests.  The status of the
\* PrepareTransaction RPC is ignored: the request reaches the cohort or is lost.
SendPrepare_SameIndex(h) ==
  LET i == cohort_counter[h]
      c == sub_transactions[h][i]
  IN  /\ handler[h] = "sending"
      /\ i < NumCohorts
      /\ metadata' = [metadata EXCEPT
                        !.cohort_namespaces = Append(@, c),
                        !.possibly_sent_to_all_cohorts =
                           @ \/ i = NumCohorts - 1]
      /\ cohort_counter' = [cohort_counter EXCEPT ![h] = i + 1]
      /\ \/ ReceivePrepare(c, 0)
         \/ UNCHANGED cohortVars
      /\ UNCHANGED <<handler, sub_transactions, response, poll, chainVars>>

SendPrepare_OneBased(h) ==
  LET i == cohort_counter[h]
      c == sub_transactions[h][i]
  IN  /\ handler[h] = "sending"
      /\ i < NumCohorts
      /\ metadata' = [metadata EXCEPT
                        !.cohort_namespaces = Append(@, c),
                        !.possibly_sent_to_all_cohorts =
                           @ \/ i = NumCohorts - 1]
      /\ cohort_counter' = [cohort_counter EXCEPT ![h] = i + 1]
      /\ \/ ReceivePrepare(c, i + 1)
         \/ UNCHANGED cohortVars
      /\ UNCHANGED <<handler, sub_transactions, response, poll, chainVars>>

SendPrepare(h) ==
  LET i == cohort_counter[h]
      c == sub_transactions[h][i]
  IN  /\ handler[h] = "sending"
      /\ i < NumCohorts
      /\ metadata' = [metadata EXCEPT
                        !.cohort_namespaces = Append(@, c),
                        !.possibly_sent_to_all_cohorts =
                           @ \/ i = NumCohorts - 1]
      /\ cohort_counter' = [cohort_counter EXCEPT ![h] = i + 1]
      /\ \/ ReceivePrepare(c, i)
         \/ UNCHANGED cohortVars
      /\ UNCHANGED <<handler, sub_transactions, response, poll, chainVars>>

AllSent(h) ==
  /\ handler[h] = "sending"
  /\ cohort_counter[h] = NumCohorts
  /\ handler' = [handler EXCEPT ![h] = "ok"]
  /\ UNCHANGED <<sub_transactions, cohort_counter, metadata, response, poll,
                 chainVars>>
-----------------------------------------------------------------------------
(* GetTransactionResult.  The client's side of the call is in the module    *)
(* TwoPhaseCommit: Reply(status) there is the answer OK with that status.   *)
(* An entry that is missing is answered with NOT_FOUND and an RPC that      *)
(* fails with its error: both change nothing, the client asks again.        *)

\* CleanUpTransactionMetadata
CleanUp(status) ==
  /\ response' = [complete |-> TRUE, status |-> status]
  /\ metadata' = NoMetadata
  /\ poll' = NoPoll

CanAskCohorts == poll.stage = "idle" /\ ~response.complete /\ metadata.present

\* The decision kept in the metadata, or read from the blockchain now.
PollDecision == IF metadata.decision = "PENDING" THEN CurrentDecision
                                                 ELSE metadata.decision

CanReadDecision ==
  /\ CanAskCohorts
  /\ ~metadata.single_cohort
  /\ metadata.decision = "PENDING" => HasVoting(voting)

\* The read of the decision fails: the adapter does not answer it, and the call
\* waits without a deadline ...
ReadUnanswered ==
  /\ CanAskCohorts
  /\ ~metadata.single_cohort
  /\ metadata.decision = "PENDING"
  /\ ReadCanFail
  /\ poll' = [poll EXCEPT !.stage = "unanswered"]
  /\ UNCHANGED <<metadata, response>>

\* ... until the adapter dies, and is answered with an error.
ReadFails ==
  /\ poll.stage = "unanswered"
  /\ poll' = NoPoll
  /\ UNCHANGED <<metadata, response>>

\* The decision is COMMIT: the loop over cohort_namespaces starts.
BeginCollecting ==
  /\ CanReadDecision
  /\ PollDecision = "COMMIT"
  /\ metadata' = [metadata EXCEPT !.decision = "COMMIT"]
  /\ poll' = [stage |-> "collecting", next |-> 1, committed |-> 0]
  /\ UNCHANGED response

CollectFromCohort_Recount(c) ==
  /\ poll.stage = "collecting"
  /\ poll.next <= Len(metadata.cohort_namespaces)
  /\ c = metadata.cohort_namespaces[poll.next]
  /\ \/ /\ c \notin metadata.cohorts_already_responded
        /\ TransactionResult(c) = "committed"
        /\ metadata' = [metadata EXCEPT !.cohorts_already_responded = @ \cup {c}]
        /\ response' = [response EXCEPT !.status = "partial"]
        /\ poll' = [poll EXCEPT !.next = @ + 1, !.committed = @ + 1]
     \/ /\ poll' = [poll EXCEPT !.next = @ + 1]
        /\ UNCHANGED <<metadata, response>>

CollectFromCohort_AnyAnswer(c) ==
  /\ poll.stage = "collecting"
  /\ poll.next <= Len(metadata.cohort_namespaces)
  /\ c = metadata.cohort_namespaces[poll.next]
  /\ \/ /\ c \in metadata.cohorts_already_responded
        /\ poll' = [poll EXCEPT !.next = @ + 1, !.committed = @ + 1]
        /\ UNCHANGED <<metadata, response>>
     \/ /\ c \notin metadata.cohorts_already_responded
        /\ metadata' = [metadata EXCEPT !.cohorts_already_responded = @ \cup {c}]
        /\ response' = [response EXCEPT !.status = "partial"]
        /\ poll' = [poll EXCEPT !.next = @ + 1, !.committed = @ + 1]

\* One round of that loop: a cohort that responded before is counted, another
\* one is asked and counted if it answers with a committed response.
CollectFromCohort(c) ==
  /\ poll.stage = "collecting"
  /\ poll.next <= Len(metadata.cohort_namespaces)
  /\ c = metadata.cohort_namespaces[poll.next]
  /\ \/ /\ c \in metadata.cohorts_already_responded
        /\ poll' = [poll EXCEPT !.next = @ + 1, !.committed = @ + 1]
        /\ UNCHANGED <<metadata, response>>
     \/ /\ c \notin metadata.cohorts_already_responded
        /\ TransactionResult(c) = "committed"
        /\ metadata' = [metadata EXCEPT !.cohorts_already_responded = @ \cup {c}]
        /\ response' = [response EXCEPT !.status = "partial"]
        /\ poll' = [poll EXCEPT !.next = @ + 1, !.committed = @ + 1]
     \/ /\ c \notin metadata.cohorts_already_responded   \* not committed yet,
        /\ poll' = [poll EXCEPT !.next = @ + 1]          \* or the RPC fails
        /\ UNCHANGED <<metadata, response>>

FinishCollecting_Early ==
  /\ poll.stage = "collecting"
  /\ poll.next > Len(metadata.cohort_namespaces)
  /\ IF poll.committed > 0 THEN CleanUp("committed")
     ELSE poll' = NoPoll /\ UNCHANGED <<metadata, response>>

\* After the loop the response is complete if every cohort was counted.
FinishCollecting ==
  /\ poll.stage = "collecting"
  /\ poll.next > Len(metadata.cohort_namespaces)
  /\ IF poll.committed = Len(metadata.cohort_namespaces)
     THEN CleanUp("committed")
     ELSE poll' = NoPoll /\ UNCHANGED <<metadata, response>>

\* UpdateAbortedResponseFromCohorts asks no cohort.
PollAborted ==
  /\ CanReadDecision
  /\ PollDecision = "ABORT"
  /\ CleanUp("aborted")

PollSingleCohort_NeverPending(c) ==
  /\ CanAskCohorts
  /\ metadata.single_cohort
  /\ CleanUp(IF TransactionResult(c) = "committed" THEN "committed" ELSE "aborted")

\* UpdateResponseForSingleCohortTransaction: a response that is not final sets
\* pending_response in the entry.
PollSingleCohort(c) ==
  /\ CanAskCohorts
  /\ metadata.single_cohort
  /\ IF TransactionResult(c) = "pending"
     THEN /\ response' = [response EXCEPT !.status = "pending"]
          /\ UNCHANGED <<metadata, poll>>
     ELSE CleanUp(TransactionResult(c))

\* The coordinator crashes: handlers and the call being served die, the entries
\* are lost.
CoordinatorCrash ==
  /\ metadata # NoMetadata \/ response # NoResponse
  /\ handler' = [h \in Request |-> IF handler[h] \in {"voting", "sending"}
                                   THEN "failed" ELSE handler[h]]
  /\ metadata' = NoMetadata
  /\ response' = NoResponse
  /\ poll' = NoPoll
  /\ UNCHANGED <<sub_transactions, cohort_counter, chainVars>>
=============================================================================
