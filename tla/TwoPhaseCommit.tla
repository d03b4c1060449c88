--------------------------- MODULE TwoPhaseCommit ---------------------------
(***************************************************************************)
(* The whole system for one transaction id: a client, the coordinator, the *)
(* cohorts and the blockchain.                                             *)
(*                                                                         *)
(* The client makes a CommitAtomicTransaction request, and makes it again  *)
(* when the earlier one failed or its response did not arrive.  Once it    *)
(* has a response it asks for the result until it gets one that it takes   *)
(* for final.  Spec covers a client that retries after the coordinator is  *)
(* done with the earlier request; EagerSpec adds one that does not wait    *)
(* for that.                                                               *)
(***************************************************************************)
EXTENDS CoordinatorServer

VARIABLES client,   \* "submitting", "polling" or "done"
          result    \* what the client got

clientVars == <<client, result>>
vars == <<chainVars, cohortVars, coordinatorVars, clientVars>>

ClientTypeOK ==
  /\ client \in {"submitting", "polling", "done"}
  /\ result \in Status \cup {"none", "error"}

TypeOK ==
  /\ ChainTypeOK
  /\ CohortTypeOK
  /\ CoordinatorTypeOK
  /\ ClientTypeOK

Init ==
  /\ ChainInit
  /\ CohortInit
  /\ CoordinatorInit
  /\ client = "submitting"
  /\ result = "none"
-----------------------------------------------------------------------------
(* Client and coordinator *)

Finished(h) == handler[h] \in {"ok", "failed"}

CommitAtomicTransaction(h) ==
  /\ \/ AlreadySent(h)
     \/ RejectConfig(h)
     \/ \E order \in CohortOrder, timeout \in 0 .. MaxTime :
          BeginVoting(h, order, timeout)
     \/ \E order \in CohortOrder : BeginSingleCohort(h, order)
  /\ UNCHANGED <<cohortVars, clientVars>>

\* The first request, or a retry of requests the coordinator is done with.
Submit(h) ==
  /\ client = "submitting"
  /\ \A g \in 1 .. h - 1 : Finished(g)
  /\ CommitAtomicTransaction(h)

\* A retry while the coordinator still works on an earlier request.
SubmitEarly(h) ==
  /\ client = "submitting"
  /\ \A g \in 1 .. h - 1 : handler[g] # "none"
  /\ CommitAtomicTransaction(h)

\* The response to a request arrives.
ReceiveResponse ==
  /\ client = "submitting"
  /\ \E h \in Request : handler[h] = "ok"
  /\ client' = "polling"
  /\ UNCHANGED <<result, chainVars, cohortVars, coordinatorVars>>

\* The steps of the request's handler after its first one.
HandlerStep(h) ==
  \/ (VotingStarted(h) \/ StartVotingFailed(h) \/ AllSent(h))
     /\ UNCHANGED <<cohortVars, clientVars>>
  \/ SendPrepare(h) /\ UNCHANGED clientVars

\* TryGetTransactionResults: only a pending response and a committed one that
\* is not complete make the client ask again.
TryGetTransactionResults(status) ==
  IF status \in {"pending", "partial"} THEN UNCHANGED clientVars
  ELSE client' = "done" /\ result' = status

\* The answer of GetTransactionResult arrives, or is lost.
Reply(status) == TryGetTransactionResults(status) \/ UNCHANGED clientVars

\* A response that is complete is answered again.
ReplyFinalResponse ==
  /\ client = "polling"
  /\ poll.stage = "idle"
  /\ response.complete
  /\ TryGetTransactionResults(response.status)
  /\ UNCHANGED <<chainVars, cohortVars, coordinatorVars>>

GetTransactionResult ==
  /\ client = "polling"
  /\ \/ /\ PollAborted \/ FinishCollecting \/ \E c \in Cohort : PollSingleCohort(c)
        /\ Reply(response'.status)
     \/ /\ \/ BeginCollecting
           \/ \E c \in Cohort : CollectFromCohort(c)
           \/ ReadUnanswered
        /\ UNCHANGED clientVars
  /\ UNCHANGED <<chainVars, cohortVars, handler, sub_transactions, cohort_counter>>

\* The read that the coordinator waits for ends with an error, and so does the
\* client's call: it asks again.
PollFails ==
  /\ client = "polling"
  /\ ReadFails
  /\ UNCHANGED <<chainVars, cohortVars, handler, sub_transactions,
                 cohort_counter, clientVars>>

\* The coordinator crashes.  A request it was working on fails with UNAVAILABLE;
\* the client connects again from another port, so its next request has another
\* transaction id.
Restart ==
  /\ CoordinatorCrash
  /\ IF client = "submitting" THEN client' = "done" /\ result' = "error"
                              ELSE UNCHANGED clientVars
  /\ UNCHANGED cohortVars
-----------------------------------------------------------------------------
ChainStep  == ChainNext /\ UNCHANGED <<cohortVars, coordinatorVars, clientVars>>
CohortStep == CohortNext /\ UNCHANGED <<coordinatorVars, clientVars>>

Next ==
  \/ ChainStep
  \/ CohortStep
  \/ \E h \in Request : Submit(h) \/ HandlerStep(h)
  \/ ReceiveResponse
  \/ ReplyFinalResponse
  \/ GetTransactionResult
  \/ PollFails
  \/ Restart

Spec == Init /\ [][Next]_vars

EagerSpec == Init /\ [][Next \/ \E h \in Request : SubmitEarly(h)]_vars

(* Fairness: blocks are produced and mine the calls that reach them; the    *)
(* threads of the servers are scheduled; a read of the blockchain that was  *)
(* sent is answered or fails; an RPC between the servers that is made again *)
(* and again does not fail for ever; the client keeps asking.  Nothing is   *)
(* assumed of what a user or a failure does, in particular not that an      *)
(* adapter which does not answer ever dies, nor that it stops dying.        *)
CohortStepOf(A(_), c) == A(c) /\ UNCHANGED <<coordinatorVars, clientVars>>

ReadDecision(c) == DecisionFound(c) \/ DecisionPending(c) \/ DecisionUnanswered(c)

FairSpec ==
  /\ Spec
  /\ WF_vars(Tick /\ UNCHANGED <<cohortVars, coordinatorVars, clientVars>>)
  /\ WF_vars(/\ \E call \in pending_starts : MineStartVoting(call)
             /\ UNCHANGED <<cohortVars, coordinatorVars, clientVars>>)
  /\ WF_vars(/\ \E call \in pending_votes : MineVote(call)
             /\ UNCHANGED <<cohortVars, coordinatorVars, clientVars>>)
  /\ \A c \in Cohort :
       /\ WF_vars(CohortStepOf(VoteReturns, c))
       /\ WF_vars(CohortStepOf(AbortAfterVote, c))
       /\ WF_vars(CohortStepOf(WakeUp, c))
       /\ WF_vars(CohortStepOf(ReadDecision, c))
       /\ WF_vars(CohortStepOf(CommitTransaction, c))
       /\ WF_vars(CohortStepOf(AbortTransaction, c))
       /\ SF_vars(/\ client = "polling"
                  /\ TransactionResult(c) = "committed"
                  /\ CollectFromCohort(c)
                  /\ poll'.committed > poll.committed
                  /\ UNCHANGED <<chainVars, cohortVars, handler, clientVars,
                                 sub_transactions, cohort_counter>>)
  /\ WF_vars(GetTransactionResult)
  /\ WF_vars(ReplyFinalResponse)
-----------------------------------------------------------------------------
(* Safety *)

\* The detailed system implements atomic commit: a cohort has promised when it
\* has persisted its transaction, and its outcome is that of its database.
Promised == {c \in Cohort : persisted[c] \/ (OnlyCohort /\ db[c] = "committed")}
DbOutcome == [c \in Cohort |-> IF db[c] \in {"committed", "aborted"} THEN db[c]
                                                             ELSE "undecided"]

Atomic == INSTANCE AtomicCommit WITH promised <- Promised, outcome <- DbOutcome

\* No cohort commits unless every cohort has its part on disk, none aborts once
\* another has committed, and none commits once another has aborted, although
\* votes are lost, late or answered with errors, cohorts read the blockchain at
\* different times, and servers crash (ProcessTransaction,
\* WaitForBlockchainDecision, getVotingDecision).
ImplementsAtomicCommit == Atomic!Spec

\* The part of it that a client can see: no cohort's database commits while
\* another's aborts.
Agreement ==
  \A c, d \in Cohort : ~(db[c] = "committed" /\ db[d] = "aborted")

\* A transaction that the blockchain decides to commit can be replayed on every
\* cohort, also on those that crashed with their database transaction open: the
\* files were written before the COMMIT vote was sent (ProcessTransaction).
CommittedIsReplayable ==
  HasVoting(voting) /\ CurrentDecision = "COMMIT" =>
    \A c \in Cohort : persisted[c]

\* Once a cohort may have been asked to prepare, what getVotingDecision answers
\* never changes again after its first final answer: cohorts and coordinator
\* that ask at different times act on the same decision.
SomePrepareSent == \E h \in Request : cohort_counter[h] > 0

DecisionIsFinal ==
  [][SomePrepareSent /\ HasVoting(voting) /\ CurrentDecision # "PENDING"
       => CurrentDecision' = CurrentDecision]_vars

\* A ballot that was cast stays as it was cast: neither another cohort's vote
\* nor a retried startVoting takes its place (SendCohortPrepareRequests numbers
\* the cohorts, CommitAtomicTransaction retries startVoting before any Prepare).
BallotsAreCastOnce ==
  [][\A i \in DOMAIN voting.ballots :
       voting.ballots[i] # "UNKNOWN" =>
         /\ i \in DOMAIN voting'.ballots
         /\ voting'.ballots[i] = voting.ballots[i]]_vars

\* However often the client retries, no cohort is asked to prepare again what it
\* has begun to execute (possibly_sent_to_all_cohorts).
PreparedOnce ==
  [][\A c \in Cohort :
       stage[c] \notin {"none", "queued"} => stage'[c] # "queued"]_vars

\* The client is told committed only when every cohort's database has committed
\* and aborted only when none has and none will (UpdateCommittedResponseFrom-
\* Cohorts, UpdateAbortedResponseFromCohorts).
ClientIsToldTheTruth ==
  /\ result = "committed" => \A c \in Cohort : db[c] = "committed"
  /\ result = "aborted" => \A c \in Cohort : db[c] # "committed"
-----------------------------------------------------------------------------
(* Liveness *)

Ended(c) == stage[c] \in {"committed", "aborted", "crashed"}

\* What the adapter can do to a cohort for ever: leave a read or a vote of its
\* unanswered (contract_client.js only logs a failure, two_phase_commit.cc sets
\* no deadline), or die at read after read of a decision that has been made.
ReadNeverEnds(c)    == <>[](stage[c] = "unanswered")
VoteNeverEnds(c)    == <>[](stage[c] = "voting")
ReadsKeepFailing(c) ==
  []<><<CohortStepOf(DecisionRpcFails, c) /\ CurrentDecision # "PENDING">>_vars

\* A cohort whose COMMIT vote was answered holds its locks for ever only if a
\* read of the decision is never answered or its reads keep failing: otherwise
\* it learns a decision, also when other cohorts never vote, and acts on it.
WaitingEnds ==
  \A c \in Cohort :
    \/ stage[c] \in {"asking", "unanswered", "sleeping", "deciding"} ~> Ended(c)
    \/ ReadNeverEnds(c)
    \/ ReadsKeepFailing(c)

\* The client that got a response to its request for several cohorts asks for
\* the result for ever only if a server crashes, or the adapter lets a cohort's
\* vote or read, or the coordinator's read, hang for ever or fail again and again
\* (GetTransactionResult, UpdateCommittedResponseFromCohorts).
NoCohortCrash      == \A c \in Cohort : stage[c] # "crashed"
NoCoordinatorCrash == client = "polling" => metadata.present \/ response.complete

PollingEnds ==
  \/ client = "polling" ~> client = "done"
  \/ ~[](NoCohortCrash /\ NoCoordinatorCrash)
  \/ \E c \in Cohort : VoteNeverEnds(c) \/ ReadNeverEnds(c) \/ ReadsKeepFailing(c)
  \/ <>[](poll.stage = "unanswered")
  \/ []<><<PollFails>>_vars
-----------------------------------------------------------------------------
(* What the repository says and the code does not do *)

\* paper.tex:163: when the timer reaches the vote timeout time, a cohort that has
\* voted asks the blockchain for the decision and acts on it; and
\* cohort_server.cc:194: it is okay if the ABORT vote fails, since the
\* transaction auto-aborts (ProcessTransaction, AbortTransaction).
VotesEnd ==
  \A c \in Cohort : stage[c] \in {"voting", "aborting"} ~> Ended(c)

\* coordinator.proto:63: possible results are pending, aborted and committed
\* (GetTransactionResult, TryGetTransactionResults).
ResultIsDocumented ==
  result \in {"none", "error", "pending", "aborted", "partial", "committed"}
=============================================================================
