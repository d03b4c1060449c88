----------------------- MODULE TwoPhaseCommitInvariant -----------------------
(***************************************************************************)
(* The inductive invariant of TwoPhaseCommit!Spec: why a retried request   *)
(* never disturbs a transaction that cohorts work on, why every ballot is  *)
(* the one its cohort cast, and why all that was read or done agrees with  *)
(* the decision of the blockchain.                                         *)
(***************************************************************************)
EXTENDS TwoPhaseCommit

(* Requests are worked on one after the other, and the startVoting calls    *)
(* that are not mined belong to requests made later than one that was       *)
(* answered.                                                                *)
RequestsInOrder ==
  \A g, h \in Request : g < h /\ handler[h] # "none" => Finished(g)

StartCallsInOrder ==
  /\ \A call \in pending_starts :
       /\ handler[call.request] # "none"
       /\ ~OnlyCohort
       /\ \A h \in Request : start_rpc[h] = "ok" => h < call.request
  /\ \A call, other \in pending_starts :
       call.request = other.request => call = other
  /\ \A h \in Request : start_rpc[h] # "idle" => handler[h] # "none"
  /\ OnlyCohort => voting = NoVoting
  /\ \A h \in Request : start_rpc[h] = "ok" => HasVoting(voting)

(* A handler that sends has its receipt and knows the order of the cohorts. *)
SendersAreReady ==
  \A h \in Request :
    /\ handler[h] = "none" => cohort_counter[h] = 0
    /\ handler[h] \in {"voting", "sending"} => sub_transactions[h] \in CohortOrder
    /\ handler[h] = "voting" => cohort_counter[h] = 0 /\ ~OnlyCohort
    /\ handler[h] = "sending" => OnlyCohort \/ start_rpc[h] = "ok"
    /\ cohort_counter[h] > 0 =>
         /\ sub_transactions[h] \in CohortOrder
         /\ OnlyCohort \/ start_rpc[h] = "ok"

(* Once a request has sent a PrepareTransaction it is the only one that ever *)
(* does, and no startVoting is on its way.                                  *)
OneSender ==
  \A h \in Request : cohort_counter[h] > 0 =>
    /\ pending_starts = {}
    /\ \A g \in Request \ {h} : /\ handler[g] \notin {"voting", "sending"}
                                /\ cohort_counter[g] = 0

(* While the client may still retry, the coordinator remembers that it has  *)
(* sent to all cohorts.                                                     *)
SendingIsRemembered ==
  client = "submitting" =>
    \A h \in Request : cohort_counter[h] > 0 =>
      /\ handler[h] \in {"sending", "ok"}
      /\ handler[h] = "ok" => cohort_counter[h] = NumCohorts
      /\ cohort_counter[h] = NumCohorts => metadata.possibly_sent_to_all_cohorts

RequestInv ==
  /\ RequestsInOrder
  /\ StartCallsInOrder
  /\ SendersAreReady
  /\ OneSender
  /\ SendingIsRemembered
-----------------------------------------------------------------------------
(* A cohort that was asked to prepare has the index under which a request   *)
(* lists it.                                                                *)
Listed(c, i) ==
  \E h \in Request : cohort_counter[h] > i /\ sub_transactions[h][i] = c

PreparedAreListed ==
  \A c \in Cohort : stage[c] # "none" => Listed(c, cohort_index[c])

Ballots(i) == IF i \in DOMAIN voting.ballots THEN voting.ballots[i] ELSE "UNKNOWN"

(* Before a cohort votes nothing of it is on disk or on the blockchain, and *)
(* a cohort that votes ABORT has written no files.                          *)
NotVotedYet ==
  \A c \in Cohort :
    /\ stage[c] \in {"none", "queued"} =>
         /\ db[c] = "idle"
         /\ \A call \in pending_votes : call.cohort # c
    /\ stage[c] \in {"none", "queued", "aborting"} => ~persisted[c]

(* Every vote was cast by the cohort it is for, COMMIT only with the files  *)
(* on disk, and never twice.                                                *)
VotesAreGenuine ==
  /\ \A call \in pending_votes :
       /\ stage[call.cohort] # "none"
       /\ call.cohort_id = cohort_index[call.cohort]
       /\ persisted[call.cohort] <=> call.ballot = "COMMIT"
       /\ Ballots(call.cohort_id) = "UNKNOWN"
  /\ \A call, other \in pending_votes :
       call.cohort = other.cohort => call = other

BallotsAreGenuine ==
  \A i \in CohortIndex : Ballots(i) # "UNKNOWN" =>
    \E c \in Cohort : /\ stage[c] \notin {"none", "queued"}
                      /\ cohort_index[c] = i
                      /\ persisted[c] <=> Ballots(i) = "COMMIT"

VoteInv ==
  /\ PreparedAreListed
  /\ NotVotedYet
  /\ VotesAreGenuine
  /\ BallotsAreGenuine
-----------------------------------------------------------------------------
(* What a cohort has read and done agrees with the decision.                *)
Decided(d) == HasVoting(voting) /\ CurrentDecision = d

ReadsAreCurrent ==
  \A c \in Cohort :
    stage[c] = "deciding" => Decided(decision_read[c]) /\ decision_read[c] # "PENDING"

CommittedAreDecided ==
  \A c \in Cohort : db[c] = "committed" => OnlyCohort \/ Decided("COMMIT")

AbortedAreDecided ==
  \A c \in Cohort : db[c] = "aborted" => ~persisted[c] \/ Decided("ABORT")

DecisionInv ==
  /\ ReadsAreCurrent
  /\ CommittedAreDecided
  /\ AbortedAreDecided

IInv ==
  /\ TypeOK
  /\ RequestInv
  /\ VoteInv
  /\ DecisionInv
-----------------------------------------------------------------------------
(* Why the client is told the truth.  The entry of metadata_by_transaction_ *)
(* exists from the first request on until a final result or a crash of the  *)
(* coordinator, and the client asks for a result only after all was sent.   *)
EntryIsKept ==
  /\ metadata.present \/ metadata = NoMetadata
  /\ \A h \in Request : client = "submitting" /\ handler[h] # "none" => metadata.present
  /\ \A h \in Request : handler[h] \in {"voting", "sending"} => client = "submitting"

AllPrepareSent == \E h \in Request : cohort_counter[h] = NumCohorts

AnsweredAreSent ==
  /\ client = "polling" => \E h \in Request : handler[h] = "ok"
  /\ metadata.possibly_sent_to_all_cohorts => AllPrepareSent
  /\ \A h \in Request : handler[h] = "ok" =>
       AllPrepareSent /\ \A g \in Request : handler[g] \notin {"voting", "sending"}

(* cohort_namespaces lists the cohorts a request was sent to, each once.    *)
NamespacesAreListed ==
  /\ metadata.cohort_namespaces # << >> => SomePrepareSent
  /\ metadata.present => \A h \in Request : cohort_counter[h] > 0 =>
       /\ Len(metadata.cohort_namespaces) = cohort_counter[h]
       /\ \A i \in 1 .. cohort_counter[h] :
            metadata.cohort_namespaces[i] = sub_transactions[h][i - 1]

(* A cohort's final answer is what its database did, and stays.             *)
FinalAnswersAreTrue ==
  \A c \in Cohort :
    /\ stage[c] = "committed" => db[c] = "committed"
    /\ stage[c] = "aborted" => db[c] = "aborted"
    /\ db[c] \in {"committed", "aborted"} =>
         stage[c] \in {"committed", "aborted", "crashed"}

(* What GetTransactionResult keeps between two calls ...                    *)
KeptAnswersAreTrue ==
  /\ metadata.single_cohort => OnlyCohort
  /\ metadata.decision # "PENDING" =>
       SomePrepareSent /\ metadata.decision = "COMMIT" /\ Decided("COMMIT")
  /\ \A c \in metadata.cohorts_already_responded : db[c] = "committed"

(* ... and counts in one: every cohort counted so far has committed if none *)
(* was left out.                                                            *)
CountedHaveResponded ==
  poll.stage = "collecting" =>
    /\ client = "polling"
    /\ metadata.present
    /\ metadata.decision = "COMMIT"
    /\ poll.next <= Len(metadata.cohort_namespaces) + 1
    /\ poll.committed < poll.next
    /\ poll.committed = poll.next - 1 =>
         \A i \in 1 .. poll.next - 1 :
           metadata.cohort_namespaces[i] \in metadata.cohorts_already_responded

(* A final response agrees with the databases, now and later.               *)
IsTrueOf(status) ==
  /\ status = "committed" => \A c \in Cohort : db[c] = "committed"
  /\ status = "aborted" =>
       \/ OnlyCohort /\ \A c \in Cohort : db[c] = "aborted"
       \/ ~OnlyCohort /\ SomePrepareSent /\ Decided("ABORT")

ResponsesAreTrue == IsTrueOf(response.status) /\ IsTrueOf(result)

ResultInv ==
  /\ EntryIsKept
  /\ AnsweredAreSent
  /\ NamespacesAreListed
  /\ FinalAnswersAreTrue
  /\ KeptAnswersAreTrue
  /\ CountedHaveResponded
  /\ ResponsesAreTrue
=============================================================================
