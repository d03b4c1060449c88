---------------------------- MODULE CohortServer ----------------------------
(***************************************************************************)
(* The cohorts of one transaction.  Each runs ProcessTransaction on a      *)
(* worker of its thread pool: execute the operations in a database         *)
(* transaction, persist the request and the response, vote COMMIT, wait    *)
(* for the decision of the blockchain, then commit or abort.  A failure    *)
(* before the COMMIT vote makes it vote ABORT and abort.  A transaction    *)
(* with one cohort commits without a vote.                                 *)
(*                                                                         *)
(* The database transaction and the persisted files survive a crash of the *)
(* server; everything else is lost with it, and the server has no code     *)
(* that reads the files back.  Operations, keys and locks are abstracted:  *)
(* executing the operations succeeds or fails.                             *)
(***************************************************************************)
EXTENDS Blockchain

VARIABLES stage,         \* where ProcessTransaction is at each cohort
          db,            \* the database transaction of each cohort
          persisted,     \* PersistTransaction has written both files
          cohort_index,  \* from the PrepareTransactionRequest
          decision_read  \* the decision WaitForBlockchainDecision returned

cohortVars == <<stage, db, persisted, cohort_index, decision_read>>

Stage == {"none",       \* no PrepareTransaction received
          "queued",     \* task pushed to the thread pool
          "aborting",   \* in Vote(BALLOT_ABORT) of AbortTransaction
          "voting",     \* in Vote(BALLOT_COMMIT)
          "asking",     \* in GetVotingDecision, the read not done yet
          "unanswered", \* in a GetVotingDecision that will not be answered
          "sleeping",   \* sleeping until the presumed abort time, or longer
          "deciding",   \* has a decision
          "committed", "aborted",
          "crashed"}    \* restarted without any memory of the transaction

DbState == {"idle",      \* no database transaction yet
            "open", "committed", "aborted",
            "lost"}      \* was open when the server crashed

CohortTypeOK ==
  /\ stage \in [Cohort -> Stage]
  /\ db \in [Cohort -> DbState]
  /\ persisted \in [Cohort -> BOOLEAN]
  /\ cohort_index \in [Cohort -> CohortIndex]
  /\ decision_read \in [Cohort -> Decision]

CohortInit ==
  /\ stage = [c \in Cohort |-> "none"]
  /\ db = [c \in Cohort |-> "idle"]
  /\ persisted = [c \in Cohort |-> FALSE]
  /\ cohort_index = [c \in Cohort |-> 0]
  /\ decision_read = [c \in Cohort |-> "PENDING"]

\* What GetTransactionResult of a cohort answers: the final response when there
\* is one, pending otherwise.
TransactionResult(c) ==
  CASE stage[c] = "committed" -> "committed"
    [] stage[c] = "aborted"   -> "aborted"
    [] OTHER                  -> "pending"

OnlyCohort == NumCohorts = 1

Active(c) == stage[c] \notin {"none", "committed", "aborted", "crashed"}
-----------------------------------------------------------------------------
\* PrepareTransaction only pushes a task that runs ProcessTransaction, which
\* starts over whatever an earlier task for the id has done: nothing checks
\* that the id is new.  A crashed server is not restarted before the end of the
\* transaction, so a request does not reach it.
ReceivePrepare(c, index) ==
  /\ stage[c] # "crashed"
  /\ stage' = [stage EXCEPT ![c] = "queued"]
  /\ db' = [db EXCEPT ![c] = "idle"]
  /\ cohort_index' = [cohort_index EXCEPT ![c] = index]
  /\ UNCHANGED <<persisted, decision_read>>

\* ProcessTransactionInDb or PersistTransaction fails: AbortTransaction first
\* votes ABORT.  The database transaction is not ended meanwhile; "open" stands
\* also for one that failed before it began.
ProcessFails(c) ==
  /\ stage[c] = "queued"
  /\ stage' = [stage EXCEPT ![c] = "aborting"]
  /\ db' = [db EXCEPT ![c] = "open"]
  /\ SendVote(c, cohort_index[c], "ABORT")
  /\ UNCHANGED <<persisted, cohort_index, decision_read>>

\* ... and then aborts, whether or not the vote succeeded.
AbortAfterVote(c) ==
  /\ stage[c] = "aborting"
  /\ vote_rpc[c] \in {"ok", "error"}
  /\ stage' = [stage EXCEPT ![c] = "aborted"]
  /\ db' = [db EXCEPT ![c] = "aborted"]
  /\ EndVoteRpc(c)
  /\ UNCHANGED <<persisted, cohort_index, decision_read>>

\* CommitTransaction of the only cohort.
ProcessOnlyCohort(c) ==
  /\ stage[c] = "queued"
  /\ OnlyCohort
  /\ stage' = [stage EXCEPT ![c] = "committed"]
  /\ db' = [db EXCEPT ![c] = "committed"]
  /\ UNCHANGED <<persisted, cohort_index, decision_read, chainVars>>

PersistAndVote_NoFiles(c) ==
  /\ stage[c] = "queued"
  /\ ~OnlyCohort
  /\ stage' = [stage EXCEPT ![c] = "voting"]
  /\ db' = [db EXCEPT ![c] = "open"]
  /\ SendVote(c, cohort_index[c], "COMMIT")
  /\ UNCHANGED <<persisted, cohort_index, decision_read>>

\* The operations succeed, both files are written, the vote is sent.
PersistAndVote(c) ==
  /\ stage[c] = "queued"
  /\ ~OnlyCohort
  /\ persisted' = [persisted EXCEPT ![c] = TRUE]
  /\ stage' = [stage EXCEPT ![c] = "voting"]
  /\ db' = [db EXCEPT ![c] = "open"]
  /\ SendVote(c, cohort_index[c], "COMMIT")
  /\ UNCHANGED <<cohort_index, decision_read>>

VoteReturns_AbortsOnError(c) ==
  /\ stage[c] = "voting"
  /\ vote_rpc[c] \in {"ok", "error"}
  /\ stage' = [stage EXCEPT ![c] = IF vote_rpc[c] = "ok" THEN "asking"
                                                          ELSE "aborted"]
  /\ db' = [db EXCEPT ![c] = IF vote_rpc[c] = "ok" THEN @ ELSE "aborted"]
  /\ EndVoteRpc(c)
  /\ UNCHANGED <<persisted, cohort_index, decision_read>>

\* An error of Vote is ignored: the ballot may have been counted.
VoteReturns(c) ==
  /\ stage[c] = "voting"
  /\ vote_rpc[c] \in {"ok", "error"}
  /\ stage' = [stage EXCEPT ![c] = "asking"]
  /\ EndVoteRpc(c)
  /\ UNCHANGED <<db, persisted, cohort_index, decision_read>>

\* WaitForBlockchainDecision: a decision ends the loop ...
DecisionFound(c) ==
  /\ stage[c] = "asking"
  /\ HasVoting(voting)
  /\ CurrentDecision # "PENDING"
  /\ stage' = [stage EXCEPT ![c] = "deciding"]
  /\ decision_read' = [decision_read EXCEPT ![c] = CurrentDecision]
  /\ UNCHANGED <<db, persisted, cohort_index, chainVars>>

\* ... PENDING makes it sleep ...
DecisionPending(c) ==
  /\ stage[c] = "asking"
  /\ HasVoting(voting)
  /\ CurrentDecision = "PENDING"
  /\ stage' = [stage EXCEPT ![c] = "sleeping"]
  /\ UNCHANGED <<db, persisted, cohort_index, decision_read, chainVars>>

\* ... a read that fails is logged by the adapter and not answered: without a
\* deadline the cohort waits, its locks held ...
DecisionUnanswered(c) ==
  /\ stage[c] = "asking"
  /\ ReadCanFail
  /\ stage' = [stage EXCEPT ![c] = "unanswered"]
  /\ UNCHANGED <<db, persisted, cohort_index, decision_read, chainVars>>

\* ... and only the death of the adapter makes it sleep after all ...
DecisionRpcFails(c) ==
  /\ stage[c] \in {"asking", "unanswered"}
  /\ stage' = [stage EXCEPT ![c] = "sleeping"]
  /\ UNCHANGED <<db, persisted, cohort_index, decision_read, chainVars>>

\* ... until the presumed abort time on the cohort's own clock, which says
\* nothing about the time of the latest block.
WakeUp(c) ==
  /\ stage[c] = "sleeping"
  /\ stage' = [stage EXCEPT ![c] = "asking"]
  /\ UNCHANGED <<db, persisted, cohort_index, decision_read, chainVars>>

CommitTransaction(c) ==
  /\ stage[c] = "deciding"
  /\ decision_read[c] = "COMMIT"
  /\ stage' = [stage EXCEPT ![c] = "committed"]
  /\ db' = [db EXCEPT ![c] = "committed"]
  /\ UNCHANGED <<persisted, cohort_index, decision_read, chainVars>>

\* AbortTransaction without a status votes no more.
AbortTransaction(c) ==
  /\ stage[c] = "deciding"
  /\ decision_read[c] # "COMMIT"
  /\ stage' = [stage EXCEPT ![c] = "aborted"]
  /\ db' = [db EXCEPT ![c] = "aborted"]
  /\ UNCHANGED <<persisted, cohort_index, decision_read, chainVars>>

\* The server crashes: an open database transaction is lost, a vote that was
\* sent is not recalled.
Crash(c) ==
  /\ stage[c] \notin {"none", "crashed"}
  /\ stage' = [stage EXCEPT ![c] = "crashed"]
  /\ db' = [db EXCEPT ![c] = IF @ = "open" THEN "lost" ELSE @]
  /\ EndVoteRpc(c)
  /\ UNCHANGED <<persisted, cohort_index, decision_read>>

CohortNext ==
  \E c \in Cohort :
    \/ ProcessFails(c)
    \/ AbortAfterVote(c)
    \/ ProcessOnlyCohort(c)
    \/ PersistAndVote(c)
    \/ VoteReturns(c)
    \/ DecisionFound(c)
    \/ DecisionPending(c)
    \/ DecisionUnanswered(c)
    \/ DecisionRpcFails(c)
    \/ WakeUp(c)
    \/ CommitTransaction(c)
    \/ AbortTransaction(c)
    \/ Crash(c)
=============================================================================
