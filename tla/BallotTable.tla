----------------------------- MODULE BallotTable -----------------------------
(***************************************************************************)
(* What the TwoPhaseCommit contract promises: a table that holds, for each *)
(* transaction, a ballot of every one of its cohorts.                      *)
(***************************************************************************)
EXTENDS Voting

CONSTANTS TransactionId, MaxTime, CohortCount

VARIABLES table,       \* the entry of each transaction
          now          \* the timestamp of the latest block

vars == <<table, now>>

Init ==
  /\ table = [t \in TransactionId |-> NoVoting]
  /\ now = 0

StartVoting(t, cohorts, vote_timeout_time) ==
  /\ CanStartVoting(cohorts, vote_timeout_time, now)
  /\ table' = [table EXCEPT ![t] = StartedVoting(cohorts, vote_timeout_time)]
  /\ UNCHANGED now

Vote(t, cohort_id, ballot) ==
  /\ CanVote(table[t], cohort_id, ballot, now)
  /\ table' = [table EXCEPT ![t] = Voted(table[t], cohort_id, ballot)]
  /\ UNCHANGED now

Tick ==
  /\ now < MaxTime
  /\ now' = now + 1
  /\ UNCHANGED table

Next ==
  \/ \E t \in TransactionId, n \in CohortCount, timeout \in 0 .. MaxTime :
       StartVoting(t, n, timeout)
  \/ \E t \in TransactionId, i \in 0 .. MaxCohorts, b \in Ballot : Vote(t, i, b)
  \/ Tick

Spec == Init /\ [][Next]_vars
=============================================================================
