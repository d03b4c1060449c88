------------------------------- MODULE Voting -------------------------------
(***************************************************************************)
(* What TwoPhaseCommit.sol keeps about one transaction and the answers it  *)
(* gives, as operators: the number of cohorts and the vote timeout of the  *)
(* transaction's TransactionConfig, and one ballot per cohort.  The        *)
(* contract packs the ballots of a transaction into one uint256; module    *)
(* VotingContract models that encoding and shows that it behaves like the  *)
(* functions used here.                                                    *)
(***************************************************************************)
EXTENDS Naturals

CONSTANT MaxCohorts       \* 120 in startVoting

ASSUME MaxCohortsAssumption == MaxCohorts \in Nat

Ballot   == {"UNKNOWN", "COMMIT", "ABORT"}
Decision == {"PENDING", "COMMIT", "ABORT"}

\* The state of a transaction startVoting was never called for: a Solidity
\* mapping reads as zeros.
NoVoting == [cohorts           |-> 0,
             vote_timeout_time |-> 0,
             ballots           |-> [i \in {} |-> "UNKNOWN"]]

\* startVoting: its three requirements, and the entry it writes whether or not
\* there already was one.
CanStartVoting(cohorts, vote_timeout_time, now) ==
  /\ cohorts > 0
  /\ cohorts <= MaxCohorts
  /\ now < vote_timeout_time

StartedVoting(num_cohorts, timeout) ==
  [cohorts           |-> num_cohorts,
   vote_timeout_time |-> timeout,
   ballots           |-> [i \in 0 .. num_cohorts - 1 |-> "UNKNOWN"]]

\* vote: its three requirements, and the entry with the new ballot, which
\* replaces one the cohort already cast.
CanVote_AnyTime(v, cohort_id, ballot, now) ==
  /\ cohort_id < v.cohorts
  /\ ballot # "UNKNOWN"

CanVote(v, cohort_id, ballot, now) ==
  /\ now < v.vote_timeout_time
  /\ cohort_id < v.cohorts
  /\ ballot # "UNKNOWN"

Voted(v, cohort_id, ballot) ==
  [v EXCEPT !.ballots = [@ EXCEPT ![cohort_id] = ballot]]

\* getVotingDecision requires that voting was started.
HasVoting(v) == v.cohorts > 0

VotedToAbort(v)        == \E i \in DOMAIN v.ballots : v.ballots[i] = "ABORT"
AllVotedToCommit(v)    == \A i \in DOMAIN v.ballots : v.ballots[i] = "COMMIT"

getVotingDecision_NoTimeout(v, now) ==
  CASE VotedToAbort(v)     -> "ABORT"
    [] AllVotedToCommit(v) -> "COMMIT"
    [] OTHER               -> "PENDING"

getVotingDecision(v, now) ==
  IF VotedToAbort(v) THEN "ABORT"
  ELSE IF AllVotedToCommit(v) THEN "COMMIT"
  ELSE IF now >= v.vote_timeout_time THEN "ABORT"
  ELSE "PENDING"
=============================================================================
