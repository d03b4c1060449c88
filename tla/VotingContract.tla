--------------------------- MODULE VotingContract ---------------------------
(***************************************************************************)
(* The TwoPhaseCommit contract as it stores its data: the ballots of a     *)
(* transaction are the base-3 digits of one number, digit i being the      *)
(* ballot of cohort i.  A call whose requirement fails reverts and changes *)
(* nothing, so only the calls that succeed are actions.  setMockNow is     *)
(* left out: it exists for the contract's own tests.                       *)
(*                                                                         *)
(* Bounds: MaxTime is the last block timestamp, CohortCount the cohort     *)
(* counts startVoting is called with.                                      *)
(***************************************************************************)
EXTENDS Naturals

CONSTANTS TransactionId,
          MaxCohorts,
          MaxTime,
          CohortCount

ASSUME ContractAssumption ==
  /\ MaxCohorts \in Nat
  /\ MaxTime \in Nat
  /\ CohortCount \subseteq Nat

VARIABLES transaction_states,    \* encoded ballots of each transaction
          transaction_configs,   \* cohorts and vote_timeout_time of each
          now                    \* timestamp of the latest block

vars == <<transaction_states, transaction_configs, now>>

\* enum Ballot
UNKNOWN == 0
COMMIT  == 1
ABORT   == 2

ballot_base == 3

\* ballot_base**n.
power[n \in Nat] == IF n = 0 THEN 1 ELSE ballot_base * power[n - 1]

TypeOK ==
  /\ transaction_states \in [TransactionId -> 0 .. power[MaxCohorts] - 1]
  /\ transaction_configs \in
       [TransactionId -> [cohorts : {n \in CohortCount \cup {0} : n <= MaxCohorts},
                          vote_timeout_time : 0 .. MaxTime]]
  /\ now \in 0 .. MaxTime
-----------------------------------------------------------------------------
getCohortBallot(encoded, cohort_id) ==
  (encoded \div power[cohort_id]) % ballot_base

getNewCohortBallot_NoReset(encoded, cohort_id, ballot) ==
  encoded + ballot * power[cohort_id]

getNewCohortBallot(encoded, cohort_id, ballot) ==
  (encoded - getCohortBallot(encoded, cohort_id) * power[cohort_id])
    + ballot * power[cohort_id]

\* The loop over the cohorts returns at the first ABORT ballot it meets; the
\* number of COMMIT ballots equals the number of cohorts when all are COMMIT.
getVotingDecision_NoTimeout(t) ==
  LET Ballots == {getCohortBallot(transaction_states[t], i) :
                    i \in 0 .. transaction_configs[t].cohorts - 1}
  IN  CASE ABORT \in Ballots    -> "ABORT"
        [] Ballots = {COMMIT}   -> "COMMIT"
        [] OTHER                -> "PENDING"

getVotingDecision_SkipsLast(t) ==
  LET Ballots == {getCohortBallot(transaction_states[t], i) :
                    i \in 0 .. transaction_configs[t].cohorts - 2}
  IN  IF ABORT \in Ballots THEN "ABORT"
      ELSE IF Ballots = {COMMIT} THEN "COMMIT"
      ELSE IF now >= transaction_configs[t].vote_timeout_time THEN "ABORT"
      ELSE "PENDING"

getVotingDecision(t) ==
  LET Ballots == {getCohortBallot(transaction_states[t], i) :
                    i \in 0 .. transaction_configs[t].cohorts - 1}
  IN  IF ABORT \in Ballots THEN "ABORT"
      ELSE IF Ballots = {COMMIT} THEN "COMMIT"
      ELSE IF now >= transaction_configs[t].vote_timeout_time THEN "ABORT"
      ELSE "PENDING"
-----------------------------------------------------------------------------
Init ==
  /\ transaction_states = [t \in TransactionId |-> 0]
  /\ transaction_configs =
       [t \in TransactionId |-> [cohorts |-> 0, vote_timeout_time |-> 0]]
  /\ now = 0

startVoting_KeepsBallots(t, cohorts, vote_timeout_time) ==
  /\ cohorts > 0
  /\ cohorts <= MaxCohorts
  /\ now < vote_timeout_time
  /\ transaction_configs' =
       [transaction_configs EXCEPT ![t] =
          [cohorts |-> cohorts, vote_timeout_time |-> vote_timeout_time]]
  /\ UNCHANGED <<transaction_states, now>>

startVoting(t, cohorts, vote_timeout_time) ==
  /\ cohorts > 0
  /\ cohorts <= MaxCohorts
  /\ now < vote_timeout_time
  /\ transaction_configs' =
       [transaction_configs EXCEPT ![t] =
          [cohorts |-> cohorts, vote_timeout_time |-> vote_timeout_time]]
  /\ transaction_states' = [transaction_states EXCEPT ![t] = 0]
  /\ UNCHANGED now

vote_AnyTime(t, cohort_id, ballot) ==
  /\ transaction_configs[t].cohorts > cohort_id
  /\ ballot # UNKNOWN
  /\ transaction_states' =
       [transaction_states EXCEPT ![t] = getNewCohortBallot(@, cohort_id, ballot)]
  /\ UNCHANGED <<transaction_configs, now>>

vote(t, cohort_id, ballot) ==
  /\ now < transaction_configs[t].vote_timeout_time
  /\ transaction_configs[t].cohorts > cohort_id
  /\ ballot # UNKNOWN
  /\ transaction_states' =
       [transaction_states EXCEPT ![t] = getNewCohortBallot(@, cohort_id, ballot)]
  /\ UNCHANGED <<transaction_configs, now>>

\* A block with a later timestamp.
Tick ==
  /\ now < MaxTime
  /\ now' = now + 1
  /\ UNCHANGED <<transaction_states, transaction_configs>>

Next ==
  \/ \E t \in TransactionId, n \in CohortCount, timeout \in 0 .. MaxTime :
       startVoting(t, n, timeout)
  \/ \E t \in TransactionId, i \in 0 .. MaxCohorts, b \in {UNKNOWN, COMMIT, ABORT} :
       vote(t, i, b)
  \/ Tick

\* Blocks keep being produced.
Spec == Init /\ [][Next]_vars /\ WF_vars(Tick)
-----------------------------------------------------------------------------
(* Properties *)

Started(t) == transaction_configs[t].cohorts > 0
Expired(t) == Started(t) /\ now >= transaction_configs[t].vote_timeout_time

\* The contract behaves like a table of ballots: re-voting resets the old digit,
\* a vote never disturbs another cohort's digit, a restarted voting has none of
\* the old ballots (getNewCohortBallot, startVoting).
BallotName(b) == CASE b = COMMIT -> "COMMIT" [] b = ABORT -> "ABORT"
                   [] OTHER -> "UNKNOWN"

Decoded(t) ==
  [cohorts           |-> transaction_configs[t].cohorts,
   vote_timeout_time |-> transaction_configs[t].vote_timeout_time,
   ballots           |-> [i \in 0 .. transaction_configs[t].cohorts - 1 |->
                            BallotName(getCohortBallot(transaction_states[t], i))]]

Table == INSTANCE BallotTable WITH table <- [t \in TransactionId |-> Decoded(t)]

BehavesAsBallotTable == Table!Spec

\* What the loop of getVotingDecision finds in the digits is what the table's
\* ballots say: it reads every cohort's digit and no others.
AnswersAsBallotTable ==
  \A t \in TransactionId :
    Started(t) => getVotingDecision(t) = Table!getVotingDecision(Decoded(t), now)

\* Once the vote timeout has passed, what getVotingDecision answers for a
\* transaction never changes unless voting on it is started afresh: every cohort
\* that asks after the timeout gets the same answer.
ExpiredDecisionIsFinal ==
  [][\A t \in TransactionId :
       /\ Expired(t)
       /\ transaction_configs'[t] = transaction_configs[t]
       => getVotingDecision(t)' = getVotingDecision(t)]_vars

\* The contract decides every transaction: a started voting does not stay
\* PENDING for ever, however few cohorts vote.
EveryVotingIsDecided ==
  \A t \in TransactionId :
    Started(t) ~> getVotingDecision(t) # "PENDING"
=============================================================================
