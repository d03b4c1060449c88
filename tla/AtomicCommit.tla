---------------------------- MODULE AtomicCommit ----------------------------
(***************************************************************************)
(* What the system promises for a transaction: all of its cohorts that     *)
(* reach an outcome reach the same one, and it is commit only if every     *)
(* cohort has made sure that it can commit, whatever happens to it.        *)
(***************************************************************************)
CONSTANT Cohort

VARIABLES promised,   \* the cohorts that can commit, even after a crash
          outcome     \* of each cohort's database transaction

vars == <<promised, outcome>>

Outcome == {"undecided", "committed", "aborted"}

TypeOK ==
  /\ promised \subseteq Cohort
  /\ outcome \in [Cohort -> Outcome]

Init ==
  /\ promised = {}
  /\ outcome = [c \in Cohort |-> "undecided"]

Promise(c) ==
  /\ outcome[c] = "undecided"
  /\ promised' = promised \cup {c}
  /\ UNCHANGED outcome

\* The last cohort to promise may commit in the same step: a cohort that is
\* the only one needs no promise.
Commit(c) ==
  /\ outcome[c] = "undecided"
  /\ promised \cup {c} = Cohort
  /\ \A d \in Cohort : outcome[d] # "aborted"
  /\ promised' = promised \cup {c}
  /\ outcome' = [outcome EXCEPT ![c] = "committed"]

Abort(c) ==
  /\ outcome[c] = "undecided"
  /\ \A d \in Cohort : outcome[d] # "committed"
  /\ outcome' = [outcome EXCEPT ![c] = "aborted"]
  /\ UNCHANGED promised

Next == \E c \in Cohort : Promise(c) \/ Commit(c) \/ Abort(c)

Spec == Init /\ [][Next]_vars
=============================================================================
