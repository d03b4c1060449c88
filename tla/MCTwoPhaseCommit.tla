-------------------------- MODULE MCTwoPhaseCommit --------------------------
(***************************************************************************)
(* TwoPhaseCommit for TLC.                                                 *)
(***************************************************************************)
EXTENDS TwoPhaseCommitInvariant, TLC

\* Cohorts are told apart by their index in a request only, and the order of
\* the cohorts of a request is arbitrary.  For safety only.
Symmetry == Permutations(Cohort)
=============================================================================
