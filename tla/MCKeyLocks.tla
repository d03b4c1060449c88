------------------------------ MODULE MCKeyLocks ------------------------------
(***************************************************************************)
(* Transactions for TLC: they read and write the keys a and b in different *)
(* orders.                                                                 *)
(***************************************************************************)
EXTENDS KeyLocks

CONSTANTS cohort, a, b

Unset(k) == [Get(cohort, k) EXCEPT !.type = "none"]

MCPrograms ==
  {<< Get(cohort, a), Put(cohort, a, 1) >>,
   << Put(cohort, b, 1), Get(cohort, b) >>,
   << RelativePut(cohort, b, 1, 0), Get(cohort, a) >>,
   << Get(cohort, b), Put(cohort, a, 1) >>,
   << Get(cohort, b), Unset(a) >>}
=============================================================================
