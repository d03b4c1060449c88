-------------------------- MODULE MCCohortDatabases --------------------------
(***************************************************************************)
(* Transactions for TLC, over two databases that have no value of the key  *)
(* n at the start.                                                         *)
(***************************************************************************)
EXTENDS CohortDatabases

CONSTANTS c1, c2, k, n, put, read, update, default, move

MCInitial == [c \in Cohort |-> [key \in Key |-> IF key = n THEN NoValue ELSE 0]]

MCWorkers == [c \in Cohort |-> IF c = c1 THEN 1 ELSE 2]

MCOps ==
  [t \in Transaction |->
     CASE t = put     -> << Put(c1, k, 1), Put(c2, k, 1) >>
       [] t = read    -> << Get(c1, k), Get(c2, k) >>
       [] t = update  -> << Get(c2, k), RelativePut(c2, k, 1, NoValue) >>
       [] t = default -> << RelativePut(c1, n, 2, 5),
                            [Get(c2, k) EXCEPT !.type = "none"] >>
       [] t = move    -> << RelativePut(c2, k, 1, NoValue),
                            RelativePut(c1, k, -1, NoValue) >>]
=============================================================================
