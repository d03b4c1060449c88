--------------------------- MODULE DatabaseAdapter ---------------------------
(***************************************************************************)
(* The database of each cohort behind LMDBDatabaseTransactionAdapter.      *)
(* ProcessTransaction creates an adapter for each transaction, all of them *)
(* over the same files.                                                    *)
(*                                                                         *)
(* LMDB: a transaction works on the state that was committed when it       *)
(* began; committing a read-write transaction makes its view the committed *)
(* state; there is one read-write transaction at a time, a second          *)
(* txn::begin blocks.  Errors other than a missing key are thrown and end  *)
(* the process.                                                            *)
(***************************************************************************)
EXTENDS Operations

CONSTANTS Transaction,
          Initial       \* bound: what the databases have at the start

VARIABLES store,    \* the committed state of each cohort's LMDB environment
          adapter   \* each transaction's adapter: txn_, is_readonly_, and what
                    \* the LMDB transaction sees

databaseVars == <<store, adapter>>

View == [Key -> Int \cup {NoValue}]

ASSUME InitialAssumption == Initial \in [Cohort -> View]

NoTxn == [txn |-> "none", view |-> [k \in Key |-> NoValue]]

DatabaseTypeOK ==
  /\ store \in [Cohort -> View]
  /\ adapter \in [Cohort -> [Transaction ->
                    [txn : {"none", "read-only", "read-write"}, view : View]]]

DatabaseInit ==
  /\ store = Initial
  /\ adapter = [c \in Cohort |-> [t \in Transaction |-> NoTxn]]

\* LMDB has a read-write transaction open.
WriterOpen(c) == \E t \in Transaction : adapter[c][t].txn = "read-write"
-----------------------------------------------------------------------------
(* The operations.  The status of one is an operator, its effect a part of  *)
(* an action; a status other than "ok" has no effect.                       *)

Begin(c, t) ==
  /\ adapter[c][t].txn = "none"
  /\ ~WriterOpen(c)
  /\ adapter' = [adapter EXCEPT ![c][t] = [txn |-> "read-write", view |-> store[c]]]
  /\ UNCHANGED store

BeginReadOnly(c, t) ==
  /\ adapter[c][t].txn = "none"
  /\ adapter' = [adapter EXCEPT ![c][t] = [txn |-> "read-only", view |-> store[c]]]
  /\ UNCHANGED store

GetStatus(c, t, key) ==
  CASE adapter[c][t].txn = "none"           -> "failed_precondition"
    [] adapter[c][t].view[key] = NoValue    -> "internal"
    [] OTHER                                -> "ok"

PutStatus(c, t) ==
  IF adapter[c][t].txn = "read-write" THEN "ok" ELSE "failed_precondition"

PutValue(c, t, key, value) ==
  /\ adapter' = [adapter EXCEPT ![c][t].view[key] = value]
  /\ UNCHANGED store

Commit(c, t) ==
  /\ store' = IF adapter[c][t].txn = "read-write"
              THEN [store EXCEPT ![c] = adapter[c][t].view] ELSE store
  /\ adapter' = [adapter EXCEPT ![c][t] = NoTxn]

\* Abort of an adapter that has not begun fails and changes nothing.
Abort(c, t) ==
  /\ adapter' = [adapter EXCEPT ![c][t] = NoTxn]
  /\ UNCHANGED store
=============================================================================
