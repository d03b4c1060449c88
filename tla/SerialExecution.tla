--------------------------- MODULE SerialExecution ---------------------------
(***************************************************************************)
(* What the databases promise together: "one large database with ACID"    *)
(* (paper.tex:52).  A transaction takes place at once on all its           *)
(* databases: every operation sees the effects of the ones before it and   *)
(* of the transactions before this one, and nothing else; or it does not   *)
(* take place at all.                                                      *)
(***************************************************************************)
EXTENDS Operations

CONSTANTS Transaction,
          Initial,        \* what the databases have at the start
          Ops             \* the operations of each transaction

VARIABLES database,    \* what each key of each cohort has
          committed,   \* the transactions that took place
          results      \* what their get operations returned, by cohort

vars == <<database, committed, results>>

NoResults == [c \in Cohort |-> << >>]

Init ==
  /\ database = Initial
  /\ committed = {}
  /\ results = [t \in Transaction |-> NoResults]

\* One operation at the database it is for, given what that database has, what
\* was read from it so far and whether nothing failed there.  It fails when it
\* needs a value that is not there.
Execute(at, op) ==
  LET current == IF op.type = "relative" /\ at.data[op.key] = NoValue
                 THEN op.default ELSE at.data[op.key]
  IN  CASE op.type \in {"get", "relative"} /\ current = NoValue ->
             [at EXCEPT !.ok = FALSE]
        [] op.type = "get" /\ current # NoValue ->
             [at EXCEPT !.results = Append(@, current)]
        [] op.type = "relative" /\ current # NoValue ->
             [at EXCEPT !.data[op.key] = current + op.value]
        [] op.type = "put" ->
             [at EXCEPT !.data[op.key] = op.value]
        [] op.type = "none" -> at

\* What the first i operations make of the databases db.
Unread(data) == [data |-> data, results |-> << >>, ok |-> TRUE]

Execution(ops, db) ==
  LET after[i \in 0 .. Len(ops)] ==
        IF i = 0 THEN [c \in Cohort |-> Unread(db[c])]
        ELSE [after[i - 1] EXCEPT ![ops[i].namespace] = Execute(@, ops[i])]
  IN  after

Commit(t) ==
  LET executed == Execution(Ops[t], database)[Len(Ops[t])] IN
  /\ t \notin committed
  /\ \A c \in Cohort : executed[c].ok
  /\ database' = [c \in Cohort |-> executed[c].data]
  /\ committed' = committed \cup {t}
  /\ results' = [results EXCEPT ![t] = [c \in Cohort |-> executed[c].results]]

Next == \E t \in Transaction : Commit(t)

Spec == Init /\ [][Next]_vars
=============================================================================
