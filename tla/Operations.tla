----------------------------- MODULE Operations -----------------------------
(***************************************************************************)
(* Operations and transactions as common.proto has them, how the           *)
(* coordinator splits a transaction by database.  An operation is a        *)
(* record with its namespace (the cohort), its type and its key:           *)
(*   "get"       read the key                                              *)
(*   "put"       write value to the key                                    *)
(*   "relative"  add value to what the key has, or to default if it has    *)
(*               nothing and there is a default                            *)
(*   "none"      the oneof is not set                                      *)
(***************************************************************************)
EXTENDS Integers, Sequences, FiniteSets, SequencesExt

CONSTANTS Cohort, Key,
          NoValue    \* what a key has that was never written; no default

ASSUME NoValueAssumption == NoValue \notin Int

Get(c, k) ==
  [namespace |-> c, type |-> "get", key |-> k, value |-> 0, default |-> NoValue]
Put(c, k, v) ==
  [namespace |-> c, type |-> "put", key |-> k, value |-> v, default |-> NoValue]
RelativePut(c, k, v, default) ==
  [namespace |-> c, type |-> "relative", key |-> k, value |-> v,
   default |-> default]

Operation == [namespace : Cohort, type : {"get", "put", "relative", "none"},
              key : Key, value : Int, default : Int \cup {NoValue}]

HasGet(ops) == \E i \in DOMAIN ops : ops[i].type = "get"
HasPut(ops) == \E i \in DOMAIN ops : ops[i].type \in {"put", "relative"}

\* SplitClientTransaction: the loop over the operations appends each to the
\* sub-transaction of its namespace.  Split(ops, c)[i] is the sub-transaction of
\* c when i operations have been looked at; a namespace without operations has
\* none.
Split(ops, c) ==
  LET sub[i \in 0 .. Len(ops)] ==
        IF i = 0 THEN << >>
        ELSE IF ops[i].namespace = c THEN Append(sub[i - 1], ops[i])
        ELSE sub[i - 1]
  IN  sub

SubTransaction(ops, c) == Split(ops, c)[Len(ops)]

Participants(ops) == {c \in Cohort : SubTransaction(ops, c) # << >>}

\* RequiresBlockchain
RequiresBlockchain(ops) == Cardinality(Participants(ops)) > 1

\* The cohort_index of SendCohortPrepareRequests numbers the participants in
\* the order of a hash map; any numbering will do.
CohortIndex(ops) ==
  CHOOSE index \in [Participants(ops) -> 0 .. Cardinality(Participants(ops)) - 1] :
    \A c, d \in Participants(ops) : index[c] = index[d] => c = d
=============================================================================
