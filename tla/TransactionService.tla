-------------------------- MODULE TransactionService --------------------------
(***************************************************************************)
(* What a client meets when it runs many transactions: the coordinator     *)
(* with its maps from ids to entries, and behind it the databases.  The    *)
(* voting and the cohorts are reduced to what TwoPhaseCommit shows of      *)
(* them: one decision for each id, and each part of the transaction        *)
(* commits some time after it, or never when a call to the blockchain is   *)
(* not answered.  What is added to that module is the operations (a part   *)
(* fails if it reads a key that its database does not have), requests      *)
(* that are sent again after the clean-up, and polls that several callers  *)
(* make at once.                                                           *)
(***************************************************************************)
EXTENDS Operations

VARIABLES metadata,   \* metadata_by_transaction_: id -> entry
          response,   \* response_by_transaction_: id -> entry
          calls,      \* of GetTransactionResult, that wait: caller -> call
          decision,   \* of the votings: id -> what getVotingDecision answers
          part,       \* id -> for each time it was sent, where it is at each cohort
          keys        \* the keys in each database

serviceVars == <<metadata, response, calls, decision, part, keys>>

\* The entries know their transaction by its id, which the client makes from the
\* operations; WaitForCoordinator has an id of its own.
ClientTransactionId(ops) == <<"operations", ops>>
WaitId                   == <<"id", << >> >>
Id                       == {"operations", "id"} \X Seq(Operation)
OpsOf(id)                == id[2]

Part == {"none", "prepared",     \* before and after PrepareTransaction
         "ready", "failed",      \* executed, or an operation could not be
         "blocked",              \* ready, in a call that is not answered
         "committed", "aborted"}

NewMetadata == [possibly_sent_to_all_cohorts |-> FALSE,
                cohorts_already_responded |-> {}]

NoGets     == [c \in Cohort |-> 0]
NoResponse == [complete |-> FALSE, status |-> "unset", gets |-> NoGets]

Response == [complete : BOOLEAN,
             status : {"unset", "partial", "committed", "aborted"},
             gets : [Cohort -> Nat]]  \* how often a cohort's reads were added

Call == [id : Id,
         stage : {"unanswered",   \* reads the decision
                  "collecting"},  \* in the loop over the cohorts
         left : SUBSET Cohort,      \* to be looked at
         answered : SUBSET Cohort,  \* answered committed, is not added yet
         counted : SUBSET Cohort]   \* num_committed_responses

ServiceTypeOK ==
  /\ \A id \in DOMAIN metadata :
       /\ id \in Id
       /\ metadata[id] \in [possibly_sent_to_all_cohorts : BOOLEAN,
                            cohorts_already_responded : SUBSET Cohort]
  /\ \A id \in DOMAIN response : id \in Id /\ response[id] \in Response
  /\ \A i \in DOMAIN calls : calls[i] \in Call
  /\ \A id \in DOMAIN decision : decision[id] \in {"PENDING", "COMMIT", "ABORT"}
  /\ \A id \in DOMAIN part : id \in Id /\ part[id] \in Seq([Cohort -> Part])
  /\ keys \in [Cohort -> SUBSET Key]

EmptyMap == [id \in {} |-> id]

ServiceInit ==
  /\ metadata = EmptyMap
  /\ response = EmptyMap
  /\ calls = EmptyMap
  /\ decision = EmptyMap
  /\ part = EmptyMap
  /\ keys = [c \in Cohort |-> {}]

\* operator[] of a map makes a new entry if there is none.
Entry(map, id, new) == IF id \in DOMAIN map THEN map[id] ELSE new

WithEntry(map, id, entry) ==
  [i \in DOMAIN map \cup {id} |-> IF i = id THEN entry ELSE map[i]]

Without(map, id) == [i \in DOMAIN map \ {id} |-> map[i]]
-----------------------------------------------------------------------------
(* CommitAtomicTransaction *)

SingleCohort(id) == ~RequiresBlockchain(OpsOf(id))

PossiblySent(id) == Entry(metadata, id, NewMetadata).possibly_sent_to_all_cohorts

AlreadySent(id) == PossiblySent(id) /\ UNCHANGED serviceVars

\* The presumed abort time has passed; or there are no operations; or StartVoting
\* is not answered with OK: then the voting may have been started all the same.
NothingIsSent(id) ==
  /\ ~PossiblySent(id)
  /\ metadata' = WithEntry(metadata, id, Entry(metadata, id, NewMetadata))
  /\ \/ UNCHANGED decision
     \/ ~SingleCohort(id) /\ decision' = WithEntry(decision, id, "PENDING")
  /\ UNCHANGED <<response, calls, part, keys>>

\* The parts are sent to the cohorts; PrepareTransaction may fail unnoticed.  The
\* cohorts may still be at the parts that were sent before a clean-up.
SendToCohorts(id) ==
  /\ ~PossiblySent(id)
  /\ metadata' = WithEntry(metadata, id, [Entry(metadata, id, NewMetadata) EXCEPT
                                            !.possibly_sent_to_all_cohorts = TRUE])
  /\ decision' = IF SingleCohort(id) THEN decision
                                     ELSE WithEntry(decision, id, "PENDING")
  /\ \E received \in SUBSET Participants(OpsOf(id)) :
       part' = WithEntry(part, id, Append(Entry(part, id, << >>),
                 [c \in Cohort |-> IF c \in received THEN "prepared" ELSE "none"]))
  /\ UNCHANGED <<response, calls, keys>>
-----------------------------------------------------------------------------
(* Cohorts and voting: the n-th time that the parts of id were sent *)

\* Reads and relative puts need the key, in the database or written before by the
\* same transaction.
FindsItsKeys(ops, c) ==
  LET sub == SubTransaction(ops, c)
  IN  \A i \in DOMAIN sub : sub[i].type \in {"get", "relative"} =>
        \/ sub[i].key \in keys[c]
        \/ \E j \in 1 .. i - 1 : sub[j].type = "put" /\ sub[j].key = sub[i].key

PutKeys(ops, c) ==
  {op.key : op \in {o \in Range(ops) : o.namespace = c /\ o.type \in {"put", "relative"}}}

Decided(id, answer) == id \in DOMAIN decision /\ decision[id] = answer

At(id, n, c, before, after) ==
  /\ part[id][n][c] = before
  /\ part' = [part EXCEPT ![id][n][c] = after]
  /\ UNCHANGED <<metadata, response, calls, decision>>

Execute(id, n, c) ==
  /\ At(id, n, c, "prepared", IF FindsItsKeys(OpsOf(id), c) THEN "ready" ELSE "failed")
  /\ UNCHANGED keys

\* A vote or a read of the decision is not answered; later it fails.
Block(id, n, c)   == ~SingleCohort(id) /\ At(id, n, c, "ready", "blocked") /\ UNCHANGED keys
Unblock(id, n, c) == At(id, n, c, "blocked", "ready") /\ UNCHANGED keys

\* All votes are COMMIT; or one is ABORT, or one is missing at the timeout.  What
\* was executed for an earlier request of the same id may give the vote.
Decide(id) ==
  /\ Decided(id, "PENDING")
  /\ \/ /\ \A c \in Participants(OpsOf(id)) : \E n \in DOMAIN Entry(part, id, << >>) :
             part[id][n][c] \in {"ready", "blocked"}
        /\ decision' = [decision EXCEPT ![id] = "COMMIT"]
     \/ decision' = [decision EXCEPT ![id] = "ABORT"]
  /\ UNCHANGED <<metadata, response, calls, part, keys>>

\* A cohort learns of COMMIT in its own time; an only cohort does not vote.
Commit(id, n, c) ==
  /\ SingleCohort(id) \/ Decided(id, "COMMIT")
  /\ At(id, n, c, "ready", "committed")
  /\ keys' = [keys EXCEPT ![c] = @ \cup PutKeys(OpsOf(id), c)]

\* What could not be executed votes ABORT before it aborts.  For an only cohort that
\* call cannot succeed: it is not answered, or it fails.
Abort(id, n, c) ==
  /\ \/ At(id, n, c, "failed", "aborted")
     \/ Decided(id, "ABORT") /\ At(id, n, c, "ready", "aborted")
  /\ UNCHANGED keys
-----------------------------------------------------------------------------
(* GetTransactionResult of id for caller i.  The calls that answer pending   *)
(* or with an error at once change nothing: they are no steps here.          *)

CanAsk(i, id) ==
  /\ i \notin DOMAIN calls
  /\ ~Entry(response, id, NoResponse).complete
  /\ id \in DOMAIN metadata

\* single_cohort_namespace has a value.
HasSingleCohort(id) == PossiblySent(id) /\ SingleCohort(id)

Answers(id, c, final) == \E n \in DOMAIN Entry(part, id, << >>) : part[id][n][c] = final

ReadsDecision(id, answer) == ~HasSingleCohort(id) /\ Decided(id, answer)

NewCall(id, stage, left, answered) ==
  [id |-> id, stage |-> stage, left |-> left, answered |-> answered, counted |-> {}]

CleanUp(id, final) ==
  /\ response' = WithEntry(response, id, final)
  /\ metadata' = Without(metadata, id)

Aborted == [complete |-> TRUE, status |-> "aborted", gets |-> NoGets]

PollAborted(i, id) ==
  /\ CanAsk(i, id)
  /\ \/ ReadsDecision(id, "ABORT")
     \/ HasSingleCohort(id) /\ \E c \in Participants(OpsOf(id)) : Answers(id, c, "aborted")
  /\ CleanUp(id, Aborted)
  /\ UNCHANGED <<calls, decision, part, keys>>

\* The read reverts, without a voting, or fails: the adapter is silent about it.
ReadUnanswered(i, id) ==
  /\ CanAsk(i, id)
  /\ ~HasSingleCohort(id)
  /\ calls' = WithEntry(calls, i, NewCall(id, "unanswered", {}, {}))
  /\ UNCHANGED <<metadata, response, decision, part, keys>>

ReadFails(i) ==
  /\ i \in DOMAIN calls /\ calls[i].stage = "unanswered"
  /\ calls' = Without(calls, i)
  /\ UNCHANGED <<metadata, response, decision, part, keys>>

\* UpdateResponseForSingleCohortTransaction
AskOnlyCohort(i, id) ==
  /\ CanAsk(i, id)
  /\ HasSingleCohort(id)
  /\ \E c \in Participants(OpsOf(id)) :
       /\ Answers(id, c, "committed")
       /\ calls' = WithEntry(calls, i, NewCall(id, "collecting", {}, {c}))
  /\ UNCHANGED <<metadata, response, decision, part, keys>>

\* The response of i's transaction with the reads of c added to it.
WithReads(i, c, complete, status) ==
  LET old == Entry(response, calls[i].id, NoResponse)
  IN  [complete |-> complete, status |-> status, gets |-> [old.gets EXCEPT ![c] = @ + 1]]

AddOnlyAnswer(i) ==
  /\ i \in DOMAIN calls /\ SingleCohort(calls[i].id)
  /\ \E c \in calls[i].answered :
       CleanUp(calls[i].id, WithReads(i, c, TRUE, "committed"))
  /\ calls' = Without(calls, i)
  /\ UNCHANGED <<decision, part, keys>>

\* UpdateCommittedResponseFromCohorts: a cohort is asked if it is not among those
\* that have answered; what it answers is added some time after that.
BeginCollecting(i, id) ==
  /\ CanAsk(i, id)
  /\ ReadsDecision(id, "COMMIT")
  /\ calls' = WithEntry(calls, i, NewCall(id, "collecting", Participants(OpsOf(id)), {}))
  /\ UNCHANGED <<metadata, response, decision, part, keys>>

\* The entry of a transaction that another caller has completed is gone, and what
\* the loop then does is not defined: it has no more steps here.
Collects(i) ==
  /\ i \in DOMAIN calls /\ calls[i].stage = "collecting"
  /\ ~SingleCohort(calls[i].id)
  /\ calls[i].id \in DOMAIN metadata

HasResponded_Never(i, c) == FALSE

HasResponded(i, c) == c \in metadata[calls[i].id].cohorts_already_responded

SkipCohort(i, c) ==
  /\ Collects(i) /\ calls[i].answered = {} /\ c \in calls[i].left
  /\ HasResponded(i, c)
  /\ calls' = [calls EXCEPT ![i].left = @ \ {c}, ![i].counted = @ \cup {c}]
  /\ UNCHANGED <<metadata, response, decision, part, keys>>

\* The cohort answers that it has committed; or pending, or the RPC fails.
AskCohort(i, c, answered) ==
  /\ Collects(i) /\ calls[i].answered = {} /\ c \in calls[i].left
  /\ ~HasResponded(i, c)
  /\ \/ answered = {}
     \/ answered = {c} /\ Answers(calls[i].id, c, "committed")
  /\ calls' = [calls EXCEPT ![i].left = @ \ {c}, ![i].answered = answered]
  /\ UNCHANGED <<metadata, response, decision, part, keys>>

AddAnswer(i, c) ==
  /\ Collects(i) /\ c \in calls[i].answered
  /\ calls' = [calls EXCEPT ![i].answered = {}, ![i].counted = @ \cup {c}]
  /\ response' = WithEntry(response, calls[i].id, WithReads(i, c, FALSE, "partial"))
  /\ metadata' = [metadata EXCEPT ![calls[i].id].cohorts_already_responded = @ \cup {c}]
  /\ UNCHANGED <<decision, part, keys>>

HasAll_Any(i) == TRUE

HasAll(i) == calls[i].counted = Participants(OpsOf(calls[i].id))

FinishCollecting(i) ==
  LET id == calls[i].id
      old == Entry(response, id, NoResponse)
  IN  /\ Collects(i) /\ calls[i].answered = {} /\ calls[i].left = {}
      /\ IF HasAll(i)
         THEN CleanUp(id, [old EXCEPT !.complete = TRUE, !.status = "committed"])
         ELSE /\ response' = WithEntry(response, id, old)
              /\ UNCHANGED metadata
      /\ calls' = Without(calls, i)
      /\ UNCHANGED <<decision, part, keys>>
=============================================================================
