------------------------ MODULE TwoPhaseCommitProofs ------------------------
(***************************************************************************)
(* Theorems about TwoPhaseCommit!Spec, for any set of cohorts, any number  *)
(* of requests and any times.                                              *)
(***************************************************************************)
EXTENDS TwoPhaseCommitInvariant, TLAPS

(* Type correctness, component by component.                                *)

\* What the contract writes is an entry of the right type (startVoting, vote).
LEMMA VotingEntries ==
  /\ NoVoting \in VotingEntry
  /\ \A timeout \in 0 .. MaxTime : StartedVoting(NumCohorts, timeout) \in VotingEntry
  /\ \A v \in VotingEntry, i \in CohortIndex, b \in Ballot, now \in Nat :
       CanVote(v, i, b, now) => /\ v # NoVoting
                                /\ Voted(v, i, b) \in VotingEntry
PROOF
<1>1. NoVoting \in VotingEntry
  BY DEF VotingEntry
<1>2. ASSUME NEW timeout \in 0 .. MaxTime
      PROVE  StartedVoting(NumCohorts, timeout) \in VotingEntry
  BY DEF VotingEntry, StartedVoting, CohortIndex, Ballot
<1>3. ASSUME NEW v \in VotingEntry, NEW i \in CohortIndex, NEW b \in Ballot,
             NEW now \in Nat, CanVote(v, i, b, now)
      PROVE  v # NoVoting /\ Voted(v, i, b) \in VotingEntry
  <2>1. v # NoVoting
    BY <1>3, NumCohortsAssumption DEF CanVote, NoVoting, CohortIndex
  <2>2. v \in [cohorts : {NumCohorts}, vote_timeout_time : 0 .. MaxTime,
               ballots : [CohortIndex -> Ballot]]
    BY <2>1 DEF VotingEntry
  <2> QED
    BY <2>1, <2>2 DEF Voted, VotingEntry
<1> QED
  BY <1>1, <1>2, <1>3

\* A step of the chain keeps its types.
LEMMA ChainStepType ==
  ASSUME ChainTypeOK, ChainNext
  PROVE  ChainTypeOK'
PROOF
<1> USE DEF ChainTypeOK
<1>1. ASSUME NEW call \in pending_starts, MineStartVoting(call)
      PROVE  ChainTypeOK'
  BY <1>1, VotingEntries
     DEF MineStartVoting, StartCall, WithReceipt, Answered, RpcState
<1>2. ASSUME NEW call \in pending_votes, MineVote(call)
      PROVE  ChainTypeOK'
  <2>1. call \in VoteCall /\ block_time \in Nat
    BY BoundsAssumption
  <2>2. CASE CanVote(voting, call.cohort_id, call.ballot, block_time)
    <3>1. voting' \in VotingEntry
      BY <1>2, <2>1, <2>2, VotingEntries DEF MineVote, VoteCall, Ballot
    <3> QED
      BY <1>2, <2>1, <2>2, <3>1 DEF MineVote, WithReceipt, Answered, RpcState, VoteCall
  <2>3. CASE ~CanVote(voting, call.cohort_id, call.ballot, block_time)
    BY <1>2, <2>3 DEF MineVote
  <2> QED
    BY <2>2, <2>3
<1>3. ASSUME NEW call \in pending_starts, LoseStartVoting(call)
      PROVE  ChainTypeOK'
  BY <1>3 DEF LoseStartVoting
<1>4. ASSUME NEW call \in pending_votes, LoseVote(call)
      PROVE  ChainTypeOK'
  BY <1>4 DEF LoseVote
<1>5. ASSUME NEW h \in Request, StartVotingRpcFails(h)
      PROVE  ChainTypeOK'
  BY <1>5 DEF StartVotingRpcFails, RpcState
<1>6. ASSUME NEW c \in Cohort, VoteRpcFails(c)
      PROVE  ChainTypeOK'
  BY <1>6 DEF VoteRpcFails, RpcState
<1>7. CASE Tick
  BY <1>7, BoundsAssumption DEF Tick
<1> QED
  BY <1>1, <1>2, <1>3, <1>4, <1>5, <1>6, <1>7 DEF ChainNext

\* The calls that the other components send keep the types of the chain.
LEMMA SentCallsType ==
  ASSUME ChainTypeOK
  PROVE  /\ \A h \in Request, timeout \in 0 .. MaxTime :
              SendStartVoting(h, timeout) => ChainTypeOK'
         /\ \A c \in Cohort, i \in CohortIndex, b \in {"COMMIT", "ABORT"} :
              SendVote(c, i, b) => ChainTypeOK'
         /\ \A c \in Cohort : EndVoteRpc(c) => ChainTypeOK'
         /\ UNCHANGED chainVars => ChainTypeOK'
  BY DEF ChainTypeOK, SendStartVoting, SendVote, EndVoteRpc, chainVars,
         StartCall, VoteCall, RpcState

\* What getVotingDecision answers is a decision.
LEMMA DecisionType == \A v, now : getVotingDecision(v, now) \in Decision
  BY DEF getVotingDecision, Decision

\* A step of a cohort keeps its types and those of the chain.
LEMMA CohortStepType ==
  ASSUME ChainTypeOK, CohortTypeOK, CohortNext
  PROVE  ChainTypeOK' /\ CohortTypeOK'
PROOF
<1> USE DEF CohortTypeOK
<1> PICK c \in Cohort :
      \/ ProcessFails(c)
      \/ AbortAfterVote(c)
      \/ ProcessOnlyCohort(c)
      \/ PersistAndVote(c)
      \/ VoteReturns(c)
      \/ DecisionFound(c)
      \/ DecisionPending(c)
      \/ DecisionUnanswered(c)
      \/ DecisionRpcFails(c)
      \/ WakeUp(c)
      \/ CommitTransaction(c)
      \/ AbortTransaction(c)
      \/ Crash(c)
  BY DEF CohortNext
<1> cohort_index[c] \in CohortIndex
  OBVIOUS
<1>1. CASE ProcessFails(c)
  BY <1>1, SentCallsType DEF ProcessFails, Stage, DbState
<1>2. CASE AbortAfterVote(c)
  BY <1>2, SentCallsType DEF AbortAfterVote, Stage, DbState
<1>3. CASE ProcessOnlyCohort(c)
  BY <1>3, SentCallsType DEF ProcessOnlyCohort, Stage, DbState
<1>4. CASE PersistAndVote(c)
  BY <1>4, SentCallsType DEF PersistAndVote, Stage, DbState
<1>5. CASE VoteReturns(c)
  BY <1>5, SentCallsType DEF VoteReturns, Stage
<1>6. CASE DecisionFound(c)
  BY <1>6, SentCallsType, DecisionType DEF DecisionFound, Stage, CurrentDecision
<1>7. CASE DecisionPending(c)
  BY <1>7, SentCallsType DEF DecisionPending, Stage
<1>8. CASE DecisionRpcFails(c)
  BY <1>8, SentCallsType DEF DecisionRpcFails, Stage
<1>13. CASE DecisionUnanswered(c)
  BY <1>13, SentCallsType DEF DecisionUnanswered, Stage
<1>9. CASE WakeUp(c)
  BY <1>9, SentCallsType DEF WakeUp, Stage
<1>10. CASE CommitTransaction(c)
  BY <1>10, SentCallsType DEF CommitTransaction, Stage, DbState
<1>11. CASE AbortTransaction(c)
  BY <1>11, SentCallsType DEF AbortTransaction, Stage, DbState
<1>12. CASE Crash(c)
  BY <1>12, SentCallsType DEF Crash, Stage, DbState
<1> QED
  BY <1>1, <1>2, <1>3, <1>4, <1>5, <1>6, <1>7, <1>8, <1>9, <1>10, <1>11, <1>12, <1>13

\* A request that reaches a cohort keeps the types of the cohorts.
LEMMA PrepareType ==
  ASSUME CohortTypeOK, NEW c \in Cohort, NEW i \in CohortIndex,
         ReceivePrepare(c, i)
  PROVE  CohortTypeOK'
  BY DEF CohortTypeOK, ReceivePrepare, Stage, DbState

\* A step of the handler of a request keeps the types of all components.
LEMMA SubmitType ==
  ASSUME TypeOK, NEW h \in Request, Submit(h)
  PROVE  TypeOK'
PROOF
<1> USE DEF TypeOK, ClientTypeOK, CoordinatorTypeOK, HandlerStage
<1>1. CohortTypeOK' /\ ClientTypeOK'
  BY DEF Submit, CommitAtomicTransaction, cohortVars, clientVars, CohortTypeOK
<1>2. CASE AlreadySent(h)
  BY <1>1, <1>2, SentCallsType DEF AlreadySent
<1>3. CASE RejectConfig(h)
  BY <1>1, <1>3, SentCallsType DEF RejectConfig
<1>4. ASSUME NEW order \in CohortOrder, NEW timeout \in 0 .. MaxTime,
             BeginVoting(h, order, timeout)
      PROVE  TypeOK'
  BY <1>1, <1>4, SentCallsType DEF BeginVoting
<1>5. ASSUME NEW order \in CohortOrder, BeginSingleCohort(h, order)
      PROVE  TypeOK'
  BY <1>1, <1>5, SentCallsType DEF BeginSingleCohort
<1> QED
  BY <1>2, <1>3, <1>4, <1>5 DEF Submit, CommitAtomicTransaction

\* The later steps of a handler, that of SendCohortPrepareRequests among them.
LEMMA HandlerStepType ==
  ASSUME TypeOK, NEW h \in Request, HandlerStep(h),
         handler[h] = "sending" => sub_transactions[h] \in CohortOrder
  PROVE  TypeOK'
PROOF
<1> USE DEF TypeOK, ClientTypeOK, CoordinatorTypeOK, HandlerStage
<1>1. CASE (VotingStarted(h) \/ StartVotingFailed(h) \/ AllSent(h))
           /\ UNCHANGED <<cohortVars, clientVars>>
  <2>1. CohortTypeOK' /\ ClientTypeOK'
    BY <1>1 DEF cohortVars, clientVars, CohortTypeOK
  <2>2. ChainTypeOK'
    BY <1>1, SentCallsType DEF VotingStarted, StartVotingFailed, AllSent
  <2>3. CASE VotingStarted(h)
    BY <2>1, <2>2, <2>3 DEF VotingStarted
  <2>4. CASE StartVotingFailed(h)
    BY <2>1, <2>2, <2>4 DEF StartVotingFailed
  <2>5. CASE AllSent(h)
    BY <2>1, <2>2, <2>5 DEF AllSent
  <2> QED
    BY <1>1, <2>3, <2>4, <2>5
<1>2. CASE SendPrepare(h) /\ UNCHANGED clientVars
  <2> DEFINE i == cohort_counter[h]
             c == sub_transactions[h][i]
  <2>1. i \in CohortIndex /\ c \in Cohort /\ i + 1 \in 0 .. NumCohorts
    BY <1>2, NumCohortsAssumption DEF SendPrepare, CohortIndex, CohortOrder
  <2>2. CohortTypeOK'
    BY <1>2, <2>1, PrepareType DEF SendPrepare, cohortVars, CohortTypeOK
  <2>3. ChainTypeOK'
    BY <1>2, SentCallsType DEF SendPrepare
  <2>4. metadata'.cohort_namespaces = Append(metadata.cohort_namespaces, c)
        /\ metadata'.cohort_namespaces \in Seq(Cohort)
    BY <1>2, <2>1 DEF SendPrepare
  <2>5. CoordinatorTypeOK'
    BY <1>2, <2>1, <2>4 DEF SendPrepare
  <2> QED
    BY <1>2, <2>2, <2>3, <2>5 DEF clientVars
<1> QED
  BY <1>1, <1>2 DEF HandlerStep

\* The types of what GetTransactionResult works on.
MetadataType == [present : BOOLEAN, possibly_sent_to_all_cohorts : BOOLEAN,
                 single_cohort : BOOLEAN, cohort_namespaces : Seq(Cohort),
                 decision : Decision,
                 cohorts_already_responded : SUBSET Cohort]
PollTypeOK ==
  /\ metadata \in MetadataType
  /\ response \in [complete : BOOLEAN, status : Status]
  /\ poll \in [stage : {"idle", "unanswered", "collecting"}, next : Nat \ {0}, committed : Nat]

\* The entries of a new coordinator have their types.
LEMMA InitialEntries ==
  /\ NoMetadata \in MetadataType
  /\ NoResponse \in [complete : BOOLEAN, status : Status]
  /\ NoPoll \in [stage : {"idle", "unanswered", "collecting"}, next : Nat \ {0}, committed : Nat]
PROOF
<1>1. << >> \in Seq(Cohort)
  OBVIOUS
<1> QED
  BY <1>1 DEF NoMetadata, NoResponse, NoPoll, MetadataType, Status, Decision

\* CleanUpTransactionMetadata leaves entries of the right types.
LEMMA CleanUpType ==
  ASSUME NEW status \in Status, CleanUp(status)
  PROVE  PollTypeOK'
  BY InitialEntries DEF CleanUp, PollTypeOK

\* A step of GetTransactionResult keeps the types of all components.
LEMMA PollType ==
  ASSUME TypeOK, GetTransactionResult \/ PollFails \/ ReplyFinalResponse
  PROVE  TypeOK'
PROOF
<1> USE DEF TypeOK, CoordinatorTypeOK
<1> handler' = handler /\ sub_transactions' = sub_transactions
    /\ cohort_counter' = cohort_counter
  BY DEF GetTransactionResult, PollFails, ReplyFinalResponse, coordinatorVars
<1>1. CASE ReplyFinalResponse
  BY <1>1 DEF ReplyFinalResponse, TryGetTransactionResults, chainVars, cohortVars,
     coordinatorVars, clientVars, ClientTypeOK, ChainTypeOK, CohortTypeOK
<1>3. CASE PollFails
  BY <1>3, InitialEntries DEF PollFails, ReadFails, chainVars, cohortVars,
     clientVars, ClientTypeOK, ChainTypeOK, CohortTypeOK
<1>2. CASE GetTransactionResult
  <2>1. ChainTypeOK' /\ CohortTypeOK'
    BY <1>2 DEF GetTransactionResult, chainVars, cohortVars, ChainTypeOK,
       CohortTypeOK
  <2>2. PollTypeOK'
    <3> PollTypeOK
      BY DEF PollTypeOK, MetadataType
    <3> USE DEF PollTypeOK
    <3>1. CASE PollAborted
      BY <3>1, CleanUpType DEF PollAborted, Status
    <3>2. CASE FinishCollecting
      BY <3>2, InitialEntries, CleanUpType DEF FinishCollecting, Status
    <3>3. ASSUME NEW c \in Cohort, PollSingleCohort(c)
          PROVE  PollTypeOK'
      BY <3>3, CleanUpType DEF PollSingleCohort, TransactionResult, Status
    <3>4. CASE BeginCollecting
      <4>1. metadata' \in MetadataType
        BY <3>4 DEF BeginCollecting, MetadataType, Decision
      <4>2. poll' \in [stage : {"idle", "unanswered", "collecting"}, next : Nat \ {0},
                       committed : Nat]
        BY <3>4, 1 \in Nat \ {0}, 0 \in Nat DEF BeginCollecting
      <4> QED
        BY <3>4, <4>1, <4>2 DEF BeginCollecting
    <3>5. ASSUME NEW c \in Cohort, CollectFromCohort(c)
          PROVE  PollTypeOK'
      <4>1. metadata' \in MetadataType
        <5>1. metadata.cohorts_already_responded \cup {c} \in SUBSET Cohort
          BY DEF MetadataType
        <5>2. \/ metadata' = metadata
              \/ metadata' = [metadata EXCEPT !.cohorts_already_responded =
                                metadata.cohorts_already_responded \cup {c}]
          BY <3>5 DEF CollectFromCohort
        <5> QED
          BY <5>1, <5>2 DEF MetadataType
      <4>2. poll' \in [stage : {"idle", "unanswered", "collecting"}, next : Nat \ {0},
                       committed : Nat]
        <5>1. /\ poll.next + 1 \in Nat \ {0}
              /\ poll.committed + 1 \in Nat
          OBVIOUS
        <5>2. \/ poll' = [poll EXCEPT !.next = poll.next + 1]
              \/ poll' = [poll EXCEPT !.next = poll.next + 1,
                                      !.committed = poll.committed + 1]
          BY <3>5 DEF CollectFromCohort
        <5> QED
          BY <5>1, <5>2
      <4> QED
        BY <3>5, <4>1, <4>2 DEF CollectFromCohort, Status
    <3>6. CASE ReadUnanswered
      BY <3>6 DEF ReadUnanswered
    <3> QED
      BY <1>2, <3>1, <3>2, <3>3, <3>4, <3>5, <3>6 DEF GetTransactionResult
  <2>3. ClientTypeOK'
    BY <1>2, <2>2 DEF GetTransactionResult, PollTypeOK, Reply, TryGetTransactionResults,
       clientVars, ClientTypeOK
  <2> QED
    BY <2>1, <2>2, <2>3 DEF PollTypeOK, MetadataType
<1> QED
  BY <1>1, <1>2, <1>3

\* A restarted coordinator has the entries of a new one (CoordinatorCrash).
LEMMA RestartType ==
  ASSUME TypeOK, Restart
  PROVE  TypeOK'
  BY SentCallsType
  DEF TypeOK, Restart, CoordinatorCrash, CoordinatorTypeOK, ClientTypeOK,
      CohortTypeOK, HandlerStage, NoMetadata, NoResponse, NoPoll, Status,
      Decision, cohortVars, clientVars
-----------------------------------------------------------------------------
(* The requests: RequestInv.                                                *)

RequestDefs == <<handler, pending_starts, start_rpc, cohort_counter,
                 sub_transactions>>

\* RequestInv does not speak of the rest of the state.
LEMMA RequestInvFrame ==
  ASSUME RequestInv, UNCHANGED RequestDefs,
         OnlyCohort /\ voting = NoVoting => voting' = NoVoting,
         HasVoting(voting) => HasVoting(voting'),
         \/ client' # "submitting"
         \/ /\ client = "submitting"
            /\ metadata.possibly_sent_to_all_cohorts =>
                 metadata'.possibly_sent_to_all_cohorts
  PROVE  RequestInv'
  BY DEF RequestInv, RequestDefs, RequestsInOrder, StartCallsInOrder,
         SendersAreReady, OneSender, SendingIsRemembered, Finished, OnlyCohort,
         HasVoting

\* Steps of the cohorts.
LEMMA RequestInvCohort ==
  ASSUME RequestInv, CohortStep
  PROVE  RequestInv'
PROOF
<1>1. UNCHANGED <<voting, pending_starts, start_rpc>>
  BY DEF CohortStep, CohortNext, ProcessFails, AbortAfterVote, ProcessOnlyCohort,
     PersistAndVote, VoteReturns, DecisionFound, DecisionPending,
     DecisionUnanswered, DecisionRpcFails, WakeUp, CommitTransaction, AbortTransaction, Crash,
     SendVote, EndVoteRpc, chainVars
<1>2. UNCHANGED <<handler, cohort_counter, sub_transactions, metadata, client>>
  BY DEF CohortStep, coordinatorVars, clientVars
<1> QED
  BY <1>1, <1>2, RequestInvFrame DEF RequestDefs

\* A startVoting call is executed: no earlier one is left.
LEMMA RequestInvMineStart ==
  ASSUME TypeOK, RequestInv, NEW call \in pending_starts, MineStartVoting(call),
         UNCHANGED <<cohortVars, coordinatorVars, clientVars>>
  PROVE  RequestInv'
PROOF
<1> DEFINE r == call.request
<1>1. r \in Request /\ handler[r] # "none" /\ ~OnlyCohort
  BY DEF TypeOK, ChainTypeOK, StartCall, RequestInv, StartCallsInOrder
<1>2. \A h \in Request : cohort_counter[h] = 0
  <2> SUFFICES ASSUME NEW h \in Request, cohort_counter[h] # 0 PROVE FALSE
    OBVIOUS
  <2> cohort_counter[h] > 0
    BY NumCohortsAssumption DEF TypeOK, CoordinatorTypeOK
  <2> QED
    BY DEF RequestInv, OneSender
<1>3. UNCHANGED <<handler, cohort_counter, sub_transactions, metadata, client>>
  BY DEF coordinatorVars, clientVars
<1>4. \A h \in Request : start_rpc[h] = "ok" => start_rpc'[h] = "ok"
  BY <1>1 DEF MineStartVoting, WithReceipt, Answered, TypeOK, ChainTypeOK
<1>5. \A h \in Request : start_rpc'[h] = "ok" => start_rpc[h] = "ok" \/ h = r
  BY <1>1 DEF MineStartVoting, WithReceipt, Answered, TypeOK, ChainTypeOK
<1>6. \A h \in Request : start_rpc'[h] # "idle" => start_rpc[h] # "idle"
  BY <1>1 DEF MineStartVoting, WithReceipt, Answered, TypeOK, ChainTypeOK
<1>7. \A other \in pending_starts' :
        other \in pending_starts /\ other # call /\ r < other.request
  <2> TAKE other \in pending_starts'
  <2>1. other \in pending_starts /\ other # call
    BY DEF MineStartVoting
  <2>2. r <= other.request /\ other.request # r
    BY <2>1 DEF MineStartVoting, RequestInv, StartCallsInOrder
  <2> QED
    BY <1>1, <2>1, <2>2 DEF Request, TypeOK, ChainTypeOK, StartCall
<1>8. (voting' = voting /\ start_rpc' = start_rpc) \/ HasVoting(voting')
  BY NumCohortsAssumption DEF MineStartVoting, StartedVoting, HasVoting
<1>9. StartCallsInOrder'
  <2>1. \A other \in pending_starts' :
          /\ handler'[other.request] # "none"
          /\ ~OnlyCohort'
          /\ \A h \in Request : start_rpc'[h] = "ok" => h < other.request
    BY <1>1, <1>3, <1>5, <1>7 DEF RequestInv, StartCallsInOrder, OnlyCohort
  <2>2. \A other, another \in pending_starts' :
          other.request = another.request => other = another
    BY <1>7 DEF RequestInv, StartCallsInOrder
  <2>3. \A h \in Request : start_rpc'[h] # "idle" => handler'[h] # "none"
    BY <1>3, <1>6 DEF RequestInv, StartCallsInOrder
  <2>4. \A h \in Request : start_rpc'[h] = "ok" => HasVoting(voting')
    BY <1>8 DEF RequestInv, StartCallsInOrder
  <2> QED
    BY <1>1, <2>1, <2>2, <2>3, <2>4 DEF StartCallsInOrder, OnlyCohort, HasVoting
<1>10. SendersAreReady'
  BY <1>3, <1>4 DEF RequestInv, SendersAreReady, OnlyCohort
<1>11. RequestsInOrder' /\ OneSender' /\ SendingIsRemembered'
  BY <1>2, <1>3 DEF RequestInv, RequestsInOrder, OneSender, SendingIsRemembered,
     Finished
<1> QED
  BY <1>9, <1>10, <1>11 DEF RequestInv

\* The other steps of the chain.
LEMMA RequestInvChain ==
  ASSUME TypeOK, RequestInv, ChainStep
  PROVE  RequestInv'
PROOF
<1>1. UNCHANGED <<cohortVars, coordinatorVars, clientVars>>
  BY DEF ChainStep
<1>2. UNCHANGED <<handler, cohort_counter, sub_transactions, metadata, client>>
  BY <1>1 DEF coordinatorVars, clientVars
<1>3. ASSUME NEW call \in pending_starts, MineStartVoting(call)
      PROVE  RequestInv'
  BY <1>1, <1>3, RequestInvMineStart
<1>4. ASSUME NEW call \in pending_starts, LoseStartVoting(call)
      PROVE  RequestInv'
  <2>1. /\ pending_starts' \subseteq pending_starts
        /\ UNCHANGED <<voting, start_rpc>>
    BY <1>4 DEF LoseStartVoting
  <2> QED
    BY <1>2, <2>1 DEF RequestInv, RequestsInOrder, StartCallsInOrder,
       SendersAreReady, OneSender, SendingIsRemembered, Finished, OnlyCohort,
       HasVoting
<1>5. ASSUME NEW call \in pending_votes, MineVote(call)
      PROVE  RequestInv'
  <2>1. /\ UNCHANGED <<pending_starts, start_rpc>>
        /\ voting' = voting \/ voting' = Voted(voting, call.cohort_id, call.ballot)
        /\ voting' # voting => CanVote(voting, call.cohort_id, call.ballot, block_time)
    BY <1>5 DEF MineVote
  <2>2. call.cohort_id \in Nat /\ voting.cohorts \in Nat
    BY NumCohortsAssumption DEF TypeOK, ChainTypeOK, VoteCall, CohortIndex,
       VotingEntry, NoVoting
  <2>3. voting' # voting => voting # NoVoting
    BY <2>1, <2>2 DEF CanVote, NoVoting
  <2>4. voting'.cohorts = voting.cohorts
    BY <2>1 DEF Voted, TypeOK, ChainTypeOK, VotingEntry, NoVoting
  <2> QED
    BY <1>2, <2>1, <2>3, <2>4, RequestInvFrame DEF RequestDefs, HasVoting
<1>6. ASSUME NEW call \in pending_votes, LoseVote(call)
      PROVE  RequestInv'
  BY <1>2, <1>6, RequestInvFrame DEF LoseVote, RequestDefs
<1>7. ASSUME NEW h \in Request, StartVotingRpcFails(h)
      PROVE  RequestInv'
  <2>1. /\ UNCHANGED <<voting, pending_starts>>
        /\ \A g \in Request : /\ start_rpc'[g] = "ok" <=> start_rpc[g] = "ok"
                              /\ start_rpc'[g] # "idle" <=> start_rpc[g] # "idle"
    BY <1>7 DEF StartVotingRpcFails, TypeOK, ChainTypeOK
  <2> QED
    BY <1>2, <2>1 DEF RequestInv, RequestsInOrder, StartCallsInOrder,
       SendersAreReady, OneSender, SendingIsRemembered, Finished, OnlyCohort,
       HasVoting
<1>8. ASSUME NEW c \in Cohort, VoteRpcFails(c)
      PROVE  RequestInv'
  BY <1>2, <1>8, RequestInvFrame DEF VoteRpcFails, RequestDefs
<1>9. CASE Tick
  BY <1>2, <1>9, RequestInvFrame DEF Tick, RequestDefs
<1> QED
  BY <1>3, <1>4, <1>5, <1>6, <1>7, <1>8, <1>9 DEF ChainStep, ChainNext

\* When a request is made, no cohort was asked to prepare yet, or the request is
\* answered at once: possibly_sent_to_all_cohorts (SendingIsRemembered).
LEMMA NothingSentBeforeSubmit ==
  ASSUME TypeOK, RequestInv, NEW h \in Request, Submit(h), handler[h] = "none",
         ~metadata.possibly_sent_to_all_cohorts
  PROVE  \A g \in Request : cohort_counter[g] = 0
PROOF
<1> SUFFICES ASSUME NEW g \in Request, cohort_counter[g] # 0 PROVE FALSE
  OBVIOUS
<1>1. cohort_counter[g] > 0
  BY NumCohortsAssumption DEF TypeOK, CoordinatorTypeOK
<1>2. client = "submitting" /\ \A k \in 1 .. h - 1 : Finished(k)
  BY DEF Submit
<1>3. handler[g] # "none" /\ g # h
  BY <1>1 DEF RequestInv, SendersAreReady
<1>4. g \in 1 .. h - 1
  <2>1. h < g \/ g < h
    BY <1>3 DEF Request
  <2>2. ~(h < g)
    BY <1>3 DEF RequestInv, RequestsInOrder, Finished
  <2> QED
    BY <2>1, <2>2 DEF Request
<1>5. handler[g] = "ok"
  BY <1>1, <1>2, <1>4 DEF Finished, RequestInv, SendingIsRemembered
<1> QED
  BY <1>1, <1>2, <1>5 DEF RequestInv, SendingIsRemembered

\* A request is made: CommitAtomicTransaction up to its first wait.
LEMMA RequestInvSubmit ==
  ASSUME TypeOK, RequestInv, NEW h \in Request, Submit(h)
  PROVE  RequestInv'
PROOF
<1>1. client = "submitting" /\ client' = client
  BY DEF Submit, CommitAtomicTransaction, clientVars
<1>2. handler[h] = "none"
  BY DEF Submit, CommitAtomicTransaction, AlreadySent, RejectConfig, BeginVoting,
     BeginSingleCohort
<1>3. \A g \in Request : g < h => Finished(g)
  BY DEF Submit, Request
<1>4. \A g \in Request : h < g => handler[g] = "none"
  BY <1>2 DEF RequestInv, RequestsInOrder, Finished
<1>5. start_rpc[h] = "idle" /\ cohort_counter[h] = 0
  BY <1>2 DEF RequestInv, StartCallsInOrder, SendersAreReady
<1>6. \A g \in Request : g # h => handler'[g] = handler[g]
  BY DEF Submit, CommitAtomicTransaction, AlreadySent, RejectConfig, BeginVoting,
     BeginSingleCohort, TypeOK, CoordinatorTypeOK
<1>7. handler'[h] # "none" /\ cohort_counter' = cohort_counter /\ voting' = voting
  BY DEF Submit, CommitAtomicTransaction, AlreadySent, RejectConfig, BeginVoting,
     BeginSingleCohort, TypeOK, CoordinatorTypeOK, SendStartVoting, chainVars
<1>8. RequestsInOrder'
  <2> SUFFICES ASSUME NEW g \in Request, NEW k \in Request, g < k,
                      handler'[k] # "none"
               PROVE  Finished(g)'
    BY DEF RequestsInOrder
  <2>1. g # h
    BY <1>4, <1>6 DEF Request
  <2>2. Finished(g)
    BY <1>3, <1>6 DEF RequestInv, RequestsInOrder
  <2> QED
    BY <1>6, <2>1, <2>2 DEF Finished
<1>9. CASE AlreadySent(h) \/ RejectConfig(h)
  <2>1. /\ UNCHANGED <<voting, pending_starts, start_rpc, sub_transactions>>
        /\ handler'[h] \in {"ok", "failed"}
        /\ metadata'.possibly_sent_to_all_cohorts =
             metadata.possibly_sent_to_all_cohorts
    BY <1>9 DEF AlreadySent, RejectConfig, chainVars, TypeOK, CoordinatorTypeOK
  <2>2. StartCallsInOrder'
    BY <1>6, <1>7, <2>1 DEF RequestInv, StartCallsInOrder, OnlyCohort, HasVoting,
       TypeOK, ChainTypeOK, StartCall
  <2>3. SendersAreReady'
    BY <1>5, <1>6, <1>7, <2>1 DEF RequestInv, SendersAreReady, OnlyCohort
  <2>4. OneSender'
    BY <1>6, <1>7, <2>1 DEF RequestInv, OneSender
  <2>5. SendingIsRemembered'
    BY <1>1, <1>5, <1>6, <1>7, <2>1 DEF RequestInv, SendingIsRemembered
  <2> QED
    BY <1>8, <2>2, <2>3, <2>4, <2>5 DEF RequestInv
<1>10. ASSUME ~metadata.possibly_sent_to_all_cohorts
       PROVE  OneSender' /\ SendingIsRemembered'
  BY <1>2, <1>7, <1>10, NothingSentBeforeSubmit DEF OneSender, SendingIsRemembered
<1>11. ASSUME NEW order \in CohortOrder, NEW timeout \in 0 .. MaxTime,
              BeginVoting(h, order, timeout)
       PROVE  RequestInv'
  <2>1. /\ ~OnlyCohort
        /\ ~metadata.possibly_sent_to_all_cohorts
        /\ handler'[h] = "voting"
        /\ sub_transactions' = [sub_transactions EXCEPT ![h] = order]
        /\ pending_starts' = pending_starts \cup
                               {[request |-> h, timeout |-> timeout]}
        /\ start_rpc' = [start_rpc EXCEPT ![h] = "sent"]
    BY <1>11 DEF BeginVoting, SendStartVoting, TypeOK, CoordinatorTypeOK
  <2>2. \A g \in Request : start_rpc'[g] = "ok" => start_rpc[g] = "ok" /\ g # h
    BY <2>1 DEF TypeOK, ChainTypeOK
  <2>3. \A g \in Request : start_rpc[g] = "ok" => g < h
    <3> SUFFICES ASSUME NEW g \in Request, start_rpc[g] = "ok" PROVE g < h
      OBVIOUS
    <3>1. handler[g] # "none" /\ g # h
      BY <1>5 DEF RequestInv, StartCallsInOrder
    <3> QED
      BY <1>4, <3>1 DEF Request
  <2>4. \A call \in pending_starts : call.request # h
    BY <1>2 DEF RequestInv, StartCallsInOrder
  <2>5. StartCallsInOrder'
    <3>1. \A call \in pending_starts' :
            /\ handler'[call.request] # "none"
            /\ ~OnlyCohort'
            /\ \A g \in Request : start_rpc'[g] = "ok" => g < call.request
      <4> TAKE call \in pending_starts'
      <4>1. CASE call \in pending_starts
        <5>1. call.request \in Request
          BY <4>1 DEF TypeOK, ChainTypeOK, StartCall
        <5> QED
          BY <1>6, <2>1, <2>2, <2>4, <4>1, <5>1
             DEF RequestInv, StartCallsInOrder, OnlyCohort
      <4>2. CASE call = [request |-> h, timeout |-> timeout]
        BY <2>1, <2>2, <2>3, <4>2 DEF OnlyCohort
      <4> QED
        BY <2>1, <4>1, <4>2
    <3>2. \A call, other \in pending_starts' :
            call.request = other.request => call = other
      BY <2>1, <2>4 DEF RequestInv, StartCallsInOrder
    <3>3. \A g \in Request : start_rpc'[g] # "idle" => handler'[g] # "none"
      BY <1>6, <1>7, <2>1 DEF RequestInv, StartCallsInOrder, TypeOK, ChainTypeOK
    <3> QED
      BY <1>7, <2>1, <2>2, <3>1, <3>2, <3>3
         DEF RequestInv, StartCallsInOrder, OnlyCohort, HasVoting
  <2>6. SendersAreReady'
    BY <1>2, <1>5, <1>6, <1>7, <2>1 DEF RequestInv, SendersAreReady, TypeOK,
       CoordinatorTypeOK, ChainTypeOK, OnlyCohort
  <2> QED
    BY <1>8, <1>10, <2>1, <2>5, <2>6 DEF RequestInv
<1>12. ASSUME NEW order \in CohortOrder, BeginSingleCohort(h, order)
       PROVE  RequestInv'
  <2>1. /\ OnlyCohort
        /\ ~metadata.possibly_sent_to_all_cohorts
        /\ handler'[h] = "sending"
        /\ sub_transactions' = [sub_transactions EXCEPT ![h] = order]
        /\ UNCHANGED <<pending_starts, start_rpc>>
    BY <1>12 DEF BeginSingleCohort, TypeOK, CoordinatorTypeOK, chainVars
  <2>2. StartCallsInOrder'
    BY <1>6, <1>7, <2>1 DEF RequestInv, StartCallsInOrder, OnlyCohort, HasVoting
  <2>3. SendersAreReady'
    BY <1>2, <1>5, <1>6, <1>7, <2>1 DEF RequestInv, SendersAreReady, TypeOK,
       CoordinatorTypeOK, OnlyCohort
  <2> QED
    BY <1>8, <1>10, <2>1, <2>2, <2>3 DEF RequestInv
<1> QED
  BY <1>9, <1>11, <1>12 DEF Submit, CommitAtomicTransaction

\* The later steps of a handler.  The first PrepareTransaction is sent when no
\* startVoting is on its way and no other handler is at work.
LEMMA RequestInvHandler ==
  ASSUME TypeOK, RequestInv, NEW h \in Request, HandlerStep(h)
  PROVE  RequestInv'
PROOF
<1>1. handler[h] \in {"voting", "sending"} /\ client' = client
  BY DEF HandlerStep, VotingStarted, StartVotingFailed, AllSent, SendPrepare,
     clientVars
<1>2. \A g \in Request : g < h => Finished(g)
  BY <1>1 DEF RequestInv, RequestsInOrder
<1>3. \A g \in Request : h < g => handler[g] = "none"
  BY <1>1 DEF RequestInv, RequestsInOrder, Finished
<1>4. \A g \in Request \ {h} : /\ handler[g] \notin {"voting", "sending"}
                               /\ cohort_counter[g] = 0
  <2> TAKE g \in Request \ {h}
  <2>1. handler[g] \notin {"voting", "sending"}
    BY <1>2, <1>3 DEF Request, Finished
  <2>2. ~(cohort_counter[g] > 0)
    BY <1>1 DEF RequestInv, OneSender
  <2> QED
    BY <2>1, <2>2, NumCohortsAssumption DEF TypeOK, CoordinatorTypeOK
<1>5. UNCHANGED <<voting, pending_starts, start_rpc, sub_transactions>>
  BY DEF HandlerStep, VotingStarted, StartVotingFailed, AllSent, SendPrepare,
     chainVars
<1>6. \A g \in Request : g # h => handler'[g] = handler[g]
  BY DEF HandlerStep, VotingStarted, StartVotingFailed, AllSent, SendPrepare,
     TypeOK, CoordinatorTypeOK
<1>7. handler'[h] # "none"
  BY <1>1 DEF HandlerStep, VotingStarted, StartVotingFailed, AllSent, SendPrepare,
     TypeOK, CoordinatorTypeOK
<1>8. RequestsInOrder'
  BY <1>2, <1>3, <1>6 DEF RequestInv, RequestsInOrder, Finished
<1>9. StartCallsInOrder'
  BY <1>5, <1>6, <1>7 DEF RequestInv, StartCallsInOrder, OnlyCohort, HasVoting,
     TypeOK, ChainTypeOK, StartCall
<1>10. CASE VotingStarted(h) \/ StartVotingFailed(h) \/ AllSent(h)
  <2>1. /\ UNCHANGED cohort_counter
        /\ metadata'.possibly_sent_to_all_cohorts =
             metadata.possibly_sent_to_all_cohorts
    BY <1>10 DEF VotingStarted, StartVotingFailed, AllSent, TypeOK,
       CoordinatorTypeOK
  <2>2. /\ handler'[h] = "sending" => handler[h] = "voting" /\ start_rpc[h] = "ok"
        /\ handler'[h] # "voting"
        /\ handler'[h] = "ok" => cohort_counter[h] = NumCohorts
        /\ handler'[h] = "failed" => cohort_counter[h] = 0
        /\ handler'[h] \in {"sending", "ok", "failed"}
    BY <1>10 DEF VotingStarted, StartVotingFailed, AllSent, TypeOK,
       CoordinatorTypeOK, RequestInv, SendersAreReady
  <2>3. SendersAreReady'
    BY <1>1, <1>5, <1>6, <1>7, <2>1, <2>2
       DEF RequestInv, SendersAreReady, OnlyCohort
  <2>4. OneSender'
    BY <1>5, <1>6, <1>4, <2>1, <2>2 DEF RequestInv, OneSender
  <2>5. SendingIsRemembered'
    BY <1>1, <1>4, <1>6, <2>1, <2>2, NumCohortsAssumption
       DEF RequestInv, SendingIsRemembered
  <2> QED
    BY <1>8, <1>9, <2>3, <2>4, <2>5 DEF RequestInv
<1>11. CASE SendPrepare(h)
  <2>1. /\ handler[h] = "sending" /\ handler' = handler
        /\ cohort_counter' = [cohort_counter EXCEPT ![h] = cohort_counter[h] + 1]
        /\ cohort_counter[h] < NumCohorts
        /\ cohort_counter[h] = NumCohorts - 1 =>
             metadata'.possibly_sent_to_all_cohorts
    BY <1>11 DEF SendPrepare, TypeOK, CoordinatorTypeOK
  <2>2. /\ cohort_counter[h] \in Nat
        /\ cohort_counter'[h] = cohort_counter[h] + 1
        /\ cohort_counter'[h] = NumCohorts =>
             metadata'.possibly_sent_to_all_cohorts
        /\ \A g \in Request \ {h} : cohort_counter'[g] = 0
    <3>1. cohort_counter[h] \in Nat /\ cohort_counter \in [Request -> 0 .. NumCohorts]
      BY NumCohortsAssumption DEF TypeOK, CoordinatorTypeOK
    <3>2. cohort_counter'[h] = cohort_counter[h] + 1
      BY <2>1, <3>1
    <3>3. cohort_counter'[h] = NumCohorts => cohort_counter[h] = NumCohorts - 1
      BY <3>1, <3>2, NumCohortsAssumption
    <3>4. \A g \in Request \ {h} : cohort_counter'[g] = 0
      BY <1>4, <2>1, <3>1
    <3> QED
      BY <2>1, <3>1, <3>2, <3>3, <3>4
  <2>3. pending_starts = {}
    <3> SUFFICES ASSUME NEW call \in pending_starts PROVE FALSE
      OBVIOUS
    <3>1. call.request \in Request /\ handler[call.request] # "none"
      BY DEF RequestInv, StartCallsInOrder, TypeOK, ChainTypeOK, StartCall
    <3>2. h < call.request
      BY <2>1 DEF RequestInv, StartCallsInOrder, SendersAreReady
    <3> QED
      BY <1>3, <3>1, <3>2
  <2>4. SendersAreReady'
    BY <1>1, <1>5, <2>1, <2>2 DEF RequestInv, SendersAreReady, OnlyCohort
  <2>5. OneSender'
    BY <1>4, <1>5, <2>1, <2>2, <2>3 DEF OneSender
  <2>6. SendingIsRemembered'
    BY <1>1, <2>1, <2>2 DEF RequestInv, SendingIsRemembered
  <2> QED
    BY <1>8, <1>9, <2>4, <2>5, <2>6 DEF RequestInv
<1> QED
  BY <1>10, <1>11 DEF HandlerStep

\* A crash of the coordinator ends the requests of the client.
LEMMA RequestInvRestart ==
  ASSUME TypeOK, RequestInv, Restart
  PROVE  RequestInv'
PROOF
<1>1. /\ UNCHANGED <<voting, pending_starts, start_rpc, sub_transactions,
                     cohort_counter>>
      /\ client' # "submitting"
  BY DEF Restart, CoordinatorCrash, chainVars, clientVars
<1>2. \A h \in Request :
        /\ handler'[h] \notin {"voting", "sending"}
        /\ handler'[h] = "none" <=> handler[h] = "none"
        /\ Finished(h) => Finished(h)'
  BY DEF Restart, CoordinatorCrash, Finished, TypeOK, CoordinatorTypeOK
<1> QED
  BY <1>1, <1>2 DEF RequestInv, RequestsInOrder, StartCallsInOrder,
     SendersAreReady, OneSender, SendingIsRemembered, OnlyCohort, HasVoting,
     TypeOK, ChainTypeOK, StartCall

\* The client's steps and GetTransactionResult.
LEMMA RequestInvClient ==
  ASSUME RequestInv,
         ReceiveResponse \/ ReplyFinalResponse \/ GetTransactionResult \/ PollFails
  PROVE  RequestInv'
PROOF
<1>1. UNCHANGED RequestDefs /\ UNCHANGED voting
  BY DEF ReceiveResponse, ReplyFinalResponse, GetTransactionResult, PollFails,
     RequestDefs, chainVars, coordinatorVars
<1>2. client' # "submitting"
  BY DEF ReceiveResponse, ReplyFinalResponse, GetTransactionResult, PollFails, Reply,
     TryGetTransactionResults, clientVars
<1> QED
  BY <1>1, <1>2, RequestInvFrame
-----------------------------------------------------------------------------
(* TypeOK and RequestInv are inductive together: the type of the cohort a   *)
(* handler sends to rests on SendersAreReady.                               *)

TypeAndRequestInv == TypeOK /\ RequestInv

\* Types and RequestInv, which need each other, hold at the start ...
LEMMA TypeAndRequestInit == Init => TypeAndRequestInv
PROOF
<1> SUFFICES ASSUME Init PROVE TypeAndRequestInv
  OBVIOUS
<1> USE DEF Init, ChainInit, CohortInit, CoordinatorInit
<1>1. ChainTypeOK
  BY BoundsAssumption, VotingEntries DEF ChainTypeOK, RpcState
<1>2. CohortTypeOK
  BY NumCohortsAssumption DEF CohortTypeOK, Stage, DbState, Decision, CohortIndex
<1>3. CoordinatorTypeOK
  BY NumCohortsAssumption, InitialEntries
     DEF CoordinatorTypeOK, HandlerStage, MetadataType
<1>4. ClientTypeOK
  BY DEF ClientTypeOK
<1>5. RequestInv
  BY NumCohortsAssumption DEF RequestInv, RequestsInOrder, StartCallsInOrder,
     SendersAreReady, OneSender, SendingIsRemembered
<1> QED
  BY <1>1, <1>2, <1>3, <1>4, <1>5 DEF TypeAndRequestInv, TypeOK

\* ... and every step keeps them.
LEMMA TypeAndRequestNext ==
  TypeAndRequestInv /\ [Next]_vars => TypeAndRequestInv'
PROOF
<1> SUFFICES ASSUME TypeAndRequestInv, [Next]_vars PROVE TypeAndRequestInv'
  OBVIOUS
<1> USE DEF TypeAndRequestInv
<1>1. CASE ChainStep
  <2>1. TypeOK'
    BY <1>1, ChainStepType DEF ChainStep, TypeOK, cohortVars, coordinatorVars,
       clientVars, CohortTypeOK, CoordinatorTypeOK, ClientTypeOK
  <2> QED
    BY <1>1, <2>1, RequestInvChain
<1>2. CASE CohortStep
  <2>1. TypeOK'
    BY <1>2, CohortStepType DEF CohortStep, TypeOK, coordinatorVars, clientVars,
       CoordinatorTypeOK, ClientTypeOK
  <2> QED
    BY <1>2, <2>1, RequestInvCohort
<1>3. ASSUME NEW h \in Request, Submit(h)
      PROVE  TypeAndRequestInv'
  BY <1>3, SubmitType, RequestInvSubmit
<1>4. ASSUME NEW h \in Request, HandlerStep(h)
      PROVE  TypeAndRequestInv'
  <2>1. handler[h] = "sending" => sub_transactions[h] \in CohortOrder
    BY DEF RequestInv, SendersAreReady
  <2> QED
    BY <1>4, <2>1, HandlerStepType, RequestInvHandler
<1>5. CASE ReceiveResponse
  <2>1. TypeOK'
    BY <1>5 DEF ReceiveResponse, TypeOK, chainVars, cohortVars, coordinatorVars,
       ChainTypeOK, CohortTypeOK, CoordinatorTypeOK, ClientTypeOK
  <2> QED
    BY <1>5, <2>1, RequestInvClient
<1>6. CASE ReplyFinalResponse \/ GetTransactionResult \/ PollFails
  BY <1>6, PollType, RequestInvClient
<1>7. CASE Restart
  BY <1>7, RestartType, RequestInvRestart
<1>8. CASE UNCHANGED vars
  BY <1>8 DEF vars, chainVars, cohortVars, coordinatorVars, clientVars, TypeOK,
     ChainTypeOK, CohortTypeOK, CoordinatorTypeOK, ClientTypeOK, RequestInv,
     RequestsInOrder, StartCallsInOrder, SendersAreReady, OneSender,
     SendingIsRemembered, Finished, OnlyCohort, HasVoting
<1> QED
  BY <1>1, <1>2, <1>3, <1>4, <1>5, <1>6, <1>7, <1>8 DEF Next

\* Every variable has its type in every reachable state: in particular every
\* handler that sends has split its transaction, and every ballot, index and
\* decision is one that the contract and the servers can hold.
THEOREM TypeCorrect == Spec => []TypeOK
PROOF
<1>1. Spec => []TypeAndRequestInv
  BY TypeAndRequestInit, TypeAndRequestNext, PTL DEF Spec
<1>2. TypeAndRequestInv => TypeOK
  BY DEF TypeAndRequestInv
<1> QED
  BY <1>1, <1>2, PTL

\* However often the client retries, one request at most sends PrepareTransaction,
\* and once it has sent the first no startVoting call that could reset the ballots
\* is on its way (CommitAtomicTransaction, possibly_sent_to_all_cohorts).
THEOREM OneRequestSends == Spec => []RequestInv
PROOF
<1>1. Spec => []TypeAndRequestInv
  BY TypeAndRequestInit, TypeAndRequestNext, PTL DEF Spec
<1>2. TypeAndRequestInv => RequestInv
  BY DEF TypeAndRequestInv
<1> QED
  BY <1>1, <1>2, PTL
-----------------------------------------------------------------------------
(* The votes: VoteInv.                                                      *)

\* All that requests list, one request lists: an index stands for one cohort
\* and a cohort has one index (SplitClientTransaction, SendCohortPrepareRequests).
LEMMA ListedOnce ==
  ASSUME TypeOK, RequestInv, NEW c \in Cohort, NEW i \in CohortIndex, Listed(c, i),
         NEW d \in Cohort, NEW j \in CohortIndex, Listed(d, j)
  PROVE  c = d <=> i = j
PROOF
<1>1. PICK h \in Request : cohort_counter[h] > i /\ sub_transactions[h][i] = c
  BY DEF Listed
<1>2. PICK g \in Request : cohort_counter[g] > j /\ sub_transactions[g][j] = d
  BY DEF Listed
<1>3. cohort_counter[h] > 0 /\ cohort_counter[g] > 0
  BY <1>1, <1>2, NumCohortsAssumption DEF CohortIndex, TypeOK, CoordinatorTypeOK
<1>4. g = h
  BY <1>3 DEF RequestInv, OneSender
<1>5. sub_transactions[h] \in CohortOrder
  BY <1>3 DEF RequestInv, SendersAreReady
<1> QED
  BY <1>1, <1>2, <1>4, <1>5 DEF CohortOrder

\* Two cohorts that were asked to prepare have different indices.
LEMMA IndexIsOwn ==
  ASSUME TypeOK, RequestInv, PreparedAreListed,
         NEW c \in Cohort, stage[c] # "none", NEW d \in Cohort, stage[d] # "none",
         cohort_index[c] = cohort_index[d]
  PROVE  c = d
  BY ListedOnce DEF PreparedAreListed, TypeOK, CohortTypeOK

\* No cohort has been asked to prepare while a startVoting call is not mined.
LEMMA NothingPreparedYet ==
  ASSUME TypeOK, RequestInv, PreparedAreListed, pending_starts # {}
  PROVE  \A c \in Cohort : stage[c] = "none"
PROOF
<1> SUFFICES ASSUME NEW c \in Cohort, stage[c] # "none" PROVE FALSE
  OBVIOUS
<1>1. PICK h \in Request : cohort_counter[h] > cohort_index[c]
  BY DEF PreparedAreListed, Listed
<1>2. cohort_counter[h] > 0
  BY <1>1, NumCohortsAssumption
     DEF TypeOK, CohortTypeOK, CoordinatorTypeOK, CohortIndex
<1> QED
  BY <1>2 DEF RequestInv, OneSender

VoteVars == <<stage, db, persisted, cohort_index, voting, pending_votes>>

\* VoteInv does not speak of the rest of the state, and what is listed stays so.
LEMMA VoteInvFrame ==
  ASSUME TypeOK, VoteInv, UNCHANGED VoteVars,
         \A c \in Cohort, i \in CohortIndex : Listed(c, i) => Listed(c, i)'
  PROVE  VoteInv'
  BY DEF VoteInv, VoteVars, PreparedAreListed, NotVotedYet, VotesAreGenuine,
     BallotsAreGenuine, Ballots, TypeOK, CohortTypeOK

\* Steps of a cohort that cast no vote.
LEMMA VoteInvQuiet ==
  ASSUME TypeOK, VoteInv, NEW c \in Cohort,
         stage[c] # "none", stage'[c] \notin {"none", "queued", "aborting"},
         \A d \in Cohort \ {c} : stage'[d] = stage[d] /\ db'[d] = db[d],
         UNCHANGED <<persisted, cohort_index, voting, pending_votes,
                     cohort_counter, sub_transactions>>
  PROVE  VoteInv'
PROOF
<1>1. PreparedAreListed'
  BY DEF VoteInv, PreparedAreListed, Listed
<1>2. NotVotedYet'
  BY DEF VoteInv, NotVotedYet
<1>3. VotesAreGenuine'
  BY DEF VoteInv, VotesAreGenuine, Ballots, TypeOK, ChainTypeOK, VoteCall
<1>4. BallotsAreGenuine'
  BY DEF VoteInv, BallotsAreGenuine, Ballots
<1> QED
  BY <1>1, <1>2, <1>3, <1>4 DEF VoteInv

\* A cohort casts its vote: its ballot is not on the blockchain, for it has the
\* index alone.
LEMMA VoteInvCast ==
  ASSUME TypeOK, RequestInv, VoteInv, NEW c \in Cohort, NEW b \in {"COMMIT", "ABORT"},
         stage[c] = "queued", stage'[c] \notin {"none", "queued"},
         stage'[c] = "aborting" => b = "ABORT",
         persisted'[c] <=> b = "COMMIT",
         SendVote(c, cohort_index[c], b),
         \A d \in Cohort \ {c} : /\ stage'[d] = stage[d]
                                 /\ db'[d] = db[d]
                                 /\ persisted'[d] = persisted[d],
         UNCHANGED <<cohort_index, cohort_counter, sub_transactions>>
  PROVE  VoteInv'
PROOF
<1> DEFINE new == [cohort |-> c, cohort_id |-> cohort_index[c], ballot |-> b]
<1>1. pending_votes' = pending_votes \cup {new} /\ voting' = voting
  BY DEF SendVote
<1>2. cohort_index[c] \in CohortIndex
  BY DEF TypeOK, CohortTypeOK
<1>3. \A call \in pending_votes : call.cohort \in Cohort /\ call.cohort # c
  BY DEF VoteInv, NotVotedYet, TypeOK, ChainTypeOK, VoteCall
<1>4. Ballots(cohort_index[c]) = "UNKNOWN"
  <2> SUFFICES ASSUME Ballots(cohort_index[c]) # "UNKNOWN" PROVE FALSE
    OBVIOUS
  <2>1. PICK d \in Cohort : /\ stage[d] \notin {"none", "queued"}
                            /\ cohort_index[d] = cohort_index[c]
    BY <1>2 DEF VoteInv, BallotsAreGenuine
  <2> QED
    BY <2>1, IndexIsOwn DEF VoteInv
<1>5. PreparedAreListed'
  BY DEF VoteInv, PreparedAreListed, Listed
<1>6. NotVotedYet'
  <2>1. \A d \in Cohort \ {c} : \A call \in pending_votes' :
          call.cohort = d => call \in pending_votes
    BY <1>1
  <2> QED
    BY <2>1 DEF VoteInv, NotVotedYet
<1>7. VotesAreGenuine'
  <2>1. \A call \in pending_votes' :
          /\ stage'[call.cohort] # "none"
          /\ call.cohort_id = cohort_index'[call.cohort]
          /\ persisted'[call.cohort] <=> call.ballot = "COMMIT"
          /\ Ballots(call.cohort_id)' = "UNKNOWN"
    BY <1>1, <1>3, <1>4 DEF VoteInv, VotesAreGenuine, Ballots
  <2>2. \A call, other \in pending_votes' :
          call.cohort = other.cohort => call = other
    BY <1>1, <1>3 DEF VoteInv, VotesAreGenuine
  <2> QED
    BY <2>1, <2>2 DEF VotesAreGenuine
<1>8. BallotsAreGenuine'
  BY <1>1 DEF VoteInv, BallotsAreGenuine, Ballots
<1> QED
  BY <1>5, <1>6, <1>7, <1>8 DEF VoteInv

\* Steps of the cohorts.
LEMMA VoteInvCohort ==
  ASSUME TypeOK, RequestInv, VoteInv, CohortStep
  PROVE  VoteInv'
PROOF
<1> PICK c \in Cohort :
      \/ ProcessFails(c) \/ PersistAndVote(c)
      \/ AbortAfterVote(c) \/ ProcessOnlyCohort(c) \/ VoteReturns(c)
      \/ DecisionFound(c) \/ DecisionPending(c) \/ DecisionUnanswered(c) \/ DecisionRpcFails(c)
      \/ WakeUp(c) \/ CommitTransaction(c) \/ AbortTransaction(c) \/ Crash(c)
  BY DEF CohortStep, CohortNext
<1>1. UNCHANGED <<cohort_counter, sub_transactions>>
  BY DEF CohortStep, coordinatorVars
<1> USE DEF TypeOK, CohortTypeOK
<1>2. CASE ProcessFails(c)
  BY <1>1, <1>2, VoteInvCast DEF ProcessFails, VoteInv, NotVotedYet
<1>3. CASE PersistAndVote(c)
  BY <1>1, <1>3, VoteInvCast DEF PersistAndVote
<1>4. CASE \/ AbortAfterVote(c) \/ ProcessOnlyCohort(c) \/ VoteReturns(c)
           \/ DecisionFound(c) \/ DecisionPending(c) \/ DecisionUnanswered(c) \/ DecisionRpcFails(c)
           \/ WakeUp(c) \/ CommitTransaction(c) \/ AbortTransaction(c) \/ Crash(c)
  <2>1. /\ stage[c] # "none" /\ stage'[c] \notin {"none", "queued", "aborting"}
        /\ \A d \in Cohort \ {c} : stage'[d] = stage[d]
    BY <1>4 DEF AbortAfterVote, ProcessOnlyCohort, VoteReturns, DecisionFound,
       DecisionPending, DecisionUnanswered, DecisionRpcFails, WakeUp, CommitTransaction,
       AbortTransaction, Crash
  <2>2. /\ \A d \in Cohort \ {c} : db'[d] = db[d]
        /\ UNCHANGED <<persisted, cohort_index, voting, pending_votes>>
    BY <1>4 DEF AbortAfterVote, ProcessOnlyCohort, VoteReturns, DecisionFound,
       DecisionPending, DecisionUnanswered, DecisionRpcFails, WakeUp, CommitTransaction,
       AbortTransaction, Crash, EndVoteRpc, chainVars
  <2> QED
    BY <1>1, <2>1, <2>2, VoteInvQuiet
<1> QED
  BY <1>2, <1>3, <1>4

\* What a vote that is executed does to the entry (vote): the ballot of the
\* cohort, which had none, and no other one.
LEMMA MinedVote ==
  ASSUME TypeOK, NEW call \in pending_votes,
         CanVote(voting, call.cohort_id, call.ballot, block_time),
         voting' = Voted(voting, call.cohort_id, call.ballot)
  PROVE  /\ voting \in [cohorts : {NumCohorts}, vote_timeout_time : 0 .. MaxTime,
                        ballots : [CohortIndex -> Ballot]]
         /\ call.cohort_id \in CohortIndex
         /\ voting' = [voting EXCEPT !.ballots =
                         [voting.ballots EXCEPT ![call.cohort_id] = call.ballot]]
         /\ \A i \in CohortIndex :
              Ballots(i)' = IF i = call.cohort_id THEN call.ballot ELSE Ballots(i)
PROOF
<1>1. call \in VoteCall
  BY DEF TypeOK, ChainTypeOK
<1>2. call.cohort_id \in CohortIndex
  BY <1>1 DEF VoteCall
<1>3. voting # NoVoting
  BY <1>2, NumCohortsAssumption DEF CanVote, NoVoting, CohortIndex
<1>4. voting \in [cohorts : {NumCohorts}, vote_timeout_time : 0 .. MaxTime,
                 ballots : [CohortIndex -> Ballot]]
  BY <1>3 DEF TypeOK, ChainTypeOK, VotingEntry
<1>5. voting' = [voting EXCEPT !.ballots =
                  [voting.ballots EXCEPT ![call.cohort_id] = call.ballot]]
  BY DEF Voted
<1> QED
  BY <1>2, <1>4, <1>5 DEF Ballots

\* Steps of the chain.
LEMMA VoteInvChain ==
  ASSUME TypeOK, RequestInv, VoteInv, ChainStep
  PROVE  VoteInv'
PROOF
<1>1. UNCHANGED <<stage, db, persisted, cohort_index, cohort_counter,
                  sub_transactions>>
  BY DEF ChainStep, cohortVars, coordinatorVars
<1>2. PreparedAreListed'
  BY <1>1 DEF VoteInv, PreparedAreListed, Listed
<1>3. \A c \in Cohort, i \in CohortIndex : Listed(c, i) => Listed(c, i)'
  BY <1>1 DEF Listed
<1>4. ASSUME NEW call \in pending_starts, MineStartVoting(call)
      PROVE  VoteInv'
  <2>1. \A c \in Cohort : stage[c] = "none"
    BY NothingPreparedYet DEF VoteInv
  <2>2. pending_votes = {} /\ pending_votes' = pending_votes
    BY <1>4, <2>1 DEF MineStartVoting, VoteInv, NotVotedYet, TypeOK, ChainTypeOK,
       VoteCall
  <2>3. \A i \in CohortIndex : Ballots(i)' = "UNKNOWN"
    <3>1. \A i \in CohortIndex : Ballots(i) = "UNKNOWN"
      BY <2>1 DEF VoteInv, BallotsAreGenuine
    <3>2. voting' = voting \/ voting' = StartedVoting(NumCohorts, call.timeout)
      BY <1>4 DEF MineStartVoting
    <3>3. CASE voting' = voting
      BY <3>1, <3>3 DEF Ballots
    <3>4. CASE voting' = StartedVoting(NumCohorts, call.timeout)
      <4>1. voting'.ballots = [i \in CohortIndex |-> "UNKNOWN"]
        BY <3>4 DEF StartedVoting, CohortIndex
      <4> QED
        BY <4>1 DEF Ballots
    <3> QED
      BY <3>2, <3>3, <3>4
  <2> QED
    BY <1>1, <1>2, <2>2, <2>3 DEF VoteInv, NotVotedYet, VotesAreGenuine,
       BallotsAreGenuine
<1>5. ASSUME NEW call \in pending_votes, MineVote(call)
      PROVE  VoteInv'
  <2>1. pending_votes' = pending_votes \ {call}
    BY <1>5 DEF MineVote
  <2>2. CASE CanVote(voting, call.cohort_id, call.ballot, block_time)
    <3>1. \A i \in CohortIndex :
            Ballots(i)' = IF i = call.cohort_id THEN call.ballot ELSE Ballots(i)
      BY <1>5, <2>2, MinedVote DEF MineVote
    <3>2. \A other \in pending_votes' :
            other.cohort_id \in CohortIndex /\ other.cohort_id # call.cohort_id
      <4> TAKE other \in pending_votes'
      <4>1. other \in pending_votes /\ other # call
        BY <2>1
      <4>2. other.cohort \in Cohort /\ call.cohort \in Cohort
            /\ other.cohort_id \in CohortIndex
        BY <4>1 DEF TypeOK, ChainTypeOK, VoteCall
      <4>3. other.cohort # call.cohort
        BY <4>1 DEF VoteInv, VotesAreGenuine
      <4> QED
        BY <4>1, <4>2, <4>3, IndexIsOwn DEF VoteInv, VotesAreGenuine
    <3>3. VotesAreGenuine'
      BY <1>1, <2>1, <3>1, <3>2 DEF VoteInv, VotesAreGenuine
    <3>4. BallotsAreGenuine'
      <4> SUFFICES ASSUME NEW i \in CohortIndex, Ballots(i)' # "UNKNOWN"
                   PROVE  \E c \in Cohort :
                            /\ stage'[c] \notin {"none", "queued"}
                            /\ cohort_index'[c] = i
                            /\ persisted'[c] <=> Ballots(i)' = "COMMIT"
        BY DEF BallotsAreGenuine
      <4>1. CASE i = call.cohort_id
        <5>1. call.cohort \in Cohort
          BY DEF TypeOK, ChainTypeOK, VoteCall
        <5>2. stage[call.cohort] \notin {"none", "queued"}
          BY <5>1 DEF VoteInv, NotVotedYet
        <5>3. /\ cohort_index[call.cohort] = i
              /\ persisted[call.cohort] <=> call.ballot = "COMMIT"
          BY <4>1 DEF VoteInv, VotesAreGenuine
        <5> QED
          BY <1>1, <3>1, <4>1, <5>1, <5>2, <5>3
      <4>2. CASE i # call.cohort_id
        BY <1>1, <3>1, <4>2 DEF VoteInv, BallotsAreGenuine
      <4> QED
        BY <4>1, <4>2
    <3> QED
      BY <1>1, <1>2, <2>1, <3>3, <3>4 DEF VoteInv, NotVotedYet
  <2>3. CASE ~CanVote(voting, call.cohort_id, call.ballot, block_time)
    <3>1. voting' = voting
      BY <1>5, <2>3 DEF MineVote
    <3> QED
      BY <1>1, <1>2, <2>1, <3>1 DEF VoteInv, NotVotedYet, VotesAreGenuine,
         BallotsAreGenuine, Ballots
  <2> QED
    BY <2>2, <2>3
<1>6. ASSUME NEW call \in pending_votes, LoseVote(call)
      PROVE  VoteInv'
  <2>1. pending_votes' \subseteq pending_votes /\ voting' = voting
    BY <1>6 DEF LoseVote
  <2> QED
    BY <1>1, <1>2, <2>1 DEF VoteInv, NotVotedYet, VotesAreGenuine,
       BallotsAreGenuine, Ballots
<1>7. CASE \/ \E call \in pending_starts : LoseStartVoting(call)
           \/ \E h \in Request : StartVotingRpcFails(h)
           \/ \E c \in Cohort : VoteRpcFails(c)
           \/ Tick
  <2>1. UNCHANGED VoteVars
    BY <1>1, <1>7 DEF VoteVars, LoseStartVoting, StartVotingRpcFails,
       VoteRpcFails, Tick
  <2> QED
    BY <1>3, <2>1, VoteInvFrame
<1> QED
  BY <1>4, <1>5, <1>6, <1>7 DEF ChainStep, ChainNext

\* A handler sends to a cohort that nobody has sent to before: it is the only
\* sender, and it lists a cohort once (SendCohortPrepareRequests).
LEMMA PrepareIsFirst ==
  ASSUME TypeOK, RequestInv, PreparedAreListed, NEW h \in Request,
         handler[h] = "sending", NEW i \in CohortIndex, i = cohort_counter[h],
         NEW c \in Cohort, c = sub_transactions[h][i]
  PROVE  stage[c] = "none"
PROOF
<1> SUFFICES ASSUME stage[c] # "none" PROVE FALSE
  OBVIOUS
<1>1. PICK g \in Request : /\ cohort_counter[g] > cohort_index[c]
                           /\ sub_transactions[g][cohort_index[c]] = c
  BY DEF PreparedAreListed, Listed
<1>2. cohort_index[c] \in CohortIndex /\ cohort_counter[g] > 0
  BY <1>1, NumCohortsAssumption
     DEF TypeOK, CohortTypeOK, CoordinatorTypeOK, CohortIndex
<1>3. g = h
  BY <1>2 DEF RequestInv, OneSender
<1>4. sub_transactions[h] \in CohortOrder
  BY DEF RequestInv, SendersAreReady
<1>5. cohort_index[c] = i
  BY <1>1, <1>2, <1>3, <1>4 DEF CohortOrder
<1> QED
  BY <1>1, <1>3, <1>5 DEF CohortIndex

\* Steps of the requests.
LEMMA VoteInvRequest ==
  ASSUME TypeOK, RequestInv, VoteInv, NEW h \in Request, Submit(h) \/ HandlerStep(h)
  PROVE  VoteInv'
PROOF
<1>1. UNCHANGED <<voting, pending_votes>>
  BY DEF Submit, CommitAtomicTransaction, AlreadySent, RejectConfig, BeginVoting,
     BeginSingleCohort, SendStartVoting, HandlerStep, VotingStarted,
     StartVotingFailed, AllSent, SendPrepare, chainVars
<1>2. CASE Submit(h)
  <2>1. UNCHANGED <<stage, db, persisted, cohort_index, cohort_counter>>
    BY <1>2 DEF Submit, CommitAtomicTransaction, AlreadySent, RejectConfig,
       BeginVoting, BeginSingleCohort, cohortVars
  <2>2. cohort_counter[h] = 0
    BY <1>2 DEF Submit, CommitAtomicTransaction, AlreadySent, RejectConfig,
       BeginVoting, BeginSingleCohort, RequestInv, SendersAreReady
  <2>3. \A g \in Request \ {h} : sub_transactions'[g] = sub_transactions[g]
    BY <1>2 DEF Submit, CommitAtomicTransaction, AlreadySent, RejectConfig,
       BeginVoting, BeginSingleCohort, TypeOK, CoordinatorTypeOK
  <2>4. \A c \in Cohort, i \in CohortIndex : Listed(c, i) => Listed(c, i)'
    BY <2>1, <2>2, <2>3, NumCohortsAssumption DEF Listed, CohortIndex
  <2> QED
    BY <1>1, <2>1, <2>4, VoteInvFrame DEF VoteVars
<1>3. CASE \/ VotingStarted(h) /\ UNCHANGED <<cohortVars, clientVars>>
           \/ StartVotingFailed(h) /\ UNCHANGED <<cohortVars, clientVars>>
           \/ AllSent(h) /\ UNCHANGED <<cohortVars, clientVars>>
  <2>1. UNCHANGED <<stage, db, persisted, cohort_index, cohort_counter,
                    sub_transactions>>
    BY <1>3 DEF VotingStarted, StartVotingFailed, AllSent, cohortVars
  <2> QED
    BY <1>1, <2>1, VoteInvFrame DEF VoteVars, Listed
<1>4. CASE SendPrepare(h)
  <2> PICK i \in CohortIndex, c \in Cohort :
        i = cohort_counter[h] /\ c = sub_transactions[h][i]
    BY <1>4, NumCohortsAssumption DEF SendPrepare, TypeOK, CoordinatorTypeOK,
       CohortIndex, RequestInv, SendersAreReady, CohortOrder
  <2>1. /\ handler[h] = "sending"
        /\ cohort_counter'[h] = i + 1
        /\ \A g \in Request \ {h} : cohort_counter'[g] = cohort_counter[g]
        /\ sub_transactions' = sub_transactions
    BY <1>4 DEF SendPrepare, TypeOK, CoordinatorTypeOK
  <2>2. \A d \in Cohort, j \in CohortIndex : Listed(d, j) => Listed(d, j)'
    BY <2>1, NumCohortsAssumption DEF Listed, CohortIndex
  <2>3. CASE UNCHANGED cohortVars
    BY <1>1, <2>2, <2>3, VoteInvFrame DEF VoteVars, cohortVars
  <2>4. CASE ReceivePrepare(c, i)
    <3>1. Listed(c, i)'
      BY <2>1, NumCohortsAssumption DEF Listed, CohortIndex
    <3>2. stage[c] = "none"
      BY <2>1, PrepareIsFirst DEF VoteInv
    <3>3. /\ stage'[c] = "queued" /\ cohort_index'[c] = i /\ db'[c] = "idle"
          /\ persisted' = persisted
          /\ \A d \in Cohort \ {c} : /\ stage'[d] = stage[d]
                                     /\ db'[d] = db[d]
                                     /\ cohort_index'[d] = cohort_index[d]
      BY <2>1, <2>4 DEF ReceivePrepare, TypeOK, CohortTypeOK
    <3>4. PreparedAreListed'
      <4> SUFFICES ASSUME NEW d \in Cohort, stage'[d] # "none"
                   PROVE  Listed(d, cohort_index[d])'
        BY DEF PreparedAreListed
      <4>1. CASE d = c
        BY <3>1, <3>3, <4>1 DEF Listed
      <4>2. CASE d # c
        BY <2>2, <3>3, <4>2 DEF VoteInv, PreparedAreListed, Listed, TypeOK,
           CohortTypeOK
      <4> QED
        BY <4>1, <4>2
    <3>5. NotVotedYet'
      BY <1>1, <3>2, <3>3 DEF VoteInv, NotVotedYet
    <3>6. VotesAreGenuine'
      <4>1. \A call \in pending_votes : call.cohort \in Cohort /\ call.cohort # c
        BY <3>2 DEF VoteInv, NotVotedYet, TypeOK, ChainTypeOK, VoteCall
      <4> QED
        BY <1>1, <3>3, <4>1 DEF VoteInv, VotesAreGenuine, Ballots
    <3>7. BallotsAreGenuine'
      BY <1>1, <3>2, <3>3 DEF VoteInv, BallotsAreGenuine, Ballots
    <3> QED
      BY <3>4, <3>5, <3>6, <3>7 DEF VoteInv
  <2> QED
    BY <1>4, <2>3, <2>4 DEF SendPrepare
<1> QED
  BY <1>2, <1>3, <1>4 DEF HandlerStep

\* Every other step leaves the votes and the cohorts alone.
LEMMA VoteInvNext ==
  ASSUME TypeOK, RequestInv, VoteInv, [Next]_vars
  PROVE  VoteInv'
PROOF
<1>1. CASE \/ ReceiveResponse \/ ReplyFinalResponse \/ GetTransactionResult
           \/ PollFails \/ Restart \/ UNCHANGED vars
  <2>1. UNCHANGED VoteVars /\ UNCHANGED <<cohort_counter, sub_transactions>>
    BY <1>1 DEF ReceiveResponse, ReplyFinalResponse, GetTransactionResult, PollFails, Restart,
       CoordinatorCrash, vars, VoteVars, chainVars, cohortVars, coordinatorVars
  <2> QED
    BY <2>1, VoteInvFrame DEF Listed
<1> QED
  BY <1>1, VoteInvChain, VoteInvCohort, VoteInvRequest DEF Next
-----------------------------------------------------------------------------
(* The decision: DecisionInv.                                               *)

\* A voting that was started has a ballot for every index (startVoting).
LEMMA VotingType ==
  ASSUME TypeOK, HasVoting(voting)
  PROVE  voting \in [cohorts : {NumCohorts}, vote_timeout_time : 0 .. MaxTime,
                    ballots : [CohortIndex -> Ballot]]
  BY DEF TypeOK, ChainTypeOK, VotingEntry, HasVoting, NoVoting

\* COMMIT is decided only with the files of every cohort on disk: the ballots
\* cover all indices, and the indices all cohorts (getVotingDecision,
\* ProcessTransaction).
LEMMA CommitNeedsAll ==
  ASSUME TypeOK, RequestInv, VoteInv, Decided("COMMIT")
  PROVE  \A c \in Cohort : persisted[c]
PROOF
<1>1. \A i \in CohortIndex : Ballots(i) = "COMMIT"
  BY VotingType DEF Decided, CurrentDecision, getVotingDecision, AllVotedToCommit,
     Ballots
<1>2. 0 \in CohortIndex
  BY NumCohortsAssumption DEF CohortIndex
<1>3. PICK e \in Cohort : stage[e] # "none"
  BY <1>1, <1>2 DEF VoteInv, BallotsAreGenuine
<1>4. PICK h \in Request : cohort_counter[h] > cohort_index[e]
  BY <1>3 DEF VoteInv, PreparedAreListed, Listed
<1>5. cohort_counter[h] > 0
  BY <1>4, NumCohortsAssumption
     DEF TypeOK, CohortTypeOK, CoordinatorTypeOK, CohortIndex
<1>6. sub_transactions[h] \in CohortOrder
  BY <1>5 DEF RequestInv, SendersAreReady
<1> SUFFICES ASSUME NEW c \in Cohort PROVE persisted[c]
  OBVIOUS
<1>7. PICK i \in CohortIndex : sub_transactions[h][i] = c
  BY <1>6 DEF CohortOrder
<1>8. PICK d \in Cohort : stage[d] # "none" /\ cohort_index[d] = i /\ persisted[d]
  BY <1>1, <1>7 DEF VoteInv, BallotsAreGenuine
<1>9. PICK g \in Request : cohort_counter[g] > i /\ sub_transactions[g][i] = d
  BY <1>8 DEF VoteInv, PreparedAreListed, Listed
<1>10. cohort_counter[g] > 0
  BY <1>9, NumCohortsAssumption DEF TypeOK, CoordinatorTypeOK, CohortIndex
<1>11. g = h
  BY <1>5, <1>10 DEF RequestInv, OneSender
<1> QED
  BY <1>7, <1>8, <1>9, <1>11

\* No step changes a decision that is not PENDING once a PrepareTransaction has
\* been sent: no startVoting call is left, a vote that is executed finds no
\* ballot of its cohort and comes before the timeout, and time only passes.
LEMMA DecisionIsStable ==
  ASSUME TypeOK, RequestInv, VoteInv, [Next]_vars, SomePrepareSent,
         HasVoting(voting), CurrentDecision # "PENDING"
  PROVE  HasVoting(voting') /\ CurrentDecision' = CurrentDecision
PROOF
<1>1. pending_starts = {}
  BY DEF SomePrepareSent, RequestInv, OneSender
<1>2. CASE UNCHANGED <<voting, block_time>>
  BY <1>2 DEF CurrentDecision
<1>3. ASSUME NEW call \in pending_votes, MineVote(call)
      PROVE  HasVoting(voting') /\ CurrentDecision' = CurrentDecision
  <2>1. block_time' = block_time
    BY <1>3 DEF MineVote
  <2>2. CASE CanVote(voting, call.cohort_id, call.ballot, block_time)
    <3>1. voting' = Voted(voting, call.cohort_id, call.ballot)
      BY <1>3, <2>2 DEF MineVote
    <3>2. /\ call.cohort_id \in CohortIndex
          /\ voting' = [voting EXCEPT !.ballots =
                          [voting.ballots EXCEPT ![call.cohort_id] = call.ballot]]
      BY <2>2, <3>1, MinedVote
    <3>3. voting.ballots[call.cohort_id] = "UNKNOWN"
      BY <3>2, VotingType DEF VoteInv, VotesAreGenuine, Ballots
    <3>4. block_time < voting.vote_timeout_time
      BY <2>2 DEF CanVote
    <3>5. ~(block_time >= voting.vote_timeout_time)
      BY <3>4, VotingType, BoundsAssumption DEF TypeOK, ChainTypeOK
    <3>6. VotedToAbort(voting)
      BY <3>2, <3>3, <3>5, VotingType DEF CurrentDecision, getVotingDecision,
         AllVotedToCommit
    <3>7. VotedToAbort(voting')
      <4>1. PICK i \in CohortIndex : voting.ballots[i] = "ABORT"
        BY <3>6, VotingType DEF VotedToAbort
      <4>2. voting'.ballots = [voting.ballots EXCEPT ![call.cohort_id] = call.ballot]
        BY <3>2, VotingType
      <4>3. voting'.ballots[i] = "ABORT" /\ i \in DOMAIN voting'.ballots
        BY <3>3, <4>1, <4>2, VotingType
      <4> QED
        BY <4>3 DEF VotedToAbort
    <3>8. HasVoting(voting')
      BY <3>2, VotingType DEF HasVoting
    <3> QED
      BY <3>6, <3>7, <3>8 DEF CurrentDecision, getVotingDecision
  <2>3. CASE ~CanVote(voting, call.cohort_id, call.ballot, block_time)
    BY <1>3, <2>1, <2>3 DEF MineVote, CurrentDecision
  <2> QED
    BY <2>2, <2>3
<1>4. CASE Tick
  <2>1. voting' = voting /\ block_time' = block_time + 1
    BY <1>4 DEF Tick
  <2>2. block_time >= voting.vote_timeout_time =>
          block_time' >= voting.vote_timeout_time
    BY <2>1, VotingType, BoundsAssumption DEF TypeOK, ChainTypeOK
  <2> QED
    BY <2>1, <2>2 DEF CurrentDecision, getVotingDecision
<1>5. CASE ChainStep
  BY <1>1, <1>2, <1>3, <1>4, <1>5 DEF ChainStep, ChainNext, LoseVote,
     StartVotingRpcFails, VoteRpcFails
<1>6. CASE CohortStep
  <2>1. UNCHANGED <<voting, block_time>>
    BY <1>6 DEF CohortStep, CohortNext, ProcessFails, AbortAfterVote,
       ProcessOnlyCohort, PersistAndVote, VoteReturns, DecisionFound,
       DecisionPending, DecisionUnanswered, DecisionRpcFails, WakeUp, CommitTransaction,
       AbortTransaction, Crash, SendVote, EndVoteRpc, chainVars
  <2> QED
    BY <1>2, <2>1
<1>7. ASSUME NEW h \in Request, Submit(h) \/ HandlerStep(h)
      PROVE  UNCHANGED <<voting, block_time>>
  BY <1>7 DEF Submit, CommitAtomicTransaction, AlreadySent, RejectConfig,
     BeginVoting, BeginSingleCohort, SendStartVoting, HandlerStep, VotingStarted,
     StartVotingFailed, AllSent, SendPrepare, chainVars
<1>8. CASE \/ ReceiveResponse \/ ReplyFinalResponse \/ GetTransactionResult
           \/ PollFails \/ Restart \/ UNCHANGED vars
  <2>1. UNCHANGED <<voting, block_time>>
    BY <1>8 DEF ReceiveResponse, ReplyFinalResponse, GetTransactionResult, PollFails, Restart,
       CoordinatorCrash, vars, chainVars
  <2> QED
    BY <1>2, <2>1
<1> QED
  BY <1>2, <1>5, <1>6, <1>7, <1>8 DEF Next

\* The same for a cohort that was asked to prepare.
LEMMA DecidedIsStable ==
  ASSUME TypeOK, RequestInv, VoteInv, [Next]_vars,
         NEW c \in Cohort, stage[c] # "none",
         NEW d \in {"COMMIT", "ABORT"}, Decided(d)
  PROVE  Decided(d)'
PROOF
<1>1. PICK h \in Request : cohort_counter[h] > cohort_index[c]
  BY DEF VoteInv, PreparedAreListed, Listed
<1>2. cohort_counter[h] > 0
  BY <1>1, NumCohortsAssumption
     DEF TypeOK, CohortTypeOK, CoordinatorTypeOK, CohortIndex
<1>3. SomePrepareSent
  BY <1>2 DEF SomePrepareSent
<1> QED
  BY <1>3, DecisionIsStable DEF Decided

OutcomeOf(c) == <<stage[c], db[c], persisted[c], decision_read[c]>>

AgreesWithDecision(c) ==
  /\ stage[c] = "deciding" => Decided(decision_read[c]) /\ decision_read[c] # "PENDING"
  /\ db[c] = "committed" => OnlyCohort \/ Decided("COMMIT")
  /\ db[c] = "aborted" => ~persisted[c] \/ Decided("ABORT")

\* A cohort that a step leaves alone still agrees with the decision, so only
\* the cohorts that the step changes are of interest.
LEMMA DecisionInvFrame ==
  ASSUME TypeOK, RequestInv, VoteInv, DecisionInv, [Next]_vars,
         \A c \in Cohort : UNCHANGED OutcomeOf(c) \/ AgreesWithDecision(c)'
  PROVE  DecisionInv'
PROOF
<1> SUFFICES ASSUME NEW c \in Cohort, UNCHANGED OutcomeOf(c)
             PROVE  AgreesWithDecision(c)'
  BY DEF DecisionInv, ReadsAreCurrent, CommittedAreDecided, AbortedAreDecided,
     AgreesWithDecision, OnlyCohort, Decided
<1>1. /\ stage'[c] = stage[c] /\ db'[c] = db[c] /\ persisted'[c] = persisted[c]
      /\ decision_read'[c] = decision_read[c]
  BY DEF OutcomeOf
<1>2. ASSUME stage[c] = "deciding"
      PROVE  Decided(decision_read[c])' /\ decision_read'[c] # "PENDING"
  <2>1. Decided(decision_read[c]) /\ decision_read[c] \in {"COMMIT", "ABORT"}
    BY <1>2 DEF DecisionInv, ReadsAreCurrent, TypeOK, CohortTypeOK, Decision
  <2>2. PICK d \in {"COMMIT", "ABORT"} : d = decision_read[c]
    BY <2>1
  <2>3. Decided(d)'
    BY <1>2, <2>1, <2>2, DecidedIsStable
  <2> QED
    BY <1>1, <2>2, <2>3 DEF Decided
<1>3. ASSUME db[c] = "committed", ~OnlyCohort
      PROVE  Decided("COMMIT")'
  <2>1. stage[c] # "none" /\ Decided("COMMIT")
    BY <1>3 DEF DecisionInv, CommittedAreDecided, VoteInv, NotVotedYet
  <2> QED
    BY <2>1, DecidedIsStable
<1>4. ASSUME db[c] = "aborted", persisted[c]
      PROVE  Decided("ABORT")'
  <2>1. stage[c] # "none" /\ Decided("ABORT")
    BY <1>4 DEF DecisionInv, AbortedAreDecided, VoteInv, NotVotedYet
  <2> QED
    BY <2>1, DecidedIsStable
<1> QED
  BY <1>1, <1>2, <1>3, <1>4 DEF AgreesWithDecision, OnlyCohort

\* A cohort reads the decision before it acts on it, and what it read stays the
\* decision (WaitForBlockchainDecision); one that aborts after its ABORT vote
\* has no files (AbortTransaction).
LEMMA DecisionInvCohort ==
  ASSUME TypeOK, RequestInv, VoteInv, DecisionInv, CohortStep
  PROVE  DecisionInv'
PROOF
<1> USE DEF AgreesWithDecision
<1>1. [Next]_vars
  BY DEF Next
<1>2. stage \in [Cohort -> Stage] /\ db \in [Cohort -> DbState]
      /\ persisted \in [Cohort -> BOOLEAN] /\ decision_read \in [Cohort -> Decision]
  BY DEF TypeOK, CohortTypeOK
<1> PICK c \in Cohort :
      \/ ProcessFails(c)
      \/ AbortAfterVote(c)
      \/ ProcessOnlyCohort(c)
      \/ PersistAndVote(c)
      \/ VoteReturns(c)
      \/ DecisionFound(c)
      \/ DecisionPending(c)
      \/ DecisionUnanswered(c)
      \/ DecisionRpcFails(c)
      \/ WakeUp(c)
      \/ CommitTransaction(c)
      \/ AbortTransaction(c)
      \/ Crash(c)
  BY DEF CohortStep, CohortNext
<1>3. \A d \in Cohort \ {c} : UNCHANGED OutcomeOf(d)
  BY <1>2 DEF OutcomeOf, ProcessFails, AbortAfterVote, ProcessOnlyCohort,
     PersistAndVote, VoteReturns, DecisionFound, DecisionPending,
     DecisionUnanswered, DecisionRpcFails, WakeUp, CommitTransaction, AbortTransaction, Crash
<1>4. SUFFICES AgreesWithDecision(c)'
  BY <1>1, <1>3, DecisionInvFrame
<1>5. OnlyCohort' = OnlyCohort
  BY DEF OnlyCohort
<1>6. CASE ProcessFails(c) \/ PersistAndVote(c)
  BY <1>2, <1>6 DEF ProcessFails, PersistAndVote
<1>7. CASE AbortAfterVote(c)
  BY <1>2, <1>7 DEF AbortAfterVote, VoteInv, NotVotedYet
<1>8. CASE ProcessOnlyCohort(c)
  BY <1>2, <1>5, <1>8 DEF ProcessOnlyCohort
<1>9. CASE DecisionFound(c)
  <2>1. /\ stage'[c] = "deciding" /\ db' = db
        /\ decision_read'[c] = CurrentDecision
        /\ persisted' = persisted
        /\ UNCHANGED <<voting, block_time>>
    BY <1>2, <1>9 DEF DecisionFound, chainVars
  <2>2. CurrentDecision' = CurrentDecision
    BY <2>1 DEF CurrentDecision
  <2>3. Decided(decision_read[c])' /\ decision_read'[c] # "PENDING"
    BY <1>9, <2>1, <2>2 DEF DecisionFound, Decided
  <2>4. \A d : Decided(d) => Decided(d)'
    BY <2>1, <2>2 DEF Decided
  <2> QED
    BY <1>5, <2>1, <2>3, <2>4 DEF DecisionInv, CommittedAreDecided, AbortedAreDecided
<1>10. CASE VoteReturns(c) \/ DecisionPending(c) \/ DecisionUnanswered(c) \/ DecisionRpcFails(c) \/ WakeUp(c)
            \/ Crash(c)
  <2>1. /\ stage'[c] # "deciding"
        /\ db'[c] \in {"committed", "aborted"} => db'[c] = db[c]
        /\ persisted' = persisted
        /\ UNCHANGED <<voting, block_time>>
    BY <1>2, <1>10 DEF VoteReturns, DecisionPending, DecisionUnanswered, DecisionRpcFails, WakeUp, Crash,
       EndVoteRpc, chainVars
  <2>2. \A d : Decided(d) => Decided(d)'
    BY <2>1 DEF Decided, CurrentDecision
  <2> QED
    BY <1>5, <2>1, <2>2 DEF DecisionInv, CommittedAreDecided, AbortedAreDecided
<1>11. CASE CommitTransaction(c)
  <2>1. /\ stage'[c] = "committed" /\ db'[c] = "committed"
        /\ UNCHANGED <<voting, block_time>>
    BY <1>2, <1>11 DEF CommitTransaction, chainVars
  <2>2. Decided("COMMIT")
    BY <1>11 DEF CommitTransaction, DecisionInv, ReadsAreCurrent
  <2> QED
    BY <2>1, <2>2 DEF Decided, CurrentDecision
<1>12. CASE AbortTransaction(c)
  <2>1. /\ stage'[c] = "aborted" /\ db'[c] = "aborted"
        /\ UNCHANGED <<voting, block_time>>
    BY <1>2, <1>12 DEF AbortTransaction, chainVars
  <2>2. Decided("ABORT")
    BY <1>2, <1>12 DEF AbortTransaction, DecisionInv, ReadsAreCurrent, Decision
  <2> QED
    BY <2>1, <2>2 DEF Decided, CurrentDecision
<1> QED
  BY <1>6, <1>7, <1>8, <1>9, <1>10, <1>11, <1>12

\* Every other step leaves the cohorts alone, or queues a transaction.
LEMMA DecisionInvNext ==
  ASSUME TypeOK, RequestInv, VoteInv, DecisionInv, [Next]_vars
  PROVE  DecisionInv'
PROOF
<1>1. CASE UNCHANGED cohortVars
  BY <1>1, DecisionInvFrame DEF OutcomeOf, cohortVars
<1>2. CASE CohortStep
  BY <1>2, DecisionInvCohort
<1>3. ASSUME NEW h \in Request, SendPrepare(h)
      PROVE  DecisionInv'
  <2>1. CASE UNCHANGED cohortVars
    BY <1>1, <2>1
  <2>2. ASSUME NEW c, NEW i, ReceivePrepare(c, i)
        PROVE  DecisionInv'
    <3>1. \A d \in Cohort : UNCHANGED OutcomeOf(d) \/ AgreesWithDecision(d)'
      BY <2>2 DEF ReceivePrepare, OutcomeOf, AgreesWithDecision, TypeOK,
         CohortTypeOK
    <3> QED
      BY <3>1, DecisionInvFrame
  <2> QED
    BY <1>3, <2>1, <2>2 DEF SendPrepare
<1>4. ASSUME NEW h \in Request, Submit(h) \/ HandlerStep(h), ~SendPrepare(h)
      PROVE  UNCHANGED cohortVars
  BY <1>4 DEF Submit, CommitAtomicTransaction, HandlerStep
<1>5. CASE \/ ChainStep \/ ReceiveResponse \/ ReplyFinalResponse
           \/ GetTransactionResult \/ PollFails \/ Restart \/ UNCHANGED vars
  <2>1. UNCHANGED cohortVars
    BY <1>5 DEF ChainStep, ReceiveResponse, ReplyFinalResponse,
       GetTransactionResult, PollFails, Restart, vars
  <2> QED
    BY <1>1, <2>1
<1> QED
  BY <1>1, <1>2, <1>3, <1>4, <1>5 DEF Next
-----------------------------------------------------------------------------
(* The theorems.                                                            *)

\* IInv is an inductive invariant of the system.
THEOREM Inductive == Spec => []IInv
PROOF
<1>1. Init => IInv
  <2>1. Init => TypeAndRequestInv
    BY TypeAndRequestInit
  <2>2. Init => VoteInv
    BY DEF Init, ChainInit, CohortInit, NoVoting, VoteInv, PreparedAreListed,
       NotVotedYet, VotesAreGenuine, BallotsAreGenuine, Ballots
  <2>3. Init => DecisionInv
    BY DEF Init, CohortInit, DecisionInv, ReadsAreCurrent, CommittedAreDecided,
       AbortedAreDecided
  <2> QED
    BY <2>1, <2>2, <2>3 DEF IInv, TypeAndRequestInv
<1>2. IInv /\ [Next]_vars => IInv'
  <2> SUFFICES ASSUME IInv, [Next]_vars PROVE IInv'
    OBVIOUS
  <2>1. TypeOK /\ RequestInv /\ VoteInv /\ DecisionInv
    BY DEF IInv
  <2>2. TypeOK' /\ RequestInv'
    BY <2>1, TypeAndRequestNext DEF TypeAndRequestInv
  <2>3. VoteInv' /\ DecisionInv'
    BY <2>1, VoteInvNext, DecisionInvNext
  <2> QED
    BY <2>2, <2>3 DEF IInv
<1> QED
  BY <1>1, <1>2, PTL DEF Spec

\* Every vote and every ballot is the one its cohort cast, COMMIT only with the
\* files on disk (ProcessTransaction, SendCohortPrepareRequests, vote).
THEOREM VotesAreTheCohorts == Spec => []VoteInv
  BY Inductive, PTL DEF IInv

\* What cohorts have read and done agrees with the decision of the blockchain
\* (WaitForBlockchainDecision, CommitTransaction, AbortTransaction).
THEOREM OutcomesAgreeWithDecision == Spec => []DecisionInv
  BY Inductive, PTL DEF IInv

\* Atomicity: no cohort's database commits while another's aborts
\* (ProcessTransaction, WaitForBlockchainDecision, getVotingDecision).
THEOREM AtomicCommitment == Spec => []Agreement
PROOF
<1>1. IInv => Agreement
  <2> SUFFICES ASSUME IInv, NEW c \in Cohort, NEW d \in Cohort,
                      db[c] = "committed", db[d] = "aborted"
               PROVE  FALSE
    BY DEF Agreement
  <2>1. stage[c] # "none" /\ stage[d] # "none"
    BY DEF IInv, VoteInv, NotVotedYet
  <2>2. CASE OnlyCohort
    <3>1. cohort_index[c] = 0 /\ cohort_index[d] = 0
      BY <2>2 DEF OnlyCohort, CohortIndex, IInv, TypeOK, CohortTypeOK
    <3> QED
      BY <2>1, <3>1, IndexIsOwn DEF IInv, VoteInv
  <2>3. CASE ~OnlyCohort
    <3>1. Decided("COMMIT")
      BY <2>3 DEF IInv, DecisionInv, CommittedAreDecided
    <3>2. persisted[d]
      BY <3>1, CommitNeedsAll DEF IInv
    <3> QED
      BY <3>1, <3>2 DEF IInv, DecisionInv, AbortedAreDecided, Decided
  <2> QED
    BY <2>2, <2>3
<1> QED
  BY <1>1, Inductive, PTL

\* The blockchain decides to commit only what every cohort can replay from its
\* files (PersistTransaction before Vote).
THEOREM CommitIsReplayable == Spec => []CommittedIsReplayable
PROOF
<1>1. IInv => CommittedIsReplayable
  BY CommitNeedsAll DEF IInv, CommittedIsReplayable, Decided
<1> QED
  BY <1>1, Inductive, PTL

\* Once a cohort may have been asked to prepare, the first final answer of
\* getVotingDecision is its last.
THEOREM FirstDecisionIsFinal == Spec => DecisionIsFinal
PROOF
<1>1. IInv /\ [Next]_vars =>
        [SomePrepareSent /\ HasVoting(voting) /\ CurrentDecision # "PENDING"
           => CurrentDecision' = CurrentDecision]_vars
  BY DecisionIsStable DEF IInv
<1> QED
  BY <1>1, Inductive, PTL DEF Spec, DecisionIsFinal
-----------------------------------------------------------------------------
(* The system implements AtomicCommit.                                      *)

\* A request reaches only a cohort without a trace of the transaction.
LEMMA SendPrepareIsFirst ==
  ASSUME IInv, NEW h \in Request, SendPrepare(h), ~UNCHANGED cohortVars
  PROVE  \E c \in Cohort :
           /\ stage[c] = "none"
           /\ stage' = [stage EXCEPT ![c] = "queued"]
           /\ UNCHANGED <<db, persisted>>
PROOF
<1>1. PICK i \in CohortIndex, c \in Cohort :
        /\ handler[h] = "sending"
        /\ i = cohort_counter[h] /\ c = sub_transactions[h][i]
        /\ ReceivePrepare(c, i)
  BY NumCohortsAssumption DEF SendPrepare, IInv, TypeOK, CoordinatorTypeOK,
     CohortIndex, RequestInv, SendersAreReady, CohortOrder
<1>2. stage[c] = "none"
  BY <1>1, PrepareIsFirst DEF IInv, VoteInv
<1>3. db[c] = "idle" /\ db' = [db EXCEPT ![c] = "idle"]
  BY <1>1, <1>2 DEF ReceivePrepare, IInv, VoteInv, NotVotedYet
<1>4. db' = db
  BY <1>3 DEF IInv, TypeOK, CohortTypeOK
<1> QED
  BY <1>1, <1>2, <1>4 DEF ReceivePrepare

\* The cohorts, when steps of the others are left out.
LEMMA OtherSteps ==
  ASSUME IInv, [Next]_vars, ~CohortStep
  PROVE  \/ UNCHANGED cohortVars
         \/ \E c \in Cohort : /\ stage[c] = "none"
                              /\ stage' = [stage EXCEPT ![c] = "queued"]
                              /\ UNCHANGED <<db, persisted>>
PROOF
<1>1. ASSUME NEW h \in Request, Submit(h) \/ HandlerStep(h), ~SendPrepare(h)
      PROVE  UNCHANGED cohortVars
  BY <1>1 DEF Submit, CommitAtomicTransaction, HandlerStep
<1>2. CASE \/ ChainStep \/ ReceiveResponse \/ ReplyFinalResponse
           \/ GetTransactionResult \/ PollFails \/ Restart \/ UNCHANGED vars
  BY <1>2 DEF ChainStep, ReceiveResponse, ReplyFinalResponse,
     GetTransactionResult, PollFails, Restart, vars
<1> QED
  BY <1>1, <1>2, SendPrepareIsFirst DEF Next

\* However often the client retries, no cohort is asked to prepare again what it
\* has begun to execute (possibly_sent_to_all_cohorts).
THEOREM PreparedOnlyOnce == Spec => PreparedOnce
PROOF
<1>1. IInv /\ [Next]_vars =>
        [\A c \in Cohort :
           stage[c] \notin {"none", "queued"} => stage'[c] # "queued"]_vars
  <2> SUFFICES ASSUME IInv, [Next]_vars, NEW c \in Cohort,
                      stage[c] \notin {"none", "queued"}
               PROVE  stage'[c] # "queued"
    OBVIOUS
  <2>1. stage \in [Cohort -> Stage]
    BY DEF IInv, TypeOK, CohortTypeOK
  <2>2. CASE CohortStep
    BY <2>1, <2>2 DEF CohortStep, CohortNext, ProcessFails, AbortAfterVote,
       ProcessOnlyCohort, PersistAndVote, VoteReturns, DecisionFound,
       DecisionPending, DecisionUnanswered, DecisionRpcFails, WakeUp, CommitTransaction,
       AbortTransaction, Crash
  <2>3. CASE ~CohortStep
    BY <2>1, <2>3, OtherSteps DEF cohortVars
  <2> QED
    BY <2>2, <2>3
<1> QED
  BY <1>1, Inductive, PTL DEF Spec, PreparedOnce

\* A ballot that was cast stays as it was cast: its cohort has been asked to
\* prepare, so no startVoting call is left that could reset it, and no vote for
\* its index is on its way (startVoting, vote, SendCohortPrepareRequests).
THEOREM BallotsStay == Spec => BallotsAreCastOnce
PROOF
<1>1. IInv /\ [Next]_vars =>
        [\A i \in DOMAIN voting.ballots :
           voting.ballots[i] # "UNKNOWN" =>
             /\ i \in DOMAIN voting'.ballots
             /\ voting'.ballots[i] = voting.ballots[i]]_vars
  <2> SUFFICES ASSUME IInv, [Next]_vars,
                      NEW i \in DOMAIN voting.ballots,
                      voting.ballots[i] # "UNKNOWN"
               PROVE  /\ i \in DOMAIN voting'.ballots
                      /\ voting'.ballots[i] = voting.ballots[i]
    OBVIOUS
  <2>1. HasVoting(voting)
    BY NumCohortsAssumption DEF IInv, TypeOK, ChainTypeOK, VotingEntry, NoVoting,
       HasVoting
  <2>2. voting \in [cohorts : {NumCohorts}, vote_timeout_time : 0 .. MaxTime,
                    ballots : [CohortIndex -> Ballot]]
    BY <2>1, VotingType DEF IInv
  <2>3. Ballots(i) # "UNKNOWN" /\ i \in CohortIndex
    BY <2>2 DEF Ballots
  <2>4. pending_starts = {}
    <3>1. \E c \in Cohort : stage[c] # "none"
      BY <2>3 DEF IInv, VoteInv, BallotsAreGenuine
    <3> QED
      BY <3>1, NothingPreparedYet DEF IInv, VoteInv
  <2>5. ASSUME NEW call \in pending_votes, MineVote(call)
        PROVE  voting'.ballots[i] = voting.ballots[i] /\ i \in DOMAIN voting'.ballots
    <3>1. call.cohort_id # i
      BY <2>3 DEF IInv, VoteInv, VotesAreGenuine
    <3> QED
      BY <2>2, <2>5, <3>1 DEF MineVote, Voted
  <2>6. CASE ChainStep
    BY <2>4, <2>5, <2>6 DEF ChainStep, ChainNext, LoseVote, StartVotingRpcFails,
       VoteRpcFails, Tick
  <2>7. CASE CohortStep
    BY <2>7 DEF CohortStep, CohortNext, ProcessFails, AbortAfterVote,
       ProcessOnlyCohort, PersistAndVote, VoteReturns, DecisionFound,
       DecisionPending, DecisionUnanswered, DecisionRpcFails, WakeUp, CommitTransaction,
       AbortTransaction, Crash, SendVote, EndVoteRpc, chainVars
  <2>8. ASSUME NEW h \in Request, Submit(h) \/ HandlerStep(h)
        PROVE  voting' = voting
    BY <2>8 DEF Submit, CommitAtomicTransaction, AlreadySent, RejectConfig,
       BeginVoting, BeginSingleCohort, SendStartVoting, HandlerStep,
       VotingStarted, StartVotingFailed, AllSent, SendPrepare, chainVars
  <2>9. CASE \/ ReceiveResponse \/ ReplyFinalResponse \/ GetTransactionResult
             \/ PollFails \/ Restart \/ UNCHANGED vars
    BY <2>9 DEF ReceiveResponse, ReplyFinalResponse, GetTransactionResult, PollFails, Restart,
       CoordinatorCrash, vars, chainVars
  <2> QED
    BY <2>6, <2>7, <2>8, <2>9 DEF Next
<1> QED
  BY <1>1, Inductive, PTL DEF Spec, BallotsAreCastOnce

\* The database transaction is open from the first vote until the outcome
\* (ProcessTransaction).
OpenUntilOutcome ==
  \A c \in Cohort :
    stage[c] \in {"aborting", "voting", "asking", "unanswered", "sleeping", "deciding"} =>
      db[c] = "open"

\* OpenUntilOutcome is an invariant: the transaction is opened before either
\* vote and closed with the outcome (ProcessTransaction).
LEMMA OpenUntil == Spec => []OpenUntilOutcome
PROOF
<1>1. Init => OpenUntilOutcome
  BY DEF Init, CohortInit, OpenUntilOutcome
<1>2. IInv /\ OpenUntilOutcome /\ [Next]_vars => OpenUntilOutcome'
  <2> SUFFICES ASSUME IInv, OpenUntilOutcome, [Next]_vars PROVE OpenUntilOutcome'
    OBVIOUS
  <2>1. stage \in [Cohort -> Stage] /\ db \in [Cohort -> DbState]
    BY DEF IInv, TypeOK, CohortTypeOK
  <2>2. CASE CohortStep
    <3> PICK c \in Cohort :
          \/ ProcessFails(c) \/ AbortAfterVote(c) \/ ProcessOnlyCohort(c)
          \/ PersistAndVote(c) \/ VoteReturns(c) \/ DecisionFound(c)
          \/ DecisionPending(c) \/ DecisionUnanswered(c) \/ DecisionRpcFails(c)
          \/ WakeUp(c) \/ CommitTransaction(c) \/ AbortTransaction(c) \/ Crash(c)
      BY <2>2 DEF CohortStep, CohortNext
    <3>1. CASE \/ ProcessFails(c) \/ AbortAfterVote(c) \/ ProcessOnlyCohort(c)
               \/ PersistAndVote(c) \/ VoteReturns(c)
      BY <2>1, <3>1 DEF OpenUntilOutcome, ProcessFails, AbortAfterVote,
         ProcessOnlyCohort, PersistAndVote, VoteReturns
    <3>2. CASE \/ DecisionFound(c) \/ DecisionPending(c) \/ DecisionUnanswered(c)
               \/ DecisionRpcFails(c) \/ WakeUp(c)
      BY <2>1, <3>2 DEF OpenUntilOutcome, DecisionFound, DecisionPending,
         DecisionUnanswered, DecisionRpcFails, WakeUp
    <3>3. CASE CommitTransaction(c) \/ AbortTransaction(c) \/ Crash(c)
      BY <2>1, <3>3 DEF OpenUntilOutcome, CommitTransaction, AbortTransaction, Crash
    <3> QED
      BY <3>1, <3>2, <3>3
  <2>3. CASE ~CohortStep
    BY <2>1, <2>3, OtherSteps DEF OpenUntilOutcome, cohortVars
  <2> QED
    BY <2>2, <2>3
<1> QED
  BY <1>1, <1>2, Inductive, PTL DEF Spec

\* A cohort that commits: every cohort has promised and none has aborted.
LEMMA CommitSimulates ==
  ASSUME IInv, OpenUntilOutcome, NEW c \in Cohort,
         ProcessOnlyCohort(c) \/ CommitTransaction(c)
  PROVE  Atomic!Commit(c)
PROOF
<1>1. /\ db \in [Cohort -> DbState] /\ persisted \in [Cohort -> BOOLEAN]
      /\ db' = [db EXCEPT ![c] = "committed"]
      /\ persisted' = persisted
      /\ stage[c] # "none"
  BY DEF IInv, TypeOK, CohortTypeOK, ProcessOnlyCohort, CommitTransaction
<1>2. db[c] \in {"idle", "open"}
  BY DEF ProcessOnlyCohort, CommitTransaction, IInv, VoteInv, NotVotedYet,
     OpenUntilOutcome
<1>3. OnlyCohort => \A d \in Cohort : d = c
  <2> SUFFICES ASSUME OnlyCohort, NEW d \in Cohort PROVE d = c
    OBVIOUS
  <2>1. cohort_index[c] \in CohortIndex /\ CohortIndex = {0}
    BY DEF IInv, TypeOK, CohortTypeOK, CohortIndex, OnlyCohort
  <2>2. PICK h \in Request : cohort_counter[h] > 0 /\ sub_transactions[h][0] = c
    BY <1>1, <2>1 DEF IInv, VoteInv, PreparedAreListed, Listed
  <2>3. sub_transactions[h] \in CohortOrder
    BY <2>2 DEF IInv, RequestInv, SendersAreReady
  <2> QED
    BY <2>1, <2>2, <2>3 DEF CohortOrder
<1>4. ~OnlyCohort => \A d \in Cohort : persisted[d] /\ db[d] # "aborted"
  <2> SUFFICES ASSUME ~OnlyCohort
               PROVE  \A d \in Cohort : persisted[d] /\ db[d] # "aborted"
    OBVIOUS
  <2>1. Decided("COMMIT")
    BY DEF ProcessOnlyCohort, CommitTransaction, IInv, DecisionInv,
       ReadsAreCurrent
  <2> QED
    BY <2>1, CommitNeedsAll DEF IInv, DecisionInv, AbortedAreDecided, Decided
<1>5. DbOutcome[c] = "undecided" /\ \A d \in Cohort : DbOutcome[d] # "aborted"
  BY <1>2, <1>3, <1>4 DEF DbOutcome
<1>6. DbOutcome' = [DbOutcome EXCEPT ![c] = "committed"]
  BY <1>1 DEF DbOutcome
<1>7. Promised \cup {c} = Cohort /\ Promised' = Promised \cup {c}
  <2>1. CASE OnlyCohort
    BY <1>1, <1>3, <2>1 DEF Promised, OnlyCohort
  <2>2. CASE ~OnlyCohort
    BY <1>1, <1>4, <2>2 DEF Promised, OnlyCohort
  <2> QED
    BY <2>1, <2>2
<1> QED
  BY <1>5, <1>6, <1>7 DEF Atomic!Commit

\* A cohort that aborts: none has committed.
LEMMA AbortSimulates ==
  ASSUME IInv, OpenUntilOutcome, NEW c \in Cohort,
         AbortAfterVote(c) \/ AbortTransaction(c)
  PROVE  Atomic!Abort(c)
PROOF
<1>1. /\ db \in [Cohort -> DbState]
      /\ db' = [db EXCEPT ![c] = "aborted"]
      /\ persisted' = persisted
      /\ stage[c] # "none"
      /\ db[c] = "open"
  BY DEF IInv, TypeOK, CohortTypeOK, AbortAfterVote, AbortTransaction,
     OpenUntilOutcome
<1>2. ~Decided("COMMIT")
  <2>1. CASE AbortAfterVote(c)
    BY <2>1, CommitNeedsAll DEF AbortAfterVote, IInv, VoteInv, NotVotedYet
  <2>2. CASE AbortTransaction(c)
    BY <2>2 DEF AbortTransaction, IInv, DecisionInv, ReadsAreCurrent, Decided
  <2> QED
    BY <2>1, <2>2
<1>3. \A d \in Cohort : db[d] # "committed"
  <2> SUFFICES ASSUME NEW d \in Cohort, db[d] = "committed" PROVE FALSE
    OBVIOUS
  <2>1. OnlyCohort
    BY <1>2 DEF IInv, DecisionInv, CommittedAreDecided
  <2>2. stage[d] # "none"
    BY DEF IInv, VoteInv, NotVotedYet
  <2>3. cohort_index[c] = 0 /\ cohort_index[d] = 0
    BY <2>1 DEF OnlyCohort, CohortIndex, IInv, TypeOK, CohortTypeOK
  <2>4. c = d
    BY <1>1, <2>2, <2>3, IndexIsOwn DEF IInv, VoteInv
  <2> QED
    BY <1>1, <2>4
<1>4. DbOutcome[c] = "undecided" /\ \A d \in Cohort : DbOutcome[d] # "committed"
  BY <1>1, <1>3 DEF DbOutcome
<1>5. DbOutcome' = [DbOutcome EXCEPT ![c] = "aborted"]
  BY <1>1 DEF DbOutcome
<1>6. Promised' = Promised
  BY <1>1, <1>3 DEF Promised, OnlyCohort
<1> QED
  BY <1>4, <1>5, <1>6 DEF Atomic!Abort

\* The system implements atomic commit: a cohort that persists promises, and
\* the outcomes of the databases are those of one atomic commit
\* (ProcessTransaction, CommitTransaction, AbortTransaction).
THEOREM Refinement == Spec => ImplementsAtomicCommit
PROOF
<1>1. Init => Atomic!Init
  BY DEF Init, CohortInit, Atomic!Init, Promised, DbOutcome
<1>2. IInv /\ OpenUntilOutcome /\ [Next]_vars => [Atomic!Next]_(Atomic!vars)
  <2> SUFFICES ASSUME IInv, OpenUntilOutcome, [Next]_vars
               PROVE  Atomic!Next \/ UNCHANGED <<Promised, DbOutcome>>
    BY DEF Atomic!vars
  <2>1. /\ db \in [Cohort -> DbState] /\ persisted \in [Cohort -> BOOLEAN]
    BY DEF IInv, TypeOK, CohortTypeOK
  <2>2. CASE UNCHANGED <<db, persisted>>
    BY <2>2 DEF Promised, DbOutcome, OnlyCohort
  <2>3. ASSUME NEW c \in Cohort, ProcessOnlyCohort(c) \/ CommitTransaction(c)
        PROVE  Atomic!Next
    BY <2>3, CommitSimulates DEF Atomic!Next
  <2>4. ASSUME NEW c \in Cohort, AbortAfterVote(c) \/ AbortTransaction(c)
        PROVE  Atomic!Next
    BY <2>4, AbortSimulates DEF Atomic!Next
  <2>5. ASSUME NEW c \in Cohort, PersistAndVote(c)
        PROVE  Atomic!Next
    <3>1. db[c] = "idle"
      BY <2>5 DEF PersistAndVote, IInv, VoteInv, NotVotedYet
    <3>2. DbOutcome[c] = "undecided" /\ DbOutcome' = DbOutcome
      BY <2>1, <2>5, <3>1 DEF PersistAndVote, DbOutcome
    <3>3. Promised' = Promised \cup {c}
      BY <2>1, <2>5 DEF PersistAndVote, Promised
    <3> QED
      BY <3>2, <3>3 DEF Atomic!Promise, Atomic!Next
  <2>6. ASSUME NEW c \in Cohort, ProcessFails(c) \/ Crash(c)
        PROVE  UNCHANGED <<Promised, DbOutcome>>
    <3>1. /\ persisted' = persisted
          /\ \A d \in Cohort : db'[d] # db[d] =>
               db[d] \in {"idle", "open"} /\ db'[d] \in {"open", "lost"}
      BY <2>1, <2>6 DEF ProcessFails, Crash, IInv, VoteInv, NotVotedYet
    <3> QED
      BY <3>1 DEF Promised, DbOutcome, OnlyCohort
  <2>7. CASE CohortStep
    BY <2>2, <2>3, <2>4, <2>5, <2>6, <2>7 DEF CohortStep, CohortNext, VoteReturns,
       DecisionFound, DecisionPending, DecisionUnanswered, DecisionRpcFails, WakeUp
  <2>8. CASE ~CohortStep
    BY <2>2, <2>8, OtherSteps DEF cohortVars
  <2> QED
    BY <2>7, <2>8
<1> QED
  BY <1>1, <1>2, Inductive, OpenUntil, PTL DEF Spec, ImplementsAtomicCommit, Atomic!Spec

-----------------------------------------------------------------------------
(***************************************************************************)
(* What the client is told agrees with what the cohorts' databases do.     *)
(***************************************************************************)

(* The entry of metadata_by_transaction_ and the requests.                  *)

EntryInv == EntryIsKept /\ AnsweredAreSent /\ NamespacesAreListed

EntryDefs == <<handler, sub_transactions, cohort_counter, metadata>>

\* EntryInv is about the requests, the metadata and where the client is.
LEMMA EntryInvFrame ==
  ASSUME EntryInv, UNCHANGED EntryDefs,
         \/ client' = client
         \/ client = "submitting" /\ client' = "polling" /\ \E h \in Request : handler[h] = "ok"
         \/ client = "polling" /\ client' = "done"
  PROVE  EntryInv'
PROOF
<1> USE DEF EntryDefs
<1>1. EntryIsKept'
  BY DEF EntryInv, EntryIsKept, AnsweredAreSent
<1>2. AnsweredAreSent'
  BY DEF EntryInv, AnsweredAreSent, AllPrepareSent
<1>3. NamespacesAreListed'
  BY DEF EntryInv, NamespacesAreListed, SomePrepareSent
<1> QED
  BY <1>1, <1>2, <1>3 DEF EntryInv

\* A new request finds the entry as the earlier ones left it
\* (CommitAtomicTransaction).
LEMMA EntryInvSubmit ==
  ASSUME TypeOK, RequestInv, EntryInv, NEW h \in Request, Submit(h)
  PROVE  EntryInv'
PROOF
<1>1. /\ client = "submitting" /\ client' = client
      /\ handler[h] = "none" /\ cohort_counter' = cohort_counter
      /\ handler \in [Request -> HandlerStage]
      /\ cohort_counter[h] = 0
  BY DEF Submit, CommitAtomicTransaction, AlreadySent, RejectConfig, BeginVoting,
     BeginSingleCohort, clientVars, TypeOK, CoordinatorTypeOK, RequestInv,
     SendersAreReady
<1>2. metadata.possibly_sent_to_all_cohorts => metadata.present
  BY DEF EntryInv, EntryIsKept, NoMetadata
<1>3. /\ metadata'.present
      /\ metadata'.possibly_sent_to_all_cohorts = metadata.possibly_sent_to_all_cohorts
      /\ metadata'.cohort_namespaces = metadata.cohort_namespaces
  BY <1>2 DEF Submit, CommitAtomicTransaction, AlreadySent, RejectConfig, BeginVoting,
     BeginSingleCohort, TypeOK, CoordinatorTypeOK
<1>4. /\ \A g \in Request \ {h} : handler'[g] = handler[g]
      /\ handler'[h] \in {"ok", "failed", "voting", "sending"}
      /\ handler'[h] = "ok" => metadata.possibly_sent_to_all_cohorts
      /\ handler'[h] \in {"voting", "sending"} => ~metadata.possibly_sent_to_all_cohorts
  BY <1>1 DEF Submit, CommitAtomicTransaction, AlreadySent, RejectConfig, BeginVoting,
     BeginSingleCohort
<1>5. \A g \in Request : cohort_counter[g] > 0 =>
         /\ sub_transactions'[g] = sub_transactions[g]
         /\ metadata.present
  <2>1. ASSUME NEW g \in Request, cohort_counter[g] > 0
        PROVE  g # h /\ handler[g] # "none"
    BY <1>1, <2>1 DEF RequestInv, SendersAreReady
  <2> QED
    BY <1>1, <2>1 DEF Submit, CommitAtomicTransaction, AlreadySent, RejectConfig,
       BeginVoting, BeginSingleCohort, TypeOK, CoordinatorTypeOK, EntryInv,
       EntryIsKept
<1>6. EntryIsKept'
  BY <1>1, <1>3 DEF EntryIsKept
<1>7. AnsweredAreSent'
  <2>1. AllPrepareSent' = AllPrepareSent
    BY <1>1 DEF AllPrepareSent
  <2>2. \A g \in Request : handler[g] \notin {"voting", "sending"}
    <3>1. ASSUME NEW g \in Request
          PROVE  handler[g] \notin {"voting", "sending"}
      <4>1. CASE g < h
        BY <4>1 DEF Submit, Finished, Request, RequestInv, RequestsInOrder
      <4>2. CASE h < g
        BY <1>1, <4>2 DEF RequestInv, RequestsInOrder, Finished
      <4>3. CASE g = h
        BY <1>1, <4>3
      <4> QED
        BY <4>1, <4>2, <4>3, BoundsAssumption DEF Request
    <3> QED
      BY <3>1
  <2>3. ASSUME AllPrepareSent
        PROVE  metadata.possibly_sent_to_all_cohorts
    BY <1>1, <2>3, NumCohortsAssumption DEF AllPrepareSent, RequestInv, SendingIsRemembered
  <2> QED
    BY <1>1, <1>3, <1>4, <2>1, <2>2, <2>3 DEF EntryInv, AnsweredAreSent
<1>8. NamespacesAreListed'
  BY <1>1, <1>3, <1>5 DEF EntryInv, NamespacesAreListed, SomePrepareSent
<1> QED
  BY <1>6, <1>7, <1>8 DEF EntryInv

\* A PrepareTransaction is sent to the cohort that the loop of
\* SendCohortPrepareRequests has appended to cohort_namespaces.
LEMMA EntryInvSend ==
  ASSUME TypeOK, RequestInv, EntryInv, NEW h \in Request, SendPrepare(h),
         UNCHANGED clientVars
  PROVE  EntryInv'
PROOF
<1> DEFINE i == cohort_counter[h]
           c == sub_transactions[h][i]
<1>1. /\ handler[h] = "sending" /\ client = "submitting" /\ client' = client
      /\ UNCHANGED <<handler, sub_transactions>>
      /\ metadata.present
      /\ i \in 0 .. NumCohorts - 1
      /\ c \in Cohort
      /\ handler \in [Request -> HandlerStage]
  BY NumCohortsAssumption DEF SendPrepare, EntryInv, EntryIsKept, clientVars, TypeOK,
     CoordinatorTypeOK, RequestInv, SendersAreReady, CohortOrder, CohortIndex
<1>2. /\ cohort_counter \in [Request -> 0 .. NumCohorts]
      /\ cohort_counter' = [cohort_counter EXCEPT ![h] = i + 1]
      /\ metadata.cohort_namespaces \in Seq(Cohort)
      /\ metadata'.present
      /\ metadata'.cohort_namespaces = Append(metadata.cohort_namespaces, c)
      /\ metadata'.possibly_sent_to_all_cohorts =
           (metadata.possibly_sent_to_all_cohorts \/ i = NumCohorts - 1)
  BY <1>1 DEF SendPrepare, TypeOK, CoordinatorTypeOK
<1>3. \A g \in Request \ {h} : cohort_counter[g] = 0
  <2>1. CASE i > 0
    BY <2>1 DEF RequestInv, OneSender
  <2>2. CASE i = 0
    <3> SUFFICES ASSUME NEW g \in Request \ {h}, cohort_counter[g] > 0
                 PROVE  FALSE
      BY <1>2
    <3> QED
      BY <1>1 DEF RequestInv, OneSender
  <2> QED
    BY <1>1, <2>1, <2>2
<1>4. EntryIsKept'
  BY <1>1, <1>2 DEF EntryInv, EntryIsKept
<1>5. AnsweredAreSent'
  <2>1. \A g \in Request : handler[g] # "ok"
    BY <1>1 DEF EntryInv, AnsweredAreSent
  <2>2. i = NumCohorts - 1 => cohort_counter'[h] = NumCohorts
    BY <1>1, <1>2, NumCohortsAssumption
  <2>3. ~AllPrepareSent
    BY <1>1, <1>3, NumCohortsAssumption DEF AllPrepareSent
  <2> QED
    BY <1>1, <1>2, <2>1, <2>2, <2>3 DEF EntryInv, AnsweredAreSent, AllPrepareSent
<1>6. NamespacesAreListed'
  <2>1. cohort_counter'[h] = i + 1 /\ cohort_counter'[h] > 0
    BY <1>1, <1>2
  <2>2. Len(metadata.cohort_namespaces) = i
    <3>1. CASE i = 0
      BY <1>2, <1>3, <3>1 DEF EntryInv, NamespacesAreListed, SomePrepareSent
    <3>2. CASE i > 0
      BY <1>1, <3>2 DEF EntryInv, NamespacesAreListed
    <3> QED
      BY <1>1, <3>1, <3>2
  <2>3. /\ Len(metadata'.cohort_namespaces) = i + 1
        /\ metadata'.cohort_namespaces[i + 1] = c
        /\ \A j \in 1 .. i :
             metadata'.cohort_namespaces[j] = metadata.cohort_namespaces[j]
    BY <1>1, <1>2, <2>2
  <2>4. \A j \in 1 .. i : metadata.cohort_namespaces[j] = sub_transactions[h][j - 1]
    BY <1>1 DEF EntryInv, NamespacesAreListed
  <2>5. \A j \in 1 .. i + 1 : metadata'.cohort_namespaces[j] = sub_transactions[h][j - 1]
    <3> SUFFICES ASSUME NEW j \in 1 .. i + 1
                 PROVE  metadata'.cohort_namespaces[j] = sub_transactions[h][j - 1]
      OBVIOUS
    <3>1. CASE j \in 1 .. i
      BY <2>3, <2>4, <3>1
    <3>2. CASE j = i + 1
      BY <1>1, <2>3, <3>2
    <3> QED
      BY <1>1, <3>1, <3>2
  <2>6. \A g \in Request \ {h} : cohort_counter'[g] = 0
    BY <1>2, <1>3
  <2> QED
    BY <1>1, <2>1, <2>3, <2>5, <2>6 DEF NamespacesAreListed, SomePrepareSent
<1> QED
  BY <1>4, <1>5, <1>6 DEF EntryInv

\* The other steps of a handler: all is sent when it answers OK.
LEMMA EntryInvHandler ==
  ASSUME TypeOK, RequestInv, EntryInv, NEW h \in Request, HandlerStep(h)
  PROVE  EntryInv'
PROOF
<1>1. CASE SendPrepare(h) /\ UNCHANGED clientVars
  BY <1>1, EntryInvSend
<1>2. CASE (VotingStarted(h) \/ StartVotingFailed(h) \/ AllSent(h)) /\ UNCHANGED clientVars
  <2>1. /\ client' = client
        /\ UNCHANGED <<sub_transactions, cohort_counter>>
        /\ handler[h] \in {"voting", "sending"}
        /\ handler \in [Request -> HandlerStage]
        /\ \A g \in Request \ {h} : handler'[g] = handler[g]
        /\ handler'[h] \in {"sending", "failed", "ok"}
        /\ handler'[h] = "ok" => cohort_counter[h] = NumCohorts
    BY <1>2 DEF VotingStarted, StartVotingFailed, AllSent, clientVars, TypeOK,
       CoordinatorTypeOK
  <2>2. client = "submitting" /\ metadata.present
    BY <2>1 DEF EntryInv, EntryIsKept
  <2>3. /\ metadata'.present
        /\ metadata'.cohort_namespaces = metadata.cohort_namespaces
        /\ metadata'.possibly_sent_to_all_cohorts = metadata.possibly_sent_to_all_cohorts
    BY <1>2, <2>2 DEF VotingStarted, StartVotingFailed, AllSent, TypeOK,
       CoordinatorTypeOK
  <2>4. EntryIsKept'
    BY <2>1, <2>2, <2>3 DEF EntryIsKept
  <2>5. AnsweredAreSent'
    <3>1. \A g \in Request : handler[g] # "ok"
      BY <2>1 DEF EntryInv, AnsweredAreSent
    <3>2. AllPrepareSent' = AllPrepareSent
      BY <2>1 DEF AllPrepareSent
    <3>3. ASSUME handler'[h] = "ok"
          PROVE  AllPrepareSent /\ \A g \in Request : handler'[g] \notin {"voting", "sending"}
      BY <2>1, <3>3, NumCohortsAssumption DEF AllPrepareSent, RequestInv, OneSender
    <3> QED
      BY <2>1, <2>2, <2>3, <3>1, <3>2, <3>3 DEF EntryInv, AnsweredAreSent
  <2>6. NamespacesAreListed'
    BY <2>1, <2>2, <2>3 DEF EntryInv, NamespacesAreListed, SomePrepareSent
  <2> QED
    BY <2>4, <2>5, <2>6 DEF EntryInv
<1> QED
  BY <1>1, <1>2 DEF HandlerStep

\* What GetTransactionResult and a crash of the coordinator leave of the entry.
LEMMA EntryInvLost ==
  ASSUME EntryInv, UNCHANGED <<sub_transactions, cohort_counter>>,
         \A h \in Request : handler'[h] # handler[h] => handler'[h] = "failed",
         \A h \in Request : handler[h] = "ok" => handler'[h] = "ok",
         \A h \in Request : handler'[h] \notin {"voting", "sending"},
         client' # "submitting",
         client' = "polling" => client = "polling",
         \/ metadata' = NoMetadata
         \/ /\ metadata.present /\ metadata'.present
            /\ metadata'.cohort_namespaces = metadata.cohort_namespaces
            /\ metadata'.possibly_sent_to_all_cohorts =
                  metadata.possibly_sent_to_all_cohorts
  PROVE  EntryInv'
PROOF
<1>1. EntryIsKept'
  BY DEF EntryIsKept
<1>2. AnsweredAreSent'
  <2>1. AllPrepareSent' = AllPrepareSent
    BY DEF AllPrepareSent
  <2> QED
    BY <2>1 DEF EntryInv, AnsweredAreSent, NoMetadata
<1>3. NamespacesAreListed'
  BY DEF EntryInv, NamespacesAreListed, SomePrepareSent, NoMetadata
<1> QED
  BY <1>1, <1>2, <1>3 DEF EntryInv

\* GetTransactionResult keeps the entry's list, or drops the entry when the
\* response is final (CleanUpTransactionMetadata).
LEMMA PollKeepsEntry ==
  ASSUME TypeOK, GetTransactionResult, metadata.present \/ poll.stage # "collecting"
  PROVE  \/ metadata' = NoMetadata
         \/ /\ metadata.present /\ metadata'.present
            /\ metadata'.cohort_namespaces = metadata.cohort_namespaces
            /\ metadata'.possibly_sent_to_all_cohorts =
                  metadata.possibly_sent_to_all_cohorts
PROOF
<1> USE DEF TypeOK, CoordinatorTypeOK
<1>1. CASE PollAborted
  BY <1>1 DEF PollAborted, CleanUp
<1>2. CASE FinishCollecting
  BY <1>2 DEF FinishCollecting, CleanUp
<1>3. ASSUME NEW c \in Cohort, PollSingleCohort(c), metadata' # NoMetadata
      PROVE  metadata' = metadata /\ metadata.present
  BY <1>3 DEF PollSingleCohort, CleanUp, CanAskCohorts
<1>4. CASE BeginCollecting
  BY <1>4 DEF BeginCollecting, CanReadDecision, CanAskCohorts
<1>5. ASSUME NEW c \in Cohort, CollectFromCohort(c)
      PROVE  /\ metadata.present /\ metadata'.present
             /\ metadata'.cohort_namespaces = metadata.cohort_namespaces
             /\ metadata'.possibly_sent_to_all_cohorts =
                   metadata.possibly_sent_to_all_cohorts
  BY <1>5 DEF CollectFromCohort
<1>6. CASE ReadUnanswered
  BY <1>6 DEF ReadUnanswered, CanAskCohorts
<1> QED
  BY <1>1, <1>2, <1>3, <1>4, <1>5, <1>6 DEF GetTransactionResult

LEMMA EntryInvNext ==
  ASSUME TypeOK, RequestInv, EntryInv, CountedHaveResponded, [Next]_vars
  PROVE  EntryInv'
PROOF
<1>1. CASE ChainStep \/ CohortStep \/ UNCHANGED vars
  <2>1. UNCHANGED EntryDefs /\ client' = client
    BY <1>1 DEF ChainStep, CohortStep, vars, coordinatorVars, clientVars, EntryDefs
  <2> QED
    BY <2>1, EntryInvFrame
<1>2. ASSUME NEW h \in Request, Submit(h) \/ HandlerStep(h)
      PROVE  EntryInv'
  BY <1>2, EntryInvSubmit, EntryInvHandler
<1>3. CASE ReceiveResponse \/ ReplyFinalResponse \/ PollFails
  <2>1. UNCHANGED EntryDefs
    BY <1>3 DEF ReceiveResponse, ReplyFinalResponse, PollFails, ReadFails,
       coordinatorVars, EntryDefs
  <2>2. \/ client' = client
        \/ client = "submitting" /\ client' = "polling" /\ \E h \in Request : handler[h] = "ok"
        \/ client = "polling" /\ client' = "done"
    BY <1>3 DEF ReceiveResponse, ReplyFinalResponse, PollFails,
       TryGetTransactionResults, clientVars
  <2> QED
    BY <2>1, <2>2, EntryInvFrame
<1>4. CASE GetTransactionResult
  <2>1. /\ UNCHANGED <<handler, sub_transactions, cohort_counter>>
        /\ client = "polling" /\ client' \in {"polling", "done"}
    BY <1>4 DEF GetTransactionResult, Reply, TryGetTransactionResults, clientVars
  <2>2. \A h \in Request : handler[h] \notin {"voting", "sending"}
    BY <2>1 DEF EntryInv, EntryIsKept
  <2> QED
    BY <1>4, <2>1, <2>2, PollKeepsEntry, EntryInvLost DEF CountedHaveResponded
<1>5. CASE Restart
  <2>1. /\ UNCHANGED <<sub_transactions, cohort_counter>>
        /\ metadata' = NoMetadata
        /\ client' # "submitting"
        /\ client' = "polling" => client = "polling"
    BY <1>5 DEF Restart, CoordinatorCrash, clientVars
  <2>2. \A h \in Request :
          /\ handler'[h] # handler[h] => handler'[h] = "failed"
          /\ handler[h] = "ok" => handler'[h] = "ok"
          /\ handler'[h] \notin {"voting", "sending"}
    BY <1>5 DEF Restart, CoordinatorCrash, TypeOK, CoordinatorTypeOK
  <2> QED
    BY <2>1, <2>2, EntryInvLost
<1> QED
  BY <1>1, <1>2, <1>3, <1>4, <1>5 DEF Next
-----------------------------------------------------------------------------
(* The cohorts' final answers.                                              *)

\* A cohort ends its database transaction in the step that makes its answer
\* final, and begins no other (CommitTransaction, AbortTransaction).
LEMMA FinalAnswersNext ==
  ASSUME IInv, FinalAnswersAreTrue, [Next]_vars
  PROVE  /\ FinalAnswersAreTrue'
         /\ \A c \in Cohort :
              /\ db[c] = "committed" => db'[c] = "committed"
              /\ db[c] = "aborted" => db'[c] = "aborted"
PROOF
<1> stage \in [Cohort -> Stage] /\ db \in [Cohort -> DbState]
  BY DEF IInv, TypeOK, CohortTypeOK
<1> USE DEF FinalAnswersAreTrue
<1>1. CASE CohortStep
  BY <1>1 DEF CohortStep, CohortNext, ProcessFails, AbortAfterVote,
     ProcessOnlyCohort, PersistAndVote, VoteReturns, DecisionFound,
     DecisionPending, DecisionUnanswered, DecisionRpcFails, WakeUp, CommitTransaction,
     AbortTransaction, Crash
<1>2. CASE ~CohortStep
  BY <1>2, OtherSteps DEF cohortVars
<1> QED
  BY <1>1, <1>2

\* Once a cohort may have been asked to prepare, a decision is for good.
LEMMA DecidedForGood ==
  ASSUME IInv, [Next]_vars, SomePrepareSent, NEW d \in {"COMMIT", "ABORT"}, Decided(d)
  PROVE  SomePrepareSent' /\ Decided(d)'
PROOF
<1>1. Decided(d)'
  BY DecisionIsStable DEF IInv, Decided
<1>2. ASSUME NEW h \in Request
      PROVE  cohort_counter[h] > 0 => cohort_counter'[h] > 0
  <2>1. cohort_counter \in [Request -> 0 .. NumCohorts]
    BY DEF IInv, TypeOK, CoordinatorTypeOK
  <2>2. CASE \E g \in Request : SendPrepare(g)
    BY <2>1, <2>2, NumCohortsAssumption DEF SendPrepare
  <2>3. CASE ~\E g \in Request : SendPrepare(g)
    BY <2>3 DEF Next, ChainStep, CohortStep, Submit, CommitAtomicTransaction,
       AlreadySent, RejectConfig, BeginVoting, BeginSingleCohort, HandlerStep,
       VotingStarted, StartVotingFailed, AllSent, ReceiveResponse,
       ReplyFinalResponse, GetTransactionResult, PollFails, Restart, CoordinatorCrash,
       coordinatorVars, vars
  <2> QED
    BY <2>2, <2>3
<1>3. SomePrepareSent'
  BY <1>2 DEF SomePrepareSent
<1> QED
  BY <1>1, <1>3

\* A response that agrees with the databases goes on agreeing with them.
LEMMA TruthStays ==
  ASSUME IInv, FinalAnswersAreTrue, [Next]_vars, NEW status, IsTrueOf(status)
  PROVE  IsTrueOf(status)'
PROOF
<1>1. ASSUME status = "aborted", ~OnlyCohort
      PROVE  SomePrepareSent' /\ Decided("ABORT")'
  <2>1. SomePrepareSent /\ Decided("ABORT")
    BY <1>1 DEF IsTrueOf
  <2> QED
    BY <2>1, DecidedForGood
<1> QED
  BY <1>1, FinalAnswersNext DEF IsTrueOf, OnlyCohort

\* A single cohort's final answer is the truth about all cohorts.
LEMMA OnlyAnswerIsTrue ==
  ASSUME IInv, FinalAnswersAreTrue, OnlyCohort, NEW c \in Cohort
  PROVE  IsTrueOf(TransactionResult(c))
PROOF
<1> SUFFICES ASSUME TransactionResult(c) # "pending"
             PROVE  IsTrueOf(TransactionResult(c))
  BY DEF IsTrueOf
<1>1. stage[c] \in {"committed", "aborted"}
  BY DEF TransactionResult
<1>2. PICK h \in Request : cohort_counter[h] > cohort_index[c]
  BY <1>1 DEF IInv, VoteInv, PreparedAreListed, Listed
<1>3. cohort_counter[h] > 0
  BY <1>2 DEF IInv, TypeOK, CohortTypeOK, CoordinatorTypeOK, CohortIndex, OnlyCohort
<1>4. sub_transactions[h] \in CohortOrder
  BY <1>3 DEF IInv, RequestInv, SendersAreReady
<1>5. \A d \in Cohort : d = c
  BY <1>4 DEF CohortOrder, CohortIndex, OnlyCohort
<1> QED
  BY <1>1, <1>5 DEF TransactionResult, IsTrueOf, FinalAnswersAreTrue
-----------------------------------------------------------------------------
(* GetTransactionResult.                                                    *)

\* When the blockchain has decided to commit, a request to every cohort was
\* sent, so cohort_namespaces lists them all.
LEMMA AllAreListed ==
  ASSUME IInv, NamespacesAreListed, metadata.present, Decided("COMMIT"),
         NEW c \in Cohort
  PROVE  \E i \in 1 .. Len(metadata.cohort_namespaces) :
           metadata.cohort_namespaces[i] = c
PROOF
<1>1. persisted[c]
  BY CommitNeedsAll DEF IInv
<1>2. stage[c] # "none"
  BY <1>1 DEF IInv, VoteInv, NotVotedYet
<1>3. PICK h \in Request :
        cohort_counter[h] > cohort_index[c] /\ sub_transactions[h][cohort_index[c]] = c
  BY <1>2 DEF IInv, VoteInv, PreparedAreListed, Listed
<1>4. /\ cohort_index[c] \in Nat /\ cohort_counter[h] \in Nat
      /\ cohort_index[c] + 1 \in 1 .. cohort_counter[h]
  BY <1>3, NumCohortsAssumption DEF IInv, TypeOK, CohortTypeOK, CoordinatorTypeOK, CohortIndex
<1>5. /\ Len(metadata.cohort_namespaces) = cohort_counter[h]
      /\ metadata.cohort_namespaces[cohort_index[c] + 1] =
           sub_transactions[h][(cohort_index[c] + 1) - 1]
  BY <1>4 DEF NamespacesAreListed
<1>6. (cohort_index[c] + 1) - 1 = cohort_index[c]
  BY <1>4
<1> QED
  BY <1>3, <1>4, <1>5, <1>6

PollInv == KeptAnswersAreTrue /\ CountedHaveResponded /\ ResponsesAreTrue

PollDefs == <<metadata, poll, response, result>>

\* Steps that leave the entries alone, or give up a call that was counting.
LEMMA PollInvFrame ==
  ASSUME IInv, FinalAnswersAreTrue, PollInv, [Next]_vars,
         UNCHANGED <<metadata, response, result>>,
         \/ poll' = poll /\ (client' = client \/ poll.stage # "collecting")
         \/ poll'.stage # "collecting"
  PROVE  PollInv'
PROOF
<1>1. KeptAnswersAreTrue'
  <2>1. ASSUME NEW c \in metadata.cohorts_already_responded
        PROVE  db'[c] = "committed"
    <3>1. c \in Cohort /\ db[c] = "committed"
      BY DEF PollInv, KeptAnswersAreTrue, IInv, TypeOK, CoordinatorTypeOK
    <3> QED
      BY <3>1, FinalAnswersNext
  <2>2. ASSUME metadata.decision # "PENDING"
        PROVE  SomePrepareSent' /\ Decided("COMMIT")'
    <3>1. SomePrepareSent /\ Decided("COMMIT")
      BY <2>2 DEF PollInv, KeptAnswersAreTrue
    <3> QED
      BY <3>1, DecidedForGood
  <2> QED
    BY <2>1, <2>2 DEF PollInv, KeptAnswersAreTrue, OnlyCohort
<1>2. CountedHaveResponded'
  BY DEF PollInv, CountedHaveResponded
<1>3. ResponsesAreTrue'
  <2>1. PICK s, r : s = response.status /\ r = result
    OBVIOUS
  <2>2. IsTrueOf(s)' /\ IsTrueOf(r)'
    BY <2>1, TruthStays DEF PollInv, ResponsesAreTrue
  <2> QED
    BY <2>1, <2>2 DEF ResponsesAreTrue, IsTrueOf
<1> QED
  BY <1>1, <1>2, <1>3 DEF PollInv

\* Asking for the decision gives one that is for good: all was sent before the
\* client asks.
LEMMA ReadDecisionIsForGood ==
  ASSUME IInv, EntryInv, PollInv, client = "polling", CanReadDecision,
         PollDecision # "PENDING"
  PROVE  /\ SomePrepareSent
         /\ Decided(PollDecision)
         /\ PollDecision = "ABORT" => ~OnlyCohort
PROOF
<1>1. SomePrepareSent
  <2>1. AllPrepareSent
    BY DEF EntryInv, AnsweredAreSent
  <2> QED
    BY <2>1, NumCohortsAssumption DEF AllPrepareSent, SomePrepareSent
<1>2. CASE metadata.decision = "PENDING"
  <2>1. HasVoting(voting) /\ PollDecision = CurrentDecision
    BY <1>2 DEF CanReadDecision, PollDecision
  <2>2. ~OnlyCohort
    BY <2>1 DEF IInv, RequestInv, StartCallsInOrder, HasVoting, NoVoting
  <2> QED
    BY <1>1, <2>1, <2>2 DEF Decided
<1>3. CASE metadata.decision # "PENDING"
  BY <1>1, <1>3 DEF PollInv, KeptAnswersAreTrue, PollDecision
<1> QED
  BY <1>2, <1>3

\* A step of GetTransactionResult changes nothing the truth depends on.
LEMMA PollFrame ==
  ASSUME GetTransactionResult, NEW status
  PROVE  /\ UNCHANGED <<SomePrepareSent, db>>
         /\ \A d : Decided(d)' = Decided(d)
         /\ IsTrueOf(status)' = IsTrueOf(status)
PROOF
<1>1. UNCHANGED <<voting, block_time, db, cohort_counter>>
  BY DEF GetTransactionResult, chainVars, cohortVars
<1>2. SomePrepareSent' = SomePrepareSent
  BY <1>1 DEF SomePrepareSent
<1>3. \A d : Decided(d)' = Decided(d)
  BY <1>1 DEF Decided, CurrentDecision
<1> QED
  BY <1>1, <1>2, <1>3 DEF IsTrueOf, OnlyCohort

\* The entries after CleanUpTransactionMetadata.
LEMMA CleanedUp ==
  ASSUME IInv, PollInv, GetTransactionResult, NEW status, CleanUp(status),
         IsTrueOf(status)
  PROVE  PollInv'
PROOF
<1>1. /\ metadata' = NoMetadata /\ poll' = NoPoll /\ response'.status = status
      /\ poll'.stage = "idle"
  BY DEF CleanUp, NoPoll
<1>2. result' = result \/ result' = response'.status \/ result' = response.status
  BY DEF GetTransactionResult, Reply, TryGetTransactionResults, clientVars
<1>3. KeptAnswersAreTrue' /\ CountedHaveResponded'
  BY <1>1 DEF KeptAnswersAreTrue, CountedHaveResponded, NoMetadata
<1>4. ResponsesAreTrue'
  <2>1. PICK r : r = result'
    OBVIOUS
  <2>2. IsTrueOf(r) /\ IsTrueOf(status)
    BY <1>1, <1>2, <2>1 DEF PollInv, ResponsesAreTrue
  <2>3. IsTrueOf(r)' /\ IsTrueOf(status)'
    BY <2>2, PollFrame
  <2> QED
    BY <1>1, <2>1, <2>3 DEF ResponsesAreTrue, IsTrueOf
<1> QED
  BY <1>3, <1>4 DEF PollInv

\* Answers that are not final: the client is told nothing it takes for an outcome.
LEMMA NotFinal ==
  ASSUME PollInv, GetTransactionResult,
         \/ response'.status = response.status
         \/ response'.status \in {"pending", "partial"}
  PROVE  ResponsesAreTrue'
PROOF
<1>1. \/ result' = result
      \/ result' = response.status
      \/ result' \in {"pending", "partial"}
  BY DEF GetTransactionResult, Reply, TryGetTransactionResults, clientVars
<1>2. PICK r, s : r = result' /\ s = response'.status
  OBVIOUS
<1>3. IsTrueOf(r) /\ IsTrueOf(s)
  BY <1>1, <1>2 DEF PollInv, ResponsesAreTrue, IsTrueOf
<1>4. IsTrueOf(r)' /\ IsTrueOf(s)'
  BY <1>3, PollFrame
<1> QED
  BY <1>2, <1>4 DEF ResponsesAreTrue, IsTrueOf

\* A round of the loop counts a cohort only if its database has committed
\* (UpdateCommittedResponseFromCohorts).
LEMMA CollectKeepsCount ==
  ASSUME IInv, FinalAnswersAreTrue, PollInv, GetTransactionResult,
         NEW c \in Cohort, CollectFromCohort(c)
  PROVE  PollInv'
PROOF
<1> DEFINE ns == metadata.cohort_namespaces
           responded == metadata.cohorts_already_responded
<1>1. /\ poll.stage = "collecting" /\ poll.next <= Len(ns) /\ c = ns[poll.next]
      /\ poll.next \in Nat \ {0} /\ poll.committed \in Nat
      /\ ns \in Seq(Cohort) /\ responded \subseteq Cohort
      /\ client = "polling" /\ client' = client
  BY DEF CollectFromCohort, IInv, TypeOK, CoordinatorTypeOK, PollInv,
     CountedHaveResponded, GetTransactionResult, BeginCollecting, CanReadDecision,
     CanAskCohorts, PollAborted, FinishCollecting, PollSingleCohort, clientVars
<1>2. /\ metadata'.single_cohort = metadata.single_cohort
      /\ metadata'.decision = metadata.decision
      /\ metadata'.present = metadata.present
      /\ metadata'.cohort_namespaces = ns
      /\ responded \subseteq metadata'.cohorts_already_responded
      /\ metadata'.cohorts_already_responded \subseteq responded \cup {c}
      /\ metadata'.cohorts_already_responded # responded => db[c] = "committed"
  BY DEF CollectFromCohort, TransactionResult, FinalAnswersAreTrue, IInv, TypeOK,
     CoordinatorTypeOK
<1>3. /\ poll'.stage = "collecting" /\ poll'.next = poll.next + 1
      /\ \/ poll'.committed = poll.committed
         \/ poll'.committed = poll.committed + 1 /\ c \in metadata'.cohorts_already_responded
  <2>1. \/ /\ c \in metadata'.cohorts_already_responded
           /\ poll' = [poll EXCEPT !.next = poll.next + 1,
                                   !.committed = poll.committed + 1]
        \/ poll' = [poll EXCEPT !.next = poll.next + 1]
    BY DEF CollectFromCohort, IInv, TypeOK, CoordinatorTypeOK
  <2>2. poll \in [stage : {"idle", "unanswered", "collecting"}, next : Nat \ {0}, committed : Nat]
    BY DEF IInv, TypeOK, CoordinatorTypeOK
  <2> QED
    BY <1>1, <2>1, <2>2
<1>4. KeptAnswersAreTrue'
  BY <1>2, PollFrame DEF PollInv, KeptAnswersAreTrue, OnlyCohort
<1>5. CountedHaveResponded'
  <2>1. /\ metadata.present /\ metadata.decision = "COMMIT"
        /\ poll.committed < poll.next
        /\ poll.committed = poll.next - 1 =>
             \A i \in 1 .. poll.next - 1 : ns[i] \in responded
    BY <1>1 DEF PollInv, CountedHaveResponded
  <2>2. poll'.next <= Len(ns) + 1 /\ poll'.committed < poll'.next
    BY <1>1, <1>3, <2>1
  <2>3. ASSUME poll'.committed = poll'.next - 1, NEW i \in 1 .. poll'.next - 1
        PROVE  ns[i] \in metadata'.cohorts_already_responded
    <3>1. /\ poll.committed = poll.next - 1
          /\ c \in metadata'.cohorts_already_responded
      BY <1>1, <1>3, <2>1, <2>3
    <3>2. i \in 1 .. poll.next - 1 \/ i = poll.next
      BY <1>1, <1>3
    <3> QED
      BY <1>1, <1>2, <2>1, <3>1, <3>2
  <2> QED
    BY <1>1, <1>2, <2>1, <2>2, <2>3 DEF CountedHaveResponded
<1>6. ResponsesAreTrue'
  <2>1. response'.status = response.status \/ response'.status \in {"pending", "partial"}
    BY DEF CollectFromCohort, IInv, TypeOK, CoordinatorTypeOK
  <2> QED
    BY <2>1, NotFinal DEF PollInv
<1> QED
  BY <1>4, <1>5, <1>6 DEF PollInv

\* Every step of GetTransactionResult: a final response is only given when it
\* is true of all cohorts.
LEMMA PollInvPoll ==
  ASSUME IInv, EntryInv, FinalAnswersAreTrue, PollInv, GetTransactionResult
  PROVE  PollInv'
PROOF
<1>1. CASE PollAborted
  <2>1. PollDecision = "ABORT" /\ CanReadDecision /\ CleanUp("aborted")
        /\ client = "polling"
    BY <1>1 DEF PollAborted, GetTransactionResult
  <2>2. IsTrueOf("aborted")
    BY <2>1, ReadDecisionIsForGood DEF IsTrueOf
  <2> QED
    BY <2>1, <2>2, CleanedUp
<1>2. CASE FinishCollecting
  <2>1. CASE poll.committed = Len(metadata.cohort_namespaces)
    <3> DEFINE ns == metadata.cohort_namespaces
    <3>1. /\ poll.stage = "collecting" /\ poll.next > Len(ns) /\ CleanUp("committed")
          /\ poll.next \in Nat \ {0} /\ ns \in Seq(Cohort)
      BY <1>2, <2>1 DEF FinishCollecting, IInv, TypeOK, CoordinatorTypeOK
    <3>2. poll.next <= Len(ns) + 1 /\ metadata.present /\ metadata.decision = "COMMIT"
      BY <3>1 DEF PollInv, CountedHaveResponded
    <3>3. Len(ns) \in Nat /\ poll.next - 1 = Len(ns)
      BY <3>1, <3>2
    <3>4. \A i \in 1 .. Len(ns) : ns[i] \in metadata.cohorts_already_responded
      BY <2>1, <3>1, <3>3 DEF PollInv, CountedHaveResponded
    <3>5. Decided("COMMIT")
      BY <3>2 DEF PollInv, KeptAnswersAreTrue
    <3>6. ASSUME NEW c \in Cohort
          PROVE  db[c] = "committed"
      <4>1. PICK i \in 1 .. Len(ns) : ns[i] = c
        BY <3>2, <3>5, AllAreListed DEF EntryInv
      <4> QED
        BY <3>4, <4>1 DEF PollInv, KeptAnswersAreTrue
    <3>7. IsTrueOf("committed")
      BY <3>6 DEF IsTrueOf
    <3> QED
      BY <3>1, <3>7, CleanedUp
  <2>2. CASE poll.committed # Len(metadata.cohort_namespaces)
    <3>1. UNCHANGED <<metadata, response>> /\ poll' = NoPoll /\ poll'.stage = "idle"
      BY <1>2, <2>2 DEF FinishCollecting, NoPoll
    <3>2. KeptAnswersAreTrue' /\ CountedHaveResponded'
      BY <3>1, PollFrame DEF PollInv, KeptAnswersAreTrue, CountedHaveResponded, OnlyCohort
    <3> QED
      BY <3>1, <3>2, NotFinal DEF PollInv
  <2> QED
    BY <2>1, <2>2
<1>3. ASSUME NEW c \in Cohort, PollSingleCohort(c)
      PROVE  PollInv'
  <2>1. OnlyCohort /\ poll.stage = "idle"
    BY <1>3 DEF PollSingleCohort, CanAskCohorts, PollInv, KeptAnswersAreTrue
  <2>2. CASE TransactionResult(c) # "pending"
    BY <1>3, <2>1, <2>2, OnlyAnswerIsTrue, CleanedUp DEF PollSingleCohort
  <2>3. CASE TransactionResult(c) = "pending"
    <3>1. UNCHANGED <<metadata, poll>> /\ response'.status = "pending"
      BY <1>3, <2>3 DEF PollSingleCohort, IInv, TypeOK, CoordinatorTypeOK
    <3>2. KeptAnswersAreTrue' /\ CountedHaveResponded'
      BY <2>1, <3>1, PollFrame
         DEF PollInv, KeptAnswersAreTrue, CountedHaveResponded, OnlyCohort
    <3> QED
      BY <3>1, <3>2, NotFinal DEF PollInv
  <2> QED
    BY <2>2, <2>3
<1>4. CASE BeginCollecting
  <2>1. /\ CanReadDecision /\ PollDecision = "COMMIT" /\ client = "polling"
        /\ poll'.stage = "collecting" /\ poll'.next = 1 /\ poll'.committed = 0
        /\ response' = response
    BY <1>4 DEF BeginCollecting, GetTransactionResult
  <2>2. client' = client
    BY <2>1, <1>4 DEF GetTransactionResult, PollAborted, FinishCollecting,
       PollSingleCohort, CanReadDecision, CanAskCohorts, clientVars
  <2>3. /\ metadata'.single_cohort = metadata.single_cohort
        /\ metadata'.decision = "COMMIT"
        /\ metadata'.present
        /\ metadata'.cohort_namespaces = metadata.cohort_namespaces
        /\ metadata'.cohorts_already_responded = metadata.cohorts_already_responded
        /\ metadata.cohort_namespaces \in Seq(Cohort)
    BY <1>4 DEF BeginCollecting, CanReadDecision, CanAskCohorts, IInv, TypeOK,
       CoordinatorTypeOK
  <2>4. SomePrepareSent /\ Decided("COMMIT")
    BY <2>1, ReadDecisionIsForGood
  <2>5. KeptAnswersAreTrue'
    BY <2>3, <2>4, PollFrame DEF PollInv, KeptAnswersAreTrue, OnlyCohort
  <2>6. CountedHaveResponded'
    BY <2>1, <2>2, <2>3 DEF CountedHaveResponded
  <2> QED
    BY <2>1, <2>5, <2>6, NotFinal DEF PollInv
<1>5. ASSUME NEW c \in Cohort, CollectFromCohort(c)
      PROVE  PollInv'
  BY <1>5, CollectKeepsCount
<1>6. CASE ReadUnanswered
  <2>1. UNCHANGED <<metadata, response>> /\ poll'.stage = "unanswered"
    BY <1>6 DEF ReadUnanswered, IInv, TypeOK, CoordinatorTypeOK
  <2>2. KeptAnswersAreTrue' /\ CountedHaveResponded'
    BY <2>1, PollFrame DEF PollInv, KeptAnswersAreTrue, CountedHaveResponded, OnlyCohort
  <2> QED
    BY <2>1, <2>2, NotFinal DEF PollInv
<1> QED
  BY <1>1, <1>2, <1>3, <1>4, <1>5, <1>6 DEF GetTransactionResult
-----------------------------------------------------------------------------
(* The theorems.                                                            *)

\* ResultInv is inductive with IInv.
LEMMA ResultInvNext ==
  ASSUME IInv, ResultInv, [Next]_vars
  PROVE  ResultInv'
PROOF
<1>1. EntryInv /\ PollInv /\ FinalAnswersAreTrue
  BY DEF ResultInv, EntryInv, PollInv
<1>2. EntryInv'
  BY <1>1, EntryInvNext DEF IInv, PollInv
<1>3. FinalAnswersAreTrue'
  BY <1>1, FinalAnswersNext
<1>4. PollInv'
  <2>1. CASE GetTransactionResult
    BY <1>1, <2>1, PollInvPoll
  <2>2. CASE Restart
    <3>1. /\ metadata' = NoMetadata /\ response' = NoResponse /\ poll'.stage = "idle"
          /\ result' \in {result, "error"}
          /\ UNCHANGED <<voting, block_time, db, cohort_counter>>
      BY <2>2 DEF Restart, CoordinatorCrash, clientVars, chainVars, cohortVars, NoPoll
    <3>2. PICK r : r = result'
      OBVIOUS
    <3>3. IsTrueOf(r)
      BY <1>1, <3>1, <3>2 DEF PollInv, ResponsesAreTrue, IsTrueOf
    <3>4. IsTrueOf(r)'
      BY <1>1, <3>3, TruthStays
    <3> QED
      BY <3>1, <3>2, <3>4 DEF PollInv, KeptAnswersAreTrue, CountedHaveResponded,
         ResponsesAreTrue, IsTrueOf, NoMetadata, NoResponse
  <2>3. CASE ReplyFinalResponse
    <3>1. UNCHANGED <<metadata, poll, response>> /\ poll.stage = "idle"
          /\ result' \in {result, response.status}
      BY <2>3 DEF ReplyFinalResponse, TryGetTransactionResults, clientVars,
         coordinatorVars
    <3>2. PICK r, s : r = result' /\ s = response.status
      OBVIOUS
    <3>3. IsTrueOf(r) /\ IsTrueOf(s)
      BY <1>1, <3>1, <3>2 DEF PollInv, ResponsesAreTrue
    <3>4. IsTrueOf(r)' /\ IsTrueOf(s)'
      BY <1>1, <3>3, TruthStays
    <3>5. UNCHANGED <<voting, block_time, db, cohort_counter>>
      BY <2>3 DEF ReplyFinalResponse, chainVars, cohortVars, coordinatorVars
    <3> QED
      BY <1>1, <3>1, <3>2, <3>4, <3>5 DEF PollInv, KeptAnswersAreTrue, CountedHaveResponded,
         ResponsesAreTrue, IsTrueOf, SomePrepareSent, Decided, CurrentDecision, OnlyCohort
  <2>4. CASE ReceiveResponse
    <3>1. UNCHANGED PollDefs /\ client = "submitting"
      BY <2>4 DEF ReceiveResponse, coordinatorVars, PollDefs
    <3>2. poll.stage # "collecting"
      BY <1>1, <3>1 DEF PollInv, CountedHaveResponded
    <3> QED
      BY <1>1, <3>1, <3>2, PollInvFrame DEF PollDefs
  <2>5. CASE ChainStep \/ CohortStep \/ UNCHANGED vars
    <3>1. UNCHANGED PollDefs /\ client' = client
      BY <2>5 DEF ChainStep, CohortStep, vars, coordinatorVars, clientVars, PollDefs
    <3> QED
      BY <1>1, <3>1, PollInvFrame DEF PollDefs
  <2>7. CASE PollFails
    <3>1. UNCHANGED <<metadata, response, result>> /\ poll'.stage # "collecting"
      BY <2>7 DEF PollFails, ReadFails, NoPoll, clientVars
    <3> QED
      BY <1>1, <3>1, PollInvFrame
  <2>6. ASSUME NEW h \in Request, Submit(h) \/ HandlerStep(h)
        PROVE  PollInv'
    <3>1. client = "submitting" /\ client' = client
      BY <1>1, <2>6 DEF Submit, CommitAtomicTransaction, HandlerStep, VotingStarted,
         StartVotingFailed, AllSent, SendPrepare, EntryInv, EntryIsKept, clientVars
    <3>2. poll.stage # "collecting" /\ poll' = poll /\ response' = response /\ result' = result
      BY <1>1, <2>6, <3>1 DEF PollInv, CountedHaveResponded, Submit,
         CommitAtomicTransaction, AlreadySent, RejectConfig, BeginVoting,
         BeginSingleCohort, HandlerStep, VotingStarted, StartVotingFailed, AllSent,
         SendPrepare, clientVars
    <3>3. /\ metadata'.single_cohort => OnlyCohort
          /\ metadata'.decision = metadata.decision
          /\ metadata'.cohorts_already_responded = metadata.cohorts_already_responded
      BY <1>1, <2>6 DEF PollInv, KeptAnswersAreTrue, Submit, CommitAtomicTransaction,
         AlreadySent, RejectConfig, BeginVoting, BeginSingleCohort, HandlerStep,
         VotingStarted, StartVotingFailed, AllSent, SendPrepare, IInv, TypeOK,
         CoordinatorTypeOK
    <3>4. KeptAnswersAreTrue'
      <4>1. ASSUME NEW c \in metadata.cohorts_already_responded
            PROVE  db'[c] = "committed"
        <5>1. c \in Cohort /\ db[c] = "committed"
          BY <1>1 DEF PollInv, KeptAnswersAreTrue, IInv, TypeOK, CoordinatorTypeOK
        <5> QED
          BY <1>1, <5>1, FinalAnswersNext
      <4>2. ASSUME metadata.decision # "PENDING"
            PROVE  /\ SomePrepareSent' /\ Decided("COMMIT")'
                   /\ metadata.decision = "COMMIT"
        <5>1. SomePrepareSent /\ Decided("COMMIT") /\ metadata.decision = "COMMIT"
          BY <1>1, <4>2 DEF PollInv, KeptAnswersAreTrue
        <5> QED
          BY <5>1, DecidedForGood
      <4> QED
        BY <3>3, <4>1, <4>2 DEF KeptAnswersAreTrue, OnlyCohort
    <3>5. ResponsesAreTrue'
      <4>1. PICK s, r : s = response.status /\ r = result
        OBVIOUS
      <4>2. IsTrueOf(s)' /\ IsTrueOf(r)'
        BY <1>1, <4>1, TruthStays DEF PollInv, ResponsesAreTrue
      <4> QED
        BY <3>2, <4>1, <4>2 DEF ResponsesAreTrue, IsTrueOf
    <3> QED
      BY <3>2, <3>4, <3>5 DEF PollInv, CountedHaveResponded
  <2> QED
    BY <2>1, <2>2, <2>3, <2>4, <2>5, <2>6, <2>7 DEF Next
<1> QED
  BY <1>2, <1>3, <1>4 DEF ResultInv, EntryInv, PollInv

\* What the coordinator keeps and counts between and during the calls of
\* GetTransactionResult is true of the cohorts (SendCohortPrepareRequests,
\* UpdateCommittedResponseFromCohorts, CleanUpTransactionMetadata).
THEOREM KeptAnswers == Spec => []ResultInv
PROOF
<1>1. Init => ResultInv
  <2> SUFFICES ASSUME Init PROVE ResultInv
    OBVIOUS
  <2> USE NumCohortsAssumption DEF Init, CohortInit, CoordinatorInit
  <2>1. EntryIsKept /\ AnsweredAreSent /\ NamespacesAreListed
    BY DEF EntryIsKept, AnsweredAreSent, NamespacesAreListed, NoMetadata
  <2>2. FinalAnswersAreTrue
    BY DEF FinalAnswersAreTrue
  <2>3. KeptAnswersAreTrue /\ CountedHaveResponded /\ ResponsesAreTrue
    BY DEF KeptAnswersAreTrue, CountedHaveResponded, ResponsesAreTrue, IsTrueOf,
       NoMetadata, NoPoll, NoResponse
  <2> QED
    BY <2>1, <2>2, <2>3 DEF ResultInv
<1>2. IInv /\ ResultInv /\ [Next]_vars => ResultInv'
  BY ResultInvNext
<1> QED
  BY <1>1, <1>2, Inductive, PTL DEF Spec

\* The client is told committed only when every cohort's database has committed
\* and aborted only when none has and none will (UpdateCommittedResponseFrom-
\* Cohorts, UpdateAbortedResponseFromCohorts).
THEOREM ClientLearnsTheOutcome == Spec => []ClientIsToldTheTruth
PROOF
<1>1. IInv /\ ResultInv => ClientIsToldTheTruth
  <2> SUFFICES ASSUME IInv, IsTrueOf(result) PROVE ClientIsToldTheTruth
    BY DEF ResultInv, ResponsesAreTrue
  <2>1. ASSUME result = "aborted", NEW c \in Cohort, db[c] = "committed"
        PROVE  FALSE
    BY <2>1 DEF IsTrueOf, IInv, DecisionInv, CommittedAreDecided, Decided
  <2> QED
    BY <2>1 DEF IsTrueOf, ClientIsToldTheTruth
<1> QED
  BY <1>1, KeptAnswers, Inductive, PTL
=============================================================================
