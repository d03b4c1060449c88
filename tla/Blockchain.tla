----------------------------- MODULE Blockchain -----------------------------
(***************************************************************************)
(* The blockchain as the coordinator and the cohorts of one transaction    *)
(* see it: the contract's entry for the transaction, the block timestamp,  *)
(* the calls that were sent as blockchain transactions and are not mined   *)
(* yet, and the RPCs to the adapter that wait for them.                    *)
(*                                                                         *)
(* startVoting and vote are blockchain transactions; getVotingDecision is  *)
(* a read of the latest block and needs none.  The adapter answers such an *)
(* RPC when it has the receipt, or the decision.  When the call reverts or *)
(* gets lost, web3 gives up waiting for the receipt of a call that is      *)
(* mined after all, or the read fails, contract_client.js only logs it and *)
(* answers nothing.  No method of TwoPhaseCommit sets a deadline, so the   *)
(* caller then waits until the adapter process dies, which ends the RPC    *)
(* with an error.                                                          *)
(*                                                                         *)
(* Every adapter sends from one shared account, so the two startVoting     *)
(* calls of a request and its retry are mined in the order they were sent. *)
(* Votes are mined in any order.                                           *)
(***************************************************************************)
EXTENDS Voting

CONSTANTS Cohort,       \* the cohorts the transaction has operations for
          NumCohorts,   \* how many they are
          MaxTime,      \* bound: the last block timestamp
          MaxRequests,  \* bound: CommitAtomicTransaction requests for the id
          CallsGetLost  \* whether a call to the chain, or what the chain
                        \* returns of it, can get lost

ASSUME NumCohortsAssumption == NumCohorts \in Nat \ {0}
ASSUME BoundsAssumption == MaxTime \in Nat /\ MaxRequests \in Nat \ {0}
ASSUME CallsGetLostAssumption == CallsGetLost \in BOOLEAN

Request     == 1 .. MaxRequests
CohortIndex == 0 .. NumCohorts - 1

VARIABLES voting,          \* the contract's entry for the transaction
          block_time,      \* timestamp of the latest block
          pending_starts,  \* startVoting calls not mined yet
          pending_votes,   \* vote calls not mined yet
          start_rpc,       \* the StartVoting RPC of each request's handler
          vote_rpc         \* the Vote RPC of each cohort

chainVars == <<voting, block_time, pending_starts, pending_votes,
               start_rpc, vote_rpc>>

StartCall == [request : Request, timeout : 0 .. MaxTime]
VoteCall  == [cohort : Cohort, cohort_id : CohortIndex,
              ballot : {"COMMIT", "ABORT"}]
RpcState  == {"idle", "sent", "ok", "error"}

VotingEntry ==
  {NoVoting} \cup
  [cohorts           : {NumCohorts},
   vote_timeout_time : 0 .. MaxTime,
   ballots           : [CohortIndex -> Ballot]]

ChainTypeOK ==
  /\ voting \in VotingEntry
  /\ block_time \in 0 .. MaxTime
  /\ pending_starts \subseteq StartCall
  /\ pending_votes \subseteq VoteCall
  /\ start_rpc \in [Request -> RpcState]
  /\ vote_rpc \in [Cohort -> RpcState]

ChainInit ==
  /\ voting = NoVoting
  /\ block_time = 0
  /\ pending_starts = {}
  /\ pending_votes = {}
  /\ start_rpc = [h \in Request |-> "idle"]
  /\ vote_rpc = [c \in Cohort |-> "idle"]

\* What getVotingDecision returns now, if the read of it succeeds; it reverts
\* when there is no voting.
CurrentDecision == getVotingDecision(voting, block_time)

\* The read of the decision may fail: it is never answered then.
ReadCanFail == CallsGetLost \/ ~HasVoting(voting)
-----------------------------------------------------------------------------
(* What the coordinator and the cohorts do to the chain: parts of their    *)
(* actions.                                                                *)

SendStartVoting(h, timeout) ==
  /\ pending_starts' = pending_starts \cup {[request |-> h, timeout |-> timeout]}
  /\ start_rpc' = [start_rpc EXCEPT ![h] = "sent"]
  /\ UNCHANGED <<voting, block_time, pending_votes, vote_rpc>>

SendVote(c, cohort_id, ballot) ==
  /\ pending_votes' = pending_votes \cup
       {[cohort |-> c, cohort_id |-> cohort_id, ballot |-> ballot]}
  /\ vote_rpc' = [vote_rpc EXCEPT ![c] = "sent"]
  /\ UNCHANGED <<voting, block_time, pending_starts, start_rpc>>

\* The caller takes the RPC's answer, or gives the RPC up because it crashed.
EndVoteRpc(c) ==
  /\ vote_rpc' = [vote_rpc EXCEPT ![c] = "idle"]
  /\ UNCHANGED <<voting, block_time, pending_starts, pending_votes, start_rpc>>
-----------------------------------------------------------------------------
(* The chain's own steps.                                                  *)

Answered(rpc, x, answer) ==
  [rpc EXCEPT ![x] = IF @ = "sent" THEN answer ELSE @]

\* Of a call that was executed the adapter gets the receipt and answers, or it
\* does not and stays silent.
WithReceipt(rpc, x) ==
  {Answered(rpc, x, "ok")} \cup (IF CallsGetLost THEN {rpc} ELSE {})

\* A startVoting call is executed; when a requirement fails it reverts and the
\* adapter stays silent.
MineStartVoting(call) ==
  /\ \A other \in pending_starts : call.request <= other.request
  /\ pending_starts' = pending_starts \ {call}
  /\ IF CanStartVoting(NumCohorts, call.timeout, block_time)
     THEN /\ voting' = StartedVoting(NumCohorts, call.timeout)
          /\ start_rpc' \in WithReceipt(start_rpc, call.request)
     ELSE UNCHANGED <<voting, start_rpc>>
  /\ UNCHANGED <<block_time, pending_votes, vote_rpc>>

MineVote_AnyTime(call) ==
  /\ pending_votes' = pending_votes \ {call}
  /\ IF CanVote_AnyTime(voting, call.cohort_id, call.ballot, block_time)
     THEN /\ voting' = Voted(voting, call.cohort_id, call.ballot)
          /\ vote_rpc' \in WithReceipt(vote_rpc, call.cohort)
     ELSE UNCHANGED <<voting, vote_rpc>>
  /\ UNCHANGED <<block_time, pending_starts, start_rpc>>

\* A vote call is executed, or reverts.  Also when the ballot is counted the cohort
\* may wait for the answer in vain.
MineVote(call) ==
  /\ pending_votes' = pending_votes \ {call}
  /\ IF CanVote(voting, call.cohort_id, call.ballot, block_time)
     THEN /\ voting' = Voted(voting, call.cohort_id, call.ballot)
          /\ vote_rpc' \in WithReceipt(vote_rpc, call.cohort)
     ELSE UNCHANGED <<voting, vote_rpc>>
  /\ UNCHANGED <<block_time, pending_starts, start_rpc>>

\* A call gets lost between the adapter and the chain.
LoseStartVoting(call) ==
  /\ CallsGetLost
  /\ pending_starts' = pending_starts \ {call}
  /\ UNCHANGED <<voting, block_time, pending_votes, start_rpc, vote_rpc>>

LoseVote(call) ==
  /\ CallsGetLost
  /\ pending_votes' = pending_votes \ {call}
  /\ UNCHANGED <<voting, block_time, pending_starts, start_rpc, vote_rpc>>

\* The adapter dies during an RPC: the caller gets an error, the call it sent
\* may be mined all the same.
StartVotingRpcFails(h) ==
  /\ start_rpc[h] = "sent"
  /\ start_rpc' = [start_rpc EXCEPT ![h] = "error"]
  /\ UNCHANGED <<voting, block_time, pending_starts, pending_votes, vote_rpc>>

VoteRpcFails(c) ==
  /\ vote_rpc[c] = "sent"
  /\ vote_rpc' = [vote_rpc EXCEPT ![c] = "error"]
  /\ UNCHANGED <<voting, block_time, pending_starts, pending_votes, start_rpc>>

\* A block with a later timestamp.
Tick ==
  /\ block_time < MaxTime
  /\ block_time' = block_time + 1
  /\ UNCHANGED <<voting, pending_starts, pending_votes, start_rpc, vote_rpc>>

ChainNext ==
  \/ \E call \in pending_starts : MineStartVoting(call) \/ LoseStartVoting(call)
  \/ \E call \in pending_votes : MineVote(call) \/ LoseVote(call)
  \/ \E h \in Request : StartVotingRpcFails(h)
  \/ \E c \in Cohort : VoteRpcFails(c)
  \/ Tick
=============================================================================
