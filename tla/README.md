# Two-phase commit on a blockchain: specifications and proofs

The repository implements atomic commit across databases. A client sends a
transaction to a coordinator, which splits it by database and sends each part
to a cohort; the cohorts vote in a smart contract, and the contract decides.
This directory models that system in TLA+, model-checks it with TLC and proves
its main safety properties with TLAPS.

## 1. The system

| component | state it keeps | operations | module |
|---|---|---|---|
| smart contract (`blockchain/contracts/TwoPhaseCommit.sol`) | per transaction: number of cohorts, vote timeout, the ballots packed into one number | `startVoting`, `vote`, `getVotingDecision` | `Voting`, `BallotTable`, `VotingContract` |
| blockchain and adapter (`adapter_server.js`, `contract_client.js`, `two_phase_commit.cc`) | latest block, calls in flight, RPCs that wait for a receipt | mining, loss, revert, the adapter's death | `Blockchain` |
| cohort, one transaction (`cohort_server.cc`) | where `ProcessTransaction` is, the database transaction, the persisted files, the final response | `PrepareTransaction`, `GetTransactionResult`; `ProcessTransaction` on a worker thread | `CohortServer` |
| cohort, many transactions (`cohort_server.cc`) | the queue of the thread pool, the lock on the whole database, the flags in the metadata | `AcquireWholeDbLock`, `ProcessTransactionInDb`, `ProcessOperationInDb`, `ReleaseLocksAndDeleteMetadata` | `CohortDatabases`, `SerialExecution`, `Operations` |
| cohort, locks by key (`cohort_server.cc`) | `locks_by_key_`, the key lists in the metadata | `AcquireDbLocks`, `GetLock`, `ReleaseLocksAndDeleteMetadata` | `KeyLocks` |
| database adapter (`lmdb_database_transaction_adapter.*`) | the LMDB transaction and whether it is read-only | `Begin`, `BeginReadOnly`, `Get`, `Put`, `Commit`, `Abort` | `DatabaseAdapter` |
| coordinator (`coordinator_server.cc`) | in memory: `metadata_by_transaction_`, `response_by_transaction_`; one thread per request | `CommitAtomicTransaction`, `GetTransactionResult` | `CoordinatorServer` (one id), `TransactionService` (many ids) |
| client library (`client.cc`) | the jobs of its thread pool, the futures | `CommitAsync`, `CommitSync`, `GetTransactionResults`, `WaitForCoordinator` | `TwoPhaseCommit`, `ClientProgram` |
| client program (`client_main.cc`) | the requests made from a file, `put_keys_by_address` | `CreateRunInfoFromFile`, `SendRequests` | `ClientProgram` |
| status utilities, server programs, deployment scripts | none of the protocol | conversion, flags, start-up | none |

How they interact. The coordinator calls `startVoting` and waits for its
receipt before it sends the first `PrepareTransaction`; it ignores whether that
RPC succeeds. A cohort pushes the request to its thread pool. A worker takes the
lock on the database, executes the operations in a database transaction, writes
the request and the response to disk, calls `vote` and, whatever the answer,
reads `getVotingDecision` until it is not PENDING; then it commits or aborts and
releases the lock. Neither the cohort nor the coordinator sets a deadline for these
calls, and the adapter answers none that the blockchain refused or lost
(`contract_client.js` logs it), so each of them may wait for ever. The coordinator reads the decision itself when the client
polls, and collects results from the cohorts when it is COMMIT. A transaction
with a single cohort uses no blockchain.

What is hard in it: every cohort and the coordinator read the decision at a time
of their own while votes are being mined and time passes; a vote or its answer
may be late or lost; a call that reverts and a read that fails are never answered;
the client retries,
or asks for the same twice; any server may crash; the coordinator's maps are
shared by its request threads without locks; results are collected over several
polls; transactions at several cohorts wait for each other's locks and workers.
`PROJECT.json` lists each hazard with its line and with the properties that would
notice it.

What makes each component correct:

- contract: the digits behave like separate ballots; the decision is final after
  the timeout; every voting is decided;
- cohort, one transaction: it never commits what another aborts, and never
  aborts what was decided to commit; what is decided to commit it can replay; it
  waits for ever only for an answer that the adapter does not give;
- cohort, many transactions: what commits is a serial execution across all
  databases; locks are held by those who say so and by nobody else in the end;
- locks by key: while a transaction executes nobody writes what it uses;
- coordinator: retries do not disturb a transaction under way; the result it
  reports is what happened, with the reads of every cohort once; the client gets
  a result, unless a call to the blockchain is not answered;
- client program: random keys exist when they must; a transaction is sent again only
  after it was answered; files get to their ends.

## 2. The modules

Three groups. Each looks at the system at the grain its question needs and uses
what the group before has established.

### The protocol for one transaction id

`Voting` has no state: it says as operators what `startVoting`, `vote` and
`getVotingDecision` require, write and answer for one entry of the contract.
`BallotTable` is the contract as a table of such entries. `VotingContract` is
the contract as it stores its data, with `getCohortBallot` and
`getNewCohortBallot` on base-3 numbers, and implements `BallotTable` for any
number of cohorts (`VotingContractProofs`). That is why the other modules can use
`Voting` directly. Powers are a recursive function; `NatRecursion` has the lemmas
that such a function exists and what its steps are.

`Blockchain`, `CohortServer`, `CoordinatorServer` and `TwoPhaseCommit` extend each
other in this order. Each of the first three has the actions of its component
and the parts by which others act on it (`SendVote`, `ReceivePrepare`);
`TwoPhaseCommit` adds the client and composes them. `AtomicCommit` is what the
whole promises. `TwoPhaseCommitInvariant` has the inductive invariants,
`TwoPhaseCommitProofs` the theorems, `MCTwoPhaseCommit` the symmetry set for TLC.

| state in the model | in the code |
|---|---|
| `voting`, `block_time` | `transaction_configs[id]`, `transaction_states[id]`, `now` |
| `pending_starts`, `pending_votes` | blockchain transactions sent by the adapter and not mined |
| `start_rpc`, `vote_rpc` | the blocking `stub_->StartVoting`, `stub_->Vote`; a call may be mined and counted without an answer (no receipt) |
| `stage` | the statement of `ProcessTransaction` a worker is at; `committed` and `aborted` also stand for the entry of `final_response_by_transaction_id_`; `unanswered` is the blocking `stub_->GetVotingDecision` whose read failed |
| `db`, `persisted` | the database transaction; the two files of `PersistTransaction` |
| `cohort_index`, `decision_read` | field of the request; the result of `WaitForBlockchainDecision` |
| `handler`, `sub_transactions`, `cohort_counter` | the thread of a `CommitAtomicTransaction` request and its locals |
| `metadata`, `response` | the entries of the coordinator's two maps |
| `poll` | the locals of `UpdateCommittedResponseFromCohorts`; in stage `unanswered`, the coordinator's own read of the decision that the adapter does not answer |

An action covers the code between two points where other threads or servers can
be noticed: an RPC, an answer, a sleep. Statements between two such points that
touch only the thread's own data are one step. Writes of both files and the
vote are one step: a crash between them leaves fewer files and no vote, which is
the crash before the step. (`WriteToFile` does not flush and does not look at the
errors of closing the file; the model takes a file that was written for a file that
is there.) Reading the decision and acting on it are two steps.

Abstractions. Executing the operations succeeds or fails. A cohort that crashes
does not come back for this transaction, since no code reads the files. Two
`startVoting` calls are mined in the order they were sent, because every adapter
sends from one account; votes are mined in any order. The timeout that a cohort
sleeps for is on its own clock and is not compared with the time of the blocks.
The client has one `GetTransactionResult` at a time. What the adapter leaves
unanswered stays so or ends with an error when the adapter dies or breaks the
connection (`DecisionRpcFails`, `ReadFails`, `VoteRpcFails`, `StartVotingRpcFails`).

### Many transactions at the databases

`Operations` has the operations of `common.proto`, `SplitClientTransaction` (a
recursive function over the operations, as the loop of the code) and the numbering
of the cohorts; `OperationsProofs` has the lemmas about them. `DatabaseAdapter` is
the LMDB adapter over LMDB's versions of the data. `CohortDatabases` extends it with
the thread pool, the lock on the whole database and `ProcessTransaction` for every
transaction at every cohort. `SerialExecution` is what the databases promise together, "one large
database with ACID" (`paper.tex:52`): transactions take place one by one, on all
their databases at once. `CohortDatabases` implements it with this mapping: a
transaction takes place when its commit is decided (an only cohort's: when it
commits), and a database has, besides what is committed, the writes of the
transaction whose commit is decided but not yet carried out. The locks are proved
about in `CohortDatabasesProofs`, the refinement in `SerialExecutionProofs`.

| state in `CohortDatabases` | in the code |
|---|---|
| `store`, `adapter` | what LMDB has committed; `txn_`, `is_readonly_` and what the LMDB transaction sees |
| `queue` | tasks of `thread_pool_` without a worker |
| `stage`, `done`, `gets`, `db_status` | where the worker is in `ProcessTransaction`; the loop over the operations; `get_responses`; the status that led to `AbortTransaction` |
| `lock`, `mutex` | `has_whole_db_read_lock` and `has_whole_db_write_lock` in the metadata; the state of `whole_db_mutex_` |
| `voting`, `block_time`, `down` | the contract's entries; `now`; crashed cohorts |

Votes are coarser here than in the protocol: a vote is mined and answered at
once, or reverts and is never answered, or its RPC fails. The lock: the code
calls `WriterLockWhenWithDeadline(absl::Condition::kTrue, ...)` and expects
`false` at the presumed abort time. By the contract of `absl::Mutex` the deadline
is about the condition; a thread waits for the mutex itself as long as it takes.
`GiveUpLock` has the behaviour the code expects, for the transactions in
`MayGiveUp`; the others wait. The properties hold for both.

`KeyLocks` is `AcquireDbLocks` for a database that supports concurrent writes:
the scan of the operations, the keys one by one, `GetLock` in its two parts
(the look-up before `locks_by_key_mutex_`, the rest under it), and the release.
The LMDB adapter does not take this path; the one of `cohort_server_test.cc` does.

| state in `KeyLocks` | in the code |
|---|---|
| `readonly_keys`, `write_and_readwrite_keys`, `scanned` | the sets in `AcquireDbLocks`, its loop |
| `locks_by_key` | the map; a slot has no entry, `nullptr` or a mutex |
| `key`, `mutex` | the key being locked; what `GetLock` has got of it so far |
| `held` | who holds which `absl::Mutex` how |
| `read_lock_keys`, `write_lock_keys` | the lists in the metadata |

### Many transactions of a client

`TransactionService` is the coordinator with its maps from ids to entries; voting and
cohorts are reduced to what the protocol shows of them (one decision per id; each
part commits some time after it, or never, when its vote is not answered). What it
adds is the content: which parts cannot be executed because a key is missing, which
reads are in a response. A poll is several steps: the read of the decision, and for
each cohort the look into `cohorts_already_responded`, the answer of the RPC, and the
addition of its reads; other jobs, requests and cohorts come between any two.
`ClientProgram` makes requests from a file with its random choices, sends them, and
polls on a pool of threads. Equal operations have equal ids, as in `AddTransaction`
(`client_main.cc:161`); the executions of a transaction that is sent again are kept
beside the earlier ones.

| state | in the code |
|---|---|
| `metadata`, `response` | `metadata_by_transaction_`, `response_by_transaction_` |
| `calls` | the calls of `GetTransactionResult` that wait for the blockchain or a cohort, with the locals of `UpdateCommittedResponseFromCohorts` |
| `decision`, `part`, `keys` | the voting of an id; for each time it was sent its parts at the cohorts; the keys in each database |
| `building`, `put_keys_by_address`, `requests` | the request under construction, the map, `RunInfo::requests` |
| `main`, `futures` | where `SendRequests` is; the futures, those of `CommitSync` included |
| `queue`, `running` | jobs of the client's `thread_pool_` |

Operators with a name of the form `Operation_Fault` (for example
`MineVote_AnyTime`) are faulty variants of the operation. No specification uses
them; each is a fault that the property listed with it in `PROJECT.json` must
detect when it replaces the operation.

## 3. The runs

| run | question | instance | states |
|---|---|---|---|
| `contract` | does the encoding implement the table, is the decision final, is there one? | 2 transactions, 2 to 4 cohorts of at most 3, time 0..2 | 16 thousand |
| `safety` | is the outcome atomic, and is the client told the truth, under retries, lost calls and crashes? are the invariants of the proofs invariants? | 2 cohorts, 2 requests, time 0..2 | 575 thousand |
| `only_cohort` | transactions without a vote | 1 cohort, 2 requests | 696 |
| `liveness` | do cohorts stop waiting, does the client stop polling, unless the adapter is silent? | 2 cohorts, 1 request, time 0..1, `FairSpec` | 80 thousand |
| `databases` | are concurrent transactions at several databases serial, are locks given back, does every transaction end? | 2 cohorts with 1 and 2 workers, pairs of 5 transactions, time 0..1, `FairSpec` | 88 thousand |
| `key_locks` | do the locks by key exclude, do the metadata find them, does a transaction wait for itself? | 3 transactions of 5 programs, 2 keys, `FairSpec` | 375 thousand |
| `client` | are committed responses complete, are random keys there, when is a transaction sent again, do files end? | 5 files of 2 or 3 transactions, 2 databases, 2 threads, `FairSpec` | 144 thousand |

Bounds. In the protocol `MaxTime` 2 gives a voting that is started, voted on in
two blocks and timed out; `MaxTime` 1 still has a block before and one at the
timeout. Two requests are a first one and a retry; a third behaves like the
second. `MaxCohorts` is 120 in the protocol, as in the contract, and 3 in
`contract` so that the limit is reached. The cohorts are symmetric, since the
order of a request is arbitrary; symmetry is used for safety only. That two
cohorts are enough for the client's results is not left to the bound: the
theorem `ClientLearnsTheOutcome` is about any number.

In `databases` the transactions are one that writes both databases, one that
reads both, one that reads and updates one, one whose relative put finds no value
(and has an operation of no type at the other cohort), and one that moves an
amount between them in the opposite order; `Mixes` names the pairs that conflict,
`Initial` the databases, in which one key is missing. One worker at `c1` makes transactions occupy the pool,
two at `c2` make them wait for locks. Only the reader's lock may give up and only
its votes may get lost (`MayGiveUp`, `MayLoseVote`), and only `c1` may crash
(`MayCrash`): every other transaction meets these through it. In `key_locks` the
programs read then write, write then read, cross two keys and have an unset
operation. In `client` the files (`Files`) have a random address, keys random
among those put, repeated operations, equal transactions in flight and one after the
other, one without operations, one that its only cohort may have to abort; two
threads (`NumThreads`) are as many as poll for equal requests at once.

Deadlock is not checked: transactions and files end, time is bounded, and in
`key_locks` transactions of several keys do deadlock (below).

Five more runs show where the code does not do what the repository says:

| run | what is said | what happens |
|---|---|---|
| `late_vote` | at the vote timeout the cohort asks for the decision and acts on it (`paper.tex:163`); a failed ABORT vote is fine, the transaction aborts at the presumed abort time (`cohort_server.cc:194`) | a vote that is mined late reverts, `contract_client.js` answers nothing, and the cohort stays in `Vote` with its locks |
| `unset_result` | results are pending, aborted or committed (`coordinator.proto:63`) | COMMIT is decided, no cohort has answered: the response has no status and ends the client's loop |
| `eager_retry` | a client may retry with the same id (`coordinator.proto:10`) | a retry during the first request starts the voting again, after a cohort has committed |
| `moving_slots` | the caller ensures that concurrent transactions do not modify each other's keys (`database_transaction_adapter.h:12`) | `GetLock` keeps a reference into `locks_by_key_` from before it takes the mutex; an insertion moves the slot, a second mutex is made for the key, two writers of it execute together |
| `overlapping_polls` | a committed result has the results of all get operations (`coordinator.proto:63`) | the jobs of two equal requests are in the loop over the cohorts at once, both find that a cohort has not answered, both ask it and both add its reads (`coordinator_server.cc:293-313`): the complete response has them twice |

`EagerSpec` is `Spec` with one more step of the client, `MovingSpec` the `Spec` of
`KeyLocks` with insertions that move slots, `OverlappingSpec` the `Spec` of
`ClientProgram` without the condition `AloneWith`. All theorems and the other runs are
about `Spec`: a client that retries when its earlier request has ended, a map
whose slots stay, polls of one id of which one at a time is in the loop over the
cohorts. Nothing in the code sees to these three conditions; the runs show that each
is needed.

Other divergences, seen while modelling, in the models as the code has them, and
without a run of their own:

- A read of the decision that fails is logged and never answered
  (`contract_client.js:43-45`), and the cohort that waits for it neither asks again
  nor ends, although the system is said not to block on any one machine
  (`paper.tex:189`). The properties `WaitingEnds`, `PollingEnds` and `FilesEnd` name
  this as what can keep a cohort or a client for ever.
- A cohort that is the only one of its transaction and has to abort votes on a voting
  that was never started (`cohort_server.cc:197`): the vote reverts, and the cohort
  reports the abort only if the RPC fails. `coordinator_server.cc:259` expects the
  report. The run `only_cohort` has both behaviours.
- The default of a relative put (`common.proto:41`) is never used with the LMDB
  adapter, which answers a missing key with `InternalError` where
  `cohort_server.cc:134` tests for `NotFound`.
- An abort without a status has an `abort_reason` that is not initialised
  (`cohort_server.cc:191`), or `ABORT_REASON_UNSPECIFIED`, which "should not be
  used" (`common.proto:92`).
- `client.proto:10` describes `async` as the opposite of what `SendRequests` does.
- Equal transactions of a file have equal ids (`client_main.cc:161`) although the
  id is to be unique for the client (`coordinator.proto:11`). The second is not
  executed while the first is under way; after the first's result was fetched,
  `CleanUp` has erased the entry that says it was sent, and it is executed again,
  which `coordinator_server.cc:127` and `paper.tex:216` exclude; the client is told
  the first result. `SentAgainAfterTheAnswer` is what is left of their promise.
- Transactions that lock several keys may wait for each other: the keys are locked in
  the order of a hash set, and the deadline does not end the wait.
- `WaitForCoordinator` leaves an entry for the id of its empty request.

Fairness. In the protocol (`FairSpec`) blocks keep coming and calls that are not
lost are mined; worker threads run, so a cohort that has its answer, has slept or
has a decision goes on, and a read of the decision is answered unless it is left
unanswered or fails (weak fairness). A cohort's `GetTransactionResult` is asked again
and again, and an RPC to a server that is up and is retried for ever does not fail
for ever (strong fairness, since a failure disables the step until the next
attempt). The client polls for ever (weak fairness). Nothing is assumed of crashes,
lost calls, or of a handler of the coordinator, and nothing of the adapter: a read,
a vote or a `startVoting` that it does not answer may stay unanswered for ever, and
reads may fail for ever. Therefore `WaitingEnds` has two excuses for a cohort, a
read that is never answered (`ReadNeverEnds`) and reads that fail again and again
(`ReadsKeepFailing`), and `PollingEnds` has the same two, a vote that is never
answered (`VoteNeverEnds`: its cohort never commits, even if the vote was counted),
and the same for the coordinator's own reads. Each excuse names one call of one
server; whatever else happens, waiting ends. `PollingEnds` also has the absence of
crashes as its premise, because a crashed cohort or coordinator does let the client
poll for ever.

In `CohortDatabases` time passes and each cohort that is up runs some worker that
can go on (`WorkersRun`); nothing is assumed of crashes, requests, or locks that
give up. In `KeyLocks` weak fairness of the whole next-state relation is enough:
every step that changes anything brings a thread forward and there are finitely
many, so to stop is the only thing it excludes. `EveryTransactionEnds` excuses a
cohort that is down and a vote that is never answered.

In `ClientProgram` (`FairSpec`) the main thread and the pool go on, parts are
executed, votings decided and commits carried out when they can (weak fairness),
each job of the pool goes on (weak fairness), and its RPC to a cohort that has
committed, repeated in poll after poll, succeeds in the end (strong fairness).
Nothing is assumed of a call that the adapter leaves unanswered: `FilesEnd` excuses
files in which such a call keeps occurring (`Blocked`: a request, a poll, a vote, the
ABORT vote of an only cohort), and an only cohort that was never sent its part
(`OnlyCohortsGetTheirPart`), whose client polls for ever.

## 4. The proofs

All theorems are about every value of the constants: any sets of cohorts,
transactions and keys, any operations and programs, any numbers of requests and
workers, any bound of time.

| module | theorem | statement |
|---|---|---|
| `TwoPhaseCommitProofs` | `TypeCorrect` | `Spec => []TypeOK` |
| | `OneRequestSends` | `Spec => []RequestInv` |
| | `VotesAreTheCohorts` | `Spec => []VoteInv` |
| | `OutcomesAgreeWithDecision` | `Spec => []DecisionInv` |
| | `AtomicCommitment` | `Spec => []Agreement` |
| | `CommitIsReplayable` | `Spec => []CommittedIsReplayable` |
| | `FirstDecisionIsFinal` | `Spec => DecisionIsFinal` |
| | `PreparedOnlyOnce` | `Spec => PreparedOnce` |
| | `BallotsStay` | `Spec => BallotsAreCastOnce` |
| | `Refinement` | `Spec => ImplementsAtomicCommit` |
| | `KeptAnswers` | `Spec => []ResultInv` |
| | `ClientLearnsTheOutcome` | `Spec => []ClientIsToldTheTruth` |
| `VotingContractProofs` | `ContractTypeCorrect` | `Spec => []TypeOK` |
| | `ContractRefinement` | `Spec => BehavesAsBallotTable` |
| | `ContractAnswers` | `Spec => []AnswersAsBallotTable` |
| | `ExpiredIsFinal` | `Spec => ExpiredDecisionIsFinal` |
| | `BallotsFitTheWord` | with at most 120 cohorts the ballots are always less than `2^256` |
| `CohortDatabasesProofs` | `LocksAreAlwaysAccountedFor` | `Spec => []LocksAreAccountedFor` |
| | `BeginNeverBlocks` | `Spec => []BeginDoesNotBlock` |
| `SerialExecutionProofs` | `DatabasesTypeCorrect` | `Spec => []TypeOK` |
| | `NoOperationIsEverRefused` | `Spec => []NoOperationIsRefused` |
| | `SerialExecutionRefinement` | `Spec => ImplementsSerialExecution` |
| `ClientProgramProofs` | `ClientTypeCorrect` | `Spec => []TypeOK` |
| | `CommittedIsComplete` | `Spec => []CommittedResponseIsComplete` |
| | `PutKeysAreAlwaysFound` | `Spec => []PutKeysAreFound` |
| | `SentAgainOnlyAfterTheAnswer` | `Spec => []SentAgainAfterTheAnswer` |
| `KeyLocksProofs` | `KeyLocksTypeCorrect` | `Spec => []TypeOK` |
| | `LocksAreTold` | `Spec => []MetadataTellsLocks` |
| | `ConcurrentWritesAreExclusive` | `Spec => []KeysAreExclusive` |

**Atomicity.** From `NumCohortsAssumption`, `BoundsAssumption`,
`MaxCohortsAssumption` and `CallsGetLostAssumption` only. That `NumCohorts` is the
number of elements of `Cohort` is not needed: otherwise the cohorts cannot be
numbered and no request is made. `Agreement` is not inductive: that a cohort has
committed says nothing of what another will read. `IInv` closes the gap in three
layers, each proved with the ones before it.

1. `RequestInv`: requests are handled one after the other, a handler sends only
   with its own receipt, and startVoting calls are mined in order. So when a
   request has sent its first PrepareTransaction, no startVoting call is left and
   no other request ever sends (`OneSender`). While the client may retry, the
   coordinator remembers that all was sent (`SendingIsRemembered`).
2. `VoteInv`: therefore a cohort's index is its own (lemma `IndexIsOwn`), and
   every call and ballot under an index is that cohort's single vote: COMMIT
   exactly when its files are on disk. From this, COMMIT is decided only when
   all files are on disk (lemma `CommitNeedsAll`), and a final decision does not
   change: no voting is restarted, no vote replaces a ballot, no vote counts after
   the timeout (lemma `DecisionIsStable`).
3. `DecisionInv`: what a cohort has read is still the decision, a committed
   database means COMMIT, and an aborted one means ABORT or a cohort without
   files.

`Agreement` follows: one committed database means that COMMIT is decided, so all
files are on disk, so an aborted database would mean ABORT. `Refinement` maps
`promised` to the cohorts with files and `outcome` to the databases; it also needs
that a database transaction stays open until the outcome (`OpenUntilOutcome`).

**What the client is told.** `ResultInv`, on top of `IInv`: the entry of a
transaction stays until its final result, and the client polls only after all
was sent (`EntryIsKept`, `AnsweredAreSent`); `cohort_namespaces` has each cohort
of the request once (`NamespacesAreListed`); a cohort's final answer is its
database's outcome (`FinalAnswersAreTrue`); those that have responded have
committed and a kept decision is COMMIT (`KeptAnswersAreTrue`). In a poll, if as
many are counted as were asked, none was left out (`CountedHaveResponded`). So a
response is complete only when every cohort in the list has committed, and all
are in it. An aborted response comes from a decision ABORT, which `DecisionInv`
makes final and incompatible with a committed database; or from an only cohort
that aborted.

**Locks on the whole database.** `LocksAreAccountedFor` needs to know that a task
starts once: the tasks in a queue are those of stage `queued`, without
repetition (`QueueInv`), and who has not got as far as the lock has none
(`HolderInv`). Release is by the flags that acquisition has set, so the count of
readers follows the set of holders, one by one. A database transaction that may
write is open only under the exclusive lock (`WriterInv`), and the exclusive lock
has one holder; hence `BeginDoesNotBlock`.

**Locks by key.** A transaction in `GetLock` has a key that it has not locked, and
the mutex it waits for is the one in the key's slot (`Located`); the key sets
have every key of the operations looked at (`Scanned`); a mutex in the map stays
and belongs to one key (`SlotsInv`); mutexes exclude (`MutexInv`). So two
transactions that have locked a key hold the same mutex. `moving_slots` shows
that the theorem needs the stable slots.

**The contract's numbers.** A number is in one way only the digits above `i`,
digit `i` and the digits below it (`Parts`, `PartsAreUnique`), and
`getNewCohortBallot` replaces the middle one (`NewBallotParts`). So a vote is read
back, and the ballots of other cohorts, which are digits of one of the two other
parts, stay (`OtherBallotsStay`). With the type invariant, which bounds the number
by the power of `MaxCohorts`, each step of the contract is the same step of
`BallotTable`. `BallotsFitTheWord` has one hypothesis, `MaxCohorts <= 120`, which
is the limit in `startVoting`: five digits fit a byte, so 120 fit 24 of the 32
bytes, and neither the products nor the differences of a vote wrap around. That is
why the model may compute with numbers without a width.

**Serial execution.** Three facts, on top of the invariant of
`CohortDatabasesProofs`.

1. `ExecutionIsLocal`: what a transaction does at one database depends only on its
   operations there, in their order. So executing all operations one after the
   other on all databases is executing each sub-transaction at its own.
2. `WorkInv`: while a transaction has its lock nobody changes what it reads, so its
   view and its reads are those of its first `done` operations on what is
   committed now.
3. `VoteInv`: the ballot of a cohort that has not voted is UNKNOWN; a cohort has
   committed only if all ballots are COMMIT, and aborted only if they never will be.

When the last ballot is cast, every participant is therefore done, has its lock and
has what `SerialExecution` computes: the transaction takes place there
(`VoteTakesPlace`), or when its only cohort commits (`OnlyCohortTakesPlace`). All
other steps are stutters: a commit at one database moves what the one database has
from the view of the transaction to `store`, and changes nothing of it
(`CommitDecidedStutters`). `NoOperationIsEverRefused` is `WorkInv` too: how the
database transaction was begun is what its lock allows.

**The client program.** From `NumThreadsAssumption` and `FilesAssumption`.
`ServiceInv` is about the coordinator and the databases. A part that is ready to
commit has found its keys, and one that has committed has its keys in the database
(`PartInv`). A transaction without a complete response was sent once, and is marked
as sent; it is sent a second time at most, when its response is complete
(`SentInv`), which is `SentAgainAfterTheAnswer`. The reads in a response that is not
complete are those of the cohorts that have responded, once each, and each of them
has committed (`PollInv`). A call in the loop over the cohorts belongs to a response
that is not complete and is the only one of its id there; the cohort whose answer it
holds has committed and is not among those that have responded, and what it has
counted is (`CallInv`). So the addition after the RPC is sound although the check
came before it, and a committed response is the whole (`CommittedInv`). The only
place where `AloneWith` is used is that no other caller adds between the check and
the addition; `overlapping_polls` shows what happens without it. A complete response
and what is committed stay when an equal transaction is sent once more (`Grows`).
`CommittedIsComplete` then needs only that a future has what the response has
(`FutureInv`) and that a caller is a job that asks for its own request (`CallerInv`).

`PutKeysAreFound` needs the whole program. While the requests are made, each key
chosen among those put is put by an earlier request or earlier in the same one
(`BuildInv`, `Sourced`; the loop over the operations keeps their order at each
database, `SubTransactionAppend`). When a request is sent, those before it that are not
async have their results: a future that waits and is not async is the last one, and
the main thread is in `CommitSync` (`SyncInv`). Told committed means that the puts
are in the databases (`CommittedInv`), and keys are never removed; so the part
finds its keys when it is executed, whenever that is (`FindsPutKeys`).

Only model-checked: the liveness properties (`EveryVotingIsDecided`, `WaitingEnds`,
`PollingEnds`, `EveryTransactionEnds`, `OneKeyTransactionsEnd`, `FilesEnd`), because
fairness and `ENABLED` are out of the prover's reach. Every invariant, action
property and refinement that a passing run checks is a theorem. The prover has no
induction rule that takes a predicate, and no rule for recursive functions; where a
proof needs them, `NatRecursion` derives both for sets and functions from the
well-foundedness of the naturals (`NatInductionSet`, `ApproximationExists`), and the
definitions in question (`power`, `Split`, `Execution`, `FlattenSeq`) are recursive
functions.

## 5. Not modelled

- Recovery after a crash: no code reads the persisted files back. The models have
  crashes, and `CommittedIsReplayable` says that the files would suffice.
- What a handler of the coordinator does after another one has erased the entry it
  refers to, or has moved it by an insertion into the map: undefined behaviour whose
  outcomes cannot be listed from the source. `OverlappingSpec` has two polls in the
  loop over the cohorts, whose additions go to the same response; nothing is claimed
  about it beyond the trace of `overlapping_polls`.
- The metadata entry at a cohort that two executions of one transaction share when
  the first was answered aborted and still waits there for the decision. In
  `TransactionService` they are independent; of committed answers
  `SentAgainAfterTheAnswer` shows that this does not happen. The second of two equal
  requests is told the stored "aborted" although its own execution may commit.
- A cohort that comes back after a crash, and the flush of files to the disk.
- A retry that reaches the coordinator under another address, and so under another
  id: for the coordinator it is another transaction.
- LMDB's files and map size, gas and forks of the blockchain, heartbeats, the
  length of sleeps, the conversion of status codes, flags and start-up of the
  servers, the statistics that the client prints.
- `lmdb_raw_lib_example_main.cc` is an example of the library and no part of the
  system.

What is left to do: the protocol with several transactions and full votes below
`CohortDatabases` in one model (now each has what the other leaves out); a proof
that the decisions and parts of `TransactionService` are what `TwoPhaseCommit` shows
of one id.
