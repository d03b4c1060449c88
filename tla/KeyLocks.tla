------------------------------- MODULE KeyLocks -------------------------------
(***************************************************************************)
(* The locks of one cohort whose database supports concurrent writes: a    *)
(* transaction locks its keys one by one, reading ones first, before it    *)
(* executes, and unlocks them when it is over.  The mutex of a key is made *)
(* when the key is locked for the first time; the map from keys to mutexes *)
(* only grows.                                                             *)
(*                                                                         *)
(* The repository's own adapter takes the lock on the whole database       *)
(* instead (CohortDatabases); the adapter of cohort_server_test.cc takes   *)
(* these.                                                                  *)
(***************************************************************************)
EXTENDS Operations

CONSTANTS Transaction,
          Programs    \* bound: the lists of operations of the transactions

ASSUME ProgramsAssumption == Programs \subseteq Seq(Operation)

VARIABLES ops,              \* the operations of each transaction
          stage,            \* where its ProcessTransaction is
          scanned,          \* how many operations AcquireDbLocks has looked at
          readonly_keys, write_and_readwrite_keys,   \* its two key sets
          key,              \* the key it is about to lock
          mutex,            \* what GetLock returned for it
          locks_by_key,     \* the slots of the map, and the mutex in each
          held,             \* who holds which mutex how
          read_lock_keys, write_lock_keys   \* in the transaction's metadata

keySets  == <<scanned, readonly_keys, write_and_readwrite_keys>>
metadata == <<read_lock_keys, write_lock_keys>>
vars     == <<ops, stage, keySets, key, mutex, locks_by_key, held, metadata>>

\* A mutex is known by the key it was made for and who made it.
Mutex    == {"mutex"} \X Key \X Transaction
NoKey    == "no key"
NoSlot   == <<"no slot">>
NoMutex  == <<"nullptr">>
Dangling == <<"dangling">>   \* the reference to the slot is to freed memory

Stage == {"scanning",   \* in the loop over the operations
          "acquiring",  \* between two keys
          "looking up", \* in GetLock, has the slot but not locks_by_key_mutex_
          "locking",    \* in LockWhenWithDeadline
          "executing",  \* from Begin to the end of the transaction
          "unlocking", "ended"}

Mode == {"read", "write"}

TypeOK ==
  /\ ops \in [Transaction -> Programs]
  /\ stage \in [Transaction -> Stage]
  /\ scanned \in [Transaction -> Nat]
  /\ readonly_keys \in [Transaction -> SUBSET Key]
  /\ write_and_readwrite_keys \in [Transaction -> SUBSET Key]
  /\ key \in [Transaction -> Key \cup {NoKey}]
  /\ mutex \in [Transaction -> Mutex \cup {NoMutex, Dangling}]
  /\ locks_by_key \in [Key -> Mutex \cup {NoSlot, NoMutex}]
  /\ held \subseteq [mutex : Mutex, holder : Transaction, mode : Mode]
  /\ read_lock_keys \in [Transaction -> SUBSET Key]
  /\ write_lock_keys \in [Transaction -> SUBSET Key]

Init ==
  /\ ops \in [Transaction -> Programs]
  /\ stage = [t \in Transaction |-> "scanning"]
  /\ scanned = [t \in Transaction |-> 0]
  /\ readonly_keys = [t \in Transaction |-> {}]
  /\ write_and_readwrite_keys = [t \in Transaction |-> {}]
  /\ key = [t \in Transaction |-> NoKey]
  /\ mutex = [t \in Transaction |-> NoMutex]
  /\ locks_by_key = [k \in Key |-> NoSlot]
  /\ held = {}
  /\ read_lock_keys = [t \in Transaction |-> {}]
  /\ write_lock_keys = [t \in Transaction |-> {}]
-----------------------------------------------------------------------------
(* AcquireDbLocks: the keys of a transaction *)

AddKey_NoErase(t, op) ==
  \/ /\ op.type \in {"put", "relative"}
     /\ write_and_readwrite_keys' =
          [write_and_readwrite_keys EXCEPT ![t] = @ \cup {op.key}]
     /\ UNCHANGED readonly_keys
  \/ /\ op.type = "get" /\ op.key \notin write_and_readwrite_keys[t]
     /\ readonly_keys' = [readonly_keys EXCEPT ![t] = @ \cup {op.key}]
     /\ UNCHANGED write_and_readwrite_keys
  \/ /\ op.type = "none" \/ op.key \in write_and_readwrite_keys[t]
     /\ op.type \in {"get", "none"}
     /\ UNCHANGED <<readonly_keys, write_and_readwrite_keys>>

\* What the loop does with an operation: a key that is written too is locked
\* once, for writing, whichever of its operations comes first.
AddKey(t, op) ==
  \/ /\ op.type \in {"put", "relative"}
     /\ readonly_keys' = [readonly_keys EXCEPT ![t] = @ \ {op.key}]
     /\ write_and_readwrite_keys' =
          [write_and_readwrite_keys EXCEPT ![t] = @ \cup {op.key}]
  \/ /\ op.type = "get" /\ op.key \notin write_and_readwrite_keys[t]
     /\ readonly_keys' = [readonly_keys EXCEPT ![t] = @ \cup {op.key}]
     /\ UNCHANGED write_and_readwrite_keys
  \/ /\ op.type = "none" \/ op.key \in write_and_readwrite_keys[t]
     /\ op.type \in {"get", "none"}
     /\ UNCHANGED <<readonly_keys, write_and_readwrite_keys>>

Scan(t) ==
  /\ stage[t] = "scanning"
  /\ scanned[t] < Len(ops[t])
  /\ AddKey(t, ops[t][scanned[t] + 1])
  /\ scanned' = [scanned EXCEPT ![t] = @ + 1]
  /\ UNCHANGED <<ops, stage, key, mutex, locks_by_key, held, metadata>>

ScanEnds(t) ==
  /\ stage[t] = "scanning"
  /\ scanned[t] = Len(ops[t])
  /\ stage' = [stage EXCEPT ![t] = "acquiring"]
  /\ UNCHANGED <<ops, keySets, key, mutex, locks_by_key, held, metadata>>
-----------------------------------------------------------------------------
(* AcquireDbLocks: the locks *)

ToRead(t)  == readonly_keys[t] \ read_lock_keys[t]
ToWrite(t) == write_and_readwrite_keys[t] \ write_lock_keys[t]

\* The next key, in the order of a hash set, the reading ones first.
NextKey(t) == IF ToRead(t) # {} THEN ToRead(t) ELSE ToWrite(t)

ModeOf(t) == IF ToRead(t) # {} THEN "read" ELSE "write"

\* GetLock takes a reference to the key's slot, which it inserts if there is none,
\* before it takes locks_by_key_mutex_.
LookUp(t) ==
  /\ stage[t] = "acquiring"
  /\ \E k \in NextKey(t) :
       /\ key' = [key EXCEPT ![t] = k]
       /\ locks_by_key' = [locks_by_key EXCEPT ![k] = IF @ = NoSlot THEN NoMutex
                                                                    ELSE @]
  /\ mutex' = [mutex EXCEPT ![t] = NoMutex]
  /\ stage' = [stage EXCEPT ![t] = "looking up"]
  /\ UNCHANGED <<ops, keySets, held, metadata>>

\* The insertion makes the map grow and move its slots, under the references of
\* those that are in GetLock.
LookUpMoves(t) ==
  /\ stage[t] = "acquiring"
  /\ \E k \in NextKey(t) :
       /\ locks_by_key[k] = NoSlot
       /\ key' = [key EXCEPT ![t] = k]
       /\ locks_by_key' = [locks_by_key EXCEPT ![k] = NoMutex]
  /\ mutex' = [u \in Transaction |->
                 CASE u = t                  -> NoMutex
                   [] stage[u] = "looking up" -> Dangling
                   [] OTHER                  -> mutex[u]]
  /\ stage' = [stage EXCEPT ![t] = "looking up"]
  /\ UNCHANGED <<ops, keySets, held, metadata>>

GetLock_Replaces(t) ==
  /\ stage[t] = "looking up"
  /\ mutex' = [mutex EXCEPT ![t] = <<"mutex", key[t], t>>]
  /\ locks_by_key' = [locks_by_key EXCEPT ![key[t]] = <<"mutex", key[t], t>>]
  /\ stage' = [stage EXCEPT ![t] = "locking"]
  /\ UNCHANGED <<ops, keySets, key, held, metadata>>

GetLock_NeverMakes(t) ==
  /\ stage[t] = "looking up"
  /\ mutex' = [mutex EXCEPT ![t] = locks_by_key[key[t]]]
  /\ stage' = [stage EXCEPT ![t] = "locking"]
  /\ UNCHANGED <<ops, keySets, key, locks_by_key, held, metadata>>

\* The rest of GetLock: a mutex is made if the slot has none.  (The memory of a
\* slot that has moved holds nullptr.)
GetLock(t) ==
  LET made  == <<"mutex", key[t], t>>
      found == locks_by_key[key[t]]
  IN  /\ stage[t] = "looking up"
      /\ IF mutex[t] = Dangling
         THEN /\ mutex' = [mutex EXCEPT ![t] = made]
              /\ UNCHANGED locks_by_key
         ELSE /\ mutex' = [mutex EXCEPT ![t] = IF found = NoMutex THEN made ELSE found]
              /\ locks_by_key' = [locks_by_key EXCEPT ![key[t]] = mutex'[t]]
      /\ stage' = [stage EXCEPT ![t] = "locking"]
      /\ UNCHANGED <<ops, keySets, key, held, metadata>>

CanLock(m, mode) ==
  \A h \in held : h.mutex = m => mode = "read" /\ h.mode = "read"

\* ReaderLockWhenWithDeadline or WriterLockWhenWithDeadline.  Their deadline is
\* about a condition, which is kTrue here: they wait for the mutex.
Lock(t) ==
  /\ stage[t] = "locking"
  /\ CanLock(mutex[t], ModeOf(t))
  /\ held' = held \cup
               {[mutex |-> mutex[t], holder |-> t, mode |-> ModeOf(t)]}
  /\ IF ModeOf(t) = "read"
     THEN /\ read_lock_keys' = [read_lock_keys EXCEPT ![t] = @ \cup {key[t]}]
          /\ UNCHANGED write_lock_keys
     ELSE /\ write_lock_keys' = [write_lock_keys EXCEPT ![t] = @ \cup {key[t]}]
          /\ UNCHANGED read_lock_keys
  /\ key' = [key EXCEPT ![t] = NoKey]
  /\ mutex' = [mutex EXCEPT ![t] = NoMutex]
  /\ stage' = [stage EXCEPT ![t] = "acquiring"]
  /\ UNCHANGED <<ops, keySets, locks_by_key>>

\* All keys are locked: Begin.
Execute(t) ==
  /\ stage[t] = "acquiring"
  /\ ToRead(t) = {} /\ ToWrite(t) = {}
  /\ stage' = [stage EXCEPT ![t] = "executing"]
  /\ UNCHANGED <<ops, keySets, key, mutex, locks_by_key, held, metadata>>
-----------------------------------------------------------------------------
(* ReleaseLocksAndDeleteMetadata *)

\* The transaction has committed or aborted.
Finish(t) ==
  /\ stage[t] = "executing"
  /\ stage' = [stage EXCEPT ![t] = "unlocking"]
  /\ UNCHANGED <<ops, keySets, key, mutex, locks_by_key, held, metadata>>

Unlock_WriterOnly(t, k, mode) ==
  held' = held \ {[mutex |-> locks_by_key[k], holder |-> t, mode |-> "write"]}

\* Unlocking looks the mutex of the key up again.
Unlock(t, k, mode) ==
  held' = held \ {[mutex |-> locks_by_key[k], holder |-> t, mode |-> mode]}

UnlockNext(t) ==
  /\ stage[t] = "unlocking"
  /\ \/ \E k \in write_lock_keys[t] :
          /\ Unlock(t, k, "write")
          /\ write_lock_keys' = [write_lock_keys EXCEPT ![t] = @ \ {k}]
          /\ UNCHANGED read_lock_keys
     \/ /\ write_lock_keys[t] = {}
        /\ \E k \in read_lock_keys[t] :
             /\ Unlock(t, k, "read")
             /\ read_lock_keys' = [read_lock_keys EXCEPT ![t] = @ \ {k}]
             /\ UNCHANGED write_lock_keys
  /\ UNCHANGED <<ops, stage, keySets, key, mutex, locks_by_key>>

End(t) ==
  /\ stage[t] = "unlocking"
  /\ write_lock_keys[t] = {} /\ read_lock_keys[t] = {}
  /\ stage' = [stage EXCEPT ![t] = "ended"]
  /\ UNCHANGED <<ops, keySets, key, mutex, locks_by_key, held, metadata>>
-----------------------------------------------------------------------------
Process(t) == \/ Scan(t) \/ ScanEnds(t) \/ LookUp(t) \/ GetLock(t) \/ Lock(t)
              \/ Execute(t) \/ Finish(t) \/ UnlockNext(t) \/ End(t)

Next == \E t \in Transaction : Process(t)

Spec == Init /\ [][Next]_vars

MovingSpec == Init /\ [][Next \/ \E t \in Transaction : LookUpMoves(t)]_vars

\* The threads of the pool run.
FairSpec == Spec /\ WF_vars(Next)
-----------------------------------------------------------------------------
(* Safety *)

WrittenKeys(t) ==
  {ops[t][i].key : i \in {j \in DOMAIN ops[t] :
                            ops[t][j].type \in {"put", "relative"}}}
AccessedKeys(t) ==
  {ops[t][i].key : i \in {j \in DOMAIN ops[t] : ops[t][j].type # "none"}}

\* "The caller ensures concurrent transactions do not modify keys used in other
\* put/get transactions" (database_transaction_adapter.h:12): while a transaction
\* executes, no other one executes that writes a key it uses, whatever the order
\* of their operations and whoever made the mutexes (AcquireDbLocks, GetLock).
KeysAreExclusive ==
  \A t, u \in Transaction :
    t # u /\ stage[t] = "executing" /\ stage[u] = "executing" =>
      WrittenKeys(t) \cap AccessedKeys(u) = {}

HoldingOf(t, k, mode) == [mutex |-> locks_by_key[k], holder |-> t, mode |-> mode]
LockedKeys(t, mode)   == IF mode = "read" THEN read_lock_keys[t]
                                          ELSE write_lock_keys[t]

\* The metadata of the transactions and the mutexes in the map tell the same
\* story: whoever has a key in its lists holds the mutex that the map has for the
\* key now, in that mode, and nobody holds anything else.  Unlocking finds by the
\* key what locking has locked (GetLock, ReleaseLocksAndDeleteMetadata), as long as
\* no insertion moves the slots of the map: that is part of Spec, and what happens
\* otherwise is the subject of MovingSpec.
MetadataTellsLocks ==
  /\ \A t \in Transaction, mode \in Mode : \A k \in LockedKeys(t, mode) :
       HoldingOf(t, k, mode) \in held
  /\ \A h \in held : \E k \in LockedKeys(h.holder, h.mode) :
       h = HoldingOf(h.holder, k, h.mode)
-----------------------------------------------------------------------------
(* Liveness *)

\* Transactions that use one key each all get it in the end, also those that
\* read it and write it: none waits for its own lock (cohort_server.cc:81).
OneKeyTransactionsEnd ==
  (\A t \in Transaction : Cardinality(AccessedKeys(t)) <= 1) =>
    <>[](\A t \in Transaction : stage[t] = "ended")
=============================================================================
