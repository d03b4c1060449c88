---------------------------- MODULE KeyLocksProofs ----------------------------
(***************************************************************************)
(* The locks of the keys for any number of keys and transactions: the      *)
(* invariants of KeyLocks hold as long as the slots of locks_by_key_ stay  *)
(* where they are (Spec).                                                  *)
(*                                                                         *)
(* The argument: a transaction in GetLock or waiting for a mutex has a key *)
(* that it has not locked; the mutex it waits for is the one the map has   *)
(* for the key; a mutex that is in the map stays in it and belongs to one  *)
(* key only.  So whoever has locked a key holds the mutex of its slot, and *)
(* two transactions that have locked the same key hold the same mutex.     *)
(***************************************************************************)
EXTENDS KeyLocks, TLAPS

\* Where each transaction is.
Located ==
  \A t \in Transaction :
    /\ stage[t] \in {"looking up", "locking"} => key[t] \in NextKey(t)
    /\ stage[t] = "looking up" => mutex[t] = NoMutex
                                  /\ locks_by_key[key[t]] # NoSlot
    /\ stage[t] = "locking" => mutex[t] \in Mutex
                               /\ mutex[t] = locks_by_key[key[t]]
    /\ stage[t] = "executing" => ToRead(t) = {} /\ ToWrite(t) = {}

\* What the scan of the operations has put into the key sets.
Scanned ==
  \A t \in Transaction :
    /\ stage[t] # "scanning" => scanned[t] = Len(ops[t])
    /\ stage[t] = "scanning" => read_lock_keys[t] = {} /\ write_lock_keys[t] = {}
    /\ \A i \in 1 .. scanned[t] : i \in DOMAIN ops[t] =>
         /\ ops[t][i].type \in {"put", "relative"} =>
              ops[t][i].key \in write_and_readwrite_keys[t]
         /\ ops[t][i].type # "none" =>
              ops[t][i].key \in readonly_keys[t] \cup write_and_readwrite_keys[t]

\* The map from keys to mutexes.
SlotsInv ==
  /\ \A k \in Key : locks_by_key[k] \in Mutex => locks_by_key[k][2] = k
  /\ \A t \in Transaction, mode \in Mode : \A k \in LockedKeys(t, mode) :
       locks_by_key[k] \in Mutex

\* The mutexes exclude.
MutexInv ==
  \A g, h \in held : g.mutex = h.mutex /\ g # h => g.mode = "read" /\ h.mode = "read"

Inv == TypeOK /\ MetadataTellsLocks /\ Located /\ Scanned /\ SlotsInv /\ MutexInv
-----------------------------------------------------------------------------
\* A mutex is none of the values that stand for no mutex.
LEMMA MutexIsOne ==
  \A m \in Mutex : m # NoSlot /\ m # NoMutex /\ m # Dangling
<1> SUFFICES ASSUME NEW m \in Mutex
             PROVE  m # NoSlot /\ m # NoMutex /\ m # Dangling
  OBVIOUS
<1>1. m[1] = "mutex"
  BY DEF Mutex
<1>2. NoSlot[1] # "mutex" /\ NoMutex[1] # "mutex" /\ Dangling[1] # "mutex"
  BY DEF NoSlot, NoMutex, Dangling
<1> QED
  BY <1>1, <1>2

\* The values that stand for no mutex differ.
LEMMA NoMutexDiffers == NoMutex # NoSlot /\ NoMutex # Dangling
<1>1. NoSlot[1] = "no slot" /\ NoMutex[1] = "nullptr" /\ Dangling[1] = "dangling"
  BY DEF NoSlot, NoMutex, Dangling
<1> QED
  BY <1>1

\* What GetLock makes is a mutex of its key.
LEMMA MadeIsMutex ==
  ASSUME NEW k \in Key, NEW t \in Transaction
  PROVE  <<"mutex", k, t>> \in Mutex /\ <<"mutex", k, t>>[2] = k
BY DEF Mutex

\* No transaction has a key, and no key a mutex, in the beginning.
LEMMA InitInv == Init => Inv
BY MutexIsOne DEF Init, Inv, TypeOK, MetadataTellsLocks, Located, Scanned, SlotsInv,
       MutexInv, LockedKeys, Stage, Mode
-----------------------------------------------------------------------------
\* The steps that only move a transaction to its next stage.
LEMMA StageInv ==
  ASSUME Inv, NEW t \in Transaction,
         ScanEnds(t) \/ Execute(t) \/ Finish(t) \/ End(t)
  PROVE  Inv'
<1>1. /\ stage' \in {[stage EXCEPT ![t] = s] : s \in Stage \ {"scanning"}}
      /\ stage'[t] \notin {"looking up", "locking"}
      /\ stage'[t] = "executing" => ToRead(t) = {} /\ ToWrite(t) = {}
      /\ stage[t] = "scanning" => scanned[t] = Len(ops[t])
      /\ UNCHANGED <<ops, scanned, readonly_keys, write_and_readwrite_keys, key, mutex,
                     locks_by_key, held, read_lock_keys, write_lock_keys>>
  BY DEF Inv, TypeOK, Stage, ScanEnds, Execute, Finish, End, keySets, metadata
<1>2. TypeOK'
  BY <1>1 DEF Inv, TypeOK
<1>3. MetadataTellsLocks'
  BY <1>1 DEF Inv, MetadataTellsLocks, HoldingOf, LockedKeys
<1>4. Located'
  <2>1. \A u \in Transaction :
          /\ NextKey(u)' = NextKey(u)
          /\ ToRead(u)' = ToRead(u)
          /\ ToWrite(u)' = ToWrite(u)
          /\ u # t => stage'[u] = stage[u]
    BY <1>1 DEF NextKey, ToRead, ToWrite, Inv, TypeOK
  <2> QED
    BY <2>1, <1>1 DEF Inv, Located
<1>5. Scanned'
  BY <1>1 DEF Inv, Scanned, TypeOK
<1>6. SlotsInv'
  BY <1>1 DEF Inv, SlotsInv, LockedKeys
<1>7. MutexInv'
  BY <1>1 DEF Inv, MutexInv
<1> QED
  BY <1>2, <1>3, <1>4, <1>5, <1>6, <1>7 DEF Inv

\* The next key to lock is one of the transaction's, and a key.
LEMMA NextKeyIsKey ==
  ASSUME TypeOK, NEW t \in Transaction
  PROVE  NextKey(t) \subseteq Key
BY DEF TypeOK, NextKey, ToRead, ToWrite

\* A step that leaves the locks alone, and the slots of those keys that are
\* locked, keeps the metadata true.
LEMMA MetadataKept ==
  ASSUME TypeOK, MetadataTellsLocks, UNCHANGED held,
         \A u \in Transaction, mode \in Mode : LockedKeys(u, mode)' = LockedKeys(u, mode),
         \A u \in Transaction, mode \in Mode : \A i \in LockedKeys(u, mode) :
           HoldingOf(u, i, mode)' = HoldingOf(u, i, mode)
  PROVE  MetadataTellsLocks'
<1>1. ASSUME NEW u \in Transaction, NEW mode \in Mode, NEW i \in LockedKeys(u, mode)'
      PROVE  HoldingOf(u, i, mode)' \in held'
  BY <1>1 DEF MetadataTellsLocks
<1>2. ASSUME NEW h \in held'
      PROVE  \E i \in LockedKeys(h.holder, h.mode)' :
               h = HoldingOf(h.holder, i, h.mode)'
  <2>1. h \in held /\ h.holder \in Transaction /\ h.mode \in Mode
    BY DEF TypeOK
  <2>2. PICK i \in LockedKeys(h.holder, h.mode) : h = HoldingOf(h.holder, i, h.mode)
    BY <2>1 DEF MetadataTellsLocks
  <2> QED
    BY <2>1, <2>2
<1> QED
  BY <1>1, <1>2 DEF MetadataTellsLocks

\* GetLock takes its reference to a slot; a slot that has a mutex keeps it.
LEMMA LookUpInv ==
  ASSUME Inv, NEW t \in Transaction, LookUp(t)
  PROVE  Inv'
<1>1. PICK k \in NextKey(t) :
        /\ key' = [key EXCEPT ![t] = k]
        /\ locks_by_key' = [locks_by_key EXCEPT ![k] = IF @ = NoSlot THEN NoMutex
                                                                     ELSE @]
  BY DEF LookUp
<1>2. /\ stage[t] = "acquiring"
      /\ mutex' = [mutex EXCEPT ![t] = NoMutex]
      /\ stage' = [stage EXCEPT ![t] = "looking up"]
      /\ UNCHANGED <<ops, scanned, readonly_keys, write_and_readwrite_keys, held,
                     read_lock_keys, write_lock_keys>>
  BY DEF LookUp, keySets, metadata
<1>3. TypeOK /\ k \in Key
  BY NextKeyIsKey DEF Inv
<1>4. \A i \in Key : locks_by_key[i] \in Mutex => locks_by_key'[i] = locks_by_key[i]
  BY <1>1, <1>3, MutexIsOne DEF TypeOK
<1>5. /\ locks_by_key'[k] # NoSlot
      /\ \A i \in Key : locks_by_key[i] # NoSlot => locks_by_key'[i] # NoSlot
      /\ \A i \in Key : locks_by_key'[i] \in Mutex => locks_by_key[i] \in Mutex
  BY <1>1, <1>3, MutexIsOne, NoMutexDiffers DEF TypeOK
<1>6. TypeOK'
  BY <1>1, <1>2, <1>3 DEF TypeOK, Stage
<1>7. \A u \in Transaction, mode \in Mode : LockedKeys(u, mode) \subseteq Key
  BY <1>3 DEF TypeOK, LockedKeys
<1>8. \A u \in Transaction, mode \in Mode : LockedKeys(u, mode)' = LockedKeys(u, mode)
  BY <1>2 DEF LockedKeys
<1>9. SlotsInv'
  BY <1>4, <1>5, <1>7, <1>8 DEF Inv, SlotsInv
<1>10. \A u \in Transaction, mode \in Mode : \A i \in LockedKeys(u, mode) :
         HoldingOf(u, i, mode)' = HoldingOf(u, i, mode)
  BY <1>4, <1>7 DEF Inv, SlotsInv, HoldingOf
<1>11. MetadataTellsLocks'
  BY <1>2, <1>3, <1>8, <1>10, MetadataKept DEF Inv
<1>12. Located'
  <2> SUFFICES ASSUME NEW u \in Transaction
      PROVE  /\ stage'[u] \in {"looking up", "locking"} => key'[u] \in NextKey(u)'
             /\ stage'[u] = "looking up" => mutex'[u] = NoMutex
                                            /\ locks_by_key'[key'[u]] # NoSlot
             /\ stage'[u] = "locking" => mutex'[u] \in Mutex
                                         /\ mutex'[u] = locks_by_key'[key'[u]]
             /\ stage'[u] = "executing" => ToRead(u)' = {} /\ ToWrite(u)' = {}
    BY DEF Located
  <2>1. NextKey(u)' = NextKey(u) /\ ToRead(u)' = ToRead(u) /\ ToWrite(u)' = ToWrite(u)
    BY <1>2 DEF NextKey, ToRead, ToWrite
  <2>2. CASE u = t
    BY <2>1, <2>2, <1>1, <1>2, <1>3, <1>5 DEF TypeOK
  <2>3. CASE u # t
    <3>1. stage'[u] = stage[u] /\ key'[u] = key[u] /\ mutex'[u] = mutex[u]
      BY <2>3, <1>1, <1>2, <1>3 DEF TypeOK
    <3>2. stage[u] \in {"looking up", "locking"} => key[u] \in Key
      BY <1>3, NextKeyIsKey DEF Inv, Located
    <3> QED
      BY <3>1, <3>2, <2>1, <1>4, <1>5 DEF Inv, Located
  <2> QED
    BY <2>2, <2>3
<1>13. Scanned'
  BY <1>2, <1>3 DEF Inv, Scanned, TypeOK
<1>14. MutexInv'
  BY <1>2 DEF Inv, MutexInv
<1> QED
  BY <1>6, <1>9, <1>11, <1>12, <1>13, <1>14 DEF Inv

\* GetLock fills an empty slot and leaves a full one alone.
LEMMA GetLockInv ==
  ASSUME Inv, NEW t \in Transaction, GetLock(t)
  PROVE  Inv'
<1> DEFINE made  == <<"mutex", key[t], t>>
           found == locks_by_key[key[t]]
           m     == IF found = NoMutex THEN made ELSE found
<1>1. /\ stage[t] = "looking up"
      /\ TypeOK
      /\ mutex[t] = NoMutex
      /\ key[t] \in Key
      /\ found # NoSlot
  BY NextKeyIsKey DEF Inv, Located, GetLock
<1>2. made \in Mutex /\ made[2] = key[t]
  BY <1>1, MadeIsMutex
<1>3. m \in Mutex /\ m[2] = key[t]
  BY <1>1, <1>2 DEF TypeOK, Inv, SlotsInv
<1>4. /\ mutex' = [mutex EXCEPT ![t] = m]
      /\ locks_by_key' = [locks_by_key EXCEPT ![key[t]] = m]
      /\ stage' = [stage EXCEPT ![t] = "locking"]
      /\ UNCHANGED <<ops, scanned, readonly_keys, write_and_readwrite_keys, key, held,
                     read_lock_keys, write_lock_keys>>
  BY <1>1, NoMutexDiffers DEF GetLock, TypeOK, keySets, metadata
<1>5. \A i \in Key : locks_by_key[i] \in Mutex => locks_by_key'[i] = locks_by_key[i]
  BY <1>1, <1>4, MutexIsOne DEF TypeOK
<1>6. \A i \in Key : /\ locks_by_key[i] # NoSlot => locks_by_key'[i] # NoSlot
                     /\ locks_by_key'[i] \in Mutex => locks_by_key'[i][2] = i
  BY <1>1, <1>3, <1>4, MutexIsOne DEF TypeOK, Inv, SlotsInv
<1>7. TypeOK'
  BY <1>1, <1>3, <1>4 DEF TypeOK, Stage
<1>8. \A u \in Transaction, mode \in Mode : LockedKeys(u, mode) \subseteq Key
  BY <1>1 DEF TypeOK, LockedKeys
<1>9. \A u \in Transaction, mode \in Mode : LockedKeys(u, mode)' = LockedKeys(u, mode)
  BY <1>4 DEF LockedKeys
<1>10. SlotsInv'
  BY <1>5, <1>6, <1>8, <1>9 DEF Inv, SlotsInv
<1>11. \A u \in Transaction, mode \in Mode : \A i \in LockedKeys(u, mode) :
         HoldingOf(u, i, mode)' = HoldingOf(u, i, mode)
  BY <1>5, <1>8 DEF Inv, SlotsInv, HoldingOf
<1>12. MetadataTellsLocks'
  BY <1>1, <1>4, <1>9, <1>11, MetadataKept DEF Inv
<1>13. Located'
  <2> SUFFICES ASSUME NEW u \in Transaction
      PROVE  /\ stage'[u] \in {"looking up", "locking"} => key'[u] \in NextKey(u)'
             /\ stage'[u] = "looking up" => mutex'[u] = NoMutex
                                            /\ locks_by_key'[key'[u]] # NoSlot
             /\ stage'[u] = "locking" => mutex'[u] \in Mutex
                                         /\ mutex'[u] = locks_by_key'[key'[u]]
             /\ stage'[u] = "executing" => ToRead(u)' = {} /\ ToWrite(u)' = {}
    BY DEF Located
  <2>1. NextKey(u)' = NextKey(u) /\ ToRead(u)' = ToRead(u) /\ ToWrite(u)' = ToWrite(u)
    BY <1>4 DEF NextKey, ToRead, ToWrite
  <2>2. CASE u = t
    <3>1. stage'[t] = "locking" /\ mutex'[t] = m /\ locks_by_key'[key'[t]] = m
      BY <1>1, <1>4 DEF TypeOK
    <3> QED
      BY <3>1, <2>1, <2>2, <1>1, <1>3, <1>4 DEF Inv, Located
  <2>3. CASE u # t
    <3>1. stage'[u] = stage[u] /\ key'[u] = key[u] /\ mutex'[u] = mutex[u]
      BY <2>3, <1>1, <1>4 DEF TypeOK
    <3>2. stage[u] \in {"looking up", "locking"} => key[u] \in Key
      BY <1>1, NextKeyIsKey DEF Inv, Located
    <3> QED
      BY <3>1, <3>2, <2>1, <1>5, <1>6 DEF Inv, Located
  <2> QED
    BY <2>2, <2>3
<1>14. Scanned'
  BY <1>1, <1>4 DEF Inv, Scanned, TypeOK
<1>15. MutexInv'
  BY <1>4 DEF Inv, MutexInv
<1> QED
  BY <1>7, <1>10, <1>12, <1>13, <1>14, <1>15 DEF Inv

\* A mutex is locked: the one in the slot of the key, which nobody holds in a way
\* that excludes it.
LEMMA LockInv ==
  ASSUME Inv, NEW t \in Transaction, Lock(t)
  PROVE  Inv'
<1>0. PICK k \in Key, mode \in Mode : k = key[t] /\ mode = ModeOf(t)
  BY NextKeyIsKey DEF Inv, Located, Lock, ModeOf, Mode
<1> DEFINE new == HoldingOf(t, k, mode)
<1>1. /\ TypeOK
      /\ stage[t] = "locking"
      /\ mutex[t] \in Mutex
      /\ mutex[t] = locks_by_key[k]
      /\ new = [mutex |-> mutex[t], holder |-> t, mode |-> mode]
  BY <1>0 DEF Inv, Located, Lock, HoldingOf
<1>2. /\ held' = held \cup {new}
      /\ key' = [key EXCEPT ![t] = NoKey]
      /\ mutex' = [mutex EXCEPT ![t] = NoMutex]
      /\ stage' = [stage EXCEPT ![t] = "acquiring"]
      /\ UNCHANGED <<ops, scanned, readonly_keys, write_and_readwrite_keys,
                     locks_by_key>>
  BY <1>0, <1>1 DEF Lock, keySets
<1>3. \/ /\ mode = "read"
         /\ read_lock_keys' = [read_lock_keys EXCEPT ![t] = @ \cup {k}]
         /\ UNCHANGED write_lock_keys
      \/ /\ mode = "write"
         /\ write_lock_keys' = [write_lock_keys EXCEPT ![t] = @ \cup {k}]
         /\ UNCHANGED read_lock_keys
  BY <1>0 DEF Lock, ModeOf
<1>4. TypeOK'
  <2>1. held' \subseteq [mutex : Mutex, holder : Transaction, mode : Mode]
    BY <1>1, <1>2 DEF TypeOK
  <2>2. /\ stage' \in [Transaction -> Stage]
        /\ key' \in [Transaction -> Key \cup {NoKey}]
        /\ mutex' \in [Transaction -> Mutex \cup {NoMutex, Dangling}]
    BY <1>1, <1>2 DEF TypeOK, Stage
  <2>3. /\ read_lock_keys' \in [Transaction -> SUBSET Key]
        /\ write_lock_keys' \in [Transaction -> SUBSET Key]
    BY <1>1, <1>3 DEF TypeOK
  <2> QED
    BY <2>1, <2>2, <2>3, <1>1, <1>2 DEF TypeOK
<1>5. \A u \in Transaction, o \in Mode :
        LockedKeys(u, o)' = IF u = t /\ o = mode THEN LockedKeys(u, o) \cup {k}
                                                 ELSE LockedKeys(u, o)
  BY <1>1, <1>3 DEF LockedKeys, Mode, TypeOK
<1>6. \A u, i, o : HoldingOf(u, i, o)' = HoldingOf(u, i, o)
  BY <1>2 DEF HoldingOf
<1>7. MetadataTellsLocks'
  <2>1. ASSUME NEW u \in Transaction, NEW o \in Mode, NEW i \in LockedKeys(u, o)'
        PROVE  HoldingOf(u, i, o)' \in held'
    BY <2>1, <1>2, <1>5, <1>6 DEF Inv, MetadataTellsLocks
  <2>2. ASSUME NEW h \in held'
        PROVE  \E i \in LockedKeys(h.holder, h.mode)' :
                 h = HoldingOf(h.holder, i, h.mode)'
    <3>1. CASE h = new
      <4>1. h.holder = t /\ h.mode = mode
        BY <3>1, <1>1
      <4>2. k \in LockedKeys(t, mode)'
        BY <1>1, <1>5
      <4> QED
        BY <4>1, <4>2, <3>1, <1>6
    <3>2. CASE h \in held
      <4>1. h.holder \in Transaction /\ h.mode \in Mode
        BY <3>2, <1>1 DEF TypeOK
      <4>2. PICK i \in LockedKeys(h.holder, h.mode) : h = HoldingOf(h.holder, i, h.mode)
        BY <3>2 DEF Inv, MetadataTellsLocks
      <4>3. i \in LockedKeys(h.holder, h.mode)'
        BY <4>1, <1>5
      <4> QED
        BY <4>2, <4>3, <1>6
    <3> QED
      BY <3>1, <3>2, <1>2
  <2> QED
    BY <2>1, <2>2 DEF MetadataTellsLocks
<1>8. Located'
  <2> SUFFICES ASSUME NEW u \in Transaction
      PROVE  /\ stage'[u] \in {"looking up", "locking"} => key'[u] \in NextKey(u)'
             /\ stage'[u] = "looking up" => mutex'[u] = NoMutex
                                            /\ locks_by_key'[key'[u]] # NoSlot
             /\ stage'[u] = "locking" => mutex'[u] \in Mutex
                                         /\ mutex'[u] = locks_by_key'[key'[u]]
             /\ stage'[u] = "executing" => ToRead(u)' = {} /\ ToWrite(u)' = {}
    BY DEF Located
  <2>1. CASE u = t
    BY <2>1, <1>1, <1>2 DEF TypeOK
  <2>2. CASE u # t
    <3>1. stage'[u] = stage[u] /\ key'[u] = key[u] /\ mutex'[u] = mutex[u]
      BY <2>2, <1>1, <1>2 DEF TypeOK
    <3>2. read_lock_keys'[u] = read_lock_keys[u] /\ write_lock_keys'[u] = write_lock_keys[u]
      BY <2>2, <1>1, <1>3 DEF TypeOK
    <3>3. NextKey(u)' = NextKey(u) /\ ToRead(u)' = ToRead(u) /\ ToWrite(u)' = ToWrite(u)
      BY <3>2, <1>2 DEF NextKey, ToRead, ToWrite
    <3> QED
      BY <3>1, <3>3, <1>2 DEF Inv, Located
  <2> QED
    BY <2>1, <2>2
<1>9. Scanned'
  BY <1>1, <1>2, <1>3 DEF Inv, Scanned, TypeOK
<1>10. SlotsInv'
  <2>1. \A i \in Key : locks_by_key'[i] \in Mutex => locks_by_key'[i][2] = i
    BY <1>2 DEF Inv, SlotsInv
  <2>2. ASSUME NEW u \in Transaction, NEW o \in Mode, NEW i \in LockedKeys(u, o)'
        PROVE  locks_by_key'[i] \in Mutex
    BY <2>2, <1>1, <1>2, <1>5 DEF Inv, SlotsInv
  <2> QED
    BY <2>1, <2>2 DEF SlotsInv
<1>11. MutexInv'
  <2>1. \A h \in held : h.mutex = new.mutex => mode = "read" /\ h.mode = "read"
    BY <1>0, <1>1 DEF Lock, CanLock
  <2>2. new.mode = mode
    BY <1>1
  <2> QED
    BY <2>1, <2>2, <1>2 DEF Inv, MutexInv
<1> QED
  BY <1>4, <1>7, <1>8, <1>9, <1>10, <1>11 DEF Inv

\* A key is unlocked: the mutex in its slot is the one that was locked, and no
\* other key has it.
LEMMA UnlockNextInv ==
  ASSUME Inv, NEW t \in Transaction, UnlockNext(t)
  PROVE  Inv'
<1>1. PICK mode \in Mode, k \in Key :
        /\ k \in LockedKeys(t, mode)
        /\ held' = held \ {HoldingOf(t, k, mode)}
        /\ \/ /\ mode = "write"
              /\ write_lock_keys' = [write_lock_keys EXCEPT ![t] = @ \ {k}]
              /\ UNCHANGED read_lock_keys
           \/ /\ mode = "read"
              /\ read_lock_keys' = [read_lock_keys EXCEPT ![t] = @ \ {k}]
              /\ UNCHANGED write_lock_keys
  BY DEF Inv, TypeOK, UnlockNext, Unlock, HoldingOf, LockedKeys, Mode
<1>2. /\ TypeOK
      /\ stage[t] = "unlocking"
      /\ UNCHANGED <<ops, stage, scanned, readonly_keys, write_and_readwrite_keys, key,
                     mutex, locks_by_key>>
  BY DEF Inv, UnlockNext, keySets
<1>3. \A u \in Transaction, o \in Mode :
        LockedKeys(u, o)' = IF u = t /\ o = mode THEN LockedKeys(u, o) \ {k}
                                                 ELSE LockedKeys(u, o)
  BY <1>1, <1>2 DEF LockedKeys, Mode, TypeOK
<1>4. \A u, i, o : HoldingOf(u, i, o)' = HoldingOf(u, i, o)
  BY <1>2 DEF HoldingOf
<1>5. \A u \in Transaction, o \in Mode : LockedKeys(u, o) \subseteq Key
  BY <1>2 DEF TypeOK, LockedKeys
<1>6. TypeOK'
  <2>1. held' \subseteq [mutex : Mutex, holder : Transaction, mode : Mode]
    BY <1>1, <1>2 DEF TypeOK
  <2>2. /\ read_lock_keys' \in [Transaction -> SUBSET Key]
        /\ write_lock_keys' \in [Transaction -> SUBSET Key]
    BY <1>1, <1>2 DEF TypeOK
  <2> QED
    BY <2>1, <2>2, <1>2 DEF TypeOK
<1>7. MetadataTellsLocks'
  <2>1. ASSUME NEW u \in Transaction, NEW o \in Mode, NEW i \in LockedKeys(u, o)'
        PROVE  HoldingOf(u, i, o)' \in held'
    <3>1. i \in LockedKeys(u, o) /\ HoldingOf(u, i, o) \in held
      BY <2>1, <1>3 DEF Inv, MetadataTellsLocks
    <3>2. HoldingOf(u, i, o) # HoldingOf(t, k, mode)
      <4>1. SUFFICES ASSUME HoldingOf(u, i, o) = HoldingOf(t, k, mode) PROVE FALSE
        OBVIOUS
      <4>2. u = t /\ o = mode /\ locks_by_key[i] = locks_by_key[k]
        BY <4>1 DEF HoldingOf
      <4>3. i = k
        BY <3>1, <4>2, <1>1, <1>5 DEF Inv, SlotsInv
      <4> QED
        BY <2>1, <4>2, <4>3, <1>3
    <3> QED
      BY <3>1, <3>2, <1>1, <1>4
  <2>2. ASSUME NEW h \in held'
        PROVE  \E i \in LockedKeys(h.holder, h.mode)' :
                 h = HoldingOf(h.holder, i, h.mode)'
    <3>1. h \in held /\ h # HoldingOf(t, k, mode)
      BY <1>1
    <3>2. h.holder \in Transaction /\ h.mode \in Mode
      BY <3>1, <1>2 DEF TypeOK
    <3>3. PICK i \in LockedKeys(h.holder, h.mode) : h = HoldingOf(h.holder, i, h.mode)
      BY <3>1 DEF Inv, MetadataTellsLocks
    <3>4. i \in LockedKeys(h.holder, h.mode)'
      BY <3>1, <3>2, <3>3, <1>3
    <3> QED
      BY <3>3, <3>4, <1>4
  <2> QED
    BY <2>1, <2>2 DEF MetadataTellsLocks
<1>8. Located'
  <2> SUFFICES ASSUME NEW u \in Transaction
      PROVE  /\ stage'[u] \in {"looking up", "locking"} => key'[u] \in NextKey(u)'
             /\ stage'[u] = "looking up" => mutex'[u] = NoMutex
                                            /\ locks_by_key'[key'[u]] # NoSlot
             /\ stage'[u] = "locking" => mutex'[u] \in Mutex
                                         /\ mutex'[u] = locks_by_key'[key'[u]]
             /\ stage'[u] = "executing" => ToRead(u)' = {} /\ ToWrite(u)' = {}
    BY DEF Located
  <2>1. CASE u = t
    BY <2>1, <1>2
  <2>2. CASE u # t
    <3>1. read_lock_keys'[u] = read_lock_keys[u] /\ write_lock_keys'[u] = write_lock_keys[u]
      BY <2>2, <1>1, <1>2 DEF TypeOK
    <3>2. NextKey(u)' = NextKey(u) /\ ToRead(u)' = ToRead(u) /\ ToWrite(u)' = ToWrite(u)
      BY <3>1, <1>2 DEF NextKey, ToRead, ToWrite
    <3> QED
      BY <3>2, <1>2 DEF Inv, Located
  <2> QED
    BY <2>1, <2>2
<1>9. Scanned'
  BY <1>1, <1>2 DEF Inv, Scanned, TypeOK
<1>10. SlotsInv'
  <2>1. \A i \in Key : locks_by_key'[i] \in Mutex => locks_by_key'[i][2] = i
    BY <1>2 DEF Inv, SlotsInv
  <2>2. ASSUME NEW u \in Transaction, NEW o \in Mode, NEW i \in LockedKeys(u, o)'
        PROVE  locks_by_key'[i] \in Mutex
    BY <2>2, <1>2, <1>3 DEF Inv, SlotsInv
  <2> QED
    BY <2>1, <2>2 DEF SlotsInv
<1>11. MutexInv'
  BY <1>1 DEF Inv, MutexInv
<1> QED
  BY <1>6, <1>7, <1>8, <1>9, <1>10, <1>11 DEF Inv

\* An operation of a transaction is an operation.
LEMMA NextOperation ==
  ASSUME TypeOK, NEW t \in Transaction, NEW i \in DOMAIN ops[t]
  PROVE  ops[t][i] \in Operation /\ DOMAIN ops[t] = 1 .. Len(ops[t])
BY ProgramsAssumption DEF TypeOK

\* An operation is scanned: its key gets into one of the sets, and no key leaves
\* both.
LEMMA ScanInv ==
  ASSUME Inv, NEW t \in Transaction, Scan(t)
  PROVE  Inv'
<1> DEFINE n  == scanned[t] + 1
           op == ops[t][n]
<1>1. /\ TypeOK
      /\ stage[t] = "scanning"
      /\ scanned[t] \in Nat /\ scanned[t] < Len(ops[t])
      /\ AddKey(t, op)
      /\ scanned' = [scanned EXCEPT ![t] = n]
      /\ UNCHANGED <<ops, stage, key, mutex, locks_by_key, held, read_lock_keys,
                     write_lock_keys>>
  BY DEF Inv, Scan, metadata, TypeOK
<1>2. ops[t] \in Seq(Operation)
  BY <1>1, ProgramsAssumption DEF TypeOK
<1>3. op \in Operation
  BY <1>1, <1>2
<1>4. op.key \in Key /\ op.type \in {"get", "put", "relative", "none"}
  BY <1>3 DEF Operation
<1>5. /\ readonly_keys' \in [Transaction -> SUBSET Key]
      /\ write_and_readwrite_keys' \in [Transaction -> SUBSET Key]
      /\ \A u \in Transaction \ {t} :
           /\ readonly_keys'[u] = readonly_keys[u]
           /\ write_and_readwrite_keys'[u] = write_and_readwrite_keys[u]
      /\ write_and_readwrite_keys[t] \subseteq write_and_readwrite_keys'[t]
      /\ readonly_keys[t] \subseteq readonly_keys'[t] \cup write_and_readwrite_keys'[t]
      /\ op.type \in {"put", "relative"} => op.key \in write_and_readwrite_keys'[t]
      /\ op.type # "none" =>
           op.key \in readonly_keys'[t] \cup write_and_readwrite_keys'[t]
  <2>1. CASE /\ op.type \in {"put", "relative"}
             /\ readonly_keys' = [readonly_keys EXCEPT ![t] = @ \ {op.key}]
             /\ write_and_readwrite_keys' =
                  [write_and_readwrite_keys EXCEPT ![t] = @ \cup {op.key}]
    BY <2>1, <1>1, <1>4 DEF TypeOK
  <2>2. CASE /\ op.type = "get"
             /\ readonly_keys' = [readonly_keys EXCEPT ![t] = @ \cup {op.key}]
             /\ UNCHANGED write_and_readwrite_keys
    BY <2>2, <1>1, <1>4 DEF TypeOK
  <2>3. CASE /\ op.type = "none" \/ op.key \in write_and_readwrite_keys[t]
             /\ op.type \in {"get", "none"}
             /\ UNCHANGED <<readonly_keys, write_and_readwrite_keys>>
    BY <2>3, <1>1, <1>4 DEF TypeOK
  <2> QED
    BY <2>1, <2>2, <2>3, <1>1 DEF AddKey
<1>6. TypeOK'
  <2>1. scanned' \in [Transaction -> Nat]
    BY <1>1 DEF TypeOK
  <2> QED
    BY <2>1, <1>1, <1>5 DEF TypeOK
<1>7. MetadataTellsLocks'
  BY <1>1 DEF Inv, MetadataTellsLocks, HoldingOf, LockedKeys, TypeOK
<1>8. Located'
  BY <1>1, <1>5 DEF Inv, Located, NextKey, ToRead, ToWrite
<1>9. Scanned'
  <2> SUFFICES ASSUME NEW u \in Transaction
      PROVE  /\ stage'[u] # "scanning" => scanned'[u] = Len(ops'[u])
             /\ stage'[u] = "scanning" =>
                  read_lock_keys'[u] = {} /\ write_lock_keys'[u] = {}
             /\ \A i \in 1 .. scanned'[u] : i \in DOMAIN ops'[u] =>
                  /\ ops'[u][i].type \in {"put", "relative"} =>
                       ops'[u][i].key \in write_and_readwrite_keys'[u]
                  /\ ops'[u][i].type # "none" =>
                       ops'[u][i].key \in readonly_keys'[u] \cup
                                            write_and_readwrite_keys'[u]
    BY DEF Scanned
  <2>1. CASE u = t
    <3>1. scanned'[t] = n
      BY <1>1 DEF TypeOK
    <3>2. ASSUME NEW i \in 1 .. n, i \in DOMAIN ops[t]
          PROVE  /\ ops[t][i].type \in {"put", "relative"} =>
                      ops[t][i].key \in write_and_readwrite_keys'[t]
                 /\ ops[t][i].type # "none" =>
                      ops[t][i].key \in readonly_keys'[t] \cup
                                          write_and_readwrite_keys'[t]
      <4>1. CASE i = n
        BY <4>1, <1>5
      <4>2. CASE i \in 1 .. scanned[t]
        BY <4>2, <3>2, <1>5 DEF Inv, Scanned
      <4> QED
        BY <4>1, <4>2, <1>1
    <3> QED
      BY <2>1, <3>1, <3>2, <1>1 DEF Inv, Scanned
  <2>2. CASE u # t
    <3>1. scanned'[u] = scanned[u]
      BY <2>2, <1>1 DEF TypeOK
    <3> QED
      BY <2>2, <3>1, <1>1, <1>5 DEF Inv, Scanned
  <2> QED
    BY <2>1, <2>2
<1>10. SlotsInv'
  BY <1>1 DEF Inv, SlotsInv, LockedKeys
<1>11. MutexInv'
  BY <1>1 DEF Inv, MutexInv
<1> QED
  BY <1>6, <1>7, <1>8, <1>9, <1>10, <1>11 DEF Inv
-----------------------------------------------------------------------------
\* Every step, and a stutter, keeps the invariant.
LEMMA NextInv == Inv /\ [Next]_vars => Inv'
<1> SUFFICES ASSUME Inv, [Next]_vars PROVE Inv'
  OBVIOUS
<1>1. ASSUME NEW t \in Transaction, Process(t) PROVE Inv'
  BY <1>1, ScanInv, StageInv, LookUpInv, GetLockInv, LockInv, UnlockNextInv DEF Process
<1>2. CASE UNCHANGED vars
  <2>1. TypeOK'
    BY <1>2 DEF Inv, TypeOK, vars, keySets, metadata
  <2>2. MetadataTellsLocks'
    BY <1>2 DEF Inv, MetadataTellsLocks, LockedKeys, HoldingOf, vars, keySets, metadata
  <2>3. Located' /\ Scanned'
    BY <1>2 DEF Inv, Located, Scanned, NextKey, ToRead, ToWrite, vars, keySets, metadata
  <2>4. SlotsInv' /\ MutexInv'
    BY <1>2 DEF Inv, SlotsInv, MutexInv, LockedKeys, vars, keySets, metadata
  <2> QED
    BY <2>1, <2>2, <2>3, <2>4 DEF Inv
<1> QED
  BY <1>1, <1>2 DEF Next

\* The inductive invariant.
LEMMA Invariant == Spec => []Inv
BY InitInv, NextInv, PTL DEF Spec

\* Type correctness for any keys, transactions and programs.
THEOREM KeyLocksTypeCorrect == Spec => []TypeOK
<1>1. Inv => TypeOK
  BY DEF Inv
<1> QED
  BY Invariant, <1>1, PTL

\* Whatever the transactions are, the metadata of each find by the key what it has
\* locked, and nobody holds a mutex without having it in the metadata, as long as
\* the slots of the map stay where they are (GetLock, ReleaseLocksAndDeleteMetadata).
THEOREM LocksAreTold == Spec => []MetadataTellsLocks
<1>1. Inv => MetadataTellsLocks
  BY DEF Inv
<1> QED
  BY Invariant, <1>1, PTL

\* Two transactions that execute together have locked the keys of their operations,
\* so one that writes a key excludes every other one that uses it.
LEMMA InvExcludes == Inv => KeysAreExclusive
<1> SUFFICES ASSUME Inv, NEW t \in Transaction, NEW u \in Transaction, t # u,
                    stage[t] = "executing", stage[u] = "executing",
                    NEW k \in WrittenKeys(t), k \in AccessedKeys(u)
             PROVE  FALSE
  BY DEF KeysAreExclusive
<1>1. /\ TypeOK
      /\ write_and_readwrite_keys[t] \subseteq write_lock_keys[t]
      /\ write_and_readwrite_keys[u] \subseteq write_lock_keys[u]
      /\ readonly_keys[u] \subseteq read_lock_keys[u]
  BY DEF Inv, Located, ToRead, ToWrite
<1>2. k \in LockedKeys(t, "write")
  <2>1. PICK i \in DOMAIN ops[t] : /\ ops[t][i].type \in {"put", "relative"}
                                   /\ k = ops[t][i].key
    BY DEF WrittenKeys
  <2>2. i \in 1 .. scanned[t]
    BY <1>1, NextOperation DEF Inv, Scanned
  <2> QED
    BY <2>1, <2>2, <1>1 DEF Inv, Scanned, LockedKeys
<1>3. k \in LockedKeys(u, "read") \cup LockedKeys(u, "write")
  <2>1. PICK i \in DOMAIN ops[u] : ops[u][i].type # "none" /\ k = ops[u][i].key
    BY DEF AccessedKeys
  <2>2. i \in 1 .. scanned[u]
    BY <1>1, NextOperation DEF Inv, Scanned
  <2> QED
    BY <2>1, <2>2, <1>1 DEF Inv, Scanned, LockedKeys
<1>4. PICK o \in Mode : k \in LockedKeys(u, o)
  BY <1>3 DEF Mode
<1>5. HoldingOf(t, k, "write") \in held /\ HoldingOf(u, k, o) \in held
  BY <1>2, <1>4 DEF Inv, MetadataTellsLocks, Mode
<1> QED
  BY <1>5 DEF Inv, MutexInv, HoldingOf

\* However many transactions there are, and in whatever order they lock their keys
\* and make the mutexes, no two execute together of which one writes a key that the
\* other uses (AcquireDbLocks, GetLock).
THEOREM ConcurrentWritesAreExclusive == Spec => []KeysAreExclusive
BY Invariant, InvExcludes, PTL
=============================================================================
