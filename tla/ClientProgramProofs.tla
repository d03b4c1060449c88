------------------------- MODULE ClientProgramProofs -------------------------
(***************************************************************************)
(* What the client program is told, for any files, any sets of cohorts and *)
(* keys, any number of threads and any choices.                            *)
(*                                                                         *)
(* The argument: one caller at a time is in the loop over the cohorts of a *)
(* transaction.  While its response is not complete, the reads in it are   *)
(* those of the cohorts that have responded, once each, and each of them   *)
(* has committed (PollInv); what the caller in the loop is about to add is *)
(* committed and not added yet, and what it has counted is added           *)
(* (CallInv).  The entry of a transaction is erased only when its response *)
(* is complete, so it is sent again only then (SentInv).  A response that  *)
(* is complete never changes again, so a future that says committed has    *)
(* what the response has (CommittedInv).  A key that a file leaves open is *)
(* one that an earlier request puts, or the same one before (BuildInv); a  *)
(* request is sent when those before it that are not async have their      *)
(* results (SyncInv), so that the database has the key by then             *)
(* (FindsPutKeys).                                                         *)
(***************************************************************************)
EXTENDS ClientProgram, OperationsProofs

-----------------------------------------------------------------------------
(* Sequences *)

\* f concatenates the first members of seqs.
IsFlattening(f, seqs) ==
  f = [i \in 1 .. Len(seqs) |-> IF i = 1 THEN seqs[i] ELSE f[i - 1] \o seqs[i]]

LEMMA FlatteningExists ==
  ASSUME NEW S, NEW seqs \in Seq(Seq(S)), seqs # << >>
  PROVE  \E f : IsFlattening(f, seqs)
PROOF
<1> DEFINE step == [n \in Nat |-> [x \in Seq(S) |->
                      IF n = 0 THEN seqs[1]
                      ELSE IF n < Len(seqs) THEN x \o seqs[n + 1] ELSE x]]
<1>1. Len(seqs) \in Nat \ {0} /\ << >> \in Seq(S)
  OBVIOUS
<1>2. \A n \in Nat : n < Len(seqs) => seqs[n + 1] \in Seq(S)
  OBVIOUS
<1>3. \A x, y \in Seq(S) : x \o y \in Seq(S)
  OBVIOUS
<1>4. seqs[1] \in Seq(S)
  BY <1>1
<1>5. step \in [Nat -> [Seq(S) -> Seq(S)]]
  BY <1>2, <1>3, <1>4
<1>6. \A n \in Nat, x \in Seq(S) :
        step[n][x] = IF n = 0 THEN seqs[1]
                     ELSE IF n < Len(seqs) THEN x \o seqs[n + 1] ELSE x
  OBVIOUS
<1> HIDE DEF step
<1>7. PICK g : g \in Approximations(Seq(S), << >>, step, Len(seqs))
  <2>1. Approximations(Seq(S), << >>, step, Len(seqs)) # {}
    BY <1>1, <1>5, ApproximationExists, Zenon
  <2> QED
    BY <2>1
<1>8. /\ g \in [0 .. Len(seqs) -> Seq(S)]
      /\ \A k \in 0 .. Len(seqs) - 1 : g[k + 1] = step[k][g[k]]
  BY <1>7 DEF Approximations
<1> DEFINE f == [i \in 1 .. Len(seqs) |-> g[i]]
<1>9. ASSUME NEW i \in 1 .. Len(seqs)
      PROVE  g[i] = IF i = 1 THEN seqs[i] ELSE f[i - 1] \o seqs[i]
  <2>1. PICK n \in Nat : n = i - 1
    OBVIOUS
  <2>2. n \in 0 .. Len(seqs) - 1 /\ n < Len(seqs) /\ n + 1 = i /\ g[n] \in Seq(S)
    <3>1. n \in 0 .. Len(seqs) - 1 /\ n < Len(seqs) /\ n + 1 = i /\ n \in 0 .. Len(seqs)
      BY ONLY <1>1, <2>1, i \in 1 .. Len(seqs)
    <3> QED
      BY <1>8, <3>1
  <2>3. g[i] = step[n][g[n]]
    BY <1>8, <2>2
  <2>4. g[i] = IF n = 0 THEN seqs[1] ELSE g[n] \o seqs[n + 1]
    BY <1>6, <2>2, <2>3
  <2>5. CASE i = 1
    BY <2>1, <2>4, <2>5
  <2>6. CASE i # 1
    <3>1. n # 0 /\ i - 1 \in 1 .. Len(seqs)
      BY <1>1, <2>1, <2>6
    <3>2. f[i - 1] = g[n]
      BY <2>1, <3>1
    <3> QED
      BY <2>2, <2>4, <2>6, <3>1, <3>2
  <2> QED
    BY <2>5, <2>6
<1>10. f = [i \in 1 .. Len(seqs) |-> IF i = 1 THEN seqs[i] ELSE f[i - 1] \o seqs[i]]
  BY <1>9
<1> HIDE DEF f
<1> QED
  BY <1>10, Zenon DEF IsFlattening

LEMMA FlatteningType ==
  ASSUME NEW S, NEW seqs \in Seq(Seq(S)), seqs # << >>, NEW f, IsFlattening(f, seqs)
  PROVE  f[Len(seqs)] \in Seq(S)
PROOF
<1> DEFINE P == {n \in Nat : n + 1 <= Len(seqs) => f[n + 1] \in Seq(S)}
<1>1. Len(seqs) \in Nat \ {0}
  OBVIOUS
<1>2. \A i \in 1 .. Len(seqs) : f[i] = IF i = 1 THEN seqs[i] ELSE f[i - 1] \o seqs[i]
  BY Zenon DEF IsFlattening
<1>3. \A i \in 1 .. Len(seqs) : seqs[i] \in Seq(S)
  OBVIOUS
<1>4. 0 \in P
  <2>1. 1 \in 1 .. Len(seqs)
    BY <1>1
  <2>2. f[1] \in Seq(S)
    BY <1>2, <1>3, <2>1
  <2> QED
    BY <2>2
<1>5. ASSUME NEW n \in Nat, n \in P
      PROVE  n + 1 \in P
  <2> SUFFICES ASSUME (n + 1) + 1 <= Len(seqs)
               PROVE  f[(n + 1) + 1] \in Seq(S)
    OBVIOUS
  <2>1. /\ (n + 1) + 1 \in 1 .. Len(seqs) /\ (n + 1) + 1 # 1
        /\ ((n + 1) + 1) - 1 = n + 1 /\ n + 1 <= Len(seqs)
    BY <1>1
  <2>2. f[n + 1] \in Seq(S) /\ seqs[(n + 1) + 1] \in Seq(S)
    BY <1>3, <1>5, <2>1
  <2>3. f[(n + 1) + 1] = f[n + 1] \o seqs[(n + 1) + 1]
    BY <1>2, <2>1
  <2> QED
    BY <2>2, <2>3
<1> HIDE DEF P
<1>6. Len(seqs) - 1 \in P
  <2>1. Len(seqs) - 1 \in Nat
    BY <1>1
  <2> QED
    BY <1>4, <1>5, <2>1, NatInductionSet
<1>7. (Len(seqs) - 1) + 1 = Len(seqs)
  BY <1>1
<1> QED
  BY <1>1, <1>6, <1>7 DEF P

\* The members of the members.
LEMMA FlattenSeqType ==
  ASSUME NEW S, NEW seqs \in Seq(Seq(S))
  PROVE  FlattenSeq(seqs) \in Seq(S)
PROOF
<1>1. CASE seqs = << >>
  <2>1. FlattenSeq(seqs) = << >>
    BY <1>1 DEF FlattenSeq
  <2> QED
    BY <2>1
<1>2. CASE seqs # << >>
  <2>1. Len(seqs) # 0
    BY <1>2
  <2> DEFINE f == CHOOSE f : IsFlattening(f, seqs)
  <2>2. FlattenSeq(seqs) = f[Len(seqs)]
    BY <2>1 DEF FlattenSeq, IsFlattening
  <2>3. IsFlattening(f, seqs)
    BY <1>2, FlatteningExists, Zenon
  <2> HIDE DEF f
  <2>4. f[Len(seqs)] \in Seq(S)
    BY <1>2, <2>3, FlatteningType
  <2> QED
    BY <2>2, <2>4
<1> QED
  BY <1>1, <1>2

-----------------------------------------------------------------------------
(* Files *)

LEMMA TimesType ==
  ASSUME NEW S, NEW s \in Seq(S), NEW n \in Nat
  PROVE  Times(n, s) \in Seq(S)
PROOF
<1>1. [i \in 1 .. n |-> s] \in Seq(Seq(S))
  OBVIOUS
<1> QED
  BY <1>1, FlattenSeqType DEF Times

LEMMA FileTransactionsType ==
  ASSUME NEW f \in Files
  PROVE  FileTransactions(f) \in Seq(FileTransaction)
PROOF
<1>1. /\ f.initial_transaction \in Seq(FileTransaction)
      /\ f.cycle_transaction \in Seq(FileTransaction)
      /\ f.cycle_length \in Nat
  BY FilesAssumption
<1>2. Times(f.cycle_length, f.cycle_transaction) \in Seq(FileTransaction)
  BY <1>1, TimesType
<1> QED
  BY <1>1, <1>2 DEF FileTransactions

\* What AddOperation is called for are operations of the transaction.
OpsIn(txn) == {txn.op[i] : i \in DOMAIN txn.op}

LEMMA FileOperationsType ==
  ASSUME NEW txn \in FileTransaction
  PROVE  FileOperations(txn) \in Seq(OpsIn(txn)) /\ OpsIn(txn) \subseteq FileOperation
PROOF
<1> DEFINE n(i) == IF txn.op[i].repeat_count = 0 THEN 1 ELSE txn.op[i].repeat_count
           seqs == [i \in DOMAIN txn.op |-> Times(n(i), << txn.op[i] >>)]
<1>1. txn.op \in Seq(FileOperation)
  BY DEF FileTransaction
<1>2. DOMAIN txn.op = 1 .. Len(txn.op) /\ Len(txn.op) \in Nat
  BY <1>1
<1>3. \A i \in DOMAIN txn.op : txn.op[i] \in FileOperation
  BY <1>1
<1>4. ASSUME NEW i \in DOMAIN txn.op
      PROVE  Times(n(i), << txn.op[i] >>) \in Seq(OpsIn(txn))
  <2>1. << txn.op[i] >> \in Seq(OpsIn(txn))
    BY DEF OpsIn
  <2>2. n(i) \in Nat
    BY <1>3 DEF FileOperation
  <2> HIDE DEF n
  <2> QED
    BY <2>1, <2>2, TimesType
<1>5. FileOperations(txn) = FlattenSeq(seqs)
  BY DEF FileOperations
<1> HIDE DEF n
<1>6. seqs \in Seq(Seq(OpsIn(txn)))
  BY <1>2, <1>4
<1> HIDE DEF seqs
<1>7. FileOperations(txn) \in Seq(OpsIn(txn))
  BY <1>5, <1>6, FlattenSeqType
<1> QED
  BY <1>3, <1>7 DEF OpsIn

-----------------------------------------------------------------------------
(* The inductive invariant of the coordinator and the databases *)

Complete(id)  == Entry(response, id, NoResponse).complete
Responded(id) == Entry(metadata, id, NewMetadata).cohorts_already_responded
Committed(id) == {c \in Participants(OpsOf(id)) : Answers(id, c, "committed")}

Once(S) == [c \in Cohort |-> IF c \in S THEN 1 ELSE 0]

\* A part is at a participant; it has the keys when it can be executed, and what
\* it puts is in the database when it is committed.
PartIsSound(id, n, c) ==
  /\ part[id][n][c] # "none" => c \in Participants(OpsOf(id))
  /\ part[id][n][c] \in {"ready", "blocked", "committed"} => FindsItsKeys(OpsOf(id), c)
  /\ part[id][n][c] = "committed" => PutKeys(OpsOf(id), c) \subseteq keys[c]

PartInv ==
  /\ DOMAIN decision \subseteq Id
  /\ \A id \in DOMAIN part : \A n \in 1 .. Len(part[id]), c \in Cohort :
       PartIsSound(id, n, c)

\* A voting is decided by the parts that were sent.
DecisionInv ==
  \A id \in DOMAIN decision :
    ~SingleCohort(id) /\ (decision[id] = "COMMIT" => id \in DOMAIN part)

\* What is not complete was sent once; it is sent again once, when its entry has been
\* erased.
SentInv ==
  /\ \A id \in DOMAIN metadata : PossiblySent(id) => id \in DOMAIN part
  /\ \A id \in DOMAIN part :
       /\ Len(part[id]) \in {1, 2}
       /\ ~Complete(id) => PossiblySent(id) /\ Len(part[id]) = 1
       /\ ~PossiblySent(id) => Len(part[id]) = 1

\* A response that is not complete has the reads of those that have responded.
PollInv ==
  \A id \in DOMAIN metadata \cup DOMAIN response : ~Complete(id) =>
    /\ Entry(response, id, NoResponse).status \in {"unset", "partial"}
    /\ Entry(response, id, NoResponse).gets = Once(Responded(id))
    /\ Responded(id) # {} => /\ id \in DOMAIN part /\ ~SingleCohort(id)
                             /\ Responded(id) \subseteq Committed(id)

\* Who is in the loop over the cohorts is alone in it; it has counted those that have
\* responded, and what it is about to add is not added yet.
IsCollecting(i) == i \in DOMAIN calls /\ calls[i].stage = "collecting"

CallIsSound(i) ==
  LET id == calls[i].id
  IN  /\ ~Complete(id) /\ id \in DOMAIN part
      /\ SingleCohort(id) => calls[i].answered # {}
      /\ ~SingleCohort(id) => Decided(id, "COMMIT")
      /\ calls[i].answered \subseteq Committed(id) \ Responded(id)
      /\ calls[i].counted \subseteq Responded(id)

CallInv ==
  /\ \A i \in DOMAIN calls : IF IsCollecting(i) THEN CallIsSound(i)
                                              ELSE calls[i].answered = {}
  /\ \A i, j \in DOMAIN calls :
       IsCollecting(i) /\ IsCollecting(j) /\ calls[i].id = calls[j].id => i = j

\* A committed response is the whole of it; from then on the transaction would
\* find its keys.
IsWhole(id) ==
  /\ response[id].complete /\ id \in DOMAIN part
  /\ response[id].gets = Once(Participants(OpsOf(id)))
  /\ \A c \in Cohort :
       /\ PutKeys(OpsOf(id), c) \subseteq keys[c]
       /\ FindsItsKeys(OpsOf(id), c)
       /\ \A n \in 1 .. Len(part[id]) : part[id][n][c] # "failed"
       /\ c \in Participants(OpsOf(id)) => part[id][1][c] = "committed"

CommittedInv ==
  \A id \in DOMAIN response : response[id].status = "committed" => IsWhole(id)

ServiceInv ==
  /\ ServiceTypeOK /\ PartInv /\ DecisionInv /\ SentInv /\ PollInv /\ CallInv
  /\ CommittedInv

\* No key is lost and no response changes once it is complete.
Grows ==
  /\ \A c \in Cohort : keys[c] \subseteq keys'[c]
  /\ \A id \in DOMAIN response : response[id].complete =>
       id \in DOMAIN response' /\ response'[id] = response[id]

LEMMA ServiceInvInit == ServiceInit => ServiceInv
PROOF
<1> SUFFICES ASSUME ServiceInit PROVE ServiceInv
  OBVIOUS
<1>1. /\ DOMAIN metadata = {} /\ DOMAIN response = {} /\ DOMAIN decision = {}
      /\ DOMAIN part = {} /\ DOMAIN calls = {} /\ keys = [c \in Cohort |-> {}]
  BY DEF ServiceInit, EmptyMap
<1>2. ServiceTypeOK
  BY <1>1 DEF ServiceTypeOK
<1>3. PartInv /\ DecisionInv /\ SentInv /\ PollInv /\ CallInv /\ CommittedInv
  BY <1>1 DEF PartInv, DecisionInv, SentInv, PollInv, CallInv, CommittedInv
<1> QED
  BY <1>2, <1>3 DEF ServiceInv

\* With more keys an operation that finds its key still does.
LEMMA FindsMore ==
  ASSUME NEW ops, NEW c \in Cohort, keys[c] \subseteq keys'[c], FindsItsKeys(ops, c)
  PROVE  FindsItsKeys(ops, c)'
PROOF
  BY DEF FindsItsKeys

\* What is put is put by one of the operations.
LEMMA PutKeysIff ==
  ASSUME NEW ops \in Seq(Operation), NEW c, NEW k
  PROVE  k \in PutKeys(ops, c) <=>
           \E i \in 1 .. Len(ops) : /\ ops[i].namespace = c /\ ops[i].key = k
                                   /\ ops[i].type \in {"put", "relative"}
PROOF
<1>1. \A op : op \in Range(ops) <=> \E i \in 1 .. Len(ops) : op = ops[i]
  BY DEF Range
<1>2. k \in PutKeys(ops, c) <=>
        \E op \in Range(ops) : /\ op.namespace = c /\ op.key = k
                               /\ op.type \in {"put", "relative"}
  BY DEF PutKeys
<1> QED
  BY <1>1, <1>2

LEMMA PutKeysType ==
  ASSUME NEW ops \in Seq(Operation), NEW c
  PROVE  PutKeys(ops, c) \subseteq Key
PROOF
<1> SUFFICES ASSUME NEW k \in PutKeys(ops, c)
             PROVE  k \in Key
  OBVIOUS
<1>1. PICK i \in 1 .. Len(ops) : ops[i].key = k
  BY PutKeysIff
<1>2. ops[i] \in Operation
  OBVIOUS
<1> QED
  BY <1>1, <1>2 DEF Operation

\* Cohorts that take no part.
LEMMA NoPart ==
  ASSUME NEW ops \in Seq(Operation), NEW c \in Cohort, c \notin Participants(ops)
  PROVE  PutKeys(ops, c) = {} /\ FindsItsKeys(ops, c)
PROOF
<1>1. SubTransaction(ops, c) = << >>
  BY DEF Participants
<1>2. \A i \in 1 .. Len(ops) : ops[i].namespace # c
  <2> SUFFICES ASSUME NEW i \in 1 .. Len(ops), ops[i].namespace = c PROVE FALSE
    OBVIOUS
  <2>1. \E j \in 1 .. Len(SubTransaction(ops, c)) : TRUE
    BY InSubTransaction
  <2> QED
    BY <1>1, <2>1
<1>3. PutKeys(ops, c) = {}
  <2>1. \A k : k \notin PutKeys(ops, c)
    BY <1>2, PutKeysIff
  <2> QED
    BY <2>1
<1> QED
  BY <1>1, <1>3 DEF FindsItsKeys

\* How many participants there are.
LEMMA ManyParticipants ==
  ASSUME NEW id \in Id
  PROVE  /\ ~SingleCohort(id) => Participants(OpsOf(id)) # {}
         /\ SingleCohort(id) => \A b, c \in Participants(OpsOf(id)) : b = c
PROOF
<1>1. PICK P : P = Participants(OpsOf(id))
  OBVIOUS
<1>2. OpsOf(id) \in Seq(Operation)
  BY DEF OpsOf, Id
<1>3. IsFiniteSet(P) /\ Cardinality(P) \in Nat
  BY <1>1, <1>2, ParticipantsFinite, FS_CardinalityType
<1>4. SingleCohort(id) <=> ~(Cardinality(P) > 1)
  BY <1>1 DEF SingleCohort, RequiresBlockchain
<1>5. ASSUME P = {} PROVE SingleCohort(id)
  BY <1>3, <1>4, <1>5, FS_EmptySet
<1>6. ASSUME SingleCohort(id), NEW b \in P, NEW c \in P, b # c PROVE FALSE
  <2>1. IsFiniteSet({b, c}) /\ Cardinality({b, c}) = 2
    <3>1. IsFiniteSet({b}) /\ Cardinality({b}) = 1
      BY FS_Singleton
    <3>2. /\ IsFiniteSet({b} \cup {c})
          /\ Cardinality({b} \cup {c}) = Cardinality({b}) + 1
      BY <1>6, <3>1, FS_AddElement
    <3>3. {b} \cup {c} = {b, c}
      OBVIOUS
    <3> QED
      BY <3>1, <3>2, <3>3
  <2>2. Cardinality({b, c}) <= Cardinality(P)
    BY <1>3, FS_Subset
  <2> QED
    BY <1>3, <1>4, <1>6, <2>1, <2>2
<1> QED
  BY <1>1, <1>5, <1>6

-----------------------------------------------------------------------------
(* The steps of the service *)

\* The parts and the databases where they are.
LEMMA PartFrame ==
  ASSUME PartInv, UNCHANGED <<part, keys>>, DOMAIN decision' \subseteq Id
  PROVE  PartInv'
PROOF
  BY DEF PartInv, PartIsSound, FindsItsKeys

LEMMA WholeFrame ==
  ASSUME NEW id, IsWhole(id), UNCHANGED <<part, keys>>, response'[id] = response[id]
  PROVE  IsWhole(id)'
PROOF
  BY DEF IsWhole, FindsItsKeys

LEMMA WholeNext ==
  ASSUME NEW id,
         response'[id].complete, id \in DOMAIN part',
         response'[id].gets = Once(Participants(OpsOf(id))),
         \A c \in Cohort : FindsItsKeys(OpsOf(id), c)',
         \A c \in Cohort :
             /\ PutKeys(OpsOf(id), c) \subseteq keys'[c]
             /\ \A n \in 1 .. Len(part'[id]) : part'[id][n][c] # "failed"
             /\ c \in Participants(OpsOf(id)) => part'[id][1][c] = "committed"
  PROVE  IsWhole(id)'
PROOF
  BY DEF IsWhole

\* An id whose response is being collected was sent and is not complete, so that its
\* parts cannot be sent again nor its voting be started again.
LEMMA CollectedIsSent ==
  ASSUME ServiceInv, NEW i, IsCollecting(i)
  PROVE  PossiblySent(calls[i].id) /\ Len(part[calls[i].id]) = 1
PROOF
  BY DEF ServiceInv, CallInv, CallIsSound, SentInv, IsCollecting

LEMMA NothingIsSentInv ==
  ASSUME ServiceInv, NEW id \in Id, NothingIsSent(id)
  PROVE  ServiceInv' /\ Grows
PROOF
<1>1. /\ metadata' = WithEntry(metadata, id, Entry(metadata, id, NewMetadata))
      /\ response' = response /\ calls' = calls /\ part' = part /\ keys' = keys
      /\ ~PossiblySent(id)
      /\ decision' = decision \/ decision' = WithEntry(decision, id, "PENDING")
  BY DEF NothingIsSent
<1>2. /\ DOMAIN metadata' = DOMAIN metadata \cup {id}
      /\ \A i : Entry(metadata', i, NewMetadata) = Entry(metadata, i, NewMetadata)
      /\ \A i \in DOMAIN metadata' : metadata'[i] = Entry(metadata, i, NewMetadata)
  <2>1. /\ DOMAIN metadata' = DOMAIN metadata \cup {id}
        /\ \A i \in DOMAIN metadata' :
             metadata'[i] = IF i = id THEN Entry(metadata, id, NewMetadata) ELSE metadata[i]
    BY <1>1 DEF WithEntry
  <2>2. \A i : Entry(metadata', i, NewMetadata) = Entry(metadata, i, NewMetadata)
    BY <2>1 DEF Entry
  <2> QED
    BY <2>1, <2>2 DEF Entry
<1>3. /\ DOMAIN decision' \subseteq DOMAIN decision \cup {id}
      /\ DOMAIN decision \subseteq DOMAIN decision'
      /\ \A i \in DOMAIN decision' :
           \/ i \in DOMAIN decision /\ decision'[i] = decision[i]
           \/ i = id /\ decision'[i] = "PENDING"
  BY <1>1 DEF WithEntry
<1>4. ServiceTypeOK'
  <2>1. NewMetadata \in [possibly_sent_to_all_cohorts : BOOLEAN,
                         cohorts_already_responded : SUBSET Cohort]
    BY DEF NewMetadata
  <2>2. \A i \in DOMAIN metadata' :
          /\ i \in Id
          /\ metadata'[i] \in [possibly_sent_to_all_cohorts : BOOLEAN,
                               cohorts_already_responded : SUBSET Cohort]
    BY <1>2, <2>1 DEF ServiceInv, ServiceTypeOK, Entry
  <2>3. \A i \in DOMAIN decision' : decision'[i] \in {"PENDING", "COMMIT", "ABORT"}
    BY <1>3 DEF ServiceInv, ServiceTypeOK
  <2> QED
    BY <1>1, <2>2, <2>3 DEF ServiceInv, ServiceTypeOK
<1>5. PartInv'
  <2>1. DOMAIN decision' \subseteq Id
    BY <1>3 DEF ServiceInv, PartInv
  <2> QED
    BY <1>1, <2>1, PartFrame DEF ServiceInv
<1>6. \A i : /\ Complete(i)' <=> Complete(i)
             /\ PossiblySent(i)' <=> PossiblySent(i)
             /\ Responded(i)' = Responded(i)
             /\ Committed(i)' = Committed(i)
  BY <1>1, <1>2 DEF Complete, PossiblySent, Responded, Committed, Answers
<1>7. SentInv'
  <2>1. \A i \in DOMAIN metadata' : PossiblySent(i)' => i \in DOMAIN part'
    BY <1>1, <1>2, <1>6 DEF ServiceInv, SentInv
  <2> QED
    BY <1>1, <1>6, <2>1 DEF ServiceInv, SentInv
<1>8. PollInv'
  <2> SUFFICES ASSUME NEW i \in DOMAIN metadata' \cup DOMAIN response', ~Complete(i)'
               PROVE  /\ Entry(response', i, NoResponse).status \in {"unset", "partial"}
                      /\ Entry(response', i, NoResponse).gets = Once(Responded(i)')
                      /\ Responded(i)' # {} =>
                           /\ i \in DOMAIN part' /\ ~SingleCohort(i)
                           /\ Responded(i)' \subseteq Committed(i)'
    BY DEF PollInv
  <2>1. CASE i \in DOMAIN metadata \cup DOMAIN response
    BY <1>1, <1>6, <2>1 DEF ServiceInv, PollInv
  <2>2. CASE i \notin DOMAIN metadata \cup DOMAIN response
    <3>1. Responded(i)' = {} /\ Entry(response', i, NoResponse) = NoResponse
      BY <1>1, <1>6, <2>2 DEF Responded, Entry, NewMetadata
    <3> QED
      BY <3>1 DEF NoResponse, NoGets, Once
  <2> QED
    BY <2>1, <2>2
<1>9. CallInv'
  <2>1. ASSUME NEW i \in DOMAIN calls, IsCollecting(i)
        PROVE  CallIsSound(i)'
    <3>1. CallIsSound(i) /\ calls[i].id # id
      BY <1>1, <2>1, CollectedIsSent DEF ServiceInv, CallInv
    <3>2. Decided(calls[i].id, "COMMIT") => Decided(calls[i].id, "COMMIT")'
      BY <1>1, <1>3, <3>1 DEF Decided
    <3> QED
      BY <1>1, <1>6, <3>1, <3>2 DEF CallIsSound
  <2> QED
    BY <1>1, <2>1 DEF ServiceInv, CallInv, IsCollecting
<1>10. CommittedInv'
  BY <1>1, WholeFrame DEF ServiceInv, CommittedInv
<1>11. DecisionInv'
  <2>1. ~SingleCohort(id) \/ decision' = decision
    BY DEF NothingIsSent
  <2> QED
    BY <1>1, <1>3, <2>1 DEF ServiceInv, DecisionInv
<1>12. Grows
  BY <1>1 DEF Grows
<1> QED
  BY <1>4, <1>5, <1>7, <1>8, <1>9, <1>10, <1>11, <1>12 DEF ServiceInv

LEMMA SendToCohortsInv ==
  ASSUME ServiceInv, NEW id \in Id, SendToCohorts(id)
  PROVE  ServiceInv' /\ Grows
PROOF
<1> DEFINE entry == [Entry(metadata, id, NewMetadata) EXCEPT
                       !.possibly_sent_to_all_cohorts = TRUE]
           before == Entry(part, id, << >>)
<1>1. /\ ~PossiblySent(id)
      /\ metadata' = WithEntry(metadata, id, entry)
      /\ decision' = decision \/ decision' = WithEntry(decision, id, "PENDING")
      /\ response' = response /\ calls' = calls /\ keys' = keys
  BY DEF SendToCohorts
<1>2. PICK received \in SUBSET Participants(OpsOf(id)) :
        part' = WithEntry(part, id, Append(before,
                  [c \in Cohort |-> IF c \in received THEN "prepared" ELSE "none"]))
  BY DEF SendToCohorts
<1>3. PICK sent : sent = [c \in Cohort |-> IF c \in received THEN "prepared" ELSE "none"]
  OBVIOUS
<1>4. Entry(metadata, id, NewMetadata) \in [possibly_sent_to_all_cohorts : BOOLEAN,
                                            cohorts_already_responded : SUBSET Cohort]
  BY DEF Entry, NewMetadata, ServiceInv, ServiceTypeOK
<1>5. /\ entry \in [possibly_sent_to_all_cohorts : BOOLEAN,
                    cohorts_already_responded : SUBSET Cohort]
      /\ entry.possibly_sent_to_all_cohorts
      /\ entry.cohorts_already_responded
           = Entry(metadata, id, NewMetadata).cohorts_already_responded
  BY <1>4
<1>6. /\ before \in Seq([Cohort -> Part])
      /\ id \in DOMAIN part => before = part[id] /\ Len(before) = 1 /\ Complete(id)
      /\ id \notin DOMAIN part => before = << >>
  BY <1>1 DEF Entry, ServiceInv, ServiceTypeOK, SentInv
<1> HIDE DEF entry, before
<1>7. /\ DOMAIN metadata' = DOMAIN metadata \cup {id}
      /\ \A i : Entry(metadata', i, NewMetadata) =
                  IF i = id THEN entry ELSE Entry(metadata, i, NewMetadata)
      /\ \A i \in DOMAIN metadata' : metadata'[i] = IF i = id THEN entry ELSE metadata[i]
  <2>1. /\ DOMAIN metadata' = DOMAIN metadata \cup {id}
        /\ \A i \in DOMAIN metadata' : metadata'[i] = IF i = id THEN entry ELSE metadata[i]
    BY <1>1 DEF WithEntry
  <2> QED
    BY <2>1 DEF Entry
<1>8. /\ DOMAIN decision' \subseteq DOMAIN decision \cup {id}
      /\ DOMAIN decision \subseteq DOMAIN decision'
      /\ \A i \in DOMAIN decision' :
           \/ i \in DOMAIN decision /\ decision'[i] = decision[i]
           \/ i = id /\ decision'[i] = "PENDING"
  BY <1>1 DEF WithEntry
<1>9. /\ sent \in [Cohort -> Part]
      /\ \A c \in Cohort : /\ sent[c] \in {"prepared", "none"}
                           /\ sent[c] # "none" => c \in Participants(OpsOf(id))
  BY <1>3 DEF Part
<1>10. /\ DOMAIN part' = DOMAIN part \cup {id}
       /\ \A i \in DOMAIN part' : i # id => part'[i] = part[i]
       /\ part'[id] = Append(before, sent)
  <2>1. part' = WithEntry(part, id, Append(before, sent))
    BY <1>2, <1>3
  <2> QED
    BY <2>1 DEF WithEntry
<1>11. /\ part'[id] \in Seq([Cohort -> Part]) /\ Len(part'[id]) = Len(before) + 1
       /\ \A n \in 1 .. Len(part'[id]) :
            \/ n \in 1 .. Len(before) /\ id \in DOMAIN part /\ part'[id][n] = part[id][n]
            \/ n = Len(before) + 1 /\ part'[id][n] = sent
       /\ \A n \in 1 .. Len(before) : part'[id][n] = part[id][n]
  <2>1. /\ Append(before, sent) \in Seq([Cohort -> Part])
        /\ Len(Append(before, sent)) = Len(before) + 1
        /\ \A n \in 1 .. Len(before) : Append(before, sent)[n] = before[n]
        /\ Append(before, sent)[Len(before) + 1] = sent
        /\ \A n \in 1 .. Len(before) + 1 : n \in 1 .. Len(before) \/ n = Len(before) + 1
        /\ Len(before) \in Nat
    BY ONLY <1>6, <1>9
  <2>2. id \notin DOMAIN part => Len(before) = 0
    BY <1>6
  <2> QED
    BY <1>6, <1>10, <2>1, <2>2
<1>12. ServiceTypeOK'
  <2>1. \A i \in DOMAIN part' : i \in Id /\ part'[i] \in Seq([Cohort -> Part])
    BY <1>10, <1>11 DEF ServiceInv, ServiceTypeOK
  <2>2. \A i \in DOMAIN decision' : decision'[i] \in {"PENDING", "COMMIT", "ABORT"}
    BY <1>8 DEF ServiceInv, ServiceTypeOK
  <2> QED
    BY <1>1, <1>5, <1>7, <2>1, <2>2 DEF ServiceInv, ServiceTypeOK
<1>13. PartInv'
  <2>1. DOMAIN decision' \subseteq Id
    BY <1>8 DEF ServiceInv, PartInv
  <2>2. ASSUME NEW i \in DOMAIN part', NEW n \in 1 .. Len(part'[i]), NEW c \in Cohort
        PROVE  PartIsSound(i, n, c)'
    <3>1. CASE i = id /\ n = Len(before) + 1
      <4>1. part'[i][n] = sent
        BY <1>11, <3>1
      <4> QED
        BY <1>9, <3>1, <4>1 DEF PartIsSound
    <3>2. CASE ~(i = id /\ n = Len(before) + 1)
      <4>1. i \in DOMAIN part /\ n \in 1 .. Len(part[i]) /\ part'[i][n] = part[i][n]
        BY <1>6, <1>10, <1>11, <3>2
      <4>2. PartIsSound(i, n, c)
        BY <4>1 DEF ServiceInv, PartInv
      <4> QED
        BY <1>1, <4>1, <4>2, FindsMore DEF PartIsSound
    <3> QED
      BY <3>1, <3>2
  <2> QED
    BY <2>1, <2>2 DEF PartInv
<1>14. /\ \A i : /\ Complete(i)' <=> Complete(i)
                 /\ Responded(i)' = Responded(i)
                 /\ PossiblySent(i)' <=> i = id \/ PossiblySent(i)
       /\ \A i \in DOMAIN part : Committed(i) \subseteq Committed(i)'
  <2>1. \A i : /\ Complete(i)' <=> Complete(i)
               /\ Responded(i)' = Responded(i)
               /\ PossiblySent(i)' <=> i = id \/ PossiblySent(i)
    BY <1>1, <1>5, <1>7 DEF Complete, PossiblySent, Responded
  <2>2. ASSUME NEW i \in DOMAIN part, NEW c \in Committed(i)
        PROVE  c \in Committed(i)'
    <3>1. PICK n \in 1 .. Len(part[i]) : part[i][n][c] = "committed"
      BY DEF Committed, Answers, Entry, ServiceInv, ServiceTypeOK
    <3>2. n \in 1 .. Len(part'[i]) /\ part'[i][n] = part[i][n] /\ i \in DOMAIN part'
      <4>1. CASE i = id
        <5>1. n \in 1 .. Len(before) /\ Len(before) \in Nat
          BY <1>6, <4>1
        <5>2. n \in 1 .. Len(before) + 1
          BY ONLY <5>1
        <5> QED
          BY <1>10, <1>11, <4>1, <5>1, <5>2
      <4>2. CASE i # id
        BY <1>10, <4>2
      <4> QED
        BY <4>1, <4>2
    <3>3. DOMAIN part'[i] = 1 .. Len(part'[i])
      BY <1>12, <3>2 DEF ServiceTypeOK
    <3> QED
      BY <3>1, <3>2, <3>3 DEF Committed, Answers, Entry
  <2> QED
    BY <2>1, <2>2
<1>15. SentInv'
  <2>1. \A i \in DOMAIN metadata' : PossiblySent(i)' => i \in DOMAIN part'
    BY <1>7, <1>10, <1>14 DEF ServiceInv, SentInv
  <2>2. Len(part'[id]) = IF id \in DOMAIN part THEN 2 ELSE 1
    BY <1>6, <1>11
  <2>3. ASSUME NEW i \in DOMAIN part'
        PROVE  /\ Len(part'[i]) \in {1, 2}
               /\ ~Complete(i)' => PossiblySent(i)' /\ Len(part'[i]) = 1
               /\ ~PossiblySent(i)' => Len(part'[i]) = 1
    <3>1. CASE i = id
      BY <1>6, <1>14, <2>2, <3>1
    <3>2. CASE i # id
      BY <1>10, <1>14, <3>2 DEF ServiceInv, SentInv
    <3> QED
      BY <3>1, <3>2
  <2> QED
    BY <2>1, <2>3 DEF SentInv
<1>16. PollInv'
  <2> SUFFICES ASSUME NEW i \in DOMAIN metadata' \cup DOMAIN response', ~Complete(i)'
               PROVE  /\ Entry(response', i, NoResponse).status \in {"unset", "partial"}
                      /\ Entry(response', i, NoResponse).gets = Once(Responded(i)')
                      /\ Responded(i)' # {} =>
                           /\ i \in DOMAIN part' /\ ~SingleCohort(i)
                           /\ Responded(i)' \subseteq Committed(i)'
    BY DEF PollInv
  <2>1. CASE i \in DOMAIN metadata \cup DOMAIN response
    <3>1. /\ Entry(response, i, NoResponse).status \in {"unset", "partial"}
          /\ Entry(response, i, NoResponse).gets = Once(Responded(i))
          /\ Responded(i) # {} => /\ i \in DOMAIN part /\ ~SingleCohort(i)
                                  /\ Responded(i) \subseteq Committed(i)
      BY <1>14, <2>1 DEF ServiceInv, PollInv
    <3> QED
      BY <1>1, <1>10, <1>14, <3>1
  <2>2. CASE i \notin DOMAIN metadata \cup DOMAIN response
    <3>1. Responded(i)' = {} /\ Entry(response', i, NoResponse) = NoResponse
      BY <1>1, <1>14, <2>2 DEF Responded, Entry, NewMetadata
    <3> QED
      BY <3>1 DEF NoResponse, NoGets, Once
  <2> QED
    BY <2>1, <2>2
<1>17. CallInv'
  <2>1. ASSUME NEW i \in DOMAIN calls, IsCollecting(i)
        PROVE  CallIsSound(i)'
    <3>1. CallIsSound(i) /\ calls[i].id # id
      BY <1>1, <2>1, CollectedIsSent DEF ServiceInv, CallInv
    <3>2. Decided(calls[i].id, "COMMIT") => Decided(calls[i].id, "COMMIT")'
      BY <1>1, <1>8, <3>1 DEF Decided
    <3> QED
      BY <1>1, <1>10, <1>14, <3>1, <3>2 DEF CallIsSound
  <2> QED
    BY <1>1, <2>1 DEF ServiceInv, CallInv, IsCollecting
<1>18. CommittedInv'
  <2> SUFFICES ASSUME NEW d \in DOMAIN response, response[d].status = "committed"
               PROVE  IsWhole(d)'
    BY <1>1 DEF CommittedInv
  <2>1. IsWhole(d)
    BY DEF ServiceInv, CommittedInv
  <2>2. \A b \in Cohort : FindsItsKeys(OpsOf(d), b)'
    BY <1>1, <2>1, FindsMore DEF IsWhole
  <2>3. ASSUME NEW b \in Cohort
        PROVE  /\ \A n \in 1 .. Len(part'[d]) : part'[d][n][b] # "failed"
               /\ part'[d][1] = part[d][1] /\ d \in DOMAIN part'
    <3>1. CASE d = id
      <4>1. Len(before) = 1 /\ before = part[id]
        BY <1>6, <2>1, <3>1 DEF IsWhole
      <4>2. \A n \in 1 .. Len(before) : part'[id][n] = part[id][n]
        BY <1>11
      <4>3. 1 \in 1 .. Len(before)
        BY <4>1
      <4> QED
        BY <1>9, <1>10, <1>11, <2>1, <3>1, <4>1, <4>2, <4>3 DEF IsWhole
    <3>2. CASE d # id
      BY <1>10, <2>1, <3>2 DEF IsWhole
    <3> QED
      BY <3>1, <3>2
  <2>4. \A b \in Cohort :
         /\ PutKeys(OpsOf(d), b) \subseteq keys'[b]
         /\ \A n \in 1 .. Len(part'[d]) : part'[d][n][b] # "failed"
         /\ b \in Participants(OpsOf(d)) => part'[d][1][b] = "committed"
    BY <1>1, <2>1, <2>3 DEF IsWhole
  <2>5. /\ response'[d].complete /\ response'[d].gets = Once(Participants(OpsOf(d)))
        /\ d \in DOMAIN part'
    BY <1>1, <1>10, <2>1 DEF IsWhole
  <2> QED
    BY ONLY <2>2, <2>4, <2>5, WholeNext
<1>19. DecisionInv'
  <2>1. ~SingleCohort(id) \/ decision' = decision
    BY DEF SendToCohorts
  <2> QED
    BY <1>8, <1>10, <2>1 DEF ServiceInv, DecisionInv
<1>20. Grows
  BY <1>1 DEF Grows
<1> QED
  BY <1>12, <1>13, <1>15, <1>16, <1>17, <1>18, <1>19, <1>20 DEF ServiceInv


LEMMA ServiceInvFrame ==
  ASSUME ServiceInv, UNCHANGED serviceVars
  PROVE  ServiceInv' /\ Grows
PROOF
<1>1. /\ metadata' = metadata /\ response' = response /\ calls' = calls
      /\ decision' = decision /\ part' = part /\ keys' = keys
  BY DEF serviceVars
<1>2. ServiceTypeOK'
  BY <1>1 DEF ServiceInv, ServiceTypeOK
<1>3. PartInv'
  BY <1>1, PartFrame DEF ServiceInv, PartInv
<1>4. \A d : /\ Complete(d)' <=> Complete(d)
             /\ PossiblySent(d)' <=> PossiblySent(d)
             /\ Responded(d)' = Responded(d) /\ Committed(d)' = Committed(d)
  BY <1>1 DEF Complete, PossiblySent, Responded, Committed, Answers
<1>5. SentInv' /\ PollInv'
  BY <1>1, <1>4 DEF ServiceInv, SentInv, PollInv
<1>6. CallInv'
  BY <1>1, <1>4 DEF ServiceInv, CallInv, IsCollecting, CallIsSound, Decided
<1>7. CommittedInv'
  BY <1>1, WholeFrame DEF ServiceInv, CommittedInv
<1>8. DecisionInv'
  BY <1>1 DEF ServiceInv, DecisionInv
<1>9. Grows
  BY <1>1 DEF Grows
<1> QED
  BY <1>2, <1>3, <1>5, <1>6, <1>7, <1>8, <1>9 DEF ServiceInv

LEMMA SendStep ==
  ASSUME ServiceInv, NEW id \in Id,
         AlreadySent(id) \/ NothingIsSent(id) \/ SendToCohorts(id)
  PROVE  /\ ServiceInv' /\ Grows
         /\ UNCHANGED <<response, calls, keys>>
         /\ DOMAIN part' \subseteq DOMAIN part \cup {id}
         /\ \A d \in DOMAIN part' : \A n \in 1 .. Len(part'[d]), c \in Cohort :
              part'[d][n][c] = "failed" =>
                d \in DOMAIN part /\ n \in 1 .. Len(part[d]) /\ part[d][n][c] = "failed"
PROOF
<1>1. CASE AlreadySent(id)
  BY <1>1, ServiceInvFrame DEF AlreadySent, serviceVars
<1>2. CASE NothingIsSent(id)
  BY <1>2, NothingIsSentInv DEF NothingIsSent
<1>3. CASE SendToCohorts(id)
  <2>1. ServiceInv' /\ Grows
    BY <1>3, SendToCohortsInv
  <2>2. PICK received :
          part' = WithEntry(part, id, Append(Entry(part, id, << >>),
                    [c \in Cohort |-> IF c \in received THEN "prepared" ELSE "none"]))
    BY <1>3 DEF SendToCohorts
  <2>3. PICK old, sent : /\ old = Entry(part, id, << >>)
                         /\ sent = [c \in Cohort |-> IF c \in received THEN "prepared"
                                                                       ELSE "none"]
    OBVIOUS
  <2>4. DOMAIN part' = DOMAIN part \cup {id} /\ part'[id] = Append(old, sent)
        /\ \A d \in DOMAIN part' : d # id => part'[d] = part[d]
    BY <2>2, <2>3 DEF WithEntry
  <2>5. /\ old \in Seq([Cohort -> Part])
        /\ id \in DOMAIN part => old = part[id]
        /\ id \notin DOMAIN part => old = << >>
    BY <2>3 DEF Entry, ServiceInv, ServiceTypeOK
  <2>6. sent \in [Cohort -> Part] /\ \A c \in Cohort : sent[c] # "failed"
    BY <2>3 DEF Part
  <2>7. \A n \in 1 .. Len(Append(old, sent)) :
          \/ n \in 1 .. Len(old) /\ Append(old, sent)[n] = old[n]
          \/ Append(old, sent)[n] = sent
    BY ONLY <2>5, <2>6
  <2>8. \A n : ~(n \in 1 .. Len(<< >>))
    OBVIOUS
  <2>9. ASSUME NEW d \in DOMAIN part', NEW n \in 1 .. Len(part'[d]), NEW c \in Cohort,
               part'[d][n][c] = "failed"
        PROVE  d \in DOMAIN part /\ n \in 1 .. Len(part[d]) /\ part[d][n][c] = "failed"
    BY <2>4, <2>5, <2>6, <2>7, <2>8, <2>9
  <2>10. UNCHANGED <<response, calls, keys>>
    BY <1>3 DEF SendToCohorts
  <2> QED
    BY <2>1, <2>4, <2>9, <2>10
<1> QED
  BY <1>1, <1>2, <1>3

\* A part goes on: what it says of the database is true, and what was committed stays
\* so.
LEMMA PartStep ==
  ASSUME ServiceInv, NEW id \in DOMAIN part, NEW n \in DOMAIN part[id], NEW c \in Cohort,
         NEW before \in Part \ {"none", "committed"}, NEW after \in Part,
         At(id, n, c, before, after),
         keys' \in [Cohort -> SUBSET Key], \A b \in Cohort : keys[b] \subseteq keys'[b],
         after = "failed" => ~FindsItsKeys(OpsOf(id), c),
         after \in {"ready", "blocked", "committed"} => FindsItsKeys(OpsOf(id), c),
         after = "committed" => PutKeys(OpsOf(id), c) \subseteq keys'[c]
  PROVE  /\ ServiceInv' /\ Grows
         /\ UNCHANGED <<response, calls>> /\ DOMAIN part' = DOMAIN part
         /\ \A d \in DOMAIN part : Len(part'[d]) = Len(part[d])
         /\ \A d \in DOMAIN part : \A m \in 1 .. Len(part[d]), b \in Cohort :
              part'[d][m][b] = "failed" =>
                part[d][m][b] = "failed" \/ ~FindsItsKeys(OpsOf(d), b)
PROOF
<1>1. /\ part[id][n][c] = before /\ part' = [part EXCEPT ![id][n][c] = after]
      /\ UNCHANGED <<metadata, response, calls, decision>>
  BY DEF At
<1>2. \A d \in DOMAIN part : d \in Id /\ part[d] \in Seq([Cohort -> Part])
  BY DEF ServiceInv, ServiceTypeOK
<1>3. /\ DOMAIN part' = DOMAIN part /\ \A d \in DOMAIN part : d # id => part'[d] = part[d]
      /\ part'[id] = [part[id] EXCEPT ![n][c] = after]
  BY <1>1
<1>4. /\ part'[id] \in Seq([Cohort -> Part]) /\ Len(part'[id]) = Len(part[id])
      /\ \A m \in 1 .. Len(part[id]), b \in Cohort :
           part'[id][m][b] = IF m = n /\ b = c THEN after ELSE part[id][m][b]
  <2>1. PICK old : old = part[id]
    OBVIOUS
  <2>2. old \in Seq([Cohort -> Part]) /\ n \in DOMAIN old
    BY <1>2, <2>1
  <2>3. [old EXCEPT ![n][c] = after] \in Seq([Cohort -> Part])
    BY ONLY <2>2, c \in Cohort, after \in Part
  <2>4. /\ Len([old EXCEPT ![n][c] = after]) = Len(old)
        /\ \A m \in 1 .. Len(old), b \in Cohort :
             [old EXCEPT ![n][c] = after][m][b] = IF m = n /\ b = c THEN after ELSE old[m][b]
    BY ONLY <2>2, c \in Cohort, after \in Part
  <2> QED
    BY <1>3, <2>1, <2>3, <2>4
<1>5. \A d \in DOMAIN part : /\ part'[d] \in Seq([Cohort -> Part])
                             /\ Len(part'[d]) = Len(part[d])
                             /\ DOMAIN part[d] = 1 .. Len(part[d])
                             /\ DOMAIN part'[d] = 1 .. Len(part[d])
  <2> SUFFICES ASSUME NEW d \in DOMAIN part
               PROVE  /\ part'[d] \in Seq([Cohort -> Part])
                      /\ Len(part'[d]) = Len(part[d])
                      /\ DOMAIN part[d] = 1 .. Len(part[d])
                      /\ DOMAIN part'[d] = 1 .. Len(part[d])
    OBVIOUS
  <2>1. part[d] \in Seq([Cohort -> Part]) /\ part'[d] \in Seq([Cohort -> Part])
    BY <1>2, <1>3, <1>4
  <2>2. Len(part'[d]) = Len(part[d])
    BY <1>3, <1>4
  <2>3. \A s \in Seq([Cohort -> Part]) : DOMAIN s = 1 .. Len(s)
    OBVIOUS
  <2> QED
    BY ONLY <2>1, <2>2, <2>3
<1>6. \A d \in DOMAIN part : \A m \in 1 .. Len(part[d]), b \in Cohort :
        part'[d][m][b] = IF d = id /\ m = n /\ b = c THEN after ELSE part[d][m][b]
  <2> SUFFICES ASSUME NEW d \in DOMAIN part, NEW m \in 1 .. Len(part[d]), NEW b \in Cohort
               PROVE  part'[d][m][b] =
                        IF d = id /\ m = n /\ b = c THEN after ELSE part[d][m][b]
    OBVIOUS
  <2>1. CASE d = id
    BY <1>4, <2>1
  <2>2. CASE d # id
    BY <1>3, <2>2
  <2> QED
    BY <2>1, <2>2
<1>7. \A d \in DOMAIN part : \A m \in 1 .. Len(part[d]), b \in Cohort :
        part[d][m][b] = "committed" => part'[d][m][b] = "committed"
  BY <1>1, <1>6
<1>8. ASSUME NEW ops, NEW b \in Cohort, FindsItsKeys(ops, b)
      PROVE  FindsItsKeys(ops, b)'
  BY <1>8, FindsMore
<1>9. ServiceTypeOK'
  BY <1>1, <1>2, <1>3, <1>5 DEF ServiceInv, ServiceTypeOK
<1>10. PartInv'
  <2>1. DOMAIN decision' \subseteq Id
    BY <1>1 DEF ServiceInv, PartInv
  <2>2. ASSUME NEW d \in DOMAIN part, NEW m \in 1 .. Len(part[d]), NEW b \in Cohort
        PROVE  PartIsSound(d, m, b)'
    <3>1. PartIsSound(d, m, b)
      BY DEF ServiceInv, PartInv
    <3>2. CASE d = id /\ m = n /\ b = c
      <4>1. part[id][n][c] # "none" /\ part'[d][m][b] = after
        BY <1>1, <1>6, <3>2
      <4> QED
        BY <1>8, <3>1, <3>2, <4>1 DEF PartIsSound
    <3>3. CASE ~(d = id /\ m = n /\ b = c)
      <4>1. part'[d][m][b] = part[d][m][b]
        BY <1>6, <3>3
      <4> QED
        BY <1>8, <3>1, <4>1 DEF PartIsSound
    <3> QED
      BY <3>2, <3>3
  <2> QED
    BY <1>3, <1>5, <2>1, <2>2 DEF PartInv
<1>11. \A d : /\ Complete(d)' <=> Complete(d)
              /\ PossiblySent(d)' <=> PossiblySent(d)
              /\ Responded(d)' = Responded(d)
  BY <1>1 DEF Complete, PossiblySent, Responded
<1>12. ASSUME NEW d \in DOMAIN part, NEW b \in Committed(d)
       PROVE  b \in Committed(d)'
  <2>1. PICK m \in 1 .. Len(part[d]) : part[d][m][b] = "committed"
    BY <1>5 DEF Committed, Answers, Entry
  <2>2. b \in Cohort
    BY DEF Committed, Participants
  <2>3. part'[d][m][b] = "committed"
    BY <1>7, <2>1, <2>2
  <2> QED
    BY <1>3, <1>5, <2>1, <2>3 DEF Committed, Answers, Entry
<1>13. SentInv'
  BY <1>1, <1>3, <1>5, <1>11 DEF ServiceInv, SentInv
<1>14. PollInv'
  <2> SUFFICES ASSUME NEW d \in DOMAIN metadata \cup DOMAIN response, ~Complete(d)
               PROVE  /\ Entry(response, d, NoResponse).status \in {"unset", "partial"}
                      /\ Entry(response, d, NoResponse).gets = Once(Responded(d))
                      /\ Responded(d) # {} =>
                           /\ d \in DOMAIN part /\ ~SingleCohort(d)
                           /\ Responded(d) \subseteq Committed(d)'
    BY <1>1, <1>3, <1>11 DEF PollInv
  <2> QED
    BY <1>12 DEF ServiceInv, PollInv
<1>15. CallInv'
  <2>1. ASSUME NEW i \in DOMAIN calls, IsCollecting(i)
        PROVE  CallIsSound(i)'
    <3>1. CallIsSound(i)
      BY <2>1 DEF ServiceInv, CallInv
    <3>2. PICK d : d = calls[i].id
      OBVIOUS
    <3>3. d \in DOMAIN part
      BY <3>1, <3>2 DEF CallIsSound
    <3>4. Committed(d) \subseteq Committed(d)'
      BY <1>12, <3>3
    <3> QED
      BY <1>1, <1>3, <1>11, <3>1, <3>2, <3>4 DEF CallIsSound, Decided
  <2> QED
    BY <1>1, <2>1 DEF ServiceInv, CallInv, IsCollecting
<1>16. CommittedInv'
  <2> SUFFICES ASSUME NEW d \in DOMAIN response, response[d].status = "committed"
               PROVE  IsWhole(d)'
    BY <1>1 DEF CommittedInv
  <2>1. IsWhole(d)
    BY DEF ServiceInv, CommittedInv
  <2>2. \A b \in Cohort : FindsItsKeys(OpsOf(d), b)'
    BY <1>8, <2>1 DEF IsWhole
  <2>3. Len(part[d]) \in {1, 2} /\ d \in DOMAIN part
    BY <2>1 DEF ServiceInv, SentInv, IsWhole
  <2>4. ASSUME NEW b \in Cohort
        PROVE  /\ PutKeys(OpsOf(d), b) \subseteq keys'[b]
               /\ \A m \in 1 .. Len(part'[d]) : part'[d][m][b] # "failed"
               /\ b \in Participants(OpsOf(d)) => part'[d][1][b] = "committed"
    <3>1. PutKeys(OpsOf(d), b) \subseteq keys'[b]
      BY <2>1 DEF IsWhole
    <3>2. \A m \in 1 .. Len(part[d]) : part'[d][m][b] # "failed"
      <4> SUFFICES ASSUME NEW m \in 1 .. Len(part[d])
                   PROVE  part'[d][m][b] # "failed"
        OBVIOUS
      <4>1. part[d][m][b] # "failed" /\ FindsItsKeys(OpsOf(d), b)
        BY <2>1 DEF IsWhole
      <4>2. part'[d][m][b] = IF d = id /\ m = n /\ b = c THEN after ELSE part[d][m][b]
        BY <1>6, <2>3
      <4>3. CASE d = id /\ m = n /\ b = c
        <5>1. after # "failed"
          BY <4>1, <4>3
        <5> QED
          BY <4>2, <4>3, <5>1
      <4>4. CASE ~(d = id /\ m = n /\ b = c)
        BY <4>1, <4>2, <4>4
      <4> QED
        BY ONLY <4>3, <4>4
    <3>3. b \in Participants(OpsOf(d)) => part'[d][1][b] = "committed"
      <4>1. 1 \in 1 .. Len(part[d])
        <5>1. \A k \in {1, 2} : 1 \in 1 .. k
          OBVIOUS
        <5> QED
          BY ONLY <2>3, <5>1
      <4> QED
        BY <1>7, <2>1, <2>3, <4>1 DEF IsWhole
    <3> QED
      BY <1>5, <2>3, <3>1, <3>2, <3>3
  <2>5. /\ response'[d].complete /\ response'[d].gets = Once(Participants(OpsOf(d)))
        /\ d \in DOMAIN part'
    BY <1>1, <1>3, <2>1 DEF IsWhole
  <2> QED
    BY ONLY <2>2, <2>4, <2>5, WholeNext
<1>17. Grows
  BY <1>1 DEF Grows
<1>18. ASSUME NEW d \in DOMAIN part, NEW m \in 1 .. Len(part[d]), NEW b \in Cohort,
              part'[d][m][b] = "failed"
       PROVE  part[d][m][b] = "failed" \/ ~FindsItsKeys(OpsOf(d), b)
  BY <1>6, <1>18
<1>19. DecisionInv'
  BY <1>1, <1>3 DEF ServiceInv, DecisionInv
<1> QED
  BY <1>1, <1>3, <1>5, <1>9, <1>10, <1>13, <1>14, <1>15, <1>16, <1>17, <1>18, <1>19
     DEF ServiceInv

\* Each of the steps of a part is such a step.
PartSteps(id, n, c) ==
  Execute(id, n, c) \/ Block(id, n, c) \/ Unblock(id, n, c) \/ Commit(id, n, c)
  \/ Abort(id, n, c)

LEMMA PartStepsInv ==
  ASSUME ServiceInv, NEW id \in DOMAIN part, NEW n \in DOMAIN part[id], NEW c \in Cohort,
         PartSteps(id, n, c)
  PROVE  /\ ServiceInv' /\ Grows
         /\ UNCHANGED <<response, calls>> /\ DOMAIN part' = DOMAIN part
         /\ \A d \in DOMAIN part : Len(part'[d]) = Len(part[d])
         /\ \A d \in DOMAIN part : \A m \in 1 .. Len(part[d]), b \in Cohort :
              part'[d][m][b] = "failed" =>
                part[d][m][b] = "failed" \/ ~FindsItsKeys(OpsOf(d), b)
PROOF
<1>1. keys \in [Cohort -> SUBSET Key] /\ PartInv /\ id \in Id /\ DOMAIN part[id] = 1 .. Len(part[id])
  BY DEF ServiceInv, ServiceTypeOK
<1>2. PartIsSound(id, n, c)
  BY <1>1 DEF PartInv
<1>3. /\ "prepared" \in Part \ {"none", "committed"} /\ "ready" \in Part \ {"none", "committed"}
      /\ "blocked" \in Part \ {"none", "committed"} /\ "failed" \in Part \ {"none", "committed"}
      /\ "committed" \in Part /\ "aborted" \in Part
  BY DEF Part
<1>4. CASE Execute(id, n, c)
  <2>1. PICK after \in {"ready", "failed"} :
          /\ At(id, n, c, "prepared", after)
          /\ after = "ready" <=> FindsItsKeys(OpsOf(id), c)
    BY <1>4 DEF Execute
  <2>2. keys' = keys /\ after \in Part /\ after \notin {"blocked", "committed"}
    BY <1>3, <1>4 DEF Execute
  <2> QED
    BY <1>1, <1>3, <2>1, <2>2, PartStep
<1>5. CASE Block(id, n, c)
  <2>1. At(id, n, c, "ready", "blocked") /\ keys' = keys
    BY <1>5 DEF Block
  <2>2. FindsItsKeys(OpsOf(id), c)
    BY <1>2, <2>1 DEF At, PartIsSound
  <2> QED
    BY <1>1, <1>3, <2>1, <2>2, PartStep
<1>6. CASE Unblock(id, n, c)
  <2>1. At(id, n, c, "blocked", "ready") /\ keys' = keys
    BY <1>6 DEF Unblock
  <2>2. FindsItsKeys(OpsOf(id), c)
    BY <1>2, <2>1 DEF At, PartIsSound
  <2> QED
    BY <1>1, <1>3, <2>1, <2>2, PartStep
<1>7. CASE Commit(id, n, c)
  <2>1. /\ At(id, n, c, "ready", "committed")
        /\ keys' = [keys EXCEPT ![c] = @ \cup PutKeys(OpsOf(id), c)]
    BY <1>7 DEF Commit
  <2>2. FindsItsKeys(OpsOf(id), c)
    BY <1>2, <2>1 DEF At, PartIsSound
  <2>3. OpsOf(id) \in Seq(Operation)
    BY <1>1 DEF OpsOf, Id
  <2>4. PutKeys(OpsOf(id), c) \subseteq Key
    BY <2>3, PutKeysType
  <2>5. /\ keys' \in [Cohort -> SUBSET Key] /\ \A b \in Cohort : keys[b] \subseteq keys'[b]
        /\ PutKeys(OpsOf(id), c) \subseteq keys'[c]
    BY <1>1, <2>1, <2>4
  <2> QED
    BY <1>3, <2>1, <2>2, <2>5, PartStep
<1>8. CASE Abort(id, n, c)
  <2>1. PICK before \in {"failed", "ready"} : At(id, n, c, before, "aborted")
    BY <1>8 DEF Abort
  <2>2. keys' = keys
    BY <1>8 DEF Abort
  <2> QED
    BY <1>1, <1>3, <2>1, <2>2, PartStep
<1> QED
  BY <1>4, <1>5, <1>6, <1>7, <1>8 DEF PartSteps

LEMMA DecideInv ==
  ASSUME ServiceInv, NEW id, Decide(id)
  PROVE  ServiceInv' /\ Grows /\ UNCHANGED <<response, calls, part, keys>>
PROOF
<1>1. /\ Decided(id, "PENDING") /\ UNCHANGED <<metadata, response, calls, part, keys>>
      /\ \/ decision' = [decision EXCEPT ![id] = "COMMIT"]
         \/ decision' = [decision EXCEPT ![id] = "ABORT"]
  BY DEF Decide
<1>2. /\ id \in DOMAIN decision /\ decision[id] = "PENDING"
      /\ DOMAIN decision' = DOMAIN decision
      /\ \A d \in DOMAIN decision : d # id => decision'[d] = decision[d]
      /\ decision'[id] \in {"COMMIT", "ABORT"}
  BY <1>1 DEF Decided
<1>3. ServiceTypeOK'
  <2>1. \A d \in DOMAIN decision' : decision'[d] \in {"PENDING", "COMMIT", "ABORT"}
    BY <1>2 DEF ServiceInv, ServiceTypeOK
  <2> QED
    BY <1>1, <2>1 DEF ServiceInv, ServiceTypeOK
<1>4. PartInv'
  <2>1. DOMAIN decision' \subseteq Id
    BY <1>2 DEF ServiceInv, PartInv
  <2> QED
    BY <1>1, <2>1, PartFrame DEF ServiceInv
<1>5. \A d : /\ Complete(d)' <=> Complete(d)
             /\ PossiblySent(d)' <=> PossiblySent(d)
             /\ Responded(d)' = Responded(d) /\ Committed(d)' = Committed(d)
  BY <1>1 DEF Complete, PossiblySent, Responded, Committed, Answers
<1>6. SentInv'
  BY <1>1, <1>5 DEF ServiceInv, SentInv
<1>7. PollInv'
  BY <1>1, <1>5 DEF ServiceInv, PollInv
<1>8. CallInv'
  <2>1. \A d : Decided(d, "COMMIT") => Decided(d, "COMMIT")'
    BY <1>2 DEF Decided
  <2>2. ASSUME NEW i \in DOMAIN calls, IsCollecting(i)
        PROVE  CallIsSound(i)'
    BY <1>1, <1>5, <2>1, <2>2 DEF ServiceInv, CallInv, CallIsSound
  <2> QED
    BY <1>1, <2>2 DEF ServiceInv, CallInv, IsCollecting
<1>9. CommittedInv'
  BY <1>1, WholeFrame DEF ServiceInv, CommittedInv
<1>10. DecisionInv'
  <2>1. ~SingleCohort(id)
    BY <1>2 DEF ServiceInv, DecisionInv
  <2>2. ASSUME decision'[id] = "COMMIT"
        PROVE  id \in DOMAIN part
    <3>1. \A c \in Participants(OpsOf(id)) : \E n : n \in DOMAIN Entry(part, id, << >>)
      BY <1>2, <2>2 DEF Decide
    <3>2. PICK c : c \in Participants(OpsOf(id))
      BY <1>2, <2>1, ManyParticipants DEF ServiceInv, PartInv
    <3>3. PICK n : n \in DOMAIN Entry(part, id, << >>)
      BY <3>1, <3>2
    <3>4. DOMAIN << >> = {}
      OBVIOUS
    <3> QED
      BY <3>3, <3>4 DEF Entry
  <2> QED
    BY <1>1, <1>2, <2>1, <2>2 DEF ServiceInv, DecisionInv
<1>11. Grows
  BY <1>1 DEF Grows
<1> QED
  BY <1>1, <1>3, <1>4, <1>6, <1>7, <1>8, <1>9, <1>10, <1>11 DEF ServiceInv
-----------------------------------------------------------------------------
(* The steps of GetTransactionResult *)

\* What is answered committed is so at a participant.
LEMMA AnswersCommitted ==
  ASSUME ServiceInv, NEW id, NEW c \in Cohort, Answers(id, c, "committed")
  PROVE  c \in Committed(id) /\ id \in DOMAIN part
PROOF
<1>1. PICK n \in DOMAIN Entry(part, id, << >>) : part[id][n][c] = "committed"
  BY DEF Answers
<1>2. DOMAIN << >> = {}
  OBVIOUS
<1>3. id \in DOMAIN part
  BY <1>1, <1>2 DEF Entry
<1>4. n \in 1 .. Len(part[id])
  BY <1>1, <1>3 DEF Entry, ServiceInv, ServiceTypeOK
<1>5. PartIsSound(id, n, c)
  BY <1>3, <1>4 DEF ServiceInv, PartInv
<1> QED
  BY <1>1, <1>3, <1>5 DEF PartIsSound, Committed

\* Only the calls change.
LEMMA CallsFrame ==
  ASSUME ServiceInv, UNCHANGED <<metadata, response, decision, part, keys>>,
         \A i \in DOMAIN calls' : calls'[i] \in Call, CallInv'
  PROVE  ServiceInv' /\ Grows
PROOF
<1>1. ServiceTypeOK'
  BY DEF ServiceInv, ServiceTypeOK
<1>2. PartInv'
  BY PartFrame DEF ServiceInv, PartInv
<1>3. \A d : /\ Complete(d)' <=> Complete(d)
             /\ PossiblySent(d)' <=> PossiblySent(d)
             /\ Responded(d)' = Responded(d) /\ Committed(d)' = Committed(d)
  BY DEF Complete, PossiblySent, Responded, Committed, Answers
<1>4. SentInv' /\ PollInv' /\ DecisionInv'
  BY <1>3 DEF ServiceInv, SentInv, PollInv, DecisionInv
<1>5. CommittedInv'
  BY WholeFrame DEF ServiceInv, CommittedInv
<1>6. Grows
  BY DEF Grows
<1> QED
  BY <1>1, <1>2, <1>4, <1>5, <1>6 DEF ServiceInv

\* What a call in the loop over the cohorts has to be.
SoundCall(call) ==
  /\ ~Complete(call.id) /\ call.id \in DOMAIN part
  /\ SingleCohort(call.id) => call.answered # {}
  /\ ~SingleCohort(call.id) => Decided(call.id, "COMMIT")
  /\ call.answered \subseteq Committed(call.id) \ Responded(call.id)
  /\ call.counted \subseteq Responded(call.id)

LEMMA OneCallChanges ==
  ASSUME ServiceInv, UNCHANGED <<metadata, response, decision, part, keys>>,
         NEW i, NEW call \in Call,
         DOMAIN calls' = DOMAIN calls \cup {i}, calls'[i] = call,
         \A j \in DOMAIN calls \ {i} : calls'[j] = calls[j],
         IF call.stage = "collecting"
         THEN /\ SoundCall(call)
              /\ \A j \in DOMAIN calls \ {i} : IsCollecting(j) => calls[j].id # call.id
         ELSE call.answered = {}
  PROVE  ServiceInv' /\ Grows
PROOF
<1>1. \A j \in DOMAIN calls' : calls'[j] \in Call
  BY DEF ServiceInv, ServiceTypeOK
<1>2. \A d : /\ Complete(d)' <=> Complete(d)
             /\ Responded(d)' = Responded(d) /\ Committed(d)' = Committed(d)
  BY DEF Complete, Responded, Committed, Answers
<1>3. ASSUME NEW j \in DOMAIN calls'
      PROVE  IF IsCollecting(j)' THEN CallIsSound(j)' ELSE calls'[j].answered = {}
  <2>1. CASE j = i
    BY <1>2, <2>1 DEF IsCollecting, CallIsSound, SoundCall, Decided
  <2>2. CASE j # i
    <3>1. j \in DOMAIN calls /\ calls'[j] = calls[j]
      BY <2>2
    <3>2. IF IsCollecting(j) THEN CallIsSound(j) ELSE calls[j].answered = {}
      BY <3>1 DEF ServiceInv, CallInv
    <3> QED
      BY <1>2, <3>1, <3>2 DEF IsCollecting, CallIsSound, Decided
  <2> QED
    BY <2>1, <2>2
<1>4. ASSUME NEW j \in DOMAIN calls', NEW k \in DOMAIN calls',
             IsCollecting(j)', IsCollecting(k)', calls'[j].id = calls'[k].id
      PROVE  j = k
  <2>1. CASE j # i /\ k # i
    BY <1>4, <2>1 DEF ServiceInv, CallInv, IsCollecting
  <2>2. CASE j = i \/ k = i
    BY <1>4, <2>2 DEF IsCollecting
  <2> QED
    BY <2>1, <2>2
<1>5. CallInv'
  BY <1>3, <1>4 DEF CallInv
<1> QED
  BY <1>1, <1>5, CallsFrame

LEMMA ReadUnansweredInv ==
  ASSUME ServiceInv, NEW i, NEW id \in Id, ReadUnanswered(i, id)
  PROVE  ServiceInv' /\ Grows
PROOF
<1>1. PICK call : call = NewCall(id, "unanswered", {}, {})
  OBVIOUS
<1>2. call \in Call /\ call.stage = "unanswered" /\ call.answered = {}
  BY <1>1 DEF NewCall, Call
<1>3. /\ UNCHANGED <<metadata, response, decision, part, keys>>
      /\ DOMAIN calls' = DOMAIN calls \cup {i} /\ calls'[i] = call
      /\ \A j \in DOMAIN calls \ {i} : calls'[j] = calls[j]
  BY <1>1 DEF ReadUnanswered, WithEntry
<1> QED
  BY <1>2, <1>3, OneCallChanges

LEMMA ReadFailsInv ==
  ASSUME ServiceInv, NEW i, ReadFails(i)
  PROVE  ServiceInv' /\ Grows
PROOF
<1>1. /\ UNCHANGED <<metadata, response, decision, part, keys>>
      /\ DOMAIN calls' = DOMAIN calls \ {i}
      /\ \A j \in DOMAIN calls' : calls'[j] = calls[j]
  BY DEF ReadFails, Without
<1>2. \A d : /\ Complete(d)' <=> Complete(d)
             /\ Responded(d)' = Responded(d) /\ Committed(d)' = Committed(d)
  BY <1>1 DEF Complete, Responded, Committed, Answers
<1>3. CallInv'
  BY <1>1, <1>2 DEF ServiceInv, CallInv, IsCollecting, CallIsSound, Decided
<1>4. \A j \in DOMAIN calls' : calls'[j] \in Call
  BY <1>1 DEF ServiceInv, ServiceTypeOK
<1> QED
  BY <1>1, <1>3, <1>4, CallsFrame

\* Who begins to ask is alone in the loop, and nobody has responded before if there is
\* one cohort.
LEMMA BeginToAskInv ==
  ASSUME ServiceInv, NEW i, NEW id \in Id, AloneWith(id),
         AskOnlyCohort(i, id) \/ BeginCollecting(i, id)
  PROVE  ServiceInv' /\ Grows
PROOF
<1>1. /\ UNCHANGED <<metadata, response, decision, part, keys>>
      /\ ~Complete(id) /\ id \in DOMAIN metadata
  BY DEF AskOnlyCohort, BeginCollecting, CanAsk, Complete
<1>2. ASSUME NEW call \in Call, calls' = WithEntry(calls, i, call), SoundCall(call),
             call.id = id
      PROVE  ServiceInv' /\ Grows
  <2>1. /\ DOMAIN calls' = DOMAIN calls \cup {i} /\ calls'[i] = call
        /\ \A j \in DOMAIN calls \ {i} : calls'[j] = calls[j]
    BY <1>2 DEF WithEntry
  <2>2. \A j \in DOMAIN calls \ {i} : IsCollecting(j) => calls[j].id # call.id
    BY <1>2 DEF AloneWith, IsCollecting
  <2>3. call.stage = "collecting" \/ call.answered = {}
    <3>1. call.stage \in {"unanswered", "collecting"}
      BY DEF Call
    <3>2. calls'[i].stage = "collecting"
      BY <2>1 DEF AskOnlyCohort, BeginCollecting, NewCall, WithEntry
    <3> QED
      BY <2>1, <3>2
  <2> QED
    BY <1>1, <1>2, <2>1, <2>2, <2>3, OneCallChanges
<1>3. CASE AskOnlyCohort(i, id)
  <2>1. PICK c \in Participants(OpsOf(id)) :
          /\ Answers(id, c, "committed")
          /\ calls' = WithEntry(calls, i, NewCall(id, "collecting", {}, {c}))
    BY <1>3 DEF AskOnlyCohort
  <2>2. SingleCohort(id) /\ c \in Cohort
    BY <1>3 DEF AskOnlyCohort, HasSingleCohort, Participants
  <2>3. c \in Committed(id) /\ id \in DOMAIN part
    BY <2>1, <2>2, AnswersCommitted
  <2>4. Responded(id) = {}
    BY <1>1, <2>2 DEF ServiceInv, PollInv
  <2>5. PICK call : call = NewCall(id, "collecting", {}, {c})
    OBVIOUS
  <2>6. call \in Call /\ call.id = id /\ call.answered = {c} /\ call.counted = {}
    BY <2>2, <2>5 DEF NewCall, Call
  <2>7. SoundCall(call)
    BY <1>1, <2>2, <2>3, <2>4, <2>6 DEF SoundCall
  <2> QED
    BY <1>2, <2>1, <2>5, <2>6, <2>7
<1>4. CASE BeginCollecting(i, id)
  <2>1. /\ ~HasSingleCohort(id) /\ Decided(id, "COMMIT")
        /\ calls' = WithEntry(calls, i,
                      NewCall(id, "collecting", Participants(OpsOf(id)), {}))
    BY <1>4 DEF BeginCollecting, ReadsDecision
  <2>2. ~SingleCohort(id) /\ id \in DOMAIN part
    BY <2>1 DEF ServiceInv, DecisionInv, Decided
  <2>3. PICK call : call = NewCall(id, "collecting", Participants(OpsOf(id)), {})
    OBVIOUS
  <2>4. Participants(OpsOf(id)) \in SUBSET Cohort
    BY DEF Participants
  <2>5. call \in Call /\ call.id = id /\ call.answered = {} /\ call.counted = {}
    BY <2>3, <2>4 DEF NewCall, Call
  <2>6. SoundCall(call)
    BY <1>1, <2>1, <2>2, <2>5 DEF SoundCall
  <2> QED
    BY <1>2, <2>1, <2>3, <2>5, <2>6
<1> QED
  BY <1>3, <1>4

LEMMA CallOfCollects ==
  ASSUME ServiceInv, NEW i, Collects(i)
  PROVE  /\ i \in DOMAIN calls /\ calls[i] \in Call /\ IsCollecting(i)
         /\ calls[i].id \in Id /\ calls[i].id \in DOMAIN metadata
         /\ ~SingleCohort(calls[i].id) /\ SoundCall(calls[i])
         /\ \A j \in DOMAIN calls \ {i} : IsCollecting(j) => calls[j].id # calls[i].id
PROOF
<1>1. /\ i \in DOMAIN calls /\ calls[i].stage = "collecting"
      /\ ~SingleCohort(calls[i].id) /\ calls[i].id \in DOMAIN metadata
  BY DEF Collects
<1>2. calls[i] \in Call /\ IsCollecting(i)
  BY <1>1 DEF ServiceInv, ServiceTypeOK, IsCollecting
<1>3. CallIsSound(i)
  BY <1>1, <1>2 DEF ServiceInv, CallInv
<1>4. SoundCall(calls[i])
  BY <1>3 DEF CallIsSound, SoundCall
<1>5. calls[i].id \in Id
  BY <1>2 DEF Call
<1> QED
  BY <1>1, <1>2, <1>4, <1>5 DEF ServiceInv, CallInv

LEMMA SkipCohortInv ==
  ASSUME ServiceInv, NEW i, NEW c \in Cohort, SkipCohort(i, c)
  PROVE  ServiceInv' /\ Grows
PROOF
<1>1. /\ Collects(i) /\ HasResponded(i, c)
      /\ calls' = [calls EXCEPT ![i].left = @ \ {c}, ![i].counted = @ \cup {c}]
      /\ UNCHANGED <<metadata, response, decision, part, keys>>
  BY DEF SkipCohort
<1>2. /\ i \in DOMAIN calls /\ calls[i] \in Call /\ IsCollecting(i)
      /\ calls[i].id \in DOMAIN metadata /\ SoundCall(calls[i])
      /\ \A j \in DOMAIN calls \ {i} : IsCollecting(j) => calls[j].id # calls[i].id
  BY <1>1, CallOfCollects
<1>3. PICK old \in Call : old = calls[i]
  BY <1>2
<1>4. PICK call : call = [old EXCEPT !.left = @ \ {c}, !.counted = @ \cup {c}]
  OBVIOUS
<1>5. /\ call \in Call /\ call.id = old.id /\ call.answered = old.answered
      /\ call.counted = old.counted \cup {c} /\ call.stage = old.stage
  BY <1>3, <1>4 DEF Call
<1>6. c \in Responded(old.id)
  BY <1>1, <1>2, <1>3 DEF HasResponded, Responded, Entry
<1>7. SoundCall(call)
  BY <1>2, <1>3, <1>5, <1>6 DEF SoundCall
<1>8. /\ DOMAIN calls' = DOMAIN calls \cup {i} /\ calls'[i] = call
      /\ \A j \in DOMAIN calls \ {i} : calls'[j] = calls[j]
  BY <1>1, <1>2, <1>3, <1>4
<1>9. call.stage = "collecting"
  BY <1>2, <1>3, <1>5 DEF IsCollecting
<1>10. \A j \in DOMAIN calls \ {i} : IsCollecting(j) => calls[j].id # call.id
  BY <1>2, <1>3, <1>5
<1> QED
  BY ONLY ServiceInv, <1>1, <1>5, <1>7, <1>8, <1>9, <1>10, OneCallChanges

LEMMA AskCohortInv ==
  ASSUME ServiceInv, NEW i, NEW c \in Cohort, NEW answered, AskCohort(i, c, answered)
  PROVE  ServiceInv' /\ Grows
PROOF
<1>1. /\ Collects(i) /\ ~HasResponded(i, c)
      /\ \/ answered = {}
         \/ answered = {c} /\ Answers(calls[i].id, c, "committed")
      /\ calls' = [calls EXCEPT ![i].left = @ \ {c}, ![i].answered = answered]
      /\ UNCHANGED <<metadata, response, decision, part, keys>>
  BY DEF AskCohort
<1>2. /\ i \in DOMAIN calls /\ calls[i] \in Call /\ IsCollecting(i)
      /\ calls[i].id \in DOMAIN metadata /\ SoundCall(calls[i])
      /\ ~SingleCohort(calls[i].id)
      /\ \A j \in DOMAIN calls \ {i} : IsCollecting(j) => calls[j].id # calls[i].id
  BY <1>1, CallOfCollects
<1>3. PICK old \in Call : old = calls[i]
  BY <1>2
<1>4. PICK call : call = [old EXCEPT !.left = @ \ {c}, !.answered = answered]
  OBVIOUS
<1>5. answered \in SUBSET Cohort
  BY <1>1
<1>6. /\ call \in Call /\ call.id = old.id /\ call.answered = answered
      /\ call.counted = old.counted /\ call.stage = old.stage
  BY <1>3, <1>4, <1>5 DEF Call
<1>7. answered \subseteq Committed(old.id) \ Responded(old.id)
  <2>1. c \notin Responded(old.id)
    BY <1>1, <1>2, <1>3 DEF HasResponded, Responded, Entry
  <2>2. Answers(old.id, c, "committed") => c \in Committed(old.id)
    BY AnswersCommitted
  <2> QED
    BY <1>1, <1>3, <2>1, <2>2
<1>8. SoundCall(call)
  BY <1>2, <1>3, <1>6, <1>7 DEF SoundCall
<1>9. /\ DOMAIN calls' = DOMAIN calls \cup {i} /\ calls'[i] = call
      /\ \A j \in DOMAIN calls \ {i} : calls'[j] = calls[j]
  BY <1>1, <1>2, <1>3, <1>4
<1>10. call.stage = "collecting"
  BY <1>2, <1>3, <1>6 DEF IsCollecting
<1>11. \A j \in DOMAIN calls \ {i} : IsCollecting(j) => calls[j].id # call.id
  BY <1>2, <1>3, <1>6
<1> QED
  BY ONLY ServiceInv, <1>1, <1>6, <1>8, <1>9, <1>10, <1>11, OneCallChanges

\* The reads of c are added once: it has not responded before.
LEMMA AddAnswerInv ==
  ASSUME ServiceInv, NEW i, NEW c \in Cohort, AddAnswer(i, c)
  PROVE  ServiceInv' /\ Grows
PROOF
<1>1. PICK id : id = calls[i].id
  OBVIOUS
<1>2. /\ Collects(i) /\ c \in calls[i].answered
      /\ calls' = [calls EXCEPT ![i].answered = {}, ![i].counted = @ \cup {c}]
      /\ response' = WithEntry(response, id, WithReads(i, c, FALSE, "partial"))
      /\ metadata' = [metadata EXCEPT ![id].cohorts_already_responded = @ \cup {c}]
      /\ UNCHANGED <<decision, part, keys>>
  BY <1>1 DEF AddAnswer
<1>3. /\ i \in DOMAIN calls /\ calls[i] \in Call /\ IsCollecting(i)
      /\ id \in Id /\ id \in DOMAIN metadata /\ ~SingleCohort(id) /\ SoundCall(calls[i])
      /\ \A j \in DOMAIN calls \ {i} : IsCollecting(j) => calls[j].id # id
  BY <1>1, <1>2, CallOfCollects
<1>4. /\ ~Complete(id) /\ id \in DOMAIN part /\ Decided(id, "COMMIT")
      /\ c \in Committed(id) /\ c \notin Responded(id)
      /\ calls[i].counted \subseteq Responded(id)
  BY <1>1, <1>2, <1>3 DEF SoundCall
<1>5. PICK old : old = Entry(response, id, NoResponse)
  OBVIOUS
<1>6. /\ old \in Response /\ old.gets = Once(Responded(id))
      /\ Responded(id) \subseteq Committed(id)
  <2>1. old \in Response
    BY <1>5 DEF Entry, NoResponse, NoGets, Response, ServiceInv, ServiceTypeOK
  <2>2. old.gets = Once(Responded(id))
    BY <1>3, <1>4, <1>5 DEF ServiceInv, PollInv
  <2>3. Responded(id) # {} => Responded(id) \subseteq Committed(id)
    BY <1>3, <1>4 DEF ServiceInv, PollInv
  <2> QED
    BY <2>1, <2>2, <2>3
<1>7. PICK new : new = WithReads(i, c, FALSE, "partial")
  OBVIOUS
<1>8. /\ new \in Response /\ ~new.complete /\ new.status = "partial"
      /\ new.gets = Once(Responded(id) \cup {c})
  <2>1. new = [complete |-> FALSE, status |-> "partial",
               gets |-> [old.gets EXCEPT ![c] = @ + 1]]
    BY <1>1, <1>5, <1>7 DEF WithReads
  <2>2. [old.gets EXCEPT ![c] = @ + 1] = Once(Responded(id) \cup {c})
    BY <1>4, <1>6 DEF Once
  <2>3. Once(Responded(id) \cup {c}) \in [Cohort -> Nat]
    BY DEF Once
  <2> QED
    BY <2>1, <2>2, <2>3 DEF Response
<1>9. /\ DOMAIN response' = DOMAIN response \cup {id} /\ response'[id] = new
      /\ \A d \in DOMAIN response \ {id} : response'[d] = response[d]
  BY <1>2, <1>7 DEF WithEntry
<1>10. PICK entry \in [possibly_sent_to_all_cohorts : BOOLEAN,
                       cohorts_already_responded : SUBSET Cohort] :
         /\ entry.possibly_sent_to_all_cohorts = metadata[id].possibly_sent_to_all_cohorts
         /\ entry.cohorts_already_responded = Responded(id) \cup {c}
         /\ DOMAIN metadata' = DOMAIN metadata /\ metadata'[id] = entry
         /\ \A d \in DOMAIN metadata \ {id} : metadata'[d] = metadata[d]
  <2>1. metadata[id] \in [possibly_sent_to_all_cohorts : BOOLEAN,
                          cohorts_already_responded : SUBSET Cohort]
    BY <1>3 DEF ServiceInv, ServiceTypeOK
  <2>2. Responded(id) = metadata[id].cohorts_already_responded
    BY <1>3 DEF Responded, Entry
  <2>3. metadata'[id] = [metadata[id] EXCEPT !.cohorts_already_responded = @ \cup {c}]
    BY <1>2, <1>3
  <2>4. /\ DOMAIN metadata' = DOMAIN metadata
        /\ \A d \in DOMAIN metadata \ {id} : metadata'[d] = metadata[d]
    BY <1>2
  <2> QED
    BY <2>1, <2>2, <2>3, <2>4
<1>11. PICK call \in Call : /\ call.id = id /\ call.stage = "collecting"
                            /\ call.answered = {}
                            /\ call.counted = calls[i].counted \cup {c}
                            /\ DOMAIN calls' = DOMAIN calls /\ calls'[i] = call
                            /\ \A j \in DOMAIN calls \ {i} : calls'[j] = calls[j]
  <2>1. calls[i].stage = "collecting" /\ calls[i].id = id
    BY <1>1, <1>3 DEF IsCollecting
  <2>2. calls'[i] = [calls[i] EXCEPT !.answered = {}, !.counted = @ \cup {c}]
    BY <1>2, <1>3
  <2>3. [calls[i] EXCEPT !.answered = {}, !.counted = @ \cup {c}] \in Call
    BY <1>3 DEF Call
  <2>4. DOMAIN calls' = DOMAIN calls /\ \A j \in DOMAIN calls \ {i} : calls'[j] = calls[j]
    BY <1>2
  <2> QED
    BY <1>3, <2>1, <2>2, <2>3, <2>4 DEF Call
<1>12. ServiceTypeOK'
  <2>1. \A d \in DOMAIN metadata' :
          /\ d \in Id
          /\ metadata'[d] \in [possibly_sent_to_all_cohorts : BOOLEAN,
                               cohorts_already_responded : SUBSET Cohort]
    BY <1>10 DEF ServiceInv, ServiceTypeOK
  <2>2. \A d \in DOMAIN response' : d \in Id /\ response'[d] \in Response
    BY <1>3, <1>8, <1>9 DEF ServiceInv, ServiceTypeOK
  <2>3. \A j \in DOMAIN calls' : calls'[j] \in Call
    BY <1>11 DEF ServiceInv, ServiceTypeOK
  <2> QED
    BY <1>2, <2>1, <2>2, <2>3 DEF ServiceInv, ServiceTypeOK
<1>13. PartInv' /\ DecisionInv'
  BY <1>2, PartFrame DEF ServiceInv, PartInv, DecisionInv
<1>14. /\ \A d : /\ Complete(d)' <=> Complete(d)
                 /\ PossiblySent(d)' <=> PossiblySent(d)
                 /\ Responded(d)' = IF d = id THEN Responded(d) \cup {c} ELSE Responded(d)
                 /\ Committed(d)' = Committed(d)
  <2>1. \A d : Complete(d)' <=> Complete(d)
    BY <1>4, <1>8, <1>9 DEF Complete, Entry
  <2>2. \A d : PossiblySent(d)' <=> PossiblySent(d)
    BY <1>3, <1>10 DEF PossiblySent, Entry
  <2>3. \A d : Responded(d)' = IF d = id THEN Responded(d) \cup {c} ELSE Responded(d)
    BY <1>3, <1>10 DEF Responded, Entry
  <2>4. \A d : Committed(d)' = Committed(d)
    BY <1>2 DEF Committed, Answers
  <2> QED
    BY <2>1, <2>2, <2>3, <2>4
<1>15. SentInv'
  BY <1>2, <1>10, <1>14 DEF ServiceInv, SentInv
<1>16. PollInv'
  <2> SUFFICES ASSUME NEW d \in DOMAIN metadata' \cup DOMAIN response', ~Complete(d)'
               PROVE  /\ Entry(response', d, NoResponse).status \in {"unset", "partial"}
                      /\ Entry(response', d, NoResponse).gets = Once(Responded(d)')
                      /\ Responded(d)' # {} =>
                           /\ d \in DOMAIN part' /\ ~SingleCohort(d)
                           /\ Responded(d)' \subseteq Committed(d)'
    BY DEF PollInv
  <2>1. CASE d = id
    <3>1. Entry(response', d, NoResponse) = new
      BY <1>9, <2>1 DEF Entry
    <3> QED
      BY <1>2, <1>3, <1>4, <1>6, <1>8, <1>14, <2>1, <3>1
  <2>2. CASE d # id
    <3>1. Entry(response', d, NoResponse) = Entry(response, d, NoResponse)
      BY <1>9, <2>2 DEF Entry
    <3>2. d \in DOMAIN metadata \cup DOMAIN response /\ ~Complete(d)
      BY <1>9, <1>10, <1>14, <2>2
    <3>3. /\ Entry(response, d, NoResponse).status \in {"unset", "partial"}
          /\ Entry(response, d, NoResponse).gets = Once(Responded(d))
          /\ Responded(d) # {} => /\ d \in DOMAIN part /\ ~SingleCohort(d)
                                  /\ Responded(d) \subseteq Committed(d)
      BY <3>2 DEF ServiceInv, PollInv
    <3> QED
      BY <1>2, <1>14, <2>2, <3>1, <3>3
  <2> QED
    BY <2>1, <2>2
<1>17. CallInv'
  <2>1. ASSUME NEW j \in DOMAIN calls'
        PROVE  IF IsCollecting(j)' THEN CallIsSound(j)' ELSE calls'[j].answered = {}
    <3>1. CASE j = i
      BY <1>2, <1>3, <1>4, <1>11, <1>14, <3>1 DEF IsCollecting, CallIsSound, Decided
    <3>2. CASE j # i
      <4>1. j \in DOMAIN calls /\ calls'[j] = calls[j]
        BY <1>11, <3>2
      <4>2. IF IsCollecting(j) THEN CallIsSound(j) /\ calls[j].id # id
                               ELSE calls[j].answered = {}
        BY <1>3, <3>2, <4>1 DEF ServiceInv, CallInv
      <4> QED
        BY <1>2, <1>14, <4>1, <4>2 DEF IsCollecting, CallIsSound, Decided
    <3> QED
      BY <3>1, <3>2
  <2>2. ASSUME NEW j \in DOMAIN calls', NEW k \in DOMAIN calls',
               IsCollecting(j)', IsCollecting(k)', calls'[j].id = calls'[k].id
        PROVE  j = k
    <3>1. CASE j # i /\ k # i
      BY <1>11, <2>2, <3>1 DEF ServiceInv, CallInv, IsCollecting
    <3>2. CASE j = i \/ k = i
      BY <1>3, <1>11, <2>2, <3>2 DEF IsCollecting
    <3> QED
      BY <3>1, <3>2
  <2> QED
    BY <2>1, <2>2 DEF CallInv
<1>18. CommittedInv'
  <2>1. ASSUME NEW d \in DOMAIN response', response'[d].status = "committed"
        PROVE  IsWhole(d)'
    <3>1. d # id /\ d \in DOMAIN response /\ response'[d] = response[d]
      BY <1>8, <1>9, <2>1
    <3>2. IsWhole(d)
      BY <2>1, <3>1 DEF ServiceInv, CommittedInv
    <3> QED
      BY <1>2, <3>1, <3>2, WholeFrame
  <2> QED
    BY <2>1 DEF CommittedInv
<1>19. Grows
  BY <1>2, <1>4, <1>9 DEF Grows, Complete, Entry
<1> QED
  BY <1>12, <1>13, <1>15, <1>16, <1>17, <1>18, <1>19 DEF ServiceInv

\* An id gets its final response, and its entry is erased; nobody asks for it any more.
LEMMA CleanUpInv ==
  ASSUME ServiceInv, NEW id \in Id, NEW final \in Response, CleanUp(id, final),
         UNCHANGED <<decision, part, keys>>, ~Complete(id), final.complete,
         \A j \in DOMAIN calls' :
           /\ j \in DOMAIN calls /\ calls'[j] = calls[j]
           /\ IsCollecting(j) => calls[j].id # id,
         final.status = "committed" =>
           /\ id \in DOMAIN part /\ final.gets = Once(Participants(OpsOf(id)))
           /\ \A c \in Participants(OpsOf(id)) : c \in Committed(id)
  PROVE  ServiceInv' /\ Grows /\ id \in DOMAIN response'
PROOF
<1>1. /\ DOMAIN response' = DOMAIN response \cup {id} /\ response'[id] = final
      /\ \A d \in DOMAIN response \ {id} : response'[d] = response[d]
      /\ DOMAIN metadata' = DOMAIN metadata \ {id}
      /\ \A d \in DOMAIN metadata' : metadata'[d] = metadata[d]
  BY DEF CleanUp, WithEntry, Without
<1>2. ServiceTypeOK'
  BY <1>1 DEF ServiceInv, ServiceTypeOK
<1>3. PartInv' /\ DecisionInv'
  BY PartFrame DEF ServiceInv, PartInv, DecisionInv
<1>4. Complete(id)' /\ ~PossiblySent(id)'
  BY <1>1 DEF Complete, PossiblySent, Entry, NewMetadata
<1>5. \A d : d # id => /\ Complete(d)' <=> Complete(d)
                       /\ PossiblySent(d)' <=> PossiblySent(d)
                       /\ Responded(d)' = Responded(d)
  BY <1>1 DEF Complete, PossiblySent, Responded, Entry
<1>6. \A d : Committed(d)' = Committed(d)
  BY DEF Committed, Answers
<1>7. SentInv'
  <2>1. \A d \in DOMAIN metadata' : PossiblySent(d)' => d \in DOMAIN part'
    BY <1>1, <1>5 DEF ServiceInv, SentInv
  <2>2. ASSUME NEW d \in DOMAIN part'
        PROVE  /\ Len(part'[d]) \in {1, 2}
               /\ ~Complete(d)' => PossiblySent(d)' /\ Len(part'[d]) = 1
               /\ ~PossiblySent(d)' => Len(part'[d]) = 1
    <3>1. CASE d = id
      BY <1>4, <3>1 DEF ServiceInv, SentInv
    <3>2. CASE d # id
      BY <1>5, <3>2 DEF ServiceInv, SentInv
    <3> QED
      BY <3>1, <3>2
  <2> QED
    BY <2>1, <2>2 DEF SentInv
<1>8. PollInv'
  <2> SUFFICES ASSUME NEW d \in DOMAIN metadata' \cup DOMAIN response', ~Complete(d)'
               PROVE  /\ Entry(response', d, NoResponse).status \in {"unset", "partial"}
                      /\ Entry(response', d, NoResponse).gets = Once(Responded(d)')
                      /\ Responded(d)' # {} =>
                           /\ d \in DOMAIN part' /\ ~SingleCohort(d)
                           /\ Responded(d)' \subseteq Committed(d)'
    BY DEF PollInv
  <2>1. d # id
    BY <1>4
  <2>2. Entry(response', d, NoResponse) = Entry(response, d, NoResponse)
    BY <1>1, <2>1 DEF Entry
  <2>3. d \in DOMAIN metadata \cup DOMAIN response /\ ~Complete(d)
    BY <1>1, <1>5, <2>1
  <2>4. /\ Entry(response, d, NoResponse).status \in {"unset", "partial"}
        /\ Entry(response, d, NoResponse).gets = Once(Responded(d))
        /\ Responded(d) # {} => /\ d \in DOMAIN part /\ ~SingleCohort(d)
                                /\ Responded(d) \subseteq Committed(d)
    BY <2>3 DEF ServiceInv, PollInv
  <2> QED
    BY <1>5, <1>6, <2>1, <2>2, <2>4
<1>9. CallInv'
  <2>1. ASSUME NEW j \in DOMAIN calls'
        PROVE  IF IsCollecting(j)' THEN CallIsSound(j)' ELSE calls'[j].answered = {}
    <3>1. IF IsCollecting(j) THEN CallIsSound(j) ELSE calls[j].answered = {}
      BY DEF ServiceInv, CallInv
    <3> QED
      BY <1>5, <1>6, <3>1 DEF IsCollecting, CallIsSound, Decided
  <2>2. \A j, k \in DOMAIN calls' :
          IsCollecting(j)' /\ IsCollecting(k)' /\ calls'[j].id = calls'[k].id => j = k
    BY DEF ServiceInv, CallInv, IsCollecting
  <2> QED
    BY <2>1, <2>2 DEF CallInv
<1>10. CommittedInv'
  <2>1. ASSUME NEW d \in DOMAIN response', response'[d].status = "committed", d # id
        PROVE  IsWhole(d)'
    <3>1. d \in DOMAIN response /\ response'[d] = response[d]
      BY <1>1, <2>1
    <3>2. IsWhole(d)
      BY <2>1, <3>1 DEF ServiceInv, CommittedInv
    <3> QED
      BY <3>1, <3>2, WholeFrame
  <2>2. ASSUME final.status = "committed"
        PROVE  IsWhole(id)'
    <3>1. /\ id \in DOMAIN part /\ final.gets = Once(Participants(OpsOf(id)))
          /\ \A c \in Participants(OpsOf(id)) : c \in Committed(id)
      BY <2>2
    <3>2. OpsOf(id) \in Seq(Operation)
      BY DEF OpsOf, Id
    <3>3. Len(part[id]) = 1 /\ part[id] \in Seq([Cohort -> Part])
      BY <3>1 DEF ServiceInv, SentInv, ServiceTypeOK
    <3>4. /\ DOMAIN part[id] = {1} /\ 1 .. Len(part[id]) = {1}
      <4>1. DOMAIN part[id] = 1 .. Len(part[id])
        BY <3>3
      <4>2. 1 .. 1 = {1}
        OBVIOUS
      <4> QED
        BY <3>3, <4>1, <4>2
    <3>5. ASSUME NEW c \in Cohort
          PROVE  /\ PutKeys(OpsOf(id), c) \subseteq keys[c]
                 /\ FindsItsKeys(OpsOf(id), c)
                 /\ part[id][1][c] # "failed"
                 /\ c \in Participants(OpsOf(id)) => part[id][1][c] = "committed"
      <4>1. PartIsSound(id, 1, c)
        BY <3>1, <3>4 DEF ServiceInv, PartInv
      <4>2. CASE c \in Participants(OpsOf(id))
        <5>1. \E n \in DOMAIN part[id] : part[id][n][c] = "committed"
          BY <3>1, <4>2 DEF Committed, Answers, Entry
        <5>2. part[id][1][c] = "committed"
          BY <3>4, <5>1
        <5> QED
          BY <4>1, <5>2 DEF PartIsSound
      <4>3. CASE c \notin Participants(OpsOf(id))
        <5>1. part[id][1][c] = "none"
          BY <4>1, <4>3 DEF PartIsSound
        <5> QED
          BY <3>2, <4>3, <5>1, NoPart
      <4> QED
        BY <4>2, <4>3
    <3>6. \A c \in Cohort : FindsItsKeys(OpsOf(id), c)'
      BY <3>5, FindsMore
    <3>7. \A c \in Cohort :
            /\ PutKeys(OpsOf(id), c) \subseteq keys'[c]
            /\ \A n \in 1 .. Len(part'[id]) : part'[id][n][c] # "failed"
            /\ c \in Participants(OpsOf(id)) => part'[id][1][c] = "committed"
      BY <3>4, <3>5
    <3>8. /\ response'[id].complete /\ id \in DOMAIN part'
          /\ response'[id].gets = Once(Participants(OpsOf(id)))
      BY <1>1, <3>1
    <3> QED
      BY ONLY <3>6, <3>7, <3>8, WholeNext
  <2> QED
    BY <1>1, <2>1, <2>2 DEF CommittedInv
<1>11. Grows
  BY <1>1 DEF Grows, Complete, Entry
<1> QED
  BY <1>1, <1>2, <1>3, <1>7, <1>8, <1>9, <1>10, <1>11 DEF ServiceInv

\* Nobody has an answer that it was committed: the voting says so, or the only cohort.
LEMMA PollAbortedInv ==
  ASSUME ServiceInv, NEW i, NEW id \in Id, PollAborted(i, id)
  PROVE  ServiceInv' /\ Grows /\ id \in DOMAIN response'
PROOF
<1>1. /\ ~Complete(id) /\ id \in DOMAIN metadata
      /\ CleanUp(id, Aborted) /\ UNCHANGED <<calls, decision, part, keys>>
  BY DEF PollAborted, CanAsk, Complete
<1>2. Aborted \in Response /\ Aborted.complete /\ Aborted.status # "committed"
  BY DEF Aborted, NoGets, Response
<1>3. ASSUME NEW j \in DOMAIN calls, IsCollecting(j), calls[j].id = id
      PROVE  FALSE
  <2>1. CallIsSound(j)
    BY <1>3 DEF ServiceInv, CallInv
  <2>2. CASE ReadsDecision(id, "ABORT")
    <3>1. ~SingleCohort(id)
      BY <2>2 DEF ReadsDecision, Decided, ServiceInv, DecisionInv
    <3>2. Decided(id, "COMMIT")
      BY <1>3, <2>1, <3>1 DEF CallIsSound
    <3> QED
      BY <2>2, <3>2 DEF ReadsDecision, Decided
  <2>3. ASSUME HasSingleCohort(id), NEW c \in Participants(OpsOf(id)),
               Answers(id, c, "aborted")
        PROVE  FALSE
    <3>1. SingleCohort(id) /\ id \in DOMAIN part
      BY <1>3, <2>1, <2>3 DEF HasSingleCohort, CallIsSound
    <3>2. PICK b \in Committed(id) : TRUE
      BY <1>3, <2>1, <3>1 DEF CallIsSound
    <3>3. b = c
      BY <3>1, <3>2, ManyParticipants DEF Committed
    <3>4. Len(part[id]) = 1 /\ part[id] \in Seq([Cohort -> Part])
      BY <1>1, <3>1 DEF ServiceInv, SentInv, ServiceTypeOK
    <3>5. DOMAIN part[id] = {1}
      <4>1. DOMAIN part[id] = 1 .. Len(part[id])
        BY <3>4
      <4>2. 1 .. 1 = {1}
        OBVIOUS
      <4> QED
        BY <3>4, <4>1, <4>2
    <3>6. part[id][1][c] = "committed"
      BY <3>1, <3>2, <3>3, <3>5 DEF Committed, Answers, Entry
    <3>7. part[id][1][c] = "aborted"
      BY <2>3, <3>1, <3>5 DEF Answers, Entry
    <3> QED
      BY <3>6, <3>7
  <2> QED
    BY <2>2, <2>3 DEF PollAborted
<1>4. \A j \in DOMAIN calls' : /\ j \in DOMAIN calls /\ calls'[j] = calls[j]
                               /\ IsCollecting(j) => calls[j].id # id
  BY <1>1, <1>3
<1> QED
  BY ONLY ServiceInv, <1>1, <1>2, <1>4, id \in Id, CleanUpInv

\* The only cohort is all of them.
LEMMA AddOnlyAnswerInv ==
  ASSUME ServiceInv, NEW i, AddOnlyAnswer(i)
  PROVE  ServiceInv' /\ Grows /\ calls[i].id \in DOMAIN response'
PROOF
<1>1. PICK id : id = calls[i].id
  OBVIOUS
<1>2. /\ i \in DOMAIN calls /\ SingleCohort(id)
      /\ calls' = Without(calls, i) /\ UNCHANGED <<decision, part, keys>>
  BY <1>1 DEF AddOnlyAnswer
<1>3. PICK c \in calls[i].answered : CleanUp(id, WithReads(i, c, TRUE, "committed"))
  BY <1>1 DEF AddOnlyAnswer
<1>4. IsCollecting(i) /\ CallIsSound(i) /\ calls[i] \in Call
  BY <1>2, <1>3 DEF ServiceInv, CallInv, ServiceTypeOK
<1>5. /\ id \in Id /\ ~Complete(id) /\ id \in DOMAIN part
      /\ c \in Committed(id) /\ c \notin Responded(id) /\ c \in Cohort
  BY <1>1, <1>3, <1>4 DEF CallIsSound, Call
<1>6. Participants(OpsOf(id)) = {c}
  BY <1>2, <1>5, ManyParticipants DEF Committed
<1>7. PICK old : old = Entry(response, id, NoResponse)
  OBVIOUS
<1>8. old \in Response /\ old.gets = Once({})
  <2>1. old \in Response
    BY <1>7 DEF Entry, NoResponse, NoGets, Response, ServiceInv, ServiceTypeOK
  <2>2. CASE id \in DOMAIN metadata \cup DOMAIN response
    <3>1. Entry(response, id, NoResponse).gets = Once(Responded(id)) /\ Responded(id) = {}
      BY <1>2, <1>5, <2>2 DEF ServiceInv, PollInv
    <3> QED
      BY <1>7, <2>1, <3>1
  <2>3. CASE id \notin DOMAIN metadata \cup DOMAIN response
    BY <1>7, <2>1, <2>3 DEF Entry, NoResponse, NoGets, Once
  <2> QED
    BY <2>1, <2>2, <2>3
<1>9. PICK final : final = WithReads(i, c, TRUE, "committed")
  OBVIOUS
<1>10. final \in Response /\ final.complete /\ final.gets = Once({c})
  <2>1. final = [complete |-> TRUE, status |-> "committed",
                 gets |-> [old.gets EXCEPT ![c] = @ + 1]]
    BY <1>1, <1>7, <1>9 DEF WithReads
  <2>2. [old.gets EXCEPT ![c] = @ + 1] = Once({c})
    BY <1>5, <1>8 DEF Once
  <2>3. Once({c}) \in [Cohort -> Nat]
    BY DEF Once
  <2> QED
    BY <2>1, <2>2, <2>3 DEF Response
<1>11. \A j \in DOMAIN calls' : /\ j \in DOMAIN calls /\ calls'[j] = calls[j]
                                /\ IsCollecting(j) => calls[j].id # id
  BY <1>1, <1>2, <1>4 DEF Without, ServiceInv, CallInv
<1>12. /\ final.gets = Once(Participants(OpsOf(id)))
       /\ \A b \in Participants(OpsOf(id)) : b \in Committed(id)
  BY <1>5, <1>6, <1>10
<1>13. CleanUp(id, final)
  BY <1>3, <1>9
<1>14. ServiceInv' /\ Grows /\ id \in DOMAIN response'
  BY ONLY ServiceInv, <1>2, <1>5, <1>10, <1>11, <1>12, <1>13, CleanUpInv
<1> QED
  BY <1>1, <1>14

\* When all of them have been counted the response is the whole of it.
LEMMA FinishCollectingInv ==
  ASSUME ServiceInv, NEW i, FinishCollecting(i)
  PROVE  ServiceInv' /\ Grows /\ calls[i].id \in DOMAIN response'
PROOF
<1>1. PICK id, old : id = calls[i].id /\ old = Entry(response, id, NoResponse)
  OBVIOUS
<1>2. /\ Collects(i) /\ calls[i].answered = {}
      /\ IF HasAll(i)
         THEN CleanUp(id, [old EXCEPT !.complete = TRUE, !.status = "committed"])
         ELSE response' = WithEntry(response, id, old) /\ metadata' = metadata
      /\ calls' = Without(calls, i) /\ UNCHANGED <<decision, part, keys>>
  BY <1>1 DEF FinishCollecting
<1>3. /\ i \in DOMAIN calls /\ calls[i] \in Call /\ IsCollecting(i)
      /\ id \in Id /\ id \in DOMAIN metadata /\ ~SingleCohort(id) /\ SoundCall(calls[i])
      /\ \A j \in DOMAIN calls \ {i} : IsCollecting(j) => calls[j].id # id
  BY <1>1, <1>2, CallOfCollects
<1>4. /\ ~Complete(id) /\ id \in DOMAIN part
      /\ calls[i].counted \subseteq Responded(id)
  BY <1>1, <1>3 DEF SoundCall
<1>5. /\ old \in Response /\ old.gets = Once(Responded(id))
      /\ Responded(id) \subseteq Committed(id)
  <2>1. old \in Response
    BY <1>1 DEF Entry, NoResponse, NoGets, Response, ServiceInv, ServiceTypeOK
  <2>2. old.gets = Once(Responded(id))
    BY <1>1, <1>3, <1>4 DEF ServiceInv, PollInv
  <2>3. Responded(id) # {} => Responded(id) \subseteq Committed(id)
    BY <1>3, <1>4 DEF ServiceInv, PollInv
  <2> QED
    BY <2>1, <2>2, <2>3
<1>6. \A j \in DOMAIN calls' : /\ j \in DOMAIN calls /\ calls'[j] = calls[j]
                               /\ IsCollecting(j) => calls[j].id # id
  BY <1>2, <1>3 DEF Without
<1>7. CASE HasAll(i)
  <2>1. PICK final : final = [old EXCEPT !.complete = TRUE, !.status = "committed"]
    OBVIOUS
  <2>2. final \in Response /\ final.complete /\ final.gets = Once(Responded(id))
    BY <1>5, <2>1 DEF Response
  <2>3. Participants(OpsOf(id)) \subseteq Responded(id)
    BY <1>1, <1>4, <1>7 DEF HasAll
  <2>4. Responded(id) = Participants(OpsOf(id)) /\ Participants(OpsOf(id)) \subseteq Committed(id)
    BY <1>5, <2>3 DEF Committed
  <2>5. CleanUp(id, final)
    BY <1>2, <1>7, <2>1
  <2>6. /\ final.gets = Once(Participants(OpsOf(id)))
        /\ \A c \in Participants(OpsOf(id)) : c \in Committed(id)
    BY <2>2, <2>4
  <2>7. ServiceInv' /\ Grows /\ id \in DOMAIN response'
    BY ONLY ServiceInv, <1>2, <1>3, <1>4, <1>6, <2>2, <2>5, <2>6, CleanUpInv
  <2> QED
    BY <1>1, <2>7
<1>8. CASE ~HasAll(i)
  <2>1. /\ response' = WithEntry(response, id, old) /\ metadata' = metadata
        /\ DOMAIN calls' = DOMAIN calls \ {i}
    BY <1>2, <1>8 DEF Without
  <2>2. /\ DOMAIN response' = DOMAIN response \cup {id}
        /\ \A d : Entry(response', d, NoResponse) = Entry(response, d, NoResponse)
        /\ \A d \in DOMAIN response : response'[d] = response[d]
        /\ response'[id] = old
    <3>1. /\ DOMAIN response' = DOMAIN response \cup {id}
          /\ \A d \in DOMAIN response' : response'[d] = IF d = id THEN old ELSE response[d]
      BY <2>1 DEF WithEntry
    <3>2. id \in DOMAIN response => response[id] = old
      BY <1>1 DEF Entry
    <3>3. \A d : Entry(response', d, NoResponse) = Entry(response, d, NoResponse)
      BY <1>1, <3>1, <3>2 DEF Entry
    <3> QED
      BY <3>1, <3>2, <3>3
  <2>3. ServiceTypeOK'
    <3>1. \A d \in DOMAIN response' : d \in Id /\ response'[d] \in Response
      BY <1>3, <1>5, <2>2 DEF ServiceInv, ServiceTypeOK
    <3>2. \A j \in DOMAIN calls' : calls'[j] \in Call
      BY <1>6 DEF ServiceInv, ServiceTypeOK
    <3> QED
      BY <1>2, <2>1, <3>1, <3>2 DEF ServiceInv, ServiceTypeOK
  <2>4. PartInv' /\ DecisionInv'
    BY <1>2, PartFrame DEF ServiceInv, PartInv, DecisionInv
  <2>5. \A d : /\ Complete(d)' <=> Complete(d)
               /\ PossiblySent(d)' <=> PossiblySent(d)
               /\ Responded(d)' = Responded(d) /\ Committed(d)' = Committed(d)
    BY <1>2, <2>1, <2>2 DEF Complete, PossiblySent, Responded, Committed, Answers
  <2>6. SentInv'
    BY <1>2, <2>1, <2>5 DEF ServiceInv, SentInv
  <2>7. PollInv'
    <3> SUFFICES ASSUME NEW d \in DOMAIN metadata' \cup DOMAIN response', ~Complete(d)'
                 PROVE  /\ Entry(response', d, NoResponse).status \in {"unset", "partial"}
                        /\ Entry(response', d, NoResponse).gets = Once(Responded(d)')
                        /\ Responded(d)' # {} =>
                             /\ d \in DOMAIN part' /\ ~SingleCohort(d)
                             /\ Responded(d)' \subseteq Committed(d)'
      BY DEF PollInv
    <3>1. d \in DOMAIN metadata \cup DOMAIN response /\ ~Complete(d)
      BY <1>3, <2>1, <2>2, <2>5
    <3>2. /\ Entry(response, d, NoResponse).status \in {"unset", "partial"}
          /\ Entry(response, d, NoResponse).gets = Once(Responded(d))
          /\ Responded(d) # {} => /\ d \in DOMAIN part /\ ~SingleCohort(d)
                                  /\ Responded(d) \subseteq Committed(d)
      BY <3>1 DEF ServiceInv, PollInv
    <3> QED
      BY <1>2, <2>2, <2>5, <3>2
  <2>8. CallInv'
    <3>1. ASSUME NEW j \in DOMAIN calls'
          PROVE  IF IsCollecting(j)' THEN CallIsSound(j)' ELSE calls'[j].answered = {}
      <4>1. IF IsCollecting(j) THEN CallIsSound(j) ELSE calls[j].answered = {}
        BY <1>6 DEF ServiceInv, CallInv
      <4> QED
        BY <1>2, <1>6, <2>5, <4>1 DEF IsCollecting, CallIsSound, Decided
    <3>2. \A j, k \in DOMAIN calls' :
            IsCollecting(j)' /\ IsCollecting(k)' /\ calls'[j].id = calls'[k].id => j = k
      BY <1>6 DEF ServiceInv, CallInv, IsCollecting
    <3> QED
      BY <3>1, <3>2 DEF CallInv
  <2>9. CommittedInv'
    <3>1. ASSUME NEW d \in DOMAIN response', response'[d].status = "committed"
          PROVE  IsWhole(d)'
      <4>1. CASE d \in DOMAIN response
        <5>1. response'[d] = response[d] /\ IsWhole(d)
          BY <2>2, <3>1, <4>1 DEF ServiceInv, CommittedInv
        <5> QED
          BY <1>2, <5>1, WholeFrame
      <4>2. CASE d \notin DOMAIN response
        BY <1>1, <2>2, <3>1, <4>2 DEF Entry, NoResponse
      <4> QED
        BY <4>1, <4>2
    <3> QED
      BY <3>1 DEF CommittedInv
  <2>10. Grows
    BY <1>2, <2>2 DEF Grows
  <2> QED
    BY <1>1, <2>2, <2>3, <2>4, <2>6, <2>7, <2>8, <2>9, <2>10 DEF ServiceInv
<1> QED
  BY <1>7, <1>8
-----------------------------------------------------------------------------
(* The inductive invariant of the program *)

RunInfo == [ops : Seq(Operation), async : BOOLEAN]

ClientTypeOK ==
  /\ file \in Files
  /\ building \in Seq(Operation)
  /\ put_keys_by_address \in [Cohort -> SUBSET Key]
  /\ requests \in Seq(RunInfo)
  /\ main \in Main

\* A future that says committed says what the response says, and only requests
\* that were sent have parts.
FutureInv ==
  /\ futures \in Seq(Response \cup {Waiting, Error})
  /\ Len(futures) <= Len(requests)
  /\ \A i \in 1 .. Len(futures) : futures[i].status = "committed" =>
       IdOf(i) \in DOMAIN response /\ futures[i] = response[IdOf(i)]
  /\ \A id \in DOMAIN part : \E i \in 1 .. Len(futures) : IdOf(i) = id

\* Who waits in a call is a job on a thread, and asks for its own request.
CallerInv == \A i \in DOMAIN calls : i \in running /\ calls[i].id = IdOf(i)

\* Each future without a value has one job.
JobInv ==
  /\ queue \in Seq(Nat)
  /\ \A i, j \in 1 .. Len(queue) : queue[i] = queue[j] => i = j
  /\ running \cap ToSet(queue) = {}
  /\ running \cup ToSet(queue) = {i \in 1 .. Len(futures) : futures[i] = Waiting}
  /\ Cardinality(running) <= NumThreads

\* The main thread waits for a request that is not async before it goes on.
SyncInv ==
  /\ main \in {"building", "connecting", "crashed"} => futures = << >>
  /\ \A i \in 1 .. Len(futures) : futures[i] = Waiting /\ ~requests[i].async =>
       main = "in CommitSync" /\ i = Len(futures)
  /\ main = "in CommitAtomicTransaction" => Len(futures) < Len(requests)

\* Each key that is needed is put by one of the first n requests or before.
Sourced(ops, n) ==
  \A c \in Cohort :
    LET sub == SubTransaction(ops, c)
    IN  \A i \in 1 .. Len(sub) : sub[i].type \in {"get", "relative"} =>
          \/ \E j \in 1 .. n : sub[i].key \in PutKeys(requests[j].ops, c)
          \/ \E j \in 1 .. i - 1 : sub[j].type = "put" /\ sub[j].key = sub[i].key

BuildInv ==
  /\ Len(requests) <= Len(FileTransactions(file))
  /\ \A c \in Cohort : \A k \in put_keys_by_address[c] :
       \/ \E i \in 1 .. Len(requests) : k \in PutKeys(requests[i].ops, c)
       \/ k \in PutKeys(building, c)
  /\ \A i \in 1 .. Len(requests) :
       UsesPutKeys(FileTransactions(file)[i]) => Sourced(requests[i].ops, i - 1)
  /\ Len(requests) < Len(FileTransactions(file)) /\ UsesPutKeys(ToBuild) =>
       Sourced(building, Len(requests))

ProgramInv ==
  /\ ServiceInv /\ ClientTypeOK /\ FutureInv /\ CallerInv /\ JobInv /\ SyncInv
  /\ BuildInv /\ PutKeysAreFound

LEMMA IdOfType ==
  ASSUME ClientTypeOK, NEW i \in 1 .. Len(requests)
  PROVE  IdOf(i) \in Id /\ OpsOf(IdOf(i)) = requests[i].ops /\ requests[i].ops \in Seq(Operation)
PROOF
<1>1. requests[i].ops \in Seq(Operation)
  <2>1. requests[i] \in RunInfo
    BY DEF ClientTypeOK
  <2> QED
    BY <2>1 DEF RunInfo
<1>2. PICK ops \in Seq(Operation) : ops = requests[i].ops
  BY <1>1
<1>3. IdOf(i) = <<"operations", ops>>
  BY <1>2 DEF IdOf, ClientTransactionId
<1>4. /\ <<"operations", ops>> \in {"operations", "id"} \X Seq(Operation)
      /\ <<"operations", ops>>[2] = ops
  BY SMT
<1> QED
  BY <1>1, <1>2, <1>3, <1>4 DEF OpsOf, Id

LEMMA ProgramInvInit == Init => ProgramInv
PROOF
<1> SUFFICES ASSUME Init PROVE ProgramInv
  OBVIOUS
<1>1. /\ ServiceInit /\ file \in Files /\ building = << >> /\ requests = << >>
      /\ put_keys_by_address = [c \in Cohort |-> {}] /\ main = "building"
      /\ futures = << >> /\ queue = << >> /\ running = {}
  BY DEF Init
<1>2. ServiceInv
  BY <1>1, ServiceInvInit
<1>3. ClientTypeOK
  BY <1>1 DEF ClientTypeOK, Main
<1>4. FutureInv
  <2>1. DOMAIN part = {}
    BY <1>1 DEF ServiceInit, EmptyMap
  <2> QED
    BY <1>1, <2>1 DEF FutureInv
<1>5. JobInv
  <2>1. Cardinality({}) = 0 /\ 0 <= NumThreads
    BY FS_EmptySet, NumThreadsAssumption
  <2> QED
    BY <1>1, <2>1 DEF JobInv, ToSet
<1>6. SyncInv
  BY <1>1 DEF SyncInv
<1>7. BuildInv
  <2>1. FileTransactions(file) \in Seq(FileTransaction)
    BY <1>1, FileTransactionsType
  <2>2. Len(FileTransactions(file)) \in Nat
    BY <2>1
  <2>3. \A c : SubTransaction(<< >>, c) = << >>
    <3>1. << >> \in Seq(Operation) /\ Len(<< >>) = 0
      OBVIOUS
    <3> QED
      BY <3>1, SplitStep DEF SubTransaction
  <2>4. Sourced(building, Len(requests))
    BY <1>1, <2>3 DEF Sourced
  <2> QED
    BY <1>1, <2>2, <2>4 DEF BuildInv
<1>8. PutKeysAreFound
  BY <1>1 DEF PutKeysAreFound
<1>9. CallerInv
  BY <1>1 DEF CallerInv, ServiceInit, EmptyMap
<1> QED
  BY <1>2, <1>3, <1>4, <1>5, <1>6, <1>7, <1>8, <1>9 DEF ProgramInv

-----------------------------------------------------------------------------
(* The steps that make the requests *)

LEMMA NoFirst == \A n : ~(n \in 1 .. Len(<< >>))
PROOF
  OBVIOUS

LEMMA BuildingSync ==
  ASSUME futures = << >>, futures' = futures, main' # "in CommitAtomicTransaction"
  PROVE  SyncInv'
PROOF
<1>1. futures' = << >>
  OBVIOUS
<1> QED
  BY <1>1, NoFirst DEF SyncInv

\* Before the requests are sent nothing else changes.
LEMMA BuildingFrame ==
  ASSUME ProgramInv, futures = << >>,
         UNCHANGED <<file, futures, queue, running, serviceVars>>,
         ClientTypeOK', BuildInv', SyncInv'
  PROVE  ProgramInv'
PROOF
<1>1. ServiceInv'
  BY ServiceInvFrame DEF ProgramInv
<1>2. /\ UNCHANGED <<part, response, calls>> /\ futures' = << >> /\ queue' = queue
      /\ running' = running
  BY DEF serviceVars
<1>3. \A n : ~(n \in 1 .. 0)
  OBVIOUS
<1>4. FutureInv'
  <2>1. DOMAIN part = {}
    BY <1>3 DEF ProgramInv, FutureInv
  <2>2. Len(requests') \in Nat
    BY DEF ClientTypeOK
  <2> QED
    BY <1>2, <1>3, <2>1, <2>2 DEF FutureInv
<1>5. JobInv'
  BY <1>2 DEF ProgramInv, JobInv
<1>6. PutKeysAreFound'
  BY <1>2 DEF PutKeysAreFound
<1>7. CallerInv'
  <2>1. running = {}
    BY <1>3 DEF ProgramInv, JobInv
  <2> QED
    BY <1>2, <2>1 DEF ProgramInv, CallerInv
<1> QED
  BY <1>1, <1>4, <1>5, <1>6, <1>7 DEF ProgramInv

\* The operation whose turn it is.
LEMMA ToBuildType ==
  ASSUME ClientTypeOK, Len(requests) < Len(FileTransactions(file)),
         Len(building) < Len(FileOperations(ToBuild)),
         NEW op, op = FileOperations(ToBuild)[Len(building) + 1]
  PROVE  /\ op \in FileOperation
         /\ \E i \in DOMAIN ToBuild.op : op = ToBuild.op[i]
PROOF
<1>1. FileTransactions(file) \in Seq(FileTransaction)
  BY FileTransactionsType DEF ClientTypeOK
<1>2. Len(requests) \in Nat /\ Len(building) \in Nat
  BY DEF ClientTypeOK
<1>3. ToBuild \in FileTransaction
  BY <1>1, <1>2 DEF ToBuild
<1>4. FileOperations(ToBuild) \in Seq(OpsIn(ToBuild)) /\ OpsIn(ToBuild) \subseteq FileOperation
  BY <1>3, FileOperationsType
<1>5. op \in OpsIn(ToBuild)
  BY <1>2, <1>4
<1> QED
  BY <1>4, <1>5 DEF OpsIn

\* A key that was put to this address is put before it is needed.
LEMMA SourcedAppend ==
  ASSUME ClientTypeOK, BuildInv, NEW o \in Operation,
         Len(requests) < Len(FileTransactions(file)), UsesPutKeys(ToBuild),
         o.type \in {"get", "relative"} => o.key \in put_keys_by_address[o.namespace]
  PROVE  Sourced(Append(building, o), Len(requests))
PROOF
<1> SUFFICES ASSUME NEW c \in Cohort,
                    NEW sub, sub = SubTransaction(Append(building, o), c),
                    NEW i \in 1 .. Len(sub), sub[i].type \in {"get", "relative"}
             PROVE  \/ \E j \in 1 .. Len(requests) :
                         sub[i].key \in PutKeys(requests[j].ops, c)
                    \/ \E j \in 1 .. i - 1 : sub[j].type = "put" /\ sub[j].key = sub[i].key
  BY DEF Sourced
<1>1. building \in Seq(Operation)
  BY DEF ClientTypeOK
<1>2. PICK old \in Seq(Operation) : old = SubTransaction(building, c)
  BY <1>1, SubTransactionType
<1>3. \A m \in 1 .. Len(old) : old[m].type \in {"get", "relative"} =>
        \/ \E j \in 1 .. Len(requests) : old[m].key \in PutKeys(requests[j].ops, c)
        \/ \E j \in 1 .. m - 1 : old[j].type = "put" /\ old[j].key = old[m].key
  <2>1. Sourced(building, Len(requests))
    BY DEF BuildInv
  <2> QED
    BY ONLY <1>2, <2>1, c \in Cohort DEF Sourced
<1>4. sub = IF o.namespace = c THEN Append(old, o) ELSE old
  BY <1>1, <1>2, SubTransactionAppend
<1>5. Len(old) \in Nat
  BY <1>2
<1>6. \A m \in 1 .. Len(old) : sub[m] = old[m]
  BY ONLY <1>2, <1>4, <1>5
<1>7. CASE i \in 1 .. Len(old)
  <2>1. sub[i] = old[i] /\ \A j \in 1 .. i - 1 : sub[j] = old[j]
    BY ONLY <1>5, <1>6, <1>7
  <2> QED
    BY <1>3, <1>7, <2>1
<1>8. CASE i \notin 1 .. Len(old)
  <2>1. o.namespace = c /\ i = Len(old) + 1 /\ sub[i] = o
    <3>1. o.namespace = c
      BY <1>4, <1>8
    <3>2. sub = Append(old, o)
      BY <1>4, <3>1
    <3> QED
      BY ONLY <1>2, <1>5, <1>8, <3>1, <3>2, i \in 1 .. Len(sub)
  <2>2. o.key \in put_keys_by_address[c]
    BY <2>1
  <2>3. CASE \E j \in 1 .. Len(requests) : o.key \in PutKeys(requests[j].ops, c)
    BY <2>1, <2>3
  <2>4. CASE o.key \in PutKeys(building, c)
    <3>1. PICK m \in 1 .. Len(building) :
            /\ building[m].namespace = c /\ building[m].key = o.key
            /\ building[m].type \in {"put", "relative"}
      BY <1>1, <2>4, PutKeysIff
    <3>2. PICK j \in 1 .. Len(old) : old[j] = building[m]
      BY <1>1, <1>2, <3>1, InSubTransaction
    <3>3. j \in 1 .. i - 1 /\ sub[j] = old[j] /\ \A n \in 1 .. j - 1 : sub[n] = old[n] /\ n \in 1 .. i - 1
      BY ONLY <1>5, <1>6, <2>1, j \in 1 .. Len(old)
    <3>4. CASE old[j].type = "put"
      BY <2>1, <3>1, <3>2, <3>3, <3>4
    <3>5. CASE old[j].type = "relative"
      <4>1. \/ \E n \in 1 .. Len(requests) : o.key \in PutKeys(requests[n].ops, c)
            \/ \E n \in 1 .. j - 1 : old[n].type = "put" /\ old[n].key = o.key
        BY <1>3, <3>1, <3>2, <3>5
      <4> QED
        BY <2>1, <3>3, <4>1
    <3> QED
      BY <3>1, <3>2, <3>4, <3>5
  <2> QED
    BY <2>2, <2>3, <2>4 DEF BuildInv
<1> QED
  BY <1>7, <1>8

\* More requests change nothing for the first ones.
LEMMA SourcedFrame ==
  ASSUME NEW ops, NEW n, Sourced(ops, n), \A j \in 1 .. n : requests'[j] = requests[j]
  PROVE  Sourced(ops, n)'
PROOF
  BY DEF Sourced

LEMMA PutKeysAppend ==
  ASSUME NEW ops \in Seq(Operation), NEW o \in Operation, NEW c
  PROVE  /\ PutKeys(ops, c) \subseteq PutKeys(Append(ops, o), c)
         /\ o.namespace = c /\ o.type \in {"put", "relative"} =>
              o.key \in PutKeys(Append(ops, o), c)
PROOF
<1> DEFINE more == Append(ops, o)
<1>1. /\ more \in Seq(Operation) /\ Len(more) \in Nat /\ Len(more) = Len(ops) + 1
      /\ more[Len(more)] = o /\ Len(ops) \in Nat
      /\ \A i \in 1 .. Len(ops) : more[i] = ops[i] /\ i \in 1 .. Len(more)
  OBVIOUS
<1> HIDE DEF more
<1>2. \A k : k \in PutKeys(ops, c) => k \in PutKeys(more, c)
  BY <1>1, PutKeysIff
<1>3. o.namespace = c /\ o.type \in {"put", "relative"} => o.key \in PutKeys(more, c)
  <2>1. Len(more) \in 1 .. Len(more)
    BY <1>1
  <2> QED
    BY <1>1, <2>1, PutKeysIff
<1> QED
  BY <1>2, <1>3 DEF more

\* One more operation, of which the program knows the key.
LEMMA AppendOperationInv ==
  ASSUME ClientTypeOK, BuildInv, NEW o \in Operation,
         Len(requests) < Len(FileTransactions(file)),
         UsesPutKeys(ToBuild) /\ o.type \in {"get", "relative"} =>
           o.key \in put_keys_by_address[o.namespace],
         building' = Append(building, o),
         put_keys_by_address' =
           IF o.type = "get" THEN put_keys_by_address
           ELSE [put_keys_by_address EXCEPT ![o.namespace] = @ \cup {o.key}],
         o.type # "none", UNCHANGED <<file, requests, main>>
  PROVE  ClientTypeOK' /\ BuildInv'
PROOF
<1>1. building \in Seq(Operation) /\ put_keys_by_address \in [Cohort -> SUBSET Key]
  BY DEF ClientTypeOK
<1>2. /\ o.namespace \in Cohort /\ o.key \in Key
      /\ o.type \in {"get", "put", "relative"}
  BY DEF Operation
<1>3. ClientTypeOK'
  <2>1. building' \in Seq(Operation)
    BY <1>1
  <2>2. put_keys_by_address' \in [Cohort -> SUBSET Key]
    BY <1>1, <1>2
  <2> QED
    BY <2>1, <2>2 DEF ClientTypeOK
<1>4. ASSUME NEW c \in Cohort, NEW k \in put_keys_by_address'[c]
      PROVE  \/ \E i \in 1 .. Len(requests') : k \in PutKeys(requests'[i].ops, c)
             \/ k \in PutKeys(building', c)
  <2>1. CASE k \in put_keys_by_address[c]
    <3>1. \/ \E i \in 1 .. Len(requests) : k \in PutKeys(requests[i].ops, c)
          \/ k \in PutKeys(building, c)
      BY <2>1 DEF BuildInv
    <3> QED
      BY <1>1, <3>1, PutKeysAppend
  <2>2. CASE k \notin put_keys_by_address[c]
    <3>1. o.type # "get" /\ o.namespace = c /\ o.key = k
      BY <1>1, <1>2, <1>4, <2>2
    <3> QED
      BY <1>1, <1>2, <3>1, PutKeysAppend
  <2> QED
    BY <2>1, <2>2
<1>5. ASSUME NEW i \in 1 .. Len(requests), UsesPutKeys(FileTransactions(file)[i])
      PROVE  Sourced(requests[i].ops, i - 1)'
  <2>1. PICK ops : ops = requests[i].ops
    OBVIOUS
  <2>2. Sourced(ops, i - 1)
    BY <1>5, <2>1 DEF BuildInv
  <2>3. Sourced(ops, i - 1)'
    BY <2>2, SourcedFrame
  <2>4. ops = requests'[i].ops
    BY <2>1
  <2> QED
    BY ONLY <2>3, <2>4 DEF Sourced
<1>6. ASSUME UsesPutKeys(ToBuild)
      PROVE  Sourced(building, Len(requests))'
  <2>1. PICK b : b = Append(building, o)
    OBVIOUS
  <2>2. PICK n : n = Len(requests)
    OBVIOUS
  <2>3. Sourced(b, n)
    BY <1>6, <2>1, <2>2, SourcedAppend
  <2>4. Sourced(b, n)'
    BY <2>3, SourcedFrame
  <2>5. b = building' /\ n = Len(requests')
    BY <2>1, <2>2
  <2> QED
    BY ONLY <2>4, <2>5 DEF Sourced
<1>7. BuildInv'
  <2>1. Len(requests') <= Len(FileTransactions(file'))
    BY DEF BuildInv
  <2> QED
    BY <1>4, <1>5, <1>6, <2>1 DEF BuildInv, ToBuild
<1> QED
  BY <1>3, <1>7

LEMMA BuildFrame ==
  ASSUME BuildInv, UNCHANGED <<file, building, put_keys_by_address, requests>>
  PROVE  BuildInv'
PROOF
  BY DEF BuildInv, Sourced, ToBuild

LEMMA AddOperationInv ==
  ASSUME ProgramInv, AddOperation
  PROVE  ProgramInv'
PROOF
<1>1. /\ ClientTypeOK /\ BuildInv
      /\ futures = << >> /\ UNCHANGED <<file, requests, futures, queue, running, serviceVars>>
  BY DEF AddOperation, ProgramInv, SyncInv
<1>2. PICK op : op = FileOperations(ToBuild)[Len(building) + 1]
  OBVIOUS
<1>3. /\ Len(requests) < Len(FileTransactions(file))
      /\ Len(building) < Len(FileOperations(ToBuild))
  BY DEF AddOperation
<1>4. op \in FileOperation /\ \E i \in DOMAIN ToBuild.op : op = ToBuild.op[i]
  BY ONLY <1>1, <1>2, <1>3, ToBuildType
<1>5. PICK address \in Addresses(op) :
        \/ /\ main' = "crashed"
           /\ UNCHANGED <<building, put_keys_by_address>>
        \/ /\ \E key \in KeysFor(op, address) :
                /\ building' = Append(building, NewOperation(op, address, key))
                /\ put_keys_by_address' =
                     IF op.type = "get" THEN put_keys_by_address
                     ELSE [put_keys_by_address EXCEPT ![address] = @ \cup {key}]
           /\ UNCHANGED main
  BY <1>2 DEF AddOperation
<1>6. CASE main' = "crashed" /\ UNCHANGED <<building, put_keys_by_address>>
  <2>1. ClientTypeOK'
    BY <1>1, <1>6 DEF ClientTypeOK, Main
  <2>2. BuildInv'
    BY <1>1, <1>6, BuildFrame
  <2>3. SyncInv'
    BY <1>1, <1>6, BuildingSync
  <2> QED
    BY ONLY ProgramInv, <1>1, <2>1, <2>2, <2>3, BuildingFrame
<1>7. ASSUME NEW key \in KeysFor(op, address),
             building' = Append(building, NewOperation(op, address, key)),
             put_keys_by_address' =
               IF op.type = "get" THEN put_keys_by_address
               ELSE [put_keys_by_address EXCEPT ![address] = @ \cup {key}],
             UNCHANGED main
      PROVE  ProgramInv'
  <2>1. put_keys_by_address \in [Cohort -> SUBSET Key]
    BY <1>1 DEF ClientTypeOK
  <2>2. op.type \in {"get", "put", "relative"}
    BY <1>4 DEF FileOperation
  <2>3. address \in Cohort
    BY <1>4 DEF FileOperation, Addresses
  <2>4. key \in Key
    BY <1>4, <2>1, <2>3 DEF FileOperation, KeysFor
  <2>5. PICK o : o = NewOperation(op, address, key)
    OBVIOUS
  <2>6. o.namespace = address /\ o.type = op.type /\ o.key = key
    BY <2>5 DEF NewOperation
  <2>7. o \in Operation
    BY <2>2, <2>3, <2>4, <2>5 DEF NewOperation, Operation
  <2>8. ASSUME UsesPutKeys(ToBuild), o.type \in {"get", "relative"}
        PROVE  o.key \in put_keys_by_address[o.namespace]
    <3>1. op.key = RandomPutKey
      BY <1>4, <2>6, <2>8 DEF UsesPutKeys
    <3>2. RandomPutKey # RandomKey
      BY DEF RandomPutKey, RandomKey
    <3> QED
      BY <2>6, <3>1, <3>2 DEF KeysFor
  <2>9. building' = Append(building, o)
    BY <1>7, <2>5
  <2>10. put_keys_by_address' =
           IF o.type = "get" THEN put_keys_by_address
           ELSE [put_keys_by_address EXCEPT ![o.namespace] = @ \cup {o.key}]
    BY <1>7, <2>6
  <2>11. ClientTypeOK' /\ BuildInv'
    <3>1. o.type # "none" /\ UNCHANGED <<file, requests, main>>
      BY <1>1, <1>7, <2>2, <2>6
    <3> QED
      BY ONLY <1>1, <1>3, <2>7, <2>8, <2>9, <2>10, <3>1, AppendOperationInv
  <2>12. SyncInv'
    BY <1>1, <1>7, BuildingSync DEF AddOperation
  <2> QED
    BY ONLY ProgramInv, <1>1, <2>11, <2>12, BuildingFrame
<1> QED
  BY <1>5, <1>6, <1>7

LEMMA AddTransactionInv ==
  ASSUME ProgramInv, AddTransaction
  PROVE  ProgramInv'
PROOF
<1>1. /\ ClientTypeOK /\ BuildInv
      /\ futures = << >> /\ UNCHANGED <<file, futures, queue, running, serviceVars>>
  BY DEF AddTransaction, ProgramInv, SyncInv
<1>2. PICK run : run = [ops |-> building, async |-> ToBuild.async]
  OBVIOUS
<1>3. /\ requests' = Append(requests, run) /\ building' = << >>
      /\ UNCHANGED <<put_keys_by_address, main>>
      /\ Len(requests) < Len(FileTransactions(file))
  BY <1>2 DEF AddTransaction
<1>4. requests \in Seq(RunInfo) /\ building \in Seq(Operation)
  BY <1>1 DEF ClientTypeOK
<1>5. run \in RunInfo /\ run.ops = building
  <2>1. FileTransactions(file) \in Seq(FileTransaction)
    BY <1>1, FileTransactionsType DEF ClientTypeOK
  <2>2. Len(requests) \in Nat
    BY <1>4
  <2>3. ToBuild \in FileTransaction
    BY <1>3, <2>1, <2>2 DEF ToBuild
  <2>4. ToBuild.async \in BOOLEAN
    BY <2>3 DEF FileTransaction
  <2> QED
    BY ONLY <1>2, <1>4, <2>4 DEF RunInfo
<1>6. ClientTypeOK'
  <2>1. requests' \in Seq(RunInfo)
    BY ONLY <1>3, <1>4, <1>5
  <2> QED
    BY <1>1, <1>3, <2>1 DEF ClientTypeOK
<1>7. /\ Len(requests) \in Nat /\ Len(requests') = Len(requests) + 1
      /\ \A i \in 1 .. Len(requests) : requests'[i] = requests[i]
      /\ requests'[Len(requests) + 1] = run
  BY ONLY <1>3, <1>4, <1>5
<1>8. ASSUME NEW c \in Cohort, NEW k \in put_keys_by_address'[c]
      PROVE  \E i \in 1 .. Len(requests') : k \in PutKeys(requests'[i].ops, c)
  <2>1. \/ \E i \in 1 .. Len(requests) : k \in PutKeys(requests[i].ops, c)
        \/ k \in PutKeys(building, c)
    BY <1>1, <1>3 DEF BuildInv
  <2>2. CASE \E i \in 1 .. Len(requests) : k \in PutKeys(requests[i].ops, c)
    BY <1>7, <2>2
  <2>3. CASE k \in PutKeys(building, c)
    <3>1. Len(requests) + 1 \in 1 .. Len(requests')
      BY <1>7
    <3> QED
      BY <1>5, <1>7, <2>3, <3>1
  <2> QED
    BY <2>1, <2>2, <2>3
<1>9. ASSUME NEW i \in 1 .. Len(requests'), UsesPutKeys(FileTransactions(file)[i])
      PROVE  Sourced(requests[i].ops, i - 1)'
  <2>1. PICK ops : ops = requests'[i].ops
    OBVIOUS
  <2>2. Sourced(ops, i - 1)
    <3>1. CASE i \in 1 .. Len(requests)
      <4>1. ops = requests[i].ops
        BY <1>7, <2>1, <3>1
      <4> QED
        BY <1>1, <1>9, <3>1, <4>1 DEF BuildInv
    <3>2. CASE i \notin 1 .. Len(requests)
      <4>1. i = Len(requests) + 1 /\ i - 1 = Len(requests)
        BY ONLY <1>7, <3>2, i \in 1 .. Len(requests')
      <4>2. ops = building
        BY <1>5, <1>7, <2>1, <4>1
      <4>3. UsesPutKeys(ToBuild)
        BY <1>9, <4>1 DEF ToBuild
      <4> QED
        BY <1>1, <1>3, <4>1, <4>2, <4>3 DEF BuildInv
    <3> QED
      BY <3>1, <3>2
  <2>3. \A j \in 1 .. i - 1 : requests'[j] = requests[j]
    BY <1>7
  <2>4. Sourced(ops, i - 1)'
    BY <2>2, <2>3, SourcedFrame
  <2> QED
    BY ONLY <2>1, <2>4 DEF Sourced
<1>10. Sourced(building, Len(requests))'
  <2>1. << >> \in Seq(Operation) /\ Len(<< >>) = 0
    OBVIOUS
  <2>2. \A c : SubTransaction(<< >>, c) = << >>
    BY <2>1, SplitStep DEF SubTransaction
  <2> QED
    BY <1>3, <2>2 DEF Sourced
<1>11. BuildInv'
  <2>1. Len(FileTransactions(file)) \in Nat
    <3>1. FileTransactions(file) \in Seq(FileTransaction)
      BY <1>1, FileTransactionsType DEF ClientTypeOK
    <3> QED
      BY <3>1
  <2>2. Len(requests') <= Len(FileTransactions(file'))
    BY <1>1, <1>3, <1>7, <2>1
  <2> QED
    BY <1>1, <1>8, <1>9, <1>10, <2>2 DEF BuildInv
<1>12. SyncInv'
  BY <1>1, BuildingSync DEF AddTransaction
<1> QED
  BY ONLY ProgramInv, <1>1, <1>6, <1>11, <1>12, BuildingFrame

LEMMA RunInfoCreatedInv ==
  ASSUME ProgramInv, RunInfoCreated
  PROVE  ProgramInv'
PROOF
<1>1. /\ futures = << >> /\ main' = "connecting"
      /\ UNCHANGED <<file, building, put_keys_by_address, requests>>
      /\ UNCHANGED <<file, futures, queue, running, serviceVars>>
  BY DEF RunInfoCreated, ProgramInv, SyncInv
<1>2. ClientTypeOK'
  BY <1>1 DEF ProgramInv, ClientTypeOK, Main
<1>3. BuildInv'
  BY <1>1, BuildFrame DEF ProgramInv
<1>4. SyncInv'
  BY <1>1, BuildingSync
<1> QED
  BY ONLY ProgramInv, <1>1, <1>2, <1>3, <1>4, BuildingFrame

-----------------------------------------------------------------------------
(* The steps that send the requests *)

\* Every request before i, none of them async, was told committed.
AllBefore(i) ==
  /\ UsesPutKeys(FileTransactions(file)[i])
  /\ \A j \in 1 .. i - 1 : ~requests[j].async /\ futures[j].status = "committed"

\* What is told committed is in the databases, so that the next request finds it.
LEMMA FindsPutKeys ==
  ASSUME ProgramInv, NEW i \in 1 .. Len(requests), i - 1 <= Len(futures), AllBefore(i)
  PROVE  \A c \in Cohort : FindsItsKeys(requests[i].ops, c)
PROOF
<1> SUFFICES ASSUME NEW c \in Cohort
             PROVE  FindsItsKeys(requests[i].ops, c)
  OBVIOUS
<1>1. ClientTypeOK /\ FutureInv /\ CommittedInv /\ BuildInv
  BY DEF ProgramInv, ServiceInv
<1>2. Len(requests) \in Nat /\ Len(futures) \in Nat /\ Len(futures) <= Len(requests)
  BY <1>1 DEF ClientTypeOK, FutureInv
<1>3. ASSUME NEW j \in 1 .. i - 1
      PROVE  PutKeys(requests[j].ops, c) \subseteq keys[c]
  <2>1. j \in 1 .. Len(futures) /\ j \in 1 .. Len(requests)
    BY ONLY <1>2, i \in 1 .. Len(requests), i - 1 <= Len(futures), j \in 1 .. i - 1
  <2>2. futures[j].status = "committed"
    BY DEF AllBefore
  <2>3. IdOf(j) \in DOMAIN response /\ response[IdOf(j)].status = "committed"
    BY <1>1, <2>1, <2>2 DEF FutureInv
  <2>4. IsWhole(IdOf(j))
    BY <1>1, <2>3 DEF CommittedInv
  <2>5. OpsOf(IdOf(j)) = requests[j].ops
    BY <1>1, <2>1, IdOfType
  <2> QED
    BY <2>4, <2>5 DEF IsWhole
<1>4. Sourced(requests[i].ops, i - 1)
  BY <1>1 DEF BuildInv, AllBefore
<1>5. PICK sub : sub = SubTransaction(requests[i].ops, c)
  OBVIOUS
<1>6. sub \in Seq(Operation)
  <2>1. requests[i].ops \in Seq(Operation)
    BY <1>1, IdOfType
  <2> QED
    BY <1>5, <2>1, SubTransactionType
<1>7. ASSUME NEW m \in 1 .. Len(sub), sub[m].type \in {"get", "relative"}
      PROVE  \/ sub[m].key \in keys[c]
             \/ \E j \in 1 .. m - 1 : sub[j].type = "put" /\ sub[j].key = sub[m].key
  <2>1. \/ \E j \in 1 .. i - 1 : sub[m].key \in PutKeys(requests[j].ops, c)
        \/ \E j \in 1 .. m - 1 : sub[j].type = "put" /\ sub[j].key = sub[m].key
    BY ONLY <1>4, <1>5, <1>7, c \in Cohort DEF Sourced
  <2> QED
    BY ONLY <1>3, <2>1
<1> QED
  BY ONLY <1>5, <1>6, <1>7 DEF FindsItsKeys

-----------------------------------------------------------------------------
(* The frame of the other steps *)

LEMMA JobFrame ==
  ASSUME JobInv, UNCHANGED <<futures, queue, running>>
  PROVE  JobInv'
PROOF
  BY DEF JobInv

\* The program where it is: the service, the queue or where the main thread is
\* may change.
LEMMA ProgramFrame ==
  ASSUME ProgramInv, ServiceInv', UNCHANGED <<file, building, put_keys_by_address, requests>>,
         UNCHANGED <<futures, part, response, calls>>, running \subseteq running',
         main' \in Main, JobInv', SyncInv'
  PROVE  ProgramInv'
PROOF
<1>1. ClientTypeOK'
  BY DEF ProgramInv, ClientTypeOK
<1>2. FutureInv' /\ CallerInv'
  BY DEF ProgramInv, FutureInv, CallerInv, IdOf
<1>3. BuildInv'
  BY BuildFrame DEF ProgramInv
<1>4. PutKeysAreFound'
  BY DEF ProgramInv, PutKeysAreFound, IdOf
<1> QED
  BY <1>1, <1>2, <1>3, <1>4 DEF ProgramInv

\* Where the main thread is when a request gets its future.
Sending == main \in {"sending", "in CommitAtomicTransaction"}

\* No part that is in the step new or changed has failed.
NoNewFailures ==
  \A d \in DOMAIN part' : \A m \in 1 .. Len(part'[d]), c \in Cohort :
    part'[d][m][c] = "failed" =>
      d \in DOMAIN part /\ m \in 1 .. Len(part[d]) /\ part[d][m][c] = "failed"

\* The future of request n, and a job for it if it has to wait.
LEMMA NewFutureInv ==
  ASSUME ProgramInv, NEW n, n = NextRequest, n <= Len(requests),
         NEW id, id = IdOf(n), NEW value \in {Waiting, Error},
         futures' = Append(futures, value),
         queue' = IF value = Waiting THEN Append(queue, n) ELSE queue,
         main' = MainAfter(n), Sending,
         UNCHANGED <<file, building, put_keys_by_address, requests, running>>,
         ServiceInv', Grows, UNCHANGED <<response, calls>>,
         DOMAIN part' \subseteq DOMAIN part \cup {id}, NoNewFailures
  PROVE  ProgramInv'
PROOF
<1>2. /\ ServiceInv /\ ClientTypeOK /\ FutureInv /\ CallerInv /\ JobInv /\ SyncInv
      /\ BuildInv /\ PutKeysAreFound /\ CommittedInv /\ ServiceTypeOK /\ ServiceTypeOK'
  BY DEF ProgramInv, ServiceInv
<1>3. /\ main' = IF requests[n].async THEN "sending" ELSE "in CommitSync"
      /\ main \in {"sending", "in CommitAtomicTransaction"}
      /\ UNCHANGED <<file, building, put_keys_by_address, requests, running>>
  BY DEF MainAfter, Sending
<1>4. futures \in Seq(Response \cup {Waiting, Error}) /\ queue \in Seq(Nat)
  BY <1>2 DEF FutureInv, JobInv
<1>5. /\ n = Len(futures) + 1 /\ Len(futures) \in Nat /\ Len(requests) \in Nat
      /\ n \in 1 .. Len(requests) /\ n \in Nat
  <2>1. Len(futures) \in Nat
    BY ONLY <1>4
  <2>2. Len(requests) \in Nat
    BY <1>2 DEF ClientTypeOK
  <2>3. n = Len(futures) + 1 /\ n <= Len(requests)
    BY DEF NextRequest
  <2> QED
    BY ONLY <2>1, <2>2, <2>3
<1>6. /\ futures' = Append(futures, value)
      /\ queue' = IF value = Waiting THEN Append(queue, n) ELSE queue
  OBVIOUS
<1>10. /\ futures' \in Seq(Response \cup {Waiting, Error}) /\ Len(futures') = n
       /\ \A i \in 1 .. Len(futures) : futures'[i] = futures[i]
       /\ futures'[n] = value
  BY ONLY <1>4, <1>5, <1>6, value \in {Waiting, Error}
<1>11. value.status # "committed"
  BY DEF Waiting, Error
<1>12. ClientTypeOK'
  BY <1>2, <1>3 DEF ClientTypeOK, Main
<1>13. BuildInv'
  BY <1>2, <1>3, BuildFrame
<1>14. \A i : IdOf(i)' = IdOf(i)
  BY <1>3 DEF IdOf
<1>15. FutureInv'
  <2>1. ASSUME NEW i \in 1 .. Len(futures'), futures'[i].status = "committed"
        PROVE  IdOf(i) \in DOMAIN response /\ futures'[i] = response[IdOf(i)]
    <3>1. i \in 1 .. Len(futures)
      BY <1>5, <1>10, <1>11, <2>1
    <3> QED
      BY <1>2, <1>10, <2>1, <3>1 DEF FutureInv
  <2>2. ASSUME NEW d \in DOMAIN part'
        PROVE  \E i \in 1 .. Len(futures') : IdOf(i) = d
    <3>1. CASE d \in DOMAIN part
      <4>1. \E i \in 1 .. Len(futures) : IdOf(i) = d
        BY <1>2, <3>1 DEF FutureInv
      <4> QED
        BY ONLY <1>5, <1>10, <4>1
    <3>2. CASE d = id
      <4>1. n \in 1 .. Len(futures')
        BY ONLY <1>5, <1>10
      <4> QED
        BY <3>2, <4>1
    <3> QED
      BY <3>1, <3>2
  <2> QED
    BY <1>3, <1>5, <1>10, <1>14, <2>1, <2>2 DEF FutureInv
<1>16. JobInv'
  <2>1. Waiting # Error
    BY DEF Waiting, Error
  <2>2. \A i \in 1 .. Len(queue) : queue[i] \in 1 .. Len(futures)
    BY <1>2 DEF JobInv, ToSet
  <2>3. \A i, j \in 1 .. Len(queue) : queue[i] = queue[j] => i = j
    BY <1>2 DEF JobInv
  <2>4. CASE value = Error
    <3>1. queue' = queue
      BY <1>6, <2>1, <2>4
    <3>2. {i \in 1 .. Len(futures') : futures'[i] = Waiting} =
            {i \in 1 .. Len(futures) : futures[i] = Waiting}
      BY <1>5, <1>10, <2>1, <2>4
    <3> QED
      BY <1>2, <1>3, <3>1, <3>2 DEF JobInv
  <2>5. CASE value = Waiting
    <3>1. /\ queue' \in Seq(Nat) /\ Len(queue') = Len(queue) + 1 /\ Len(queue) \in Nat
          /\ \A i \in 1 .. Len(queue) : queue'[i] = queue[i]
          /\ queue'[Len(queue) + 1] = n
      BY <1>4, <1>5, <1>6, <2>5
    <3>2. ToSet(queue') = ToSet(queue) \cup {n}
      <4>1. \A x : x \in ToSet(queue) <=> \E i \in 1 .. Len(queue) : queue[i] = x
        BY ONLY <1>4 DEF ToSet
      <4>2. \A x : x \in ToSet(queue') <=> \E i \in 1 .. Len(queue') : queue'[i] = x
        BY ONLY <3>1 DEF ToSet
      <4>3. \A i : i \in 1 .. Len(queue') <=> i \in 1 .. Len(queue) \/ i = Len(queue) + 1
        BY ONLY <3>1
      <4> QED
        BY ONLY <3>1, <4>1, <4>2, <4>3
    <3>3. {i \in 1 .. Len(futures') : futures'[i] = Waiting} =
            {i \in 1 .. Len(futures) : futures[i] = Waiting} \cup {n}
      BY <1>5, <1>10, <2>5
    <3>4. n \notin running
      <4>1. running \subseteq 1 .. Len(futures)
        BY <1>2 DEF JobInv
      <4> QED
        BY ONLY <1>5, <4>1
    <3>5. \A i, j \in 1 .. Len(queue') : queue'[i] = queue'[j] => i = j
      <4> SUFFICES ASSUME NEW i \in 1 .. Len(queue'), NEW j \in 1 .. Len(queue'),
                          queue'[i] = queue'[j]
                   PROVE  i = j
        OBVIOUS
      <4>1. /\ i \in 1 .. Len(queue) \/ i = Len(queue) + 1
            /\ j \in 1 .. Len(queue) \/ j = Len(queue) + 1
        BY ONLY <3>1, i \in 1 .. Len(queue'), j \in 1 .. Len(queue')
      <4>2. \A m \in 1 .. Len(queue) : queue'[m] \in 1 .. Len(futures)
        BY ONLY <2>2, <3>1
      <4>3. n \notin 1 .. Len(futures)
        BY ONLY <1>5
      <4> QED
        BY ONLY <2>3, <3>1, <4>1, <4>2, <4>3, queue'[i] = queue'[j]
    <3>6. /\ running \cap ToSet(queue) = {}
          /\ running \cup ToSet(queue) = {i \in 1 .. Len(futures) : futures[i] = Waiting}
          /\ Cardinality(running) <= NumThreads
      BY <1>2 DEF JobInv
    <3>7. running' = running
      BY <1>3
    <3> QED
      BY ONLY <3>1, <3>2, <3>3, <3>4, <3>5, <3>6, <3>7 DEF JobInv
  <2> QED
    BY <2>4, <2>5
<1>17. SyncInv'
  <2>1. main' \notin {"building", "connecting", "crashed", "in CommitAtomicTransaction"}
    BY <1>3
  <2>2. ASSUME NEW i \in 1 .. Len(futures'), futures'[i] = Waiting, ~requests'[i].async
        PROVE  main' = "in CommitSync" /\ i = Len(futures')
    <3>1. CASE i \in 1 .. Len(futures)
      <4>1. futures[i] = Waiting /\ ~requests[i].async
        BY <1>3, <1>10, <2>2, <3>1
      <4>2. main = "in CommitSync"
        BY <1>2, <3>1, <4>1 DEF SyncInv
      <4> QED
        BY <1>3, <4>2
    <3>2. CASE i = n
      BY <1>3, <1>10, <2>2, <3>2
    <3>3. Len(futures') = n
      BY <1>10
    <3>4. i \in 1 .. Len(futures) \/ i = n
      BY ONLY <1>5, <3>3, i \in 1 .. Len(futures')
    <3> QED
      BY <3>1, <3>2, <3>4
  <2> QED
    BY <2>1, <2>2 DEF SyncInv
<1>18. ASSUME NEW i \in 1 .. Len(futures'), AllBefore(i)', IdOf(i) \in DOMAIN part',
              NEW m \in 1 .. Len(part'[IdOf(i)]), NEW c \in Cohort
       PROVE  part'[IdOf(i)][m][c] # "failed"
  <2>1. \A j \in 1 .. i - 1 : j \in 1 .. Len(futures) /\ futures'[j] = futures[j]
    BY ONLY <1>5, <1>10, i \in 1 .. Len(futures')
  <2>2. AllBefore(i)
    BY <1>3, <1>18, <2>1 DEF AllBefore
  <2>3. ASSUME IdOf(i) \in DOMAIN part, m \in 1 .. Len(part[IdOf(i)]),
               i \in 1 .. Len(futures)
        PROVE  part[IdOf(i)][m][c] # "failed"
    <3>1. DOMAIN futures = 1 .. Len(futures)
      BY <1>4
    <3>2. DOMAIN part[IdOf(i)] = 1 .. Len(part[IdOf(i)])
      BY <1>2, <2>3 DEF ServiceTypeOK
    <3> QED
      BY <1>2, <2>2, <2>3, <3>1, <3>2 DEF PutKeysAreFound, AllBefore
  <2>4. ASSUME IdOf(i) \in DOMAIN part, m \in 1 .. Len(part[IdOf(i)]), i = n
        PROVE  part[IdOf(i)][m][c] # "failed"
    <3>1. PICK j \in 1 .. Len(futures) : IdOf(j) = IdOf(i)
      BY <1>2, <2>4 DEF FutureInv
    <3>2. j \in 1 .. i - 1
      BY ONLY <1>5, <2>4, j \in 1 .. Len(futures)
    <3>3. futures[j].status = "committed"
      BY <2>2, <3>2 DEF AllBefore
    <3>4. IdOf(j) \in DOMAIN response /\ response[IdOf(j)].status = "committed"
      BY <1>2, <3>3 DEF FutureInv
    <3>5. IsWhole(IdOf(j))
      BY <1>2, <3>4 DEF CommittedInv
    <3> QED
      BY <2>4, <3>1, <3>5 DEF IsWhole
  <2>5. i \in 1 .. Len(futures) \/ i = n
    BY ONLY <1>5, <1>10, i \in 1 .. Len(futures')
  <2> QED
    BY <1>18, <2>3, <2>4, <2>5 DEF NoNewFailures
<1>19. CallerInv'
  BY <1>2, <1>3, <1>14 DEF CallerInv
<1>20. PutKeysAreFound'
  <2>1. DOMAIN futures' = 1 .. Len(futures')
    BY <1>10
  <2>2. \A d \in DOMAIN part' : DOMAIN part'[d] = 1 .. Len(part'[d])
    BY <1>2 DEF ServiceTypeOK
  <2> SUFFICES ASSUME NEW i \in DOMAIN futures',
                      UsesPutKeys(FileTransactions(file')[i]),
                      \A j \in 1 .. i - 1 : ~requests'[j].async /\ futures'[j].status = "committed",
                      IdOf(i)' \in DOMAIN part'
               PROVE  \A m \in DOMAIN part'[IdOf(i)'], c \in Cohort :
                        part'[IdOf(i)'][m][c] # "failed"
    BY DEF PutKeysAreFound
  <2>3. i \in 1 .. Len(futures')
    BY <2>1
  <2>4. AllBefore(i)'
    BY DEF AllBefore
  <2>5. IdOf(i)' = IdOf(i)
    BY <1>14
  <2>6. IdOf(i) \in DOMAIN part'
    BY <2>5
  <2> QED
    BY <1>18, <2>2, <2>3, <2>4, <2>5, <2>6
<1> QED
  BY <1>12, <1>13, <1>15, <1>16, <1>17, <1>19, <1>20 DEF ProgramInv

LEMMA NextRequestType ==
  ASSUME ProgramInv, NextRequest <= Len(requests)
  PROVE  NextRequest \in 1 .. Len(requests) /\ IdOf(NextRequest) \in Id
PROOF
<1>1. ClientTypeOK /\ Len(futures) \in Nat /\ Len(requests) \in Nat
  BY DEF ProgramInv, FutureInv, ClientTypeOK
<1>2. NextRequest \in 1 .. Len(requests)
  BY <1>1 DEF NextRequest
<1> QED
  BY <1>1, <1>2, IdOfType

\* StartVoting is not answered, and the main thread waits.
LEMMA CommitBlocksInv ==
  ASSUME ProgramInv, NEW n, NEW id \in Id, id = IdOf(n), n = NextRequest,
         n <= Len(requests), main = "sending", CommitBlocks(n),
         UNCHANGED <<file, building, put_keys_by_address, requests, running>>
  PROVE  ProgramInv'
PROOF
<1>1. /\ NothingIsSent(id) /\ main' = "in CommitAtomicTransaction"
      /\ UNCHANGED <<futures, queue>>
  BY DEF CommitBlocks
<1>2. ServiceInv'
  BY <1>1, NothingIsSentInv DEF ProgramInv
<1>3. UNCHANGED <<part, response, calls>>
  BY <1>1 DEF NothingIsSent
<1>4. JobInv'
  BY <1>1, JobFrame DEF ProgramInv
<1>5. SyncInv'
  <2>1. Len(futures) \in Nat /\ Len(requests) \in Nat
    BY DEF ProgramInv, FutureInv, ClientTypeOK
  <2>2. Len(futures) < Len(requests)
    BY <2>1 DEF NextRequest
  <2>3. \A i \in 1 .. Len(futures) : ~(futures[i] = Waiting /\ ~requests[i].async)
    BY DEF ProgramInv, SyncInv
  <2> QED
    BY <1>1, <2>2, <2>3 DEF SyncInv
<1>6. main' \in Main
  BY <1>1 DEF Main
<1> QED
  BY <1>1, <1>2, <1>3, <1>4, <1>5, <1>6, ProgramFrame

LEMMA SendRequestInv ==
  ASSUME ProgramInv, SendRequest
  PROVE  ProgramInv'
PROOF
<1>1. PICK n, id : n = NextRequest /\ id = IdOf(n)
  OBVIOUS
<1>2. /\ main = "sending" /\ n <= Len(requests)
      /\ UNCHANGED <<file, building, put_keys_by_address, requests, running>>
  BY <1>1 DEF SendRequest
<1>3. id \in Id
  BY <1>1, <1>2, NextRequestType
<1>4. CASE (CommitOk(n) \/ CommitFails(n)) /\ main' = MainAfter(n)
  <2>1. AlreadySent(id) \/ NothingIsSent(id) \/ SendToCohorts(id)
    BY <1>1, <1>4 DEF CommitOk, CommitFails
  <2>2. PICK value \in {Waiting, Error} :
          /\ futures' = Append(futures, value)
          /\ queue' = IF value = Waiting THEN Append(queue, n) ELSE queue
    <3>1. Waiting # Error
      BY DEF Waiting, Error
    <3> QED
      BY <1>4, <3>1 DEF CommitOk, CommitFails
  <2>3. /\ ServiceInv' /\ Grows /\ UNCHANGED <<response, calls>>
        /\ DOMAIN part' \subseteq DOMAIN part \cup {id}
        /\ NoNewFailures
    BY <1>3, <2>1, SendStep DEF ProgramInv, NoNewFailures
  <2>4. Sending
    BY <1>2 DEF Sending
  <2> QED
    BY ONLY ProgramInv, <1>1, <1>2, <1>4, <2>2, <2>3, <2>4, NewFutureInv
<1>5. CASE CommitBlocks(n)
  BY <1>1, <1>2, <1>3, <1>5, CommitBlocksInv
<1> QED
  BY <1>1, <1>4, <1>5 DEF SendRequest

LEMMA CommitUnblocksInv ==
  ASSUME ProgramInv, CommitUnblocks
  PROVE  ProgramInv'
PROOF
<1>1. PICK n, id : n = NextRequest /\ id = IdOf(n)
  OBVIOUS
<1>2. /\ main = "in CommitAtomicTransaction" /\ futures' = Append(futures, Error)
      /\ main' = MainAfter(n) /\ queue' = queue
      /\ UNCHANGED <<file, building, put_keys_by_address, requests, running>>
      /\ UNCHANGED serviceVars
  BY <1>1 DEF CommitUnblocks
<1>3. n <= Len(requests)
  <2>1. ClientTypeOK /\ FutureInv /\ SyncInv
    BY DEF ProgramInv
  <2>2. Len(futures) < Len(requests)
    BY <1>2, <2>1 DEF SyncInv
  <2>3. Len(futures) \in Nat /\ Len(requests) \in Nat
    <3>1. \E S : futures \in Seq(S)
      BY <2>1 DEF FutureInv
    <3>2. \E S : requests \in Seq(S)
      BY <2>1 DEF ClientTypeOK
    <3> QED
      BY ONLY <3>1, <3>2
  <2>4. n = Len(futures) + 1
    BY <1>1 DEF NextRequest
  <2> QED
    BY ONLY <2>2, <2>3, <2>4
<1>4. ServiceInv' /\ Grows /\ part' = part /\ UNCHANGED <<response, calls>>
  BY <1>2, ServiceInvFrame DEF ProgramInv, serviceVars
<1>5. Waiting # Error
  BY DEF Waiting, Error
<1>6. queue' = IF Error = Waiting THEN Append(queue, n) ELSE queue
  BY <1>2, <1>5
<1>7. NoNewFailures /\ DOMAIN part' \subseteq DOMAIN part \cup {id}
  BY <1>4 DEF NoNewFailures
<1>8. Sending
  BY <1>2 DEF Sending
<1> QED
  BY ONLY ProgramInv, <1>1, <1>2, <1>3, <1>4, <1>6, <1>7, <1>8, NewFutureInv

-----------------------------------------------------------------------------
(* The other steps *)

LEMMA WaitIdType == WaitId \in Id
PROOF
<1>1. << >> \in Seq(Operation)
  OBVIOUS
<1>2. <<"id", << >> >> \in {"operations", "id"} \X Seq(Operation)
  BY ONLY <1>1
<1> QED
  BY <1>2 DEF WaitId, Id

LEMMA WaitForCoordinatorInv ==
  ASSUME ProgramInv, WaitForCoordinator
  PROVE  ProgramInv'
PROOF
<1>1. /\ main = "connecting" /\ main' = "sending" /\ NothingIsSent(WaitId)
      /\ UNCHANGED <<file, building, put_keys_by_address, requests, futures, queue, running>>
  BY DEF WaitForCoordinator
<1>2. ServiceInv'
  <2>1. WaitId \in Id
    BY WaitIdType
  <2> QED
    BY <1>1, <2>1, NothingIsSentInv DEF ProgramInv
<1>3. UNCHANGED <<part, response, calls>>
  BY <1>1 DEF NothingIsSent
<1>4. JobInv'
  BY <1>1, JobFrame DEF ProgramInv
<1>5. SyncInv'
  <2>1. futures = << >>
    BY <1>1 DEF ProgramInv, SyncInv
  <2> QED
    BY <1>1, <2>1 DEF SyncInv
<1>6. main' \in Main
  BY <1>1 DEF Main
<1> QED
  BY <1>1, <1>2, <1>3, <1>4, <1>5, <1>6, ProgramFrame

LEMMA CommitSyncReturnsInv ==
  ASSUME ProgramInv, CommitSyncReturns
  PROVE  ProgramInv'
PROOF
<1>1. /\ main = "in CommitSync" /\ main' = "sending"
      /\ futures[Len(futures)] # Waiting
      /\ UNCHANGED <<file, building, put_keys_by_address, requests, futures, queue, running>>
      /\ UNCHANGED serviceVars
  BY DEF CommitSyncReturns
<1>2. ServiceInv'
  BY <1>1, ServiceInvFrame DEF ProgramInv
<1>3. UNCHANGED <<part, response, calls>>
  BY <1>1 DEF serviceVars
<1>4. JobInv'
  BY <1>1, JobFrame DEF ProgramInv
<1>5. SyncInv'
  BY <1>1 DEF ProgramInv, SyncInv
<1>6. main' \in Main
  BY <1>1 DEF Main
<1> QED
  BY <1>1, <1>2, <1>3, <1>4, <1>5, <1>6, ProgramFrame

LEMMA EndInv ==
  ASSUME ProgramInv, End
  PROVE  ProgramInv'
PROOF
<1>1. /\ main' = "ended" /\ \A i \in DOMAIN futures : futures[i] # Waiting
      /\ UNCHANGED <<file, building, put_keys_by_address, requests, futures, queue, running>>
      /\ UNCHANGED serviceVars
  BY DEF End
<1>2. ServiceInv'
  BY <1>1, ServiceInvFrame DEF ProgramInv
<1>3. UNCHANGED <<part, response, calls>>
  BY <1>1 DEF serviceVars
<1>4. JobInv'
  BY <1>1, JobFrame DEF ProgramInv
<1>5. SyncInv'
  <2>1. DOMAIN futures = 1 .. Len(futures)
    BY DEF ProgramInv, FutureInv
  <2> QED
    BY <1>1, <2>1 DEF SyncInv
<1>6. main' \in Main
  BY <1>1 DEF Main
<1> QED
  BY <1>1, <1>2, <1>3, <1>4, <1>5, <1>6, ProgramFrame

\* The first job of the queue gets a thread.
LEMMA StartJobInv ==
  ASSUME ProgramInv, StartJob
  PROVE  ProgramInv'
PROOF
<1>1. /\ queue # << >> /\ Cardinality(running) < NumThreads
      /\ running' = running \cup {Head(queue)} /\ queue' = Tail(queue)
      /\ UNCHANGED <<file, building, put_keys_by_address, requests, main, futures>>
      /\ UNCHANGED serviceVars
  BY DEF StartJob
<1>2. JobInv /\ FutureInv /\ SyncInv /\ ClientTypeOK
  BY DEF ProgramInv
<1>3. /\ queue \in Seq(Nat)
      /\ \A i, j \in 1 .. Len(queue) : queue[i] = queue[j] => i = j
      /\ running \cap ToSet(queue) = {}
      /\ running \cup ToSet(queue) = {i \in 1 .. Len(futures) : futures[i] = Waiting}
  BY <1>2 DEF JobInv
<1>4. PICK h : h = Head(queue)
  OBVIOUS
<1>5. /\ queue' \in Seq(Nat) /\ Len(queue') = Len(queue) - 1 /\ Len(queue) \in Nat \ {0}
      /\ h = queue[1]
      /\ \A i \in 1 .. Len(queue) - 1 : queue'[i] = queue[i + 1]
  BY ONLY <1>1, <1>3, <1>4
<1>6. ToSet(queue) = ToSet(queue') \cup {h} /\ h \notin ToSet(queue')
  <2>1. \A x : x \in ToSet(queue) <=> \E i \in 1 .. Len(queue) : queue[i] = x
    BY ONLY <1>3 DEF ToSet
  <2>2. \A x : x \in ToSet(queue') <=> \E i \in 1 .. Len(queue') : queue'[i] = x
    BY ONLY <1>5 DEF ToSet
  <2>3. ASSUME NEW i \in 1 .. Len(queue)
        PROVE  queue[i] = h \/ \E j \in 1 .. Len(queue') : queue'[j] = queue[i]
    <3>1. CASE i = 1
      BY <1>5, <3>1
    <3>2. CASE i # 1
      <4>1. PICK j \in 1 .. Len(queue) - 1 : j + 1 = i
        BY ONLY <1>5, <3>2, i \in 1 .. Len(queue)
      <4>2. queue'[j] = queue[i]
        BY <1>5, <4>1
      <4> QED
        BY ONLY <1>5, <4>2, j \in 1 .. Len(queue) - 1
    <3> QED
      BY <3>1, <3>2
  <2>4. ASSUME NEW j \in 1 .. Len(queue')
        PROVE  queue'[j] # h /\ \E i \in 1 .. Len(queue) : queue[i] = queue'[j]
    <3>1. j \in 1 .. Len(queue) - 1 /\ j + 1 \in 1 .. Len(queue) /\ j + 1 # 1
          /\ 1 \in 1 .. Len(queue)
      BY ONLY <1>5, j \in 1 .. Len(queue')
    <3>2. queue'[j] = queue[j + 1]
      BY <1>5, <3>1
    <3>3. queue[j + 1] # queue[1]
      BY <1>3, <3>1
    <3> QED
      BY <1>5, <3>1, <3>2, <3>3
  <2>5. \E i \in 1 .. Len(queue) : queue[i] = h
    BY ONLY <1>5
  <2>6. h \in ToSet(queue) /\ h \notin ToSet(queue')
    BY ONLY <2>1, <2>2, <2>4, <2>5
  <2>7. \A x : x \in ToSet(queue) => x = h \/ x \in ToSet(queue')
    BY ONLY <2>1, <2>2, <2>3
  <2>8. \A x : x \in ToSet(queue') => x \in ToSet(queue)
    BY ONLY <2>1, <2>2, <2>4
  <2> QED
    BY ONLY <2>6, <2>7, <2>8
<1>7. \A i, j \in 1 .. Len(queue') : queue'[i] = queue'[j] => i = j
  <2> SUFFICES ASSUME NEW i \in 1 .. Len(queue'), NEW j \in 1 .. Len(queue'),
                      queue'[i] = queue'[j]
               PROVE  i = j
    OBVIOUS
  <2>1. /\ i \in 1 .. Len(queue) - 1 /\ i + 1 \in 1 .. Len(queue)
        /\ j \in 1 .. Len(queue) - 1 /\ j + 1 \in 1 .. Len(queue)
    BY ONLY <1>5, i \in 1 .. Len(queue'), j \in 1 .. Len(queue')
  <2>2. queue[i + 1] = queue[j + 1]
    BY <1>5, <2>1
  <2>3. i + 1 = j + 1
    BY <1>3, <2>1, <2>2
  <2> QED
    BY ONLY <2>1, <2>3
<1>8. Cardinality(running') <= NumThreads
  <2>1. running \subseteq 1 .. Len(futures)
    BY <1>3
  <2>2. IsFiniteSet(1 .. Len(futures))
    <3>1. Len(futures) \in Nat
      BY <1>2 DEF FutureInv
    <3> QED
      BY <3>1, FS_Interval
  <2>3. IsFiniteSet(running)
    BY <2>1, <2>2, FS_Subset
  <2>4. h \notin running
    BY <1>3, <1>6
  <2>5. Cardinality(running \cup {h}) = Cardinality(running) + 1
    BY <2>3, <2>4, FS_AddElement
  <2>6. Cardinality(running) \in Nat
    BY <2>3, FS_CardinalityType
  <2> QED
    BY <1>1, <1>4, <2>5, <2>6, NumThreadsAssumption
<1>9. JobInv'
  <2>1. /\ running' \cap ToSet(queue') = {}
        /\ running' \cup ToSet(queue') = {i \in 1 .. Len(futures) : futures[i] = Waiting}
    <3>1. running' = running \cup {h}
      BY <1>1, <1>4
    <3> QED
      BY ONLY <1>3, <1>6, <3>1
  <2>2. futures' = futures
    BY <1>1
  <2> QED
    BY ONLY <1>5, <1>7, <1>8, <2>1, <2>2 DEF JobInv
<1>10. ServiceInv'
  BY <1>1, ServiceInvFrame DEF ProgramInv
<1>11. SyncInv'
  BY <1>1, <1>2 DEF SyncInv
<1>12. UNCHANGED <<part, response, calls>> /\ main' \in Main
  BY <1>1, <1>2 DEF serviceVars, ClientTypeOK
<1> QED
  BY <1>1, <1>9, <1>10, <1>11, <1>12, ProgramFrame

\* What the coordinator answers to job i.
LEMMA AnswerOfPoll ==
  ASSUME ProgramInv, NEW i \in running, NEW id \in Id, id = IdOf(i),
         TryGetTransactionResults(i)
  PROVE  /\ ServiceInv' /\ Grows /\ UNCHANGED part /\ id \in DOMAIN response'
         /\ DOMAIN calls' = DOMAIN calls \ {i}
         /\ \A j \in DOMAIN calls' : calls'[j] = calls[j]
PROOF
<1>1. ServiceInv /\ CallerInv
  BY DEF ProgramInv
<1>2. CASE PollAborted(i, id)
  <2>1. i \notin DOMAIN calls /\ UNCHANGED <<part, calls>>
    BY <1>2 DEF PollAborted, CanAsk
  <2> QED
    BY <1>1, <1>2, <2>1, PollAbortedInv
<1>3. CASE AddOnlyAnswer(i)
  <2>1. i \in DOMAIN calls /\ calls' = Without(calls, i) /\ UNCHANGED part
    BY <1>3 DEF AddOnlyAnswer
  <2>2. calls[i].id = id
    BY <1>1, <2>1 DEF CallerInv
  <2>3. ServiceInv' /\ Grows /\ calls[i].id \in DOMAIN response'
    BY <1>1, <1>3, AddOnlyAnswerInv
  <2> QED
    BY <2>1, <2>2, <2>3 DEF Without
<1>4. CASE FinishCollecting(i)
  <2>1. i \in DOMAIN calls /\ calls' = Without(calls, i) /\ UNCHANGED part
    BY <1>4 DEF FinishCollecting, Collects
  <2>2. calls[i].id = id
    BY <1>1, <2>1 DEF CallerInv
  <2>3. ServiceInv' /\ Grows /\ calls[i].id \in DOMAIN response'
    BY <1>1, <1>4, FinishCollectingInv
  <2> QED
    BY <2>1, <2>2, <2>3 DEF Without
<1>5. CASE i \notin DOMAIN calls /\ Complete(id) /\ UNCHANGED serviceVars
  <2>1. UNCHANGED <<response, calls, part>>
    BY <1>5 DEF serviceVars
  <2>2. id \in DOMAIN response
    BY <1>5 DEF Complete, Entry, NoResponse
  <2>3. ServiceInv' /\ Grows
    BY <1>1, <1>5, ServiceInvFrame
  <2> QED
    BY <1>5, <2>1, <2>2, <2>3
<1> QED
  BY <1>2, <1>3, <1>4, <1>5 DEF TryGetTransactionResults, Complete

\* The future of a job gets its value.
LEMMA TryGetTransactionResultsInv ==
  ASSUME ProgramInv, NEW i \in running, TryGetTransactionResults(i)
  PROVE  ProgramInv'
PROOF
<1>1. /\ ServiceInv /\ ClientTypeOK /\ FutureInv /\ CallerInv /\ JobInv /\ SyncInv
      /\ BuildInv /\ PutKeysAreFound /\ CommittedInv
  BY DEF ProgramInv, ServiceInv
<1>2. /\ IF IsFinal(response'[IdOf(i)].status)
         THEN /\ futures' = [futures EXCEPT ![i] = response'[IdOf(i)]]
              /\ running' = running \ {i}
         ELSE UNCHANGED <<futures, running>>
      /\ UNCHANGED <<file, building, put_keys_by_address, requests, main, queue>>
  BY DEF TryGetTransactionResults
<1>3. i \in 1 .. Len(futures) /\ futures[i] = Waiting
  BY <1>1 DEF JobInv
<1>4. /\ futures \in Seq(Response \cup {Waiting, Error}) /\ Len(futures) \in Nat
      /\ DOMAIN futures = 1 .. Len(futures)
  BY <1>1 DEF FutureInv
<1>5. i \in 1 .. Len(requests)
  <2>1. Len(futures) <= Len(requests)
    BY <1>1 DEF FutureInv
  <2>2. Len(requests) \in Nat
    BY <1>1 DEF ClientTypeOK
  <2> QED
    BY ONLY <1>3, <1>4, <2>1, <2>2
<1>6. PICK id \in Id : id = IdOf(i)
  BY <1>1, <1>5, IdOfType
<1>7. /\ ServiceInv' /\ Grows /\ UNCHANGED part /\ id \in DOMAIN response'
      /\ DOMAIN calls' = DOMAIN calls \ {i}
      /\ \A j \in DOMAIN calls' : calls'[j] = calls[j]
  BY <1>6, AnswerOfPoll
<1>8. PICK value : value = response'[id]
  OBVIOUS
<1>9. value \in Response
  BY <1>7, <1>8 DEF ServiceInv, ServiceTypeOK
<1>10. \/ /\ futures' = [futures EXCEPT ![i] = value] /\ running' = running \ {i}
       \/ UNCHANGED <<futures, running>>
  BY <1>2, <1>6, <1>8
<1>11. /\ futures' \in Seq(Response \cup {Waiting, Error}) /\ Len(futures') = Len(futures)
       /\ \A j \in 1 .. Len(futures) : j # i => futures'[j] = futures[j]
       /\ \/ futures'[i] = value /\ running' = running \ {i}
          \/ futures'[i] = futures[i] /\ running' = running
  <2>1. CASE futures' = [futures EXCEPT ![i] = value] /\ running' = running \ {i}
    BY ONLY <1>3, <1>4, <1>9, <2>1
  <2>2. CASE UNCHANGED <<futures, running>>
    BY ONLY <1>4, <2>2
  <2> QED
    BY <1>10, <2>1, <2>2
<1>12. value # Waiting
  BY <1>9 DEF Response, Waiting
<1>13. \A j : IdOf(j)' = IdOf(j)
  BY <1>2 DEF IdOf
<1>14. ClientTypeOK'
  BY <1>1, <1>2 DEF ClientTypeOK
<1>15. BuildInv'
  BY <1>1, <1>2, BuildFrame
<1>16. FutureInv'
  <2>1. ASSUME NEW j \in 1 .. Len(futures'), futures'[j].status = "committed"
        PROVE  IdOf(j) \in DOMAIN response' /\ futures'[j] = response'[IdOf(j)]
    <3>1. CASE futures'[j] = futures[j]
      <4>1. IdOf(j) \in DOMAIN response /\ futures[j] = response[IdOf(j)]
        BY <1>1, <1>11, <2>1, <3>1 DEF FutureInv
      <4>2. response[IdOf(j)].complete
        BY <1>1, <2>1, <3>1, <4>1 DEF CommittedInv, IsWhole
      <4> QED
        BY <1>7, <3>1, <4>1, <4>2 DEF Grows
    <3>2. CASE futures'[j] # futures[j]
      <4>1. j = i /\ futures'[j] = value
        BY <1>11, <3>2
      <4> QED
        BY <1>6, <1>7, <1>8, <4>1
    <3> QED
      BY <3>1, <3>2
  <2>2. \A d \in DOMAIN part : \E j \in 1 .. Len(futures) : IdOf(j) = d
    BY <1>1 DEF FutureInv
  <2>3. Len(futures) <= Len(requests)
    BY <1>1 DEF FutureInv
  <2> QED
    BY <1>2, <1>7, <1>11, <1>13, <2>1, <2>2, <2>3 DEF FutureInv
<1>17. JobInv'
  <2>1. /\ queue \in Seq(Nat)
        /\ \A j, k \in 1 .. Len(queue) : queue[j] = queue[k] => j = k
        /\ running \cap ToSet(queue) = {}
        /\ running \cup ToSet(queue) = {j \in 1 .. Len(futures) : futures[j] = Waiting}
        /\ Cardinality(running) <= NumThreads
    BY <1>1 DEF JobInv
  <2>2. CASE futures'[i] = value /\ running' = running \ {i}
    <3>1. {j \in 1 .. Len(futures') : futures'[j] = Waiting} =
            {j \in 1 .. Len(futures) : futures[j] = Waiting} \ {i}
      BY ONLY <1>3, <1>11, <1>12, <2>2
    <3>2. i \notin ToSet(queue)
      BY <2>1
    <3>3. Cardinality(running') <= NumThreads
      <4>1. running \subseteq 1 .. Len(futures)
        BY <2>1
      <4>2. IsFiniteSet(1 .. Len(futures))
        BY <1>4, FS_Interval
      <4>3. IsFiniteSet(running)
        BY <4>1, <4>2, FS_Subset
      <4>4. Cardinality(running \ {i}) = Cardinality(running) - 1
        BY <4>3, FS_RemoveElement
      <4>5. Cardinality(running) \in Nat
        BY <4>3, FS_CardinalityType
      <4> QED
        BY <2>1, <2>2, <4>4, <4>5, NumThreadsAssumption
    <3>4. queue' = queue
      BY <1>2
    <3>5. /\ running' \cap ToSet(queue) = {}
          /\ running' \cup ToSet(queue) = {j \in 1 .. Len(futures') : futures'[j] = Waiting}
      BY ONLY <2>1, <2>2, <3>1, <3>2
    <3> QED
      BY ONLY <2>1, <3>3, <3>4, <3>5 DEF JobInv
  <2>3. CASE futures'[i] = futures[i] /\ running' = running
    <3>1. {j \in 1 .. Len(futures') : futures'[j] = Waiting} =
            {j \in 1 .. Len(futures) : futures[j] = Waiting}
      BY ONLY <1>3, <1>11, <2>3
    <3>2. queue' = queue
      BY <1>2
    <3> QED
      BY ONLY <2>1, <2>3, <3>1, <3>2 DEF JobInv
  <2> QED
    BY <1>11, <2>2, <2>3
<1>18. ASSUME NEW j \in 1 .. Len(futures), futures'[j] = Waiting
       PROVE  futures[j] = Waiting
  BY <1>3, <1>11, <1>18
<1>19. SyncInv'
  <2>1. main \notin {"building", "connecting", "crashed"}
    <3>1. futures # << >>
      BY <1>3
    <3> QED
      BY <1>1, <3>1 DEF SyncInv
  <2>2. ASSUME NEW j \in 1 .. Len(futures), futures'[j] = Waiting, ~requests[j].async
        PROVE  main = "in CommitSync" /\ j = Len(futures)
    BY <1>1, <1>18, <2>2 DEF SyncInv
  <2>3. main = "in CommitAtomicTransaction" => Len(futures) < Len(requests)
    BY <1>1 DEF SyncInv
  <2> QED
    BY <1>2, <1>11, <2>1, <2>2, <2>3 DEF SyncInv
<1>20. PutKeysAreFound'
  <2> SUFFICES ASSUME NEW n \in 1 .. Len(futures), AllBefore(n)', IdOf(n) \in DOMAIN part
               PROVE  \A m \in DOMAIN part[IdOf(n)], c \in Cohort :
                        part[IdOf(n)][m][c] # "failed"
    <3>1. DOMAIN futures' = 1 .. Len(futures)
      BY <1>11
    <3> QED
      BY <1>7, <1>13, <3>1 DEF PutKeysAreFound, AllBefore
  <2>1. \A j \in 1 .. n - 1 : j \in 1 .. Len(futures)
    BY <1>4
  <2>2. ASSUME NEW j \in 1 .. n - 1
        PROVE  ~requests[j].async /\ futures[j].status = "committed"
    <3>1. ~requests[j].async /\ futures'[j].status = "committed"
      BY <1>2 DEF AllBefore
    <3>2. CASE j # i
      BY <1>11, <2>1, <3>1, <3>2
    <3>3. CASE j = i
      <4>1. j = Len(futures)
        BY <1>1, <1>3, <3>1, <3>3 DEF SyncInv
      <4> QED
        BY ONLY <1>4, <4>1, n \in 1 .. Len(futures), j \in 1 .. n - 1
    <3> QED
      BY <3>2, <3>3
  <2>3. UsesPutKeys(FileTransactions(file)[n])
    BY <1>2 DEF AllBefore
  <2> QED
    BY <1>1, <1>4, <2>2, <2>3 DEF PutKeysAreFound
<1>21. CallerInv'
  <2>1. \A j \in DOMAIN calls' : j \in running /\ j # i /\ calls'[j].id = IdOf(j)
    BY <1>1, <1>7 DEF CallerInv
  <2> QED
    BY <1>11, <1>13, <2>1 DEF CallerInv
<1> QED
  BY <1>7, <1>14, <1>15, <1>16, <1>17, <1>19, <1>20, <1>21 DEF ProgramInv

\* Steps that leave the client where it is.
LEMMA ServiceFrame ==
  ASSUME ProgramInv, ServiceInv', Grows, UNCHANGED clientVars,
         DOMAIN part' = DOMAIN part, PutKeysAreFound',
         \A j \in DOMAIN calls' :
           \/ j \in DOMAIN calls /\ calls'[j].id = calls[j].id
           \/ j \in running /\ calls'[j].id = IdOf(j)
  PROVE  ProgramInv'
PROOF
<1>1. UNCHANGED <<file, building, put_keys_by_address, requests, main, futures, queue,
                  running>>
  BY DEF clientVars
<1>2. /\ ClientTypeOK /\ FutureInv /\ CallerInv /\ JobInv /\ SyncInv /\ BuildInv
      /\ CommittedInv
  BY DEF ProgramInv, ServiceInv
<1>3. \A i : IdOf(i)' = IdOf(i)
  BY <1>1 DEF IdOf
<1>4. ClientTypeOK'
  BY <1>1, <1>2 DEF ClientTypeOK
<1>5. BuildInv'
  BY <1>1, <1>2, BuildFrame
<1>6. JobInv'
  BY <1>1, <1>2, JobFrame
<1>7. SyncInv'
  BY <1>1, <1>2 DEF SyncInv
<1>8. CallerInv'
  BY <1>1, <1>2, <1>3 DEF CallerInv
<1>9. FutureInv'
  <2>1. ASSUME NEW i \in 1 .. Len(futures), futures[i].status = "committed"
        PROVE  IdOf(i) \in DOMAIN response' /\ futures[i] = response'[IdOf(i)]
    <3>1. IdOf(i) \in DOMAIN response /\ futures[i] = response[IdOf(i)]
      BY <1>2, <2>1 DEF FutureInv
    <3>2. response[IdOf(i)].complete
      BY <1>2, <2>1, <3>1 DEF CommittedInv, IsWhole
    <3> QED
      BY <3>1, <3>2 DEF Grows
  <2> QED
    BY <1>1, <1>2, <1>3, <2>1 DEF FutureInv
<1> QED
  BY <1>4, <1>5, <1>6, <1>7, <1>8, <1>9 DEF ProgramInv

\* What a step of caller i, who asks for id, keeps.
CallMoves(i, id) ==
  /\ ServiceInv' /\ Grows /\ UNCHANGED part
  /\ \A j \in DOMAIN calls' : \/ j \in DOMAIN calls /\ calls'[j].id = calls[j].id
                              \/ j = i /\ calls'[j].id = id

\* The steps of a call of a job.
LEMMA CallStepInv ==
  ASSUME ProgramInv, NEW i \in running,
         \/ AloneWith(IdOf(i)) /\ BeginToAsk(i)
         \/ CollectStep(i) \/ ReadHangs(i) \/ ReadErrs(i)
  PROVE  ProgramInv'
PROOF
<1>1. ServiceInv /\ ClientTypeOK /\ FutureInv /\ JobInv /\ PutKeysAreFound
  BY DEF ProgramInv
<1>2. i \in 1 .. Len(requests)
  <2>1. i \in 1 .. Len(futures)
    BY <1>1 DEF JobInv
  <2>2. Len(futures) <= Len(requests) /\ Len(futures) \in Nat
    BY <1>1 DEF FutureInv
  <2>3. Len(requests) \in Nat
    BY <1>1 DEF ClientTypeOK
  <2> QED
    BY ONLY <2>1, <2>2, <2>3
<1>3. PICK id \in Id : id = IdOf(i)
  BY <1>1, <1>2, IdOfType
<1>4. UNCHANGED clientVars
  BY DEF BeginToAsk, CollectStep, ReadHangs, ReadErrs
<1>5. CallMoves(i, id)
  <2>1. CASE AloneWith(id) /\ BeginToAsk(i)
    <3>1. AskOnlyCohort(i, id) \/ BeginCollecting(i, id)
      BY <1>3, <2>1 DEF BeginToAsk
    <3>2. ServiceInv' /\ Grows
      BY <1>1, <2>1, <3>1, BeginToAskInv
    <3>3. UNCHANGED part
      BY <3>1 DEF AskOnlyCohort, BeginCollecting
    <3>4. ASSUME NEW stage, NEW left, NEW answered,
                 calls' = WithEntry(calls, i, NewCall(id, stage, left, answered))
          PROVE  CallMoves(i, id)
      BY <3>2, <3>3, <3>4 DEF WithEntry, NewCall, CallMoves
    <3>5. CASE AskOnlyCohort(i, id)
      BY <3>4, <3>5 DEF AskOnlyCohort
    <3>6. CASE BeginCollecting(i, id)
      BY <3>4, <3>6 DEF BeginCollecting
    <3> QED
      BY <3>1, <3>5, <3>6
  <2>2. ASSUME NEW c \in Cohort, SkipCohort(i, c)
        PROVE  CallMoves(i, id)
    <3>1. ServiceInv' /\ Grows
      BY <1>1, <2>2, SkipCohortInv
    <3> QED
      BY <2>2, <3>1 DEF SkipCohort, CallMoves
  <2>3. ASSUME NEW c \in Cohort, AddAnswer(i, c)
        PROVE  CallMoves(i, id)
    <3>1. ServiceInv' /\ Grows
      BY <1>1, <2>3, AddAnswerInv
    <3> QED
      BY <2>3, <3>1 DEF AddAnswer, CallMoves
  <2>4. ASSUME NEW c \in Cohort, NEW answered, AskCohort(i, c, answered)
        PROVE  CallMoves(i, id)
    <3>1. ServiceInv' /\ Grows
      BY <1>1, <2>4, AskCohortInv
    <3> QED
      BY <2>4, <3>1 DEF AskCohort, CallMoves
  <2>5. CASE ReadHangs(i)
    <3>1. ReadUnanswered(i, id)
      BY <1>3, <2>5 DEF ReadHangs
    <3>2. ServiceInv' /\ Grows
      BY <1>1, <3>1, ReadUnansweredInv
    <3> QED
      BY <3>1, <3>2 DEF ReadUnanswered, WithEntry, NewCall, CallMoves
  <2>6. CASE ReadErrs(i)
    <3>1. ReadFails(i)
      BY <2>6 DEF ReadErrs
    <3>2. ServiceInv' /\ Grows
      BY <1>1, <3>1, ReadFailsInv
    <3> QED
      BY <3>1, <3>2 DEF ReadFails, Without, CallMoves
  <2>7. CASE CollectStep(i)
    BY <2>2, <2>3, <2>4, <2>7 DEF CollectStep
  <2> QED
    BY <1>3, <2>1, <2>5, <2>6, <2>7
<1>6. PutKeysAreFound'
  <2>1. UNCHANGED <<file, requests, futures, part>>
    BY <1>4, <1>5 DEF clientVars, CallMoves
  <2> QED
    BY <1>1, <2>1 DEF PutKeysAreFound, IdOf
<1>7. \A j \in DOMAIN calls' : \/ j \in DOMAIN calls /\ calls'[j].id = calls[j].id
                               \/ j \in running /\ calls'[j].id = IdOf(j)
  BY ONLY <1>3, <1>5, i \in running DEF CallMoves
<1>8. ServiceInv' /\ Grows /\ DOMAIN part' = DOMAIN part
  BY <1>5 DEF CallMoves
<1> QED
  BY ONLY ProgramInv, <1>4, <1>6, <1>7, <1>8, ServiceFrame

\* The parts of the transactions, which may fail when they are executed.
LEMMA ServiceStepInv ==
  ASSUME ProgramInv, ServiceStep
  PROVE  ProgramInv'
PROOF
<1>1. /\ ServiceInv /\ ClientTypeOK /\ FutureInv /\ PutKeysAreFound /\ ServiceTypeOK
      /\ ServiceTypeOK'
  <2>1. ServiceInv'
    <3>1. CASE Decides
      BY <3>1, DecideInv DEF Decides, ProgramInv
    <3>2. CASE ~Decides
      <4>1. PICK id \in DOMAIN part : \E n \in DOMAIN part[id], c \in Cohort :
              PartSteps(id, n, c)
        BY <3>2 DEF ServiceStep, Executes, Commits, PartSteps
      <4> QED
        BY <4>1, PartStepsInv DEF ProgramInv
    <3> QED
      BY <3>1, <3>2
  <2> QED
    BY <2>1 DEF ProgramInv, ServiceInv
<1>2. /\ ServiceInv' /\ Grows /\ UNCHANGED <<response, calls>> /\ DOMAIN part' = DOMAIN part
      /\ \A d \in DOMAIN part : Len(part'[d]) = Len(part[d])
      /\ \A d \in DOMAIN part : \A m \in 1 .. Len(part[d]), c \in Cohort :
           part'[d][m][c] = "failed" =>
             part[d][m][c] = "failed" \/ ~FindsItsKeys(OpsOf(d), c)
  <2>1. CASE Decides
    <3>1. ServiceInv' /\ Grows /\ UNCHANGED <<response, calls, part, keys>>
      BY <1>1, <2>1, DecideInv DEF Decides
    <3> QED
      BY <3>1
  <2>2. CASE ~Decides
    <3>1. PICK id \in DOMAIN part : \E n \in DOMAIN part[id], c \in Cohort :
            PartSteps(id, n, c)
      BY <2>2 DEF ServiceStep, Executes, Commits, PartSteps
    <3> QED
      BY <1>1, <3>1, PartStepsInv
  <2> QED
    BY <2>1, <2>2
<1>3. UNCHANGED clientVars
  BY DEF ServiceStep
<1>4. UNCHANGED <<file, requests, futures>>
  BY <1>3 DEF clientVars
<1>5. ASSUME NEW i \in 1 .. Len(futures), AllBefore(i), IdOf(i) \in DOMAIN part,
             NEW m \in 1 .. Len(part[IdOf(i)]), NEW c \in Cohort
      PROVE  part'[IdOf(i)][m][c] # "failed"
  <2>1. i \in 1 .. Len(requests) /\ i - 1 <= Len(futures) /\ DOMAIN futures = 1 .. Len(futures)
    <3>1. Len(futures) \in Nat /\ DOMAIN futures = 1 .. Len(futures)
      BY <1>1 DEF FutureInv
    <3>2. Len(futures) <= Len(requests)
      BY <1>1 DEF FutureInv
    <3>3. Len(requests) \in Nat
      BY <1>1 DEF ClientTypeOK
    <3> QED
      BY ONLY <3>1, <3>2, <3>3, i \in 1 .. Len(futures)
  <2>2. FindsItsKeys(requests[i].ops, c)
    BY <1>5, <2>1, FindsPutKeys
  <2>3. OpsOf(IdOf(i)) = requests[i].ops
    BY <1>1, <2>1, IdOfType
  <2>4. DOMAIN part[IdOf(i)] = 1 .. Len(part[IdOf(i)])
    BY <1>1, <1>5 DEF ServiceTypeOK
  <2>5. part[IdOf(i)][m][c] # "failed"
    BY <1>1, <1>5, <2>1, <2>4 DEF PutKeysAreFound, AllBefore
  <2> QED
    BY <1>2, <1>5, <2>2, <2>3, <2>5
<1>6. PutKeysAreFound'
  <2> SUFFICES ASSUME NEW i \in DOMAIN futures,
                      UsesPutKeys(FileTransactions(file)[i]),
                      \A j \in 1 .. i - 1 : ~requests[j].async /\ futures[j].status = "committed",
                      IdOf(i) \in DOMAIN part
               PROVE  \A m \in DOMAIN part'[IdOf(i)], c \in Cohort :
                        part'[IdOf(i)][m][c] # "failed"
    BY <1>2, <1>4 DEF PutKeysAreFound, IdOf
  <2>1. i \in 1 .. Len(futures)
    BY <1>1 DEF FutureInv
  <2>2. AllBefore(i)
    BY DEF AllBefore
  <2>3. IdOf(i) \in DOMAIN part'
    BY <1>2
  <2>4. DOMAIN part'[IdOf(i)] = 1 .. Len(part'[IdOf(i)])
    BY <1>1, <2>3 DEF ServiceTypeOK
  <2>5. Len(part'[IdOf(i)]) = Len(part[IdOf(i)])
    BY <1>2
  <2> QED
    BY <1>5, <2>1, <2>2, <2>4, <2>5
<1>7. \A j \in DOMAIN calls' : j \in DOMAIN calls /\ calls'[j].id = calls[j].id
  BY <1>2
<1> QED
  BY ONLY ProgramInv, <1>2, <1>3, <1>6, <1>7, ServiceFrame

-----------------------------------------------------------------------------
(* The theorems *)

LEMMA ProgramInvNext == ProgramInv /\ [Next]_vars => ProgramInv'
PROOF
<1> SUFFICES ASSUME ProgramInv, [Next]_vars PROVE ProgramInv'
  OBVIOUS
<1>1. CASE AddOperation
  BY <1>1, AddOperationInv
<1>2. CASE AddTransaction
  BY <1>2, AddTransactionInv
<1>3. CASE RunInfoCreated
  BY <1>3, RunInfoCreatedInv
<1>4. CASE WaitForCoordinator
  BY <1>4, WaitForCoordinatorInv
<1>5. CASE SendRequest
  BY <1>5, SendRequestInv
<1>6. CASE CommitUnblocks
  BY <1>6, CommitUnblocksInv
<1>7. CASE CommitSyncReturns
  BY <1>7, CommitSyncReturnsInv
<1>8. CASE End
  BY <1>8, EndInv
<1>9. CASE StartJob
  BY <1>9, StartJobInv
<1>10. ASSUME NEW i \in running, JobStep(i) \/ ReadHangs(i) \/ ReadErrs(i)
       PROVE  ProgramInv'
  <2>1. CASE TryGetTransactionResults(i)
    BY <2>1, TryGetTransactionResultsInv
  <2>2. CASE \/ AloneWith(IdOf(i)) /\ BeginToAsk(i)
             \/ CollectStep(i) \/ ReadHangs(i) \/ ReadErrs(i)
    BY <2>2, CallStepInv
  <2> QED
    BY <1>10, <2>1, <2>2 DEF JobStep, ReadReverts
<1>11. CASE ServiceStep
  BY <1>11, ServiceStepInv
<1>12. CASE UNCHANGED vars
  <2>1. UNCHANGED clientVars /\ UNCHANGED serviceVars
    BY <1>12 DEF vars
  <2>2. UNCHANGED <<file, building, put_keys_by_address, requests, main, futures, queue,
                    running>>
    BY <2>1 DEF clientVars
  <2>3. ServiceInv'
    BY <2>1, ServiceInvFrame DEF ProgramInv
  <2>4. UNCHANGED <<part, response, calls>> /\ main' \in Main
    BY <2>1, <2>2 DEF serviceVars, ProgramInv, ClientTypeOK
  <2>5. JobInv' /\ SyncInv'
    BY <2>2, JobFrame DEF ProgramInv, SyncInv
  <2> QED
    BY <2>2, <2>3, <2>4, <2>5, ProgramFrame
<1> QED
  BY <1>1, <1>2, <1>3, <1>4, <1>5, <1>6, <1>7, <1>8, <1>9, <1>10, <1>11, <1>12
     DEF Next, MainStep

LEMMA ProgramInvariant == Spec => []ProgramInv
PROOF
  BY ProgramInvInit, ProgramInvNext, PTL DEF Spec

\* Requests, futures, jobs and calls stay in their types: each future without a value
\* has one job, in the queue or on a thread, no more jobs run than there are threads,
\* and only a job on a thread waits for an answer, also when the same transaction is
\* sent twice (CommitAsync, GetTransactionResults).
THEOREM ClientTypeCorrect == Spec => []TypeOK
PROOF
<1>1. ProgramInv => TypeOK
  <2> SUFFICES ASSUME ProgramInv PROVE TypeOK
    OBVIOUS
  <2>1. ServiceTypeOK /\ ClientTypeOK /\ FutureInv /\ CallerInv /\ JobInv
    BY DEF ProgramInv, ServiceInv
  <2>2. /\ futures \in Seq(Response \cup {Waiting, Error})
        /\ DOMAIN futures = 1 .. Len(futures) /\ Len(futures) <= Len(requests)
    BY <2>1 DEF FutureInv
  <2>3. \A i \in DOMAIN futures : futures[i] \in Response \cup {Waiting, Error}
    BY ONLY <2>2
  <2>4. DOMAIN calls \subseteq running
    BY <2>1 DEF CallerInv
  <2> QED
    BY <2>1, <2>2, <2>3, <2>4 DEF TypeOK, ClientTypeOK, RunInfo, JobInv
<1> QED
  BY <1>1, ProgramInvariant, PTL

\* What a future says of a committed transaction is the whole of it: the reads of
\* every participant are in it, each once, and every database has what the
\* transaction wrote, in whatever polls the cohorts answer, and although other steps
\* come between the check for a cohort, its answer and the addition of its reads
\* (UpdateCommittedResponseFromCohorts).  The theorem is about polls of one id that
\* are not in the loop over the cohorts at the same time (Spec's AloneWith).
THEOREM CommittedIsComplete == Spec => []CommittedResponseIsComplete
PROOF
<1>1. ProgramInv => CommittedResponseIsComplete
  <2> SUFFICES ASSUME ProgramInv, NEW i \in DOMAIN futures, futures[i].status = "committed",
                      NEW c \in Cohort
               PROVE  /\ futures[i].gets[c] =
                           IF c \in Participants(requests[i].ops) THEN 1 ELSE 0
                      /\ PutKeys(requests[i].ops, c) \subseteq keys[c]
    BY DEF CommittedResponseIsComplete
  <2>1. ClientTypeOK /\ FutureInv /\ CommittedInv
    BY DEF ProgramInv, ServiceInv
  <2>2. i \in 1 .. Len(futures) /\ i \in 1 .. Len(requests)
    <3>1. Len(futures) \in Nat /\ DOMAIN futures = 1 .. Len(futures)
      BY <2>1 DEF FutureInv
    <3>2. Len(futures) <= Len(requests)
      BY <2>1 DEF FutureInv
    <3>3. Len(requests) \in Nat
      BY <2>1 DEF ClientTypeOK
    <3> QED
      BY ONLY <3>1, <3>2, <3>3, i \in DOMAIN futures
  <2>3. IdOf(i) \in DOMAIN response /\ futures[i] = response[IdOf(i)]
    BY <2>1, <2>2 DEF FutureInv
  <2>4. IsWhole(IdOf(i))
    BY <2>1, <2>3 DEF CommittedInv
  <2>5. OpsOf(IdOf(i)) = requests[i].ops
    BY <2>1, <2>2, IdOfType
  <2> QED
    BY <2>3, <2>4, <2>5 DEF IsWhole, Once
<1> QED
  BY <1>1, ProgramInvariant, PTL

\* The keys that the program chooses among those it has put (client.proto:29) are
\* in the database when they are needed: no transaction of such a file fails on a
\* missing key as long as those before it are not async and were told committed
\* (CreateRunInfoFromFile, AddOperation, CommitSync).
THEOREM PutKeysAreAlwaysFound == Spec => []PutKeysAreFound
PROOF
<1>1. ProgramInv => PutKeysAreFound
  BY DEF ProgramInv
<1> QED
  BY <1>1, ProgramInvariant, PTL

\* No transaction is sent again before it is answered; an answer that it committed
\* says that no cohort is still running the first execution when the second begins,
\* and there is no third (CommitAtomicTransaction, CleanUpTransactionMetadata).
THEOREM SentAgainOnlyAfterTheAnswer == Spec => []SentAgainAfterTheAnswer
PROOF
<1>1. ProgramInv => SentAgainAfterTheAnswer
  <2> SUFFICES ASSUME ProgramInv, NEW id \in DOMAIN part, Len(part[id]) > 1
               PROVE  /\ Len(part[id]) = 2
                      /\ Entry(response, id, NoResponse).complete
                      /\ response[id].status = "committed" =>
                           \A c \in Participants(OpsOf(id)) : part[id][1][c] = "committed"
    BY DEF SentAgainAfterTheAnswer
  <2>1. SentInv /\ CommittedInv
    BY DEF ProgramInv, ServiceInv
  <2>2. Len(part[id]) \in {1, 2} /\ (~Complete(id) => Len(part[id]) = 1)
    BY <2>1 DEF SentInv
  <2>3. Len(part[id]) = 2 /\ Complete(id)
    BY ONLY <2>2, Len(part[id]) > 1
  <2>4. id \in DOMAIN response
    BY <2>3 DEF Complete, Entry, NoResponse
  <2>5. ASSUME response[id].status = "committed", NEW c \in Participants(OpsOf(id))
        PROVE  part[id][1][c] = "committed"
    <3>1. IsWhole(id)
      BY <2>1, <2>4, <2>5 DEF CommittedInv
    <3>2. c \in Cohort
      BY DEF Participants
    <3> QED
      BY <3>1, <3>2 DEF IsWhole
  <2> QED
    BY <2>3, <2>5 DEF Complete
<1> QED
  BY <1>1, ProgramInvariant, PTL
=============================================================================
