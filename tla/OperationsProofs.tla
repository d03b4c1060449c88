-------------------------- MODULE OperationsProofs --------------------------
(***************************************************************************)
(* Lemmas about the split of a transaction by database, for any sets of    *)
(* cohorts and keys and any operations: what the sub-transactions are,     *)
(* that each keeps the order of its operations, and that the participants  *)
(* can be numbered.                                                        *)
(***************************************************************************)
EXTENDS Operations, FiniteSetTheorems, NatRecursion

-----------------------------------------------------------------------------
(* Splitting the operations *)

\* s is the sub-transaction of c after each of the operations.
IsSplit(s, ops, c) ==
  s = [i \in 0 .. Len(ops) |->
         IF i = 0 THEN << >>
         ELSE IF ops[i].namespace = c THEN Append(s[i - 1], ops[i])
         ELSE s[i - 1]]

LEMMA SplitExists ==
  ASSUME NEW ops \in Seq(Operation), NEW c
  PROVE  \E s : IsSplit(s, ops, c)
PROOF
<1> DEFINE step == [n \in Nat |-> [x \in Seq(Operation) |->
                      IF n < Len(ops) /\ ops[n + 1].namespace = c
                      THEN Append(x, ops[n + 1]) ELSE x]]
<1>1. Len(ops) \in Nat /\ << >> \in Seq(Operation)
  OBVIOUS
<1>2. \A n \in Nat : n < Len(ops) => ops[n + 1] \in Operation
  OBVIOUS
<1>3. step \in [Nat -> [Seq(Operation) -> Seq(Operation)]]
  BY <1>2
<1>4. \A n \in Nat, x \in Seq(Operation) :
        step[n][x] = IF n < Len(ops) /\ ops[n + 1].namespace = c
                     THEN Append(x, ops[n + 1]) ELSE x
  OBVIOUS
<1> HIDE DEF step
<1>5. PICK s : s \in Approximations(Seq(Operation), << >>, step, Len(ops))
  <2>1. Approximations(Seq(Operation), << >>, step, Len(ops)) # {}
    BY <1>1, <1>3, ApproximationExists, Zenon
  <2> QED
    BY <2>1
<1>6. /\ s \in [0 .. Len(ops) -> Seq(Operation)]
      /\ s[0] = << >>
      /\ \A k \in 0 .. Len(ops) - 1 : s[k + 1] = step[k][s[k]]
  BY <1>5 DEF Approximations
<1>7. ASSUME NEW i \in 0 .. Len(ops), i # 0
      PROVE  s[i] = IF ops[i].namespace = c THEN Append(s[i - 1], ops[i]) ELSE s[i - 1]
  <2>1. i - 1 \in 0 .. Len(ops) - 1 /\ i - 1 \in Nat /\ i - 1 < Len(ops) /\ (i - 1) + 1 = i
    BY <1>1, <1>7
  <2> DEFINE n == i - 1
  <2>2. n \in 0 .. Len(ops) - 1 /\ n \in Nat /\ n < Len(ops) /\ n + 1 = i
    BY <2>1
  <2>3. s[n] \in Seq(Operation)
    BY <1>1, <1>6, <2>1
  <2> HIDE DEF n
  <2>4. s[i] = step[n][s[n]]
    BY <1>6, <2>2
  <2>5. step[n][s[n]] = IF ops[i].namespace = c THEN Append(s[n], ops[i]) ELSE s[n]
    BY <1>4, <2>2, <2>3
  <2> QED
    BY <2>4, <2>5 DEF n
<1>8. s = [i \in 0 .. Len(ops) |->
             IF i = 0 THEN << >>
             ELSE IF ops[i].namespace = c THEN Append(s[i - 1], ops[i])
             ELSE s[i - 1]]
  BY <1>6, <1>7
<1> QED
  BY <1>8, Zenon DEF IsSplit

LEMMA SplitIsSplit ==
  ASSUME NEW ops \in Seq(Operation), NEW c
  PROVE  IsSplit(Split(ops, c), ops, c)
PROOF
<1>1. Split(ops, c) = CHOOSE s : IsSplit(s, ops, c)
  BY DEF Split, IsSplit
<1>2. \E s : IsSplit(s, ops, c)
  BY SplitExists
<1> QED
  BY <1>1, <1>2, Zenon

\* What is looked at when.
LEMMA SplitStep ==
  ASSUME NEW ops \in Seq(Operation), NEW c
  PROVE  /\ Split(ops, c)[0] = << >>
         /\ \A i \in 0 .. Len(ops) : Split(ops, c)[i] \in Seq(Operation)
         /\ \A i \in Nat : i < Len(ops) =>
              Split(ops, c)[i + 1] =
                IF ops[i + 1].namespace = c THEN Append(Split(ops, c)[i], ops[i + 1])
                                            ELSE Split(ops, c)[i]
PROOF
<1> DEFINE s == Split(ops, c)
<1>1. IsSplit(s, ops, c)
  BY SplitIsSplit
<1> HIDE DEF s
<1>2. Len(ops) \in Nat /\ \A i \in Nat : i < Len(ops) => ops[i + 1] \in Operation
  OBVIOUS
<1>3. \A i \in 0 .. Len(ops) :
        s[i] = IF i = 0 THEN << >>
               ELSE IF ops[i].namespace = c THEN Append(s[i - 1], ops[i])
               ELSE s[i - 1]
  BY <1>1, Zenon DEF IsSplit
<1>4. s[0] = << >>
  BY <1>2, <1>3
<1>5. ASSUME NEW i \in Nat, i < Len(ops)
      PROVE  s[i + 1] = IF ops[i + 1].namespace = c THEN Append(s[i], ops[i + 1])
                                                    ELSE s[i]
  <2>1. i + 1 \in 0 .. Len(ops) /\ i + 1 # 0 /\ (i + 1) - 1 = i
    BY <1>2, <1>5
  <2> QED
    BY <1>3, <2>1
<1> DEFINE P == {i \in Nat : i <= Len(ops) => s[i] \in Seq(Operation)}
<1>6. 0 \in P
  <2>1. s[0] \in Seq(Operation)
    BY <1>4
  <2> QED
    BY <2>1
<1>7. ASSUME NEW i \in Nat, i \in P
      PROVE  i + 1 \in P
  <2> SUFFICES ASSUME i + 1 <= Len(ops)
               PROVE  s[i + 1] \in Seq(Operation)
    OBVIOUS
  <2>1. i < Len(ops) /\ s[i] \in Seq(Operation) /\ ops[i + 1] \in Operation
    BY <1>2, <1>7
  <2>2. Append(s[i], ops[i + 1]) \in Seq(Operation)
    BY <2>1
  <2> QED
    BY <1>5, <2>1, <2>2
<1> HIDE DEF P
<1>8. \A i \in Nat : i \in P
  BY <1>6, <1>7, NatInductionSet
<1>9. \A i \in 0 .. Len(ops) : s[i] \in Seq(Operation)
  BY <1>2, <1>8 DEF P
<1> QED
  BY <1>4, <1>5, <1>9 DEF s

\* t has what s has, and perhaps more after it.
Starts(s, t) == Len(s) <= Len(t) /\ \A j \in 1 .. Len(s) : t[j] = s[j]

\* The sub-transaction only grows, at its end.
LEMMA SplitGrows ==
  ASSUME NEW ops \in Seq(Operation), NEW c,
         NEW i \in 0 .. Len(ops), NEW n \in 0 .. Len(ops), i <= n
  PROVE  Starts(Split(ops, c)[i], Split(ops, c)[n])
PROOF
<1> DEFINE s == Split(ops, c)
           P == {m \in Nat : i <= m /\ m <= Len(ops) =>
                   /\ Len(s[i]) <= Len(s[m])
                   /\ \A j \in 1 .. Len(s[i]) : s[m][j] = s[i][j]}
<1>1. Len(ops) \in Nat /\ i \in Nat /\ n \in Nat
  OBVIOUS
<1>2. /\ \A m \in 0 .. Len(ops) : s[m] \in Seq(Operation)
      /\ \A m \in Nat : m < Len(ops) =>
           s[m + 1] = IF ops[m + 1].namespace = c THEN Append(s[m], ops[m + 1]) ELSE s[m]
  BY SplitStep
<1> HIDE DEF s
<1>3. \A m \in 0 .. Len(ops) : s[m] \in Seq(Operation) /\ Len(s[m]) \in Nat
  BY <1>2
<1>4. 0 \in P
  BY <1>1, <1>3
<1>5. ASSUME NEW m \in Nat, m \in P
      PROVE  m + 1 \in P
  <2> SUFFICES ASSUME i <= m + 1, m + 1 <= Len(ops)
               PROVE  /\ Len(s[i]) <= Len(s[m + 1])
                      /\ \A j \in 1 .. Len(s[i]) : s[m + 1][j] = s[i][j]
    OBVIOUS
  <2>1. CASE i = m + 1
    BY <1>1, <1>3, <2>1
  <2>2. CASE i # m + 1
    <3>1. i <= m /\ m < Len(ops) /\ m \in 0 .. Len(ops)
      BY <1>1, <2>2
    <3>2. Len(s[i]) <= Len(s[m]) /\ \A j \in 1 .. Len(s[i]) : s[m][j] = s[i][j]
      BY <1>5, <3>1
    <3>3. s[m] \in Seq(Operation) /\ Len(s[m]) \in Nat /\ Len(s[i]) \in Nat
      BY <1>3, <3>1
    <3>4. CASE ops[m + 1].namespace = c
      <4>1. s[m + 1] = Append(s[m], ops[m + 1])
        BY <1>2, <3>1, <3>4
      <4>2. Len(s[m + 1]) = Len(s[m]) + 1 /\ \A j \in 1 .. Len(s[m]) : s[m + 1][j] = s[m][j]
        BY <3>3, <4>1
      <4> QED
        BY ONLY <3>2, <3>3, <4>2
    <3>5. CASE ops[m + 1].namespace # c
      <4>1. s[m + 1] = s[m]
        BY <1>2, <3>1, <3>5
      <4> QED
        BY <3>2, <4>1
    <3> QED
      BY <3>4, <3>5
  <2> QED
    BY <2>1, <2>2
<1> HIDE DEF P
<1>6. n \in P
  BY <1>1, <1>4, <1>5, NatInductionSet
<1> QED
  BY <1>6 DEF P, s, Starts

\* Every sub-transaction is a list of operations on its database, and an
\* operation has the same place in it when it is looked at and at the end.
LEMMA SubTransactionType ==
  ASSUME NEW ops \in Seq(Operation), NEW c
  PROVE  /\ SubTransaction(ops, c) \in Seq(Operation)
         /\ Len(SubTransaction(ops, c)) \in Nat
PROOF
<1>1. Len(ops) \in 0 .. Len(ops)
  OBVIOUS
<1>2. Split(ops, c)[Len(ops)] \in Seq(Operation)
  BY <1>1, SplitStep
<1> QED
  BY <1>2 DEF SubTransaction

LEMMA SplitPlace ==
  ASSUME NEW ops \in Seq(Operation), NEW i \in Nat, i < Len(ops),
         NEW c, c = ops[i + 1].namespace
  PROVE  /\ Len(Split(ops, c)[i + 1]) = Len(Split(ops, c)[i]) + 1
         /\ Len(Split(ops, c)[i]) + 1 \in 1 .. Len(SubTransaction(ops, c))
         /\ SubTransaction(ops, c)[Len(Split(ops, c)[i]) + 1] = ops[i + 1]
PROOF
<1> DEFINE s == Split(ops, c)
<1>1. Len(ops) \in Nat /\ i \in 0 .. Len(ops) /\ i + 1 \in 0 .. Len(ops)
      /\ Len(ops) \in 0 .. Len(ops) /\ i + 1 <= Len(ops) /\ ops[i + 1] \in Operation
  OBVIOUS
<1>2. s[i] \in Seq(Operation) /\ s[i + 1] = Append(s[i], ops[i + 1])
  BY <1>1, SplitStep
<1>3. Starts(s[i + 1], s[Len(ops)])
  BY <1>1, SplitGrows
<1>4. s[Len(ops)] \in Seq(Operation)
  BY <1>1, SplitStep
<1>5. SubTransaction(ops, c) = s[Len(ops)]
  BY DEF SubTransaction
<1> HIDE DEF s
<1>6. /\ Len(s[i]) \in Nat /\ Len(s[i + 1]) = Len(s[i]) + 1
      /\ s[i + 1][Len(s[i]) + 1] = ops[i + 1] /\ Len(s[Len(ops)]) \in Nat
  BY <1>1, <1>2, <1>4
<1>7. Len(s[i]) + 1 \in 1 .. Len(s[Len(ops)]) /\ Len(s[i]) + 1 \in 1 .. Len(s[i + 1])
  BY <1>3, <1>6 DEF Starts
<1> QED
  BY <1>3, <1>5, <1>6, <1>7 DEF s, Starts

\* An operation that is added comes last at its database, and changes nothing at
\* the others.
LEMMA SubTransactionAppend ==
  ASSUME NEW ops \in Seq(Operation), NEW op \in Operation, NEW c
  PROVE  SubTransaction(Append(ops, op), c) =
           IF op.namespace = c THEN Append(SubTransaction(ops, c), op)
                               ELSE SubTransaction(ops, c)
PROOF
<1> DEFINE more == Append(ops, op)
           s    == Split(ops, c)
           t    == Split(more, c)
           P    == {n \in Nat : n <= Len(ops) => t[n] = s[n]}
<1>1. /\ more \in Seq(Operation) /\ Len(more) = Len(ops) + 1 /\ Len(ops) \in Nat
      /\ more[Len(ops) + 1] = op
      /\ \A n \in Nat : n < Len(ops) => more[n + 1] = ops[n + 1]
  OBVIOUS
<1> HIDE DEF more
<1>2. /\ s[0] = << >>
      /\ \A i \in Nat : i < Len(ops) =>
           s[i + 1] = IF ops[i + 1].namespace = c THEN Append(s[i], ops[i + 1]) ELSE s[i]
  BY SplitStep
<1>3. /\ t[0] = << >>
      /\ \A i \in Nat : i < Len(more) =>
           t[i + 1] = IF more[i + 1].namespace = c THEN Append(t[i], more[i + 1]) ELSE t[i]
  BY <1>1, SplitStep
<1> HIDE DEF s, t
<1>4. 0 \in P
  BY <1>2, <1>3
<1>5. ASSUME NEW n \in Nat, n \in P
      PROVE  n + 1 \in P
  <2> SUFFICES ASSUME n + 1 <= Len(ops)
               PROVE  t[n + 1] = s[n + 1]
    OBVIOUS
  <2>1. n < Len(ops) /\ n < Len(more) /\ t[n] = s[n] /\ more[n + 1] = ops[n + 1]
    BY <1>1, <1>5
  <2> QED
    BY <1>2, <1>3, <2>1
<1> HIDE DEF P
<1>6. t[Len(ops)] = s[Len(ops)]
  <2>1. Len(ops) \in P
    BY <1>1, <1>4, <1>5, NatInductionSet
  <2> QED
    BY <1>1, <2>1 DEF P
<1>7. t[Len(ops) + 1] = IF op.namespace = c THEN Append(s[Len(ops)], op) ELSE s[Len(ops)]
  <2>1. Len(ops) < Len(more)
    BY <1>1
  <2> QED
    BY <1>1, <1>3, <1>6, <2>1
<1> QED
  BY <1>1, <1>7 DEF SubTransaction, s, t, more

\* Each operation is in the sub-transaction of its database.
LEMMA InSubTransaction ==
  ASSUME NEW ops \in Seq(Operation), NEW i \in 1 .. Len(ops), NEW c,
         c = ops[i].namespace
  PROVE  \E j \in 1 .. Len(SubTransaction(ops, c)) : SubTransaction(ops, c)[j] = ops[i]
PROOF
<1>1. PICK n \in Nat : n = i - 1
  OBVIOUS
<1>2. n < Len(ops) /\ n + 1 = i
  BY <1>1
<1> QED
  BY <1>2, SplitPlace

\* A participant has an operation, so that there are finitely many.
LEMMA ParticipantsFinite ==
  ASSUME NEW ops \in Seq(Operation)
  PROVE  /\ IsFiniteSet(Participants(ops))
         /\ Cardinality(Participants(ops)) \in Nat
PROOF
<1> DEFINE f == [i \in 1 .. Len(ops) |-> ops[i].namespace]
           N == {f[i] : i \in 1 .. Len(ops)}
<1>1. Len(ops) \in Nat
  OBVIOUS
<1>2. ASSUME NEW c \in Participants(ops)
      PROVE  c \in N
  <2> DEFINE s == Split(ops, c)
             P == {i \in Nat : i <= Len(ops) /\ s[i] # << >> => c \in N}
  <2>1. /\ s[0] = << >>
        /\ \A i \in Nat : i < Len(ops) /\ ops[i + 1].namespace # c => s[i + 1] = s[i]
    BY SplitStep
  <2> HIDE DEF s
  <2>2. 0 \in P
    BY <2>1
  <2>3. ASSUME NEW i \in Nat, i \in P
        PROVE  i + 1 \in P
    <3> SUFFICES ASSUME i + 1 <= Len(ops), s[i + 1] # << >>, c \notin N
                 PROVE  FALSE
      OBVIOUS
    <3>1. i < Len(ops) /\ i <= Len(ops) /\ i + 1 \in 1 .. Len(ops)
      BY <1>1
    <3>2. ops[i + 1].namespace # c
      BY <3>1
    <3> QED
      BY <2>1, <2>3, <3>1, <3>2
  <2> HIDE DEF P
  <2>4. Len(ops) \in P
    BY <1>1, <2>2, <2>3, NatInductionSet
  <2>5. s[Len(ops)] # << >>
    BY DEF Participants, SubTransaction, s
  <2> QED
    BY <1>1, <2>4, <2>5 DEF P
<1>3. f \in Surjection(1 .. Len(ops), N)
  BY DEF Surjection
<1>4. IsFiniteSet(N)
  BY <1>1, <1>3, FS_NatSurjection DEF ExistsSurjection
<1>5. Participants(ops) \in SUBSET N
  BY <1>2
<1> HIDE DEF N
<1>6. IsFiniteSet(Participants(ops))
  BY <1>4, <1>5, FS_Subset
<1> QED
  BY <1>6, FS_CardinalityType

\* index numbers the elements of P.
IsNumbering(index, P) ==
  /\ index \in [P -> 0 .. Cardinality(P) - 1]
  /\ \A c, d \in P : index[c] = index[d] => c = d

\* The participants can be numbered, and are.
LEMMA CohortIndexNumbers ==
  ASSUME NEW ops \in Seq(Operation)
  PROVE  IsNumbering(CohortIndex(ops), Participants(ops))
PROOF
<1> DEFINE P == Participants(ops)
           n == Cardinality(P)
<1>1. IsFiniteSet(P) /\ n \in Nat
  BY ParticipantsFinite
<1>2. CohortIndex(ops) = CHOOSE index \in [P -> 0 .. n - 1] :
                           \A c, d \in P : index[c] = index[d] => c = d
  BY DEF CohortIndex
<1> HIDE DEF P
<1>3. ExistsBijection(1 .. n, P)
  BY <1>1, FS_CardinalityType
<1>4. PICK f : f \in Bijection(1 .. n, P)
  BY <1>3 DEF ExistsBijection
<1>5. f \in [1 .. n -> P] /\ \A c \in P : \E i \in 1 .. n : f[i] = c
  BY <1>4 DEF Bijection, Injection, Surjection
<1> HIDE DEF n
<1> DEFINE number == [c \in P |-> CHOOSE i \in 1 .. n : f[i] = c]
           index  == [c \in P |-> number[c] - 1]
<1>6. \A c \in P : number[c] \in 1 .. n /\ f[number[c]] = c
  BY <1>5
<1> HIDE DEF number
<1>7. \A c \in P : number[c] - 1 \in 0 .. n - 1
  BY <1>1, <1>6
<1>8. index \in [P -> 0 .. n - 1]
  BY <1>7
<1>9. ASSUME NEW c \in P, NEW d \in P, index[c] = index[d]
      PROVE  c = d
  <2>1. number[c] = number[d]
    BY <1>1, <1>6, <1>9
  <2> QED
    BY <1>6, <2>1
<1> HIDE DEF index
<1>10. \E i \in [P -> 0 .. n - 1] : \A c, d \in P : i[c] = i[d] => c = d
  BY <1>8, <1>9
<1>11. IsNumbering(CohortIndex(ops), P)
  BY <1>2, <1>10 DEF IsNumbering, n
<1> QED
  BY <1>11 DEF P
=============================================================================
