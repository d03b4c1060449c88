---------------------------- MODULE NatRecursion ----------------------------
(***************************************************************************)
(* Induction over the natural numbers and functions defined by primitive   *)
(* recursion, stated with sets and functions in place of operators so that *)
(* a first-order prover can apply them.  The powers of the contract and    *)
(* the passes of a cohort over its operations are such functions.          *)
(***************************************************************************)
EXTENDS Integers, WellFoundedInduction, TLAPS

-----------------------------------------------------------------------------
(* Induction *)

\* A set of numbers that is not empty has a least element.
LEMMA LeastNat ==
  ASSUME NEW T \in SUBSET Nat, T # {}
  PROVE  \E n \in T : \A m \in T : n <= m
<1>1. IsWellFoundedOn(OpToRel(<, Nat), Nat)
  BY NatLessThanWellFounded
<1>2. \E x \in T : \A y \in T : ~ (<<y, x>> \in OpToRel(<, Nat))
  BY <1>1, WFMin
<1>3. PICK x \in T : \A y \in T : ~ (<<y, x>> \in OpToRel(<, Nat))
  BY <1>2
<1>4. \A y \in T : ~(y < x)
  BY <1>3 DEF OpToRel
<1> QED
  BY <1>4

\* A set with 0 and the successor of each of its numbers has all numbers.
LEMMA NatInductionSet ==
  ASSUME NEW S, 0 \in S,
         \A n \in Nat : n \in S => n + 1 \in S
  PROVE  \A n \in Nat : n \in S
<1> SUFFICES ASSUME Nat \ S # {}
             PROVE  FALSE
  OBVIOUS
<1>1. PICK n \in Nat \ S : \A m \in Nat \ S : n <= m
  BY LeastNat
<1>2. n # 0
  OBVIOUS
<1>3. n - 1 \in Nat /\ ~(n <= n - 1) /\ (n - 1) + 1 = n
  BY <1>2
<1>4. n - 1 \in S
  BY <1>1, <1>3
<1> QED
  BY <1>3, <1>4

-----------------------------------------------------------------------------
(* Primitive recursion *)

\* f maps numbers to A: 0 to a, and n + 1 to what step[n] makes of f[n].
IsRecursion(f, A, a, step) ==
  /\ f \in [Nat -> A]
  /\ f[0] = a
  /\ \A n \in Nat : f[n + 1] = step[n][f[n]]

\* The functions on 0 .. n that follow the recursion from a by step.
Approximations(A, a, step, n) ==
  {g \in [0 .. n -> A] :
     /\ g[0] = a
     /\ \A k \in 0 .. n - 1 : g[k + 1] = step[k][g[k]]}

\* There is one for each n.
LEMMA ApproximationExists ==
  ASSUME NEW A, NEW a \in A, NEW step \in [Nat -> [A -> A]],
         NEW n \in Nat
  PROVE  Approximations(A, a, step, n) # {}
<1> DEFINE S == {m \in Nat : Approximations(A, a, step, m) # {}}
<1>1. 0 \in S
  <2> DEFINE g == [i \in 0 .. 0 |-> a]
  <2>1. g \in Approximations(A, a, step, 0)
    BY DEF Approximations
  <2> QED
    BY <2>1
<1>2. ASSUME NEW m \in Nat, m \in S
      PROVE  m + 1 \in S
  <2>1. PICK g : g \in Approximations(A, a, step, m)
    BY <1>2
  <2>2. /\ g \in [0 .. m -> A]
        /\ g[0] = a
        /\ \A k \in 0 .. m - 1 : g[k + 1] = step[k][g[k]]
    BY <2>1 DEF Approximations
  <2>3. step[m][g[m]] \in A
    BY <2>2
  <2> DEFINE h == [i \in 0 .. m + 1 |-> IF i = m + 1 THEN step[m][g[m]] ELSE g[i]]
  <2>4. h \in [0 .. m + 1 -> A] /\ h[0] = a
    BY <2>2, <2>3
  <2>5. ASSUME NEW k \in 0 .. m
        PROVE  h[k + 1] = step[k][h[k]]
    <3>1. h[k] = g[k]
      OBVIOUS
    <3>2. CASE k = m
      BY <3>1, <3>2
    <3>3. CASE k # m
      <4>1. k \in 0 .. m - 1 /\ h[k + 1] = g[k + 1]
        BY <3>3
      <4> QED
        BY <2>2, <3>1, <4>1
    <3> QED
      BY <3>2, <3>3
  <2>6. (m + 1) - 1 = m
    OBVIOUS
  <2>7. h \in Approximations(A, a, step, m + 1)
    BY <2>4, <2>5, <2>6 DEF Approximations
  <2> QED
    BY <2>7
<1> HIDE DEF S
<1>3. n \in S
  BY <1>1, <1>2, NatInductionSet
<1> QED
  BY <1>3 DEF S

\* Two of them agree wherever both are defined.
LEMMA ApproximationsAgree ==
  ASSUME NEW A, NEW a \in A, NEW step \in [Nat -> [A -> A]],
         NEW n \in Nat, NEW m \in Nat,
         NEW g \in Approximations(A, a, step, n),
         NEW h \in Approximations(A, a, step, m),
         NEW i \in Nat, i <= n, i <= m
  PROVE  g[i] = h[i]
<1> DEFINE S == {k \in Nat : k <= n /\ k <= m => g[k] = h[k]}
<1>1. /\ g[0] = a /\ \A k \in 0 .. n - 1 : g[k + 1] = step[k][g[k]]
      /\ h[0] = a /\ \A k \in 0 .. m - 1 : h[k + 1] = step[k][h[k]]
  BY DEF Approximations
<1>2. 0 \in S
  BY <1>1
<1>3. ASSUME NEW k \in Nat, k \in S
      PROVE  k + 1 \in S
  <2> SUFFICES ASSUME k + 1 <= n, k + 1 <= m
               PROVE  g[k + 1] = h[k + 1]
    OBVIOUS
  <2>1. k \in 0 .. n - 1 /\ k \in 0 .. m - 1 /\ g[k] = h[k]
    BY <1>3
  <2> QED
    BY <1>1, <2>1
<1> HIDE DEF S
<1>4. i \in S
  BY <1>2, <1>3, NatInductionSet
<1> QED
  BY <1>4 DEF S

\* So the recursion defines a function on all numbers.
LEMMA RecursionHasASolution ==
  ASSUME NEW A, NEW a \in A, NEW step \in [Nat -> [A -> A]]
  PROVE  \E f : IsRecursion(f, A, a, step)
<1> DEFINE G(n) == CHOOSE g : g \in Approximations(A, a, step, n)
           f    == [n \in Nat |-> G(n)[n]]
<1>1. \A n \in Nat : G(n) \in Approximations(A, a, step, n)
  BY ApproximationExists
<1> HIDE DEF G
<1>2. \A n \in Nat : /\ G(n) \in [0 .. n -> A]
                     /\ G(n)[0] = a
                     /\ \A k \in 0 .. n - 1 : G(n)[k + 1] = step[k][G(n)[k]]
  BY <1>1 DEF Approximations
<1>3. f \in [Nat -> A] /\ f[0] = a
  BY <1>2
<1>4. ASSUME NEW n \in Nat
      PROVE  f[n + 1] = step[n][f[n]]
  <2>1. f[n + 1] = G(n + 1)[n + 1]
    OBVIOUS
  <2>2. n \in 0 .. (n + 1) - 1 /\ n + 1 \in Nat /\ n <= n + 1 /\ n <= n
    OBVIOUS
  <2>3. G(n + 1)[n + 1] = step[n][G(n + 1)[n]]
    BY <1>2, <2>2
  <2>4. G(n + 1)[n] = G(n)[n]
    BY <1>1, <2>2, ApproximationsAgree
  <2> QED
    BY <2>1, <2>3, <2>4
<1> HIDE DEF f
<1>5. IsRecursion(f, A, a, step)
  BY <1>3, <1>4 DEF IsRecursion
<1> QED
  BY <1>5

-----------------------------------------------------------------------------
(* Powers *)

\* f[n] is the n-th power of b.
IsPowers(f, b) == f = [n \in Nat |-> IF n = 0 THEN 1 ELSE b * f[n - 1]]

LEMMA PowersExist ==
  ASSUME NEW b \in Nat \ {0}
  PROVE  \E f : IsPowers(f, b)
<1> DEFINE step == [n \in Nat |-> [x \in Nat |-> b * x]]
<1>1. \A x \in Nat : b * x \in Nat
  OBVIOUS
<1>2. step \in [Nat -> [Nat -> Nat]]
  BY <1>1
<1>3. PICK s : IsRecursion(s, Nat, 1, step)
  BY <1>2, RecursionHasASolution
<1>4. /\ s \in [Nat -> Nat]
      /\ s[0] = 1
      /\ \A n \in Nat : s[n + 1] = b * s[n]
  BY <1>3 DEF IsRecursion
<1>5. ASSUME NEW n \in Nat
      PROVE  s[n] = IF n = 0 THEN 1 ELSE b * s[n - 1]
  <2>1. CASE n = 0
    BY <1>4, <2>1
  <2>2. CASE n # 0
    <3>1. n - 1 \in Nat /\ (n - 1) + 1 = n
      BY <2>2
    <3>2. s[(n - 1) + 1] = b * s[n - 1]
      BY <1>4, <3>1
    <3> QED
      BY <2>2, <3>1, <3>2
  <2> QED
    BY <2>1, <2>2
<1>6. s = [n \in Nat |-> IF n = 0 THEN 1 ELSE b * s[n - 1]]
  BY <1>4, <1>5
<1> QED
  BY <1>6, Zenon DEF IsPowers

LEMMA PowersStep ==
  ASSUME NEW b \in Nat \ {0}, NEW f, IsPowers(f, b)
  PROVE  /\ f[0] = 1
         /\ \A n \in Nat : f[n + 1] = b * f[n]
         /\ \A n \in Nat : f[n] \in Nat \ {0}
<1>1. \A n \in Nat : f[n] = IF n = 0 THEN 1 ELSE b * f[n - 1]
  BY Zenon DEF IsPowers
<1>2. f[0] = 1
  BY <1>1
<1>3. ASSUME NEW n \in Nat
      PROVE  f[n + 1] = b * f[n]
  <2>1. n + 1 \in Nat /\ n + 1 # 0 /\ (n + 1) - 1 = n
    OBVIOUS
  <2>2. f[n + 1] = IF n + 1 = 0 THEN 1 ELSE b * f[(n + 1) - 1]
    BY <1>1, <2>1, Zenon
  <2> QED
    BY <2>1, <2>2
<1> DEFINE S == {n \in Nat : f[n] \in Nat \ {0}}
<1>4. 0 \in S
  BY <1>2
<1>5. ASSUME NEW n \in Nat, n \in S
      PROVE  n + 1 \in S
  <2>1. f[n] \in Nat \ {0} /\ f[n + 1] = b * f[n]
    BY <1>3, <1>5
  <2>2. b * f[n] \in Nat \ {0}
    BY <2>1
  <2> QED
    BY <2>1, <2>2
<1> HIDE DEF S
<1>6. \A n \in Nat : n \in S
  BY <1>4, <1>5, NatInductionSet
<1> QED
  BY <1>2, <1>3, <1>6 DEF S
=============================================================================
