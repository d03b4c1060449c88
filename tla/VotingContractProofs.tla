------------------------ MODULE VotingContractProofs ------------------------
(***************************************************************************)
(* Proofs about the contract: its encoding of the ballots in one number    *)
(* behaves like a table of ballots, whatever the number of cohorts.  The   *)
(* first half is about the digits of a number, the second about the        *)
(* contract's steps.                                                       *)
(***************************************************************************)
EXTENDS VotingContract, NatRecursion

-----------------------------------------------------------------------------
(* Powers *)

LEMMA PowerRecursion ==
  /\ power[0] = 1
  /\ \A n \in Nat : power[n + 1] = 3 * power[n]
  /\ \A n \in Nat : power[n] \in Nat \ {0}
<1>1. ballot_base \in Nat \ {0} /\ ballot_base = 3
  BY DEF ballot_base
<1>2. \E f : IsPowers(f, ballot_base)
  BY <1>1, PowersExist
<1>3. IsPowers(power, ballot_base)
  BY <1>2, Zenon DEF power, IsPowers
<1> QED
  BY <1>1, <1>3, PowersStep

LEMMA PowerOfSum ==
  ASSUME NEW m \in Nat, NEW n \in Nat
  PROVE  power[m + n] = power[m] * power[n]
<1> DEFINE S == {k \in Nat : power[m + k] = power[m] * power[k]}
<1>1. 0 \in S
  BY PowerRecursion
<1>2. ASSUME NEW k \in Nat, k \in S
      PROVE  k + 1 \in S
  <2>1. power[m + k] = power[m] * power[k] /\ m + k \in Nat /\ m + (k + 1) = (m + k) + 1
    BY <1>2
  <2>2. power[(m + k) + 1] = 3 * power[m + k] /\ power[k + 1] = 3 * power[k]
    BY <2>1, PowerRecursion
  <2>3. power[m] \in Nat /\ power[k] \in Nat
    BY PowerRecursion
  <2>4. 3 * (power[m] * power[k]) = power[m] * (3 * power[k])
    BY <2>3
  <2> QED
    BY <2>1, <2>2, <2>4
<1> HIDE DEF S
<1>3. n \in S
  BY <1>1, <1>2, NatInductionSet
<1> QED
  BY <1>3 DEF S

-----------------------------------------------------------------------------
(* Division *)

LEMMA Products ==
  ASSUME NEW x \in Int, NEW y \in Int, NEW z \in Int
  PROVE  /\ x * y \in Int
         /\ x * y = y * x
         /\ (x * y) * z = x * (y * z)
         /\ (x + y) * z = x * z + y * z
         /\ (x - y) * z = x * z - y * z
         /\ (x >= 1 /\ y >= 0 => x * y >= y)
         /\ (x >= 0 /\ y >= 0 => x * y >= 0)
  OBVIOUS

\* Quotient and remainder exist, and are the only numbers that fit.
LEMMA Quotient ==
  ASSUME NEW e \in Nat, NEW p \in Nat \ {0}
  PROVE  /\ e \div p \in Nat
         /\ e % p \in 0 .. p - 1
         /\ e = (e \div p) * p + (e % p)
  OBVIOUS

LEMMA QuotientIsUnique ==
  ASSUME NEW p \in Nat \ {0}, NEW q \in Nat, NEW r \in 0 .. p - 1
  PROVE  /\ (q * p + r) \div p = q
         /\ (q * p + r) % p = r
<1> DEFINE e == q * p + r
           d == e \div p
           m == e % p
<1>1. q * p \in Nat
  BY Products
<1>2. e \in Nat
  BY <1>1
<1>3. d \in Nat /\ m \in 0 .. p - 1 /\ e = d * p + m
  BY <1>2, Quotient
<1> HIDE DEF d, m
<1>4. (q - d) * p = m - r
  BY <1>3, <1>1, Products
<1>5. ~ (q - d >= 1)
  BY <1>3, <1>4, Products
<1>6. ~ (d - q >= 1)
  <2>1. (d - q) * p = r - m
    BY <1>3, <1>1, Products
  <2> QED
    BY <1>3, <2>1, Products
<1>7. d = q
  BY <1>3, <1>5, <1>6
<1>8. m = r
  BY <1>3, <1>7, <1>1
<1> QED
  BY <1>7, <1>8 DEF d, m

LEMMA QuotientOfQuotient ==
  ASSUME NEW e \in Nat, NEW p \in Nat \ {0}, NEW m \in Nat \ {0}
  PROVE  (e \div p) \div m = e \div (m * p)
<1> DEFINE q == e \div p
           r == e % p
           Q == q \div m
           R == q % m
<1>1. q \in Nat /\ r \in 0 .. p - 1 /\ e = q * p + r
  BY Quotient
<1> HIDE DEF q, r
<1>2. Q \in Nat /\ R \in 0 .. m - 1 /\ q = Q * m + R
  BY <1>1, Quotient
<1> HIDE DEF Q, R
<1>3. m * p \in Nat \ {0}
  BY Products
<1>4. e = Q * (m * p) + (R * p + r)
  <2>1. Q * m \in Int /\ (Q * m + R) * p = (Q * m) * p + R * p
    BY <1>2, Products
  <2>2. (Q * m) * p = Q * (m * p)
    BY <1>2, Products
  <2>3. R * p \in Int /\ Q * (m * p) \in Int
    BY <1>2, <1>3, Products
  <2> QED
    BY <1>1, <1>2, <2>1, <2>2, <2>3
<1>5. R * p + r \in 0 .. m * p - 1
  <2>1. R * p >= 0 /\ R * p \in Int
    BY <1>2, Products
  <2>2. (m - R) * p = m * p - R * p /\ (m - R) * p >= p
    BY <1>2, Products
  <2> QED
    BY <1>1, <1>3, <2>1, <2>2
<1>6. e \div (m * p) = Q
  BY <1>2, <1>3, <1>4, <1>5, QuotientIsUnique
<1> QED
  BY <1>6 DEF Q, q

-----------------------------------------------------------------------------
(* Digits *)

\* The digits above i, digit i, and the digits below i of a number.
Above(e, i) == (e \div power[i]) \div 3
Below(e, i) == e % power[i]

\* The number with these parts.
Composed(h, d, r, i) == (3 * h + d) * power[i] + r

\* A number is made of these three parts, and of no others.
LEMMA Parts ==
  ASSUME NEW e \in Nat, NEW i \in Nat
  PROVE  /\ Above(e, i) \in Nat
         /\ getCohortBallot(e, i) \in 0 .. 2
         /\ Below(e, i) \in 0 .. power[i] - 1
         /\ e \div power[i] = 3 * Above(e, i) + getCohortBallot(e, i)
         /\ e = (3 * Above(e, i) + getCohortBallot(e, i)) * power[i] + Below(e, i)
<1>1. power[i] \in Nat \ {0}
  BY PowerRecursion
<1> DEFINE q == e \div power[i]
<1>2. /\ q \in Nat
      /\ Below(e, i) \in 0 .. power[i] - 1
      /\ e = q * power[i] + Below(e, i)
  BY <1>1, Quotient DEF Below
<1> HIDE DEF q
<1>3. q \div 3 \in Nat /\ q % 3 \in 0 .. 2 /\ q = 3 * (q \div 3) + (q % 3)
  BY <1>2
<1>4. Above(e, i) = q \div 3 /\ getCohortBallot(e, i) = q % 3
  BY DEF Above, getCohortBallot, ballot_base, q
<1> QED
  BY <1>2, <1>3, <1>4 DEF q

LEMMA PartsAreUnique ==
  ASSUME NEW i \in Nat, NEW h \in Nat, NEW d \in 0 .. 2,
         NEW r \in 0 .. power[i] - 1
  PROVE  /\ Composed(h, d, r, i) \in Nat
         /\ Above(Composed(h, d, r, i), i) = h
         /\ getCohortBallot(Composed(h, d, r, i), i) = d
         /\ Below(Composed(h, d, r, i), i) = r
<1> USE DEF Composed
<1>1. power[i] \in Nat \ {0} /\ 3 * h + d \in Nat
  BY PowerRecursion
<1>2. (3 * h + d) * power[i] \in Nat
  BY <1>1, Products
<1>3. /\ Composed(h, d, r, i) \div power[i] = 3 * h + d
      /\ Composed(h, d, r, i) % power[i] = r
  BY <1>1, QuotientIsUnique
<1>4. (3 * h + d) \div 3 = h /\ (3 * h + d) % 3 = d
  OBVIOUS
<1> QED
  BY <1>2, <1>3, <1>4 DEF Above, Below, getCohortBallot, ballot_base

\* getNewCohortBallot replaces the middle part and keeps the others.
LEMMA NewBallotParts ==
  ASSUME NEW e \in Nat, NEW i \in Nat, NEW b \in 0 .. 2
  PROVE  /\ getCohortBallot(e, i) * power[i] <= e
         /\ getNewCohortBallot(e, i, b) \in Nat
         /\ getNewCohortBallot(e, i, b) =
              (3 * Above(e, i) + b) * power[i] + Below(e, i)
<1> DEFINE h == Above(e, i)
           d == getCohortBallot(e, i)
           r == Below(e, i)
           p == power[i]
<1>1. h \in Nat /\ d \in 0 .. 2 /\ r \in 0 .. p - 1 /\ e = (3 * h + d) * p + r
  BY Parts
<1>2. p \in Nat \ {0}
  BY PowerRecursion
<1>3. getNewCohortBallot(e, i, b) = (e - d * p) + b * p
  BY DEF getNewCohortBallot
<1> HIDE DEF h, d, r, p
<1>4. /\ (3 * h + d) * p = (3 * h) * p + d * p
      /\ (3 * h + b) * p = (3 * h) * p + b * p
      /\ (3 * h) * p \in Int /\ d * p \in Int /\ b * p \in Int
      /\ (3 * h) * p >= 0 /\ b * p >= 0
  BY <1>1, <1>2, Products
<1>5. d * p <= e /\ (e - d * p) + b * p = (3 * h + b) * p + r
  BY <1>1, <1>4
<1>6. (e - d * p) + b * p \in Nat
  BY <1>1, <1>4
<1> QED
  BY <1>3, <1>5, <1>6 DEF h, d, r, p

\* Digit i becomes the new ballot.
LEMMA NewBallotIsRead ==
  ASSUME NEW e \in Nat, NEW i \in Nat, NEW b \in 0 .. 2
  PROVE  /\ getCohortBallot(getNewCohortBallot(e, i, b), i) = b
         /\ Above(getNewCohortBallot(e, i, b), i) = Above(e, i)
         /\ Below(getNewCohortBallot(e, i, b), i) = Below(e, i)
<1> DEFINE h == Above(e, i)
           r == Below(e, i)
<1>1. h \in Nat /\ r \in 0 .. power[i] - 1
  BY Parts
<1>2. getNewCohortBallot(e, i, b) = Composed(h, b, r, i)
  BY NewBallotParts DEF Composed
<1> HIDE DEF h, r
<1>3. /\ getCohortBallot(Composed(h, b, r, i), i) = b
      /\ Above(Composed(h, b, r, i), i) = h
      /\ Below(Composed(h, b, r, i), i) = r
  BY <1>1, PartsAreUnique
<1> QED
  BY <1>2, <1>3 DEF h, r

\* A digit above i is a digit of the part above i.
LEMMA HigherDigit ==
  ASSUME NEW e \in Nat, NEW i \in Nat, NEW j \in Nat, i < j
  PROVE  getCohortBallot(e, j) = getCohortBallot(Above(e, i), j - (i + 1))
<1> DEFINE k == j - (i + 1)
<1>1. k \in Nat /\ j = k + (i + 1)
  OBVIOUS
<1> HIDE DEF k
<1>2. power[i] \in Nat \ {0} /\ power[k] \in Nat \ {0}
  BY <1>1, PowerRecursion
<1>3. power[j] = power[k] * (3 * power[i])
  BY <1>1, PowerOfSum, PowerRecursion
<1>4. Above(e, i) = e \div (3 * power[i])
  BY <1>2, QuotientOfQuotient DEF Above
<1>5. (e \div (3 * power[i])) \div power[k] = e \div power[j]
  BY <1>2, <1>3, QuotientOfQuotient
<1>6. getCohortBallot(e, j) = getCohortBallot(Above(e, i), k)
  BY <1>4, <1>5 DEF getCohortBallot
<1> QED
  BY <1>6 DEF k

\* A digit below i is a digit of the part below i.
LEMMA LowerDigit ==
  ASSUME NEW e \in Nat, NEW i \in Nat, NEW j \in Nat, j < i
  PROVE  getCohortBallot(e, j) = getCohortBallot(Below(e, i), j)
<1> DEFINE x == e \div power[i]
           r == Below(e, i)
           h == Above(r, j)
           d == getCohortBallot(r, j)
           u == Below(r, j)
           k == i - (j + 1)
<1>1. power[i] \in Nat \ {0} /\ power[j] \in Nat \ {0}
  BY PowerRecursion
<1>2. x \in Nat /\ r \in 0 .. power[i] - 1 /\ e = x * power[i] + r
  BY <1>1, Quotient DEF Below
<1>3. h \in Nat /\ d \in 0 .. 2 /\ u \in 0 .. power[j] - 1
      /\ r = (3 * h + d) * power[j] + u
  <2>1. r \in Nat
    BY <1>1, <1>2
  <2> HIDE DEF r
  <2> QED
    BY <2>1, Parts
<1>4. k \in Nat /\ i = (j + 1) + k /\ j + 1 \in Nat
  OBVIOUS
<1> HIDE DEF x, r, h, d, u, k
<1>5. power[k] \in Nat \ {0} /\ power[j + 1] = 3 * power[j]
  BY <1>4, PowerRecursion
<1>6. power[i] = (3 * power[j]) * power[k]
  BY <1>4, <1>5, PowerOfSum
<1> DEFINE y == x * power[k]
<1>7. y \in Nat
  BY <1>2, <1>5, Products
<1>8. x * power[i] = (3 * y) * power[j]
  <2>1. (3 * power[j]) * power[k] = 3 * (power[j] * power[k])
    BY <1>1, <1>5, Products
  <2>2. power[j] * power[k] \in Int /\ power[j] * power[k] = power[k] * power[j]
    BY <1>1, <1>5, Products
  <2>3. x * (3 * (power[k] * power[j])) = 3 * (x * (power[k] * power[j]))
    BY <1>2, <2>2, Products
  <2>4. x * (power[k] * power[j]) = y * power[j]
    BY <1>1, <1>2, <1>5, Products
  <2>5. 3 * (y * power[j]) = (3 * y) * power[j]
    BY <1>1, <1>7, Products
  <2> HIDE DEF y
  <2> QED
    BY <1>6, <2>1, <2>2, <2>3, <2>4, <2>5
<1> HIDE DEF y
<1>9. e = (3 * (y + h) + d) * power[j] + u
  <2>1. (3 * y + (3 * h + d)) * power[j]
          = (3 * y) * power[j] + (3 * h + d) * power[j]
    BY <1>1, <1>3, <1>7, Products
  <2>2. 3 * y + (3 * h + d) = 3 * (y + h) + d
    BY <1>3, <1>7
  <2>3. (3 * y) * power[j] \in Int /\ (3 * h + d) * power[j] \in Int
    BY <1>1, <1>3, <1>7, Products
  <2>4. u \in Int
    BY <1>1, <1>3
  <2> QED
    BY <1>2, <1>3, <1>8, <2>1, <2>2, <2>3, <2>4
<1>10. y + h \in Nat
  BY <1>3, <1>7
<1>11. e = Composed(y + h, d, u, j)
  BY <1>9 DEF Composed
<1>12. getCohortBallot(e, j) = d
  BY <1>3, <1>10, <1>11, PartsAreUnique
<1> QED
  BY <1>12 DEF d, r

\* So a new ballot of one cohort leaves the ballots of the others.
LEMMA OtherBallotsStay ==
  ASSUME NEW e \in Nat, NEW i \in Nat, NEW j \in Nat, i # j, NEW b \in 0 .. 2
  PROVE  getCohortBallot(getNewCohortBallot(e, i, b), j) = getCohortBallot(e, j)
<1>1. getNewCohortBallot(e, i, b) \in Nat
  BY NewBallotParts
<1>2. /\ Above(getNewCohortBallot(e, i, b), i) = Above(e, i)
      /\ Below(getNewCohortBallot(e, i, b), i) = Below(e, i)
  BY NewBallotIsRead
<1>3. CASE i < j
  BY <1>1, <1>2, <1>3, HigherDigit
<1>4. CASE j < i
  BY <1>1, <1>2, <1>4, LowerDigit
<1> QED
  BY <1>3, <1>4

\* A number of n digits keeps n digits.
LEMMA NewBallotIsBounded ==
  ASSUME NEW n \in Nat, NEW e \in 0 .. power[n] - 1, NEW i \in Nat, i < n,
         NEW b \in 0 .. 2
  PROVE  getNewCohortBallot(e, i, b) \in 0 .. power[n] - 1
<1> DEFINE k == n - (i + 1)
           h == Above(e, i)
           d == getCohortBallot(e, i)
           r == Below(e, i)
           p == power[i]
           q == power[k]
<1>1. power[n] \in Nat /\ e \in Nat
  BY PowerRecursion
<1>2. k \in Nat /\ n = k + (i + 1)
  OBVIOUS
<1>3. h \in Nat /\ d \in 0 .. 2 /\ r \in 0 .. p - 1 /\ e = (3 * h + d) * p + r
  BY <1>1, Parts
<1>4. p \in Nat \ {0} /\ q \in Nat \ {0} /\ power[i + 1] = 3 * p
  BY <1>2, PowerRecursion
<1>5. /\ getNewCohortBallot(e, i, b) \in Nat
      /\ getNewCohortBallot(e, i, b) = (3 * h + b) * p + r
  BY <1>1, NewBallotParts
<1>6. power[n] = q * (3 * p)
  BY <1>2, <1>4, PowerOfSum
<1> HIDE DEF k, h, d, r, p, q
<1>7. power[n] = (3 * q) * p
  BY <1>4, <1>6, Products
<1>8. h <= q - 1
  <2> SUFFICES ASSUME h >= q
               PROVE  FALSE
    BY <1>3, <1>4
  <2>1. ((3 * h + d) - 3 * q) * p = (3 * h + d) * p - (3 * q) * p
    BY <1>3, <1>4, Products
  <2>2. ((3 * h + d) - 3 * q) * p >= 0
    BY <1>3, <1>4, Products
  <2>3. (3 * h + d) * p \in Int /\ (3 * q) * p \in Int
    BY <1>3, <1>4, Products
  <2>4. e >= power[n]
    BY <1>3, <1>4, <1>7, <2>1, <2>2, <2>3
  <2> QED
    BY <1>1, <2>4
<1>9. (3 * h + b) * p + r <= (3 * q) * p - 1
  <2>1. (3 * q - (3 * h + b)) * p = (3 * q) * p - (3 * h + b) * p
    BY <1>3, <1>4, Products
  <2>2. 3 * q - (3 * h + b) >= 1
    BY <1>3, <1>4, <1>8
  <2>3. (3 * q - (3 * h + b)) * p >= p
    BY <1>3, <1>4, <2>2, Products
  <2>4. (3 * h + b) * p \in Int /\ (3 * q) * p \in Int
    BY <1>3, <1>4, Products
  <2> QED
    BY <1>3, <1>4, <2>1, <2>3, <2>4
<1> QED
  BY <1>1, <1>5, <1>7, <1>9

-----------------------------------------------------------------------------
(* The numbers of the contract *)

\* A record of the mapping transaction_configs.
Config == [cohorts : {n \in CohortCount \cup {0} : n <= MaxCohorts},
           vote_timeout_time : 0 .. MaxTime]

LEMMA TypeInit == Init => TypeOK
<1> SUFFICES ASSUME Init
             PROVE  TypeOK
  OBVIOUS
<1>1. 0 \in 0 .. MaxTime /\ 0 <= MaxCohorts
  BY ContractAssumption
<1>2. power[MaxCohorts] \in Nat \ {0}
  BY ContractAssumption, PowerRecursion
<1>3. 0 \in 0 .. power[MaxCohorts] - 1
  BY <1>2
<1>4. [cohorts |-> 0, vote_timeout_time |-> 0] \in Config
  BY <1>1 DEF Config
<1> QED
  BY <1>1, <1>3, <1>4 DEF Init, TypeOK, Config

LEMMA ConfigType ==
  ASSUME TypeOK, NEW t \in TransactionId
  PROVE  /\ transaction_configs[t].cohorts \in Nat
         /\ transaction_configs[t].cohorts <= MaxCohorts
         /\ transaction_configs[t].vote_timeout_time \in Nat
<1> DEFINE C == {n \in CohortCount \cup {0} : n <= MaxCohorts}
           c == transaction_configs[t]
<1>1. c \in [cohorts : C, vote_timeout_time : 0 .. MaxTime]
  BY DEF TypeOK
<1> HIDE DEF C, c
<1>2. c.cohorts \in C /\ c.vote_timeout_time \in 0 .. MaxTime
  BY <1>1
<1>3. c.cohorts \in CohortCount \cup {0} /\ c.cohorts <= MaxCohorts
  BY <1>2 DEF C
<1>4. CohortCount \cup {0} \subseteq Nat
  BY ContractAssumption
<1>5. c.vote_timeout_time \in Nat
  BY <1>2, ContractAssumption
<1> QED
  BY <1>3, <1>4, <1>5 DEF c

\* What is known where a vote succeeds: the digit it writes is one the number
\* has.
LEMMA VoteIsInRange ==
  ASSUME TypeOK, NEW t \in TransactionId, NEW i \in 0 .. MaxCohorts,
         transaction_configs[t].cohorts > i
  PROVE  /\ i \in Nat
         /\ MaxCohorts \in Nat
         /\ i < MaxCohorts
         /\ transaction_states[t] \in 0 .. power[MaxCohorts] - 1
         /\ transaction_states[t] \in Nat
<1>1. /\ transaction_configs[t].cohorts \in Nat
      /\ transaction_configs[t].cohorts <= MaxCohorts
  BY ConfigType
<1>2. power[MaxCohorts] \in Nat
  BY ContractAssumption, PowerRecursion
<1> QED
  BY <1>1, <1>2, ContractAssumption DEF TypeOK

LEMMA TypeStep == TypeOK /\ [Next]_vars => TypeOK'
<1> SUFFICES ASSUME TypeOK, [Next]_vars
             PROVE  TypeOK'
  OBVIOUS
<1>1. ASSUME NEW t \in TransactionId, NEW n \in CohortCount,
             NEW timeout \in 0 .. MaxTime, startVoting(t, n, timeout)
      PROVE  TypeOK'
  <2>1. [cohorts |-> n, vote_timeout_time |-> timeout] \in Config
    BY <1>1 DEF Config, startVoting
  <2>2. transaction_configs' \in [TransactionId -> Config]
    BY <1>1, <2>1 DEF startVoting, TypeOK, Config
  <2>3. power[MaxCohorts] \in Nat \ {0}
    BY ContractAssumption, PowerRecursion
  <2>4. transaction_states' \in [TransactionId -> 0 .. power[MaxCohorts] - 1]
    BY <1>1, <2>3 DEF startVoting, TypeOK
  <2> QED
    BY <1>1, <2>2, <2>4 DEF startVoting, TypeOK, Config
<1>2. ASSUME NEW t \in TransactionId, NEW i \in 0 .. MaxCohorts,
             NEW b \in {UNKNOWN, COMMIT, ABORT}, vote(t, i, b)
      PROVE  TypeOK'
  <2>1. b \in 0 .. 2
    BY DEF UNKNOWN, COMMIT, ABORT
  <2>2. /\ i \in Nat /\ MaxCohorts \in Nat /\ i < MaxCohorts
        /\ transaction_states[t] \in 0 .. power[MaxCohorts] - 1
    BY <1>2, VoteIsInRange DEF vote
  <2>3. getNewCohortBallot(transaction_states[t], i, b)
          \in 0 .. power[MaxCohorts] - 1
    BY <2>1, <2>2, NewBallotIsBounded
  <2>4. transaction_states' \in [TransactionId -> 0 .. power[MaxCohorts] - 1]
    BY <1>2, <2>3 DEF vote, TypeOK
  <2> QED
    BY <1>2, <2>4 DEF vote, TypeOK
<1>3. ASSUME Tick
      PROVE  TypeOK'
  BY <1>3, ContractAssumption DEF Tick, TypeOK
<1>4. CASE UNCHANGED vars
  BY <1>4 DEF vars, TypeOK
<1> QED
  BY <1>1, <1>2, <1>3, <1>4 DEF Next

\* startVoting and vote keep the stored number below ballot_base**MaxCohorts and
\* the number of cohorts at most MaxCohorts.
THEOREM ContractTypeCorrect == Spec => []TypeOK
<1>1. Init => TypeOK
  BY TypeInit
<1>2. TypeOK /\ [Next]_vars => TypeOK'
  BY TypeStep
<1> QED
  BY <1>1, <1>2, PTL DEF Spec

-----------------------------------------------------------------------------
(* The contract is a table of ballots *)

\* The table as a function of the contract's variables.
DecodedTable == [t \in TransactionId |-> Decoded(t)]

LEMMA ZeroHasNoBallots ==
  ASSUME NEW i \in Nat
  PROVE  BallotName(getCohortBallot(0, i)) = "UNKNOWN"
<1>1. power[i] \in Nat \ {0}
  BY PowerRecursion
<1>2. Composed(0, 0, 0, i) = 0
  BY <1>1 DEF Composed
<1>3. 0 \in 0 .. power[i] - 1
  BY <1>1
<1>4. getCohortBallot(Composed(0, 0, 0, i), i) = 0
  BY <1>3, PartsAreUnique
<1> QED
  BY <1>2, <1>4 DEF BallotName, COMMIT, ABORT

LEMMA TableInit == Init => Table!Init
<1> SUFFICES ASSUME Init
             PROVE  Table!Init
  OBVIOUS
<1>1. ASSUME NEW t \in TransactionId
      PROVE  Decoded(t) = Table!NoVoting
  <2>1. /\ transaction_configs[t].cohorts = 0
        /\ transaction_configs[t].vote_timeout_time = 0
    BY DEF Init
  <2>2. 0 .. transaction_configs[t].cohorts - 1 = {}
    BY <2>1
  <2> QED
    BY <2>1, <2>2 DEF Decoded, Table!NoVoting
<1>2. DecodedTable = [t \in TransactionId |-> Table!NoVoting]
  BY <1>1 DEF DecodedTable
<1> QED
  BY <1>2 DEF Init, Table!Init, DecodedTable

\* An entry whose number and configuration stay is decoded to the same.
LEMMA OtherEntriesStay ==
  ASSUME NEW s \in TransactionId,
         transaction_configs'[s] = transaction_configs[s],
         transaction_states'[s] = transaction_states[s]
  PROVE  Decoded(s)' = Decoded(s)
  BY DEF Decoded

LEMMA StartIsStart ==
  ASSUME TypeOK, NEW t \in TransactionId, NEW n \in CohortCount,
         NEW timeout \in 0 .. MaxTime, startVoting(t, n, timeout)
  PROVE  Table!StartVoting(t, n, timeout)
<1>1. /\ transaction_configs'[t] = [cohorts |-> n, vote_timeout_time |-> timeout]
      /\ transaction_states'[t] = 0
      /\ \A s \in TransactionId \ {t} :
           /\ transaction_configs'[s] = transaction_configs[s]
           /\ transaction_states'[s] = transaction_states[s]
  BY DEF startVoting, TypeOK
<1>2. n \in Nat
  BY ContractAssumption
<1>3. Decoded(t)' = Table!StartedVoting(n, timeout)
  <2>1. Decoded(t)' =
          [cohorts           |-> n,
           vote_timeout_time |-> timeout,
           ballots           |-> [i \in 0 .. n - 1 |->
                                    BallotName(getCohortBallot(0, i))]]
    BY <1>1 DEF Decoded
  <2>2. \A i \in 0 .. n - 1 : BallotName(getCohortBallot(0, i)) = "UNKNOWN"
    BY <1>2, ZeroHasNoBallots
  <2>3. [i \in 0 .. n - 1 |-> BallotName(getCohortBallot(0, i))]
          = [i \in 0 .. n - 1 |-> "UNKNOWN"]
    BY <2>2
  <2> QED
    BY <2>1, <2>3 DEF Table!StartedVoting
<1>4. \A s \in TransactionId \ {t} : Decoded(s)' = Decoded(s)
  BY <1>1, OtherEntriesStay
<1>5. DecodedTable' = [DecodedTable EXCEPT ![t] = Table!StartedVoting(n, timeout)]
  BY <1>3, <1>4 DEF DecodedTable
<1> QED
  BY <1>5 DEF startVoting, Table!StartVoting, Table!CanStartVoting, DecodedTable

LEMMA VoteIsVote ==
  ASSUME TypeOK, NEW t \in TransactionId, NEW i \in 0 .. MaxCohorts,
         NEW b \in {UNKNOWN, COMMIT, ABORT}, vote(t, i, b)
  PROVE  Table!Vote(t, i, BallotName(b))
<1> DEFINE e == transaction_states[t]
           c == transaction_configs[t]
           new == getNewCohortBallot(e, i, b)
<1>1. /\ i \in Nat /\ e \in Nat /\ i < c.cohorts
      /\ now < c.vote_timeout_time
  BY VoteIsInRange DEF vote
<1>2. b \in 0 .. 2 /\ b # UNKNOWN
  BY DEF UNKNOWN, COMMIT, ABORT, vote
<1>3. /\ transaction_configs' = transaction_configs
      /\ transaction_states'[t] = new
      /\ \A s \in TransactionId \ {t} : transaction_states'[s] = transaction_states[s]
  BY DEF vote, TypeOK
<1>4. c.cohorts \in Nat
  BY ConfigType
<1>5. getCohortBallot(new, i) = b
  BY <1>1, <1>2, NewBallotIsRead
<1>6. \A j \in Nat \ {i} : getCohortBallot(new, j) = getCohortBallot(e, j)
  BY <1>1, <1>2, OtherBallotsStay
<1> HIDE DEF new, e, c
<1> DEFINE ballots == [j \in 0 .. c.cohorts - 1 |-> BallotName(getCohortBallot(e, j))]
<1>7. Decoded(t) = [cohorts           |-> c.cohorts,
                    vote_timeout_time |-> c.vote_timeout_time,
                    ballots           |-> ballots]
  BY DEF Decoded, c, e
<1>8. Decoded(t)' = [cohorts           |-> c.cohorts,
                     vote_timeout_time |-> c.vote_timeout_time,
                     ballots           |-> [j \in 0 .. c.cohorts - 1 |->
                                              BallotName(getCohortBallot(new, j))]]
  BY <1>3 DEF Decoded, c
<1>9. [j \in 0 .. c.cohorts - 1 |-> BallotName(getCohortBallot(new, j))]
        = [ballots EXCEPT ![i] = BallotName(b)]
  <2>1. [ballots EXCEPT ![i] = BallotName(b)]
          = [j \in 0 .. c.cohorts - 1 |->
               IF j = i THEN BallotName(b) ELSE BallotName(getCohortBallot(e, j))]
    OBVIOUS
  <2>2. ASSUME NEW j \in 0 .. c.cohorts - 1
        PROVE  BallotName(getCohortBallot(new, j))
                 = IF j = i THEN BallotName(b) ELSE BallotName(getCohortBallot(e, j))
    <3>1. j \in Nat
      BY <1>4
    <3> QED
      BY <1>5, <1>6, <3>1
  <2> QED
    BY <2>1, <2>2
<1> HIDE DEF ballots
<1>10. Decoded(t)' = Table!Voted(Decoded(t), i, BallotName(b))
  <2>1. Decoded(t)' = [cohorts           |-> c.cohorts,
                       vote_timeout_time |-> c.vote_timeout_time,
                       ballots           |-> [ballots EXCEPT ![i] = BallotName(b)]]
    BY <1>8, <1>9
  <2> QED
    BY <1>7, <2>1 DEF Table!Voted
<1>11. \A s \in TransactionId \ {t} : Decoded(s)' = Decoded(s)
  BY <1>3, OtherEntriesStay
<1>12. DecodedTable' =
         [DecodedTable EXCEPT ![t] = Table!Voted(DecodedTable[t], i, BallotName(b))]
  BY <1>10, <1>11 DEF DecodedTable
<1>13. BallotName(b) # "UNKNOWN"
  BY <1>2 DEF BallotName, UNKNOWN, COMMIT, ABORT
<1>14. Table!CanVote(DecodedTable[t], i, BallotName(b), now)
  BY <1>1, <1>7, <1>13 DEF Table!CanVote, DecodedTable
<1> QED
  BY <1>12, <1>14 DEF vote, Table!Vote, DecodedTable

LEMMA TableStep == TypeOK /\ [Next]_vars => [Table!Next]_(Table!vars)
<1> SUFFICES ASSUME TypeOK, [Next]_vars
             PROVE  [Table!Next]_(Table!vars)
  OBVIOUS
<1>1. ASSUME NEW t \in TransactionId, NEW n \in CohortCount,
             NEW timeout \in 0 .. MaxTime, startVoting(t, n, timeout)
      PROVE  Table!Next
  BY <1>1, StartIsStart DEF Table!Next
<1>2. ASSUME NEW t \in TransactionId, NEW i \in 0 .. MaxCohorts,
             NEW b \in {UNKNOWN, COMMIT, ABORT}, vote(t, i, b)
      PROVE  Table!Next
  <2>1. BallotName(b) \in Table!Ballot
    BY DEF BallotName, Table!Ballot
  <2>2. Table!Vote(t, i, BallotName(b))
    BY <1>2, VoteIsVote
  <2> QED
    BY <2>1, <2>2 DEF Table!Next
<1>3. ASSUME Tick
      PROVE  Table!Next
  <2>1. \A s \in TransactionId : Decoded(s)' = Decoded(s)
    BY <1>3 DEF Tick, Decoded
  <2>2. DecodedTable' = DecodedTable
    BY <2>1 DEF DecodedTable
  <2>3. Table!Tick
    BY <1>3, <2>2 DEF Tick, Table!Tick, DecodedTable
  <2> QED
    BY <2>3 DEF Table!Next
<1>4. CASE UNCHANGED vars
  <2>1. \A s \in TransactionId : Decoded(s)' = Decoded(s)
    BY <1>4 DEF vars, Decoded
  <2>2. DecodedTable' = DecodedTable
    BY <2>1 DEF DecodedTable
  <2> QED
    BY <1>4, <2>2 DEF vars, Table!vars, DecodedTable
<1> QED
  BY <1>1, <1>2, <1>3, <1>4 DEF Next

\* The calls of the contract do to the digits of its numbers what the table says
\* of the ballots: a vote replaces the ballot of its cohort and no other, a new
\* voting starts without ballots.
THEOREM ContractRefinement == Spec => BehavesAsBallotTable
<1>1. Init => Table!Init
  BY TableInit
<1>2. TypeOK /\ [Next]_vars => [Table!Next]_(Table!vars)
  BY TableStep
<1>3. Spec => []TypeOK
  BY ContractTypeCorrect
<1> QED
  BY <1>1, <1>2, <1>3, PTL DEF Spec, BehavesAsBallotTable, Table!Spec

-----------------------------------------------------------------------------
(* The width of the numbers *)

\* The powers of 256: a uint256 has 32 bytes and is less than bytes[32].
bytes[n \in Nat] == IF n = 0 THEN 1 ELSE 256 * bytes[n - 1]

LEMMA BytesRecursion ==
  /\ bytes[0] = 1
  /\ \A n \in Nat : bytes[n + 1] = 256 * bytes[n]
  /\ \A n \in Nat : bytes[n] \in Nat \ {0}
<1>1. \E f : IsPowers(f, 256)
  BY PowersExist
<1>2. IsPowers(bytes, 256)
  BY <1>1, Zenon DEF bytes, IsPowers
<1> QED
  BY <1>2, PowersStep

\* Five digits fit a byte.
LEMMA FiveDigitsPerByte ==
  ASSUME NEW n \in Nat
  PROVE  power[5 * n] <= bytes[n]
<1> DEFINE S == {k \in Nat : power[5 * k] <= bytes[k]}
<1>1. 0 \in S
  BY PowerRecursion, BytesRecursion
<1>2. ASSUME NEW k \in Nat, k \in S
      PROVE  k + 1 \in S
  <2> DEFINE m == 5 * k
  <2>1. m \in Nat /\ 5 * (k + 1) = m + 5
    OBVIOUS
  <2> HIDE DEF m
  <2>2. power[m + 5] = 243 * power[m]
    <3>1. power[5] = 243
      <4>1. /\ power[0 + 1] = 3 * power[0] /\ power[1 + 1] = 3 * power[1]
            /\ power[2 + 1] = 3 * power[2] /\ power[3 + 1] = 3 * power[3]
            /\ power[4 + 1] = 3 * power[4]
        BY PowerRecursion
      <4> QED
        BY <4>1, PowerRecursion
    <3>2. power[m + 5] = power[m] * power[5]
      BY <2>1, PowerOfSum
    <3> QED
      BY <2>1, <3>1, <3>2, PowerRecursion
  <2>3. power[m] <= bytes[k] /\ power[m] \in Nat /\ bytes[k] \in Nat
    BY <1>2, <2>1, PowerRecursion, BytesRecursion DEF m
  <2>4. bytes[k + 1] = 256 * bytes[k]
    BY BytesRecursion
  <2> QED
    BY <2>1, <2>2, <2>3, <2>4
<1> HIDE DEF S
<1>3. n \in S
  BY <1>1, <1>2, NatInductionSet
<1> QED
  BY <1>3 DEF S

LEMMA PowersGrow ==
  ASSUME NEW m \in Nat, NEW n \in Nat, m <= n
  PROVE  power[m] <= power[n]
<1>1. n - m \in Nat /\ n = m + (n - m)
  OBVIOUS
<1>2. power[n] = power[m] * power[n - m]
  BY <1>1, PowerOfSum
<1>3. power[m] \in Nat \ {0} /\ power[n - m] \in Nat \ {0}
  BY <1>1, PowerRecursion
<1>4. power[n - m] * power[m] >= power[m]
  BY <1>3, Products
<1> QED
  BY <1>2, <1>3, <1>4, Products

LEMMA WordHoldsTheBallots ==
  ASSUME MaxCohorts <= 120
  PROVE  power[MaxCohorts] < bytes[32]
<1>1. power[MaxCohorts] <= power[120]
  BY ContractAssumption, PowersGrow
<1>2. power[5 * 24] <= bytes[24]
  BY FiveDigitsPerByte
<1>3. bytes[24] < bytes[32]
  <2>1. /\ bytes[24 + 1] = 256 * bytes[24] /\ bytes[25 + 1] = 256 * bytes[25]
        /\ bytes[26 + 1] = 256 * bytes[26] /\ bytes[27 + 1] = 256 * bytes[27]
        /\ bytes[28 + 1] = 256 * bytes[28] /\ bytes[29 + 1] = 256 * bytes[29]
        /\ bytes[30 + 1] = 256 * bytes[30] /\ bytes[31 + 1] = 256 * bytes[31]
    BY BytesRecursion
  <2>2. bytes[24] \in Nat \ {0}
    BY BytesRecursion
  <2> QED
    BY <2>1, <2>2
<1>4. /\ power[MaxCohorts] \in Nat /\ power[120] \in Nat
      /\ bytes[24] \in Nat /\ bytes[32] \in Nat
  BY ContractAssumption, PowerRecursion, BytesRecursion
<1> QED
  BY <1>1, <1>2, <1>3, <1>4

\* The arithmetic of getNewCohortBallot on the ballots of a transaction stays
\* within a uint256: resetting a ballot does not go below zero, and neither a
\* product nor the result goes beyond the word.
NoVoteWraps ==
  \A t \in TransactionId, b \in {COMMIT, ABORT} :
    \A i \in 0 .. transaction_configs[t].cohorts - 1 :
      /\ getCohortBallot(transaction_states[t], i) * power[i] <= transaction_states[t]
      /\ transaction_states[t] < bytes[32]
      /\ b * power[i] < bytes[32]
      /\ getNewCohortBallot(transaction_states[t], i, b) < bytes[32]

LEMMA WidthFromType ==
  ASSUME TypeOK, MaxCohorts <= 120
  PROVE  NoVoteWraps
<1> SUFFICES ASSUME NEW t \in TransactionId, NEW b \in {COMMIT, ABORT},
                    NEW i \in 0 .. transaction_configs[t].cohorts - 1
             PROVE  /\ getCohortBallot(transaction_states[t], i) * power[i]
                         <= transaction_states[t]
                    /\ transaction_states[t] < bytes[32]
                    /\ b * power[i] < bytes[32]
                    /\ getNewCohortBallot(transaction_states[t], i, b) < bytes[32]
  BY DEF NoVoteWraps
<1> DEFINE e == transaction_states[t]
           new == getNewCohortBallot(e, i, b)
<1>1. b \in 0 .. 2
  BY DEF COMMIT, ABORT
<1>2. /\ i \in Nat /\ MaxCohorts \in Nat /\ i < MaxCohorts
      /\ i \in 0 .. MaxCohorts /\ transaction_configs[t].cohorts > i
  BY ConfigType, ContractAssumption
<1>3. e \in 0 .. power[MaxCohorts] - 1 /\ e \in Nat
  BY <1>2, VoteIsInRange
<1>4. getCohortBallot(e, i) * power[i] <= e /\ new \in Nat
  BY <1>1, <1>2, <1>3, NewBallotParts
<1>5. new \in 0 .. power[MaxCohorts] - 1
  BY <1>1, <1>2, <1>3, NewBallotIsBounded
<1>6. b * power[i] <= new
  <2>1. /\ getCohortBallot(e, i) \in 0 .. 2 /\ power[i] \in Nat
        /\ new = (e - getCohortBallot(e, i) * power[i]) + b * power[i]
    BY <1>2, <1>3, Parts, PowerRecursion DEF getNewCohortBallot
  <2>2. getCohortBallot(e, i) * power[i] \in Int /\ b * power[i] \in Int
    BY <1>1, <2>1, Products
  <2> QED
    BY <1>3, <1>4, <2>1, <2>2
<1>7. /\ power[MaxCohorts] < bytes[32] /\ power[MaxCohorts] \in Nat
      /\ bytes[32] \in Nat /\ power[i] \in Nat
  BY <1>2, WordHoldsTheBallots, PowerRecursion, BytesRecursion
<1>8. b * power[i] \in Int
  BY <1>1, <1>7, Products
<1> HIDE DEF e, new
<1>9. e < bytes[32] /\ new < bytes[32] /\ b * power[i] < bytes[32]
  BY <1>3, <1>5, <1>6, <1>7, <1>8
<1> QED
  BY <1>4, <1>9 DEF e, new

\* With at most 120 cohorts, the limit of startVoting, the ballots fit a uint256
\* and no arithmetic of a vote wraps around.
THEOREM BallotsFitTheWord ==
  ASSUME MaxCohorts <= 120
  PROVE  Spec => []NoVoteWraps
<1>1. Spec => []TypeOK
  BY ContractTypeCorrect
<1>2. TypeOK => NoVoteWraps
  BY WidthFromType
<1> QED
  BY <1>1, <1>2, PTL

-----------------------------------------------------------------------------
(* The decision *)

LEMMA AnswersAgree == TypeOK => AnswersAsBallotTable
<1> SUFFICES ASSUME TypeOK, NEW t \in TransactionId, Started(t)
             PROVE  getVotingDecision(t) = Table!getVotingDecision(Decoded(t), now)
  BY DEF AnswersAsBallotTable
<1> DEFINE e == transaction_states[t]
           I == 0 .. transaction_configs[t].cohorts - 1
           Ballots == {getCohortBallot(e, i) : i \in I}
           v == Decoded(t)
<1>1. /\ transaction_configs[t].cohorts \in Nat
      /\ transaction_configs[t].cohorts > 0
      /\ e \in Nat
  <2>1. power[MaxCohorts] \in Nat
    BY ContractAssumption, PowerRecursion
  <2>2. e \in 0 .. power[MaxCohorts] - 1
    BY DEF TypeOK
  <2> QED
    BY <2>1, <2>2, ConfigType DEF Started
<1>2. 0 \in I /\ I \subseteq Nat
  BY <1>1
<1>3. \A i \in I : getCohortBallot(e, i) \in 0 .. 2
  BY <1>1, <1>2, Parts
<1>4. /\ DOMAIN v.ballots = I
      /\ \A i \in I : v.ballots[i] = BallotName(getCohortBallot(e, i))
      /\ v.vote_timeout_time = transaction_configs[t].vote_timeout_time
  BY DEF Decoded
<1> HIDE DEF I, v, e
<1>5. Table!VotedToAbort(v) <=> ABORT \in Ballots
  <2>1. \A i \in I : v.ballots[i] = "ABORT" <=> getCohortBallot(e, i) = ABORT
    BY <1>4 DEF BallotName, COMMIT, ABORT
  <2> QED
    BY <1>4, <2>1 DEF Table!VotedToAbort
<1>6. Table!AllVotedToCommit(v) <=> Ballots = {COMMIT}
  <2>1. \A i \in I : v.ballots[i] = "COMMIT" <=> getCohortBallot(e, i) = COMMIT
    BY <1>4 DEF BallotName, COMMIT, ABORT
  <2>2. Table!AllVotedToCommit(v) <=> \A i \in I : getCohortBallot(e, i) = COMMIT
    BY <1>4, <2>1 DEF Table!AllVotedToCommit
  <2> QED
    BY <1>2, <2>2
<1> HIDE DEF Ballots
<1>7. getVotingDecision(t) =
        IF ABORT \in Ballots THEN "ABORT"
        ELSE IF Ballots = {COMMIT} THEN "COMMIT"
        ELSE IF now >= transaction_configs[t].vote_timeout_time THEN "ABORT"
        ELSE "PENDING"
  BY DEF getVotingDecision, Ballots, I, e
<1>8. Table!getVotingDecision(v, now) =
        IF ABORT \in Ballots THEN "ABORT"
        ELSE IF Ballots = {COMMIT} THEN "COMMIT"
        ELSE IF now >= transaction_configs[t].vote_timeout_time THEN "ABORT"
        ELSE "PENDING"
  BY <1>4, <1>5, <1>6 DEF Table!getVotingDecision
<1> QED
  BY <1>7, <1>8 DEF v

\* getVotingDecision answers from the digits what the table's ballots say.
THEOREM ContractAnswers == Spec => []AnswersAsBallotTable
<1>1. Spec => []TypeOK
  BY ContractTypeCorrect
<1>2. TypeOK => AnswersAsBallotTable
  BY AnswersAgree
<1> QED
  BY <1>1, <1>2, PTL

\* What getVotingDecision reads.
LEMMA SameDigitsSameDecision ==
  ASSUME NEW t \in TransactionId,
         transaction_configs'[t] = transaction_configs[t],
         transaction_states'[t] = transaction_states[t],
         now >= transaction_configs[t].vote_timeout_time,
         now' >= transaction_configs[t].vote_timeout_time
  PROVE  getVotingDecision(t)' = getVotingDecision(t)
  BY DEF getVotingDecision

LEMMA ExpiredStep ==
  ASSUME TypeOK, [Next]_vars, NEW t \in TransactionId, Expired(t),
         transaction_configs'[t] = transaction_configs[t]
  PROVE  getVotingDecision(t)' = getVotingDecision(t)
<1> DEFINE timeout == transaction_configs[t].vote_timeout_time
<1>1. now \in Nat /\ timeout \in Nat /\ now >= timeout
  BY ConfigType, ContractAssumption DEF TypeOK, Expired
<1>2. ASSUME NEW s \in TransactionId, NEW n \in CohortCount,
             NEW limit \in 0 .. MaxTime, startVoting(s, n, limit)
      PROVE  getVotingDecision(t)' = getVotingDecision(t)
  <2>1. s # t
    <3>1. ASSUME s = t
          PROVE  FALSE
      <4>1. transaction_configs'[t].vote_timeout_time = limit
        BY <1>2, <3>1 DEF startVoting, TypeOK
      <4>2. now < limit /\ limit \in Nat
        BY <1>2, ContractAssumption DEF startVoting
      <4> QED
        BY <1>1, <4>1, <4>2
    <3> QED
      BY <3>1
  <2>2. transaction_states'[t] = transaction_states[t] /\ now' = now
    BY <1>2, <2>1 DEF startVoting, TypeOK
  <2> QED
    BY <1>1, <2>2, SameDigitsSameDecision
<1>3. ASSUME NEW s \in TransactionId, NEW i \in 0 .. MaxCohorts,
             NEW b \in {UNKNOWN, COMMIT, ABORT}, vote(s, i, b)
      PROVE  getVotingDecision(t)' = getVotingDecision(t)
  <2>1. s # t
    BY <1>1, <1>3 DEF vote
  <2>2. transaction_states'[t] = transaction_states[t] /\ now' = now
    BY <1>3, <2>1 DEF vote, TypeOK
  <2> QED
    BY <1>1, <2>2, SameDigitsSameDecision
<1>4. ASSUME Tick
      PROVE  getVotingDecision(t)' = getVotingDecision(t)
  <2>1. transaction_states'[t] = transaction_states[t] /\ now' = now + 1
    BY <1>4 DEF Tick
  <2>2. now' >= timeout
    BY <1>1, <2>1
  <2> QED
    BY <1>1, <2>1, <2>2, SameDigitsSameDecision
<1>5. CASE UNCHANGED vars
  <2>1. transaction_states'[t] = transaction_states[t] /\ now' = now
    BY <1>5 DEF vars
  <2> QED
    BY <1>1, <2>1, SameDigitsSameDecision
<1> QED
  BY <1>2, <1>3, <1>4, <1>5 DEF Next

\* After the vote timeout vote reverts, so getVotingDecision keeps its answer
\* until startVoting is called for the id again.
THEOREM ExpiredIsFinal == Spec => ExpiredDecisionIsFinal
<1>1. TypeOK /\ [Next]_vars =>
        [\A t \in TransactionId :
           /\ Expired(t)
           /\ transaction_configs'[t] = transaction_configs[t]
           => getVotingDecision(t)' = getVotingDecision(t)]_vars
  BY ExpiredStep
<1>2. Spec => []TypeOK
  BY ContractTypeCorrect
<1> QED
  BY <1>1, <1>2, PTL DEF Spec, ExpiredDecisionIsFinal
=============================================================================
