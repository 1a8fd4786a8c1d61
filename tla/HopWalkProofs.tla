--------------------------- MODULE HopWalkProofs ---------------------------
(***************************************************************************)
(* The hop rule, and the walk of the receiver along a sequence, for every  *)
(* number of channels; and why a walk misses no channel, for every number  *)
(* that is one less than a prime.                                          *)
(***************************************************************************)
EXTENDS HopWalk, FiniteSetTheorems, WellFoundedInduction, TLAPS

(* next_channel() keeps the index of a channel a channel, for every hop    *)
(* code that is smaller than the number of channels.                       *)
LEMMA NextChannelInRange ==
  ASSUME NEW c \in Channels, NEW h \in 0 .. ChNum - 1
  PROVE  NextChannel(c, h) \in Channels
BY ChNumAssumption DEF NextChannel, U8, Channels

(* One hop never takes two channels to the same one: a receiver on the     *)
(* wrong channel stays on a wrong channel, and no channel is skipped       *)
(* because two others share a successor.                                   *)
THEOREM NextChannelInjective ==
  ASSUME NEW a \in Channels, NEW b \in Channels, NEW h \in 0 .. ChNum - 1,
         NextChannel(a, h) = NextChannel(b, h)
  PROVE  a = b
BY ChNumAssumption DEF NextChannel, U8, Channels

(* The hop index stays inside the calibration table on every walk, as long *)
(* as the hop codes do not exceed the last channel's index.                *)
THEOREM HopIndexStaysInRange ==
  ASSUME HopCodes \subseteq 0 .. ChNum - 1
  PROVE  Spec => []HopIndexInRange
<1> DEFINE Inv == HopIndexInRange /\ hopcode \in HopCodes
<1>1. Init => Inv
  BY ChNumAssumption DEF Init, HopIndexInRange, Channels
<1>2. Inv /\ [Next]_vars => Inv'
  <2> SUFFICES ASSUME Inv, [Next]_vars PROVE Inv'
    OBVIOUS
  <2>1. CASE Hop
    <3>1. hopcode \in 0 .. ChNum - 1
      OBVIOUS
    <3>2. ch' \in Channels
      BY <2>1, <3>1, NextChannelInRange DEF Hop, HopIndexInRange
    <3> QED
      BY <2>1, <3>2 DEF Hop, HopIndexInRange
  <2>2. CASE UNCHANGED vars
    BY <2>2 DEF vars, HopIndexInRange
  <2> QED
    BY <2>1, <2>2 DEF Next
<1>3. Inv => HopIndexInRange
  OBVIOUS
<1> QED
  BY <1>1, <1>2, <1>3, PTL DEF Spec

-----------------------------------------------------------------------------
(* The natural numbers are well-founded: for induction over the hops of a  *)
(* walk, by its least counterexample.                                      *)
LEMMA LeastElement ==
  ASSUME NEW T \in SUBSET Nat, T # {}
  PROVE  \E m \in T : \A i \in T : m <= i
<1> DEFINE R == {x \in Nat \X Nat : x[1] < x[2]}
<1>1. IsWellFoundedOn(R, Nat)
  BY NatLessThanWellFounded DEF OpToRel
<1>2. \A i, m \in Nat : i < m => <<i, m>> \in R
  OBVIOUS
<1> HIDE DEF R
<1>3. PICK m \in T : \A i \in T : ~(<<i, m>> \in R)
  BY <1>1, WFMin
<1>4. ASSUME NEW i \in T PROVE m <= i
  <2>1. i \in Nat /\ m \in Nat /\ ~(i < m)
    BY <1>2, <1>3
  <2> QED
    BY <2>1
<1> QED
  BY <1>4

(* No two smaller numbers multiply to a multiple of it.                    *)
Prime(p) == \A i, j \in 1 .. p - 1 : (i * j) % p # 0

(* A number is its residue and a multiple of the modulus, in one way.      *)
LEMMA Residue ==
  ASSUME NEW p \in Nat \ {0}, NEW q \in Int, NEW r \in 0 .. p - 1
  PROVE  (q * p + r) % p = r
<1> DEFINE m == q * p + r
           d == m \div p
           e == m % p
<1>1. m \in Int /\ d \in Int /\ e \in 0 .. p - 1 /\ m = p * d + e
  OBVIOUS
<1>2. (q - d) * p = e - r
  BY <1>1
<1> HIDE DEF d, e
<1>3. q - d <= 0
  <2> SUFFICES ASSUME q - d >= 1 PROVE FALSE
    BY <1>1
  <2>1. (q - d) * p >= p
    BY <1>1
  <2> QED
    BY <1>1, <1>2, <2>1
<1>4. q - d >= 0
  <2> SUFFICES ASSUME d - q >= 1 PROVE FALSE
    BY <1>1
  <2>1. (d - q) * p >= p /\ (d - q) * p = r - e
    BY <1>1, <1>2
  <2> QED
    BY <1>1, <2>1
<1>5. q = d
  BY <1>1, <1>3, <1>4
<1>6. e = r
  BY <1>1, <1>2, <1>5
<1> QED
  BY <1>6 DEF e

LEMMA ResidueMoves ==
  ASSUME NEW p \in Nat \ {0}, NEW m \in Nat, NEW s \in 0 .. p
  PROVE  /\ m % p \in 0 .. p - 1
         /\ (m + s) % p = IF (m % p) + s < p THEN (m % p) + s ELSE (m % p) + s - p
<1> DEFINE d == m \div p
           e == m % p
<1>1. m \in Int /\ d \in Int /\ e \in 0 .. p - 1 /\ m = d * p + e
  OBVIOUS
<1> HIDE DEF d, e
<1>2. CASE e + s < p
  BY <1>1, <1>2, Residue, m + s = d * p + (e + s), e + s \in 0 .. p - 1 DEF e
<1>3. CASE e + s >= p
  <2>1. m + s = (d + 1) * p + (e + s - p) /\ e + s - p \in 0 .. p - 1 /\ d + 1 \in Int
    BY <1>1, <1>3
  <2>2. (m + s) % p = e + s - p
    BY <2>1, Residue
  <2> QED
    BY <1>1, <1>3, <2>2 DEF e
<1> QED
  BY <1>1, <1>2, <1>3 DEF e

(* The hop rule without its bytes: a step modulo ChNum + 1, and a second   *)
(* one if the first does not end on a channel.                             *)
LEMMA NextChannelSteps ==
  ASSUME NEW c \in Channels, NEW code \in 0 .. ChNum - 2
  PROVE  NextChannel(c, code) =
           LET x == c + (code + 2) IN
           IF x < ChNum THEN x
           ELSE IF x = ChNum THEN (code + 2) - 1 ELSE x - (ChNum + 1)
BY ChNumAssumption DEF NextChannel, U8, Channels

(* Where there is no divisor to come back early, the steps of a walk run   *)
(* through different residues, and so through all of them.                 *)
Step(p, s, c, j) == (c + j * s) % p

LEMMA StepType ==
  ASSUME NEW p \in Nat \ {0}, NEW s \in 0 .. p, NEW c \in 0 .. p - 1, NEW j \in Nat
  PROVE  /\ Step(p, s, c, 0) = c
         /\ Step(p, s, c, j) \in 0 .. p - 1
         /\ Step(p, s, c, j + 1) = LET x == Step(p, s, c, j) + s IN
                                   IF x < p THEN x ELSE x - p
<1> DEFINE m == c + j * s
<1>1. m \in Nat /\ c + (j + 1) * s = m + s /\ c + 0 * s = 0 * p + c
  OBVIOUS
<1> HIDE DEF m
<1>2. /\ m % p \in 0 .. p - 1
      /\ (m + s) % p = IF (m % p) + s < p THEN (m % p) + s ELSE (m % p) + s - p
  BY <1>1, ResidueMoves
<1>3. (0 * p + c) % p = c
  BY Residue
<1> QED
  BY <1>1, <1>2, <1>3 DEF Step, m

LEMMA StepsDiffer ==
  ASSUME NEW p \in Nat, p > 1, Prime(p), NEW s \in 1 .. p - 1, NEW c \in 0 .. p - 1,
         NEW i \in 0 .. p - 1, NEW j \in 0 .. p - 1, i < j
  PROVE  Step(p, s, c, i) # Step(p, s, c, j)
<1> SUFFICES ASSUME Step(p, s, c, i) = Step(p, s, c, j) PROVE FALSE
  OBVIOUS
<1> DEFINE a == c + i * s
           b == c + j * s
<1>1. a \in Int /\ b \in Int /\ a % p = b % p
  BY DEF Step
<1>2. j - i \in 1 .. p - 1 /\ b - a = (j - i) * s
  <2>1. (j - i) * s = j * s - i * s
    OBVIOUS
  <2>2. i * s \in Int /\ j * s \in Int
    OBVIOUS
  <2>3. (c + j * s) - (c + i * s) = j * s - i * s
    BY <2>2
  <2>4. j - i \in 1 .. p - 1
    OBVIOUS
  <2> QED
    BY <2>1, <2>3, <2>4
<1> HIDE DEF a, b
<1>3. b - a = (b \div p - a \div p) * p + 0 /\ b \div p - a \div p \in Int
  BY <1>1
<1>4. (b - a) % p = 0
  BY <1>3, Residue
<1> QED
  BY <1>2, <1>4 DEF Prime

LEMMA StepsMeetAll ==
  ASSUME NEW p \in Nat, p > 1, Prime(p), NEW s \in 1 .. p - 1, NEW c \in 0 .. p - 1,
         NEW y \in 0 .. p - 1
  PROVE  \E j \in 0 .. p - 1 : Step(p, s, c, j) = y
<1> DEFINE Z == 0 .. p - 1
           r == [j \in Z |-> Step(p, s, c, j)]
<1>1. r \in [Z -> Z]
  BY StepType
<1>2. \A i, j \in Z : r[i] = r[j] => i = j
  <2> SUFFICES ASSUME NEW i \in Z, NEW j \in Z, r[i] = r[j], i # j PROVE FALSE
    OBVIOUS
  <2>1. i < j \/ j < i
    OBVIOUS
  <2> QED
    BY <2>1, StepsDiffer
<1> HIDE DEF r
<1>3. r \in Injection(Z, Z)
  BY <1>1, <1>2 DEF Injection, IsInjective
<1>4. r \in Surjection(Z, Z)
  BY <1>3, FS_Injection, FS_Interval
<1>5. PICK j \in Z : r[j] = y
  BY <1>4 DEF Surjection
<1> QED
  BY <1>5 DEF r

(* What a walk is: a function that hops from each element to the next.     *)
LEMMA WalkIs ==
  ASSUME NEW from, NEW code, NEW q,
         \A k \in 0 .. ChNum - 1 : q[k] = IF k = 0 THEN from ELSE NextChannel(q[k - 1], code)
  PROVE  Ahead(from, code) = {q[k] : k \in 0 .. ChNum - 1}
<1> DEFINE K == 0 .. ChNum - 1
           at == [k \in K |-> q[k]]
           walk[k \in 0 .. ChNum - 1] ==
             IF k = 0 THEN from ELSE NextChannel(walk[k - 1], code)
<1>0. K \in SUBSET Nat /\ \A k \in K : k = 0 \/ (k - 1 \in K /\ ~(k <= k - 1))
  BY ChNumAssumption
<1>1. walk = [k \in K |-> IF k = 0 THEN from ELSE NextChannel(walk[k - 1], code)]
  <2>0. at = [k \in 0 .. ChNum - 1 |-> IF k = 0 THEN from ELSE NextChannel(at[k - 1], code)]
    BY <1>0
  <2>1. \E w : w = [k \in 0 .. ChNum - 1 |-> IF k = 0 THEN from ELSE NextChannel(w[k - 1], code)]
    BY <2>0
  <2>2. walk = [k \in 0 .. ChNum - 1 |-> IF k = 0 THEN from ELSE NextChannel(walk[k - 1], code)]
    BY <2>1
  <2> QED
    BY <2>2
<1>2. Ahead(from, code) = {walk[k] : k \in K}
  BY DEF Ahead, walk
<1> HIDE DEF walk
<1>4. \A k \in K : walk[k] = q[k]
  <2> DEFINE Bad == {k \in K : walk[k] # q[k]}
  <2> SUFFICES ASSUME Bad # {} PROVE FALSE
    OBVIOUS
  <2>1. Bad \in SUBSET Nat
    BY <1>0
  <2>2. PICK k \in Bad : \A i \in Bad : k <= i
    <3> HIDE DEF Bad
    <3> QED
      BY <2>1, LeastElement
  <2>3. k \in K /\ walk[k] # q[k]
    OBVIOUS
  <2>4. k # 0
    BY <1>1, <2>3
  <2>5. k - 1 \in K /\ walk[k - 1] = q[k - 1]
    BY <1>0, <2>2, <2>3, <2>4
  <2> QED
    BY <1>1, <2>3, <2>4, <2>5
<1> QED
  BY <1>2, <1>4

(* Steps of s modulo N + 1 that meet no residue twice, and the same steps  *)
(* without the one onto N.                                                 *)
Steps(r, N, s) ==
  /\ \A j \in 0 .. N + 1 : r[j] \in 0 .. N
  /\ \A j \in 0 .. N : r[j + 1] = IF r[j] + s <= N THEN r[j] + s ELSE r[j] + s - (N + 1)
  /\ \A i, j \in 0 .. N : r[i] = r[j] => i = j

Skip(r, N, at) == [k \in 0 .. N - 1 |-> IF k < at THEN r[k] ELSE r[k + 1]]

LEMMA SkipHops ==
  ASSUME NEW N \in Nat, NEW s \in 2 .. N, NEW r, Steps(r, N, s),
         NEW at \in 1 .. N, r[at] = N, NEW q, q = Skip(r, N, at),
         NEW k \in 0 .. N - 1
  PROVE  /\ q[k] \in 0 .. N - 1
         /\ k = 0 => q[k] = r[0]
         /\ k > 0 => LET x == q[k - 1] + s IN
              q[k] = IF x < N THEN x ELSE IF x = N THEN s - 1 ELSE x - (N + 1)
<1>1. /\ k \in 0 .. N /\ k + 1 \in 0 .. N /\ k \in 0 .. N + 1 /\ k + 1 \in 0 .. N + 1
      /\ k > 0 => /\ k - 1 \in 0 .. N /\ k - 1 \in 0 .. N + 1 /\ (k - 1) + 1 = k
                  /\ k - 1 \in 0 .. N - 1
      /\ at \in 0 .. N
  OBVIOUS
<1> DEFINE Up(x, y) == y = IF x + s <= N THEN x + s ELSE x + s - (N + 1)
           a == r[k - 1]
           b == r[k]
           c == r[k + 1]
<1>2. /\ b \in 0 .. N /\ c \in 0 .. N /\ Up(b, c)
      /\ k > 0 => a \in 0 .. N /\ Up(a, b)
  BY <1>1 DEF Steps
<1>3. /\ b = N => k = at
      /\ c = N => k + 1 = at
  BY <1>1 DEF Steps
<1>4. q[k] = IF k < at THEN b ELSE c
  BY DEF Skip
<1>5. k > 0 => q[k - 1] = IF k - 1 < at THEN a ELSE b
  BY <1>1 DEF Skip
<1>6. k = at => b = N
  OBVIOUS
<1> HIDE DEF a, b, c
<1>7. q[k] \in 0 .. N - 1
  BY <1>2, <1>3, <1>4
<1>8. ASSUME k > 0
      PROVE  LET x == q[k - 1] + s IN
               q[k] = IF x < N THEN x ELSE IF x = N THEN s - 1 ELSE x - (N + 1)
  BY <1>2, <1>3, <1>4, <1>5, <1>6, <1>8
<1>9. k = 0 => q[k] = r[0]
  BY <1>4 DEF b
<1> QED
  BY <1>7, <1>8, <1>9

LEMMA SkipKeeps ==
  ASSUME NEW N \in Nat, NEW r, NEW at \in 1 .. N, NEW j \in 0 .. N, j # at
  PROVE  \E k \in 0 .. N - 1 : Skip(r, N, at)[k] = r[j]
<1> DEFINE k == IF j < at THEN j ELSE j - 1
<1>1. k \in 0 .. N - 1 /\ j = IF k < at THEN k ELSE k + 1
  OBVIOUS
<1> HIDE DEF k
<1>2. Skip(r, N, at)[k] = r[j]
  BY <1>1 DEF Skip
<1> QED
  BY <1>1, <1>2

LEMMA StepsAre ==
  ASSUME NEW N \in Nat, N > 1, Prime(N + 1), NEW s \in 2 .. N, NEW c \in 0 .. N,
         NEW r, \A j \in 0 .. N + 1 : r[j] = Step(N + 1, s, c, j)
  PROVE  /\ Steps(r, N, s)
         /\ r[0] = c
         /\ \A y \in 0 .. N : \E j \in 0 .. N : r[j] = y
<1> DEFINE p == N + 1
<1>1. /\ p \in Nat /\ p \in Nat \ {0} /\ p > 1 /\ Prime(p)
      /\ s \in 1 .. p - 1 /\ s \in 0 .. p /\ c \in 0 .. p - 1 /\ p - 1 = N
  OBVIOUS
<1>2. \A j \in 0 .. N + 1 : r[j] = Step(p, s, c, j)
  OBVIOUS
<1> HIDE DEF p
<1>3. ASSUME NEW j \in 0 .. N + 1 PROVE r[j] \in 0 .. N
  <2>1. j \in Nat
    OBVIOUS
  <2>2. Step(p, s, c, j) \in 0 .. p - 1
    BY <1>1, <2>1, StepType
  <2> QED
    BY <1>1, <1>2, <2>2
<1>4. ASSUME NEW j \in 0 .. N
      PROVE  r[j + 1] = IF r[j] + s <= N THEN r[j] + s ELSE r[j] + s - (N + 1)
  <2>1. Step(p, s, c, j + 1) = LET x == Step(p, s, c, j) + s IN IF x < p THEN x ELSE x - p
    BY <1>1, StepType
  <2>2. j \in 0 .. N + 1 /\ j + 1 \in 0 .. N + 1
    OBVIOUS
  <2>3. Step(p, s, c, j) = r[j] /\ Step(p, s, c, j + 1) = r[j + 1] /\ r[j] \in 0 .. N
    BY <1>2, <1>3, <2>2
  <2> QED
    BY <2>1, <2>3 DEF p
<1>5. ASSUME NEW i \in 0 .. N, NEW j \in 0 .. N, r[i] = r[j], i # j PROVE FALSE
  <2>1. i < j \/ j < i
    BY <1>5
  <2>2. i \in 0 .. p - 1 /\ j \in 0 .. p - 1 /\ Step(p, s, c, i) = Step(p, s, c, j)
    BY <1>1, <1>2, <1>5
  <2> QED
    BY <1>1, <2>1, <2>2, StepsDiffer
<1>6. ASSUME NEW y \in 0 .. N PROVE \E j \in 0 .. N : r[j] = y
  <2>0. y \in 0 .. p - 1
    BY <1>1
  <2>1. PICK j \in 0 .. p - 1 : Step(p, s, c, j) = y
    BY <1>1, <2>0, StepsMeetAll
  <2>2. j \in 0 .. N /\ j \in 0 .. N + 1
    BY <1>1, <2>1
  <2> QED
    BY <1>2, <2>1, <2>2
<1>7. r[0] = c
  <2>1. Step(p, s, c, 0) = c
    BY <1>1, StepType
  <2> QED
    BY <1>2, <2>1
<1>8. Steps(r, N, s)
  BY <1>3, <1>4, <1>5 DEF Steps
<1> QED
  BY <1>6, <1>7, <1>8

(* From every channel a walk meets every channel, whatever the hop code:   *)
(* next_channel() has one cycle.  The code ChNum - 1 stands still.         *)
THEOREM WalkMeetsAll ==
  ASSUME Prime(ChNum + 1), NEW from \in Channels, NEW code \in 0 .. ChNum - 2
  PROVE  Ahead(from, code) = Channels
<1>s. PICK s : s = code + 2
  OBVIOUS
<1>1. /\ ChNum \in Nat /\ ChNum > 1 /\ s \in 2 .. ChNum
      /\ from \in 0 .. ChNum /\ from # ChNum /\ ChNum \in 0 .. ChNum
  BY <1>s, ChNumAssumption DEF Channels
<1>0. PICK r : r = [j \in 0 .. ChNum + 1 |-> Step(ChNum + 1, s, from, j)]
  OBVIOUS
<1>2. /\ Steps(r, ChNum, s)
      /\ r[0] = from
      /\ \A y \in 0 .. ChNum : \E j \in 0 .. ChNum : r[j] = y
  <2>1. \A j \in 0 .. ChNum + 1 : r[j] = Step(ChNum + 1, s, from, j)
    BY <1>0
  <2> QED
    BY <1>1, <2>1, StepsAre
<1>3. PICK at \in 0 .. ChNum : r[at] = ChNum
  BY <1>1, <1>2
<1>4. at \in 1 .. ChNum
  BY <1>1, <1>2, <1>3
<1> DEFINE q == Skip(r, ChNum, at)
           K == 0 .. ChNum - 1
<1> HIDE DEF q
<1>6. ASSUME NEW k \in K
      PROVE  /\ q[k] \in Channels
             /\ q[k] = IF k = 0 THEN from ELSE NextChannel(q[k - 1], code)
  <2>1. /\ q[k] \in K
        /\ k = 0 => q[k] = r[0]
        /\ k > 0 => LET x == q[k - 1] + s IN
             q[k] = IF x < ChNum THEN x
                    ELSE IF x = ChNum THEN s - 1 ELSE x - (ChNum + 1)
    BY <1>1, <1>2, <1>3, <1>4, SkipHops DEF q
  <2>2. CASE k = 0
    BY <1>2, <2>1, <2>2 DEF Channels
  <2>3. CASE k > 0
    <3>1. k - 1 \in K
      BY <1>1, <2>3
    <3>2. q[k - 1] \in Channels
      BY <1>1, <1>2, <1>3, <1>4, <3>1, SkipHops DEF q, Channels
    <3>3. NextChannel(q[k - 1], code) =
            LET x == q[k - 1] + s IN
            IF x < ChNum THEN x
            ELSE IF x = ChNum THEN s - 1 ELSE x - (ChNum + 1)
      BY <1>s, <3>2, NextChannelSteps
    <3> QED
      BY <2>1, <2>3, <3>3 DEF Channels
  <2> QED
    BY <1>1, <2>2, <2>3
<1>7. Ahead(from, code) = {q[k] : k \in K}
  BY <1>6, WalkIs
<1>8. ASSUME NEW y \in Channels PROVE \E k \in K : q[k] = y
  <2>1. y \in 0 .. ChNum /\ y # ChNum
    BY <1>1 DEF Channels
  <2>2. PICK j \in 0 .. ChNum : r[j] = y
    BY <1>2, <2>1
  <2>3. j # at
    BY <1>3, <2>1, <2>2
  <2> QED
    BY <1>1, <1>4, <2>2, <2>3, SkipKeeps DEF q
<1> QED
  BY <1>6, <1>7, <1>8

(* SFHSS_CHNUM is 30.                                                      *)
LEMMA ThirtyOneIsPrime == Prime(31)
<1> SUFFICES ASSUME NEW i \in 1 .. 30, NEW j \in 1 .. 30 PROVE (i * j) % 31 # 0
  BY DEF Prime
<1>1. CASE i \in 1 .. 10
  BY <1>1
<1>2. CASE i \in 11 .. 20
  BY <1>2
<1>3. CASE i \in 21 .. 30
  BY <1>3
<1> QED
  BY <1>1, <1>2, <1>3
=============================================================================
