-------------------------- MODULE GroundTrimProofs --------------------------
(***************************************************************************)
(* Theorems about GroundTrim, for every window length, spread, limit and   *)
(* every set of axes, motions and offsets.                                 *)
(***************************************************************************)
EXTENDS GroundTrim, TLAPS

(* What an open window knows of each axis: its sum lies between n times    *)
(* the extremes, a moment of rest in it puts the offset between them, and  *)
(* a fast turn in it puts one of them Spread away from the offset.         *)
SumInv ==
  n > 0 => \A a \in Axes : /\ lo[a] <= hi[a]
                           /\ n * lo[a] <= sum[a] /\ sum[a] <= n * hi[a]

SeenInv ==
  \A a \in Axes :
    /\ rested[a] < n => lo[a] <= offset[a] /\ offset[a] <= hi[a]
    /\ jolted[a] < n => hi[a] >= offset[a] + Spread \/ lo[a] <= offset[a] - Spread

AloftInv == aloft >= n

(* A rest as long as the open window fills it with the offset, and one of  *)
(* a window more has closed a window that was filled so.                   *)
RestInv ==
  /\ stillRun >= n /\ n > 0 =>
       \A a \in Axes : lo[a] = offset[a] /\ hi[a] = offset[a] /\ sum[a] = n * offset[a]
  /\ stillRun >= Window + n /\ InLimit => \A a \in Axes : trim[a] = Window * offset[a]

Inv == TypeOK /\ SumInv /\ SeenInv /\ AloftInv /\ RestInv /\ RestReadsZero

-----------------------------------------------------------------------------
(* One sample more in a product, and products of ordered factors.          *)
LEMMA OneMore ==
  ASSUME NEW k \in Nat, NEW x \in Int
  PROVE  (k + 1) * x = k * x + x
  OBVIOUS

LEMMA Monotone ==
  ASSUME NEW k \in Nat, NEW x \in Int, NEW y \in Int, x <= y
  PROVE  k * x <= k * y
  OBVIOUS

(* One more sample within its extremes keeps a sum between n times the     *)
(* extremes.                                                               *)
LEMMA SumStaysBetween ==
  ASSUME NEW k \in Nat, NEW l \in Int, NEW h \in Int, NEW s \in Int,
         NEW x \in Int, NEW low \in Int, NEW high \in Int,
         k * l <= s, s <= k * h,
         low <= l, low <= x, h <= high, x <= high
  PROVE  (k + 1) * low <= s + x /\ s + x <= (k + 1) * high
  <1>1. k * low <= k * l /\ k * h <= k * high
    BY Monotone
  <1>2. k * low \in Int /\ k * high \in Int /\ k * l \in Int /\ k * h \in Int
    OBVIOUS
  <1> DEFINE kl == k * low
             kh == k * high
  <1>3. (k + 1) * low = kl + low /\ (k + 1) * high = kh + high
    BY OneMore
  <1>4. kl <= s /\ s <= kh
    BY <1>1, <1>2
  <1>5. kl \in Int /\ kh \in Int
    BY <1>2
  <1> HIDE DEF kl, kh
  <1>6. kl + low <= s + x /\ s + x <= kh + high
    BY <1>4, <1>5
  <1>7. QED
    BY <1>3, <1>6

(* Histories count up to their limit.                                      *)
LEMMA LaterInRange ==
  ASSUME NEW limit \in Nat, NEW age \in 0 .. limit
  PROVE  /\ Later(age, limit) \in 0 .. limit
         /\ Later(age, limit) = age + 1 \/ (age = limit /\ Later(age, limit) = limit)
  BY DEF Later

-----------------------------------------------------------------------------
LEMMA InitInv == Init => Inv
  <1> SUFFICES ASSUME Init PROVE Inv
    OBVIOUS
  <1> USE TrimAssumption
  <1>1. Limit * Window \in Nat \ {0}
    OBVIOUS
  <1>2. 0 \in -(Limit * Window) + 1 .. Limit * Window - 1
    BY <1>1
  <1>3. trim \in [Axes -> -(Limit * Window) + 1 .. Limit * Window - 1]
    BY <1>2 DEF Init, Zero
  <1>4. TypeOK
    BY <1>3 DEF Init, TypeOK, Zero, Never
  <1>5. SumInv /\ AloftInv /\ RestReadsZero
    BY DEF Init, SumInv, AloftInv, RestReadsZero, Zero
  <1>6. SeenInv
    <2>1. \A a \in Axes : ~(rested[a] < n) /\ ~(jolted[a] < n)
      <3> TAKE a \in Axes
      <3>1. rested[a] = Window /\ jolted[a] = Window /\ n = 0
        BY DEF Init, Never
      <3>2. QED
        BY <3>1
    <2>2. QED
      BY <2>1 DEF SeenInv
  <1>7. RestInv
    BY DEF Init, RestInv
  <1>8. QED
    BY <1>4, <1>5, <1>6, <1>7 DEF Inv

-----------------------------------------------------------------------------
(* The facts about one sample that the proofs below share.                 *)
LEMMA SampleFacts ==
  ASSUME TypeOK, NEW motion \in [Axes -> Motions], NEW ground \in BOOLEAN,
         Remember(motion, ground), UNCHANGED offset, NEW a \in Axes
  PROVE  /\ motion[a] \in Int /\ offset[a] \in Int /\ offset' = offset
         /\ lo[a] \in Int /\ hi[a] \in Int /\ sum[a] \in Int /\ trim[a] \in Int
         /\ rested[a] \in 0 .. Window /\ jolted[a] \in 0 .. Window
         /\ rested'[a] = IF motion[a] = 0 THEN 0 ELSE Later(rested[a], Window)
         /\ jolted'[a] = IF motion[a] >= Spread \/ motion[a] <= -Spread
                         THEN 0 ELSE Later(jolted[a], Window)
  <1>1. motion[a] \in Motions /\ offset[a] \in Offsets
    BY DEF TypeOK
  <1>2. motion[a] \in Int /\ offset[a] \in Int
    BY <1>1, TrimAssumption
  <1>3. lo[a] \in Int /\ hi[a] \in Int /\ sum[a] \in Int
    BY DEF TypeOK
  <1>4. trim[a] \in Int
    <2>1. trim[a] \in -(Limit * Window) + 1 .. Limit * Window - 1
      BY DEF TypeOK
    <2>2. QED
      BY <2>1
  <1>5. rested[a] \in 0 .. Window /\ jolted[a] \in 0 .. Window
    BY DEF TypeOK
  <1>6. QED
    BY <1>2, <1>3, <1>4, <1>5 DEF Remember

(* The histories stay in their ranges.                                     *)
LEMMA HistoryType ==
  ASSUME TypeOK, NEW motion \in [Axes -> Motions], NEW ground \in BOOLEAN,
         Remember(motion, ground), UNCHANGED offset
  PROVE  /\ aloft' \in 0 .. Window /\ stillRun' \in 0 .. 2 * Window
         /\ rested' \in [Axes -> 0 .. Window] /\ jolted' \in [Axes -> 0 .. Window]
  <1> USE TrimAssumption
  <1>1. Window \in Nat /\ 2 * Window \in Nat
    OBVIOUS
  <1>2. aloft \in 0 .. Window /\ stillRun \in 0 .. 2 * Window
    BY DEF TypeOK
  <1>3. Later(aloft, Window) \in 0 .. Window /\ Later(stillRun, 2 * Window) \in 0 .. 2 * Window
    BY <1>1, <1>2, LaterInRange
  <1>4. aloft' \in 0 .. Window /\ stillRun' \in 0 .. 2 * Window
    BY <1>1, <1>3 DEF Remember
  <1>5. \A a \in Axes : Later(rested[a], Window) \in 0 .. Window
                        /\ Later(jolted[a], Window) \in 0 .. Window
    <2> TAKE a \in Axes
    <2>1. rested[a] \in 0 .. Window /\ jolted[a] \in 0 .. Window
      BY DEF TypeOK
    <2>2. QED
      BY <1>1, <2>1, LaterInRange
  <1>6. 0 \in 0 .. Window
    BY <1>1
  <1>7. rested' \in [Axes -> 0 .. Window] /\ jolted' \in [Axes -> 0 .. Window]
    BY <1>5, <1>6 DEF Remember
  <1>8. QED
    BY <1>4, <1>7

(* What a sample on the ground makes of the window, axis by axis.          *)
LEMMA GatherFacts ==
  ASSUME TypeOK, NEW motion \in [Axes -> Motions], NEW g,
         g = [a \in Axes |-> motion[a] + offset[a]], Gather(g), NEW a \in Axes
  PROVE  /\ g[a] = motion[a] + offset[a]
         /\ lo'[a] = IF n = 0 \/ g[a] < lo[a] THEN g[a] ELSE lo[a]
         /\ hi'[a] = IF n = 0 \/ g[a] > hi[a] THEN g[a] ELSE hi[a]
         /\ sum'[a] = IF n = 0 THEN g[a] ELSE sum[a] + g[a]
  <1>1. g[a] = motion[a] + offset[a]
    OBVIOUS
  <1>2. lo' = Lowest(g) /\ hi' = Highest(g) /\ sum' = Total(g)
    BY DEF Gather
  <1>3. QED
    BY <1>1, <1>2 DEF Lowest, Highest, Total

LEMMA GatherType ==
  ASSUME TypeOK, NEW motion \in [Axes -> Motions], NEW ground \in BOOLEAN, NEW g,
         g = [a \in Axes |-> motion[a] + offset[a]], Gather(g),
         Remember(motion, ground), UNCHANGED offset,
         rate' = [a \in Axes |-> Window * g[a] - trim[a]]
  PROVE  TypeOK'
  <1> USE TrimAssumption
  <1>1. \A a \in Axes : g[a] \in Int /\ lo'[a] \in Int /\ hi'[a] \in Int /\ sum'[a] \in Int
                        /\ Window * g[a] - trim[a] \in Int
    <2> TAKE a \in Axes
    <2>1. /\ motion[a] \in Int /\ offset[a] \in Int /\ trim[a] \in Int
          /\ lo[a] \in Int /\ hi[a] \in Int /\ sum[a] \in Int
      BY SampleFacts
    <2>2. g[a] \in Int
      BY <2>1
    <2>3. lo'[a] \in Int /\ hi'[a] \in Int /\ sum'[a] \in Int
      BY <2>1, <2>2, GatherFacts
    <2>4. QED
      BY <2>1, <2>2, <2>3
  <1>2. lo' \in [Axes -> Int] /\ hi' \in [Axes -> Int] /\ sum' \in [Axes -> Int]
    <2>1. /\ lo' = [a \in Axes |-> lo'[a]] /\ hi' = [a \in Axes |-> hi'[a]]
          /\ sum' = [a \in Axes |-> sum'[a]]
      BY DEF Gather, Lowest, Highest, Total
    <2>2. QED
      BY <1>1, <2>1
  <1>3. rate' \in [Axes -> Int]
    BY <1>1
  <1>4. n' \in 0 .. Window - 1
    BY DEF TypeOK, Gather
  <1>5. trim' \in [Axes -> -(Limit * Window) + 1 .. Limit * Window - 1]
    <2>1. CASE trim' = trim
      BY <2>1 DEF TypeOK
    <2>2. CASE trim' = sum' /\ Still(lo', hi', sum')
      <3>1. Limit * Window \in Nat
        OBVIOUS
      <3>2. \A a \in Axes : sum'[a] \in -(Limit * Window) + 1 .. Limit * Window - 1
        <4> TAKE a \in Axes
        <4>1. sum'[a] \in Int /\ -Limit * Window < sum'[a] /\ sum'[a] < Limit * Window
          BY <1>1, <2>2 DEF Still
        <4>2. -Limit * Window = -(Limit * Window)
          OBVIOUS
        <4> DEFINE lw == Limit * Window
        <4>3. lw \in Nat /\ -lw < sum'[a] /\ sum'[a] < lw
          BY <3>1, <4>1, <4>2
        <4> HIDE DEF lw
        <4>4. sum'[a] \in -lw + 1 .. lw - 1
          BY <4>1, <4>3
        <4>5. QED
          BY <4>4 DEF lw
      <3>3. QED
        BY <1>2, <2>2, <3>2
    <2>3. QED
      BY <2>1, <2>2 DEF Gather
  <1>6. offset' \in [Axes -> Offsets]
    BY DEF TypeOK
  <1>7. QED
    BY <1>2, <1>3, <1>4, <1>5, <1>6, HistoryType DEF TypeOK

(* The facts of the window with the sample in it, full or not.             *)
LEMMA GatherSum ==
  ASSUME TypeOK, SumInv, NEW motion \in [Axes -> Motions], NEW ground \in BOOLEAN, NEW g,
         g = [a \in Axes |-> motion[a] + offset[a]], Gather(g),
         Remember(motion, ground), UNCHANGED offset, NEW a \in Axes
  PROVE  /\ lo'[a] <= hi'[a]
         /\ (n + 1) * lo'[a] <= sum'[a] /\ sum'[a] <= (n + 1) * hi'[a]
  <1>1. n \in Nat
    BY TrimAssumption DEF TypeOK
  <1>2. /\ motion[a] \in Int /\ offset[a] \in Int
        /\ lo[a] \in Int /\ hi[a] \in Int /\ sum[a] \in Int
    BY SampleFacts
  <1>3. g[a] \in Int
    BY <1>2
  <1>4. CASE n = 0
    <2>1. lo'[a] = g[a] /\ hi'[a] = g[a] /\ sum'[a] = g[a]
      BY <1>4, GatherFacts
    <2>2. QED
      BY <1>3, <1>4, <2>1
  <1>5. CASE n > 0
    <2>1. lo[a] <= hi[a] /\ n * lo[a] <= sum[a] /\ sum[a] <= n * hi[a]
      BY <1>5 DEF SumInv
    <2>2. /\ lo'[a] = IF g[a] < lo[a] THEN g[a] ELSE lo[a]
          /\ hi'[a] = IF g[a] > hi[a] THEN g[a] ELSE hi[a]
          /\ sum'[a] = sum[a] + g[a]
      BY <1>1, <1>5, GatherFacts
    <2>3. /\ lo'[a] \in Int /\ hi'[a] \in Int /\ lo'[a] <= hi'[a]
          /\ lo'[a] <= lo[a] /\ lo'[a] <= g[a] /\ hi[a] <= hi'[a] /\ g[a] <= hi'[a]
      BY <1>2, <1>3, <2>1, <2>2
    <2>4. (n + 1) * lo'[a] <= sum[a] + g[a] /\ sum[a] + g[a] <= (n + 1) * hi'[a]
      BY <1>1, <1>2, <1>3, <2>1, <2>3, SumStaysBetween
    <2>5. QED
      BY <2>2, <2>3, <2>4
  <1>6. QED
    BY <1>1, <1>4, <1>5

LEMMA GatherSeen ==
  ASSUME TypeOK, SumInv, SeenInv, NEW motion \in [Axes -> Motions], NEW ground \in BOOLEAN,
         NEW g, g = [a \in Axes |-> motion[a] + offset[a]], Gather(g),
         Remember(motion, ground), UNCHANGED offset, NEW a \in Axes
  PROVE  /\ rested'[a] < n + 1 => lo'[a] <= offset[a] /\ offset[a] <= hi'[a]
         /\ jolted'[a] < n + 1 =>
              hi'[a] >= offset[a] + Spread \/ lo'[a] <= offset[a] - Spread
  <1> USE TrimAssumption
  <1>1. n \in Nat /\ n + 1 <= Window
    BY DEF TypeOK
  <1>2. /\ motion[a] \in Int /\ offset[a] \in Int /\ lo[a] \in Int /\ hi[a] \in Int
        /\ rested[a] \in 0 .. Window /\ jolted[a] \in 0 .. Window
        /\ rested'[a] = IF motion[a] = 0 THEN 0 ELSE Later(rested[a], Window)
        /\ jolted'[a] = IF motion[a] >= Spread \/ motion[a] <= -Spread
                        THEN 0 ELSE Later(jolted[a], Window)
    BY SampleFacts
  <1>3. /\ g[a] = motion[a] + offset[a]
        /\ lo'[a] = IF n = 0 \/ g[a] < lo[a] THEN g[a] ELSE lo[a]
        /\ hi'[a] = IF n = 0 \/ g[a] > hi[a] THEN g[a] ELSE hi[a]
    BY GatherFacts
  <1>4. lo'[a] <= g[a] /\ g[a] <= hi'[a] /\ (n > 0 => lo'[a] <= lo[a] /\ hi[a] <= hi'[a])
        /\ lo'[a] \in Int /\ hi'[a] \in Int
    BY <1>1, <1>2, <1>3
  <1>5. ASSUME rested'[a] < n + 1 PROVE lo'[a] <= offset[a] /\ offset[a] <= hi'[a]
    <2>1. CASE motion[a] = 0
      BY <1>2, <1>3, <1>4, <2>1
    <2>2. CASE motion[a] # 0
      <3>1. rested[a] < n
        <4>1. rested'[a] = Later(rested[a], Window) /\ rested[a] \in 0 .. Window
          BY <1>2, <2>2
        <4>2. rested'[a] = rested[a] + 1 \/ rested'[a] = Window
          BY <4>1 DEF Later
        <4>3. QED
          BY <1>1, <1>5, <4>1, <4>2
      <3>2. n > 0 /\ lo[a] <= offset[a] /\ offset[a] <= hi[a]
        BY <1>1, <1>2, <3>1 DEF SeenInv
      <3>3. QED
        BY <1>2, <1>4, <3>2
    <2>3. QED
      BY <2>1, <2>2
  <1>6. ASSUME jolted'[a] < n + 1
        PROVE  hi'[a] >= offset[a] + Spread \/ lo'[a] <= offset[a] - Spread
    <2>1. CASE motion[a] >= Spread \/ motion[a] <= -Spread
      BY <1>2, <1>3, <1>4, <2>1
    <2>2. CASE ~(motion[a] >= Spread \/ motion[a] <= -Spread)
      <3>1. jolted[a] < n
        <4>1. jolted'[a] = Later(jolted[a], Window) /\ jolted[a] \in 0 .. Window
          BY <1>2, <2>2
        <4>2. jolted'[a] = jolted[a] + 1 \/ jolted'[a] = Window
          BY <4>1 DEF Later
        <4>3. QED
          BY <1>1, <1>6, <4>1, <4>2
      <3>2. n > 0 /\ (hi[a] >= offset[a] + Spread \/ lo[a] <= offset[a] - Spread)
        BY <1>1, <1>2, <3>1 DEF SeenInv
      <3>3. QED
        BY <1>2, <1>4, <3>2
    <2>3. QED
      BY <2>1, <2>2
  <1>7. QED
    BY <1>5, <1>6

LEMMA GatherRest ==
  ASSUME TypeOK, RestInv, NEW motion \in [Axes -> Motions], NEW ground \in BOOLEAN,
         NEW g, g = [a \in Axes |-> motion[a] + offset[a]], Gather(g),
         Remember(motion, ground), UNCHANGED offset, stillRun' >= n + 1, NEW a \in Axes
  PROVE  /\ lo'[a] = offset[a] /\ hi'[a] = offset[a]
         /\ sum'[a] = (n + 1) * offset[a]
  <1> USE TrimAssumption
  <1>1. n \in Nat /\ n + 1 <= Window /\ stillRun \in 0 .. 2 * Window
    BY DEF TypeOK
  <1>2. motion[a] = 0
    <2>1. motion = Zero
      BY <1>1 DEF Remember
    <2>2. QED
      BY <2>1 DEF Zero
  <1>3. stillRun >= n
    <2>1. stillRun' = Later(stillRun, 2 * Window)
      BY <1>1 DEF Remember
    <2>2. stillRun' = stillRun + 1 \/ stillRun = 2 * Window
      BY <1>1, <2>1 DEF Later
    <2>3. QED
      BY <1>1, <2>2
  <1>4. offset[a] \in Int
    BY SampleFacts
  <1>5. /\ g[a] = offset[a]
        /\ lo'[a] = IF n = 0 \/ g[a] < lo[a] THEN g[a] ELSE lo[a]
        /\ hi'[a] = IF n = 0 \/ g[a] > hi[a] THEN g[a] ELSE hi[a]
        /\ sum'[a] = IF n = 0 THEN g[a] ELSE sum[a] + g[a]
    BY <1>2, <1>4, GatherFacts
  <1>6. CASE n = 0
    BY <1>4, <1>5, <1>6
  <1>7. CASE n > 0
    <2>1. lo[a] = offset[a] /\ hi[a] = offset[a] /\ sum[a] = n * offset[a]
      BY <1>3, <1>7 DEF RestInv
    <2>2. sum'[a] = n * offset[a] + offset[a]
      BY <1>5, <1>7, <2>1
    <2>3. (n + 1) * offset[a] = n * offset[a] + offset[a]
      BY <1>1, <1>4, OneMore
    <2>4. QED
      BY <1>4, <1>5, <1>7, <2>1, <2>2, <2>3
  <1>8. QED
    BY <1>1, <1>6, <1>7

-----------------------------------------------------------------------------
(* A sample on the ground keeps the invariant.                             *)
LEMMA GatherInv ==
  ASSUME Inv, NEW motion \in [Axes -> Motions], NEW g,
         g = [a \in Axes |-> motion[a] + offset[a]], Gather(g),
         Remember(motion, TRUE), UNCHANGED offset,
         rate' = [a \in Axes |-> Window * g[a] - trim[a]]
  PROVE  Inv'
  <1> USE TrimAssumption
  <1>1. TypeOK /\ SumInv /\ SeenInv /\ AloftInv /\ RestInv
    BY DEF Inv
  <1>2. TypeOK'
    BY <1>1, GatherType
  <1>3. /\ n \in 0 .. Window - 1 /\ aloft \in 0 .. Window /\ stillRun \in 0 .. 2 * Window
        /\ n' = (IF n + 1 < Window THEN n + 1 ELSE 0)
    BY <1>1 DEF TypeOK, Gather
  <1>4. SumInv'
    <2> SUFFICES ASSUME n' > 0, NEW a \in Axes
                 PROVE  /\ lo'[a] <= hi'[a]
                        /\ n' * lo'[a] <= sum'[a] /\ sum'[a] <= n' * hi'[a]
      BY DEF SumInv
    <2>1. n' = n + 1
      BY <1>3
    <2>2. QED
      BY <1>1, <2>1, GatherSum
  <1>5. SeenInv'
    <2> SUFFICES ASSUME NEW a \in Axes
                 PROVE  /\ rested'[a] < n' => lo'[a] <= offset'[a] /\ offset'[a] <= hi'[a]
                        /\ jolted'[a] < n' =>
                             hi'[a] >= offset'[a] + Spread \/ lo'[a] <= offset'[a] - Spread
      BY DEF SeenInv
    <2>1. /\ rested'[a] < n + 1 => lo'[a] <= offset[a] /\ offset[a] <= hi'[a]
          /\ jolted'[a] < n + 1 =>
               hi'[a] >= offset[a] + Spread \/ lo'[a] <= offset[a] - Spread
      BY <1>1, GatherSeen
    <2>2. n' <= n + 1 /\ n' \in Int /\ n \in Int
      BY <1>3
    <2>3. rested'[a] \in Int /\ jolted'[a] \in Int
      BY <1>2 DEF TypeOK
    <2>4. QED
      BY <2>1, <2>2, <2>3
  <1>6. AloftInv'
    <2>1. aloft' = Later(aloft, Window)
      BY DEF Remember
    <2>2. QED
      BY <1>1, <1>3, <2>1 DEF AloftInv, Later
  <1>7. stillRun' = (IF motion = Zero THEN Later(stillRun, 2 * Window) ELSE 0)
    BY DEF Remember
  <1>8. RestInv'
    <2>1. ASSUME stillRun' >= n', n' > 0, NEW a \in Axes
          PROVE  lo'[a] = offset'[a] /\ hi'[a] = offset'[a] /\ sum'[a] = n' * offset'[a]
      <3>1. n' = n + 1
        BY <1>3, <2>1
      <3>2. QED
        BY <1>1, <2>1, <3>1, GatherRest
    <2>2. ASSUME stillRun' >= Window + n', InLimit', NEW a \in Axes
          PROVE  trim'[a] = Window * offset'[a]
      <3>1. InLimit
        BY <2>2 DEF InLimit
      <3>2. CASE n + 1 < Window
        <4>1. n' = n + 1 /\ trim' = trim
          BY <3>2 DEF Gather
        <4>2. stillRun' = stillRun + 1 \/ stillRun = 2 * Window
          BY <1>3, <1>7, <2>2, <4>1 DEF Later
        <4>3. stillRun >= Window + n
          BY <1>3, <2>2, <4>1, <4>2
        <4>4. QED
          BY <1>1, <3>1, <4>1, <4>3 DEF RestInv
      <3>3. CASE ~(n + 1 < Window)
        <4>1. n + 1 = Window /\ stillRun' >= n + 1
          BY <1>3, <2>2, <3>3
        <4>2. \A b \in Axes : /\ lo'[b] = offset[b] /\ hi'[b] = offset[b]
                              /\ sum'[b] = Window * offset[b]
          BY <1>1, <4>1, GatherRest
        <4>3. Still(lo', hi', sum')
          <5> SUFFICES ASSUME NEW b \in Axes
                       PROVE  /\ hi'[b] - lo'[b] < Spread
                              /\ -Limit * Window < sum'[b] /\ sum'[b] < Limit * Window
            BY DEF Still
          <5>1. offset[b] \in Int
            BY <1>1, SampleFacts
          <5>2. hi'[b] - lo'[b] < Spread
            BY <4>2, <5>1
          <5>3. -Limit < offset[b] /\ offset[b] < Limit
            BY <3>1 DEF InLimit
          <5>4. -Limit + 1 <= offset[b] /\ offset[b] <= Limit - 1
            BY <5>1, <5>3
          <5>5. Window * (-Limit + 1) <= Window * offset[b]
                /\ Window * offset[b] <= Window * (Limit - 1)
            BY <5>1, <5>4, Monotone
          <5>6. Window * (-Limit + 1) = -Limit * Window + Window
                /\ Window * (Limit - 1) = Limit * Window - Window
            OBVIOUS
          <5>7. Limit * Window \in Int /\ -Limit * Window \in Int /\ Window * offset[b] \in Int
            BY <5>1
          <5>8. -Limit * Window < Window * offset[b] /\ Window * offset[b] < Limit * Window
            BY <5>5, <5>6, <5>7
          <5>9. QED
            BY <4>2, <5>2, <5>8
        <4>4. trim' = sum'
          BY <3>3, <4>3 DEF Gather
        <4>5. QED
          BY <4>2, <4>4
      <3>4. QED
        BY <3>2, <3>3
    <2>3. QED
      BY <2>1, <2>2 DEF RestInv
  <1>9. RestReadsZero'
    <2> SUFFICES ASSUME stillRun' = 2 * Window, InLimit', NEW a \in Axes
                 PROVE  rate'[a] = 0
      BY DEF RestReadsZero
    <2>1. motion = Zero /\ (stillRun' = stillRun + 1 \/ stillRun = 2 * Window)
      BY <1>3, <1>7 DEF Later
    <2>2. stillRun >= Window + n /\ InLimit
      BY <1>3, <2>1 DEF InLimit
    <2>3. trim[a] = Window * offset[a]
      BY <1>1, <2>2 DEF RestInv
    <2>4. offset[a] \in Int /\ motion[a] = 0
      BY <1>1, <2>1, SampleFacts DEF Zero
    <2>5. g[a] = offset[a]
      BY <2>4
    <2>6. QED
      BY <2>3, <2>4, <2>5
  <1>10. QED
    BY <1>2, <1>4, <1>5, <1>6, <1>8, <1>9 DEF Inv

(* A sample in the air keeps it: the window is empty again.                *)
LEMMA FreezeInv ==
  ASSUME Inv, NEW motion \in [Axes -> Motions], NEW g,
         g = [a \in Axes |-> motion[a] + offset[a]], Freeze,
         Remember(motion, FALSE), UNCHANGED offset,
         rate' = [a \in Axes |-> Window * g[a] - trim[a]]
  PROVE  Inv'
  <1> USE TrimAssumption
  <1>1. TypeOK
    BY DEF Inv
  <1>2. n' = 0 /\ UNCHANGED <<lo, hi, sum, trim>> /\ stillRun' = 0 /\ aloft' = 0
    BY DEF Freeze, Remember
  <1>3. rate' \in [Axes -> Int]
    <2>1. \A a \in Axes : Window * g[a] - trim[a] \in Int
      <3> TAKE a \in Axes
      <3>1. motion[a] \in Int /\ offset[a] \in Int /\ trim[a] \in Int
        BY <1>1, SampleFacts
      <3>2. QED
        BY <3>1
    <2>2. QED
      BY <2>1
  <1>4. TypeOK'
    <2>1. /\ rested' \in [Axes -> 0 .. Window] /\ jolted' \in [Axes -> 0 .. Window]
          /\ aloft' \in 0 .. Window /\ stillRun' \in 0 .. 2 * Window
      BY <1>1, HistoryType
    <2>2. QED
      BY <1>1, <1>2, <1>3, <2>1 DEF TypeOK
  <1>5. SumInv' /\ AloftInv' /\ RestInv' /\ RestReadsZero'
    BY <1>2 DEF SumInv, AloftInv, RestInv, RestReadsZero
  <1>6. SeenInv'
    <2>1. \A a \in Axes : rested'[a] >= 0 /\ jolted'[a] >= 0
      BY <1>4 DEF TypeOK
    <2>2. \A a \in Axes : ~(rested'[a] < n') /\ ~(jolted'[a] < n')
      <3> TAKE a \in Axes
      <3>1. rested'[a] \in 0 .. Window /\ jolted'[a] \in 0 .. Window
        BY <1>4 DEF TypeOK
      <3>2. QED
        BY <1>2, <3>1
    <2>3. QED
      BY <2>2 DEF SeenInv
  <1>7. QED
    BY <1>4, <1>5, <1>6 DEF Inv

LEMMA UpdateInv == Inv /\ Orientation_Update => Inv'
  <1> SUFFICES ASSUME Inv, Orientation_Update PROVE Inv'
    OBVIOUS
  <1> PICK motion \in [Axes -> Motions], ground \in BOOLEAN :
        LET h == [a \in Axes |-> motion[a] + offset[a]] IN
        /\ rate' = [a \in Axes |-> Window * h[a] - trim[a]]
        /\ IF ground THEN Gather(h) ELSE Freeze
        /\ Remember(motion, ground)
        /\ UNCHANGED offset
    BY DEF Orientation_Update
  <1> DEFINE g == [a \in Axes |-> motion[a] + offset[a]]
  <1>1. /\ rate' = [a \in Axes |-> Window * g[a] - trim[a]]
        /\ Remember(motion, ground) /\ UNCHANGED offset
        /\ g = [a \in Axes |-> motion[a] + offset[a]]
    OBVIOUS
  <1>2. (ground = TRUE /\ Gather(g)) \/ (ground = FALSE /\ Freeze)
    OBVIOUS
  <1> HIDE DEF g
  <1>3. CASE ground = TRUE /\ Gather(g)
    BY <1>1, <1>3, GatherInv
  <1>4. CASE ground = FALSE /\ Freeze
    BY <1>1, <1>4, FreezeInv
  <1>5. QED
    BY <1>2, <1>3, <1>4

(* A walk of the offset and a reboot forget what was seen.                 *)
LEMMA DriftInv == Inv /\ Drift => Inv'
  <1> SUFFICES ASSUME Inv, Drift PROVE Inv'
    OBVIOUS
  <1> USE TrimAssumption
  <1>1. n \in 0 .. Window - 1 /\ n' = n /\ stillRun' = 0 /\ rested' = Never /\ jolted' = Never
    BY DEF Inv, TypeOK, Drift, window
  <1>2. TypeOK'
    BY <1>1 DEF Inv, TypeOK, Drift, window, Never
  <1>3. SumInv' /\ AloftInv'
    BY DEF Inv, SumInv, AloftInv, Drift, window
  <1>4. \A a \in Axes : ~(rested'[a] < n') /\ ~(jolted'[a] < n')
    <2> TAKE a \in Axes
    <2>1. rested'[a] = Window /\ jolted'[a] = Window
      BY <1>1 DEF Never
    <2>2. QED
      BY <1>1, <2>1
  <1>5. SeenInv'
    BY <1>4 DEF SeenInv
  <1>6. ~(stillRun' >= n' /\ n' > 0) /\ ~(stillRun' >= Window + n') /\ stillRun' # 2 * Window
    BY <1>1
  <1>7. RestInv' /\ RestReadsZero'
    BY <1>6 DEF RestInv, RestReadsZero
  <1>8. QED
    BY <1>2, <1>3, <1>5, <1>7 DEF Inv

LEMMA RebootInv == Inv /\ Reboot => Inv'
  <1> SUFFICES ASSUME Inv, Reboot PROVE Inv'
    OBVIOUS
  <1> USE TrimAssumption
  <1>1. 0 \in -(Limit * Window) + 1 .. Limit * Window - 1
    <2>1. Limit * Window \in Nat \ {0}
      OBVIOUS
    <2>2. QED
      BY <2>1
  <1>2. trim' \in [Axes -> -(Limit * Window) + 1 .. Limit * Window - 1]
    BY <1>1 DEF Reboot, Zero
  <1>3. TypeOK'
    BY <1>2 DEF Reboot, TypeOK, Zero, Never
  <1>4. SumInv' /\ AloftInv' /\ RestInv' /\ RestReadsZero'
    BY DEF Reboot, SumInv, AloftInv, RestInv, RestReadsZero
  <1>5. \A a \in Axes : ~(rested'[a] < n') /\ ~(jolted'[a] < n')
    <2> TAKE a \in Axes
    <2>1. rested'[a] = Window /\ jolted'[a] = Window /\ n' = 0
      BY DEF Reboot, Never
    <2>2. QED
      BY <2>1
  <1>6. SeenInv'
    BY <1>5 DEF SeenInv
  <1>7. QED
    BY <1>3, <1>4, <1>6 DEF Inv

LEMMA InvAlways == Spec => []Inv
  <1>1. Inv /\ [Next]_vars => Inv'
    <2> SUFFICES ASSUME Inv, [Next]_vars PROVE Inv'
      OBVIOUS
    <2>1. CASE Orientation_Update
      BY <2>1, UpdateInv
    <2>2. CASE Drift
      BY <2>2, DriftInv
    <2>3. CASE Reboot
      BY <2>3, RebootInv
    <2>4. CASE UNCHANGED vars
      BY <2>4 DEF Inv, TypeOK, SumInv, SeenInv, AloftInv, RestInv, RestReadsZero, InLimit,
                  vars, window, past
    <2>5. QED
      BY <2>1, <2>2, <2>3, <2>4 DEF Next
  <1>2. QED
    BY <1>1, InitInv, PTL DEF Spec

(* Type correctness, and with it the clamp on the trim.                    *)
THEOREM TrimTypeCorrect == Spec => []TypeOK
  <1>1. Inv => TypeOK
    BY DEF Inv
  <1>2. QED
    BY <1>1, InvAlways, PTL

(* After two motionless windows on the ground every axis reads zero.       *)
THEOREM RestAlwaysReadsZero == Spec => []RestReadsZero
  <1>1. Inv => RestReadsZero
    BY DEF Inv
  <1>2. QED
    BY <1>1, InvAlways, PTL

-----------------------------------------------------------------------------
(* A trim changes in three ways only.                                      *)
LEMMA TrimChange ==
  ASSUME Inv, [Next]_vars, trim' # trim, ~Reboot
  PROVE  \E motion \in [Axes -> Motions] :
           \E g \in {[a \in Axes |-> motion[a] + offset[a]]} :
             /\ Gather(g) /\ Remember(motion, TRUE) /\ UNCHANGED offset
             /\ n + 1 = Window /\ trim' = sum' /\ Still(lo', hi', sum')
  <1>1. Orientation_Update
    BY DEF Next, vars, Drift
  <1>2. PICK motion \in [Axes -> Motions], ground \in BOOLEAN :
          LET h == [a \in Axes |-> motion[a] + offset[a]] IN
          /\ IF ground THEN Gather(h) ELSE Freeze
          /\ Remember(motion, ground)
          /\ UNCHANGED offset
    BY <1>1 DEF Orientation_Update
  <1> DEFINE g == [a \in Axes |-> motion[a] + offset[a]]
  <1>3. ground = TRUE /\ Gather(g)
    BY <1>2 DEF Freeze
  <1>4. Remember(motion, TRUE) /\ UNCHANGED offset
    BY <1>2, <1>3
  <1> HIDE DEF g
  <1>5. ~(n + 1 < Window) /\ trim' = sum' /\ Still(lo', hi', sum')
    BY <1>3 DEF Gather
  <1>6. n + 1 = Window
    BY <1>5, TrimAssumption DEF Inv, TypeOK
  <1>7. QED
    BY <1>3, <1>4, <1>5, <1>6 DEF g

(* Motion and flight never become bias.                                    *)
THEOREM TrimAlwaysFromStillGround == Spec => TrimNeedsStillGround
  <1> DEFINE Claim == trim' # trim /\ ~Reboot =>
               /\ aloft' = Window
               /\ \A a \in Axes : rested'[a] = Window \/ jolted'[a] = Window
  <1>1. Inv /\ [Next]_vars => Claim
    <2> SUFFICES ASSUME Inv, [Next]_vars, trim' # trim, ~Reboot
                 PROVE  /\ aloft' = Window
                        /\ \A a \in Axes : rested'[a] = Window \/ jolted'[a] = Window
      OBVIOUS
    <2> USE TrimAssumption
    <2> PICK motion \in [Axes -> Motions] :
          \E g \in {[a \in Axes |-> motion[a] + offset[a]]} :
            /\ Gather(g) /\ Remember(motion, TRUE) /\ UNCHANGED offset
            /\ n + 1 = Window /\ trim' = sum' /\ Still(lo', hi', sum')
      BY TrimChange
    <2>1. PICK g \in {[a \in Axes |-> motion[a] + offset[a]]} :
            /\ Gather(g) /\ Remember(motion, TRUE) /\ UNCHANGED offset
            /\ n + 1 = Window /\ trim' = sum' /\ Still(lo', hi', sum')
      OBVIOUS
    <2>2. TypeOK /\ SumInv /\ SeenInv /\ AloftInv
      BY DEF Inv
    <2>3. aloft' = Window
      <3>1. aloft \in 0 .. Window /\ aloft >= n /\ n \in Nat
        BY <2>2 DEF TypeOK, AloftInv
      <3>2. aloft' = Later(aloft, Window)
        BY <2>1 DEF Remember
      <3>3. QED
        BY <2>1, <3>1, <3>2 DEF Later
    <2>4. ASSUME NEW a \in Axes PROVE rested'[a] = Window \/ jolted'[a] = Window
      <3>1. /\ rested'[a] < n + 1 => lo'[a] <= offset[a] /\ offset[a] <= hi'[a]
            /\ jolted'[a] < n + 1 =>
                 hi'[a] >= offset[a] + Spread \/ lo'[a] <= offset[a] - Spread
        BY <2>1, <2>2, GatherSeen
      <3>2. hi'[a] - lo'[a] < Spread
        BY <2>1 DEF Still
      <3>3. /\ motion[a] \in Int /\ offset[a] \in Int /\ lo[a] \in Int /\ hi[a] \in Int
            /\ rested[a] \in 0 .. Window /\ jolted[a] \in 0 .. Window
        BY <2>1, <2>2, SampleFacts
      <3>4. lo'[a] \in Int /\ hi'[a] \in Int
        BY <2>1, <2>2, <3>3, GatherFacts
      <3>5. ~(rested'[a] < Window /\ jolted'[a] < Window)
        BY <2>1, <3>1, <3>2, <3>3, <3>4
      <3>6. rested'[a] \in 0 .. Window /\ jolted'[a] \in 0 .. Window
        <4>1. rested' \in [Axes -> 0 .. Window] /\ jolted' \in [Axes -> 0 .. Window]
          BY <2>1, <2>2, HistoryType
        <4>2. QED
          BY <4>1
      <3>7. QED
        BY <3>5, <3>6
    <2>5. QED
      BY <2>3, <2>4
  <1>2. QED
    BY <1>1, InvAlways, PTL DEF Spec, TrimNeedsStillGround

(* A trim from a window with a moment of rest in it is off by less than    *)
(* the spread.                                                             *)
THEOREM TrimErrorStaysSmall == Spec => TrimErrorIsSmall
  <1> DEFINE Claim == \A a \in Axes : trim'[a] # trim[a] /\ rested'[a] < Window =>
               /\ trim'[a] < Window * (offset[a] + Spread)
               /\ trim'[a] > Window * (offset[a] - Spread)
  <1>1. Inv /\ [Next]_vars => Claim
    <2> SUFFICES ASSUME Inv, [Next]_vars, NEW a \in Axes,
                        trim'[a] # trim[a], rested'[a] < Window
                 PROVE  /\ trim'[a] < Window * (offset[a] + Spread)
                        /\ trim'[a] > Window * (offset[a] - Spread)
      OBVIOUS
    <2> USE TrimAssumption
    <2>1. ~Reboot
      BY DEF Reboot, Never
    <2> PICK motion \in [Axes -> Motions] :
          \E g \in {[b \in Axes |-> motion[b] + offset[b]]} :
            /\ Gather(g) /\ Remember(motion, TRUE) /\ UNCHANGED offset
            /\ n + 1 = Window /\ trim' = sum' /\ Still(lo', hi', sum')
      BY <2>1, TrimChange
    <2>2. PICK g \in {[b \in Axes |-> motion[b] + offset[b]]} :
            /\ Gather(g) /\ Remember(motion, TRUE) /\ UNCHANGED offset
            /\ n + 1 = Window /\ trim' = sum' /\ Still(lo', hi', sum')
      OBVIOUS
    <2>3. TypeOK /\ SumInv /\ SeenInv
      BY DEF Inv
    <2>4. lo'[a] <= offset[a] /\ offset[a] <= hi'[a] /\ hi'[a] - lo'[a] < Spread
      BY <2>2, <2>3, GatherSeen DEF Still
    <2>5. Window * lo'[a] <= trim'[a] /\ trim'[a] <= Window * hi'[a]
      BY <2>2, <2>3, GatherSum
    <2>6. /\ motion[a] \in Int /\ offset[a] \in Int
          /\ lo[a] \in Int /\ hi[a] \in Int /\ sum[a] \in Int
      BY <2>2, <2>3, SampleFacts
    <2>7. lo'[a] \in Int /\ hi'[a] \in Int /\ sum'[a] \in Int /\ trim'[a] \in Int
      BY <2>2, <2>3, <2>6, GatherFacts
    <2>8. hi'[a] <= offset[a] + Spread - 1 /\ offset[a] - Spread + 1 <= lo'[a]
      BY <2>4, <2>6, <2>7
    <2>9. /\ Window * hi'[a] <= Window * (offset[a] + Spread - 1)
          /\ Window * (offset[a] - Spread + 1) <= Window * lo'[a]
      BY <2>6, <2>7, <2>8, Monotone
    <2>10. /\ Window * (offset[a] + Spread - 1) = Window * (offset[a] + Spread) - Window
           /\ Window * (offset[a] - Spread + 1) = Window * (offset[a] - Spread) + Window
      BY <2>6
    <2>11. /\ Window * (offset[a] + Spread) \in Int /\ Window * (offset[a] - Spread) \in Int
           /\ Window * hi'[a] \in Int /\ Window * lo'[a] \in Int
      BY <2>6, <2>7
    <2>12. QED
      BY <2>5, <2>7, <2>9, <2>10, <2>11
  <1>2. QED
    BY <1>1, InvAlways, PTL DEF Spec, TrimErrorIsSmall
=============================================================================
