---------------------------- MODULE RxFifoProofs ----------------------------
(***************************************************************************)
(* The RX FIFO and the code that empties it, for every packet length,      *)
(* depth and number of tries, every pace at which a status read is shorter *)
(* than a byte on the air, and whatever a count that is read while a byte  *)
(* arrives may come out as.                                                *)
(***************************************************************************)
EXTENDS RxFifo, TLAPS

(* The answer a read of the count is after.                                *)
Truth == [over |-> over, n |-> n]

(* How long after the next read the next byte arrives: at least, in an     *)
(* idle air, where a packet takes a moment to be seen; exactly, while one  *)
(* streams in.  A byte that arrives before the read has a negative lead.   *)
Lead == (IF left > 0 THEN gap ELSE ByteTime + 1) - busy

Asking == pc \in {"first", "again"}

(* The read that is due meets an arriving byte; the next one will not.     *)
Met   == Asking /\ busy = 0 /\ arriving
Clear == ~Met /\ (over \/ Lead > 0)

(* The pace of the air and of the reads.                                   *)
AirInv ==
  /\ left > 0 => gap > 0
  /\ arriving /\ left > 0 => gap >= ByteTime
  /\ Asking => busy < ByteTime

(* The last read is right, if by now too modest, or the next one will be.  *)
Modest == a.n <= n /\ (a.over => over) /\ (there => Packet(a))

AnswerInv ==
  /\ Asking /\ there => n >= Full
  /\ pc = "again" => Modest \/ Clear

(* A settled FIFO read that is under way has its bytes.                    *)
TakeInv ==
  pc = "fifo" => drained < Guard /\ pop > 0 /\ (settled => n >= pop)

(* In a jam nothing comes in that could garble a count: a poll that begins *)
(* with one reads the truth, and its first answer tells it so.             *)
JamInv ==
  pc # "loop" /\ jammed =>
    /\ over
    /\ Asking /\ drained = 0 => ~Met /\ (pc = "again" => a = Truth)
    /\ pc = "fifo" \/ drained > 0 => ovf

(* The bytes that the poll has taken.                                      *)
Popped ==
  IF pc = "loop" THEN 0
  ELSE drained * Full + (IF pc = "fifo" THEN Full - pop ELSE 0)

(* An overflow leaves packets enough for the poll that sees it: the poll   *)
(* that missed it has taken no more from a full FIFO than it has read.     *)
OverInv ==
  over =>
    /\ pc = "loop" => n >= Guard * Full
    /\ pc # "loop" => n >= (IF jammed THEN Guard * Full ELSE Depth) - Popped

(* The search begins with an empty FIFO and reads on only from a boundary. *)
Wholes == {k * Full : k \in Nat}
Searching ==
  /\ phase = "finding" /\ (pc = "loop" \/ drained = 0)
  /\ pc = "fifo" => settled
AlignInv == Searching /\ ~over => n - Taking - Begun \in Wholes

RxInv == /\ TypeOK /\ AirInv /\ AnswerInv /\ TakeInv
         /\ JamInv /\ OverInv /\ AlignInv

-----------------------------------------------------------------------------
(* The constants.                                                          *)

LEMMA Scale ==
  /\ ByteTime \in Nat /\ ByteTime > 0
  /\ \A r \in ReadTimes : r \in Nat /\ r > 0 /\ r < ByteTime
  /\ PopTime \in Nat /\ PopTime > 0
  /\ Full \in Nat /\ Full > 2 /\ Payload = Full - 2
  /\ Depth \in Nat /\ Guard \in Nat /\ Guard > 0 /\ Tries \in Nat /\ Tries > 0
BY FifoAssumption, PaceAssumption DEF Payload

LEMMA ZeroFits ==
  /\ 0 \in 0 .. Depth /\ 0 \in 0 .. Payload + 1 /\ 0 \in 0 .. 3 * ByteTime
  /\ 0 \in 0 .. Tries - 1 /\ 0 \in 0 .. Full /\ 0 \in 0 .. Guard /\ 0 \in Nat
BY Scale

LEMMA Room ==
  /\ Guard * Full \in Nat /\ Guard * Full >= Full
  /\ Depth - Guard * Full >= Guard * Full
<1> DEFINE g == Guard * Full
<1>1. g \in Nat /\ g >= Full
  BY Scale
<1>2. 2 * Guard * Full = 2 * g
  BY Scale
<1> HIDE DEF g
<1>3. Depth - g >= g
  BY <1>1, <1>2, Scale, FifoAssumption
<1> QED
  BY <1>1, <1>3 DEF g

(* Packets are whole: one comes, and one that is there goes.               *)
LEMMA WholeComes ==
  /\ 0 \in Wholes
  /\ \A w \in Wholes : w \in Nat /\ w + Full \in Wholes
<1>1. 0 = 0 * Full /\ 0 \in Nat
  BY Scale
<1>2. ASSUME NEW k \in Nat
      PROVE  /\ k * Full \in Nat
             /\ k * Full + Full = (k + 1) * Full
             /\ k + 1 \in Nat
  BY Scale
<1> QED
  BY <1>1, <1>2 DEF Wholes

LEMMA WholeGoes ==
  ASSUME NEW w \in Wholes, w > 0
  PROVE  w >= Full /\ w - Full \in Wholes
<1>1. PICK k \in Nat : w = k * Full
  BY DEF Wholes
<1>2. k # 0
  BY <1>1, Scale
<1>3. k - 1 \in Nat /\ k * Full = (k - 1) * Full + Full /\ (k - 1) * Full \in Nat
  BY <1>2, Scale
<1>4. w - Full = (k - 1) * Full /\ w >= Full
  <2> DEFINE m == (k - 1) * Full
  <2> HIDE DEF m
  <2>1. m \in Nat /\ w = m + Full
    BY <1>1, <1>3 DEF m
  <2> QED
    BY <2>1, Scale DEF m
<1> QED
  BY <1>3, <1>4 DEF Wholes

LEMMA WholeDivides ==
  ASSUME NEW w \in Wholes
  PROVE  w % Full = 0
<1>1. PICK k \in Nat : w = k * Full
  BY DEF Wholes
<1> DEFINE d == w \div Full
           e == w % Full
<1>2. w \in Int /\ d \in Int /\ e \in 0 .. Full - 1 /\ w = Full * d + e
  BY <1>1, Scale
<1>3. (k - d) * Full = e
  BY <1>1, <1>2, Scale
<1> HIDE DEF d, e
<1>4. k - d <= 0
  <2> SUFFICES ASSUME k - d >= 1 PROVE FALSE
    BY <1>2, Scale
  <2>1. (k - d) * Full >= Full
    BY <1>2, Scale
  <2> QED
    BY <1>2, <1>3, <2>1, Scale
<1>5. k - d >= 0
  <2> SUFFICES ASSUME d - k >= 1 PROVE FALSE
    BY <1>2, Scale
  <2>1. (d - k) * Full >= Full /\ (d - k) * Full = 0 - e
    BY <1>2, <1>3, Scale
  <2> QED
    BY <1>2, <2>1, Scale
<1>6. k = d /\ (k - d) * Full = 0
  BY <1>2, <1>4, <1>5, Scale
<1> QED
  BY <1>2, <1>3, <1>6 DEF e

LEMMA PoppedType ==
  ASSUME TypeOK, TakeInv
  PROVE  Popped \in 0 .. Guard * Full
<1>1. /\ drained * Full \in Nat
      /\ drained * Full <= Guard * Full
      /\ drained < Guard => drained * Full + Full <= Guard * Full
  BY Scale DEF TypeOK
<1> DEFINE d == drained * Full
           g == Guard * Full
<1>2. d \in Nat /\ d <= g /\ (drained < Guard => d + Full <= g) /\ g \in Nat
  BY <1>1, Room
<1> HIDE DEF d, g
<1> QED
  BY <1>2, Scale DEF Popped, TypeOK, TakeInv, d, g

-----------------------------------------------------------------------------
(* A moment passes.  What the air does in it, to the count, the lead and   *)
(* the read that is due.                                                   *)

LEMMA SilentMoment ==
  ASSUME RxInv, Elapse, ~Arrive
  PROVE  /\ n' = n /\ over' = over /\ arriving' = FALSE /\ ~Met'
         /\ left' \in 0 .. Payload + 1 /\ gap' \in 0 .. 3 * ByteTime
         /\ left' > 0 => gap' > 0
         /\ ~over => Begun' = Begun
         /\ Asking => Lead \in Int /\ Lead' \in Int
         /\ Asking /\ ~over => Lead' >= Lead
<1> USE Scale DEF RxInv, TypeOK, AirInv, Elapse, Met, Asking, Lead, Begun, spi
<1>1. CASE CutOff
  BY <1>1 DEF CutOff
<1>2. CASE Stream
  BY <1>2 DEF Stream
<1>3. CASE Sync
  BY <1>3 DEF Sync
<1>4. CASE Quiet
  BY <1>4 DEF Quiet
<1> QED
  BY <1>1, <1>2, <1>3, <1>4

LEMMA ByteComes ==
  ASSUME RxInv, Elapse, Arrive
  PROVE  /\ ~over /\ left > 0 /\ arriving' = TRUE
         /\ left' = left - 1 /\ left' \in 0 .. Payload + 1
         /\ gap' \in 0 .. 3 * ByteTime /\ (left' > 0 => gap' >= ByteTime)
         /\ n' \in n .. Depth /\ over' \in BOOLEAN
         /\ over' => n' = Depth
         /\ ~over' => n' = n + (IF left = 1 THEN 2 ELSE 1)
         /\ Asking => Lead \in Int /\ Lead <= 0
<1> USE Scale DEF RxInv, TypeOK, AirInv, Elapse, Asking, Lead, spi
<1>1. ~over /\ gap = 1 /\ left > 0 /\ arriving' = TRUE /\ left' = left - 1
  BY DEF Arrive, CutOff
<1>2. gap' \in 0 .. 3 * ByteTime /\ (left' > 0 => gap' >= ByteTime)
  BY <1>1 DEF Arrive, GapBefore
<1>3. /\ n' \in n .. Depth /\ over' \in BOOLEAN
      /\ over' => n' = Depth
      /\ ~over' => n' = n + (IF left = 1 THEN 2 ELSE 1)
  <2> DEFINE k == IF left = 1 THEN 2 ELSE 1
  <2>1. k \in {1, 2} /\ n + k \in Nat /\ n + k > n
    OBVIOUS
  <2>2. IF n + k <= Depth THEN n' = n + k /\ over' = over ELSE n' = Depth /\ over' = TRUE
    BY DEF Arrive
  <2>3. CASE n + k <= Depth
    BY <1>1, <2>1, <2>2, <2>3
  <2>4. CASE ~(n + k <= Depth)
    BY <2>1, <2>2, <2>4
  <2> QED
    BY <2>3, <2>4
<1>4. Asking => Lead = 1 - busy /\ busy > 0
  BY <1>1
<1> QED
  BY <1>1, <1>2, <1>3, <1>4

LEMMA TimeOfRead ==
  ASSUME RxInv, Elapse
  PROVE  busy' \in Nat /\ (Asking => busy' < ByteTime)
BY Scale DEF RxInv, TypeOK, AirInv, Elapse, Asking

LEMMA SilentStep ==
  ASSUME RxInv, Elapse, ~Arrive
  PROVE  RxInv'
<1>0. /\ n' = n /\ over' = over /\ arriving' = FALSE /\ ~Met' /\ Truth' = Truth
      /\ UNCHANGED <<pc, phase, a, tries, pop, drained, ovf, there, settled, jammed>>
      /\ Taking' = Taking /\ Popped' = Popped /\ Asking' = Asking
      /\ Searching' = Searching
  BY SilentMoment DEF Elapse, spi, Truth, Taking, Popped, Asking, Searching
<1>1. TypeOK' /\ AirInv'
  <2>1. n' \in 0 .. Depth /\ over' \in BOOLEAN /\ left' \in 0 .. Payload + 1
    BY <1>0, SilentMoment DEF RxInv, TypeOK
  <2>2. gap' \in 0 .. 3 * ByteTime /\ arriving' \in BOOLEAN /\ busy' \in Nat
    BY <1>0, SilentMoment, TimeOfRead
  <2>3. TypeOK'
    BY <1>0, <2>1, <2>2 DEF RxInv, TypeOK, Value, Payload
  <2>4. AirInv'
    BY <1>0, SilentMoment, TimeOfRead DEF AirInv
  <2> QED
    BY <2>3, <2>4
<1>2. AnswerInv'
  <2>1. Asking /\ ~over /\ Lead > 0 => Lead' > 0
    BY SilentMoment
  <2> QED
    BY <1>0, <2>1 DEF RxInv, AnswerInv, Modest, Clear, Packet, Asking
<1>3. TakeInv'
  BY <1>0 DEF RxInv, TakeInv
<1>4. JamInv' /\ OverInv'
  BY <1>0 DEF RxInv, JamInv, OverInv
<1>5. AlignInv'
  BY <1>0, SilentMoment DEF RxInv, AlignInv, Wholes
<1> QED
  BY <1>1, <1>2, <1>3, <1>4, <1>5 DEF RxInv

LEMMA ByteKeepsAligned ==
  ASSUME RxInv, Elapse, Arrive
  PROVE  AlignInv'
<1> DEFINE w == n - Taking - Begun
<1>1. /\ ~over /\ left > 0 /\ left' = left - 1
      /\ over' => n' = Depth
      /\ ~over' => n' = n + (IF left = 1 THEN 2 ELSE 1)
  BY ByteComes
<1>2. Taking' = Taking /\ Taking \in Nat /\ Searching' = Searching
  BY DEF Elapse, spi, Taking, Searching, RxInv, TypeOK
<1> SUFFICES ASSUME Searching, ~over' PROVE n' - Taking' - Begun' \in Wholes
  BY <1>2 DEF AlignInv
<1>3. w \in Wholes /\ w \in Nat /\ w + Full \in Wholes
  BY <1>1, WholeComes DEF RxInv, AlignInv
<1>4. CASE left = 1
  <2>1. Begun = Full - 2 /\ Begun' = 0
    BY <1>1, <1>4, Scale DEF Begun
  <2>2. w = n - Taking - (Full - 2)
    BY <2>1
  <2>3. n' - Taking' - Begun' = w + Full
    <3> HIDE DEF w
    <3> QED
      BY <1>1, <1>2, <1>3, <1>4, <2>1, <2>2, Scale DEF RxInv, TypeOK
  <2> QED
    BY <1>3, <2>3
<1>5. CASE left # 1
  <2>1. Begun \in Nat /\ Begun' = Begun + 1
    BY <1>1, <1>5, Scale DEF Begun, RxInv, TypeOK
  <2>2. n' - Taking' - Begun' = w
    BY <1>1, <1>2, <1>5, <2>1 DEF RxInv, TypeOK
  <2> QED
    BY <1>3, <2>2
<1> QED
  BY <1>4, <1>5

LEMMA ByteStep ==
  ASSUME RxInv, Elapse, Arrive
  PROVE  RxInv'
<1>1. /\ ~over /\ left > 0 /\ arriving' = TRUE /\ left' = left - 1
      /\ left' \in 0 .. Payload + 1
      /\ gap' \in 0 .. 3 * ByteTime /\ (left' > 0 => gap' >= ByteTime)
      /\ n' \in n .. Depth /\ over' \in BOOLEAN /\ (over' => n' = Depth)
  BY ByteComes
<1>2. /\ UNCHANGED <<pc, phase, a, tries, pop, drained, ovf, there, settled, jammed>>
      /\ Asking' = Asking /\ Popped' = Popped
  BY DEF Elapse, spi, Asking, Popped
<1>3. n \in 0 .. Depth /\ n' \in 0 .. Depth /\ n' >= n
  BY <1>1, Scale DEF RxInv, TypeOK
<1>4. TypeOK' /\ AirInv'
  <2>1. TypeOK'
    BY <1>1, <1>2, <1>3, TimeOfRead DEF RxInv, TypeOK, Value, Payload
  <2>2. left' > 0 => gap' > 0
    BY <1>1, Scale
  <2>3. AirInv'
    BY <1>1, <1>2, <2>2, TimeOfRead DEF AirInv
  <2> QED
    BY <2>1, <2>3
<1>5. AnswerInv'
  <2>1. Modest => Modest'
    BY <1>1, <1>2, <1>3 DEF Modest, Packet, RxInv, TypeOK, Value
  <2>2. pc = "again" => ~Clear
    BY <1>1, ByteComes DEF Clear, Asking
  <2>3. Asking /\ there => n' >= Full
    BY <1>1, <1>3, Scale DEF RxInv, AnswerInv
  <2> QED
    BY <1>2, <2>1, <2>2, <2>3 DEF RxInv, AnswerInv
<1>6. TakeInv'
  BY <1>2, <1>3 DEF RxInv, TakeInv, TypeOK
<1>7. JamInv' /\ ~(pc # "loop" /\ jammed)
  BY <1>1, <1>2 DEF RxInv, JamInv
<1>8. OverInv'
  <2> SUFFICES ASSUME over' PROVE OverInv'
    BY DEF OverInv
  <2>1. n' = Depth
    BY <1>1
  <2>2. Depth >= Guard * Full /\ Depth - Popped <= Depth
    <3>1. Popped \in 0 .. Guard * Full
      BY PoppedType DEF RxInv
    <3> QED
      BY <3>1, Room, Scale
  <2> QED
    BY <1>2, <1>7, <2>1, <2>2, Scale DEF OverInv
<1>9. AlignInv'
  BY ByteKeepsAligned
<1> QED
  BY <1>4, <1>5, <1>6, <1>7, <1>8, <1>9 DEF RxInv

LEMMA ElapseStep ==
  ASSUME RxInv, Elapse
  PROVE  RxInv'
BY SilentStep, ByteStep

-----------------------------------------------------------------------------
(* A read of the count: the truth, unless it meets a byte.                 *)

LEMMA ReadType ==
  ASSUME RxInv
  PROVE  /\ Truth \in Value /\ RxBytes \subseteq Value
         /\ Asking /\ busy = 0 /\ ~Met => RxBytes = {Truth}
BY Scale, FifoAssumption DEF RxInv, TypeOK, RxBytes, Truth, Value, Met

(* What a read leaves to the next one: no byte meets it, if this one met   *)
(* one, and otherwise this one is the truth.                               *)
LEMMA ReadStep ==
  ASSUME RxInv, Asking, busy = 0,
         pc' = "again", busy' \in ReadTimes, a' \in RxBytes, tries' \in 0 .. Tries - 1,
         UNCHANGED <<air, phase, pop, drained, ovf, there, settled, jammed>>
  PROVE  RxInv'
<1>1. /\ UNCHANGED <<n, over, left, gap, arriving, phase, pop, drained, ovf, there>>
      /\ UNCHANGED <<settled, jammed>>
      /\ Truth' = Truth /\ Asking' /\ pc # "fifo" /\ pc # "loop" /\ Popped' = Popped
  BY DEF air, Truth, Asking, Popped
<1>2. busy' \in Nat /\ busy' > 0 /\ busy' < ByteTime /\ ~Met'
  BY Scale DEF Met
<1>3. ~Met => a' = Truth
  BY ReadType
<1>4. TypeOK' /\ AirInv'
  <2>1. a' \in Value
    BY ReadType
  <2>2. TypeOK'
    BY <1>1, <1>2, <2>1 DEF RxInv, TypeOK, Value, Payload
  <2>3. AirInv'
    BY <1>1, <1>2 DEF RxInv, AirInv
  <2> QED
    BY <2>2, <2>3
<1>5. AnswerInv'
  <2>1. there => n >= Full
    BY DEF RxInv, AnswerInv
  <2>2. CASE ~Met
    <3>1. a'.n = n /\ a'.over = over
      BY <1>3, <2>2 DEF Truth
    <3>2. Modest'
      BY <1>1, <2>1, <3>1, Scale DEF Modest, Packet, RxInv, TypeOK
    <3> QED
      BY <1>1, <2>1, <3>2 DEF AnswerInv
  <2>3. CASE Met /\ ~over
    <3> DEFINE g == IF left > 0 THEN gap ELSE ByteTime + 1
    <3>1. g \in Int /\ g >= ByteTime
      BY <2>3, Scale DEF Met, RxInv, TypeOK, AirInv
    <3>2. Lead' = g - busy'
      BY <1>1 DEF Lead
    <3> HIDE DEF g
    <3>3. \A r \in ReadTimes : g - r > 0
      BY <3>1, Scale
    <3>4. Lead' > 0
      BY <3>2, <3>3
    <3> QED
      BY <1>1, <1>2, <2>1, <3>4 DEF AnswerInv, Clear
  <2>4. CASE over
    BY <1>1, <1>2, <2>1, <2>4 DEF AnswerInv, Clear
  <2> QED
    BY <2>2, <2>3, <2>4
<1>6. TakeInv' /\ JamInv' /\ OverInv'
  BY <1>1, <1>2, <1>3 DEF RxInv, TakeInv, JamInv, OverInv
<1>7. AlignInv'
  BY <1>1 DEF RxInv, AlignInv, Searching, Taking, Begun, Wholes
<1> QED
  BY <1>4, <1>5, <1>6, <1>7 DEF RxInv

-----------------------------------------------------------------------------
(* The steps of the code.                                                  *)

LEMMA AskType ==
  ASSUME NEW m \in Int, Ask(m)
  PROVE  there' \in BOOLEAN /\ (there' => m >= Full)
<1>1. (m >= Full) \in BOOLEAN
  BY Scale
<1>2. there' = (m >= Full)
  BY DEF Ask
<1> QED
  BY <1>1, <1>2, Zenon

LEMMA PollStep ==
  ASSUME RxInv, SFHSS_Poll
  PROVE  RxInv'
<1>1. /\ UNCHANGED <<n, over, left, gap, arriving, phase, a, tries, pop>>
      /\ pc = "loop" /\ pc' = "first" /\ busy' \in ReadTimes
      /\ drained' = 0 /\ ovf' = FALSE /\ jammed' = over
      /\ there' \in BOOLEAN /\ (there' => n >= Full) /\ settled' = TRUE
  <2>1. /\ UNCHANGED <<n, over, left, gap, arriving, phase, a, tries, pop>>
        /\ pc = "loop" /\ pc' = "first" /\ busy' \in ReadTimes /\ Ask(n)
        /\ drained' = 0 /\ ovf' = FALSE /\ jammed' = over /\ settled' = TRUE
    BY DEF SFHSS_Poll, Ask, air
  <2>2. n \in Int
    BY Scale DEF RxInv, TypeOK
  <2> QED
    BY <2>1, <2>2, AskType
<1>2. busy' \in Nat /\ busy' > 0 /\ busy' < ByteTime /\ ~Met'
  BY <1>1, Scale DEF Met
<1>3. TypeOK' /\ AirInv'
  <2>1. drained' \in 0 .. Guard
    BY <1>1, Scale
  <2>2. TypeOK'
    BY <1>1, <1>2, <2>1 DEF RxInv, TypeOK, Value, Payload
  <2>3. AirInv'
    BY <1>1, <1>2 DEF RxInv, AirInv
  <2> QED
    BY <2>2, <2>3
<1>4. AnswerInv' /\ TakeInv' /\ JamInv'
  BY <1>1, <1>2 DEF AnswerInv, TakeInv, JamInv
<1>5. OverInv'
  <2>1. Popped' = 0 * Full + 0 /\ 0 * Full + 0 = 0
    BY <1>1, Scale DEF Popped
  <2>2. Guard * Full - 0 = Guard * Full
    BY Room
  <2> QED
    BY <1>1, <2>1, <2>2 DEF RxInv, OverInv
<1>6. AlignInv'
  BY <1>1 DEF RxInv, AlignInv, Searching, Taking, Begun, Wholes
<1> QED
  BY <1>3, <1>4, <1>5, <1>6 DEF RxInv

LEMMA FirstReadStep ==
  ASSUME RxInv, FirstRead
  PROVE  RxInv'
<1>1. tries' \in 0 .. Tries - 1
  BY DEF RxInv, TypeOK, FirstRead
<1> QED
  BY <1>1, ReadStep DEF FirstRead, Asking

(* A byte is taken: it is one fewer in the FIFO, if there was one.         *)
LEMMA TakeStep ==
  ASSUME RxInv, CC2500_ReadFIFO
  PROVE  RxInv'
<1>1. /\ UNCHANGED <<over, left, gap, arriving, phase, a, tries, ovf, jammed>>
      /\ pc = "fifo" /\ pop > 0 /\ drained < Guard /\ (settled => n >= pop)
      /\ n' = (IF n > 0 THEN n - 1 ELSE 0) /\ pop' = pop - 1
      /\ n \in 0 .. Depth /\ pop \in 1 .. Full /\ drained \in Nat
  BY Scale DEF CC2500_ReadFIFO, RxInv, TypeOK, TakeInv
<1>2. /\ n' \in 0 .. Depth /\ n' >= n - 1 /\ pop' \in 0 .. Full
      /\ settled => n' = n - 1 /\ n' - pop' = n - pop
  BY <1>1, Scale
<1>3. Popped' = Popped + 1 /\ Popped \in Nat
  <2> DEFINE d == drained * Full
  <2>1. (drained + 1) * Full = d + Full /\ d \in Nat
    BY <1>1, Scale
  <2>2. CASE pop = 1
    <3>1. pc' = "first" /\ drained' = drained + 1
      BY <1>1, <2>2 DEF CC2500_ReadFIFO, Ask
    <3>2. Popped' = (drained + 1) * Full + 0 /\ Popped = d + (Full - 1)
      BY <1>1, <2>2, <3>1 DEF Popped
    <3> HIDE DEF d
    <3> QED
      BY <2>1, <3>2, Scale
  <2>3. CASE pop # 1
    <3>1. pc' = pc /\ drained' = drained
      BY <1>1, <2>3 DEF CC2500_ReadFIFO
    <3>2. Popped' = d + (Full - (pop - 1)) /\ Popped = d + (Full - pop)
      BY <1>1, <3>1 DEF Popped
    <3> HIDE DEF d
    <3> QED
      BY <1>1, <2>1, <3>2, Scale
  <2> QED
    BY <2>2, <2>3
<1>4. OverInv'
  <2> DEFINE g == Guard * Full
  <2>1. g \in Nat /\ Depth \in Nat
    BY Room, Scale
  <2>2. pc' # "loop" /\ n \in Int /\ n' \in Int
    BY <1>1, <1>2, Scale DEF CC2500_ReadFIFO, Ask
  <2>3. over => n >= (IF jammed THEN g ELSE Depth) - Popped
    BY <1>1 DEF RxInv, OverInv
  <2> HIDE DEF g
  <2>4. over => n' >= (IF jammed THEN g ELSE Depth) - Popped'
    BY <1>2, <1>3, <2>1, <2>2, <2>3
  <2> QED
    BY <1>1, <2>2, <2>4 DEF OverInv, g
<1>5. CASE pop = 1
  <2>1. /\ pc' = "first" /\ busy' \in ReadTimes /\ settled' = TRUE
        /\ there' \in BOOLEAN /\ (there' => n' >= Full) /\ drained' = drained + 1
    <3>1. /\ pc' = "first" /\ busy' \in ReadTimes /\ settled' = TRUE
          /\ Ask(n') /\ drained' = drained + 1
      BY <1>5 DEF CC2500_ReadFIFO, Ask
    <3>2. n' \in Int
      BY <1>2, Scale
    <3> QED
      BY <3>1, <3>2, AskType
  <2>2. busy' \in Nat /\ busy' > 0 /\ busy' < ByteTime /\ ~Met'
    BY <2>1, Scale DEF Met
  <2>3. drained' \in 1 .. Guard /\ drained' # 0
    BY <1>1, <2>1, Scale
  <2>4. TypeOK' /\ AirInv'
    <3>1. TypeOK'
      BY <1>1, <1>2, <2>1, <2>2, <2>3, Scale DEF RxInv, TypeOK, Value, Payload
    <3>2. AirInv'
      BY <1>1, <2>2 DEF RxInv, AirInv
    <3> QED
      BY <3>1, <3>2
  <2>5. AnswerInv' /\ TakeInv' /\ AlignInv'
    BY <2>1, <2>3 DEF AnswerInv, TakeInv, AlignInv, Searching
  <2>6. JamInv'
    BY <1>1, <2>1, <2>3 DEF RxInv, JamInv
  <2> QED
    BY <1>4, <2>4, <2>5, <2>6 DEF RxInv
<1>6. CASE pop # 1
  <2>1. busy' = PopTime /\ UNCHANGED <<pc, there, settled, drained>>
    BY <1>6 DEF CC2500_ReadFIFO
  <2>2. TypeOK' /\ AirInv'
    <3>1. TypeOK'
      BY <1>1, <1>2, <2>1, Scale DEF RxInv, TypeOK, Value, Payload
    <3>2. AirInv'
      BY <1>1, <2>1 DEF RxInv, AirInv, Asking
    <3> QED
      BY <3>1, <3>2
  <2>3. TakeInv'
    BY <1>1, <1>2, <1>6, <2>1, Scale DEF TakeInv
  <2>4. AnswerInv' /\ JamInv'
    BY <1>1, <2>1 DEF RxInv, AnswerInv, JamInv, Asking
  <2>5. AlignInv'
    <3> SUFFICES ASSUME Searching', ~over' PROVE n' - Taking' - Begun' \in Wholes
      BY DEF AlignInv
    <3>1. settled /\ Searching /\ ~over
      BY <1>1, <2>1 DEF Searching
    <3>2. n - pop - Begun \in Wholes
      BY <1>1, <3>1 DEF RxInv, AlignInv, Taking
    <3>3. Begun' = Begun /\ Taking' = pop'
      BY <1>1, <2>1 DEF Begun, Taking
    <3> QED
      BY <1>2, <3>1, <3>2, <3>3
  <2> QED
    BY <1>4, <2>2, <2>3, <2>4, <2>5 DEF RxInv
<1> QED
  BY <1>5, <1>6

(* Of two reads in a row at most one is not the truth at its time, and if  *)
(* they settle the question, the other one decides.  In a jam both are.    *)
LEMMA AnswerIsTrue ==
  ASSUME RxInv, pc = "again", busy = 0, NEW b \in RxBytes,
         NEW v, v = IF Settled(a, b) THEN Smaller(a, b) ELSE b
  PROVE  /\ v \in Value
         /\ Settled(a, b) => /\ Packet(v) => n >= Full
                             /\ there => Packet(v)
                             /\ v.over => over \/ Packet(v)
         /\ jammed /\ drained = 0 => over /\ v.over
<1>1. a \in Value /\ b \in Value /\ Truth \in Value /\ n \in 0 .. Depth /\ v \in {a, b}
  BY ReadType DEF RxInv, TypeOK, Smaller
<1>2. Settled(a, b) =>
        /\ v.n <= a.n /\ v.n <= b.n
        /\ Packet(v) <=> Packet(a) /\ Packet(b)
        /\ ~Packet(v) => v = a /\ v = b
  BY <1>1, Scale DEF Settled, Smaller, Packet, Value
<1>3. jammed /\ drained = 0 => over /\ v.over
  <2> SUFFICES ASSUME jammed, drained = 0 PROVE over /\ v.over
    OBVIOUS
  <2>1. over = TRUE /\ a = Truth /\ b = Truth
    BY ReadType DEF RxInv, TypeOK, JamInv, Asking
  <2>2. v = Truth
    BY <1>1, <2>1
  <2>3. v.over = over
    BY <2>2 DEF Truth
  <2> QED
    BY <2>1, <2>3
<1>4. ASSUME Settled(a, b), ~Met
      PROVE  /\ Packet(v) => n >= Full
             /\ there => Packet(v)
             /\ v.over => over \/ Packet(v)
  <2>1. b = Truth
    BY <1>4, ReadType DEF Asking
  <2>2. there => Packet(v)
    <3>1. there => n >= Full
      BY DEF RxInv, AnswerInv, Asking
    <3>2. ~Packet(v) => v = Truth
      BY <1>2, <1>4, <2>1
    <3> QED
      BY <3>1, <3>2 DEF Packet, Truth
  <2> QED
    BY <1>1, <1>2, <1>4, <2>1, <2>2, Scale DEF Packet, Truth, Value
<1>5. ASSUME Settled(a, b), Met
      PROVE  /\ Packet(v) => n >= Full
             /\ there => Packet(v)
             /\ v.over => over \/ Packet(v)
  <2>1. Modest
    BY <1>5 DEF RxInv, AnswerInv, Clear
  <2> QED
    BY <1>1, <1>2, <1>5, <2>1, Scale DEF Modest, Packet, Value
<1> QED
  BY <1>1, <1>3, <1>4, <1>5

(* What the phases may do to the FIFO at the end of a poll: empty it, or,  *)
(* if the poll saw no overflow, leave its bytes.  The search is entered    *)
(* with an empty FIFO, and goes on with any other only if nothing was      *)
(* drained.                                                                *)
LEMMA FinishCases ==
  ASSUME RxInv, Finish, drained = 0 => ~ovf'
  PROVE  /\ pc' = "loop" /\ busy' = 0 /\ pop' = 0 /\ phase' \in Phases
         /\ \/ Flush
            \/ /\ ~ovf' /\ n' = n /\ over' = over
               /\ UNCHANGED <<left, gap, arriving>> \/ (left' = 0 /\ gap' = 0 /\ arriving' = FALSE)
               /\ phase' = "finding" =>
                    phase = "finding" /\ drained = 0 /\ UNCHANGED <<left, gap, arriving>>
<1>1. pc' = "loop" /\ busy' = 0 /\ pop' = 0 /\ phase \in Phases
  BY DEF Finish, RxInv, TypeOK
<1>2. PICK res \in IF drained = 0 THEN {"nothing"} ELSE {"valid", "rejected"} :
        \/ phase \in {"start_bind", "binded"} /\ Rebind
        \/ phase = "finding" /\ Search(res)
        \/ phase = "connected" /\ Follow(res)
  BY DEF Finish
<1>3. res = "nothing" => drained = 0
  BY <1>2
<1>4. CASE Rebind
  BY <1>1, <1>4 DEF Rebind, Phases
<1>5. CASE phase = "finding" /\ Search(res)
  BY <1>1, <1>2, <1>3, <1>5 DEF Search, LeaveOn, Hop, air, Phases
<1>6. CASE phase = "connected" /\ Follow(res)
  BY <1>1, <1>6 DEF Follow, LeaveOn, air, Phases
<1> QED
  BY <1>2, <1>4, <1>5, <1>6

LEMMA DrainStep ==
  ASSUME RxInv, pc = "again", busy = 0, NEW b \in RxBytes,
         NEW v, v = IF Settled(a, b) THEN Smaller(a, b) ELSE b,
         StartDrain, ovf' = (IF drained = 0 THEN v.over ELSE ovf),
         \/ drained = 0 /\ (v.over \/ Packet(v))
         \/ drained \in 1 .. Guard - 1 /\ Packet(v),
         settled' = Settled(a, b), a' = Nothing, tries' = 0,
         UNCHANGED <<air, phase, drained, there, jammed>>
  PROVE  RxInv'
<1>1. /\ pc' = "fifo" /\ pop' = Full /\ busy' = PopTime
      /\ UNCHANGED <<n, over, left, gap, arriving>> /\ Asking
  BY DEF StartDrain, air, Asking
<1>2. /\ v \in Value /\ ovf' \in BOOLEAN /\ drained \in 0 .. Guard - 1 /\ drained \in Nat
      /\ settled' \in BOOLEAN /\ n \in 0 .. Depth
  <2>1. v \in Value /\ drained \in 0 .. Guard - 1
    BY AnswerIsTrue, Scale
  <2>2. settled' \in BOOLEAN
    BY DEF Settled
  <2> QED
    BY <2>1, <2>2, Scale DEF RxInv, TypeOK, Value
<1>3. TypeOK' /\ AirInv'
  <2>1. Nothing \in Value
    BY Scale DEF Nothing, Value
  <2>2. TypeOK'
    BY <1>1, <1>2, <2>1, ZeroFits, Scale DEF RxInv, TypeOK, Value, Payload, Nothing
  <2>3. AirInv'
    BY <1>1 DEF RxInv, AirInv, Asking
  <2> QED
    BY <2>2, <2>3
<1>4. Settled(a, b) => n >= Full
  <2>1. Settled(a, b) => (Packet(v) => n >= Full) /\ (v.over => over \/ Packet(v))
    BY AnswerIsTrue
  <2> DEFINE g == Guard * Full
  <2>2. g \in Nat /\ g >= Full /\ Depth >= Full /\ g - 0 = g /\ Depth - 0 = Depth
    BY Room, Scale
  <2>3. drained = 0 => Popped = 0
    <3>1. drained = 0 => Popped = 0 * Full + 0 /\ 0 * Full + 0 = 0
      BY <1>1, Scale DEF Popped, Asking
    <3> QED
      BY <3>1
  <2>4. over /\ drained = 0 => n >= (IF jammed THEN g ELSE Depth) - 0
    BY <2>3 DEF RxInv, OverInv
  <2> HIDE DEF g
  <2>5. over /\ drained = 0 => n >= Full
    BY <1>2, <2>2, <2>4, Scale
  <2> QED
    BY <1>2, <2>1, <2>5
<1>5. TakeInv' /\ AnswerInv'
  BY <1>1, <1>2, <1>4, Scale DEF TakeInv, AnswerInv, Asking
<1>6. JamInv'
  BY <1>1, <1>2, AnswerIsTrue DEF RxInv, JamInv, Asking
<1>7. OverInv'
  <2> DEFINE d == drained * Full
  <2>1. d \in Nat
    BY <1>2, Scale
  <2>2. Popped' = d + (Full - Full) /\ Popped = d + 0
    BY <1>1 DEF Popped, Asking
  <2> HIDE DEF d
  <2>3. Popped' = Popped
    BY <2>1, <2>2, Scale
  <2> QED
    BY <1>1, <2>3 DEF RxInv, OverInv
<1>8. AlignInv'
  <2> SUFFICES ASSUME Searching', ~over' PROVE n' - Taking' - Begun' \in Wholes
    BY DEF AlignInv
  <2> DEFINE w == n - 0 - Begun
  <2>1. Searching /\ ~over /\ Settled(a, b)
    BY <1>1 DEF Searching, Asking
  <2>2. /\ Begun \in Nat /\ Begun < Full /\ Begun' = Begun
        /\ Taking = 0 /\ Taking' = Full /\ n \in Nat
    BY <1>1, <1>2, Scale DEF Begun, Taking, Asking, RxInv, TypeOK
  <2>3. w \in Wholes
    BY <2>1, <2>2 DEF RxInv, AlignInv
  <2>4. w > 0 /\ n - Full - Begun = w - Full
    BY <1>4, <2>1, <2>2, Scale
  <2> HIDE DEF w
  <2>5. w - Full \in Wholes
    BY <2>3, <2>4, WholeGoes
  <2> QED
    BY <1>1, <2>2, <2>4, <2>5
<1> QED
  BY <1>3, <1>5, <1>6, <1>7, <1>8 DEF RxInv

LEMMA FinishStep ==
  ASSUME RxInv, pc = "again", busy = 0, NEW b \in RxBytes,
         NEW v, v = IF Settled(a, b) THEN Smaller(a, b) ELSE b,
         Finish, ovf' = (IF drained = 0 THEN v.over ELSE ovf),
         ~(drained = 0 /\ (v.over \/ Packet(v))),
         settled' = Settled(a, b), a' = Nothing, tries' = 0,
         UNCHANGED <<drained, there, jammed>>
  PROVE  RxInv' /\ (jammed => Flush)
<1>1. v \in Value /\ ovf' \in BOOLEAN /\ settled' \in BOOLEAN /\ Asking /\ drained \in Nat
  <2>1. v \in Value /\ drained \in Nat
    BY AnswerIsTrue, Scale DEF RxInv, TypeOK
  <2>2. settled' \in BOOLEAN
    BY DEF Settled
  <2> QED
    BY <2>1, <2>2 DEF RxInv, TypeOK, Value, Asking
<1>2. /\ pc' = "loop" /\ busy' = 0 /\ pop' = 0 /\ phase' \in Phases
      /\ \/ Flush
         \/ /\ ~ovf' /\ n' = n /\ over' = over
            /\ UNCHANGED <<left, gap, arriving>> \/ (left' = 0 /\ gap' = 0 /\ arriving' = FALSE)
            /\ phase' = "finding" =>
                 phase = "finding" /\ drained = 0 /\ UNCHANGED <<left, gap, arriving>>
  BY FinishCases
<1>3. jammed => ovf'
  <2>1. drained = 0 => (jammed => v.over)
    BY AnswerIsTrue
  <2>2. drained # 0 => (jammed => ovf)
    BY <1>1 DEF RxInv, JamInv, Asking
  <2> QED
    BY <1>1, <2>1, <2>2
<1>4. TypeOK' /\ AirInv'
  <2>1. Nothing \in Value
    BY Scale DEF Nothing, Value
  <2>2. /\ n' \in 0 .. Depth /\ over' \in BOOLEAN /\ left' \in 0 .. Payload + 1
        /\ gap' \in 0 .. 3 * ByteTime /\ arriving' \in BOOLEAN
    BY <1>2, ZeroFits DEF Flush, RxInv, TypeOK
  <2>3. TypeOK'
    BY <1>1, <1>2, <2>1, <2>2, ZeroFits DEF RxInv, TypeOK, Value, Payload, Nothing
  <2>4. AirInv'
    BY <1>2 DEF Flush, RxInv, AirInv, Asking
  <2> QED
    BY <2>3, <2>4
<1>5. AnswerInv' /\ TakeInv' /\ JamInv'
  BY <1>2 DEF AnswerInv, TakeInv, JamInv, Asking
<1>6. OverInv'
  <2>1. CASE Flush
    BY <2>1 DEF Flush, OverInv
  <2>2. CASE ~Flush
    <3> DEFINE g == Guard * Full
    <3>1. g \in Nat /\ Depth - g >= g /\ n \in Int /\ Depth \in Int
      BY Room, Scale DEF RxInv, TypeOK
    <3>2. Popped \in 0 .. g
      BY PoppedType DEF RxInv
    <3>3. over => n >= Depth - Popped
      BY <1>1, <1>2, <1>3, <2>2 DEF RxInv, OverInv
    <3> HIDE DEF g
    <3>4. over => n >= g
      BY <3>1, <3>2, <3>3
    <3> QED
      BY <1>2, <2>2, <3>4 DEF OverInv, g
  <2> QED
    BY <2>1, <2>2
<1>7. AlignInv'
  <2>1. CASE Flush
    <3>1. n' = 0 /\ Begun' = 0 /\ Taking' = 0 /\ 0 - 0 - 0 = 0
      BY <1>2, <2>1 DEF Flush, Begun, Taking
    <3> QED
      BY <3>1, WholeComes DEF AlignInv
  <2>2. CASE ~Flush
    <3> SUFFICES ASSUME Searching', ~over' PROVE n' - Taking' - Begun' \in Wholes
      BY DEF AlignInv
    <3>1. Searching /\ ~over /\ n' = n /\ Begun' = Begun
      BY <1>2, <2>2 DEF Searching, Begun
    <3>2. Taking = 0 /\ Taking' = 0
      BY <1>2 DEF Taking
    <3> QED
      BY <3>1, <3>2 DEF RxInv, AlignInv
  <2> QED
    BY <2>1, <2>2
<1>8. jammed => Flush
  BY <1>2, <1>3
<1> QED
  BY <1>4, <1>5, <1>6, <1>7, <1>8 DEF RxInv

LEMMA ReReadStep ==
  ASSUME RxInv, ReRead
  PROVE  /\ RxInv'
         /\ pc' # "again" /\ settled' /\ there /\ drained < Guard => pc' = "fifo"
         /\ pc' = "loop" /\ jammed => ~over'
<1>1. PICK b \in RxBytes :
        IF Settled(a, b) \/ tries + 1 = Tries
        THEN /\ Answer(IF Settled(a, b) THEN Smaller(a, b) ELSE b)
             /\ settled' = Settled(a, b) /\ a' = Nothing /\ tries' = 0
        ELSE /\ a' = Kept(a, b) /\ tries' = tries + 1 /\ busy' \in ReadTimes
             /\ UNCHANGED <<air, phase, pc, pop, ovf, settled>>
  BY DEF ReRead
<1>2. pc = "again" /\ busy = 0 /\ UNCHANGED <<drained, there, jammed>> /\ Asking
  BY DEF ReRead, Asking
<1>3. CASE Settled(a, b) \/ tries + 1 = Tries
  <2> DEFINE v == IF Settled(a, b) THEN Smaller(a, b) ELSE b
             more == \/ drained = 0 /\ (v.over \/ Packet(v))
                     \/ drained \in 1 .. Guard - 1 /\ Packet(v)
  <2>1. /\ settled' = Settled(a, b) /\ a' = Nothing /\ tries' = 0
        /\ ovf' = (IF drained = 0 THEN v.over ELSE ovf)
        /\ IF more THEN StartDrain /\ UNCHANGED <<air, phase>> ELSE Finish
    BY <1>1, <1>3 DEF Answer
  <2>2. CASE more
    <3>1. StartDrain /\ UNCHANGED <<air, phase>> /\ pc' = "fifo"
      BY <2>1, <2>2 DEF StartDrain
    <3>2. RxInv'
      BY <1>2, <2>1, <2>2, <3>1, DrainStep
    <3> QED
      BY <3>1, <3>2
  <2>3. CASE ~more
    <3>1. Finish /\ pc' = "loop"
      BY <2>1, <2>3 DEF Finish
    <3>2. RxInv' /\ (jammed => Flush)
      BY <1>2, <2>1, <2>3, <3>1, FinishStep
    <3>3. ~(settled' /\ there /\ drained < Guard)
      <4>1. settled' /\ there => Packet(v)
        BY <1>2, <2>1, AnswerIsTrue
      <4>2. drained \in 0 .. Guard
        BY DEF RxInv, TypeOK
      <4> QED
        BY <2>3, <4>1, <4>2, Scale
    <3> QED
      BY <3>1, <3>2, <3>3 DEF Flush
  <2> QED
    BY <2>2, <2>3
<1>4. CASE ~(Settled(a, b) \/ tries + 1 = Tries)
  <2>1. /\ a' = b /\ tries' = tries + 1 /\ busy' \in ReadTimes /\ pc' = "again"
        /\ UNCHANGED <<air, phase, pop, ovf, settled>>
    BY <1>1, <1>2, <1>4 DEF Kept
  <2>2. tries' \in 0 .. Tries - 1
    BY <1>4, <2>1, Scale DEF RxInv, TypeOK
  <2> QED
    BY <1>2, <2>1, <2>2, ReadStep
<1> QED
  BY <1>3, <1>4

LEMMA StutterStep ==
  ASSUME RxInv, UNCHANGED vars
  PROVE  RxInv'
<1>1. /\ UNCHANGED <<n, over, left, gap, arriving, pc, busy, phase, a, tries, pop>>
      /\ UNCHANGED <<drained, ovf, there, settled, jammed>>
  BY DEF vars, air, spi
<1> QED
  BY <1>1 DEF RxInv, TypeOK, AirInv, AnswerInv, TakeInv, JamInv, OverInv, AlignInv,
     Truth, Lead, Asking, Met, Clear, Modest, Packet, Popped, Searching, Wholes,
     Begun, Taking, Value, Payload

-----------------------------------------------------------------------------
(* The inductive invariant, from the idle chip through every step.         *)
THEOREM RxInvariant == Spec => []RxInv
<1>1. Init => RxInv
  <2> SUFFICES ASSUME Init PROVE RxInv
    OBVIOUS
  <2>1. TypeOK
    <3>1. Nothing \in Value /\ "start_bind" \in Phases
      BY Scale DEF Nothing, Value, Phases
    <3> QED
      BY <3>1, ZeroFits DEF Init, TypeOK
  <2>2. AirInv /\ AnswerInv /\ TakeInv /\ JamInv /\ OverInv /\ AlignInv
    BY DEF Init, AirInv, AnswerInv, TakeInv, JamInv, OverInv, AlignInv, Searching, Asking
  <2> QED
    BY <2>1, <2>2 DEF RxInv
<1>2. RxInv /\ [Next]_vars => RxInv'
  BY ElapseStep, PollStep, FirstReadStep, ReReadStep, TakeStep, StutterStep DEF Next
<1> QED
  BY <1>1, <1>2, PTL DEF Spec

(* A FIFO read on a settled count takes bytes that are there, whatever is  *)
(* streaming in and whatever a count read during a byte came out as.       *)
THEOREM WholePacketsAreRead == Spec => []ReadsWholePackets
<1>1. RxInv => ReadsWholePackets
  BY DEF RxInv, TakeInv, ReadsWholePackets
<1> QED
  BY <1>1, RxInvariant, PTL

(* A packet that lay in the FIFO when the count was asked for is drained,  *)
(* if two reads settle the count, unless this poll has drained its Guard   *)
(* packets.                                                                *)
THEOREM PacketsAreSeen == Spec => PacketIsSeen
<1>1. RxInv /\ [Next]_vars =>
        [pc = "again" /\ pc' # "again" /\ settled' /\ there /\ drained < Guard
           => pc' = "fifo"]_vars
  <2> SUFFICES ASSUME RxInv, Next, pc = "again", pc' # "again", settled', there,
                      drained < Guard
               PROVE  pc' = "fifo"
    OBVIOUS
  <2>1. ReRead
    BY DEF Next, Elapse, SFHSS_Poll, FirstRead, CC2500_ReadFIFO
  <2> QED
    BY <2>1, ReReadStep
<1> QED
  BY <1>1, RxInvariant, PTL DEF Spec, PacketIsSeen

(* A poll that begins with the chip jammed by an overflow ends with it     *)
(* clean, whatever the phase and whatever a poll before it has missed.     *)
THEOREM JamsAreCleared == Spec => JamIsCleared
<1>1. RxInv /\ [Next]_vars => [pc # "loop" /\ pc' = "loop" /\ jammed => ~over']_vars
  <2> SUFFICES ASSUME RxInv, Next, pc # "loop", pc' = "loop", jammed
               PROVE  ~over'
    OBVIOUS
  <2>1. ReRead
    BY DEF Next, Elapse, SFHSS_Poll, FirstRead, CC2500_ReadFIFO, Ask
  <2> QED
    BY <2>1, ReReadStep
<1> QED
  BY <1>1, RxInvariant, PTL DEF Spec, JamIsCleared

(* The search polls from packet boundary to packet boundary, although the  *)
(* phases before it may leave remains of packets in the FIFO.              *)
THEOREM TheSearchIsAligned == Spec => []SearchIsAligned
<1>1. RxInv => SearchIsAligned
  BY WholeDivides DEF RxInv, AlignInv, Searching, SearchIsAligned, Aligned
<1> QED
  BY <1>1, RxInvariant, PTL
=============================================================================
