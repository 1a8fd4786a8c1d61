-------------------------- MODULE RadioLinkProofs --------------------------
(***************************************************************************)
(* What one call of SFHSS_Poll preserves, whatever the FIFO holds; then    *)
(* the receiver on the air, for every number of channels and transmitters, *)
(* every slot timing, loss limit, FIFO depth and poll gap.                 *)
(***************************************************************************)
EXTENDS RadioLink, SequenceTheorems, TLAPS

-----------------------------------------------------------------------------
(* When the arithmetic on wrapping timestamps gives the true distance: for *)
(* every module that keeps time, though proved beside its main user.       *)

(* A timestamp moved by less than a turn of the clock is a timestamp.      *)
LEMMA AfterInTime ==
  ASSUME NEW t \in Time, NEW us \in 0 .. Wrap
  PROVE  After(t, us) \in Time /\ After(t, us) = IF t + us < Wrap THEN t + us ELSE t + us - Wrap
BY WrapAssumption, SMT DEF After, Time

LEMMA BeforeInTime ==
  ASSUME NEW t \in Time, NEW us \in 0 .. Wrap
  PROVE  Before(t, us) \in Time /\ Before(t, us) = IF t < us THEN t + Wrap - us ELSE t - us
BY WrapAssumption, SMT DEF Before, Time

LEMMA ElapsedInTime ==
  ASSUME NEW since \in Time, NEW at \in Time
  PROVE  Elapsed(since, at) \in Time
BY WrapAssumption DEF Elapsed, Time

(* elapsed() is the age of a timestamp as long as that age is less than a  *)
(* turn of the clock; from then on it starts again from 0, which is why    *)
(* the loss of signal has to be latched.                                   *)
THEOREM ElapsedIsExact ==
  ASSUME NEW t \in Time, NEW age \in 0 .. Wrap - 1
  PROVE  Elapsed(t, After(t, age)) = age
<1>1. After(t, age) = IF t + age < Wrap THEN t + age ELSE t + age - Wrap
  BY AfterInTime, WrapAssumption
<1> QED
  BY <1>1, WrapAssumption DEF Elapsed, Time

THEOREM ElapsedForgetsTurns ==
  ASSUME NEW t \in Time
  PROVE  Elapsed(t, After(t, Wrap)) = 0
<1>1. After(t, Wrap) = t
  BY AfterInTime, WrapAssumption DEF Time
<1> QED
  BY <1>1, WrapAssumption DEF Elapsed, Time

(* since_signed() is the signed distance to a timestamp of less than half  *)
(* a turn, in either direction and on either side of the wrap: the edges   *)
(* of the slot window are compared correctly across it.                    *)
THEOREM SinceSignedIsExact ==
  ASSUME NEW t \in Time, NEW d \in 0 .. Wrap \div 2, 2 * d < Wrap
  PROVE  /\ SinceSigned(t, After(t, d)) = d
         /\ SinceSigned(After(t, d), t) = -d
<1>1. After(t, d) = IF t + d < Wrap THEN t + d ELSE t + d - Wrap
  BY AfterInTime, WrapAssumption
<1> QED
  BY <1>1, WrapAssumption DEF SinceSigned, Time

(* A tick moves the signed distance of every timestamp by one, except the  *)
(* one that is half a turn old.                                            *)
LEMMA SinceSignedTicks ==
  ASSUME NEW t \in Time, NEW at \in Time,
         2 * (SinceSigned(t, at) + 1) < Wrap
  PROVE  SinceSigned(t, After(at, 1)) = SinceSigned(t, at) + 1
<1>1. After(at, 1) = IF at + 1 < Wrap THEN at + 1 ELSE at + 1 - Wrap
  BY AfterInTime, WrapAssumption
<1> QED
  BY <1>1, WrapAssumption DEF SinceSigned, Time

(* The signed distance follows a timestamp that is set back to an instant  *)
(* before the present one, or moved on within half a turn.                 *)
LEMMA SinceSignedOfBefore ==
  ASSUME NEW at \in Time, NEW us \in 0 .. Wrap, 2 * us < Wrap
  PROVE  SinceSigned(Before(at, us), at) = us
<1>1. Before(at, us) = IF at < us THEN at + Wrap - us ELSE at - us
  BY BeforeInTime, WrapAssumption
<1> QED
  BY <1>1, WrapAssumption DEF SinceSigned, Time

LEMMA SinceSignedShifts ==
  ASSUME NEW t \in Time, NEW at \in Time, NEW us \in 0 .. Wrap,
         2 * (us - SinceSigned(t, at)) < Wrap
  PROVE  SinceSigned(After(t, us), at) = SinceSigned(t, at) - us
<1>1. After(t, us) = IF t + us < Wrap THEN t + us ELSE t + us - Wrap
  BY AfterInTime, WrapAssumption
<1> QED
  BY <1>1, WrapAssumption DEF SinceSigned, Time

-----------------------------------------------------------------------------
(* The hop rule keeps the index of a channel a channel, for every hop code *)
(* that is smaller than the number of channels.                            *)
LEMMA HopKeepsChannel ==
  ASSUME NEW c \in Channels, NEW h \in 0 .. ChNum - 1
  PROVE  NextChannel(c, h) \in Channels
BY ChNumAssumption DEF NextChannel, U8, Channels

LEMMA DrainType ==
  ASSUME TypeOK
  PROVE  /\ NRead \in 0 .. 2 /\ NRead <= Len(fifo)
         /\ Intact \subseteq 1 .. NRead
         /\ \A i \in 1 .. NRead : fifo[i] \in Packet
<1>1. Len(fifo) \in Nat /\ \A i \in 1 .. Len(fifo) : fifo[i] \in Packet
  BY LenProperties, ElementOfSeq DEF TypeOK
<1>2. NRead \in 0 .. 2 /\ NRead <= Len(fifo)
  <2>1. \A n \in Nat : LET m == IF n < 2 THEN n ELSE 2 IN m \in 0 .. 2 /\ m <= n
    OBVIOUS
  <2> QED
    BY <1>1, <2>1 DEF NRead
<1>3. Intact \subseteq 1 .. NRead
  BY DEF Intact
<1> QED
  BY <1>1, <1>2, <1>3

(* The address after a poll: an unbound receiver takes the sender of an    *)
(* intact packet, and that packet is then accepted.                        *)
LEMMA AddrAfterType ==
  ASSUME TypeOK
  PROVE  /\ AddrAfter \in Transmitters \cup {NoAddr}
         /\ GotFrame => AddrAfter \in Transmitters
         /\ ~GotFrame => AddrAfter = txaddr
         /\ txaddr # NoAddr => AddrAfter = txaddr
<1> DEFINE first == CHOOSE i \in Intact : \A j \in Intact : i <= j
<1>1. Intact # {} => first \in Intact
  <2> SUFFICES ASSUME Intact # {} PROVE \E i \in Intact : \A j \in Intact : i <= j
    OBVIOUS
  <2>1. Intact \subseteq {1, 2}
    BY DrainType
  <2>2. CASE 1 \in Intact
    BY <2>1, <2>2
  <2>3. CASE 1 \notin Intact
    <3>1. \A j \in Intact : j = 2
      BY <2>1, <2>3
    <3> QED
      BY <3>1
  <2> QED
    BY <2>2, <2>3
<1>2. \A i \in Intact : fifo[i].addr \in Transmitters
  BY DrainType DEF Packet
<1>3. GotFrame => AddrAfter \in Transmitters
  BY <1>2 DEF GotFrame, Accepted
<1>4. CASE txaddr # NoAddr \/ Intact = {}
  <2>1. AddrAfter = txaddr
    BY <1>4 DEF AddrAfter
  <2> QED
    BY <2>1, <1>3 DEF TypeOK
<1>5. CASE txaddr = NoAddr /\ Intact # {}
  <2>1. AddrAfter = fifo[first].addr
    BY <1>5 DEF AddrAfter
  <2>2. first \in Accepted
    BY <1>1, <1>5, <2>1 DEF Accepted
  <2> QED
    BY <1>1, <1>2, <1>3, <1>5, <2>1, <2>2 DEF GotFrame
<1> QED
  BY <1>4, <1>5

LEMMA AnchorType ==
  ASSUME TypeOK
  PROVE  Anchor \in Time /\ GridNow \in Time /\ SkipNow \in 0 .. skipCount
<1>1. Before(now, Data2Offset) \in Time
  BY BeforeInTime, SlotAssumption, WrapAssumption DEF TypeOK
<1> QED
  BY <1>1 DEF TypeOK, Anchor, GridNow, SkipNow

LEMMA ChipType ==
  ASSUME TypeOK
  PROVE  /\ Undrained \in Seq(Packet) /\ Len(Undrained) <= FifoPackets
         /\ (Flush \/ KeepListening \/ (fifo' = Undrained /\ UNCHANGED <<overflow, rxOn>>))
              => /\ fifo' \in Seq(Packet) /\ Len(fifo') <= FifoPackets
                 /\ overflow' \in BOOLEAN /\ rxOn' \in BOOLEAN
<1> DEFINE n == Len(fifo)
<1>1. n \in Nat /\ n <= FifoPackets /\ \A i \in 1 .. n : fifo[i] \in Packet
  BY LenProperties, ElementOfSeq DEF TypeOK
<1>2. NRead \in 0 .. 2 /\ NRead <= n
  BY DrainType
<1>3. Undrained \in Seq(Packet) /\ Len(Undrained) <= FifoPackets
  <2> DEFINE m == NRead + 1
  <2>1. m \in Int /\ m \in 1 .. 3 /\ n \in Int
    BY <1>1, <1>2
  <2>2. \A i \in m .. n : fifo[i] \in Packet
    BY <1>1, <2>1
  <2>3. /\ SubSeq(fifo, m, n) \in Seq(Packet)
        /\ Len(SubSeq(fifo, m, n)) = IF m <= n THEN n - m + 1 ELSE 0
    <3> HIDE DEF m, n
    <3> QED
      BY <2>1, <2>2, SubSeqProperties
  <2>4. (IF m <= n THEN n - m + 1 ELSE 0) <= FifoPackets
    <3> HIDE DEF m, n
    <3> QED
      BY <1>1, <2>1, CountAssumption
  <2> QED
    BY <2>3, <2>4 DEF Undrained
<1>4. <<>> \in Seq(Packet) /\ Len(<<>>) <= FifoPackets
  BY EmptySeq, CountAssumption
<1> QED
  BY <1>3, <1>4 DEF Flush, KeepListening, TypeOK

(* parse_packet writes values of the right types, whatever is drained.     *)
LEMMA DecodeType ==
  ASSUME TypeOK, Decode
  PROVE  /\ txaddr' \in Transmitters \cup {NoAddr}
         /\ hopcode' \in 0 .. ChNum - 1
         /\ lastFrameTime' \in Time
         /\ sigLost' \in BOOLEAN
         /\ data' \in [{"ch14", "ch58"} -> {"init", "frame"}]
<1>1. txaddr' \in Transmitters \cup {NoAddr}
  BY AddrAfterType DEF Decode
<1>2. hopcode' \in 0 .. ChNum - 1
  BY AddrAfterType, HopCodeAssumption DEF Decode, TypeOK
<1>3. lastFrameTime' \in Time
  BY DEF Decode, TypeOK
<1>4. sigLost' \in BOOLEAN
  BY DEF Decode, Latch
<1>5. data' \in [{"ch14", "ch58"} -> {"init", "frame"}]
  <2>1. data \in [{"ch14", "ch58"} -> {"init", "frame"}]
    BY DEF TypeOK
  <2> QED
    BY <2>1 DEF Decode
<1> QED
  BY <1>1, <1>2, <1>3, <1>4, <1>5

(* SFHSS_Poll is type-correct in every phase: in particular the hop index  *)
(* stays a channel, timestamps stay readings of the clock, and the count   *)
(* of blind hops stays under FALLBACK_COUNT while connected.               *)
THEOREM PollKeepsType ==
  ASSUME TypeOK, SFHSS_Poll
  PROVE  TypeOK'
<1>1. CASE PollStartBind
  <2>1. 0 \in Channels
    BY ChNumAssumption DEF Channels
  <2> QED
    BY <1>1, <2>1, ChipType, CountAssumption DEF PollStartBind, TypeOK, Phases
<1>2. CASE PollFound
  <2>1. hopcode' \in 0 .. ChNum - 1
    BY <1>2, DecodeType DEF PollFound
  <2>2. ch' \in Channels
    BY <1>2, <2>1, HopKeepsChannel DEF PollFound, TypeOK
  <2>3. slotStart' \in Time
    BY <1>2, AnchorType, AfterInTime, SlotAssumption, WrapAssumption DEF PollFound
  <2>4. /\ fifo' \in Seq(Packet) /\ Len(fifo') <= FifoPackets
        /\ overflow' \in BOOLEAN /\ rxOn' \in BOOLEAN
    BY <1>2, ChipType DEF PollFound
  <2>5. /\ now' = now /\ phase' = "CONNECTED" /\ frameThisSlot' = FALSE
        /\ skipCount' = 0 /\ Decode
    BY <1>2 DEF PollFound
  <2>6. skipCount' \in 0 .. FallbackCount /\ skipCount' < FallbackCount
    BY <2>5, CountAssumption
  <2>7. now' \in Time /\ phase' \in Phases /\ frameThisSlot' \in BOOLEAN
    BY <2>5 DEF TypeOK, Phases
  <2>8. /\ txaddr' \in Transmitters \cup {NoAddr}
        /\ lastFrameTime' \in Time /\ sigLost' \in BOOLEAN
        /\ data' \in [{"ch14", "ch58"} -> {"init", "frame"}]
    BY <2>5, DecodeType
  <2> QED
    BY <2>1, <2>2, <2>3, <2>4, <2>6, <2>7, <2>8 DEF TypeOK
<1>3. CASE PollFinding
  <2>1. /\ fifo' \in Seq(Packet) /\ Len(fifo') <= FifoPackets
        /\ overflow' \in BOOLEAN /\ rxOn' \in BOOLEAN
    BY <1>3, ChipType DEF PollFinding
  <2> QED
    BY <1>3, <2>1, DecodeType DEF PollFinding, TypeOK, Phases
<1>4. CASE PollBinded
  <2>1. 0 \in Channels
    BY ChNumAssumption DEF Channels
  <2>2. /\ fifo' \in Seq(Packet) /\ Len(fifo') <= FifoPackets
        /\ overflow' \in BOOLEAN /\ rxOn' \in BOOLEAN
    BY <1>4, ChipType DEF PollBinded
  <2> QED
    BY <1>4, <2>1, <2>2, DecodeType, CountAssumption DEF PollBinded, TypeOK, Phases
<1>5. CASE PollListen
  <2>1. /\ fifo' \in Seq(Packet) /\ Len(fifo') <= FifoPackets
        /\ overflow' \in BOOLEAN /\ rxOn' \in BOOLEAN
    BY <1>5, ChipType DEF PollListen
  <2>2. slotStart' \in Time /\ frameThisSlot' \in BOOLEAN
    BY <1>5, AnchorType DEF PollListen, SlotFilled, GotFrame, TypeOK
  <2>3. skipCount' \in 0 .. FallbackCount /\ skipCount' < FallbackCount
    BY <1>5, AnchorType, CountAssumption DEF PollListen, TypeOK
  <2> QED
    BY <1>5, <2>1, <2>2, <2>3, DecodeType DEF PollListen, TypeOK
<1>6. CASE PollHop
  <2>1. hopcode' \in 0 .. ChNum - 1
    BY <1>6, DecodeType DEF PollHop
  <2>2. ch' \in Channels
    BY <1>6, <2>1, HopKeepsChannel DEF PollHop, TypeOK
  <2>3. slotStart' \in Time
    BY <1>6, AnchorType, AfterInTime, SlotAssumption, WrapAssumption DEF PollHop, NextSlot
  <2>4. /\ fifo' \in Seq(Packet) /\ Len(fifo') <= FifoPackets
        /\ overflow' \in BOOLEAN /\ rxOn' \in BOOLEAN
    BY <1>6, ChipType DEF PollHop
  <2>5. skipCount' \in 0 .. FallbackCount /\ skipCount' < FallbackCount
    BY <1>6, AnchorType, CountAssumption DEF PollHop, Exhausted, TypeOK
  <2> QED
    BY <1>6, <2>2, <2>3, <2>4, <2>5, DecodeType DEF PollHop, TypeOK
<1>7. CASE PollGiveUp
  <2>1. /\ fifo' \in Seq(Packet) /\ Len(fifo') <= FifoPackets
        /\ overflow' \in BOOLEAN /\ rxOn' \in BOOLEAN
    BY <1>7, ChipType DEF PollGiveUp
  <2>2. skipCount' \in 0 .. FallbackCount
    BY <1>7, AnchorType, CountAssumption DEF PollGiveUp, TypeOK
  <2> QED
    BY <1>7, <2>1, <2>2, DecodeType DEF PollGiveUp, TypeOK, Phases
<1> QED
  BY <1>1, <1>2, <1>3, <1>4, <1>5, <1>6, <1>7 DEF SFHSS_Poll

-----------------------------------------------------------------------------
(* The receiver on the air.                                                *)

LEMMA TickType ==
  ASSUME LinkTypeOK, Elapse
  PROVE  /\ now' \in Time /\ txCh' \in Channels /\ txPos' \in 0 .. Interval - 1
         /\ sincePoll' \in 0 .. MaxGap /\ silence' \in 0 .. MaxSilence
         /\ txOn' \in BOOLEAN
<1>1. now' \in Time
  BY AfterInTime, WrapAssumption DEF Elapse, LinkTypeOK, TypeOK
<1>2. txCh' \in Channels
  <2>1. HopCodeOf[Pilot] \in 0 .. ChNum - 1
    BY HopCodeAssumption, PilotAssumption
  <2> QED
    BY <2>1, HopKeepsChannel DEF Elapse, LinkTypeOK
<1>3. txPos' \in 0 .. Interval - 1
  BY SlotAssumption, WrapAssumption DEF Elapse, LinkTypeOK
<1>4. sincePoll' \in 0 .. MaxGap /\ silence' \in 0 .. MaxSilence
  BY GapAssumption, LossAssumption, WrapAssumption DEF Elapse, LinkTypeOK, MaxSilence
<1> QED
  BY <1>1, <1>2, <1>3, <1>4 DEF Elapse, LinkTypeOK

LEMMA CaptureType ==
  ASSUME LinkTypeOK, NEW p \in Packet, Capture(p)
  PROVE  /\ fifo' \in Seq(Packet) /\ Len(fifo') <= FifoPackets
         /\ overflow' \in BOOLEAN /\ rxOn' \in BOOLEAN
<1> DEFINE n == Len(fifo)
<1>1. n \in Nat /\ n <= FifoPackets
  BY LenProperties DEF LinkTypeOK, TypeOK
<1>2. CASE n < FifoPackets
  <2>1. Append(fifo, p) \in Seq(Packet) /\ Len(Append(fifo, p)) = n + 1
    BY AppendProperties DEF LinkTypeOK, TypeOK
  <2>2. n + 1 <= FifoPackets
    <3> HIDE DEF n
    <3> QED
      BY <1>1, <1>2, CountAssumption
  <2> QED
    BY <1>2, <2>1, <2>2 DEF Capture, LinkTypeOK, TypeOK
<1>3. CASE ~(n < FifoPackets)
  BY <1>1, <1>3 DEF Capture, LinkTypeOK, TypeOK
<1> QED
  BY <1>2, <1>3

LEMMA TypeStep ==
  ASSUME LinkTypeOK, [Next]_vars
  PROVE  LinkTypeOK'
<1>1. CASE Poll
  <2>1. TypeOK'
    BY <1>1, PollKeepsType DEF Poll, LinkTypeOK
  <2>2. 0 \in 0 .. MaxGap /\ silence' \in 0 .. MaxSilence
    BY <1>1, GapAssumption, LossAssumption DEF Poll, LinkTypeOK, MaxSilence
  <2> QED
    BY <1>1, <2>1, <2>2 DEF Poll, LinkTypeOK, txVars
<1>2. CASE Tick
  BY <1>2, TickType DEF Tick, LinkTypeOK, TypeOK, radioVars, chipVars
<1>3. ASSUME Elapse, NEW p \in Packet, Capture(p)
      PROVE  LinkTypeOK'
  BY <1>3, TickType, CaptureType DEF Capture, LinkTypeOK, TypeOK, radioVars
<1>4. CASE TickFrame
  <2>1. PICK num \in OnAir(txPos'), kind \in PilotKinds :
          Capture([intact |-> TRUE, addr |-> Pilot, num |-> num, kind |-> kind])
    BY <1>4 DEF TickFrame
  <2>2. num \in {1, 2} /\ kind \in Kinds
    BY PilotAssumption DEF OnAir
  <2>3. [intact |-> TRUE, addr |-> Pilot, num |-> num, kind |-> kind] \in Packet
    BY <2>2, PilotAssumption DEF Packet
  <2> QED
    BY <1>3, <1>4, <2>1, <2>3 DEF TickFrame
<1>5. CASE TickStray
  BY <1>3, <1>5, StrayAssumption DEF TickStray
<1>6. CASE TxOff
  <2>1. 0 \in Channels /\ 0 \in 0 .. Interval - 1
    BY SlotAssumption, ChNumAssumption DEF Channels
  <2>2. TypeOK'
    BY <1>6 DEF TxOff, LinkTypeOK, TypeOK, receiverVars, radioVars, chipVars
  <2> QED
    BY <1>6, <2>1, <2>2 DEF TxOff, LinkTypeOK
<1>7. CASE TxOnAgain
  BY <1>7, SlotAssumption DEF TxOnAgain, LinkTypeOK, TypeOK, receiverVars, radioVars, chipVars
<1>8. CASE UNCHANGED vars
  BY <1>8 DEF vars, txVars, LinkTypeOK, TypeOK, receiverVars, radioVars, chipVars
<1> QED
  BY <1>1, <1>2, <1>4, <1>5, <1>6, <1>7, <1>8 DEF Next

LEMMA TypeInit ==
  ASSUME LinkInit
  PROVE  LinkTypeOK
<1>1. <<>> \in Seq(Packet) /\ Len(<<>>) <= FifoPackets
  BY EmptySeq, CountAssumption
<1>2. 0 \in Channels /\ 0 \in Time /\ 0 \in 0 .. ChNum - 1
  BY ChNumAssumption, WrapAssumption DEF Channels, Time
<1>3. /\ 0 \in 0 .. FallbackCount /\ 0 \in 0 .. Interval - 1
      /\ 0 \in 0 .. MaxGap /\ 0 \in 0 .. MaxSilence
  BY CountAssumption, SlotAssumption, GapAssumption, LossAssumption DEF MaxSilence
<1> QED
  BY <1>1, <1>2, <1>3 DEF LinkInit, Init, LinkTypeOK, TypeOK, Phases

(* Whatever the air brings, the receiver's state stays well-formed: the    *)
(* hop index stays a channel, the FIFO holds no more than it can, and the  *)
(* count of blind hops never passes FALLBACK_COUNT.                        *)
THEOREM LinkTypeCorrect == Spec => []LinkTypeOK
  BY TypeInit, TypeStep, PTL DEF Spec

-----------------------------------------------------------------------------
(* What one poll does to the signal.                                       *)

LEMMA PollSignal ==
  ASSUME LinkTypeOK, Poll
  PROVE  \/ /\ phase = "START_BIND"
            /\ txaddr' = NoAddr /\ silence' = silence
         \/ /\ phase # "START_BIND" /\ GotFrame
            /\ txaddr' \in Transmitters /\ ~sigLost'
            /\ lastFrameTime' = now /\ silence' = 0
         \/ /\ phase # "START_BIND" /\ ~GotFrame
            /\ txaddr' = txaddr /\ lastFrameTime' = lastFrameTime /\ silence' = silence
            /\ sigLost' = (\/ sigLost
                           \/ /\ txaddr # NoAddr
                              /\ Elapsed(lastFrameTime, now) >= SignalLoss)
<1>1. CASE PollStartBind
  BY <1>1 DEF PollStartBind, Poll
<1>2. ASSUME ~PollStartBind
      PROVE  phase # "START_BIND" /\ Decode
  BY <1>2 DEF Poll, SFHSS_Poll, PollFound, PollFinding, PollBinded, PollListen, PollHop,
              PollGiveUp
<1>3. CASE ~PollStartBind /\ GotFrame
  BY <1>2, <1>3, AddrAfterType DEF Poll, Decode, Latch, LinkTypeOK
<1>4. CASE ~PollStartBind /\ ~GotFrame
  <2>1. sigLost' = (\/ sigLost
                    \/ /\ txaddr # NoAddr
                       /\ Elapsed(lastFrameTime, now) >= SignalLoss)
    BY <1>2, <1>4 DEF Decode, Latch
  <2> QED
    BY <1>2, <1>4, <2>1, AddrAfterType DEF Poll, Decode, LinkTypeOK
<1> QED
  BY <1>1, <1>3, <1>4

(* Nothing but a poll touches the bond, the latch or the timestamp.        *)
LEMMA OnlyPollDecides ==
  ASSUME [Next]_vars
  PROVE  \/ Poll
         \/ Elapse /\ UNCHANGED radioVars
         \/ UNCHANGED <<radioVars, now, sincePoll, silence>>
BY DEF Next, Tick, TickFrame, TickStray, Capture, TxOff, TxOnAgain, vars, receiverVars

LEMMA AgeStep ==
  ASSUME LinkTypeOK, LinkTypeOK', AgeIsTrue, [Next]_vars
  PROVE  AgeIsTrue'
<1>1. CASE Poll
  <2>1. phase' = "START_BIND" => txaddr' = NoAddr
    BY <1>1 DEF Poll, SFHSS_Poll, PollStartBind, PollFound, PollFinding, PollBinded,
                PollListen, PollHop, PollGiveUp
  <2>2. now' = now /\ sincePoll' = 0
    BY <1>1 DEF Poll, SFHSS_Poll, PollStartBind, PollFound, PollFinding, PollBinded,
                PollListen, PollHop, PollGiveUp
  <2>3. SFHSS_HasSignal' => /\ Elapsed(lastFrameTime', now) = silence'
                            /\ silence' < SignalLoss
    <3>1. CASE phase = "START_BIND"
      BY <1>1, <3>1, PollSignal DEF SFHSS_HasSignal
    <3>2. CASE phase # "START_BIND" /\ GotFrame
      <4>1. Elapsed(now, now) = 0 /\ 0 < SignalLoss
        BY LossAssumption, WrapAssumption DEF Elapsed, LinkTypeOK, TypeOK, Time
      <4> QED
        BY <1>1, <3>2, <4>1, PollSignal
    <3>3. CASE phase # "START_BIND" /\ ~GotFrame
      <4>1. SFHSS_HasSignal' => /\ SFHSS_HasSignal
                                /\ ~(Elapsed(lastFrameTime, now) >= SignalLoss)
        BY <1>1, <3>3, PollSignal DEF SFHSS_HasSignal
      <4>2. silence \in Nat /\ SignalLoss \in Nat
        BY GapAssumption, LossAssumption, WrapAssumption DEF LinkTypeOK, MaxSilence
      <4>3. silence' = silence /\ lastFrameTime' = lastFrameTime
        BY <1>1, <3>3, PollSignal
      <4>4. SFHSS_HasSignal => Elapsed(lastFrameTime, now) = silence
        BY DEF AgeIsTrue
      <4> QED
        BY <4>1, <4>2, <4>3, <4>4
    <3> QED
      BY <3>1, <3>2, <3>3
  <2>4. SignalLoss + 0 = SignalLoss
    BY LossAssumption, WrapAssumption
  <2> QED
    BY <2>1, <2>2, <2>3, <2>4 DEF AgeIsTrue
<1>2. CASE Elapse /\ UNCHANGED radioVars
  <2>1. phase' = phase /\ txaddr' = txaddr /\ lastFrameTime' = lastFrameTime
        /\ sigLost' = sigLost
    BY <1>2 DEF radioVars
  <2> SUFFICES ASSUME SFHSS_HasSignal
               PROVE  /\ Elapsed(lastFrameTime, now') = silence'
                      /\ silence' < SignalLoss + sincePoll'
    BY <2>1 DEF AgeIsTrue, SFHSS_HasSignal
  <2>2. Elapsed(lastFrameTime, now) = silence /\ silence < SignalLoss + sincePoll
    BY DEF AgeIsTrue
  <2>3. /\ silence \in Nat /\ sincePoll \in Nat /\ sincePoll < MaxGap
        /\ now \in Time /\ lastFrameTime \in Time
    BY <1>2, GapAssumption, LossAssumption, WrapAssumption
       DEF LinkTypeOK, TypeOK, MaxSilence, Elapse
  <2>4. silence + 1 < Wrap /\ silence < MaxSilence
    BY <2>2, <2>3, GapAssumption, LossAssumption, WrapAssumption DEF MaxSilence
  <2>5. silence' = silence + 1 /\ sincePoll' = sincePoll + 1 /\ now' = After(now, 1)
    BY <1>2, <2>4 DEF Elapse
  <2>6. Elapsed(lastFrameTime, After(now, 1)) = silence + 1
    <3>1. After(now, 1) = IF now + 1 < Wrap THEN now + 1 ELSE now + 1 - Wrap
      BY <2>3, AfterInTime, WrapAssumption
    <3> QED
      BY <2>2, <2>3, <2>4, <3>1, WrapAssumption DEF Elapsed, Time
  <2>7. silence + 1 < SignalLoss + (sincePoll + 1)
    BY <2>2, <2>3, LossAssumption, WrapAssumption
  <2> QED
    BY <2>5, <2>6, <2>7
<1>3. CASE UNCHANGED <<radioVars, now, sincePoll, silence>>
  BY <1>3 DEF AgeIsTrue, SFHSS_HasSignal, radioVars
<1> QED
  BY <1>1, <1>2, <1>3, OnlyPollDecides

LEMMA AgeInit ==
  ASSUME LinkInit
  PROVE  AgeIsTrue
BY DEF LinkInit, Init, AgeIsTrue, SFHSS_HasSignal

(* While the signal is up, the age read off the wrapping clock is the true *)
(* silence of the link.                                                    *)
THEOREM AgeStaysTrue == Spec => []AgeIsTrue
<1>1. LinkInit => LinkTypeOK /\ AgeIsTrue
  BY TypeInit, AgeInit
<1>2. LinkTypeOK /\ AgeIsTrue /\ [Next]_vars => (LinkTypeOK /\ AgeIsTrue)'
  BY TypeStep, AgeStep
<1> QED
  BY <1>1, <1>2, PTL DEF Spec

(* The loss latch is never late: on a link that has been silent for the    *)
(* loss limit and one poll gap, SFHSS_HasSignal is false, for every timing *)
(* in which a poll falls between the limit and the wrap of the clock.      *)
THEOREM SignalStaysFresh == Spec => []SignalIsFresh
<1>1. LinkTypeOK /\ AgeIsTrue => SignalIsFresh
  <2> SUFFICES ASSUME LinkTypeOK, AgeIsTrue, SFHSS_HasSignal
               PROVE  silence < SignalLoss + MaxGap
    BY DEF SignalIsFresh
  <2>1. silence < SignalLoss + sincePoll
    BY DEF AgeIsTrue
  <2>2. sincePoll \in 0 .. MaxGap /\ silence \in 0 .. MaxSilence
    BY DEF LinkTypeOK
  <2> QED
    BY <2>1, <2>2, LossAssumption, GapAssumption, WrapAssumption DEF MaxSilence
<1> QED
  BY <1>1, LinkTypeCorrect, AgeStaysTrue, PTL

(* The transmitter's walk along its hop sequence.                          *)
Walk == INSTANCE HopWalkProofs
          WITH ch <- txCh, hopcode <- HopCodeOf[Pilot], heard <- {}, HopCodes <- {}

(* Every transmitter comes to the channel that a receiver camps on within  *)
(* ChNum slots, if ChNum + 1 is a prime: next_channel() then has one cycle *)
(* for every hop code that moves at all.                                   *)
THEOREM CampsAreMet ==
  ASSUME Walk!Prime(ChNum + 1)
  PROVE  Spec => []CampIsMet
<1>1. ASSUME NEW from \in Channels, NEW code \in 0 .. ChNum - 2
      PROVE  Ahead(from, code) = Channels
  BY Walk!WalkMeetsAll, ChNumAssumption
  DEF Ahead, NextChannel, U8, Channels,
      Walk!Ahead, Walk!NextChannel, Walk!U8, Walk!Channels
<1>2. LinkTypeOK => CampIsMet
  BY <1>1 DEF LinkTypeOK, TypeOK, CampIsMet
<1> QED
  BY <1>2, LinkTypeCorrect, PTL

(* So it is with the 30 channels of S-FHSS.                                *)
THEOREM ThirtyChannelsAreMet ==
  ASSUME ChNum = 30
  PROVE  Spec => []CampIsMet
<1>1. Walk!Prime(ChNum + 1)
  BY Walk!ThirtyOneIsPrime
<1> QED
  BY <1>1, CampsAreMet

(* The bond: no sequence of losses, rebinds and other transmitters' frames *)
(* makes the receiver follow another transmitter.                          *)
THEOREM BondStays == Spec => BondIsKept
<1>1. LinkTypeOK /\ AgeIsTrue /\ [Next]_vars
        => [txaddr # NoAddr => txaddr' = txaddr]_vars
  <2> SUFFICES ASSUME LinkTypeOK, AgeIsTrue, [Next]_vars, txaddr # NoAddr
               PROVE  txaddr' = txaddr
    OBVIOUS
  <2>1. CASE Poll
    BY <2>1, AddrAfterType
       DEF Poll, SFHSS_Poll, PollStartBind, PollFound, PollFinding, PollBinded, PollListen,
           PollHop, PollGiveUp, Decode, LinkTypeOK, AgeIsTrue
  <2>2. CASE UNCHANGED radioVars
    BY <2>2 DEF radioVars
  <2> QED
    BY <2>1, <2>2, OnlyPollDecides
<1> QED
  BY <1>1, LinkTypeCorrect, AgeStaysTrue, PTL DEF Spec, BondIsKept

-----------------------------------------------------------------------------
(* The grid of a connected receiver: where it stands tells how long the    *)
(* link has been silent.                                                   *)

(* Slots the grid has moved on since the last frame.                       *)
Slots == skipCount + (IF frameThisSlot THEN 0 ELSE 1)

Past == SinceSigned(slotStart, now)

(* The slot in progress began Past ago, in the open window or ahead of it, *)
(* and the last frame was its DATA1, or its DATA2, Slots intervals before. *)
GridInv ==
  phase = "CONNECTED" =>
    /\ SFHSS_HasSignal
    /\ Past \in -Interval .. Window2nd + sincePoll
    /\ \E trail \in {0, Data2Offset} : Past = silence + trail - Slots * Interval

LEMMA GridNumbers ==
  /\ Interval \in Nat /\ Interval > 0 /\ Window2nd \in Nat /\ Data2Offset \in Nat
  /\ Data2Offset <= Window2nd /\ Window2nd < Interval
  /\ MaxGap \in Nat /\ MaxGap > 0 /\ Window2nd + 2 * MaxGap <= Interval
  /\ FallbackCount \in Nat /\ FallbackCount > 0
  /\ SignalLoss \in Nat /\ Wrap \in Nat
  /\ 2 * (Interval + Window2nd + MaxGap) < Wrap
BY SlotAssumption, WrapAssumption, GapAssumption, CountAssumption, LossAssumption,
   OrderAssumption

(* While the window is open, or a blind hop is left, the link has not been *)
(* silent for the loss limit.                                              *)
LEMMA SlotsAreLive ==
  ASSUME LinkTypeOK, GridInv, phase = "CONNECTED",
         \/ Past <= Window2nd
         \/ Slots < FallbackCount
  PROVE  silence < SignalLoss
<1> DEFINE n == Slots
<1>1. PICK trail \in {0, Data2Offset} : Past = silence + trail - n * Interval
  BY DEF GridInv
<1>2. n \in 0 .. FallbackCount
  BY GridNumbers DEF LinkTypeOK, TypeOK, Slots
<1>3. Past \in Int /\ Past <= Window2nd + MaxGap
  BY GridNumbers DEF GridInv, LinkTypeOK
<1>4. silence \in Nat /\ trail \in Nat
  BY GridNumbers DEF LinkTypeOK, MaxSilence
<1> HIDE DEF n
<1>5. n * Interval \in Nat /\ n * Interval <= FallbackCount * Interval
  BY <1>2, GridNumbers
<1>6. CASE Past <= Window2nd
  BY <1>1, <1>3, <1>4, <1>5, <1>6, GridNumbers, OrderAssumption
<1>7. CASE n < FallbackCount
  <2>1. n * Interval <= FallbackCount * Interval - Interval
    <3>1. n + 1 <= FallbackCount
      BY <1>2, <1>7, GridNumbers
    <3>2. (n + 1) * Interval <= FallbackCount * Interval
      BY <1>2, <3>1, GridNumbers
    <3>3. (n + 1) * Interval = n * Interval + Interval
      BY <1>2, GridNumbers
    <3> QED
      BY <1>2, <3>2, <3>3, GridNumbers
  <2>2. silence = Past - trail + n * Interval
    BY <1>1, <1>3, <1>4, <1>5
  <2> DEFINE a == n * Interval
             b == FallbackCount * Interval
  <2>3. a \in Nat /\ b \in Nat /\ a <= b - Interval /\ silence = Past - trail + a
        /\ b + Window2nd + MaxGap <= SignalLoss
    BY <1>5, <2>1, <2>2, GridNumbers, OrderAssumption
  <2> HIDE DEF a, b
  <2> QED
    BY <2>3, <1>3, <1>4, GridNumbers
<1> QED
  BY <1>6, <1>7 DEF n

(* A frame taken in this poll starts the grid anew.                        *)
LEMMA AnchorIsNow ==
  ASSUME LinkTypeOK
  PROVE  /\ Anchor \in Time
         /\ SinceSigned(Anchor, now) \in {0, Data2Offset}
<1>1. SinceSigned(now, now) = 0
  BY GridNumbers DEF LinkTypeOK, TypeOK, Time, SinceSigned
<1>2. SinceSigned(Before(now, Data2Offset), now) = Data2Offset
  <2>1. Data2Offset \in 0 .. Wrap /\ 2 * Data2Offset < Wrap
    BY GridNumbers
  <2> QED
    BY <2>1, SinceSignedOfBefore DEF LinkTypeOK, TypeOK
<1> QED
  BY <1>1, <1>2, AnchorType DEF Anchor, LinkTypeOK

(* A poll that drains nothing keeps the signal while the silence is short. *)
LEMMA GridKeepsSignal ==
  ASSUME LinkTypeOK, AgeIsTrue, GridInv, phase = "CONNECTED", Poll, ~GotFrame,
         silence < SignalLoss
  PROVE  SFHSS_HasSignal'
<1>1. SFHSS_HasSignal /\ Elapsed(lastFrameTime, now) = silence
  BY DEF GridInv, AgeIsTrue
<1>2. silence \in Nat
  BY GridNumbers DEF LinkTypeOK, MaxSilence
<1>3. ~(silence >= SignalLoss)
  BY <1>2, GridNumbers
<1>4. sigLost' = FALSE /\ txaddr' = txaddr
  BY <1>1, <1>3, PollSignal DEF SFHSS_HasSignal
<1> QED
  BY <1>1, <1>4 DEF SFHSS_HasSignal

LEMMA GridStep ==
  ASSUME LinkTypeOK, LinkTypeOK', AgeIsTrue, GridInv, [Next]_vars
  PROVE  GridInv'
<1> SUFFICES ASSUME phase' = "CONNECTED"
             PROVE  /\ SFHSS_HasSignal'
                    /\ Past' \in -Interval .. Window2nd + sincePoll'
                    /\ \E trail \in {0, Data2Offset} :
                         Past' = silence' + trail - Slots' * Interval
  BY DEF GridInv
<1>1. CASE Poll /\ PollFound
  <2>1. /\ phase = "FINDING" /\ GotFrame /\ now' = now /\ sincePoll' = 0 /\ silence' = 0
        /\ slotStart' = After(Anchor, Interval)
        /\ skipCount' = 0 /\ frameThisSlot' = FALSE
    BY <1>1 DEF Poll, PollFound
  <2>2. SFHSS_HasSignal'
    BY <1>1, <2>1, PollSignal, AddrAssumption DEF SFHSS_HasSignal
  <2> DEFINE trail == SinceSigned(Anchor, now)
  <2>3. trail \in {0, Data2Offset} /\ Anchor \in Time /\ now \in Time
    BY AnchorIsNow DEF LinkTypeOK, TypeOK
  <2>4. SinceSigned(After(Anchor, Interval), now) = trail - Interval
    <3>1. Interval \in 0 .. Wrap /\ 2 * (Interval - SinceSigned(Anchor, now)) < Wrap
      BY <2>3, GridNumbers
    <3> QED
      BY <2>3, <3>1, SinceSignedShifts
  <2>5. Past' = trail - Interval
    BY <2>1, <2>4 DEF Past
  <2>6. Slots' = 1
    BY <2>1 DEF Slots
  <2> HIDE DEF trail
  <2> QED
    BY <2>1, <2>2, <2>3, <2>5, <2>6, GridNumbers
<1>2. CASE Poll /\ PollListen
  <2>1. /\ phase = "CONNECTED" /\ now' = now /\ sincePoll' = 0
        /\ slotStart' = GridNow /\ skipCount' = SkipNow /\ frameThisSlot' = SlotFilled
        /\ ~(SinceSigned(GridNow, now) > Window2nd)
    BY <1>2 DEF Poll, PollListen, WindowOver
  <2>2. CASE GotFrame
    <3>1. slotStart' = Anchor /\ silence' = 0 /\ Slots' = 0
      <4>1. SlotFilled = TRUE /\ SkipNow = 0
        BY <2>2 DEF SlotFilled, SkipNow
      <4>2. frameThisSlot' = TRUE /\ skipCount' = 0
        BY <2>1, <4>1
      <4> QED
        BY <1>2, <2>1, <2>2, <4>2 DEF Poll, GridNow, Slots
    <3>2. SFHSS_HasSignal'
      BY <1>2, <2>1, <2>2, PollSignal, AddrAssumption DEF SFHSS_HasSignal
    <3>3. Past' \in {0, Data2Offset}
      BY <2>1, <3>1, AnchorIsNow DEF Past
    <3> QED
      BY <2>1, <3>1, <3>2, <3>3, GridNumbers
  <2>3. CASE ~GotFrame
    <3>1. /\ slotStart' = slotStart /\ silence' = silence /\ Slots' = Slots
          /\ Past' = Past /\ ~(Past > Window2nd)
      <4>1. /\ slotStart' = slotStart /\ silence' = silence
            /\ skipCount' = skipCount /\ frameThisSlot' = frameThisSlot
        BY <1>2, <2>1, <2>3 DEF Poll, GridNow, SkipNow, SlotFilled, LinkTypeOK, TypeOK
      <4> QED
        BY <2>1, <2>3, <4>1 DEF GridNow, Slots, Past
    <3>2. Past \in -Interval .. Window2nd
      BY <2>1, <3>1, GridNumbers DEF GridInv, LinkTypeOK
    <3>3. SFHSS_HasSignal'
      <4>1. silence < SignalLoss
        BY <2>1, <3>2, SlotsAreLive, GridNumbers
      <4> QED
        BY <1>2, <2>1, <2>3, <4>1, GridKeepsSignal
    <3> QED
      BY <2>1, <3>1, <3>2, <3>3, GridNumbers DEF GridInv
  <2> QED
    BY <2>2, <2>3
<1>3. CASE Poll /\ PollHop
  <2>1. /\ phase = "CONNECTED" /\ now' = now /\ sincePoll' = 0
        /\ slotStart' = After(GridNow, Interval) /\ frameThisSlot' = FALSE
        /\ skipCount' = (IF SlotFilled THEN SkipNow ELSE SkipNow + 1)
        /\ SinceSigned(GridNow, now) > Window2nd /\ ~Exhausted
    BY <1>3 DEF Poll, PollHop, WindowOver, NextSlot
  <2>2. ~GotFrame
    <3> SUFFICES ASSUME GotFrame PROVE FALSE
      OBVIOUS
    <3> QED
      BY <2>1, AnchorIsNow, GridNumbers DEF GridNow
  <2>3. /\ silence' = silence /\ slotStart' = After(slotStart, Interval)
        /\ skipCount' = (IF frameThisSlot THEN skipCount ELSE skipCount + 1)
        /\ Past > Window2nd
        /\ frameThisSlot \/ skipCount + 1 < FallbackCount
    BY <1>3, <2>1, <2>2, GridNumbers
       DEF Poll, GridNow, SkipNow, SlotFilled, Exhausted, Past, LinkTypeOK, TypeOK
  <2>4. /\ Slots \in Nat /\ Slots < FallbackCount /\ Slots' = Slots + 1
    BY <2>1, <2>3, GridNumbers DEF Slots, LinkTypeOK, TypeOK
  <2>5. Past \in Int /\ Past <= Window2nd + MaxGap
    BY <2>1, GridNumbers DEF GridInv, LinkTypeOK
  <2>6. Past' = Past - Interval
    <3>1. Interval \in 0 .. Wrap /\ 2 * (Interval - SinceSigned(slotStart, now)) < Wrap
      BY <2>3, <2>5, GridNumbers DEF Past
    <3>2. SinceSigned(After(slotStart, Interval), now) = SinceSigned(slotStart, now) - Interval
      BY <3>1, SinceSignedShifts DEF LinkTypeOK, TypeOK
    <3> QED
      BY <2>1, <2>3, <3>2 DEF Past
  <2>7. SFHSS_HasSignal'
    <3>1. silence < SignalLoss
      BY <2>1, <2>4, SlotsAreLive
    <3> QED
      BY <1>3, <2>1, <2>2, <3>1, GridKeepsSignal
  <2>8. Past' \in -Interval .. Window2nd + sincePoll'
    BY <2>1, <2>3, <2>5, <2>6, GridNumbers
  <2>9. \E trail \in {0, Data2Offset} : Past' = silence' + trail - Slots' * Interval
    <3>1. PICK trail \in {0, Data2Offset} : Past = silence + trail - Slots * Interval
      BY <2>1 DEF GridInv
    <3>2. Slots' * Interval = Slots * Interval + Interval
      BY <2>4, GridNumbers
    <3>3. Slots * Interval \in Int /\ silence \in Int /\ trail \in Int
      BY <2>4, GridNumbers DEF LinkTypeOK, MaxSilence
    <3>4. Past' = silence + trail - Slots' * Interval
      BY <2>5, <2>6, <3>1, <3>2, <3>3, GridNumbers
    <3> QED
      BY <2>3, <3>4
  <2> QED
    BY <2>7, <2>8, <2>9
<1>4. CASE Poll /\ ~PollFound /\ ~PollListen /\ ~PollHop
  BY <1>4 DEF Poll, SFHSS_Poll, PollStartBind, PollFinding, PollBinded, PollGiveUp
<1>5. CASE Elapse /\ UNCHANGED radioVars
  <2>1. phase = "CONNECTED" /\ slotStart' = slotStart /\ Slots' = Slots
        /\ SFHSS_HasSignal' = SFHSS_HasSignal
    BY <1>5 DEF radioVars, Slots, SFHSS_HasSignal
  <2>2. sincePoll \in Nat /\ sincePoll < MaxGap /\ sincePoll' = sincePoll + 1
        /\ now' = After(now, 1)
    BY <1>5, GridNumbers DEF Elapse, LinkTypeOK
  <2>3. silence' = silence + 1
    <3>1. silence < SignalLoss + sincePoll
      BY <2>1 DEF GridInv, AgeIsTrue
    <3> QED
      BY <1>5, <2>2, <3>1, GridNumbers DEF Elapse, LinkTypeOK, MaxSilence
  <2>4. Past \in Int /\ -Interval <= Past /\ Past <= Window2nd + sincePoll
    BY <2>1, <2>2, GridNumbers DEF GridInv
  <2>5. Past' = Past + 1
    <3>1. 2 * (SinceSigned(slotStart, now) + 1) < Wrap
      BY <2>2, <2>4, GridNumbers DEF Past
    <3>2. SinceSigned(slotStart, After(now, 1)) = SinceSigned(slotStart, now) + 1
      BY <3>1, SinceSignedTicks DEF LinkTypeOK, TypeOK
    <3> QED
      BY <2>1, <2>2, <3>2 DEF Past
  <2>6. \E trail \in {0, Data2Offset} : Past' = silence' + trail - Slots' * Interval
    <3>1. PICK trail \in {0, Data2Offset} : Past = silence + trail - Slots * Interval
      BY <2>1 DEF GridInv
    <3>2. Slots * Interval \in Int /\ silence \in Int /\ trail \in Int
      <4>1. Slots \in Int
        BY GridNumbers DEF Slots, LinkTypeOK, TypeOK
      <4> QED
        BY <4>1, GridNumbers DEF LinkTypeOK, MaxSilence
    <3> DEFINE way == Slots * Interval
    <3> HIDE DEF way
    <3>3. Past + 1 = (silence + 1) + trail - way
      BY <3>1, <3>2, <2>4 DEF way
    <3> QED
      BY <2>1, <2>3, <2>5, <3>3 DEF way
  <2>7. SFHSS_HasSignal'
    BY <2>1 DEF GridInv
  <2>8. Past' \in -Interval .. Window2nd + sincePoll'
    BY <2>2, <2>4, <2>5, GridNumbers
  <2> QED
    BY <2>6, <2>7, <2>8
<1>6. CASE UNCHANGED <<radioVars, now, sincePoll, silence>>
  BY <1>6 DEF GridInv, Past, Slots, SFHSS_HasSignal, radioVars
<1> QED
  BY <1>1, <1>2, <1>3, <1>4, <1>5, <1>6, OnlyPollDecides

(* The two timeouts on the same silence: for every slot timing in which    *)
(* FALLBACK_COUNT slots, a window and a poll gap fit in the loss limit, a  *)
(* connected receiver has its signal, however often the clock wraps.       *)
THEOREM ConnectedStaysLive == Spec => []ConnectedIsLive
<1>1. LinkInit => LinkTypeOK /\ AgeIsTrue /\ GridInv
  BY TypeInit, AgeInit DEF LinkInit, Init, GridInv
<1>2. LinkTypeOK /\ AgeIsTrue /\ GridInv /\ [Next]_vars => (LinkTypeOK /\ AgeIsTrue /\ GridInv)'
  BY TypeStep, AgeStep, GridStep
<1>3. GridInv => ConnectedIsLive
  BY DEF GridInv, ConnectedIsLive
<1> QED
  BY <1>1, <1>2, <1>3, PTL DEF Spec

-----------------------------------------------------------------------------
(* The flywheel.                                                           *)

(* The point of its slot at which the transmitter sends packet num.        *)
SentAt(num) == IF num = 1 THEN 0 ELSE Data2Offset

(* A packet of the pilot that waits in the FIFO was sent since the last    *)
(* poll, in the slot in progress, on the channel both are still on.        *)
FifoInv ==
  txOn => \A i \in 1 .. Len(fifo) :
            fifo[i].intact /\ fifo[i].addr = Pilot
              => /\ ch = txCh
                 /\ txPos - SentAt(fifo[i].num) \in 0 .. sincePoll - 1

(* A FIFO of two packets is empty after every poll.                        *)
LEMMA PollEmpties ==
  ASSUME LinkTypeOK, FifoPackets <= 2, Poll
  PROVE  fifo' = <<>>
<1> DEFINE n == Len(fifo)
<1>1. n \in Nat /\ n <= 2
  <2>1. n \in Nat /\ n <= FifoPackets
    BY LenProperties DEF LinkTypeOK, TypeOK
  <2> HIDE DEF n
  <2> QED
    BY <2>1, CountAssumption
<1>2. NRead = n
  <2>1. NRead = IF n < 2 THEN n ELSE 2
    BY DEF NRead
  <2> HIDE DEF n
  <2> QED
    BY <1>1, <2>1
<1>3. Undrained = <<>>
  <2>1. Undrained = SubSeq(fifo, n + 1, n)
    BY <1>2 DEF Undrained
  <2>2. /\ SubSeq(fifo, n + 1, n) \in Seq(Packet)
        /\ Len(SubSeq(fifo, n + 1, n)) = IF n + 1 <= n THEN n - (n + 1) + 1 ELSE 0
    <3>1. n + 1 \in Int /\ n \in Int /\ \A i \in n + 1 .. n : fifo[i] \in Packet
      <4> HIDE DEF n
      <4> QED
        BY <1>1
    <3> HIDE DEF n
    <3> QED
      BY <3>1, SubSeqProperties
  <2>3. (IF n + 1 <= n THEN n - (n + 1) + 1 ELSE 0) = 0
    <3> HIDE DEF n
    <3> QED
      BY <1>1
  <2> QED
    BY <2>1, <2>2, <2>3, EmptySeq
<1> QED
  BY <1>3 DEF Poll, SFHSS_Poll, PollStartBind, PollFound, PollFinding, PollBinded,
              PollListen, PollHop, PollGiveUp, KeepListening, Flush

(* What waits in the FIFO a unit of time later, if nothing joins it.       *)
LEMMA FifoAges ==
  ASSUME LinkTypeOK, FifoInv, Elapse, txOn, ch' = ch,
         NEW i \in 1 .. Len(fifo), fifo[i].intact, fifo[i].addr = Pilot
  PROVE  ch' = txCh' /\ txPos' - SentAt(fifo[i].num) \in 0 .. sincePoll' - 1
<1> DEFINE at == SentAt(fifo[i].num)
<1>1. ch = txCh /\ txPos - at \in 0 .. sincePoll - 1
  BY DEF FifoInv
<1>2. at \in 0 .. Data2Offset
  BY GridNumbers DEF SentAt
<1>3. /\ sincePoll \in Nat /\ sincePoll < MaxGap /\ sincePoll' = sincePoll + 1
      /\ txPos \in 0 .. Interval - 1
  BY GridNumbers DEF Elapse, LinkTypeOK
<1> HIDE DEF at
<1>4. txPos + 1 < Interval
  BY <1>1, <1>2, <1>3, GridNumbers
<1>5. txPos' = txPos + 1 /\ txCh' = txCh
  <2>1. txPos + 1 # Interval /\ (txPos + 1) % Interval = txPos + 1
    BY <1>3, <1>4, GridNumbers
  <2> QED
    BY <2>1 DEF Elapse
<1>6. txPos' - at \in 0 .. sincePoll' - 1
  BY <1>1, <1>2, <1>3, <1>5
<1> QED
  BY <1>1, <1>5, <1>6 DEF at

LEMMA FifoStep ==
  ASSUME LinkTypeOK, LinkTypeOK', FifoPackets <= 2, FifoInv, [Next]_vars
  PROVE  FifoInv'
<1>1. CASE Poll
  <2>1. Len(fifo') = 0
    BY <1>1, PollEmpties, EmptySeq
  <2> QED
    BY <2>1 DEF FifoInv
<1>2. CASE Tick
  <2>1. Elapse /\ fifo' = fifo /\ ch' = ch /\ txOn' = txOn
    BY <1>2 DEF Tick, Elapse, radioVars, chipVars
  <2> QED
    BY <2>1, FifoAges DEF FifoInv
<1>3. ASSUME NEW p \in Packet, Elapse, Capture(p), txOn,
             p.intact /\ p.addr = Pilot
               => ch' = txCh' /\ txPos' - SentAt(p.num) \in 0 .. sincePoll' - 1
      PROVE  FifoInv'
  <2>1. ch' = ch
    BY <1>3 DEF Capture, radioVars
  <2>2. CASE fifo' = fifo
    BY <1>3, <2>1, <2>2, FifoAges DEF FifoInv
  <2>3. CASE fifo' = Append(fifo, p)
    <3> DEFINE n == Len(fifo)
    <3>1. /\ n \in Nat /\ Len(fifo') = n + 1 /\ fifo'[n + 1] = p
          /\ \A i \in 1 .. n : fifo'[i] = fifo[i]
      BY <2>3, LenProperties, AppendProperties DEF LinkTypeOK, TypeOK
    <3> SUFFICES ASSUME NEW i \in 1 .. n + 1, fifo'[i].intact, fifo'[i].addr = Pilot
                 PROVE  ch' = txCh' /\ txPos' - SentAt(fifo'[i].num) \in 0 .. sincePoll' - 1
      BY <3>1 DEF FifoInv
    <3>2. CASE i = n + 1
      BY <1>3, <3>1, <3>2
    <3>3. CASE i \in 1 .. n
      BY <1>3, <2>1, <3>1, <3>3, FifoAges
    <3>4. i = n + 1 \/ i \in 1 .. n
      <4> HIDE DEF n
      <4> QED
        BY <3>1
    <3> QED
      BY <3>2, <3>3, <3>4
  <2> QED
    BY <1>3, <2>2, <2>3 DEF Capture
<1>4. CASE TickFrame
  <2>1. PICK num \in OnAir(txPos'), kind \in PilotKinds :
          Capture([intact |-> TRUE, addr |-> Pilot, num |-> num, kind |-> kind])
    BY <1>4 DEF TickFrame
  <2> DEFINE p == [intact |-> TRUE, addr |-> Pilot, num |-> num, kind |-> kind]
  <2>2. num \in {1, 2} /\ kind \in Kinds
    BY PilotAssumption DEF OnAir
  <2>3. p \in Packet /\ p.num = num
    BY <2>2, PilotAssumption DEF Packet
  <2>4. txPos' - SentAt(num) = 0
    <3>1. \A pos \in Nat : \A k \in OnAir(pos) : pos - SentAt(k) = 0
      BY GridNumbers DEF OnAir, SentAt
    <3>2. txPos' \in Nat
      BY DEF LinkTypeOK
    <3> QED
      BY <3>1, <3>2
  <2>5. ch' = txCh' /\ 0 \in 0 .. sincePoll' - 1
    BY <1>4, <2>1 DEF TickFrame, Capture, radioVars, Elapse, LinkTypeOK
  <2> QED
    BY <1>3, <1>4, <2>1, <2>3, <2>4, <2>5 DEF TickFrame
<1>5. CASE TickStray
  <2>1. PICK p \in Strays : Elapse /\ Capture(p)
    BY <1>5 DEF TickStray
  <2>2. p \in Packet /\ ~(p.intact /\ p.addr = Pilot)
    BY StrayAssumption
  <2>3. CASE txOn
    BY <1>3, <2>1, <2>2, <2>3
  <2>4. CASE ~txOn
    BY <2>1, <2>4 DEF Elapse, FifoInv
  <2> QED
    BY <2>3, <2>4
<1>6. CASE TxOff
  BY <1>6 DEF TxOff, FifoInv
<1>7. CASE TxOnAgain
  <2>1. Len(fifo') = 0
    BY <1>7, EmptySeq DEF TxOnAgain, receiverVars, chipVars
  <2> QED
    BY <2>1 DEF FifoInv
<1>8. CASE UNCHANGED vars
  BY <1>8 DEF vars, txVars, FifoInv, receiverVars, radioVars, chipVars
<1> QED
  BY <1>1, <1>2, <1>4, <1>5, <1>6, <1>7, <1>8 DEF Next

(* A frame of the pilot puts the grid on the transmitter's slot.           *)
LEMMA FrameIsInStep ==
  ASSUME LinkTypeOK, FifoInv, InStep, GotFrame
  PROVE  /\ ch = txCh
         /\ \E late \in Late : SinceSigned(Anchor, now) + late = txPos
<1>1. PICK i \in Accepted : TRUE
  BY DEF GotFrame
<1>2. \A j \in Accepted : /\ j \in 1 .. Len(fifo) /\ fifo[j].intact /\ fifo[j].addr = Pilot
                          /\ fifo[j].num \in {1, 2}
  <2>1. AddrAfter = Pilot
    BY AddrAfterType, AddrAssumption, PilotAssumption DEF InStep, LinkTypeOK
  <2>2. \A j \in 1 .. NRead : j \in 1 .. Len(fifo) /\ fifo[j] \in Packet
    <3>1. NRead \in Nat /\ NRead <= Len(fifo) /\ Len(fifo) \in Nat
      BY DrainType, LenProperties DEF LinkTypeOK, TypeOK
    <3> QED
      BY <3>1, DrainType DEF LinkTypeOK
  <2> QED
    BY <2>1, <2>2 DEF Accepted, Intact, Packet
<1>3. \A j \in Accepted : ch = txCh /\ txPos - SentAt(fifo[j].num) \in 0 .. sincePoll - 1
  BY <1>2 DEF FifoInv, InStep
<1>4. sincePoll \in Nat /\ sincePoll <= MaxGap /\ txPos \in Int
  BY GridNumbers DEF LinkTypeOK
<1>5. CASE GotData(1) /\ ~GotData(2)
  <2>1. PICK j \in Accepted : fifo[j].num = 1
    BY <1>5 DEF GotData
  <2>2. txPos - 0 \in 0 .. sincePoll - 1
    BY <1>3, <2>1 DEF SentAt
  <2>3. SinceSigned(Anchor, now) = 0
    BY <1>5, GridNumbers DEF Anchor, LinkTypeOK, TypeOK, Time, SinceSigned
  <2>4. txPos \in Late /\ 0 + txPos = txPos
    BY <1>4, <2>2, GridNumbers DEF Late
  <2> QED
    BY <1>1, <1>3, <2>3, <2>4
<1>6. CASE ~(GotData(1) /\ ~GotData(2))
  <2>1. PICK j \in Accepted : fifo[j].num = 2
    BY <1>1, <1>2, <1>6 DEF GotData
  <2>2. txPos - Data2Offset \in 0 .. sincePoll - 1
    BY <1>3, <2>1 DEF SentAt
  <2>3. SinceSigned(Anchor, now) = Data2Offset
    <3>1. Data2Offset \in 0 .. Wrap /\ 2 * Data2Offset < Wrap
      BY GridNumbers
    <3> QED
      BY <1>6, <3>1, SinceSignedOfBefore DEF Anchor, LinkTypeOK, TypeOK
  <2>4. txPos - Data2Offset \in Late /\ Data2Offset + (txPos - Data2Offset) = txPos
    BY <1>4, <2>2, GridNumbers DEF Late
  <2> QED
    BY <1>1, <1>3, <2>3, <2>4
<1> QED
  BY <1>5, <1>6

LEMMA StepIsKept ==
  ASSUME LinkTypeOK, LinkTypeOK', AgeIsTrue, GridInv, FifoInv, InStep, [Next]_vars,
         txOn', phase' # "BINDED"
  PROVE  InStep'
<1>1. PICK late \in Late :
        \/ ch = txCh /\ Past + late = txPos
        \/ ch = NextChannel(txCh, hopcode) /\ Past + late = txPos - Interval
  BY DEF InStep, Past
<1>2. /\ phase = "CONNECTED" /\ txOn /\ txaddr = Pilot /\ hopcode = HopCodeOf[Pilot]
      /\ late \in 0 .. MaxGap - 1 /\ txPos \in 0 .. Interval - 1
      /\ Past \in -Interval .. Window2nd + sincePoll /\ sincePoll \in 0 .. MaxGap
  BY DEF InStep, Late, GridInv, LinkTypeOK
<1>3. CASE Poll
  <2>1. /\ UNCHANGED <<txOn, txCh, txPos>> /\ now' = now /\ txaddr' = Pilot
    <3>1. now' = now
      BY <1>3 DEF Poll, SFHSS_Poll, PollStartBind, PollFound, PollFinding, PollBinded,
                  PollListen, PollHop, PollGiveUp
    <3>2. txaddr' = Pilot
      <4>1. AddrAfter = Pilot
        BY <1>2, AddrAfterType, AddrAssumption, PilotAssumption DEF LinkTypeOK
      <4> QED
        BY <1>2, <1>3, <4>1 DEF Poll, SFHSS_Poll, PollStartBind, PollFound, PollFinding,
           PollBinded, PollListen, PollHop, PollGiveUp, Decode
    <3> QED
      BY <1>3, <3>1, <3>2 DEF Poll, txVars
  <2>2. PollListen \/ PollHop
    BY <1>2, <1>3 DEF Poll, SFHSS_Poll, PollStartBind, PollFound, PollFinding, PollBinded,
                      PollGiveUp
  <2>3. phase' = "CONNECTED" /\ hopcode' = HopCodeOf[Pilot]
    <3>1. AddrAfter = Pilot
      BY <1>2, AddrAfterType, AddrAssumption, PilotAssumption DEF LinkTypeOK
    <3> QED
      BY <1>2, <2>2, <3>1 DEF PollListen, PollHop, Decode
  <2>4. CASE GotFrame
    <3>1. SinceSigned(Anchor, now) <= Window2nd
      BY AnchorIsNow, GridNumbers
    <3>2. PollListen
      BY <2>2, <2>4, <3>1, AnchorIsNow, GridNumbers DEF PollHop, WindowOver, GridNow
    <3>3. slotStart' = Anchor /\ ch' = ch
      BY <2>4, <3>2 DEF PollListen, GridNow
    <3> QED
      BY <1>2, <2>1, <2>3, <2>4, <3>3, FrameIsInStep DEF InStep
  <2>5. CASE ~GotFrame /\ PollListen
    <3>1. slotStart' = slotStart /\ ch' = ch
      BY <2>5 DEF PollListen, GridNow
    <3> QED
      BY <1>1, <1>2, <2>1, <2>3, <3>1 DEF InStep, Past
  <2>6. CASE ~GotFrame /\ PollHop
    <3>1. /\ slotStart' = After(slotStart, Interval) /\ Past > Window2nd
          /\ ch' = NextChannel(ch, hopcode')
      BY <2>6 DEF PollHop, NextSlot, WindowOver, GridNow, Past
    <3>2. ch = txCh /\ Past + late = txPos
      BY <1>1, <1>2, <3>1, GridNumbers
    <3>3. SinceSigned(After(slotStart, Interval), now) = Past - Interval
      <4>1. Interval \in 0 .. Wrap /\ 2 * (Interval - SinceSigned(slotStart, now)) < Wrap
        BY <1>2, <3>1, GridNumbers DEF Past
      <4> QED
        BY <4>1, SinceSignedShifts DEF LinkTypeOK, TypeOK, Past
    <3>4. (Past - Interval) + late = txPos - Interval
      BY <1>2, <3>2, GridNumbers
    <3> QED
      BY <1>2, <2>1, <2>3, <3>1, <3>2, <3>3, <3>4 DEF InStep
  <2> QED
    BY <2>2, <2>4, <2>5, <2>6
<1>4. CASE Elapse /\ UNCHANGED radioVars
  <2>1. /\ phase' = phase /\ txaddr' = txaddr /\ hopcode' = hopcode /\ ch' = ch
        /\ slotStart' = slotStart /\ now' = After(now, 1) /\ sincePoll < MaxGap
        /\ txPos' = (txPos + 1) % Interval
        /\ txCh' = IF txPos + 1 = Interval THEN NextChannel(txCh, hopcode) ELSE txCh
    BY <1>2, <1>4 DEF Elapse, radioVars
  <2>2. Past' = Past + 1
    <3>1. 2 * (SinceSigned(slotStart, now) + 1) < Wrap
      BY <1>2, <2>1, GridNumbers DEF Past
    <3>2. SinceSigned(slotStart, After(now, 1)) = SinceSigned(slotStart, now) + 1
      BY <3>1, SinceSignedTicks DEF LinkTypeOK, TypeOK
    <3> QED
      BY <2>1, <3>2 DEF Past
  <2>3. CASE txPos + 1 # Interval
    <3>1. txPos' = txPos + 1 /\ txCh' = txCh
      BY <1>2, <2>1, <2>3, GridNumbers
    <3>2. \/ ch' = txCh' /\ Past' + late = txPos'
          \/ ch' = NextChannel(txCh', hopcode') /\ Past' + late = txPos' - Interval
      BY <1>1, <1>2, <2>1, <2>2, <3>1, GridNumbers
    <3> QED
      BY <1>2, <2>1, <3>2 DEF InStep, Past
  <2>4. CASE txPos + 1 = Interval
    <3>1. txPos' = 0 /\ txCh' = NextChannel(txCh, hopcode)
      BY <1>2, <2>1, <2>4, GridNumbers
    <3>2. ch = NextChannel(txCh, hopcode) /\ Past + late = txPos - Interval
      BY <1>1, <1>2, <2>1, <2>4, GridNumbers
    <3>3. ch' = txCh' /\ Past' + late = txPos'
      BY <1>2, <2>1, <2>2, <2>4, <3>1, <3>2, GridNumbers
    <3> QED
      BY <1>2, <2>1, <3>3 DEF InStep, Past
  <2> QED
    BY <2>3, <2>4
<1>5. CASE TxOff \/ TxOnAgain
  BY <1>2, <1>5 DEF TxOff, TxOnAgain
<1>6. CASE UNCHANGED vars
  BY <1>6 DEF vars, txVars, receiverVars, radioVars, InStep
<1> QED
  BY <1>3, <1>4, <1>5, <1>6 DEF Next, Tick, TickFrame, TickStray, Capture

(* The flywheel never leaves the transmitter: whatever frames are lost and *)
(* wherever the clock wraps, for every slot timing, hop rule and poll gap, *)
(* if a poll reads all that the FIFO can hold.                             *)
THEOREM FlywheelStaysInStep ==
  ASSUME FifoPackets <= 2
  PROVE  Spec => FlywheelKeepsStep
<1> DEFINE I == LinkTypeOK /\ AgeIsTrue /\ GridInv /\ FifoInv
<1>1. LinkInit => I
  <2>1. LinkInit => GridInv /\ FifoInv
    BY DEF LinkInit, Init, GridInv, FifoInv
  <2> QED
    BY <2>1, TypeInit, AgeInit
<1>2. I /\ [Next]_vars => I'
  BY TypeStep, AgeStep, GridStep, FifoStep
<1>3. I /\ [Next]_vars => [InStep => InStep' \/ ~txOn' \/ phase' = "BINDED"]_vars
  BY TypeStep, StepIsKept
<1> QED
  BY <1>1, <1>2, <1>3, PTL DEF Spec, FlywheelKeepsStep

-----------------------------------------------------------------------------
(* A connected receiver that lets the main loop stall is in fact ahead of  *)
(* the next DATA1 by the quiet lead, less what its grid may be late: for   *)
(* every slot timing and poll gap, and on either side of the clock's wrap. *)
THEOREM QuietStaysQuiet == Spec => []QuietIsQuiet
<1>1. LinkTypeOK => QuietIsQuiet
  <2> SUFFICES ASSUME LinkTypeOK, InStep, SFHSS_QuietForImu
               PROVE  UntilData1 + MaxGap > QuietLead + 1
    BY DEF QuietIsQuiet
  <2> DEFINE since == SinceSigned(slotStart, now)
  <2>1. PICK late \in Late : since + late = txPos \/ since + late = txPos - Interval
    BY DEF InStep
  <2>2. since \in Int /\ since < -QuietLead
    BY WrapAssumption DEF InStep, SFHSS_QuietForImu, LinkTypeOK, TypeOK, Time, SinceSigned
  <2>3. /\ txPos \in 0 .. Interval - 1 /\ late \in 0 .. MaxGap - 1
        /\ MaxGap \in Nat /\ Interval \in Nat /\ QuietLead \in 1 .. Interval
    BY GapAssumption, SlotAssumption, WrapAssumption DEF LinkTypeOK, Late
  <2> HIDE DEF since
  <2>4. Interval - txPos + MaxGap > QuietLead + 1
    BY <2>1, <2>2, <2>3
  <2> QED
    BY <2>4 DEF UntilData1
<1> QED
  BY <1>1, LinkTypeCorrect, PTL

-----------------------------------------------------------------------------
(* The refinement of SignalContract.                                       *)

LEMMA ContractInit ==
  ASSUME LinkInit
  PROVE  Contract!Init
BY DEF LinkInit, Init, Contract!Init

LEMMA ContractStep ==
  ASSUME LinkTypeOK, LinkTypeOK', AgeIsTrue, AgeIsTrue', [Next]_vars
  PROVE  [Contract!Next]_Contract!contractVars
<1> DEFINE sig == IF txaddr = NoAddr THEN "none" ELSE IF sigLost THEN "lost" ELSE "up"
           sil == IF txaddr = NoAddr THEN 0 ELSE silence
<1>1. CASE Poll
  <2>1. CASE phase = "START_BIND"
    BY <1>1, <2>1, PollSignal DEF AgeIsTrue, Contract!contractVars
  <2>2. CASE phase # "START_BIND" /\ GotFrame
    <3>1. sig' = "up" /\ sil' = 0
      BY <1>1, <2>2, PollSignal, AddrAssumption
    <3> QED
      BY <3>1 DEF Contract!Next, Contract!Frame
  <2>3. CASE phase # "START_BIND" /\ ~GotFrame
    <3>1. /\ txaddr' = txaddr /\ silence' = silence
          /\ sigLost' = (\/ sigLost
                         \/ /\ txaddr # NoAddr
                            /\ Elapsed(lastFrameTime, now) >= SignalLoss)
      BY <1>1, <2>3, PollSignal
    <3>2. CASE txaddr = NoAddr \/ sigLost
      BY <3>1, <3>2 DEF Contract!contractVars
    <3>3. CASE txaddr # NoAddr /\ ~sigLost /\ ~(Elapsed(lastFrameTime, now) >= SignalLoss)
      BY <3>1, <3>3 DEF Contract!contractVars
    <3>4. CASE txaddr # NoAddr /\ ~sigLost /\ Elapsed(lastFrameTime, now) >= SignalLoss
      <4>1. silence >= SignalLoss
        BY <3>4 DEF AgeIsTrue, SFHSS_HasSignal
      <4> QED
        BY <3>1, <3>4, <4>1 DEF Contract!Next, Contract!Loose
    <3> QED
      BY <3>2, <3>3, <3>4
  <2> QED
    BY <2>1, <2>2, <2>3
<1>2. CASE Elapse /\ UNCHANGED radioVars
  <2>1. sig' = sig /\ txaddr' = txaddr /\ sigLost' = sigLost
    BY <1>2 DEF radioVars
  <2>2. CASE txaddr = NoAddr
    BY <2>1, <2>2 DEF Contract!contractVars
  <2>3. CASE txaddr # NoAddr
    <3>1. silence' = IF silence < Contract!MaxSilence THEN silence + 1 ELSE silence
      BY <1>2 DEF Elapse, MaxSilence, Contract!MaxSilence
    <3>2. sig = "up" => silence + 1 < Contract!MaxSilence
      <4> SUFFICES ASSUME sig = "up" PROVE silence + 1 < SignalLoss + MaxGap
        BY DEF Contract!MaxSilence
      <4>1. silence < SignalLoss + sincePoll
        BY <2>3 DEF AgeIsTrue, SFHSS_HasSignal
      <4> QED
        BY <1>2, <4>1, GapAssumption, LossAssumption, WrapAssumption
           DEF Elapse, LinkTypeOK, MaxSilence
    <3> QED
      BY <2>1, <2>3, <3>1, <3>2 DEF Contract!Next, Contract!Age
  <2> QED
    BY <2>2, <2>3
<1>3. CASE UNCHANGED <<radioVars, now, sincePoll, silence>>
  BY <1>3 DEF radioVars, Contract!contractVars
<1> QED
  BY <1>1, <1>2, <1>3, OnlyPollDecides

(* The receiver keeps the promise that the main loop is modelled against:  *)
(* every behaviour of RadioLink is one of SignalContract.                  *)
THEOREM LinkHonoursContract == Spec => HonoursContract
  BY ContractInit, ContractStep, LinkTypeCorrect, AgeStaysTrue, PTL
     DEF Spec, HonoursContract, Contract!Spec
=============================================================================
