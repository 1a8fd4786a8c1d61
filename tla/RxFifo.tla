------------------------------- MODULE RxFifo -------------------------------
(***************************************************************************)
(* The RX FIFO of the CC2500 and the code that empties it: the re-read     *)
(* loop of CC2500_ReadRxBytes, the drain loop of SFHSS_Poll, and what each *)
(* phase of SFHSS_Poll does to the FIFO afterwards.  Bytes arrive while    *)
(* the registers are clocked out.  The erratum quoted at                   *)
(* CC2500_ReadRxBytes is the fault: a count that is read while a byte      *)
(* arrives may come out as anything.                                       *)
(*                                                                         *)
(* The FIFO and the air are outside the repository.  One unit of time is   *)
(* a tenth of a byte at the 128 kbit/s of sfhss_config, 6 us, and so is    *)
(* the moment in which a byte arrives.  A read of the status register      *)
(* takes 6 to 8 of them ("all 8 re-reads (~350us)", or two of the 16 bytes *)
(* of "each extra FIFO read is ~400us"), a byte of the FIFO 4.             *)
(***************************************************************************)
EXTENDS Integers

CONSTANTS
  Full,       \* PACKET_LENGTH: payload and two status bytes
  Depth,      \* bytes the FIFO holds
  Tries,      \* re-reads of CC2500_ReadRxBytes
  Guard,      \* packets one poll drains at most
  ByteTime,   \* time of a byte on the air
  ReadTimes,  \* times a status read may take
  PopTime,    \* time of a byte of a FIFO read
  Garbled     \* what a read may return while a byte arrives

Value == [over : BOOLEAN, n : 0 .. Depth]

ASSUME FifoAssumption ==
  /\ Full \in Nat /\ Full > 2
  /\ Tries \in Nat \ {0} /\ Guard \in Nat \ {0}
  \* 64 >= 2 * 2 * 15: a poll that misses an overflow leaves the next one,
  \* which sees it, whole packets to drain
  /\ Depth \in Nat /\ Depth >= 2 * Guard * Full
  /\ ByteTime \in Nat \ {0} /\ PopTime \in Nat \ {0}
  /\ ReadTimes \subseteq Nat \ {0} /\ ReadTimes # {}
  /\ Garbled \subseteq Value
(* A status read is shorter than a byte on the air: of two in a row at     *)
(* most one meets an arriving byte.                                        *)
ASSUME PaceAssumption == \A r \in ReadTimes : r < ByteTime

VARIABLES
  n, over,      \* the FIFO: its bytes, and whether it has overflowed
  left,         \* bytes (the two status bytes as one) still to come
  gap,          \* time until the next of them
  arriving,     \* a byte is arriving at this moment
  pc, busy,     \* the code, and the time its SPI transfer still takes
  phase,        \* g_sfhss.phase
  a, tries,     \* locals of CC2500_ReadRxBytes
  pop,          \* bytes the FIFO read still takes
  drained, ovf, \* locals of SFHSS_Poll: packets read, the overflow bit
  there,        \* history: a packet lay in the FIFO when the call began
  settled,      \* history: two reads settled the last answer
  jammed        \* history: the poll began with the FIFO overflowed

air  == <<n, over, left, gap, arriving>>
spi  == <<a, tries, pop, drained, ovf, there, settled, jammed>>
vars == <<air, pc, busy, phase, spi>>

Payload == Full - 2
Nothing == [over |-> FALSE, n |-> 0]
Phases  == {"start_bind", "finding", "binded", "connected"}

Init ==
  /\ n = 0 /\ over = FALSE /\ left = 0 /\ gap = 0 /\ arriving = FALSE
  /\ pc = "loop" /\ busy = 0 /\ phase = "start_bind"
  /\ a = Nothing /\ tries = 0 /\ pop = 0 /\ drained = 0 /\ ovf = FALSE
  /\ there = FALSE /\ settled = TRUE /\ jammed = FALSE

-----------------------------------------------------------------------------
(* The CRC is checked and not stored: the status bytes come three byte     *)
(* times after the payload.                                                *)
GapBefore(k) == IF k = 1 THEN 3 * ByteTime ELSE ByteTime

Arrive ==
  LET k == IF left = 1 THEN 2 ELSE 1 IN
  /\ left > 0 /\ gap = 1
  /\ left' = left - 1
  /\ gap' = IF left = 1 THEN 0 ELSE GapBefore(left - 1)
  /\ arriving' = TRUE
  /\ IF n + k <= Depth THEN n' = n + k /\ UNCHANGED over
     ELSE /\ n' = Depth /\ over' = TRUE

Stream == /\ left > 0 /\ gap > 1
          /\ gap' = gap - 1 /\ arriving' = FALSE
          /\ UNCHANGED <<n, over, left>>

(* The chip sees a sync word.  It listens from the first retune on, until  *)
(* an overflow.                                                            *)
Sync == /\ left = 0 /\ ~over /\ phase # "start_bind"
        /\ left' = Payload + 1 /\ gap' = ByteTime /\ arriving' = FALSE
        /\ UNCHANGED <<n, over>>

Quiet == left = 0 /\ arriving' = FALSE /\ UNCHANGED <<n, over, left, gap>>

(* A packet that no longer fits is cut off.                                *)
CutOff == /\ over /\ left > 0
          /\ left' = 0 /\ gap' = 0 /\ arriving' = FALSE
          /\ UNCHANGED <<n, over>>

Elapse ==
  /\ busy > 0 \/ pc = "loop"
  /\ busy' = IF busy > 0 THEN busy - 1 ELSE 0
  /\ IF over /\ left > 0 THEN CutOff ELSE Arrive \/ Stream \/ Sync \/ Quiet
  /\ UNCHANGED <<pc, phase, spi>>

(* CC2500_ReadStatusReg(CC2500_RXBYTES)                                    *)
RxBytes == {[over |-> over, n |-> n]} \cup (IF arriving THEN Garbled ELSE {})

Packet(v) == v.n >= Full

-----------------------------------------------------------------------------
(* What the code does to the chip when a drain is over: it leaves it on,   *)
(* strobes SIDLE, SFRX, SRX (rx_restart, hop_flush), or retunes it with    *)
(* SIDLE and SRX alone (hop), which aborts the packet that streams in and  *)
(* leaves the bytes of it that are in the FIFO.                            *)
LeaveOn == UNCHANGED air
Flush == n' = 0 /\ over' = FALSE /\ left' = 0 /\ gap' = 0 /\ arriving' = FALSE
Hop == left' = 0 /\ gap' = 0 /\ arriving' = FALSE /\ UNCHANGED <<n, over>>

(* SFHSS_PH_START_BIND (start_bind) and SFHSS_PH_BINDED: SFRX, then hop(). *)
(* Mutant: hop() alone.                                                    *)
RebindUnflushed == Hop /\ phase' = "finding"
Rebind == Flush /\ phase' = "finding"

(* SFHSS_PH_FINDING, after the restart for an overflow.                    *)
Search(res) ==
  \/ res = "nothing" /\ LeaveOn /\ UNCHANGED phase
  \/ res = "rejected" /\ Flush /\ UNCHANGED phase
  \/ res = "valid" /\ phase' = "connected" /\ IF ovf' THEN Flush ELSE Hop

(* SFHSS_PH_CONNECTED: the window of the slot may be over, and 30 slots in *)
(* a row may have been lost.                                               *)
(* Mutant: an overflow is left to the next hop to flush.                   *)
FollowForgets(res) ==
  \/ Flush /\ phase' = "connected"
  \/ /\ phase' = "connected" \/ (phase' = "binded" /\ res # "valid")
     /\ IF res = "rejected" THEN Flush ELSE LeaveOn
Follow(res) ==
  \/ Flush /\ phase' = "connected"
  \/ /\ phase' = "connected" \/ (phase' = "binded" /\ res # "valid")
     /\ IF ovf' \/ res = "rejected" THEN Flush ELSE LeaveOn

(* parse_packet takes a frame for valid or not by its bytes, whether they  *)
(* are those of one packet or not.                                         *)
Finish ==
  /\ pc' = "loop" /\ busy' = 0 /\ pop' = 0
  /\ \E res \in IF drained = 0 THEN {"nothing"} ELSE {"valid", "rejected"} :
       \/ phase \in {"start_bind", "binded"} /\ Rebind
       \/ phase = "finding" /\ Search(res)
       \/ phase = "connected" /\ Follow(res)

-----------------------------------------------------------------------------
(* CC2500_ReadRxBytes begins, with m bytes in the FIFO; its first read is  *)
(* under way.                                                              *)
Ask(m) ==
  /\ pc' = "first" /\ busy' \in ReadTimes
  /\ there' = (m >= Full) /\ settled' = TRUE

SFHSS_Poll ==
  /\ pc = "loop" /\ busy = 0
  /\ Ask(n)
  /\ drained' = 0 /\ ovf' = FALSE /\ jammed' = over
  /\ UNCHANGED <<air, phase, a, tries, pop>>

FirstRead ==
  /\ pc = "first" /\ busy = 0
  /\ a' \in RxBytes
  /\ pc' = "again" /\ busy' \in ReadTimes
  /\ UNCHANGED <<air, phase, tries, pop, drained, ovf, there, settled, jammed>>

(* The two reads settle the question: they agree, or both show a packet.   *)
(* Mutant: a single read showing a packet is enough.                       *)
SettledByOne(x, y) == x = y \/ Packet(x) \/ Packet(y)
Settled(x, y) == x = y \/ (Packet(x) /\ Packet(y))

Smaller(x, y) == IF x.n < y.n THEN x ELSE y

(* What the next read is compared with.                                    *)
(* Mutant: all are compared with the first.                                *)
KeptFirst(x, y) == x
Kept(x, y) == y

StartDrain == pc' = "fifo" /\ pop' = Full /\ busy' = PopTime

(* SFHSS_Poll goes on with the answer v.                                   *)
Answer(v) ==
  /\ ovf' = IF drained = 0 THEN v.over ELSE ovf
  /\ IF \/ drained = 0 /\ (v.over \/ Packet(v))
        \/ drained \in 1 .. Guard - 1 /\ Packet(v)
     THEN StartDrain /\ UNCHANGED <<air, phase>>
     ELSE Finish

(* The last of the tries is an answer even if nothing settled it.          *)
ReRead ==
  /\ pc = "again" /\ busy = 0
  /\ \E b \in RxBytes :
       IF Settled(a, b) \/ tries + 1 = Tries
       THEN /\ Answer(IF Settled(a, b) THEN Smaller(a, b) ELSE b)
            /\ settled' = Settled(a, b)
            /\ a' = Nothing /\ tries' = 0
       ELSE /\ a' = Kept(a, b) /\ tries' = tries + 1 /\ busy' \in ReadTimes
            /\ UNCHANGED <<air, phase, pc, pop, ovf, settled>>
  /\ UNCHANGED <<drained, there, jammed>>

(* CC2500_ReadFIFO takes a byte; an empty FIFO gives none.                 *)
CC2500_ReadFIFO ==
  /\ pc = "fifo" /\ busy = 0
  /\ n' = IF n > 0 THEN n - 1 ELSE 0
  /\ pop' = pop - 1
  /\ IF pop = 1 THEN Ask(n') /\ drained' = drained + 1
     ELSE busy' = PopTime /\ UNCHANGED <<pc, there, settled, drained>>
  /\ UNCHANGED <<over, left, gap, arriving, phase, a, tries, ovf, jammed>>

Next == Elapse \/ SFHSS_Poll \/ FirstRead \/ ReRead \/ CC2500_ReadFIFO

Spec == Init /\ [][Next]_vars

-----------------------------------------------------------------------------
TypeOK ==
  /\ n \in 0 .. Depth /\ over \in BOOLEAN
  /\ left \in 0 .. Payload + 1 /\ gap \in 0 .. 3 * ByteTime
  /\ arriving \in BOOLEAN
  /\ pc \in {"loop", "first", "again", "fifo"} /\ busy \in Nat
  /\ phase \in Phases
  /\ a \in Value /\ tries \in 0 .. Tries - 1
  /\ pop \in 0 .. Full /\ drained \in 0 .. Guard /\ ovf \in BOOLEAN
  /\ there \in BOOLEAN /\ settled \in BOOLEAN /\ jammed \in BOOLEAN

(* A count that two reads have settled is one to build on, although either *)
(* of them may have come out as anything: the FIFO read that follows it    *)
(* finds every byte it wants, whatever streams in and however the chip has *)
(* overflowed meanwhile.                                                   *)
ReadsWholePackets == pc = "fifo" /\ settled => n >= pop

(* And it overlooks nothing: a packet that lay in the FIFO when the count  *)
(* was asked for is drained, or it was the Guard-th in this poll.          *)
PacketIsSeen ==
  [][pc = "again" /\ pc' # "again" /\ settled' /\ there /\ drained < Guard
       => pc' = "fifo"]_vars

(* "Overflow parks the chip ... it receives NOTHING until SFRX": a poll    *)
(* that begins with an overflow ends without it, in every phase, whatever  *)
(* it has drained, although it trusts the bit of its first answer alone    *)
(* and a poll before it may have missed it.                                *)
JamIsCleared == [][pc # "loop" /\ pc' = "loop" /\ jammed => ~over']_vars

(* How much has come of the packet that streams in, and what is left of    *)
(* the one that is being read.                                             *)
Begun  == IF left > 0 THEN Payload + 1 - left ELSE 0
Taking == IF pc = "fifo" THEN pop ELSE 0

(* Apart from these two the FIFO holds whole packets (as many as fit, once *)
(* it has overflowed).                                                     *)
Aligned == over \/ (n - Taking - Begun) % Full = 0

(* While the receiver searches, every poll begins where a packet begins,   *)
(* and so does the first frame it reads on a settled count, the one that   *)
(* gives it address and hop code: the remains of packets that hop() cuts   *)
(* off, of FIFO reads on a count that nothing settled and of rejected      *)
(* frames do not outlast the way back to the search.                       *)
SearchIsAligned ==
  /\ phase = "finding" /\ (pc = "loop" \/ drained = 0)
  /\ pc = "fifo" => settled
  => Aligned
=============================================================================
