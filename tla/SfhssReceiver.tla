--------------------------- MODULE SfhssReceiver ---------------------------
(***************************************************************************)
(* The S-FHSS receiver of sfhss.c (production mode, SFHSS_PAIR_MODE 0) and *)
(* what it sees of the CC2500: the RX FIFO as a queue of whole packets,    *)
(* and whether the chip is receiving.                                      *)
(*                                                                         *)
(* SFHSS_Poll runs to completion once per pass of the main loop, so each   *)
(* of its outcomes is one action: latch, drain and decode (Decode), then   *)
(* the part of the phase the receiver is in.  Statistics, the ring of      *)
(* frame timings and the last raw packet are left out: nothing reads them. *)
(***************************************************************************)
EXTENDS MicrosTime, HopSequence, Sequences

CONSTANTS
  Transmitters,   \* transmitter addresses
  NoAddr,         \* txaddr < 0: not bound yet
  HopCodeOf,      \* the hop code each transmitter puts in its frames
  Interval,       \* SHORT_INTERVAL: one slot
  Data2Offset,    \* SLOT_DATA2_OFFSET_US: DATA2 trails DATA1 by this much
  Window2nd,      \* SLOT_2ND_WINDOW_US: linger after the expected DATA1
  QuietLead,      \* the 1600 us of SFHSS_QuietForImu
  SignalLoss,     \* SIGNAL_LOSS_US
  FallbackCount,  \* FALLBACK_COUNT: blind hops before a rebind
  FifoPackets     \* whole packets the 64-byte RX FIFO holds

ASSUME AddrAssumption == NoAddr \notin Transmitters
ASSUME HopCodeAssumption == HopCodeOf \in [Transmitters -> 0 .. ChNum - 1]
ASSUME SlotAssumption ==
  /\ Interval \in 1 .. Wrap - 1
  /\ Data2Offset \in 1 .. Interval - 1
  /\ Window2nd \in Data2Offset .. Interval - 1
  /\ QuietLead \in 1 .. Interval
ASSUME LossAssumption == SignalLoss \in 1 .. Wrap - 1
ASSUME CountAssumption == FallbackCount \in Nat \ {0} /\ FifoPackets \in Nat \ {0}

Phases == {"START_BIND", "FINDING", "BINDED", "CONNECTED"}

(* A packet in the FIFO: intact is "marker and CRC_OK", num is the packet  *)
(* number bit of cmd (1 = DATA1, 2 = DATA2), kind what the failsafe and    *)
(* bank bits of cmd make of the payload.                                   *)
Kinds == {"ch14", "ch58", "failsafe"}
Packet == [intact : BOOLEAN, addr : Transmitters, num : {1, 2}, kind : Kinds]

VARIABLES
  now,            \* the reading of micros() that the next poll gets
  phase, txaddr, hopcode, ch, skipCount,
  frameThisSlot,  \* a frame was taken in the current slot
  slotStart,      \* when the current slot's DATA1 is read, if read promptly
  lastFrameTime, sigLost,
  data,           \* where each bank's channels come from: Init or a frame
  fifo, overflow, \* the chip: received packets, RXFIFO_OVERFLOW
  rxOn            \* the chip: in RX

radioVars == <<phase, txaddr, hopcode, ch, skipCount, frameThisSlot, slotStart,
               lastFrameTime, sigLost, data>>
chipVars == <<fifo, overflow, rxOn>>
receiverVars == <<now, radioVars, chipVars>>

Init ==
  /\ now \in Time
  /\ phase = "START_BIND"
  /\ txaddr = NoAddr
  /\ hopcode = 0
  /\ ch = 0
  /\ skipCount = 0
  /\ frameThisSlot = FALSE
  /\ slotStart = 0
  /\ lastFrameTime = 0
  /\ sigLost = FALSE
  /\ data = [bank \in {"ch14", "ch58"} |-> "init"]
  /\ fifo = <<>> /\ overflow = FALSE /\ rxOn = FALSE

-----------------------------------------------------------------------------
(* What one poll drains, and what parse_packet makes of it.                *)

(* The guard of the drain loop: at most two packets in one poll.           *)
NRead == IF Len(fifo) < 2 THEN Len(fifo) ELSE 2

Undrained == SubSeq(fifo, NRead + 1, Len(fifo))

Intact == {i \in 1 .. NRead : fifo[i].intact}

(* The first intact packet binds an unbound receiver to its sender.        *)
AddrAfter ==
  IF txaddr # NoAddr \/ Intact = {} THEN txaddr
  ELSE fifo[CHOOSE i \in Intact : \A j \in Intact : i <= j].addr

(* The packets parse_packet accepts.                                       *)
Accepted == {i \in Intact : fifo[i].addr = AddrAfter}

(* The values of res in SFHSS_Poll: 1, 2 and 0.                            *)
GotFrame == Accepted # {}
GotReject == NRead > 0 /\ Accepted = {}

(* got_data1 and got_data2.                                                *)
GotData(n) == \E i \in Accepted : fifo[i].num = n

(* When a prompt poll would have read this slot's DATA1.                   *)
Anchor == IF GotData(1) /\ ~GotData(2) THEN now ELSE Before(now, Data2Offset)

(* Mutant: the latch also opens when the age folds back under the limit.   *)
LatchFollowsAge ==
  sigLost' = (/\ ~GotFrame /\ txaddr # NoAddr
              /\ Elapsed(lastFrameTime, now) >= SignalLoss)

(* Mutant: a rebind counts as a loss.                                       *)
LatchOnRebind ==
  sigLost' = (~GotFrame /\ (sigLost \/ phase = "BINDED"))

(* The loss latch, set on entry to the poll and cleared by a frame.        *)
Latch ==
  sigLost' = (/\ ~GotFrame
              /\ \/ sigLost
                 \/ /\ txaddr # NoAddr
                    /\ Elapsed(lastFrameTime, now) >= SignalLoss)

(* parse_packet over the drained packets.                                  *)
Decode ==
  /\ Latch
  /\ txaddr' = AddrAfter
  /\ hopcode' = IF GotFrame THEN HopCodeOf[AddrAfter] ELSE hopcode
  /\ lastFrameTime' = IF GotFrame THEN now ELSE lastFrameTime
  /\ data' = [bank \in {"ch14", "ch58"} |->
                IF \E i \in Accepted : fifo[i].kind = bank THEN "frame" ELSE data[bank]]

(* The chip after the poll: SFRX empties the FIFO, and ends an overflow.   *)
Flush == fifo' = <<>> /\ overflow' = FALSE /\ rxOn' = TRUE
KeepListening ==
  IF overflow \/ GotReject THEN Flush
  ELSE fifo' = Undrained /\ UNCHANGED <<overflow, rxOn>>

-----------------------------------------------------------------------------
(* SFHSS_Poll, by phase.                                                   *)

(* start_bind().  The chip is idle until here: nothing can be drained.     *)
PollStartBind ==
  /\ phase = "START_BIND"
  /\ txaddr' = NoAddr
  /\ skipCount' = 0
  /\ ch' = 0
  /\ phase' = "FINDING"
  /\ Flush
  /\ UNCHANGED <<now, hopcode, frameThisSlot, slotStart, lastFrameTime, sigLost, data>>

(* Mutant: the first frame anchors its own slot, not the one hopped to.    *)
PollFoundHere ==
  /\ phase = "FINDING"
  /\ GotFrame
  /\ Decode
  /\ skipCount' = 0
  /\ ch' = NextChannel(ch, hopcode')
  /\ slotStart' = Anchor
  /\ frameThisSlot' = FALSE
  /\ phase' = "CONNECTED"
  /\ IF overflow THEN Flush ELSE fifo' = Undrained /\ UNCHANGED <<overflow, rxOn>>
  /\ UNCHANGED now

(* Camping on channel 0: the first accepted frame starts the slot grid.    *)
(* hop() does not flush, so what this poll left in the FIFO stays there.   *)
PollFound ==
  /\ phase = "FINDING"
  /\ GotFrame
  /\ Decode
  /\ skipCount' = 0
  /\ ch' = NextChannel(ch, hopcode')
  /\ slotStart' = After(Anchor, Interval)
  /\ frameThisSlot' = FALSE
  /\ phase' = "CONNECTED"
  /\ IF overflow THEN Flush ELSE fifo' = Undrained /\ UNCHANGED <<overflow, rxOn>>
  /\ UNCHANGED now

PollFinding ==
  /\ phase = "FINDING"
  /\ ~GotFrame
  /\ Decode
  /\ KeepListening
  /\ UNCHANGED <<now, phase, ch, skipCount, frameThisSlot, slotStart>>

(* Mutant: a rebind starts over as at power-up, and forgets the bond.      *)
PollBindedForgets ==
  /\ phase = "BINDED"
  /\ hopcode' = hopcode
  /\ txaddr' = NoAddr
  /\ ch' = 0
  /\ skipCount' = 0
  /\ phase' = "FINDING"
  /\ Flush
  /\ UNCHANGED <<now, frameThisSlot, slotStart, lastFrameTime, sigLost, data>>

(* Back to channel 0 for a rebind; the bond and the hop code stay.         *)
PollBinded ==
  /\ phase = "BINDED"
  /\ Decode
  /\ ch' = 0
  /\ skipCount' = 0
  /\ phase' = "FINDING"
  /\ Flush
  /\ UNCHANGED <<now, frameThisSlot, slotStart>>

(* The grid, the slot flag and the miss count once this poll's frames are  *)
(* taken into account.                                                     *)
GridNow == IF GotFrame THEN Anchor ELSE slotStart
SlotFilled == frameThisSlot \/ GotFrame
SkipNow == IF GotFrame THEN 0 ELSE skipCount

WindowOver == SinceSigned(GridNow, now) > Window2nd

(* Mutant: one more blind hop.                                             *)
ExhaustedLate == ~SlotFilled /\ SkipNow + 1 > FallbackCount

(* FALLBACK_COUNT slots without a frame.                                   *)
Exhausted == ~SlotFilled /\ SkipNow + 1 >= FallbackCount

PollListen ==
  /\ phase = "CONNECTED"
  /\ ~WindowOver
  /\ Decode
  /\ KeepListening
  /\ slotStart' = GridNow
  /\ frameThisSlot' = SlotFilled
  /\ skipCount' = SkipNow
  /\ UNCHANGED <<now, phase, ch>>

(* The flywheel: the grid advances by one interval, received or not.       *)
NextSlot == After(GridNow, Interval)

PollHop ==
  /\ phase = "CONNECTED"
  /\ WindowOver
  /\ ~Exhausted
  /\ Decode
  /\ skipCount' = IF SlotFilled THEN SkipNow ELSE SkipNow + 1
  /\ frameThisSlot' = FALSE
  /\ ch' = NextChannel(ch, hopcode')
  /\ slotStart' = NextSlot
  /\ Flush
  /\ UNCHANGED <<now, phase>>

PollGiveUp ==
  /\ phase = "CONNECTED"
  /\ WindowOver
  /\ Exhausted
  /\ Decode
  /\ skipCount' = SkipNow + 1
  /\ phase' = "BINDED"
  /\ KeepListening
  /\ UNCHANGED <<now, ch, frameThisSlot, slotStart>>

SFHSS_Poll ==
  \/ PollStartBind \/ PollFound \/ PollFinding \/ PollBinded
  \/ PollListen \/ PollHop \/ PollGiveUp

-----------------------------------------------------------------------------
(* What the main loop asks of the receiver.                                *)

SFHSS_HasSignal == txaddr # NoAddr /\ ~sigLost

(* Mutant: any slot that has not begun counts as quiet.                    *)
QuietBeforeSlot ==
  phase # "CONNECTED" \/ SinceSigned(slotStart, now) < 0

SFHSS_QuietForImu ==
  phase # "CONNECTED" \/ SinceSigned(slotStart, now) < -QuietLead

TypeOK ==
  /\ now \in Time
  /\ phase \in Phases
  /\ txaddr \in Transmitters \cup {NoAddr}
  /\ hopcode \in 0 .. ChNum - 1
  /\ ch \in Channels
  /\ skipCount \in 0 .. FallbackCount
  /\ phase = "CONNECTED" => skipCount < FallbackCount
  /\ frameThisSlot \in BOOLEAN
  /\ slotStart \in Time
  /\ lastFrameTime \in Time
  /\ sigLost \in BOOLEAN
  /\ data \in [{"ch14", "ch58"} -> {"init", "frame"}]
  /\ fifo \in Seq(Packet) /\ Len(fifo) <= FifoPackets
  /\ overflow \in BOOLEAN /\ rxOn \in BOOLEAN
=============================================================================
