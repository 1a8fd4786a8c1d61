----------------------------- MODULE RadioLink -----------------------------
(***************************************************************************)
(* The receiver on the air: the pilot's transmitter, other transmitters    *)
(* and noise put packets into the FIFO while time passes, and the main     *)
(* loop calls SFHSS_Poll at most MaxGap apart.                             *)
(*                                                                         *)
(* The transmitter is outside the repository.  Its slot structure is the   *)
(* one the receiver is written for (the comments at SLOT_2ND_WINDOW_US and *)
(* in SFHSS_Poll): DATA1 at the start of a slot, DATA2 Data2Offset later   *)
(* on the same channel, then a hop.                                        *)
(***************************************************************************)
EXTENDS SfhssReceiver

CONSTANTS
  Pilot,        \* the transmitter that is to be followed
  MaxGap,       \* longest time between two polls
  PilotKinds,   \* the payload kinds the pilot's transmitter sends
  Strays        \* packets of others, and damaged ones, that may be received

ASSUME PilotAssumption == Pilot \in Transmitters /\ PilotKinds \subseteq Kinds
ASSUME StrayAssumption == Strays \subseteq {p \in Packet : p.intact => p.addr # Pilot}
ASSUME GapAssumption ==
  /\ MaxGap \in Nat \ {0}
  \* a poll falls between the loss limit and the wrap of the clock
  /\ SignalLoss + MaxGap <= Wrap

(* The order of the receiver's deadlines: 64 * 6801 + 2100 us and a pass   *)
(* before 500 000 us, a window and two passes within a slot, and all that  *)
(* the window compares within half a turn of the clock.                    *)
ASSUME OrderAssumption ==
  /\ FallbackCount * Interval + Window2nd + MaxGap <= SignalLoss
  /\ Window2nd + 2 * MaxGap <= Interval
  /\ 2 * (Interval + Window2nd + MaxGap) < Wrap

VARIABLES
  txOn, txCh, txPos,  \* transmitter: powered, its channel, time in its slot
  sincePoll,          \* time since the last poll
  silence             \* time since the last accepted frame, saturating

txVars == <<txOn, txCh, txPos>>
vars == <<receiverVars, txVars, sincePoll, silence>>

MaxSilence == SignalLoss + MaxGap

LinkInit ==
  /\ Init
  /\ txOn = FALSE /\ txCh = 0 /\ txPos = 0
  /\ sincePoll = 0
  /\ silence = 0

Poll ==
  /\ SFHSS_Poll
  /\ sincePoll' = 0
  /\ silence' = IF phase # "START_BIND" /\ GotFrame THEN 0 ELSE silence
  /\ UNCHANGED txVars

(* One unit of time, in which the transmitter moves on in its slot.        *)
Elapse ==
  /\ sincePoll < MaxGap
  /\ sincePoll' = sincePoll + 1
  /\ now' = After(now, 1)
  /\ silence' = IF silence < MaxSilence THEN silence + 1 ELSE silence
  /\ UNCHANGED txOn
  /\ IF txOn
     THEN /\ txPos' = (txPos + 1) % Interval
          /\ txCh' = IF txPos + 1 = Interval
                     THEN NextChannel(txCh, HopCodeOf[Pilot]) ELSE txCh
     ELSE UNCHANGED <<txPos, txCh>>

(* A packet ends up in the FIFO, or overflows it.                          *)
Capture(p) ==
  /\ rxOn
  /\ ~overflow
  /\ IF Len(fifo) < FifoPackets
     THEN fifo' = Append(fifo, p) /\ UNCHANGED overflow
     ELSE overflow' = TRUE /\ UNCHANGED fifo
  /\ UNCHANGED <<radioVars, rxOn>>

(* Time passes and nothing is received: nothing was sent, the channel is   *)
(* another one, or the frame was lost.                                     *)
Tick == Elapse /\ UNCHANGED <<radioVars, chipVars>>

(* The packet number the transmitter sends at this point of its slot.      *)
OnAir(pos) == IF pos = 0 THEN {1} ELSE IF pos = Data2Offset THEN {2} ELSE {}

TickFrame ==
  /\ Elapse
  /\ txOn
  /\ ch = txCh'
  /\ \E num \in OnAir(txPos'), kind \in PilotKinds :
       Capture([intact |-> TRUE, addr |-> Pilot, num |-> num, kind |-> kind])

TickStray == Elapse /\ \E p \in Strays : Capture(p)

TxOff ==
  /\ txOn
  /\ txOn' = FALSE /\ txPos' = 0 /\ txCh' = 0
  /\ UNCHANGED <<receiverVars, sincePoll, silence>>

(* A transmitter that is switched on starts a slot on any channel.  That   *)
(* takes longer than a poll gap: nothing it sent before is still queued.   *)
TxOnAgain ==
  /\ ~txOn
  /\ fifo = <<>>
  /\ txOn' = TRUE /\ txPos' = 0
  /\ txCh' \in Channels
  /\ UNCHANGED <<receiverVars, sincePoll, silence>>

Next == Poll \/ Tick \/ TickFrame \/ TickStray \/ TxOff \/ TxOnAgain

Spec == LinkInit /\ [][Next]_vars

(* The main loop never stops polling (a stalled pass ends in a watchdog    *)
(* reset), time passes, and of the frames sent on the channel the receiver *)
(* listens to, not every single one is lost.                               *)
FairSpec ==
  /\ Spec
  /\ WF_vars(Poll)
  /\ WF_vars(Tick)
  /\ SF_vars(TickFrame)

-----------------------------------------------------------------------------
LinkTypeOK ==
  /\ TypeOK
  /\ txOn \in BOOLEAN
  /\ txCh \in Channels
  /\ txPos \in 0 .. Interval - 1
  /\ sincePoll \in 0 .. MaxGap
  /\ silence \in 0 .. MaxSilence

(* SFHSS_HasSignal is never true on a link that has been silent for the    *)
(* loss limit plus one poll gap, however often the clock wraps meanwhile.  *)
SignalIsFresh == SFHSS_HasSignal => silence < SignalLoss + MaxGap

(* Why the latch works although the age of the last frame is kept in a     *)
(* timestamp that wraps: while the signal is up, the age read off the      *)
(* clock is the true one, and each poll has compared it with the limit.    *)
AgeIsTrue ==
  /\ phase = "START_BIND" => txaddr = NoAddr
  /\ SFHSS_HasSignal => /\ Elapsed(lastFrameTime, now) = silence
                        /\ silence < SignalLoss + sincePoll

(* The two timeouts on the same silence keep their order: a connected      *)
(* receiver gives up after FallbackCount slots while its signal still      *)
(* counts, so the outputs fail safe only during the rebind and a receiver  *)
(* in failsafe is never still riding the flywheel.                         *)
ConnectedIsLive == phase = "CONNECTED" => SFHSS_HasSignal

(* A receiver that camps is met: wherever in its sequence a transmitter    *)
(* is, and whatever its hop code, it comes to the channel camped on within *)
(* ChNum slots.  (The code ChNum - 1 stands still, larger ones leave the   *)
(* table, see HopWalk.)                                                    *)
CampIsMet ==
  phase = "FINDING" =>
    \A from \in Channels, code \in 0 .. ChNum - 2 : ch \in Ahead(from, code)

(* The first transmitter heard binds the receiver until the next reset.    *)
BondIsKept == [][txaddr # NoAddr => txaddr' = txaddr]_vars

(* How late the grid may be: one poll gap, less the tick that was on time. *)
Late == 0 .. MaxGap - 1

(* The grid of a connected receiver is the transmitter's schedule: it      *)
(* expects either the DATA1 of the slot in progress, or the next one, on   *)
(* the channel that the transmitter uses for it.                           *)
InStep ==
  /\ phase = "CONNECTED"
  /\ txOn
  /\ txaddr = Pilot
  /\ hopcode = HopCodeOf[Pilot]
  /\ \E late \in Late :
       LET d == SinceSigned(slotStart, now) + late IN
       \/ ch = txCh /\ d = txPos
       \/ ch = NextChannel(txCh, hopcode) /\ d = txPos - Interval

(* The flywheel keeps step whatever frames are lost: a receiver in step    *)
(* stays in step at every step, until the transmitter is switched off or   *)
(* the receiver gives up after FallbackCount empty slots.                  *)
FlywheelKeepsStep == [][InStep => InStep' \/ ~txOn' \/ phase' = "BINDED"]_vars

(* Ticks until the transmitter's next DATA1.                               *)
UntilData1 == Interval - txPos

(* When SFHSS_QuietForImu allows a stall, the next DATA1 is more than the  *)
(* quiet lead away, less the lateness of the grid.                         *)
QuietIsQuiet ==
  InStep /\ SFHSS_QuietForImu => UntilData1 + MaxGap > QuietLead + 1

(* A transmitter that stays on is followed again and again, wherever the   *)
(* receiver was when it came on: camping, on a wrong grid, in an overflow. *)
LinkIsFound == <>[]txOn => []<>(InStep /\ SFHSS_HasSignal)

(* What the main loop is promised of the receiver.                         *)
Contract == INSTANCE SignalContract WITH
  Loss <- SignalLoss, Slack <- MaxGap,
  signal <- IF txaddr = NoAddr THEN "none" ELSE IF sigLost THEN "lost" ELSE "up",
  silence <- IF txaddr = NoAddr THEN 0 ELSE silence

HonoursContract == Contract!Spec
=============================================================================
