------------------------------ MODULE RadioBoot ------------------------------
(***************************************************************************)
(* The first half of the boot: clock_init, then SFHSS_Init with the reset  *)
(* of the CC2500 and the calibration of its synthesizer, channel by        *)
(* channel.  Crystal and chip may be slow, dead or silent; every wait has  *)
(* a budget, and only some of the waits refresh the watchdog.              *)
(*                                                                         *)
(* The unit of time is the delay of ImuBoot.  A poll of a chip that is not *)
(* ready is taken to last one, its worst; one that is answered, none.      *)
(***************************************************************************)
EXTENDS Integers

CONSTANTS
  HseBudget,    \* delays that clock_init waits for the crystal
  ReadyPolls,   \* polls of CC2500_Reset: 1000
  CalTries,     \* polls of CC2500_WaitState: 2000
  Chans,        \* SFHSS_CHNUM: 30
  MaxReady,     \* how long the CC2500 may take to come out of its reset
  MaxCal,       \* how long a calibration may take
  NoCal         \* FSCAL1 that is no channel's calibration

ASSUME BudgetAssumption ==
  HseBudget \in Nat /\ ReadyPolls \in Nat \ {0} /\ CalTries \in Nat \ {0}
ASSUME ChannelAssumption == Chans \in Nat \ {0} /\ NoCal \notin Nat
ASSUME RadioAssumption == MaxReady \in Nat /\ MaxCal \in Nat \ {0}

VARIABLES
  pc,          \* where the boot is; "loop" is the main loop
  dog,         \* delays since the last refresh of the watchdog
  count,       \* t, i of CC2500_Reset, i of CC2500_WaitState
  chan,        \* i of SFHSS_Init
  caldata,     \* g_sfhss.caldata, in RAM that a reset does not clear
  radio,       \* the chip: "ok", or dead with its SO held "low" or "high"
  asleep,      \* delays until the chip is out of its reset
  calLeft,     \* delays until the calibration that runs is finished
  fscal,       \* FSCAL1: the channel it was last calibrated for
  inTime       \* the chip was ready and calibrated within the budgets

rboot == <<count, chan, caldata>>
rchip == <<radio, asleep, calLeft, fscal>>
rvars == <<rboot, rchip, inTime>>

Radios == {"ok", "low", "high"}

RadioPhases == {"clock", "radio", "ready", "warm", "tune", "wait", "read"}

Uncalibrated == [i \in 0 .. Chans - 1 |-> NoCal]

-----------------------------------------------------------------------------
(* The chip.  A line held low reads as ready and idle, one held high as    *)
(* neither.                                                                *)
Up == radio = "ok" /\ asleep = 0

Ready == radio = "low" \/ Up

IdleState == radio = "low" \/ (Up /\ calLeft = 0)

Less(n) == IF n > 0 THEN n - 1 ELSE 0

(* A delay for the chip: FSCAL1 changes when a calibration is finished.    *)
ChipDelay ==
  /\ asleep' = Less(asleep) /\ calLeft' = Less(calLeft)
  /\ fscal' = IF calLeft = 1 THEN chan ELSE fscal
  /\ UNCHANGED radio

RadioInit ==
  /\ pc = "clock" /\ dog = 0 /\ count = 0 /\ chan = 0
  /\ caldata = Uncalibrated
  /\ radio \in Radios /\ asleep = 0 /\ calLeft = 0 /\ fscal = NoCal
  /\ inTime = TRUE

(* The processor starts over; the chip and caldata are as they were.       *)
RadioRestart ==
  /\ pc' = "clock" /\ dog' = 0 /\ count' = 0 /\ chan' = 0
  /\ inTime' = TRUE
  /\ UNCHANGED <<caldata, rchip>>

-----------------------------------------------------------------------------
(* clock_init waits for the crystal, which may never start.                *)
CrystalWait ==
  /\ pc = "clock" /\ count < HseBudget
  /\ count' = count + 1 /\ dog' = dog + 1
  /\ ChipDelay
  /\ UNCHANGED <<pc, chan, caldata, inTime>>

(* It has started, or the budget is spent and the boot goes on on HSI.     *)
(* Then the first refresh of the watchdog.                                 *)
ClockDone(crystal) ==
  /\ pc = "clock" /\ (crystal \/ count = HseBudget)
  /\ pc' = "radio" /\ dog' = 0
  /\ UNCHANGED rvars

(* Mutant: a bare wait for the crystal, with no way to go on without it.   *)
ClockDoneOnHse == ClockDone(TRUE) /\ count < HseBudget

clock_init == \E crystal \in BOOLEAN : ClockDone(crystal)

(* SFHSS_Init clears its state, and CC2500_Reset strobes SRES.             *)
CC2500_Reset ==
  /\ pc = "radio"
  /\ pc' = "ready" /\ count' = 0 /\ chan' = 0 /\ caldata' = Uncalibrated
  /\ asleep' \in 0 .. MaxReady /\ calLeft' = 0 /\ fscal' = NoCal
  /\ UNCHANGED <<dog, radio, inTime>>

(* The polls for the end of the reset, none of which refreshes.            *)
ReadyPoll ==
  /\ pc = "ready" /\ count < ReadyPolls /\ ~Ready
  /\ count' = count + 1 /\ dog' = dog + 1
  /\ ChipDelay
  /\ UNCHANGED <<pc, chan, caldata, inTime>>

ReadyDone ==
  /\ pc = "ready" /\ (Ready \/ count = ReadyPolls)
  /\ pc' = "warm" /\ inTime' = Ready
  /\ UNCHANGED <<dog, rboot, rchip>>

(* The delay after it and the writes of the configuration.                 *)
Warm ==
  /\ pc = "warm"
  /\ pc' = "tune" /\ dog' = dog + 2
  /\ ChipDelay
  /\ UNCHANGED <<rboot, inTime>>

(* One channel: refresh, SIDLE, CHANNR, SCAL.                              *)
TuneChannel ==
  /\ pc = "tune" /\ chan < Chans
  /\ pc' = "wait" /\ count' = 0 /\ dog' = 0
  /\ IF Up THEN calLeft' \in 1 .. MaxCal ELSE UNCHANGED calLeft
  /\ UNCHANGED <<chan, caldata, radio, asleep, fscal, inTime>>

(* Mutant: the wait for idle, refreshed, has no end of its own.            *)
WaitUncounted ==
  /\ pc = "wait" /\ ~IdleState
  /\ dog' = 1
  /\ ChipDelay
  /\ UNCHANGED <<pc, count, chan, caldata, inTime>>

(* CC2500_WaitState: each poll refreshes.                                  *)
CC2500_WaitState ==
  /\ pc = "wait" /\ count < CalTries /\ ~IdleState
  /\ count' = count + 1 /\ dog' = 1
  /\ ChipDelay
  /\ UNCHANGED <<pc, chan, caldata, inTime>>

(* Mutant: the synthesizer is not waited for.                              *)
WaitDoneAtOnce ==
  /\ pc = "wait" /\ pc' = "read"
  /\ UNCHANGED <<dog, rvars>>

(* Idle, or out of tries; the caller does not ask which.                   *)
WaitDone ==
  /\ pc = "wait" /\ (IdleState \/ count = CalTries)
  /\ pc' = "read" /\ inTime' = (inTime /\ IdleState)
  /\ UNCHANGED <<dog, rboot, rchip>>

(* FSCAL1 as it is now; a chip that does not hear returns noise.           *)
ReadCal ==
  /\ pc = "read"
  /\ pc' = "tune" /\ chan' = chan + 1
  /\ caldata' = [caldata EXCEPT ![chan] = IF Up THEN fscal ELSE NoCal]
  /\ UNCHANGED <<dog, count, rchip, inTime>>

(* Every channel is done; the IMU is next.                                 *)
SFHSS_Init ==
  /\ pc = "tune" /\ chan = Chans
  /\ pc' = "start"
  /\ UNCHANGED <<dog, rvars>>

-----------------------------------------------------------------------------
RadioTypeOK ==
  /\ count \in Nat /\ chan \in 0 .. Chans
  /\ caldata \in [0 .. Chans - 1 -> 0 .. Chans - 1 \cup {NoCal}]
  /\ radio \in Radios /\ asleep \in 0 .. MaxReady /\ calLeft \in 0 .. MaxCal
  /\ fscal \in 0 .. Chans - 1 \cup {NoCal}
  /\ inTime \in BOOLEAN
=============================================================================
