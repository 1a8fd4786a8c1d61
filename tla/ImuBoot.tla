------------------------------- MODULE ImuBoot -------------------------------
(***************************************************************************)
(* MPU6500_Init and the calibration after it, against a chip that wakes    *)
(* late, resets slowly or is not there, a bus that may corrupt any         *)
(* transfer, and a chip that keeps its power while the processor is reset. *)
(* The unit of time is the busy_delay(48000) between two tries ("~3ms");   *)
(* transfers take none.                                                    *)
(***************************************************************************)
EXTENDS RadioBoot

CONSTANTS
  Attempts,     \* tries of the probe: 30
  SettleSteps,  \* delays after the reset of the chip: 20
  MaxWake,      \* how late a chip may wake after power-up
  MaxReset,     \* how long a reset of the chip may take
  Settings,     \* registers that MPU6500_Init writes after the reset
  NoAddr        \* g_mpu_addr = 0; as the strap: no chip on the board

ASSUME RetryAssumption ==
  /\ Attempts \in Nat \ {0} /\ SettleSteps \in Nat /\ SettleSteps <= Attempts
ASSUME ChipAssumption == MaxWake \in Nat /\ MaxReset \in Nat \ {0}
ASSUME AddrAssumption == NoAddr \notin {"low", "high"}

VARIABLES
  attempt, settle, addr, ok,   \* attempt, i, g_mpu_addr, g_mpu_ok
  strap,       \* the address that the AD0 strap gives the chip
  wake,        \* delays until the chip answers
  resetting,   \* delays until the chip has finished its reset
  written,     \* settings of this firmware that the chip holds
  clean,       \* no transfer of this boot was corrupted
  wakeAt,      \* wake, when MPU6500_Init began
  resetFor     \* how long the last reset of the chip takes

boot == <<attempt, settle, addr, ok>>
chip == <<strap, wake, resetting, written>>
seen == <<clean, wakeAt, resetFor>>
ivars == <<boot, chip, seen>>

Straps == {"low", "high", NoAddr}

ImuPhases == {"start", "probe", "reset", "settle", "identify", "calibrate", "loop"}

-----------------------------------------------------------------------------
(* The chip.  While it resets it may answer, and forgets what is written.  *)
Hears(a) == a # NoAddr /\ a = strap /\ wake = 0

Takes(a) == Hears(a) /\ resetting = 0

Answers(a) == IF ~Hears(a) THEN {FALSE} ELSE IF resetting = 0 THEN {TRUE} ELSE BOOLEAN

Sooner(n) == IF n > 0 THEN n - 1 ELSE 0

DelayPasses == wake' = Sooner(wake) /\ resetting' = Sooner(resetting)

ImuInit ==
  /\ attempt = 0 /\ settle = 0 /\ addr = NoAddr /\ ok = FALSE
  /\ strap \in Straps
  /\ wake \in 0 .. MaxWake /\ resetting = 0 /\ written = {}
  /\ clean = TRUE /\ wakeAt = 0 /\ resetFor = 0

(* The processor starts over, and its memory with it.                      *)
ImuRestart ==
  /\ attempt' = 0 /\ settle' = 0 /\ addr' = NoAddr /\ ok' = FALSE
  /\ clean' = TRUE /\ wakeAt' = 0

-----------------------------------------------------------------------------
(* The settling delay before the first try, which refreshes nothing.       *)
Start ==
  /\ pc = "start"
  /\ pc' = "probe"
  /\ dog' = dog + 1
  /\ wakeAt' = wake /\ DelayPasses
  /\ UNCHANGED <<boot, strap, written, clean, resetFor, rvars>>

(* probe_address: the low address first.                                   *)
probe_address(low, high) == IF low THEN "low" ELSE IF high THEN "high" ELSE NoAddr

(* One round of the retry loop: refresh, try both addresses, and wait if   *)
(* neither answered as itself.                                             *)
ProbeRound(tries) ==
  /\ pc = "probe" /\ attempt < tries
  /\ attempt' = attempt + 1
  /\ \E low \in Answers("low"), high \in Answers("high"),
        corrupt \in SUBSET {"low", "high"} :
       /\ addr' = probe_address(low /\ "low" \notin corrupt,
                                high /\ "high" \notin corrupt)
       /\ clean' = (clean /\ corrupt = {})
  /\ IF addr' = NoAddr
     THEN /\ pc' = "probe" /\ dog' = 1
          /\ DelayPasses
     ELSE /\ pc' = "reset" /\ dog' = 0
          /\ UNCHANGED <<wake, resetting>>
  /\ UNCHANGED <<settle, ok, strap, written, wakeAt, resetFor, rvars>>

(* Mutant: the loop of the probe runs one round too many.                  *)
ProbeOnceMore == ProbeRound(Attempts + 1)

(* Mutant: no retry, as before 2026-07-13; the other rounds only wait.     *)
ProbeOnce ==
  \/ attempt = 0 /\ ProbeRound(Attempts)
  \/ /\ pc = "probe" /\ 0 < attempt /\ attempt < Attempts
     /\ attempt' = attempt + 1
     /\ UNCHANGED <<pc, settle, addr, ok, dog, chip, seen, rvars>>

Probe == ProbeRound(Attempts)

(* Neither address answered in any round: the boot goes on without an IMU. *)
GiveUp ==
  /\ pc = "probe" /\ attempt = Attempts
  /\ pc' = "loop" /\ ok' = FALSE
  /\ UNCHANGED <<attempt, settle, addr, dog, chip, seen, rvars>>

(* DEVICE_RESET; the acknowledgement is not looked at, here or below.      *)
ResetChip ==
  /\ pc = "reset"
  /\ pc' = "settle" /\ settle' = 0
  /\ \E corrupt \in BOOLEAN :
       /\ clean' = (clean /\ ~corrupt)
       /\ IF ~corrupt /\ Takes(addr)
          THEN /\ resetFor' \in 1 .. MaxReset /\ resetting' = resetFor'
               /\ written' = {}
          ELSE UNCHANGED <<resetFor, resetting, written>>
  /\ UNCHANGED <<attempt, addr, ok, dog, strap, wake, wakeAt, rvars>>

(* One round of the delay loop after the reset.                            *)
SettleRound(refreshed) ==
  /\ pc = "settle" /\ settle < SettleSteps
  /\ settle' = settle + 1
  /\ dog' = refreshed + 1
  /\ DelayPasses
  /\ UNCHANGED <<pc, attempt, addr, ok, strap, written, seen, rvars>>

(* Mutant: the delay does not refresh the watchdog.                        *)
SettleUnfed == SettleRound(dog)

(* Mutant: the delay of before, which was over at once.                    *)
SettleAtOnce ==
  /\ pc = "settle" /\ settle < SettleSteps
  /\ settle' = SettleSteps
  /\ UNCHANGED <<pc, attempt, addr, ok, dog, chip, seen, rvars>>

Settle == SettleRound(0)

(* The writes after the reset, any of which the bus may lose.              *)
Configure ==
  /\ pc = "settle" /\ settle = SettleSteps
  /\ pc' = "identify"
  /\ \E lost \in SUBSET Settings :
       /\ clean' = (clean /\ lost = {})
       /\ written' = IF Takes(addr) THEN written \cup (Settings \ lost) ELSE written
  /\ UNCHANGED <<boot, dog, strap, wake, resetting, wakeAt, resetFor, rvars>>

(* WHO_AM_I is read once more and decides alone.                           *)
Identify ==
  /\ pc = "identify"
  /\ \E answer \in Answers(addr), corrupt \in BOOLEAN :
       /\ ok' = (answer /\ ~corrupt)
       /\ clean' = (clean /\ ~corrupt)
  /\ pc' = IF ok' THEN "calibrate" ELSE "loop"
  /\ UNCHANGED <<attempt, settle, addr, dog, chip, wakeAt, resetFor, rvars>>

(* The samples of the calibration, each with its refresh.  What they make  *)
(* of motion is in GroundTrim.                                             *)
MPU6500_CalibrateGyro ==
  /\ pc = "calibrate"
  /\ pc' = "loop" /\ dog' = 0
  /\ UNCHANGED <<boot, chip, seen, rvars>>

-----------------------------------------------------------------------------
ImuTypeOK ==
  /\ attempt \in 0 .. Attempts /\ settle \in 0 .. SettleSteps
  /\ addr \in Straps /\ ok \in BOOLEAN
  /\ strap \in Straps
  /\ wake \in 0 .. MaxWake /\ resetting \in 0 .. MaxReset
  /\ written \subseteq Settings
  /\ clean \in BOOLEAN /\ wakeAt \in 0 .. MaxWake /\ resetFor \in 0 .. MaxReset
=============================================================================
