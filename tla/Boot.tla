-------------------------------- MODULE Boot --------------------------------
(***************************************************************************)
(* Reset_Handler up to the main loop: clock, radio, IMU, one after the     *)
(* other, with power and processor resets at any moment.                   *)
(***************************************************************************)
EXTENDS ImuBoot

CONSTANT Watchdog     \* delays that the IWDG lets pass without a refresh

(* It outlasts two of them: of these, "~3ms" each, it lets about 20 pass.  *)
(* Whether it outlasts the crystal's budget or the polls for the CC2500,   *)
(* which no refresh interrupts, the code does not say, and the boot does   *)
(* not rely on it here: a watchdog that bites is a ResetProcessor.         *)
ASSUME WatchdogAssumption == Watchdog \in Nat /\ Watchdog > 2

vars == <<pc, dog, rvars, ivars>>

Init == RadioInit /\ ImuInit

(* The supply drops out: everything starts over.                           *)
PowerUp ==
  /\ RadioRestart /\ ImuRestart
  /\ wake' \in 0 .. MaxWake /\ resetting' = 0 /\ written' = {} /\ resetFor' = 0
  /\ UNCHANGED strap

(* The processor alone is reset, by its pin, a debugger or the watchdog.   *)
ResetProcessor ==
  /\ RadioRestart /\ ImuRestart
  /\ UNCHANGED <<chip, resetFor>>

(* While the clock and the radio are brought up, the IMU only waits.       *)
RadioDelay ==
  /\ CrystalWait \/ ReadyPoll \/ Warm \/ CC2500_WaitState
  /\ DelayPasses
  /\ UNCHANGED <<boot, strap, written, seen>>

RadioStep ==
  /\ \/ clock_init \/ CC2500_Reset \/ ReadyDone \/ TuneChannel \/ WaitDone
     \/ ReadCal \/ SFHSS_Init
  /\ UNCHANGED ivars

ImuStep ==
  \/ Start \/ Probe \/ GiveUp \/ ResetChip \/ Settle \/ Configure \/ Identify
  \/ MPU6500_CalibrateGyro

Step == RadioDelay \/ RadioStep \/ ImuStep

Next == Step \/ PowerUp \/ ResetProcessor

Spec == Init /\ [][Next]_vars

(* The processor runs.                                                     *)
FairSpec == Spec /\ WF_vars(Step)

-----------------------------------------------------------------------------
TypeOK ==
  /\ pc \in RadioPhases \cup ImuPhases /\ dog \in Nat
  /\ RadioTypeOK /\ ImuTypeOK

(* Autocalibration is off, so hop() replays what the boot has recorded: if *)
(* the CC2500 keeps to the budgets, every channel gets its own calibration *)
(* and none gets that of its neighbour or of an earlier boot.              *)
EveryChannelIsTuned ==
  pc \in ImuPhases /\ radio = "ok" /\ inTime
  => \A i \in 0 .. Chans - 1 : caldata[i] = i

(* "Retry ~90ms total so a slow wake-up can't disable stab": a chip that   *)
(* wakes within the tries of the probe, and whose reset is over within the *)
(* delay after it, is up when the main loop starts, whenever and in        *)
(* whatever state of the chip the processor was reset before.              *)
SlowWakeIsFound ==
  pc = "loop" /\ strap # NoAddr /\ clean /\ wakeAt <= Attempts /\ resetFor <= SettleSteps
  => ok

(* The delay after the reset protects the settings: on a clean bus a chip  *)
(* in use holds all of them, if its reset takes no longer than the delay.  *)
ResetSparesSettings ==
  pc \in {"calibrate", "loop"} /\ ok /\ clean /\ resetFor <= SettleSteps
  => written = Settings

(* "Refresh the watchdog across the wait": once the first channel is being *)
(* tuned, no number of tries, for the 30 calibrations, the probe of the    *)
(* IMU and the delay after its reset together, keeps the watchdog waiting  *)
(* until it bites, however slow or dead the parts are.                     *)
RetriesAreFed ==
  \/ pc \in {"wait", "read"} \cup ImuPhases
  \/ pc = "tune" /\ chan > 0
  => dog < Watchdog

(* "would brick the heli on a dead/absent crystal": if power and processor *)
(* are left alone, the boot reaches the main loop, and stays there,        *)
(* whatever is dead.                                                       *)
BootEnds == <>[][~(PowerUp \/ ResetProcessor)]_vars => <>[](pc = "loop")

(* The steps that the boot takes at most from here to the main loop: every *)
(* try that is left in the wait at hand, every round of the stages after.  *)
ImuSteps == Attempts + SettleSteps + 6

ChannelSteps(k) == k * (CalTries + 3) + ImuSteps + 1

StepsLeft ==
  CASE pc = "clock"     -> HseBudget - count + ReadyPolls + ChannelSteps(Chans) + 4
    [] pc = "radio"     -> ReadyPolls + ChannelSteps(Chans) + 3
    [] pc = "ready"     -> ReadyPolls - count + ChannelSteps(Chans) + 2
    [] pc = "warm"      -> ChannelSteps(Chans) + 1
    [] pc = "tune"      -> ChannelSteps(Chans - chan)
    [] pc = "wait"      -> CalTries - count + 2 + ChannelSteps(Chans - chan - 1)
    [] pc = "read"      -> 1 + ChannelSteps(Chans - chan - 1)
    [] pc = "start"     -> ImuSteps
    [] pc = "probe"     -> Attempts - attempt + SettleSteps + 5
    [] pc = "reset"     -> SettleSteps + 4
    [] pc = "settle"    -> SettleSteps - settle + 3
    [] pc = "identify"  -> 2
    [] pc = "calibrate" -> 1
    [] pc = "loop"      -> 0

(* No stage of the boot waits without end or goes back to an earlier one:  *)
(* the crystal's budget, the polls for the CC2500 and for its calibration, *)
(* the tries of the probe and the delay after the reset all run out.       *)
(* Whatever is slow, dead or corrupted, each step of the boot uses up one  *)
(* of a number that is known when it starts.                               *)
BootAdvances == [][Step => StepsLeft' \in Nat /\ StepsLeft' < StepsLeft]_vars
=============================================================================
