----------------------------- MODULE BootProofs -----------------------------
(***************************************************************************)
(* The boot for every budget, number of tries and channels, every crystal, *)
(* radio and IMU, and every pattern of corrupted transfers and resets.     *)
(***************************************************************************)
EXTENDS Boot, TLAPS

(* What "quick" means for the chip: up within the tries, and settled       *)
(* within the delay.                                                       *)
Quick ==
  clean /\ strap # NoAddr /\ wakeAt <= Attempts /\ resetFor <= SettleSteps

(* A chip that is addressed is there and awake.                            *)
AddrInv ==
  /\ addr # NoAddr => addr = strap /\ wake = 0
  /\ pc \in {"start", "probe"} => addr = NoAddr
  /\ pc \in {"reset", "settle", "identify", "calibrate"} => addr # NoAddr
  /\ ok => pc \in {"calibrate", "loop"}
  /\ pc = "calibrate" => ok

(* How long the watchdog has waited, at each stage.                        *)
DogInv ==
  /\ pc = "clock" => dog <= count /\ count <= HseBudget
  /\ pc = "radio" => dog = 0
  /\ pc = "ready" => dog <= count /\ count <= ReadyPolls
  /\ pc = "warm" => dog <= ReadyPolls
  /\ pc = "tune" => dog <= ReadyPolls + 2 /\ (chan > 0 => dog <= 1)
  /\ pc \in {"wait", "read", "start"} => dog <= 1
  /\ pc \in ImuPhases => dog <= 2

(* Which channel the boot is at, and that it polls no more than allowed.   *)
ChanInv ==
  /\ pc \in {"clock", "radio", "ready", "warm"} => chan = 0
  /\ pc \in {"wait", "read"} => chan < Chans
  /\ pc = "wait" => count <= CalTries
  /\ pc \in ImuPhases => chan = Chans

(* What a radio that keeps to the budgets has done so far: the channels    *)
(* below chan have their calibration, and a finished one is the current.   *)
TuneInv ==
  radio = "ok" /\ inTime /\ pc \in {"warm", "tune", "wait", "read"} \cup ImuPhases =>
    /\ asleep = 0
    /\ pc = "wait" => calLeft > 0 \/ fscal = chan
    /\ pc = "read" => fscal = chan
    /\ pc # "warm" => \A i \in 0 .. chan - 1 : caldata[i] = i

(* How far chip and boot are: every try and every round of the delay takes *)
(* one off what is left of the chip's waking and of its reset.             *)
ProgressInv ==
  /\ resetting <= resetFor
  /\ pc = "start" => attempt = 0
  /\ pc = "probe" =>
       /\ wake = 0 \/ wake <= wakeAt - 1 - attempt
       /\ resetting = 0 \/ resetting <= resetFor - 1 - attempt
       /\ Quick => attempt < Attempts
  /\ pc = "settle" => resetting = 0 \/ resetting <= resetFor - settle

(* From the writes on, a chip that settled in time holds what was written. *)
SettledInv ==
  clean /\ resetFor <= SettleSteps =>
    /\ pc = "identify" => resetting = 0 /\ written = Settings
    /\ pc = "calibrate" => written = Settings
    /\ pc = "loop" /\ ok => written = Settings

FoundInv == pc = "loop" /\ Quick => ok

EarlyInv == pc \in RadioPhases => attempt = 0 /\ addr = NoAddr

RadioInv == RadioTypeOK /\ DogInv /\ ChanInv /\ TuneInv

ImuInv ==
  ImuTypeOK /\ AddrInv /\ EarlyInv /\ ProgressInv /\ SettledInv /\ FoundInv

IInv ==
  /\ pc \in RadioPhases \cup ImuPhases /\ dog \in Nat
  /\ RadioInv /\ ImuInv

USE RetryAssumption, ChipAssumption, AddrAssumption,
    BudgetAssumption, ChannelAssumption, RadioAssumption

LEMMA InitHolds == Init => IInv
<1> SUFFICES ASSUME Init PROVE IInv
  OBVIOUS
<1>1. RadioInv /\ pc \in RadioPhases /\ dog \in Nat
  BY DEF Init, RadioInit, RadioInv, RadioTypeOK, DogInv, ChanInv, TuneInv, RadioPhases,
         ImuPhases, Radios, Uncalibrated
<1>2. ImuInv
  <2>1. ImuTypeOK
    <3>1. addr \in Straps /\ ok \in BOOLEAN /\ clean \in BOOLEAN
      BY DEF Init, ImuInit, Straps
    <3> QED
      BY <3>1 DEF Init, ImuInit, ImuTypeOK
  <2>2. AddrInv /\ EarlyInv /\ ProgressInv /\ SettledInv /\ FoundInv
    BY DEF Init, RadioInit, ImuInit, AddrInv, EarlyInv, ProgressInv, SettledInv, FoundInv
  <2> QED
    BY <2>1, <2>2 DEF ImuInv
<1> QED
  BY <1>1, <1>2 DEF IInv

LEMMA RestartHolds == ASSUME IInv, PowerUp \/ ResetProcessor PROVE IInv'
<1>1. /\ RadioRestart /\ ImuRestart /\ UNCHANGED strap
      /\ wake' \in 0 .. MaxWake /\ resetting' \in 0 .. MaxReset
      /\ written' \subseteq Settings /\ resetFor' \in 0 .. MaxReset
      /\ resetting' <= resetFor'
  <2>1. CASE PowerUp
    BY <2>1 DEF PowerUp
  <2>2. CASE ResetProcessor
    BY <2>2 DEF ResetProcessor, chip, IInv, ImuInv, ImuTypeOK, ProgressInv
  <2> QED
    BY <2>1, <2>2
<1>2. RadioInv' /\ pc' \in RadioPhases /\ dog' \in Nat
  BY <1>1 DEF RadioRestart, rchip, IInv, RadioInv, RadioTypeOK, DogInv, ChanInv, TuneInv,
              RadioPhases, ImuPhases
<1>3. ImuInv'
  <2>1. ImuTypeOK'
    <3>1. addr' \in Straps /\ ok' \in BOOLEAN /\ clean' \in BOOLEAN
      BY <1>1 DEF ImuRestart, Straps
    <3> QED
      BY <1>1, <3>1 DEF ImuRestart, IInv, ImuInv, ImuTypeOK
  <2>2. (AddrInv /\ EarlyInv /\ ProgressInv /\ SettledInv /\ FoundInv)'
    BY <1>1 DEF RadioRestart, ImuRestart, AddrInv, EarlyInv, ProgressInv, SettledInv,
                FoundInv
  <2> QED
    BY <2>1, <2>2 DEF ImuInv
<1> QED
  BY <1>2, <1>3 DEF IInv

-----------------------------------------------------------------------------
(* The radio's half.                                                       *)
LEMMA ChipDelayTypes ==
  ASSUME RadioTypeOK, chan < Chans, ChipDelay
  PROVE  /\ radio' \in Radios /\ asleep' \in 0 .. MaxReady /\ calLeft' \in 0 .. MaxCal
         /\ fscal' \in 0 .. Chans - 1 \cup {NoCal}
BY DEF RadioTypeOK, ChipDelay, Less

LEMMA RadioDelayHolds ==
  ASSUME IInv, CrystalWait \/ ReadyPoll \/ Warm \/ CC2500_WaitState
  PROVE  RadioInv' /\ pc' \in RadioPhases /\ dog' \in Nat
<1> USE DEF IInv, RadioInv, RadioPhases
<1>0. /\ chan < Chans /\ ChipDelay /\ UNCHANGED <<chan, caldata, inTime>>
      /\ pc \in {"clock", "ready", "warm", "wait"}
  BY DEF CrystalWait, ReadyPoll, Warm, CC2500_WaitState, ChanInv, rboot
<1>1. RadioTypeOK'
  BY <1>0, ChipDelayTypes DEF RadioTypeOK, CrystalWait, ReadyPoll, Warm,
     CC2500_WaitState, rboot
<1>2. DogInv' /\ pc' \in RadioPhases /\ dog' \in Nat
  BY <1>0 DEF RadioTypeOK, DogInv, ChanInv, CrystalWait, ReadyPoll, Warm,
     CC2500_WaitState, rboot, ImuPhases
<1>3. ChanInv'
  BY <1>0 DEF RadioTypeOK, ChanInv, CrystalWait, ReadyPoll, Warm, CC2500_WaitState, rboot,
     ImuPhases
<1>4. TuneInv'
  <2>1. CASE CrystalWait \/ ReadyPoll
    BY <2>1 DEF CrystalWait, ReadyPoll, TuneInv, ImuPhases
  <2>2. CASE Warm
    BY <1>0, <2>2 DEF Warm, rboot, TuneInv, ChanInv, ChipDelay, Less, RadioTypeOK
  <2>3. CASE CC2500_WaitState
    BY <1>0, <2>3 DEF CC2500_WaitState, TuneInv, ChipDelay, Less, RadioTypeOK,
       IdleState, Up
  <2> QED
    BY <2>1, <2>2, <2>3
<1> QED
  BY <1>1, <1>2, <1>3, <1>4

LEMMA RadioStepHolds ==
  ASSUME IInv, RadioStep
  PROVE  /\ RadioInv' /\ dog' \in Nat
         /\ pc \in RadioPhases /\ pc' \in RadioPhases \cup {"start"}
<1> USE DEF IInv, RadioInv, RadioPhases, ImuPhases
<1>1. CASE clock_init \/ ReadyDone \/ TuneChannel \/ WaitDone
  <2>0. /\ UNCHANGED <<chan, caldata, fscal, asleep, radio>>
        /\ count' \in Nat /\ calLeft' \in 0 .. MaxCal
    BY <1>1 DEF clock_init, ClockDone, ReadyDone, TuneChannel, WaitDone, rvars, rboot,
       rchip, RadioTypeOK
  <2>1. RadioTypeOK'
    <3>1. Ready \in BOOLEAN /\ IdleState \in BOOLEAN
      BY DEF Ready, IdleState
    <3>2. inTime' \in BOOLEAN
      BY <1>1, <3>1 DEF clock_init, ClockDone, ReadyDone, TuneChannel, WaitDone, rvars,
         RadioTypeOK
    <3> QED
      BY <2>0, <3>2 DEF RadioTypeOK
  <2>2. DogInv' /\ ChanInv' /\ dog' \in Nat
    BY <1>1 DEF clock_init, ClockDone, ReadyDone, TuneChannel, WaitDone, rvars, rboot,
       rchip, RadioTypeOK, DogInv, ChanInv
  <2>3. TuneInv'
    <3>1. CASE clock_init
      BY <3>1 DEF clock_init, ClockDone, TuneInv
    <3>2. CASE ReadyDone
      BY <3>2 DEF ReadyDone, TuneInv, Ready, Up, rchip
    <3>3. CASE TuneChannel
      BY <3>3 DEF TuneChannel, TuneInv, Up
    <3>4. CASE WaitDone
      <4>1. inTime' => inTime /\ IdleState
        BY <3>4 DEF WaitDone
      <4>2. radio = "ok" /\ IdleState => Up /\ calLeft = 0
        BY DEF IdleState, Up
      <4> QED
        BY <3>4, <4>1, <4>2 DEF WaitDone, TuneInv, rboot, rchip, RadioTypeOK
    <3> QED
      BY <1>1, <3>1, <3>2, <3>3, <3>4
  <2> QED
    <3>1. pc \in RadioPhases /\ pc' \in RadioPhases
      BY <1>1 DEF clock_init, ClockDone, ReadyDone, TuneChannel, WaitDone
    <3> QED
      BY <2>1, <2>2, <2>3, <3>1
<1>2. CASE CC2500_Reset
  BY <1>2 DEF CC2500_Reset, RadioTypeOK, DogInv, ChanInv, TuneInv, Uncalibrated
<1>3. CASE ReadCal
  <2>1. RadioTypeOK' /\ DogInv' /\ ChanInv'
    BY <1>3 DEF ReadCal, RadioTypeOK, DogInv, ChanInv, rchip
  <2>2. TuneInv'
    BY <1>3 DEF ReadCal, RadioTypeOK, TuneInv, ChanInv, Up, rchip
  <2> QED
    BY <1>3, <2>1, <2>2 DEF ReadCal
<1>4. CASE SFHSS_Init
  BY <1>4 DEF SFHSS_Init, rvars, rboot, rchip, RadioTypeOK, DogInv, ChanInv, TuneInv
<1> QED
  BY <1>1, <1>2, <1>3, <1>4 DEF RadioStep

(* While it goes on the IMU is as untouched as its address.                *)
LEMMA ImuWaits ==
  ASSUME IInv, pc \in RadioPhases, pc' \in RadioPhases \cup {"start"},
         UNCHANGED <<boot, strap, written, seen>>,
         DelayPasses \/ UNCHANGED <<wake, resetting>>
  PROVE  ImuInv'
BY DEF boot, seen, DelayPasses, Sooner, IInv, ImuInv, ImuTypeOK, AddrInv, EarlyInv,
       ProgressInv, SettledInv, FoundInv, RadioPhases, Straps

-----------------------------------------------------------------------------
(* The IMU's half.  The radio's stays as it is.                            *)
LEMMA RadioStays ==
  ASSUME IInv, pc \in ImuPhases, pc' \in ImuPhases, pc' # "start",
         dog' \in 0 .. 2, UNCHANGED rvars
  PROVE  RadioInv'
BY DEF rvars, rboot, rchip, IInv, RadioInv, RadioTypeOK, DogInv, ChanInv, TuneInv, ImuPhases

USE DEF ImuPhases

LEMMA StartHolds ==
  ASSUME IInv, Start
  PROVE  ImuInv' /\ dog' \in 0 .. 2 /\ pc' \in ImuPhases \ {"start"}
BY DEF Start, DelayPasses, Sooner, boot, IInv, RadioInv, DogInv, ImuInv, ImuTypeOK, AddrInv,
       EarlyInv, ProgressInv, SettledInv, FoundInv, Quick, Straps, RadioPhases

(* The tries are enough: the last one meets a chip that is awake and has   *)
(* no reset left, and which answers if the bus lets it.                    *)
LEMMA ProbeHolds ==
  ASSUME IInv, Probe
  PROVE  ImuInv' /\ dog' \in 0 .. 2 /\ pc' \in ImuPhases \ {"start"}
<1> USE DEF Probe, ProbeRound, IInv, ImuInv
<1>0. /\ pc = "probe" /\ attempt < Attempts /\ attempt' = attempt + 1
      /\ UNCHANGED <<settle, ok, strap, written, wakeAt, resetFor>>
  OBVIOUS
<1>1. PICK low \in Answers("low"), high \in Answers("high"),
           corrupt \in SUBSET {"low", "high"} :
        /\ addr' = probe_address(low /\ "low" \notin corrupt,
                                 high /\ "high" \notin corrupt)
        /\ clean' = (clean /\ corrupt = {})
  OBVIOUS
<1>2. low \in BOOLEAN /\ high \in BOOLEAN
  BY DEF Answers
<1>3. addr' # NoAddr => addr' = strap /\ wake = 0
  BY <1>1, <1>2, AddrAssumption DEF probe_address, Answers, Hears
<1>4. addr' \in Straps
  BY <1>1 DEF probe_address, Straps
<1>5. clean' \in BOOLEAN /\ (clean' => clean /\ corrupt = {})
  BY <1>1 DEF ImuTypeOK
<1>6. CASE addr' # NoAddr
  <2>1. pc' = "reset" /\ dog' = 0 /\ UNCHANGED <<wake, resetting>>
    BY <1>6
  <2> QED
    BY <1>0, <1>3, <1>4, <1>5, <1>6, <2>1
       DEF ImuTypeOK, AddrInv, EarlyInv, ProgressInv, SettledInv, FoundInv, RadioPhases
<1>7. CASE addr' = NoAddr
  <2>1. pc' = "probe" /\ dog' = 1 /\ DelayPasses
    BY <1>7
  <2>2. Quick' => attempt' < Attempts
    <3> SUFFICES ASSUME Quick', attempt' >= Attempts PROVE FALSE
      BY <1>0 DEF ImuTypeOK
    <3>1. strap \in {"low", "high"} /\ corrupt = {}
      BY <1>0, <1>5 DEF Quick, ImuTypeOK, Straps
    <3>2. wake = 0 /\ resetting = 0
      BY <1>0 DEF Quick, ImuTypeOK, ProgressInv
    <3>3. /\ strap = "low" => low
          /\ strap = "high" => high
      BY <3>2, AddrAssumption DEF Answers, Hears
    <3> QED
      BY <1>1, <1>7, <3>1, <3>3, AddrAssumption DEF probe_address
  <2>3. ImuTypeOK' /\ AddrInv' /\ EarlyInv'
    BY <1>0, <1>4, <1>5, <1>7, <2>1
       DEF ImuTypeOK, AddrInv, EarlyInv, DelayPasses, Sooner, RadioPhases
  <2>4. ProgressInv'
    BY <1>0, <2>1, <2>2 DEF ImuTypeOK, ProgressInv, DelayPasses, Sooner
  <2>5. SettledInv' /\ FoundInv'
    BY <2>1 DEF SettledInv, FoundInv
  <2> QED
    BY <2>1, <2>3, <2>4, <2>5
<1> QED
  BY <1>6, <1>7

LEMMA GiveUpHolds ==
  ASSUME IInv, GiveUp
  PROVE  ImuInv' /\ dog' \in 0 .. 2 /\ pc' \in ImuPhases \ {"start"}
<1> USE DEF IInv, ImuInv
<1>1. /\ pc = "probe" /\ attempt = Attempts /\ pc' = "loop"
      /\ ok' = FALSE /\ addr = NoAddr /\ ~Quick
      /\ UNCHANGED <<attempt, settle, addr, dog, chip, seen>>
  BY DEF GiveUp, ImuTypeOK, AddrInv, ProgressInv
<1>2. ImuTypeOK' /\ EarlyInv'
  BY <1>1 DEF ImuTypeOK, EarlyInv, chip, seen, RadioPhases
<1>3. AddrInv' /\ SettledInv'
  BY <1>1 DEF AddrInv, SettledInv
<1>4. ProgressInv' /\ dog' \in 0 .. 2
  BY <1>1 DEF RadioInv, DogInv, ProgressInv, chip, seen
<1>5. ~Quick'
  BY <1>1 DEF Quick, chip, seen
<1>6. FoundInv'
  BY <1>5 DEF FoundInv
<1> QED
  BY <1>1, <1>2, <1>3, <1>4, <1>6

LEMMA ResetChipHolds ==
  ASSUME IInv, ResetChip
  PROVE  ImuInv' /\ dog' \in 0 .. 2 /\ pc' \in ImuPhases \ {"start"}
<1> USE DEF IInv, ImuInv
<1>1. /\ pc = "reset" /\ pc' = "settle" /\ settle' = 0
      /\ UNCHANGED <<attempt, addr, ok, dog, strap, wake, wakeAt>>
      /\ clean' \in BOOLEAN
  BY DEF ResetChip, ImuTypeOK
<1>2. \/ /\ resetFor' \in 1 .. MaxReset /\ resetting' = resetFor' /\ written' = {}
      \/ UNCHANGED <<resetFor, resetting, written>>
  BY DEF ResetChip
<1> QED
  BY <1>1, <1>2 DEF RadioInv, DogInv, ImuTypeOK, AddrInv, EarlyInv, ProgressInv, SettledInv,
                    FoundInv, RadioPhases

LEMMA SettleHolds ==
  ASSUME IInv, Settle
  PROVE  ImuInv' /\ dog' \in 0 .. 2 /\ pc' \in ImuPhases \ {"start"}
BY DEF Settle, SettleRound, DelayPasses, Sooner, seen, IInv, ImuInv, ImuTypeOK, AddrInv,
       EarlyInv, ProgressInv, SettledInv, FoundInv, Quick, RadioPhases

(* On a clean bus nothing is lost on a chip that has settled.              *)
LEMMA ConfigureHolds ==
  ASSUME IInv, Configure
  PROVE  ImuInv' /\ dog' \in 0 .. 2 /\ pc' \in ImuPhases \ {"start"}
<1> USE DEF IInv, ImuInv
<1>1. /\ pc = "settle" /\ settle = SettleSteps /\ pc' = "identify"
      /\ UNCHANGED <<attempt, settle, addr, ok, dog, strap, wake, resetting,
                     wakeAt, resetFor>>
  BY DEF Configure, boot
<1>2. PICK lost \in SUBSET Settings :
        /\ clean' = (clean /\ lost = {})
        /\ written' = IF Takes(addr) THEN written \cup (Settings \ lost) ELSE written
  BY DEF Configure
<1>3. clean' \in BOOLEAN /\ written' \subseteq Settings
  BY <1>2 DEF ImuTypeOK
<1>4. clean' /\ resetFor <= SettleSteps => resetting = 0 /\ written' = Settings
  <2> SUFFICES ASSUME clean', resetFor <= SettleSteps
               PROVE  resetting = 0 /\ written' = Settings
    OBVIOUS
  <2>1. resetting = 0
    BY <1>1 DEF ImuTypeOK, ProgressInv
  <2>2. Takes(addr)
    BY <1>1, <2>1 DEF Takes, Hears, AddrInv
  <2>3. lost = {} /\ written \subseteq Settings
    BY <1>2 DEF ImuTypeOK
  <2> QED
    BY <1>2, <2>1, <2>2, <2>3
<1> QED
  BY <1>1, <1>3, <1>4 DEF RadioInv, DogInv, ImuTypeOK, AddrInv, EarlyInv, ProgressInv,
                          SettledInv, FoundInv, RadioPhases

LEMMA IdentifyHolds ==
  ASSUME IInv, Identify
  PROVE  ImuInv' /\ dog' \in 0 .. 2 /\ pc' \in ImuPhases \ {"start"}
<1> USE DEF IInv, ImuInv
<1>1. /\ pc = "identify" /\ pc' = IF ok' THEN "calibrate" ELSE "loop"
      /\ UNCHANGED <<attempt, settle, addr, dog, chip, wakeAt, resetFor>>
  BY DEF Identify
<1>2. PICK answer \in Answers(addr), corrupt \in BOOLEAN :
        /\ ok' = (answer /\ ~corrupt)
        /\ clean' = (clean /\ ~corrupt)
  BY DEF Identify
<1>3. ok' \in BOOLEAN /\ clean' \in BOOLEAN /\ (clean' => clean)
  BY <1>2 DEF Answers, ImuTypeOK
<1>4. clean' /\ resetFor <= SettleSteps => ok'
  <2> SUFFICES ASSUME clean', resetFor <= SettleSteps PROVE ok'
    OBVIOUS
  <2>1. resetting = 0 /\ Hears(addr)
    BY <1>1, <1>3 DEF SettledInv, AddrInv, Hears
  <2> QED
    BY <1>2, <2>1 DEF Answers
<1> QED
  BY <1>1, <1>3, <1>4 DEF chip, RadioInv, DogInv, ImuTypeOK, AddrInv, EarlyInv, ProgressInv,
                          SettledInv, FoundInv, Quick, RadioPhases

LEMMA CalibrateHolds ==
  ASSUME IInv, MPU6500_CalibrateGyro
  PROVE  ImuInv' /\ dog' \in 0 .. 2 /\ pc' \in ImuPhases \ {"start"}
BY DEF MPU6500_CalibrateGyro, boot, chip, seen, IInv, ImuInv, ImuTypeOK, AddrInv, EarlyInv,
       ProgressInv, SettledInv, FoundInv, Quick, RadioPhases

LEMMA ImuStepHolds == ASSUME IInv, ImuStep PROVE IInv'
<1>1. ImuInv' /\ dog' \in 0 .. 2 /\ pc' \in ImuPhases \ {"start"}
  BY StartHolds, ProbeHolds, GiveUpHolds, ResetChipHolds, SettleHolds, ConfigureHolds,
     IdentifyHolds, CalibrateHolds DEF ImuStep
<1>2. pc \in ImuPhases /\ UNCHANGED rvars
  BY DEF ImuStep, Start, Probe, ProbeRound, GiveUp, ResetChip, Settle, SettleRound,
         Configure, Identify, MPU6500_CalibrateGyro
<1>3. RadioInv'
  BY <1>1, <1>2, RadioStays
<1> QED
  BY <1>1, <1>3 DEF IInv

LEMMA RadioHalfHolds == ASSUME IInv, RadioDelay \/ RadioStep PROVE IInv'
<1>1. CASE RadioDelay
  <2>1. RadioInv' /\ pc' \in RadioPhases /\ dog' \in Nat
    BY <1>1, RadioDelayHolds DEF RadioDelay
  <2>2. pc \in RadioPhases
    BY <1>1 DEF RadioDelay, CrystalWait, ReadyPoll, Warm, CC2500_WaitState,
       RadioPhases
  <2>3. ImuInv'
    BY <1>1, <2>1, <2>2, ImuWaits DEF RadioDelay
  <2> QED
    BY <2>1, <2>3 DEF IInv
<1>2. CASE RadioStep
  <2>1. /\ RadioInv' /\ dog' \in Nat
        /\ pc \in RadioPhases /\ pc' \in RadioPhases \cup {"start"}
    BY <1>2, RadioStepHolds
  <2>2. UNCHANGED <<boot, strap, written, seen, wake, resetting>>
    BY <1>2 DEF RadioStep, ivars, chip
  <2>3. ImuInv'
    BY <2>1, <2>2, ImuWaits
  <2> QED
    BY <2>1, <2>3 DEF IInv
<1> QED
  BY <1>1, <1>2

THEOREM BootInvariant == Spec => []IInv
<1>1. IInv /\ [Next]_vars => IInv'
  <2> SUFFICES ASSUME IInv, [Next]_vars PROVE IInv'
    OBVIOUS
  <2>1. CASE UNCHANGED vars
    <3>1. RadioInv'
      BY <2>1 DEF vars, rvars, rboot, rchip, IInv, RadioInv, RadioTypeOK, DogInv, ChanInv,
                  TuneInv
    <3>2. ImuInv'
      BY <2>1 DEF vars, ivars, boot, chip, seen, IInv, ImuInv, ImuTypeOK, AddrInv, EarlyInv,
                  ProgressInv, SettledInv, FoundInv, Quick
    <3> QED
      BY <2>1, <3>1, <3>2 DEF IInv, vars
  <2> QED
    BY <2>1, RestartHolds, RadioHalfHolds, ImuStepHolds DEF Next, Step
<1> QED
  BY <1>1, InitHolds, PTL DEF Spec

(* Type correctness of the boot, with the bounds on tries and channels.    *)
THEOREM BootTypeCorrect == Spec => []TypeOK
<1>1. IInv => TypeOK
  BY DEF IInv, RadioInv, ImuInv, TypeOK
<1> QED
  BY <1>1, BootInvariant, PTL

(* A radio that keeps to the budgets is calibrated on every channel.       *)
THEOREM EveryChannelIsAlwaysTuned == Spec => []EveryChannelIsTuned
<1>1. IInv => EveryChannelIsTuned
  BY DEF IInv, RadioInv, ChanInv, TuneInv, EveryChannelIsTuned
<1> QED
  BY <1>1, BootInvariant, PTL

(* A chip that wakes and settles in time is in use when the loop starts.   *)
THEOREM SlowWakeIsAlwaysFound == Spec => []SlowWakeIsFound
<1>1. IInv => SlowWakeIsFound
  BY DEF IInv, ImuInv, FoundInv, Quick, SlowWakeIsFound
<1> QED
  BY <1>1, BootInvariant, PTL

(* A chip in use whose bus was clean and whose reset was over in time      *)
(* holds every setting.                                                    *)
THEOREM SettingsAreSpared == Spec => []ResetSparesSettings
<1>1. IInv => ResetSparesSettings
  BY DEF IInv, ImuInv, SettledInv, ResetSparesSettings
<1> QED
  BY <1>1, BootInvariant, PTL

(* From the first channel on the boot never leaves the watchdog without a  *)
(* refresh until it bites, whatever the budgets of its waits.              *)
THEOREM RetriesAreAlwaysFed == Spec => []RetriesAreFed
<1>1. IInv => RetriesAreFed
  BY WatchdogAssumption DEF IInv, RadioInv, RadioTypeOK, DogInv, RadioPhases, RetriesAreFed
<1> QED
  BY <1>1, BootInvariant, PTL

(* Multiplication, which the solver does not expand by itself.             *)
LEMMA OneMore ==
  ASSUME NEW k \in Nat, NEW n \in Nat
  PROVE  k * n \in Nat /\ (k + 1) * n = k * n + n
OBVIOUS

LEMMA NextChannel ==
  ASSUME NEW k \in Nat
  PROVE  /\ ChannelSteps(k) \in Nat /\ ChannelSteps(k) >= ImuSteps + 1
         /\ ChannelSteps(k + 1) = ChannelSteps(k) + CalTries + 3
<1>1. CalTries + 3 \in Nat /\ ImuSteps \in Nat
  BY DEF ImuSteps
<1>2. /\ k * (CalTries + 3) \in Nat
      /\ (k + 1) * (CalTries + 3) = k * (CalTries + 3) + (CalTries + 3)
  BY <1>1, OneMore
<1> DEFINE now == k * (CalTries + 3)
           next == (k + 1) * (CalTries + 3)
<1>3. now \in Nat /\ next = now + (CalTries + 3)
  BY <1>2
<1>4. ChannelSteps(k) = now + ImuSteps + 1 /\ ChannelSteps(k + 1) = next + ImuSteps + 1
  BY DEF ChannelSteps
<1> HIDE DEF now, next
<1> QED
  BY <1>1, <1>3, <1>4

(* What a step of the radio's half takes off.                              *)
LEMMA RadioHalfAdvances ==
  ASSUME IInv, RadioDelay \/ RadioStep
  PROVE  StepsLeft' \in Nat /\ StepsLeft' < StepsLeft
<1>1. ImuSteps \in Nat \ {0}
  BY DEF ImuSteps
<1>2. count \in Nat /\ chan \in 0 .. Chans /\ DogInv /\ ChanInv
  BY DEF IInv, RadioInv, RadioTypeOK
<1>3. ChannelSteps(Chans) \in Nat
  BY NextChannel
<1>4. CASE CrystalWait \/ clock_init
  BY <1>1, <1>2, <1>3, <1>4
     DEF CrystalWait, clock_init, ClockDone, rvars, rboot, StepsLeft, DogInv
<1>5. CASE CC2500_Reset \/ ReadyPoll \/ ReadyDone
  BY <1>1, <1>2, <1>3, <1>5
     DEF CC2500_Reset, ReadyPoll, ReadyDone, rboot, StepsLeft, DogInv
<1>6. CASE Warm
  BY <1>1, <1>2, <1>3, <1>6 DEF Warm, rboot, StepsLeft, ChanInv
<1>7. CASE TuneChannel \/ CC2500_WaitState \/ WaitDone \/ ReadCal
  <2>1. chan < Chans /\ pc \in {"tune", "wait", "read"}
    BY <1>2, <1>7 DEF TuneChannel, CC2500_WaitState, WaitDone, ReadCal, ChanInv
  <2>2. PICK k \in Nat : k = Chans - chan - 1
    BY <1>2, <2>1
  <2>3. /\ ChannelSteps(k) \in Nat
        /\ ChannelSteps(k + 1) = ChannelSteps(k) + CalTries + 3
    BY NextChannel
  <2>4. Chans - chan = k + 1 /\ Chans - (chan + 1) = k
    BY <1>2, <2>2
  <2>5. CASE ReadCal
    BY <1>1, <2>2, <2>3, <2>4, <2>5 DEF ReadCal, StepsLeft
  <2>6. CASE TuneChannel \/ CC2500_WaitState \/ WaitDone
    BY <1>1, <1>2, <2>2, <2>3, <2>4, <2>6
       DEF TuneChannel, CC2500_WaitState, WaitDone, rboot, StepsLeft, ChanInv
  <2> QED
    BY <1>7, <2>5, <2>6
<1>8. CASE SFHSS_Init
  <2>1. Chans - chan = 0 /\ 0 \in Nat
    BY <1>2, <1>8 DEF SFHSS_Init
  <2>2. ChannelSteps(0) >= ImuSteps + 1 /\ ChannelSteps(0) \in Nat
    BY NextChannel, <2>1
  <2> QED
    BY <1>1, <1>8, <2>1, <2>2 DEF SFHSS_Init, StepsLeft
<1> QED
  BY <1>4, <1>5, <1>6, <1>7, <1>8 DEF RadioDelay, RadioStep

LEMMA ImuStepAdvances ==
  ASSUME IInv, ImuStep
  PROVE  StepsLeft' \in Nat /\ StepsLeft' < StepsLeft
<1>1. ImuSteps = Attempts + SettleSteps + 6
  BY DEF ImuSteps
<1>2. /\ attempt \in 0 .. Attempts /\ settle \in 0 .. SettleSteps
      /\ pc = "start" => attempt = 0
  BY DEF IInv, ImuInv, ImuTypeOK, ProgressInv
<1>3. CASE Start \/ GiveUp
  BY <1>1, <1>2, <1>3 DEF Start, GiveUp, boot, StepsLeft
<1>4. CASE Probe
  BY <1>1, <1>2, <1>4 DEF Probe, ProbeRound, StepsLeft
<1>5. CASE ResetChip \/ Settle \/ Configure
  BY <1>1, <1>2, <1>5 DEF ResetChip, Settle, SettleRound, Configure, StepsLeft
<1>6. CASE Identify \/ MPU6500_CalibrateGyro
  BY <1>1, <1>2, <1>6 DEF Identify, MPU6500_CalibrateGyro, StepsLeft
<1> QED
  BY <1>3, <1>4, <1>5, <1>6 DEF ImuStep

(* Every step of the boot brings the main loop nearer, for every set of    *)
(* budgets: the part of BootEnds that is no matter of fairness.            *)
THEOREM BootAlwaysAdvances == Spec => BootAdvances
<1>1. IInv /\ [Next]_vars => [Step => StepsLeft' \in Nat /\ StepsLeft' < StepsLeft]_vars
  BY RadioHalfAdvances, ImuStepAdvances DEF Step
<1> QED
  BY <1>1, BootInvariant, PTL DEF Spec, BootAdvances
=============================================================================
