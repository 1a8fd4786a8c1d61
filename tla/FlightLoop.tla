----------------------------- MODULE FlightLoop -----------------------------
(***************************************************************************)
(* The main loop of main.c after initialisation: one pass polls the radio, *)
(* runs one stage of the IMU pipeline, writes the five outputs and sets    *)
(* the LEDs.  There are no interrupts, so a pass is one action; time       *)
(* passes between passes.                                                  *)
(*                                                                         *)
(* The radio appears as SignalContract, which RadioLink shows the receiver *)
(* to honour: signal is "up" when SFHSS_HasSignal is true.  Fractions are  *)
(* scaled to integers: the main motor runs from 0 to SlewFull, the stick   *)
(* from 0 to 100, the tail in parts of PWM_MAX - PWM_MIN above PWM_MIN.    *)
(***************************************************************************)
EXTENDS MicrosTime

CONSTANTS
  Loss, Slack,       \* of SignalContract; Slack is also the longest pass
  SlewFull,          \* the main motor at full
  RisePerTick, FallPerTick, CoastPerTick, \* MOTOR_SLEW_*, and the freewheel decay
  Sticks,            \* throttle stick positions that frames carry
  RudderThrusts,     \* tail thrusts the rudder asks for without a gyro
  TailFull,          \* the tail motor at full
  TailCenter,        \* PWM_CENTER on that scale
  TailCommands,      \* tail outputs that Stabilize_Compute returns
  ImuPeriod,         \* IMU_PERIOD_US
  RampTicks,         \* STAB_RAMP_S
  BlinkTicks,        \* half a period of the slow blink: now >> 17
  MpuOk              \* the values g_mpu_ok may have after boot

ASSUME LoopAssumption ==
  /\ Loss \in Nat \ {0} /\ Slack \in Nat \ {0} /\ Slack < Wrap
  /\ SlewFull \in Nat \ {0}
  /\ RisePerTick \in Nat /\ FallPerTick \in Nat /\ CoastPerTick \in Nat
  /\ Sticks \subseteq 0 .. 100
  /\ TailFull \in Nat /\ TailCenter \in 0 .. TailFull
  /\ RudderThrusts \subseteq 0 .. TailFull /\ TailCommands \subseteq 0 .. TailFull
  /\ ImuPeriod \in Nat \ {0} /\ RampTicks \in Nat \ {0}
  /\ 3 * ImuPeriod + 3 * Slack < Wrap
  /\ MpuOk \subseteq BOOLEAN

(* now >> 17 is 0..7 for a clock below 1 000 000: the last window before   *)
(* the wrap is a lit one, and a pass falls into each.                      *)
ASSUME BlinkAssumption ==
  /\ BlinkTicks \in Nat \ {0} /\ Slack <= BlinkTicks
  /\ ((Wrap - 1) \div BlinkTicks) % 2 = 1
  /\ Slack <= ((Wrap - 1) % BlinkTicks) + 1

VARIABLES
  now, passAge,         \* micros(), and the time since the last pass
  signal, silence,      \* the receiver: see SignalContract
  stick, rudder,        \* what data[] holds for throttle and rudder
  stickFrom,            \* "init" until a CH1-4 frame has been accepted
  armed,                \* motor_armed
  slew, slewPrev, slewSeen, \* g_motor_slew and the statics beside it
  fsPrev, fsSeen,       \* the statics of the failsafe branch
  mpu, imuStage, lastImu, imuDt,
  gain,                 \* stab_gain, in ticks of the ramp
  stab,                 \* g_stab: a correction is applied; the tail it asks for
  out,                  \* the outputs: both motors, and what moves the swash
  red, dark,            \* the red LED, and the time it has been off; saturates
  grounded              \* time since the loop last saw flight; saturates

radio == INSTANCE SignalContract

linkVars == <<signal, silence, stick, rudder, stickFrom>>
motorVars == <<armed, slew, slewPrev, slewSeen, fsPrev, fsSeen>>
imuVars == <<imuStage, lastImu, imuDt, gain, stab>>
vars == <<now, passAge, linkVars, motorVars, mpu, imuVars, out, red, dark, grounded>>

(* THR_IDLE_NORM, and throttle_curve with its knee.                        *)
Idle(s) == s < 5
Target(s) == IF s >= 28 THEN SlewFull ELSE (s * SlewFull) \div 28

Neutral == [on |-> FALSE, tail |-> TailCenter]
Off == [main |-> 0, tail |-> 0, swash |-> "level"]

MaxDark == BlinkTicks + 2 * Slack - 1

MaxGrounded == 3 * ImuPeriod + 3 * Slack + 1

(* data[2] = 880 is beyond THR_RAW_FULL on the reversed throttle channel.  *)
Init ==
  /\ now \in Time /\ passAge = 0
  /\ radio!Init
  /\ stick = 100 /\ rudder = 0 /\ stickFrom = "init"
  /\ armed = FALSE
  /\ slew = 0 /\ slewPrev = 0 /\ slewSeen = FALSE /\ fsPrev = 0 /\ fsSeen = FALSE
  /\ mpu \in MpuOk
  /\ imuStage = 0 /\ lastImu = now /\ imuDt = 0
  /\ gain = 0 /\ stab = Neutral
  /\ out = Off
  /\ red = FALSE /\ dark = 0
  /\ grounded = 0

-----------------------------------------------------------------------------
(* SFHSS_Poll as the contract has it.                                      *)

HasSignal == signal = "up"
Flying == HasSignal /\ ~Idle(stick)

(* A frame with the CH1-4 bank brings the stick and the rudder; a CH5-8 or *)
(* failsafe-flagged frame revives the signal and leaves them as they are.  *)
PollStickFrame ==
  /\ radio!Frame
  /\ stick' \in Sticks
  /\ rudder' \in RudderThrusts
  /\ stickFrom' = "frame"

PollOtherFrame == radio!Frame /\ UNCHANGED <<stick, rudder, stickFrom>>

PollLoss == radio!Loose /\ UNCHANGED <<stick, rudder, stickFrom>>

PollNothing == UNCHANGED linkVars

Poll == PollStickFrame \/ PollOtherFrame \/ PollLoss \/ PollNothing

-----------------------------------------------------------------------------
(* One stage of the IMU pipeline.                                          *)

ImuAge == Elapsed(lastImu, now)

(* Mutant: no escape hatch: the read waits for a quiet slot.               *)
ImuDueWhenQuiet(quiet) == ImuAge >= ImuPeriod /\ quiet

ImuDue(quiet) == ImuAge >= ImuPeriod /\ (quiet \/ ImuAge >= 3 * ImuPeriod)

(* Stage 0: read the sensor in the quiet part of a slot, or overdue.       *)
ImuAwait ==
  /\ imuStage = 0
  /\ \E quiet \in BOOLEAN :
       IF ImuDue(quiet)
       THEN imuStage' = 1 /\ lastImu' = now /\ imuDt' = ImuAge
       ELSE UNCHANGED <<imuStage, lastImu, imuDt>>
  /\ UNCHANGED <<gain, stab>>

(* Stage 1: Orientation_Update.                                            *)
ImuOrient ==
  /\ imuStage = 1
  /\ imuStage' = 2
  /\ UNCHANGED <<lastImu, imuDt, gain, stab>>

(* The share of a tail command that the ramp lets through.                 *)
Ramped(cmd, g) == (cmd * g) \div RampTicks

(* Stage 2 in flight: Stabilize_Compute, eased in by the ramp.             *)
StabEngage ==
  /\ imuStage = 2
  /\ Flying'
  /\ gain' = IF gain + imuDt > RampTicks THEN RampTicks ELSE gain + imuDt
  /\ \E cmd \in TailCommands : stab' = [on |-> TRUE, tail |-> Ramped(cmd, gain')]
  /\ imuStage' = 0
  /\ UNCHANGED <<lastImu, imuDt>>

(* Mutant: the ramp is not started over.                                   *)
StabResetKeepsGain ==
  /\ imuStage = 2
  /\ ~Flying'
  /\ stab' = Neutral
  /\ imuStage' = 0
  /\ UNCHANGED <<lastImu, imuDt, gain>>

(* Stage 2 otherwise: Stabilize_Reset and no correction.                   *)
StabReset ==
  /\ imuStage = 2
  /\ ~Flying'
  /\ gain' = 0
  /\ stab' = Neutral
  /\ imuStage' = 0
  /\ UNCHANGED <<lastImu, imuDt>>

ImuPass ==
  IF mpu THEN ImuAwait \/ ImuOrient \/ StabEngage \/ StabReset ELSE UNCHANGED imuVars

-----------------------------------------------------------------------------
(* The outputs.                                                            *)

(* Time since a branch last ran, by its own static timestamp; the clock    *)
(* wraps, so whole turns of it are missing from the result.                *)
Since(prev, seen) == IF seen THEN Elapsed(prev, now) ELSE 0

(* Mutant: the branch of a rising motor has no limit.                      *)
SlewedFallOnly(from, target, dt) ==
  IF target < from - FallPerTick * dt THEN from - FallPerTick * dt ELSE target

(* The slew limiter.                                                       *)
Slewed(from, target, dt) ==
  IF target > from + RisePerTick * dt THEN from + RisePerTick * dt
  ELSE IF target < from - FallPerTick * dt THEN from - FallPerTick * dt
  ELSE target

Tail(s, st, r) ==
  IF Idle(s) THEN 0 ELSE IF mpu THEN st.tail ELSE r

(* With signal: arm, mix, slew the main motor, drive the tail.             *)
DriveOutputs ==
  /\ HasSignal'
  /\ armed' = TRUE
  /\ slew' = Slewed(slew, Target(stick'), Since(slewPrev, slewSeen))
  /\ slewPrev' = now /\ slewSeen' = TRUE
  /\ out' = [main |-> slew', tail |-> Tail(stick', stab', rudder'),
             swash |-> IF stab'.on THEN "stick and stab" ELSE "stick"]
  /\ UNCHANGED <<fsPrev, fsSeen>>

(* Mutant: the outputs keep their last values through a loss.              *)
FailsafeHolds ==
  /\ ~HasSignal'
  /\ armed' = FALSE
  /\ fsPrev' = now /\ fsSeen' = TRUE
  /\ UNCHANGED <<out, slew, slewPrev, slewSeen>>

(* Mutant: the coasting slew has no floor.                                 *)
FailsafeNoFloor ==
  /\ ~HasSignal'
  /\ armed' = FALSE
  /\ out' = Off
  /\ slew' = slew - CoastPerTick * Since(fsPrev, fsSeen)
  /\ fsPrev' = now /\ fsSeen' = TRUE
  /\ UNCHANGED <<slewPrev, slewSeen>>

(* Without: apply_failsafe on every pass, and the slew coasts down.        *)
Failsafe ==
  /\ ~HasSignal'
  /\ armed' = FALSE
  /\ out' = Off
  /\ LET left == slew - CoastPerTick * Since(fsPrev, fsSeen)
     IN slew' = IF left < 0 THEN 0 ELSE left
  /\ fsPrev' = now /\ fsSeen' = TRUE
  /\ UNCHANGED <<slewPrev, slewSeen>>

(* The red LED in a pass that finds the receiver connected, or not.        *)
(* Mutant: as it was before the slow blink: a dead IMU does not show.      *)
RedLitForLink(connected) == ~connected \/ ~armed'
RedLit(connected) ==
  \/ ~connected
  \/ ~armed'
  \/ ~mpu /\ (now \div BlinkTicks) % 2 = 1

(* What the receiver's phase is besides the signal does not matter here.   *)
ShowLed ==
  /\ \E connected \in BOOLEAN : red' = RedLit(connected)
  /\ dark' = IF red' THEN 0 ELSE dark

Pass ==
  /\ Poll
  /\ ImuPass
  /\ DriveOutputs \/ Failsafe
  /\ ShowLed
  /\ passAge' = 0
  /\ grounded' = IF Flying' THEN 0 ELSE grounded
  /\ UNCHANGED <<now, mpu>>

(* Time passes between two passes.                                         *)
Tick ==
  /\ passAge < Slack
  /\ passAge' = passAge + 1
  /\ now' = After(now, 1)
  /\ radio!Age
  /\ grounded' = IF grounded < MaxGrounded THEN grounded + 1 ELSE grounded
  /\ dark' = IF ~red /\ dark <= MaxDark THEN dark + 1 ELSE dark
  /\ UNCHANGED <<stick, rudder, stickFrom, motorVars, mpu, imuVars, out, red>>

Next == Pass \/ Tick

Spec == Init /\ [][Next]_vars

-----------------------------------------------------------------------------
Swashes == {"level", "stick", "stick and stab"}
Outputs == [main : 0 .. SlewFull, tail : 0 .. TailFull, swash : Swashes]

TypeOK ==
  /\ now \in Time /\ passAge \in 0 .. Slack
  /\ signal \in {"none", "up", "lost"} /\ silence \in 0 .. radio!MaxSilence
  /\ stick \in 0 .. 100 /\ rudder \in 0 .. TailFull
  /\ stickFrom \in {"init", "frame"}
  /\ armed \in BOOLEAN
  /\ slew \in 0 .. SlewFull
  /\ slewPrev \in Time /\ slewSeen \in BOOLEAN
  /\ fsPrev \in Time /\ fsSeen \in BOOLEAN
  /\ mpu \in BOOLEAN
  /\ imuStage \in 0 .. 2 /\ lastImu \in Time /\ imuDt \in Time
  /\ gain \in 0 .. RampTicks
  /\ stab \in [on : BOOLEAN, tail : 0 .. TailFull]
  /\ out \in Outputs
  /\ red \in BOOLEAN /\ dark \in 0 .. MaxDark + 1
  /\ grounded \in 0 .. MaxGrounded

(* However the polls fall and the clock wraps: once no frame has been      *)
(* accepted for the loss limit and one pass more, both motors are off and  *)
(* the swash is level, and they stay so until a frame comes.               *)
SilenceStopsMotors ==
  silence >= Loss + Slack \/ signal = "none" => out = Off

(* From one live pass to the next the main motor rises no faster than      *)
(* MOTOR_SLEW_RISE_PER_S of the time between them, whatever the stick does.*)
LiveRiseIsBounded ==
  [][armed /\ armed' => slew' <= slew + RisePerTick * passAge]_vars

(* The stage-0 read of the IMU is never late by more than the escape hatch *)
(* of three periods, the two other stages and the pass it falls into.      *)
ImuIsRead == mpu => ImuAge <= 3 * ImuPeriod + 3 * Slack

(* Time on the ground or without signal always ends up in a reset of the   *)
(* controller: a later take-off starts the ramp from nothing, with no      *)
(* correction left over from the flight before.                            *)
GroundResetsStab == grounded >= MaxGrounded => gain = 0 /\ stab = Neutral

(* "DO NOT FLY": a red LED that has been dark for longer than half of its  *)
(* slow blink (and the passes at both ends of it), across the wrap of the  *)
(* clock it blinks by, shows that the IMU is up and the motors are armed.  *)
DarkMeansFit == dark > MaxDark => mpu /\ armed

(* The comment at MOTOR_SLEW_*: "the commanded motor value rise[s] at a    *)
(* bounded rate (full range in ~2s)".                                      *)
MotorRiseIsBounded == [][out'.main <= slew + RisePerTick * passAge]_vars

(* The comment in the stabilisation stage: "Tail spools up from OFF toward *)
(* base+correction over the ramp": a tail that was off starts with no more *)
(* than the ramp allows for the longest IMU interval.                      *)
TailStartsFromOff ==
  [][out.tail = 0 => out'.tail <= Ramped(TailFull, 3 * ImuPeriod + 3 * Slack)]_vars

(* The comment in SFHSS_Init: "throttle low until first frame".            *)
ThrottleLowUntilFrame == stickFrom = "init" => out.main = 0
=============================================================================
