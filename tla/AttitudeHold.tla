---------------------------- MODULE AttitudeHold ----------------------------
(***************************************************************************)
(* The cyclic half of stabilize.c in attitude mode (STAB_CYCLIC_RATE_MODE  *)
(* 2): the bank that the stick steers and the loop remembers, the rate     *)
(* integral behind it, the spool term of the tail and the window of the    *)
(* flight recorder.  The main loop calls Stabilize_Compute once per IMU    *)
(* tick while flying, and Stabilize_Reset otherwise, in any order.         *)
(*                                                                         *)
(* Filters (input, output, notch, D and B terms) only shape numbers that   *)
(* no property is about, and are left out; so are the tail's PID, the      *)
(* working-point probe and the attitude trims, which are 0.  Angles, rates *)
(* and times are scaled integers.                                          *)
(***************************************************************************)
EXTENDS Integers

CONSTANTS
  Axes,          \* roll and pitch: the code does the same to both
  Angles,        \* attitudes of the airframe that g_orientation may hold
  Slews,         \* what a stick asks for beyond its deadband, angle per tick
  Rates,         \* body rates the gyro may read
  Dts,           \* IMU intervals, in ticks
  Leash,         \* STAB_ATT_LEASH_DEG
  MaxAngle,      \* STAB_ATT_MAX_DEG
  AngleP,        \* STAB_ATT_ANGLE_P
  MaxRate,       \* STAB_ATT_MAX_RATE_DPS
  IntegralLimit, \* STAB_CYCLIC_RATE_I_LIMIT
  Gates,         \* values of the airborne gate: 0 below flat pitch
  Relaxes,       \* values of the setpoint relax factor: 0 freezes the integral
  Motors,        \* values of g_motor_slew
  SpoolMax,      \* STAB_TAIL_FF_SPOOL_MAX
  Period         \* STAB_BB_PERIOD_S

ASSUME AngleAssumption ==
  /\ Angles \subseteq Int /\ Slews \subseteq Int /\ Rates \subseteq Int
  /\ Leash \in Nat /\ MaxAngle \in Nat /\ AngleP \in Nat /\ MaxRate \in Nat
ASSUME GainAssumption ==
  /\ IntegralLimit \in Nat /\ Gates \subseteq Nat /\ Relaxes \subseteq Nat
  /\ Motors \subseteq Nat /\ SpoolMax \in Nat
ASSUME TickAssumption == Dts \subseteq Nat \ {0} /\ Period \in Nat \ {0}

VARIABLES
  target,      \* s_roll_target_deg, s_pitch_target_deg
  steering,    \* s_roll_steering, s_pitch_steering
  integral,    \* the integral of each cyclic rate PID
  motorSeen,   \* s_prev_motor_frac, or none (s_prev_motor_valid = 0)
  spool,       \* the spool term of the last correction
  window,      \* s_bb_dt_acc: time in the recorder's open window
  deg, slew,   \* inputs of the last call: attitude, stick
  steered,     \* axes whose stick was deflected since the last reset
  flown,       \* the gate was open at some time since the last reset
  calls,       \* computes since the last reset: 0, 1 or more
  engaged      \* engaged time since the last reset, saturating

axisVars == <<target, steering, integral>>
seen == <<deg, slew, steered, flown, calls, engaged>>
vars == <<axisVars, motorSeen, spool, window, seen>>

None == -1

Bounded(x, limit) == IF x > limit THEN limit ELSE IF x < -limit THEN -limit ELSE x

Centre == [a \in Axes |-> 0]

Released == [a \in Axes |-> FALSE]

Init ==
  /\ target = Centre /\ steering = Released /\ integral = Centre
  /\ motorSeen = None /\ spool = 0
  /\ window = 0
  /\ deg \in [Axes -> Angles] /\ slew = Centre
  /\ steered = {} /\ flown = FALSE /\ calls = 0 /\ engaged = 0

-----------------------------------------------------------------------------
(* The target of one axis, in the order of the code: the stick pushes it   *)
(* on a one-sided leash, the release captures the attitude, and the hard   *)
(* ceiling comes last.                                                     *)

(* Mutant: the leash of the first flights, which the attitude drags along. *)
PushedBothWays(was, step, at) ==
  LET to == was + step IN
  IF to > at + Leash THEN at + Leash
  ELSE IF to < at - Leash THEN at - Leash
  ELSE to

Pushed(was, step, at) ==
  LET to == was + step IN
  IF step > 0 /\ to > at + Leash
  THEN IF was > at + Leash THEN was ELSE at + Leash
  ELSE IF step < 0 /\ to < at - Leash
  THEN IF was < at - Leash THEN was ELSE at - Leash
  ELSE to

(* Mutant: the leash also acts on a released stick.                        *)
SteerDragged(was, steers, stick, at, dt) ==
  Bounded(PushedBothWays(was, stick * dt, at), MaxAngle)

(* Mutant: no ceiling.                                                     *)
SteerUnbounded(was, steers, stick, at, dt) ==
  IF stick # 0 THEN Pushed(was, stick * dt, at) ELSE IF steers THEN at ELSE was

Steer(was, steers, stick, at, dt) ==
  Bounded(IF stick # 0 THEN Pushed(was, stick * dt, at)
          ELSE IF steers THEN at
          ELSE was,
          MaxAngle)

(* The outer loop: what rate the angle error and the stick ask for.        *)
RateSet(to, stick, at) == Bounded(AngleP * (to - at) + stick, MaxRate)

(* Mutant: the integral of the cascade before the airborne gate.           *)
WoundUngated(sum, error, dt, gate, relax) ==
  Bounded(sum + error * dt * relax, IntegralLimit)

(* PID_UpdateRelax: the gate and the relax factor scale what is added.     *)
Wound(sum, error, dt, gate, relax) ==
  Bounded(sum + error * dt * relax * gate, IntegralLimit)

(* The spool term: spin-up only, and none on the first call.  The code     *)
(* divides by dt, which scales the term and never makes it nothing.        *)
SpoolTerm(motor) ==
  IF motorSeen = None \/ motor <= motorSeen THEN 0
  ELSE IF motor - motorSeen > SpoolMax THEN SpoolMax
  ELSE motor - motorSeen

(* The recorder's window after dt more: written and emptied when full.     *)
Recorded(dt) == IF window + dt >= Period THEN 0 ELSE window + dt

-----------------------------------------------------------------------------
Stabilize_Compute ==
  \E stick \in [Axes -> Slews], at \in [Axes -> Angles], rate \in [Axes -> Rates],
     dt \in Dts, gate \in Gates, relax \in [Axes -> Relaxes], motor \in Motors :
    /\ target' = [a \in Axes |-> Steer(target[a], steering[a], stick[a], at[a], dt)]
    /\ steering' = [a \in Axes |-> stick[a] # 0]
    /\ integral' = [a \in Axes |->
         Wound(integral[a], RateSet(target'[a], stick[a], at[a]) - rate[a],
               dt, gate, relax[a])]
    /\ spool' = SpoolTerm(motor)
    /\ motorSeen' = motor
    /\ window' = Recorded(dt)
    /\ deg' = at /\ slew' = stick
    /\ steered' = steered \cup {a \in Axes : stick[a] # 0}
    /\ flown' = (flown \/ gate > 0)
    /\ calls' = IF calls < 2 THEN calls + 1 ELSE calls
    /\ engaged' = IF engaged + dt < Period THEN engaged + dt ELSE Period

(* What a reset does to the history the properties look at.                *)
Forget ==
  /\ steered' = {} /\ flown' = FALSE /\ calls' = 0 /\ engaged' = 0
  /\ UNCHANGED <<deg, slew>>

(* Mutant: the steering flags survive, so the next flight captures a bank. *)
ResetKeepsSteering ==
  /\ target' = Centre /\ integral' = Centre
  /\ motorSeen' = None /\ spool' = 0 /\ window' = 0
  /\ Forget
  /\ UNCHANGED steering

(* Mutant: the spool term is not seeded again.                             *)
ResetKeepsMotor ==
  /\ target' = Centre /\ steering' = Released /\ integral' = Centre
  /\ window' = 0 /\ spool' = 0
  /\ Forget
  /\ UNCHANGED motorSeen

(* Mutant: the open window of the recorder is kept with the log.           *)
ResetKeepsWindow ==
  /\ target' = Centre /\ steering' = Released /\ integral' = Centre
  /\ motorSeen' = None /\ spool' = 0
  /\ Forget
  /\ UNCHANGED window

(* Stabilize_Reset, and the correction that main.c drops with it.          *)
Stabilize_Reset ==
  /\ target' = Centre /\ steering' = Released /\ integral' = Centre
  /\ motorSeen' = None /\ spool' = 0
  /\ window' = 0
  /\ Forget

Next == Stabilize_Compute \/ Stabilize_Reset

Spec == Init /\ [][Next]_vars

-----------------------------------------------------------------------------
TypeOK ==
  /\ target \in [Axes -> -MaxAngle .. MaxAngle]
  /\ steering \in [Axes -> BOOLEAN]
  /\ integral \in [Axes -> -IntegralLimit .. IntegralLimit]
  /\ motorSeen \in Motors \cup {None}
  /\ spool \in 0 .. SpoolMax
  /\ window \in 0 .. Period - 1
  /\ deg \in [Axes -> Angles] /\ slew \in [Axes -> Slews \cup {0}]
  /\ steered \subseteq Axes /\ flown \in BOOLEAN
  /\ calls \in 0 .. 2 /\ engaged \in 0 .. Period

(* "The actual angle NEVER moves the target": with the stick released, no  *)
(* attitude the airframe is thrown into changes the bank that is held,     *)
(* until a reset.                                                          *)
DisturbanceKeepsBank ==
  [][\A a \in Axes :
       calls' > 0 /\ ~steering[a] /\ ~steering'[a] => target'[a] = target[a]]_vars

(* The stick never moves the target against itself, wherever the airframe  *)
(* is, and never takes it further than the leash beyond the airframe       *)
(* unless it was further already.                                          *)
StickLeads ==
  [][\A a \in Axes : calls' > 0 /\ steering'[a] =>
       /\ slew'[a] > 0 => /\ target'[a] >= target[a]
                          /\ target'[a] <= target[a] \/ target'[a] <= deg'[a] + Leash
       /\ slew'[a] < 0 => /\ target'[a] <= target[a]
                          /\ target'[a] >= target[a] \/ target'[a] >= deg'[a] - Leash]_vars

(* "Lowering the throttle is the pilot's forget-the-bank gesture": after a *)
(* reset an axis is held level until its own stick has been deflected,     *)
(* whatever was steered before and however the machine lies.               *)
ResetForgetsBank == \A a \in Axes : target[a] # 0 => a \in steered

(* The airborne gate: what the airframe cannot answer on the ground does   *)
(* not wind the integral, so it is empty until the collective has been up. *)
WindupNeedsFlight == \A a \in Axes : integral[a] # 0 => flown

(* "Engaging doesn't fake a spool spike": the first correction after a     *)
(* reset has no spool term, whatever the motor did meanwhile.              *)
NoFakeSpool == spool # 0 => calls > 1

(* A recorder window never mixes two flights: it is not longer than the    *)
(* time engaged since the last reset.                                      *)
WindowIsOneFlight == window <= engaged

(* Flights do not run into each other: nothing from before the last reset  *)
(* kicks the tail of this flight or is averaged into its first record.     *)
FlightsAreSeparate == NoFakeSpool /\ WindowIsOneFlight
=============================================================================
