------------------------- MODULE AttitudeHoldProofs -------------------------
(***************************************************************************)
(* Theorems about AttitudeHold, for every set of axes, every range of the  *)
(* inputs and every gain and limit.                                        *)
(***************************************************************************)
EXTENDS AttitudeHold, TLAPS

(* A bounded number is within the bound, and one within it is not changed. *)
LEMMA BoundedInRange ==
  ASSUME NEW x \in Int, NEW limit \in Nat
  PROVE  /\ Bounded(x, limit) \in -limit .. limit
         /\ x \in -limit .. limit => Bounded(x, limit) = x
  BY DEF Bounded

(* The inputs of a call, axis by axis, are integers.                       *)
LEMMA InputsAreInt ==
  ASSUME NEW a \in Axes, NEW stick \in [Axes -> Slews], NEW at \in [Axes -> Angles],
         NEW rate \in [Axes -> Rates]
  PROVE  stick[a] \in Int /\ at[a] \in Int /\ rate[a] \in Int
  <1>1. stick[a] \in Slews /\ at[a] \in Angles /\ rate[a] \in Rates
    OBVIOUS
  <1>2. Slews \subseteq Int /\ Angles \subseteq Int /\ Rates \subseteq Int
    BY AngleAssumption
  <1>3. QED
    BY <1>1, <1>2

(* Steering keeps the target of an axis below the hard ceiling.            *)
LEMMA SteerInRange ==
  ASSUME NEW was \in -MaxAngle .. MaxAngle, NEW steers \in BOOLEAN,
         NEW stick \in Slews, NEW at \in Angles, NEW dt \in Dts
  PROVE  Steer(was, steers, stick, at, dt) \in -MaxAngle .. MaxAngle
  <1> DEFINE to == IF stick # 0 THEN Pushed(was, stick * dt, at)
                   ELSE IF steers THEN at ELSE was
  <1>1. was \in Int /\ at \in Int /\ stick \in Int /\ dt \in Int /\ stick * dt \in Int
    BY AngleAssumption, TickAssumption
  <1>2. Pushed(was, stick * dt, at) \in Int
    BY <1>1, AngleAssumption DEF Pushed
  <1>3. to \in Int /\ MaxAngle \in Nat
    BY <1>1, <1>2, AngleAssumption
  <1> HIDE DEF to
  <1>4. Bounded(to, MaxAngle) \in -MaxAngle .. MaxAngle
    BY <1>3, BoundedInRange
  <1>5. QED
    BY <1>4 DEF Steer, to

(* The integral of a rate PID never leaves its limits.                     *)
LEMMA WoundInRange ==
  ASSUME NEW sum \in -IntegralLimit .. IntegralLimit, NEW error \in Int,
         NEW dt \in Dts, NEW gate \in Gates, NEW relax \in Relaxes
  PROVE  Wound(sum, error, dt, gate, relax) \in -IntegralLimit .. IntegralLimit
  <1>1. dt \in Int /\ gate \in Int /\ relax \in Int /\ sum \in Int /\ IntegralLimit \in Nat
    BY GainAssumption, TickAssumption
  <1>2. error * dt \in Int
    BY <1>1
  <1>3. error * dt * relax \in Int
    BY <1>1, <1>2
  <1>4. error * dt * relax * gate \in Int
    BY <1>1, <1>3
  <1> DEFINE x == sum + error * dt * relax * gate
  <1>5. x \in Int
    BY <1>1, <1>4
  <1> HIDE DEF x
  <1>6. Bounded(x, IntegralLimit) \in -IntegralLimit .. IntegralLimit
    BY <1>1, <1>5, BoundedInRange
  <1>7. QED
    BY <1>6 DEF Wound, x

(* The rate that the outer loop asks for is an integer within its limit.   *)
LEMMA RateSetInRange ==
  ASSUME NEW to \in Int, NEW stick \in Int, NEW at \in Int
  PROVE  RateSet(to, stick, at) \in Int
  <1>1. AngleP \in Int /\ MaxRate \in Nat
    BY AngleAssumption
  <1>2. AngleP * (to - at) \in Int
    BY <1>1
  <1> DEFINE x == AngleP * (to - at) + stick
  <1>3. x \in Int
    BY <1>2
  <1> HIDE DEF x
  <1>4. Bounded(x, MaxRate) \in Int
    BY <1>1, <1>3, BoundedInRange
  <1>5. QED
    BY <1>4 DEF RateSet, x

-----------------------------------------------------------------------------
LEMMA InitType == Init => TypeOK
  <1> SUFFICES ASSUME Init PROVE TypeOK
    OBVIOUS
  <1>1. 0 \in -MaxAngle .. MaxAngle /\ 0 \in -IntegralLimit .. IntegralLimit
    BY AngleAssumption, GainAssumption
  <1>2. target \in [Axes -> -MaxAngle .. MaxAngle] /\ steering \in [Axes -> BOOLEAN]
        /\ integral \in [Axes -> -IntegralLimit .. IntegralLimit]
    BY <1>1 DEF Init, Centre, Released
  <1>3. slew \in [Axes -> Slews \cup {0}] /\ deg \in [Axes -> Angles]
    BY DEF Init, Centre
  <1>4. spool \in 0 .. SpoolMax /\ window \in 0 .. Period - 1 /\ engaged \in 0 .. Period
    BY GainAssumption, TickAssumption DEF Init
  <1>5. motorSeen \in Motors \cup {None} /\ flown \in BOOLEAN
    BY DEF Init
  <1>6. calls \in 0 .. 2 /\ steered \subseteq Axes
    BY DEF Init
  <1>7. QED
    BY <1>2, <1>3, <1>4, <1>5, <1>6 DEF TypeOK

LEMMA ComputeType == TypeOK /\ Stabilize_Compute => TypeOK'
  <1> SUFFICES ASSUME TypeOK, Stabilize_Compute PROVE TypeOK'
    OBVIOUS
  <1> PICK stick \in [Axes -> Slews], at \in [Axes -> Angles], rate \in [Axes -> Rates],
           dt \in Dts, gate \in Gates, relax \in [Axes -> Relaxes], motor \in Motors :
        /\ target' = [a \in Axes |-> Steer(target[a], steering[a], stick[a], at[a], dt)]
        /\ steering' = [a \in Axes |-> stick[a] # 0]
        /\ integral' = [a \in Axes |->
             Wound(integral[a], RateSet(target'[a], stick[a], at[a]) - rate[a],
                   dt, gate, relax[a])]
        /\ spool' = SpoolTerm(motor)
        /\ motorSeen' = motor
        /\ window' = Recorded(dt)
        /\ deg' = at /\ slew' = stick
        /\ steered' = steered \cup {a \in Axes : stick[a] # 0}
        /\ flown' = (flown \/ gate > 0)
        /\ calls' = IF calls < 2 THEN calls + 1 ELSE calls
        /\ engaged' = IF engaged + dt < Period THEN engaged + dt ELSE Period
    BY DEF Stabilize_Compute
  <1>1. target' \in [Axes -> -MaxAngle .. MaxAngle]
    BY SteerInRange DEF TypeOK
  <1>2. steering' \in [Axes -> BOOLEAN]
    OBVIOUS
  <1>3. integral' \in [Axes -> -IntegralLimit .. IntegralLimit]
    <2> SUFFICES ASSUME NEW a \in Axes
                 PROVE  Wound(integral[a], RateSet(target'[a], stick[a], at[a]) - rate[a],
                              dt, gate, relax[a]) \in -IntegralLimit .. IntegralLimit
      OBVIOUS
    <2>1. target'[a] \in Int /\ stick[a] \in Int /\ at[a] \in Int /\ rate[a] \in Int
      <3>1. target'[a] \in Int
        BY <1>1
      <3>2. stick[a] \in Int /\ at[a] \in Int /\ rate[a] \in Int
        BY InputsAreInt
      <3>3. QED
        BY <3>1, <3>2
    <2>2. RateSet(target'[a], stick[a], at[a]) \in Int
      BY <2>1, RateSetInRange
    <2>3. RateSet(target'[a], stick[a], at[a]) - rate[a] \in Int
      BY <2>1, <2>2
    <2>4. integral[a] \in -IntegralLimit .. IntegralLimit /\ relax[a] \in Relaxes
      BY DEF TypeOK
    <2>5. QED
      BY <2>3, <2>4, WoundInRange
  <1>4. spool' \in 0 .. SpoolMax
    BY GainAssumption DEF TypeOK, SpoolTerm, None
  <1>5. window' \in 0 .. Period - 1 /\ engaged' \in 0 .. Period
    BY TickAssumption DEF TypeOK, Recorded
  <1>6. calls' \in 0 .. 2 /\ flown' \in BOOLEAN /\ steered' \subseteq Axes
    BY DEF TypeOK
  <1>7. motorSeen' \in Motors \cup {None} /\ deg' \in [Axes -> Angles]
        /\ slew' \in [Axes -> Slews \cup {0}]
    OBVIOUS
  <1>8. QED
    BY <1>1, <1>2, <1>3, <1>4, <1>5, <1>6, <1>7 DEF TypeOK

LEMMA ResetType == TypeOK /\ Stabilize_Reset => TypeOK'
  <1> SUFFICES ASSUME TypeOK, Stabilize_Reset PROVE TypeOK'
    OBVIOUS
  <1>1. 0 \in -MaxAngle .. MaxAngle /\ 0 \in -IntegralLimit .. IntegralLimit
    BY AngleAssumption, GainAssumption
  <1>2. target' \in [Axes -> -MaxAngle .. MaxAngle] /\ steering' \in [Axes -> BOOLEAN]
        /\ integral' \in [Axes -> -IntegralLimit .. IntegralLimit]
    BY <1>1 DEF Stabilize_Reset, Centre, Released
  <1>3. slew' \in [Axes -> Slews \cup {0}] /\ deg' \in [Axes -> Angles]
    BY DEF TypeOK, Stabilize_Reset, Forget
  <1>4. spool' \in 0 .. SpoolMax /\ window' \in 0 .. Period - 1 /\ engaged' \in 0 .. Period
    BY GainAssumption, TickAssumption DEF Stabilize_Reset, Forget
  <1>5. motorSeen' \in Motors \cup {None} /\ flown' \in BOOLEAN
    BY DEF Stabilize_Reset, Forget
  <1>6. calls' \in 0 .. 2 /\ steered' \subseteq Axes
    BY DEF Stabilize_Reset, Forget
  <1>7. QED
    BY <1>2, <1>3, <1>4, <1>5, <1>6 DEF TypeOK

(* Targets, integrals and the spool term stay in range on every history of *)
(* computes and resets.                                                    *)
THEOREM AttitudeTypeCorrect == Spec => []TypeOK
  <1>1. TypeOK /\ [Next]_vars => TypeOK'
    <2>1. CASE Next
      BY <2>1, ComputeType, ResetType DEF Next
    <2>2. CASE UNCHANGED vars
      BY <2>2 DEF TypeOK, vars, axisVars, seen
    <2>3. QED
      BY <2>1, <2>2
  <1>2. QED
    BY <1>1, InitType, PTL DEF Spec
-----------------------------------------------------------------------------
(* What a flight remembers, each part inductive with the flags beside it.  *)

(* A steered axis was deflected, and only such an axis is off level.       *)
BankInv == \A a \in Axes : (steering[a] \/ target[a] # 0) => a \in steered

(* The motor value is remembered from an earlier call, or not at all.      *)
SpoolInv == /\ calls = 0 => motorSeen = None
            /\ NoFakeSpool

(* After a reset an axis is held level until its own stick has been used.  *)
THEOREM ResetAlwaysForgets == Spec => []ResetForgetsBank
  <1>1. Init => BankInv
    BY DEF Init, BankInv, Centre, Released
  <1>2. TypeOK /\ BankInv /\ [Next]_vars => BankInv'
    <2> SUFFICES ASSUME TypeOK, BankInv, [Next]_vars, NEW a \in Axes,
                        steering'[a] \/ target'[a] # 0
                 PROVE  a \in steered'
      BY DEF BankInv
    <2>1. CASE Stabilize_Compute
      <3> PICK stick \in [Axes -> Slews], at \in [Axes -> Angles], dt \in Dts :
            /\ target' = [x \in Axes |-> Steer(target[x], steering[x], stick[x], at[x], dt)]
            /\ steering' = [x \in Axes |-> stick[x] # 0]
            /\ steered' = steered \cup {x \in Axes : stick[x] # 0}
        BY <2>1 DEF Stabilize_Compute
      <3>1. CASE stick[a] # 0
        BY <3>1
      <3>2. CASE stick[a] = 0 /\ steering[a]
        BY <3>2 DEF BankInv
      <3>3. CASE stick[a] = 0 /\ ~steering[a]
        <4>1. target'[a] = Bounded(target[a], MaxAngle)
          BY <3>3 DEF Steer
        <4>2. target[a] # 0
          <5>1. ~steering'[a]
            BY <3>3
          <5>2. target'[a] # 0
            BY <5>1
          <5>3. Bounded(0, MaxAngle) = 0
            BY AngleAssumption DEF Bounded
          <5>4. QED
            BY <4>1, <5>2, <5>3
        <4>3. QED
          BY <4>2 DEF BankInv
      <3>4. QED
        BY <3>1, <3>2, <3>3
    <2>2. CASE Stabilize_Reset
      BY <2>2 DEF Stabilize_Reset, Centre, Released
    <2>3. CASE UNCHANGED vars
      BY <2>3 DEF BankInv, vars, axisVars, seen
    <2>4. QED
      BY <2>1, <2>2, <2>3 DEF Next
  <1>3. BankInv => ResetForgetsBank
    BY DEF BankInv, ResetForgetsBank
  <1>4. QED
    BY <1>1, <1>2, <1>3, AttitudeTypeCorrect, PTL DEF Spec

(* The rate integrals are empty until the airborne gate has been open.     *)
THEOREM GroundDoesNotWind == Spec => []WindupNeedsFlight
  <1>1. Init => WindupNeedsFlight
    BY DEF Init, WindupNeedsFlight, Centre
  <1>2. TypeOK /\ TypeOK' /\ WindupNeedsFlight /\ [Next]_vars => WindupNeedsFlight'
    <2> SUFFICES ASSUME TypeOK, TypeOK', WindupNeedsFlight, [Next]_vars,
                        NEW a \in Axes, ~flown'
                 PROVE  integral'[a] = 0
      BY DEF WindupNeedsFlight
    <2>1. CASE Stabilize_Compute
      <3> PICK stick \in [Axes -> Slews], at \in [Axes -> Angles], rate \in [Axes -> Rates],
               dt \in Dts, gate \in Gates, relax \in [Axes -> Relaxes] :
            /\ integral' = [x \in Axes |->
                 Wound(integral[x], RateSet(target'[x], stick[x], at[x]) - rate[x],
                       dt, gate, relax[x])]
            /\ flown' = (flown \/ gate > 0)
        BY <2>1 DEF Stabilize_Compute
      <3>1. gate = 0 /\ integral[a] = 0
        <4>1. ~flown /\ ~(gate > 0)
          OBVIOUS
        <4>2. gate \in Nat
          BY GainAssumption
        <4>3. gate = 0
          BY <4>1, <4>2
        <4>4. integral[a] = 0
          BY <4>1 DEF WindupNeedsFlight
        <4>5. QED
          BY <4>3, <4>4
      <3>2. target'[a] \in Int /\ stick[a] \in Int /\ at[a] \in Int /\ rate[a] \in Int
        <4>1. target'[a] \in Int
          BY DEF TypeOK
        <4>2. stick[a] \in Int /\ at[a] \in Int /\ rate[a] \in Int
          BY InputsAreInt
        <4>3. QED
          BY <4>1, <4>2
      <3> DEFINE error == RateSet(target'[a], stick[a], at[a]) - rate[a]
      <3>3. error \in Int
        <4>1. RateSet(target'[a], stick[a], at[a]) \in Int
          BY <3>2, RateSetInRange
        <4>2. QED
          BY <3>2, <4>1
      <3> HIDE DEF error
      <3>4. error * dt \in Int
        BY <3>3, TickAssumption
      <3>5. relax[a] \in Int
        <4>1. \A r \in Relaxes : r \in Int
          BY GainAssumption
        <4>2. relax[a] \in Relaxes
          OBVIOUS
        <4>3. QED
          BY <4>1, <4>2
      <3>6. error * dt * relax[a] \in Int
        BY <3>4, <3>5
      <3>7. integral[a] + error * dt * relax[a] * gate = 0
        BY <3>1, <3>6
      <3>8. Wound(integral[a], error, dt, gate, relax[a]) = 0
        BY <3>7, GainAssumption DEF Wound, Bounded
      <3>9. QED
        BY <3>8 DEF error
    <2>2. CASE Stabilize_Reset
      BY <2>2 DEF Stabilize_Reset, Centre
    <2>3. CASE UNCHANGED vars
      BY <2>3 DEF WindupNeedsFlight, vars, axisVars, seen
    <2>4. QED
      BY <2>1, <2>2, <2>3 DEF Next
  <1>3. QED
    BY <1>1, <1>2, AttitudeTypeCorrect, PTL DEF Spec

(* The first correction after a reset has no spool term.                   *)
THEOREM SpoolIsNeverFaked == Spec => []NoFakeSpool
  <1>1. Init => SpoolInv
    BY DEF Init, SpoolInv, NoFakeSpool
  <1>2. TypeOK /\ SpoolInv /\ [Next]_vars => SpoolInv'
    <2> SUFFICES ASSUME TypeOK, SpoolInv, [Next]_vars PROVE SpoolInv'
      OBVIOUS
    <2>1. CASE Stabilize_Compute
      <3> PICK motor \in Motors : /\ spool' = SpoolTerm(motor)
                                 /\ calls' = IF calls < 2 THEN calls + 1 ELSE calls
        BY <2>1 DEF Stabilize_Compute
      <3>1. calls = 0 => spool' = 0
        BY DEF SpoolInv, SpoolTerm
      <3>2. QED
        BY <3>1 DEF SpoolInv, NoFakeSpool, TypeOK
    <2>2. CASE Stabilize_Reset
      BY <2>2 DEF Stabilize_Reset, Forget, SpoolInv, NoFakeSpool
    <2>3. CASE UNCHANGED vars
      BY <2>3 DEF SpoolInv, NoFakeSpool, vars, axisVars, seen
    <2>4. QED
      BY <2>1, <2>2, <2>3 DEF Next
  <1>3. QED
    BY <1>1, <1>2, AttitudeTypeCorrect, PTL DEF Spec, SpoolInv

-----------------------------------------------------------------------------
(* With the stick released, no attitude moves the bank that is held.       *)
THEOREM BankIsKept == Spec => DisturbanceKeepsBank
  <1>1. TypeOK /\ [Next]_vars =>
          [\A a \in Axes : calls' > 0 /\ ~steering[a] /\ ~steering'[a]
                            => target'[a] = target[a]]_vars
    <2> SUFFICES ASSUME TypeOK, Next, NEW a \in Axes,
                        calls' > 0, ~steering[a], ~steering'[a]
                 PROVE  target'[a] = target[a]
      OBVIOUS
    <2>1. CASE Stabilize_Compute
      <3> PICK stick \in [Axes -> Slews], at \in [Axes -> Angles], dt \in Dts :
            /\ target' = [x \in Axes |-> Steer(target[x], steering[x], stick[x], at[x], dt)]
            /\ steering' = [x \in Axes |-> stick[x] # 0]
        BY <2>1 DEF Stabilize_Compute
      <3>1. target'[a] = Bounded(target[a], MaxAngle)
        BY DEF Steer
      <3>2. target[a] \in -MaxAngle .. MaxAngle /\ target[a] \in Int /\ MaxAngle \in Nat
        BY AngleAssumption DEF TypeOK
      <3>3. QED
        BY <3>1, <3>2, BoundedInRange
    <2>2. CASE Stabilize_Reset
      BY <2>2 DEF Stabilize_Reset, Forget
    <2>3. QED
      BY <2>1, <2>2 DEF Next
  <1>2. QED
    BY <1>1, AttitudeTypeCorrect, PTL DEF Spec, DisturbanceKeepsBank

(* A positive number of ticks keeps the sign of what the stick asks for.   *)
LEMMA StepHasSign ==
  ASSUME NEW stick \in Int, NEW dt \in Nat \ {0}
  PROVE  /\ stick * dt \in Int
         /\ stick > 0 => stick * dt > 0
         /\ stick < 0 => stick * dt < 0
  OBVIOUS

(* One step of the stick: the way the stick points, on its leash.          *)
LEMMA PushFollowsStick ==
  ASSUME NEW was \in -MaxAngle .. MaxAngle, NEW step \in Int, NEW at \in Int
  PROVE  LET to == Bounded(Pushed(was, step, at), MaxAngle) IN
         /\ step > 0 => /\ to >= was
                        /\ to <= was \/ to <= at + Leash
         /\ step < 0 => /\ to <= was
                        /\ to >= was \/ to >= at - Leash
  <1>1. MaxAngle \in Nat /\ Leash \in Nat /\ was \in Int
    BY AngleAssumption
  <1> DEFINE p == Pushed(was, step, at)
  <1>2. p \in Int
    BY <1>1 DEF Pushed
  <1>3. step > 0 => p >= was /\ (p <= was \/ p <= at + Leash)
    BY <1>1 DEF Pushed
  <1>4. step < 0 => p <= was /\ (p >= was \/ p >= at - Leash)
    BY <1>1 DEF Pushed
  <1> HIDE DEF p
  <1> DEFINE to == Bounded(p, MaxAngle)
  <1>5. /\ step > 0 => to >= was /\ (to <= was \/ to <= at + Leash)
        /\ step < 0 => to <= was /\ (to >= was \/ to >= at - Leash)
    BY <1>1, <1>2, <1>3, <1>4 DEF Bounded
  <1>6. QED
    BY <1>5 DEF p

(* The stick never moves the target against itself or off its leash.       *)
THEOREM StickAlwaysLeads == Spec => StickLeads
  <1>1. TypeOK /\ [Next]_vars =>
          [\A a \in Axes : calls' > 0 /\ steering'[a] =>
             /\ slew'[a] > 0 => /\ target'[a] >= target[a]
                                /\ target'[a] <= target[a] \/ target'[a] <= deg'[a] + Leash
             /\ slew'[a] < 0 => /\ target'[a] <= target[a]
                                /\ target'[a] >= target[a] \/ target'[a] >= deg'[a] - Leash]_vars
    <2> SUFFICES ASSUME TypeOK, Next, NEW a \in Axes, calls' > 0, steering'[a]
                 PROVE  /\ slew'[a] > 0 => /\ target'[a] >= target[a]
                                           /\ target'[a] <= target[a] \/ target'[a] <= deg'[a] + Leash
                        /\ slew'[a] < 0 => /\ target'[a] <= target[a]
                                           /\ target'[a] >= target[a] \/ target'[a] >= deg'[a] - Leash
      OBVIOUS
    <2>1. CASE Stabilize_Compute
      <3> PICK stick \in [Axes -> Slews], at \in [Axes -> Angles], dt \in Dts :
            /\ target' = [x \in Axes |-> Steer(target[x], steering[x], stick[x], at[x], dt)]
            /\ steering' = [x \in Axes |-> stick[x] # 0]
            /\ deg' = at /\ slew' = stick
        BY <2>1 DEF Stabilize_Compute
      <3>1. stick[a] \in Int /\ at[a] \in Int
        <4>1. stick[a] \in Slews /\ at[a] \in Angles
          OBVIOUS
        <4>2. Slews \subseteq Int /\ Angles \subseteq Int
          BY AngleAssumption
        <4>3. QED
          BY <4>1, <4>2
      <3>2. dt \in Nat \ {0}
        BY TickAssumption
      <3> DEFINE step == stick[a] * dt
      <3>3. /\ step \in Int
            /\ stick[a] > 0 => step > 0
            /\ stick[a] < 0 => step < 0
        BY <3>1, <3>2, StepHasSign
      <3>4. target'[a] = Bounded(Pushed(target[a], step, at[a]), MaxAngle)
        BY DEF Steer
      <3> HIDE DEF step
      <3>5. target[a] \in -MaxAngle .. MaxAngle
        BY DEF TypeOK
      <3>6. QED
        BY <3>1, <3>3, <3>4, <3>5, PushFollowsStick
    <2>2. CASE Stabilize_Reset
      BY <2>2 DEF Stabilize_Reset, Forget
    <2>3. QED
      BY <2>1, <2>2 DEF Next
  <1>2. QED
    BY <1>1, AttitudeTypeCorrect, PTL DEF Spec, StickLeads

(* The recorder's window holds no time from before the last reset.         *)
THEOREM WindowStaysInFlight == Spec => []WindowIsOneFlight
  <1>1. Init => WindowIsOneFlight
    BY DEF Init, WindowIsOneFlight
  <1>2. TypeOK /\ WindowIsOneFlight /\ [Next]_vars => WindowIsOneFlight'
    <2> SUFFICES ASSUME TypeOK, WindowIsOneFlight, [Next]_vars PROVE WindowIsOneFlight'
      OBVIOUS
    <2>1. CASE Stabilize_Compute
      <3> PICK dt \in Dts :
            /\ window' = Recorded(dt)
            /\ engaged' = IF engaged + dt < Period THEN engaged + dt ELSE Period
        BY <2>1 DEF Stabilize_Compute
      <3>1. QED
        BY TickAssumption DEF Recorded, WindowIsOneFlight, TypeOK
    <2>2. CASE Stabilize_Reset
      BY <2>2 DEF Stabilize_Reset, Forget, WindowIsOneFlight
    <2>3. CASE UNCHANGED vars
      BY <2>3 DEF WindowIsOneFlight, vars, axisVars, seen
    <2>4. QED
      BY <2>1, <2>2, <2>3 DEF Next
  <1>3. QED
    BY <1>1, <1>2, AttitudeTypeCorrect, PTL DEF Spec

(* Nothing of a flight before the last reset reaches the tail or the log.  *)
THEOREM FlightsStaySeparate == Spec => []FlightsAreSeparate
  BY SpoolIsNeverFaked, WindowStaysInFlight, PTL DEF FlightsAreSeparate
=============================================================================
