-------------------------- MODULE FlightLoopProofs --------------------------
(***************************************************************************)
(* The main loop, for every loss limit, pass length, slew rate, IMU period *)
(* and ramp.                                                               *)
(***************************************************************************)
EXTENDS FlightLoop, TLAPS

(* A timestamp moved by less than a turn of the clock is a timestamp.      *)
LEMMA AfterInTime ==
  ASSUME NEW t \in Time, NEW us \in 0 .. Wrap
  PROVE  After(t, us) \in Time /\ After(t, us) = IF t + us < Wrap THEN t + us ELSE t + us - Wrap
BY WrapAssumption, SMT DEF After, Time

LEMMA ElapsedInTime ==
  ASSUME NEW since \in Time, NEW at \in Time
  PROVE  Elapsed(since, at) \in Time
BY WrapAssumption DEF Elapsed, Time

(* The clock of main.c advances by one unit.                               *)
LEMMA ElapsedTicks ==
  ASSUME NEW t \in Time, NEW n \in Time, Elapsed(t, n) + 1 < Wrap
  PROVE  Elapsed(t, After(n, 1)) = Elapsed(t, n) + 1
<1>1. After(n, 1) = IF n + 1 < Wrap THEN n + 1 ELSE n + 1 - Wrap
  BY AfterInTime, WrapAssumption
<1> QED
  BY <1>1, WrapAssumption DEF Elapsed, Time

LEMMA ElapsedNow ==
  ASSUME NEW n \in Time
  PROVE  Elapsed(n, n) = 0
BY WrapAssumption DEF Elapsed, Time

(* A product of naturals is a natural, and monotonic in each factor.       *)
LEMMA ProductBound ==
  ASSUME NEW a \in Nat, NEW b \in Nat, NEW m \in Nat, b <= m
  PROVE  a * b \in Nat /\ a * b <= a * m
<1>1. m - b \in Nat
  OBVIOUS
<1>2. a * (m - b) \in Nat /\ a * b \in Nat
  BY <1>1
<1>3. a * (m - b) = a * m - a * b
  OBVIOUS
<1> QED
  BY <1>2, <1>3

LEMMA RampedType ==
  ASSUME NEW cmd \in 0 .. TailFull, NEW g \in 0 .. RampTicks
  PROVE  Ramped(cmd, g) \in 0 .. TailFull
<1>1. cmd \in Nat /\ g \in Nat /\ RampTicks \in Nat /\ RampTicks > 0 /\ g <= RampTicks /\ TailFull \in Nat
  BY LoopAssumption
<1>2. cmd * g \in Nat /\ cmd * g <= cmd * RampTicks
  BY <1>1, ProductBound
<1>3. ASSUME NEW x \in Nat, x <= cmd * RampTicks
      PROVE  x \div RampTicks \in 0 .. cmd
  BY <1>1, <1>3
<1> QED
  BY <1>1, <1>2, <1>3 DEF Ramped

LEMMA TargetType ==
  ASSUME NEW s \in 0 .. 100
  PROVE  Target(s) \in 0 .. SlewFull
<1>1. SlewFull \in Nat
  BY LoopAssumption
<1>2. CASE s < 28
  <2>1. SlewFull * s \in Nat /\ SlewFull * s <= SlewFull * 28
    BY <1>1, <1>2, ProductBound
  <2>2. (s * SlewFull) \div 28 \in 0 .. SlewFull
    BY <1>1, <2>1
  <2> QED
    BY <1>2, <2>2 DEF Target
<1>3. CASE s >= 28
  BY <1>1, <1>3 DEF Target
<1> QED
  BY <1>2, <1>3

LEMMA SlewedType ==
  ASSUME NEW from \in 0 .. SlewFull, NEW target \in 0 .. SlewFull, NEW dt \in Nat
  PROVE  /\ Slewed(from, target, dt) \in 0 .. SlewFull
         /\ Slewed(from, target, dt) <= from + RisePerTick * dt
<1>1. RisePerTick * dt \in Nat /\ FallPerTick * dt \in Nat
  BY LoopAssumption
<1> DEFINE up == RisePerTick * dt
           down == FallPerTick * dt
<1>2. up \in Nat /\ down \in Nat /\ SlewFull \in Nat
  BY <1>1, LoopAssumption
<1>3. Slewed(from, target, dt) = IF target > from + up THEN from + up
                                 ELSE IF target < from - down THEN from - down ELSE target
  BY DEF Slewed
<1> HIDE DEF up, down
<1>4. /\ Slewed(from, target, dt) \in 0 .. SlewFull
      /\ Slewed(from, target, dt) <= from + up
  BY <1>2, <1>3
<1> QED
  BY <1>4 DEF up

-----------------------------------------------------------------------------
(* Type correctness.                                                       *)

LEMMA PollType ==
  ASSUME TypeOK, Poll
  PROVE  /\ signal' \in {"none", "up", "lost"} /\ silence' \in 0 .. radio!MaxSilence
         /\ stick' \in 0 .. 100 /\ rudder' \in 0 .. TailFull
         /\ stickFrom' \in {"init", "frame"}
<1>1. 0 \in 0 .. radio!MaxSilence
  BY LoopAssumption DEF radio!MaxSilence
<1>2. CASE PollStickFrame
  BY <1>1, <1>2, LoopAssumption DEF PollStickFrame, radio!Frame
<1>3. CASE PollOtherFrame
  BY <1>1, <1>3 DEF PollOtherFrame, radio!Frame, TypeOK
<1>4. CASE PollLoss
  BY <1>4 DEF PollLoss, radio!Loose, TypeOK
<1>5. CASE PollNothing
  BY <1>5 DEF PollNothing, linkVars, TypeOK
<1> QED
  BY <1>2, <1>3, <1>4, <1>5 DEF Poll

LEMMA ImuType ==
  ASSUME TypeOK, ImuPass
  PROVE  /\ imuStage' \in 0 .. 2 /\ lastImu' \in Time /\ imuDt' \in Time
         /\ gain' \in 0 .. RampTicks
         /\ stab' \in [on : BOOLEAN, tail : 0 .. TailFull]
<1>1. ImuAge \in Time
  BY ElapsedInTime DEF TypeOK, ImuAge
<1>2. Neutral \in [on : BOOLEAN, tail : 0 .. TailFull]
  BY LoopAssumption DEF Neutral
<1>3. CASE ImuAwait
  BY <1>1, <1>3 DEF ImuAwait, TypeOK
<1>4. CASE ImuOrient
  BY <1>4 DEF ImuOrient, TypeOK
<1>5. CASE StabEngage
  <2>1. gain' \in 0 .. RampTicks
    BY <1>5, LoopAssumption, WrapAssumption DEF StabEngage, TypeOK, Time
  <2>2. PICK cmd \in TailCommands : stab' = [on |-> TRUE, tail |-> Ramped(cmd, gain')]
    BY <1>5 DEF StabEngage
  <2>3. Ramped(cmd, gain') \in 0 .. TailFull
    BY <2>1, RampedType, LoopAssumption
  <2> QED
    BY <1>5, <2>1, <2>2, <2>3 DEF StabEngage, TypeOK
<1>6. CASE StabReset
  BY <1>2, <1>6, LoopAssumption DEF StabReset, TypeOK
<1>7. CASE UNCHANGED imuVars
  BY <1>7 DEF imuVars, TypeOK
<1> QED
  BY <1>3, <1>4, <1>5, <1>6, <1>7 DEF ImuPass

LEMMA SinceType ==
  ASSUME TypeOK
  PROVE  Since(slewPrev, slewSeen) \in Nat /\ Since(fsPrev, fsSeen) \in Nat
BY ElapsedInTime, WrapAssumption DEF TypeOK, Since, Time

LEMMA TailType ==
  ASSUME TypeOK, Poll, ImuPass
  PROVE  Tail(stick', stab', rudder') \in 0 .. TailFull
<1>1. stab'.tail \in 0 .. TailFull /\ rudder' \in 0 .. TailFull
  BY PollType, ImuType
<1>2. 0 \in 0 .. TailFull
  BY LoopAssumption
<1> QED
  BY <1>1, <1>2 DEF Tail

LEMMA OutputType ==
  ASSUME TypeOK, Poll, ImuPass, DriveOutputs \/ Failsafe
  PROVE  /\ armed' \in BOOLEAN
         /\ slew' \in 0 .. SlewFull
         /\ slewPrev' \in Time /\ slewSeen' \in BOOLEAN
         /\ fsPrev' \in Time /\ fsSeen' \in BOOLEAN
         /\ out' \in Outputs
<1>1. CASE DriveOutputs
  <2>1. stick' \in 0 .. 100
    BY PollType
  <2>2. slew' \in 0 .. SlewFull
    BY <1>1, <2>1, TargetType, SinceType, SlewedType DEF DriveOutputs, TypeOK
  <2>3. out' \in Outputs
    <3>1. out'.swash \in Swashes
      BY <1>1 DEF DriveOutputs, Swashes
    <3> QED
      BY <1>1, <2>2, <3>1, TailType DEF DriveOutputs, Outputs
  <2> QED
    BY <1>1, <2>2, <2>3 DEF DriveOutputs, TypeOK
<1>2. CASE Failsafe
  <2> DEFINE drop == CoastPerTick * Since(fsPrev, fsSeen)
  <2>1. drop \in Nat /\ slew \in 0 .. SlewFull /\ SlewFull \in Nat
    BY SinceType, LoopAssumption DEF TypeOK
  <2>2. slew' = IF slew - drop < 0 THEN 0 ELSE slew - drop
    BY <1>2 DEF Failsafe
  <2>3. slew' \in 0 .. SlewFull
    <3> HIDE DEF drop
    <3> QED
      BY <2>1, <2>2
  <2>4. Off \in Outputs
    <3>1. "level" \in Swashes
      BY DEF Swashes
    <3> QED
      BY <3>1, LoopAssumption DEF Off, Outputs
  <2> QED
    BY <1>2, <2>3, <2>4 DEF Failsafe, TypeOK
<1> QED
  BY <1>1, <1>2

LEMMA LedType ==
  ASSUME TypeOK
  PROVE  /\ ShowLed => red' \in BOOLEAN /\ dark' \in 0 .. MaxDark + 1
         /\ Tick => red' \in BOOLEAN /\ dark' \in 0 .. MaxDark + 1
<1>0. MaxDark \in Nat /\ red \in BOOLEAN /\ dark \in 0 .. MaxDark + 1
  BY LoopAssumption, BlinkAssumption DEF TypeOK, MaxDark
<1>1. ASSUME ShowLed PROVE red' \in BOOLEAN /\ dark' \in 0 .. MaxDark + 1
  <2>1. red' \in BOOLEAN
    BY <1>1, Zenon DEF ShowLed, RedLit
  <2>2. dark' = 0 \/ dark' = dark
    BY <1>1 DEF ShowLed
  <2> QED
    BY <1>0, <2>1, <2>2
<1>2. ASSUME Tick PROVE red' \in BOOLEAN /\ dark' \in 0 .. MaxDark + 1
  <2>1. red' = red
    BY <1>2 DEF Tick
  <2>2. dark' = IF ~red /\ dark <= MaxDark THEN dark + 1 ELSE dark
    BY <1>2 DEF Tick
  <2> QED
    BY <1>0, <2>1, <2>2
<1> QED
  BY <1>1, <1>2

LEMMA TypeStep ==
  ASSUME TypeOK, [Next]_vars
  PROVE  TypeOK'
<1>1. CASE Pass
  <2>1. 0 \in 0 .. Slack /\ grounded' \in 0 .. MaxGrounded
    BY <1>1, LoopAssumption DEF Pass, TypeOK, MaxGrounded
  <2>2. Poll /\ ImuPass /\ (DriveOutputs \/ Failsafe) /\ ShowLed
    BY <1>1 DEF Pass
  <2>3. red' \in BOOLEAN /\ dark' \in 0 .. MaxDark + 1
    BY <2>2, LedType
  <2> QED
    BY <1>1, <2>1, <2>2, <2>3, PollType, ImuType, OutputType DEF Pass, TypeOK
<1>2. CASE Tick
  <2>1. now' \in Time
    BY <1>2, AfterInTime, WrapAssumption DEF Tick, TypeOK
  <2>2. passAge' \in 0 .. Slack /\ grounded' \in 0 .. MaxGrounded
    BY <1>2, LoopAssumption DEF Tick, TypeOK, MaxGrounded
  <2>3. signal' = signal /\ silence' \in 0 .. radio!MaxSilence
    BY <1>2, LoopAssumption DEF Tick, TypeOK, radio!Age, radio!MaxSilence
  <2>4. red' \in BOOLEAN /\ dark' \in 0 .. MaxDark + 1
    BY <1>2, LedType
  <2> QED
    BY <1>2, <2>1, <2>2, <2>3, <2>4 DEF Tick, TypeOK, motorVars, imuVars
<1>3. CASE UNCHANGED vars
  BY <1>3 DEF vars, linkVars, motorVars, imuVars, TypeOK
<1> QED
  BY <1>1, <1>2, <1>3 DEF Next

LEMMA TypeInit ==
  ASSUME Init
  PROVE  TypeOK
<1>1. 0 \in Time /\ 0 \in 0 .. Slack /\ 0 \in 0 .. radio!MaxSilence /\ 0 \in 0 .. MaxGrounded
  BY WrapAssumption, LoopAssumption DEF Time, radio!MaxSilence, MaxGrounded
<1>2. 0 \in 0 .. SlewFull /\ 0 \in 0 .. TailFull /\ 0 \in 0 .. RampTicks
  BY LoopAssumption
<1>3. Off \in Outputs
  <2>1. "level" \in Swashes
    BY DEF Swashes
  <2> QED
    BY <1>2, <2>1 DEF Off, Outputs
<1>4. Neutral \in [on : BOOLEAN, tail : 0 .. TailFull]
  BY LoopAssumption DEF Neutral
<1>5. mpu \in BOOLEAN
  BY LoopAssumption DEF Init
<1>6. stick \in 0 .. 100 /\ imuStage \in 0 .. 2
  BY DEF Init
<1>7. signal \in {"none", "up", "lost"} /\ silence \in 0 .. radio!MaxSilence
  BY <1>1 DEF Init, radio!Init
<1>8. red \in BOOLEAN /\ dark \in 0 .. MaxDark + 1
  <2>1. red \in BOOLEAN
    BY Zenon DEF Init
  <2>2. dark = 0
    BY DEF Init
  <2>3. MaxDark \in Nat
    BY LoopAssumption, BlinkAssumption DEF MaxDark
  <2> QED
    BY <2>1, <2>2, <2>3
<1> QED
  BY <1>1, <1>2, <1>3, <1>4, <1>5, <1>6, <1>7, <1>8 DEF Init, TypeOK

(* The loop's state stays well-formed: above all, the slewed motor value   *)
(* stays between stop and full, through every mix of live passes, losses   *)
(* and coasting, although it is moved by rate times a measured time.       *)
THEOREM LoopTypeCorrect == Spec => []TypeOK
  BY TypeInit, TypeStep, PTL DEF Spec

-----------------------------------------------------------------------------
(* The motors stop.                                                        *)

(* Without a signal the outputs are off since the pass that noticed; with  *)
(* one, the contract of the receiver bounds the silence.                   *)
StopInv ==
  /\ signal # "up" => out = Off
  /\ signal = "up" => silence < Loss + Slack

LEMMA StopStep ==
  ASSUME TypeOK, StopInv, [Next]_vars
  PROVE  StopInv'
<1>1. CASE Pass
  <2>1. signal' # "up" => out' = Off
    BY <1>1 DEF Pass, DriveOutputs, Failsafe, HasSignal
  <2>2. signal' = "up" => silence' < Loss + Slack
    <3>1. CASE radio!Frame
      BY <3>1, LoopAssumption DEF radio!Frame
    <3>2. CASE ~radio!Frame
      BY <1>1, <3>2 DEF Pass, Poll, PollStickFrame, PollOtherFrame, PollLoss, PollNothing,
                        linkVars, radio!Loose, StopInv
    <3> QED
      BY <3>1, <3>2
  <2> QED
    BY <2>1, <2>2 DEF StopInv
<1>2. CASE Tick
  <2>1. silence \in Nat
    BY LoopAssumption DEF TypeOK, radio!MaxSilence
  <2> QED
    BY <1>2, <2>1, LoopAssumption DEF Tick, radio!Age, radio!MaxSilence, StopInv
<1>3. CASE UNCHANGED vars
  BY <1>3 DEF vars, linkVars, StopInv
<1> QED
  BY <1>1, <1>2, <1>3 DEF Next

(* Both motors are off and the swash is level once the link has been       *)
(* silent for the loss limit and one pass, and before the first frame.     *)
THEOREM SilenceAlwaysStops == Spec => []SilenceStopsMotors
<1>1. Init => StopInv
  BY LoopAssumption DEF Init, radio!Init, StopInv
<1>2. TypeOK /\ StopInv => SilenceStopsMotors
  <2> SUFFICES ASSUME TypeOK, StopInv, silence >= Loss + Slack \/ signal = "none"
               PROVE  out = Off
    BY DEF SilenceStopsMotors
  <2>1. silence \in Nat
    BY LoopAssumption DEF TypeOK, radio!MaxSilence
  <2> QED
    BY <2>1, LoopAssumption DEF StopInv
<1>3. TypeOK /\ StopInv /\ [Next]_vars => StopInv'
  BY StopStep
<1> QED
  BY <1>1, <1>2, <1>3, LoopTypeCorrect, PTL DEF Spec

-----------------------------------------------------------------------------
(* The motor rises at a bounded rate while it is live.                     *)

(* While armed, the slew limiter's timestamp is the one of the last pass.  *)
SlewInv == armed => slewSeen /\ Elapsed(slewPrev, now) = passAge

LEMMA SlewStep ==
  ASSUME TypeOK, SlewInv, [Next]_vars
  PROVE  SlewInv'
<1>1. CASE Pass
  <2>1. Elapsed(now, now) = 0
    BY ElapsedNow DEF TypeOK
  <2> QED
    BY <1>1, <2>1 DEF Pass, DriveOutputs, Failsafe, SlewInv
<1>2. CASE Tick
  <2>1. passAge \in Nat /\ passAge + 1 < Wrap /\ slewPrev \in Time /\ now \in Time
    BY <1>2, LoopAssumption, WrapAssumption DEF Tick, TypeOK
  <2>2. /\ passAge' = passAge + 1 /\ now' = After(now, 1)
        /\ armed' = armed /\ slewSeen' = slewSeen /\ slewPrev' = slewPrev
    BY <1>2 DEF Tick, motorVars
  <2> QED
    BY <2>1, <2>2, ElapsedTicks DEF SlewInv
<1>3. CASE UNCHANGED vars
  BY <1>3 DEF vars, motorVars, SlewInv
<1> QED
  BY <1>1, <1>2, <1>3 DEF Next

(* From one live pass to the next the main motor rises no faster than the  *)
(* slew rate allows for the time between them.                             *)
THEOREM LiveRiseStaysBounded == Spec => LiveRiseIsBounded
<1>1. Init => SlewInv
  BY DEF Init, SlewInv
<1>2. TypeOK /\ SlewInv /\ [Next]_vars => SlewInv'
  BY SlewStep
<1>3. TypeOK /\ SlewInv /\ [Next]_vars
        => [armed /\ armed' => slew' <= slew + RisePerTick * passAge]_vars
  <2> SUFFICES ASSUME TypeOK, SlewInv, Next, armed, armed'
               PROVE  slew' <= slew + RisePerTick * passAge
    OBVIOUS
  <2>1. slew \in 0 .. SlewFull /\ passAge \in Nat
    BY LoopAssumption DEF TypeOK
  <2>2. CASE Pass
    <3>1. DriveOutputs /\ Poll
      BY <2>2 DEF Pass, Failsafe
    <3>2. Since(slewPrev, slewSeen) = passAge
      BY DEF SlewInv, Since
    <3>3. Target(stick') \in 0 .. SlewFull
      BY <3>1, PollType, TargetType
    <3> QED
      BY <2>1, <3>1, <3>2, <3>3, SlewedType DEF DriveOutputs
  <2>3. CASE Tick
    <3>1. slew' = slew
      BY <2>3 DEF Tick, motorVars
    <3>2. RisePerTick * passAge \in Nat
      BY <2>1, LoopAssumption
    <3> QED
      BY <2>1, <3>1, <3>2, LoopAssumption
  <2> QED
    BY <2>2, <2>3 DEF Next
<1> QED
  BY <1>1, <1>2, <1>3, LoopTypeCorrect, PTL DEF Spec, LiveRiseIsBounded

-----------------------------------------------------------------------------
(* The IMU pipeline advances.                                              *)

(* How long ago the sensor was read, by the stage the pipeline is in.      *)
StageInv ==
  /\ imuStage = 0 => ImuAge <= 3 * ImuPeriod + 2 * Slack + passAge
  /\ imuStage = 1 => ImuAge <= passAge
  /\ imuStage = 2 => ImuAge <= Slack + passAge

LEMMA LoopNumbers ==
  ASSUME TypeOK
  PROVE  /\ ImuPeriod \in Nat /\ Slack \in Nat /\ 3 * ImuPeriod + 3 * Slack < Wrap
         /\ passAge \in Nat /\ passAge <= Slack
         /\ grounded \in Nat
         /\ now \in Time /\ lastImu \in Time /\ imuStage \in 0 .. 2
         /\ ImuAge \in Nat
<1>1. ImuAge \in Time
  BY ElapsedInTime DEF TypeOK, ImuAge
<1> QED
  BY <1>1, LoopAssumption, WrapAssumption DEF TypeOK, MaxGrounded, Time

LEMMA StageStep ==
  ASSUME TypeOK, mpu => StageInv, [Next]_vars
  PROVE  mpu' => StageInv'
<1> SUFFICES ASSUME mpu'
             PROVE  StageInv'
  OBVIOUS
<1>1. mpu /\ StageInv
  BY DEF Next, Pass, Tick, vars
<1>2. CASE Pass
  <2>1. passAge' = 0 /\ now' = now
    BY <1>2 DEF Pass
  <2>2. CASE ImuAwait
    <3>1. \/ imuStage' = 1 /\ lastImu' = now
          \/ /\ ~ImuDue(TRUE) \/ ~ImuDue(FALSE)
             /\ imuStage' = 0 /\ lastImu' = lastImu
      BY <2>2 DEF ImuAwait
    <3>2. CASE imuStage' = 1 /\ lastImu' = now
      <4>1. ImuAge' = 0
        BY <2>1, <3>2, ElapsedNow, LoopNumbers DEF ImuAge
      <4> QED
        BY <2>1, <3>2, <4>1 DEF StageInv
    <3>3. CASE imuStage' = 0 /\ lastImu' = lastImu /\ ~(ImuAge >= 3 * ImuPeriod)
      <4>1. ImuAge' = ImuAge
        BY <2>1, <3>3 DEF ImuAge
      <4> QED
        BY <2>1, <3>3, <4>1, LoopNumbers DEF StageInv
    <3>4. ~ImuDue(TRUE) \/ ~ImuDue(FALSE) => ~(ImuAge >= 3 * ImuPeriod)
      BY LoopNumbers DEF ImuDue
    <3> QED
      BY <3>1, <3>2, <3>3, <3>4
  <2>3. CASE ImuOrient
    <3>1. ImuAge' = ImuAge /\ imuStage = 1 /\ imuStage' = 2
      BY <2>1, <2>3 DEF ImuOrient, ImuAge
    <3> QED
      BY <1>1, <2>1, <3>1, LoopNumbers DEF StageInv
  <2>4. CASE StabEngage \/ StabReset
    <3>1. ImuAge' = ImuAge /\ imuStage = 2 /\ imuStage' = 0
      BY <2>1, <2>4 DEF StabEngage, StabReset, ImuAge
    <3> QED
      BY <1>1, <2>1, <3>1, LoopNumbers DEF StageInv
  <2> QED
    BY <1>1, <1>2, <2>2, <2>3, <2>4 DEF Pass, ImuPass
<1>3. CASE Tick
  <2>1. /\ passAge' = passAge + 1 /\ passAge < Slack /\ now' = After(now, 1)
        /\ imuStage' = imuStage /\ lastImu' = lastImu
    BY <1>3, LoopNumbers DEF Tick, imuVars
  <2>2. ImuAge + 1 < Wrap
    <3>1. ImuAge <= 3 * ImuPeriod + 2 * Slack + passAge
      <4>1. imuStage = 0 \/ imuStage = 1 \/ imuStage = 2
        BY LoopNumbers
      <4> QED
        BY <1>1, <4>1, LoopNumbers DEF StageInv
    <3> QED
      BY <2>1, <3>1, LoopNumbers, WrapAssumption
  <2>3. ImuAge' = ImuAge + 1
    BY <2>1, <2>2, LoopNumbers, ElapsedTicks DEF ImuAge
  <2> QED
    BY <1>1, <2>1, <2>3, LoopNumbers DEF StageInv
<1>4. CASE UNCHANGED vars
  BY <1>1, <1>4 DEF vars, imuVars, StageInv, ImuAge
<1> QED
  BY <1>2, <1>3, <1>4 DEF Next

LEMMA StageInit ==
  ASSUME Init
  PROVE  mpu => StageInv
<1>1. ImuAge = 0
  BY ElapsedNow DEF Init, ImuAge
<1> QED
  BY <1>1, LoopAssumption DEF Init, StageInv

(* The sensor is read at least every three periods and three passes,       *)
(* although reads avoid the radio's slots and share the loop with two      *)
(* other stages: and so dt, read off a wrapping clock, is the true one.    *)
THEOREM ImuAlwaysRead == Spec => []ImuIsRead
<1>1. TypeOK /\ (mpu => StageInv) => ImuIsRead
  BY LoopNumbers DEF StageInv, ImuIsRead
<1>2. TypeOK /\ (mpu => StageInv) /\ [Next]_vars => (mpu => StageInv)'
  BY StageStep
<1> QED
  BY <1>1, <1>2, StageInit, LoopTypeCorrect, PTL DEF Spec

-----------------------------------------------------------------------------
(* Time on the ground resets the controller.                               *)

Clean == gain = 0 /\ stab = Neutral

(* What is left of the last flight is reset when the pipeline next comes   *)
(* to its last stage; the sensor read that leads there was made before the *)
(* flight ended, or is still to come and bounded by its age.               *)
GroundInv ==
  \/ Clean
  \/ /\ mpu /\ imuStage = 0
     /\ grounded <= ImuAge /\ grounded <= 3 * ImuPeriod + passAge
  \/ mpu /\ imuStage = 1 /\ grounded <= 3 * ImuPeriod + Slack + passAge
  \/ mpu /\ imuStage = 2 /\ grounded <= 3 * ImuPeriod + 2 * Slack + passAge

LEMMA GroundStep ==
  ASSUME TypeOK, GroundInv, mpu => StageInv, [Next]_vars
  PROVE  GroundInv'
<1>1. CASE Pass
  <2>1. /\ passAge' = 0 /\ now' = now /\ mpu' = mpu
        /\ grounded' = 0 \/ grounded' = grounded
        /\ Flying' => grounded' = 0
    BY <1>1 DEF Pass
  <2>2. grounded' \in Nat /\ grounded' <= grounded
    BY <2>1, LoopNumbers
  <2>3. CASE mpu /\ ImuAwait
    <3>1. \/ imuStage' = 1
          \/ imuStage' = 0 /\ lastImu' = lastImu /\ ~(ImuAge >= 3 * ImuPeriod)
      BY <2>3, LoopNumbers DEF ImuAwait, ImuDue
    <3>2. imuStage = 0 /\ gain' = gain /\ stab' = stab
      BY <2>3 DEF ImuAwait
    <3>3. imuStage' = 0 /\ lastImu' = lastImu => ImuAge' = ImuAge
      BY <2>1 DEF ImuAge
    <3>4. CASE Clean
      BY <3>2, <3>4 DEF GroundInv, Clean
    <3>5. CASE ~Clean
      <4>1. grounded <= ImuAge /\ grounded <= 3 * ImuPeriod + passAge
        BY <3>2, <3>5 DEF GroundInv
      <4>2. CASE imuStage' = 1
        BY <2>1, <2>2, <2>3, <4>1, <4>2, LoopNumbers DEF GroundInv
      <4>3. CASE imuStage' = 0 /\ lastImu' = lastImu /\ ~(ImuAge >= 3 * ImuPeriod)
        BY <2>1, <2>2, <2>3, <3>3, <4>1, <4>3, LoopNumbers DEF GroundInv
      <4> QED
        BY <3>1, <4>2, <4>3
    <3> QED
      BY <3>4, <3>5
  <2>4. CASE mpu /\ ImuOrient
    <3>1. imuStage = 1 /\ imuStage' = 2 /\ gain' = gain /\ stab' = stab
      BY <2>4 DEF ImuOrient
    <3> QED
      BY <2>1, <2>2, <2>4, <3>1, LoopNumbers DEF GroundInv, Clean
  <2>5. CASE mpu /\ StabEngage
    <3>1. imuStage' = 0 /\ grounded' = 0 /\ lastImu' = lastImu
      BY <2>1, <2>5 DEF StabEngage
    <3>2. ImuAge' = ImuAge
      BY <2>1, <3>1 DEF ImuAge
    <3> QED
      BY <2>1, <2>5, <3>1, <3>2, LoopNumbers DEF GroundInv
  <2>6. CASE mpu /\ StabReset
    BY <2>6 DEF StabReset, GroundInv, Clean
  <2>7. CASE ~mpu
    BY <1>1, <2>7 DEF Pass, ImuPass, imuVars, GroundInv, Clean
  <2> QED
    BY <1>1, <2>3, <2>4, <2>5, <2>6, <2>7 DEF Pass, ImuPass
<1>2. CASE Tick
  <2>1. /\ passAge' = passAge + 1 /\ passAge < Slack /\ now' = After(now, 1)
        /\ imuStage' = imuStage /\ lastImu' = lastImu /\ mpu' = mpu
        /\ gain' = gain /\ stab' = stab
    BY <1>2, LoopNumbers DEF Tick, imuVars
  <2>2. grounded' \in Nat /\ grounded' <= grounded + 1
    BY <1>2, LoopNumbers DEF Tick
  <2>3. CASE Clean
    BY <2>1, <2>3 DEF GroundInv, Clean
  <2>4. CASE ~Clean /\ mpu /\ imuStage = 0
    <3>1. grounded <= ImuAge /\ grounded <= 3 * ImuPeriod + passAge
      BY <2>4 DEF GroundInv
    <3>2. ImuAge + 1 < Wrap
      BY <2>1, <2>4, LoopNumbers, WrapAssumption DEF StageInv
    <3>3. ImuAge' = ImuAge + 1
      BY <2>1, <3>2, LoopNumbers, ElapsedTicks DEF ImuAge
    <3> QED
      BY <2>1, <2>2, <2>4, <3>1, <3>3, LoopNumbers DEF GroundInv
  <2>5. CASE ~Clean /\ ~(mpu /\ imuStage = 0)
    BY <2>1, <2>2, <2>5, LoopNumbers DEF GroundInv
  <2> QED
    BY <2>3, <2>4, <2>5
<1>3. CASE UNCHANGED vars
  BY <1>3 DEF vars, imuVars, GroundInv, Clean, ImuAge
<1> QED
  BY <1>1, <1>2, <1>3 DEF Next

(* After enough time on the ground or without signal the controller and    *)
(* its ramp have been reset, whatever stage the pipeline was in when the   *)
(* flight ended: the next take-off starts from nothing.                    *)
THEOREM GroundAlwaysResets == Spec => []GroundResetsStab
<1>1. Init => GroundInv
  BY DEF Init, GroundInv, Clean
<1>2. TypeOK /\ GroundInv => GroundResetsStab
  BY LoopNumbers DEF GroundInv, GroundResetsStab, Clean, MaxGrounded
<1>3. TypeOK /\ (mpu => StageInv) /\ [Next]_vars => (mpu => StageInv)'
  BY StageStep
<1>4. TypeOK /\ GroundInv /\ (mpu => StageInv) /\ [Next]_vars => GroundInv'
  BY GroundStep
<1> QED
  BY <1>1, <1>2, <1>3, <1>4, StageInit, LoopTypeCorrect, PTL DEF Spec

-----------------------------------------------------------------------------
(* The red LED.                                                            *)

LEMMA DivisionIsUnique ==
  ASSUME NEW b \in Nat \ {0}, NEW q \in Nat, NEW r \in 0 .. b - 1
  PROVE  (b * q + r) \div b = q /\ (b * q + r) % b = r
OBVIOUS

(* The window of the blink, and the place in it, one unit later.           *)
LEMMA WindowTicks ==
  ASSUME NEW n \in Nat, NEW b \in Nat \ {0}
  PROVE  \/ /\ (n % b) + 1 < b
            /\ (n + 1) \div b = n \div b /\ (n + 1) % b = (n % b) + 1
         \/ /\ (n % b) + 1 = b
            /\ (n + 1) \div b = n \div b + 1 /\ (n + 1) % b = 0
<1> DEFINE q == n \div b
           r == n % b
<1>1. q \in Nat /\ r \in 0 .. b - 1 /\ n = b * q + r
  OBVIOUS
<1>2. n \div b = q /\ n % b = r
  OBVIOUS
<1> HIDE DEF q, r
<1>3. CASE r + 1 < b
  <2>1. n + 1 = b * q + (r + 1) /\ r + 1 \in 0 .. b - 1
    BY <1>1, <1>3
  <2>2. (b * q + (r + 1)) \div b = q /\ (b * q + (r + 1)) % b = r + 1
    BY <1>1, <2>1, DivisionIsUnique
  <2>3. (n + 1) \div b = q /\ (n + 1) % b = r + 1
    BY <2>1, <2>2
  <2> QED
    BY <1>2, <1>3, <2>3
<1>4. CASE r + 1 = b
  <2>1. b * (q + 1) = b * q + b
    BY <1>1
  <2>2. n + 1 = b * (q + 1) + 0 /\ 0 \in 0 .. b - 1 /\ q + 1 \in Nat
    BY <1>1, <1>4, <2>1
  <2>3. (b * (q + 1) + 0) \div b = q + 1 /\ (b * (q + 1) + 0) % b = 0
    BY <2>2, DivisionIsUnique
  <2>4. (n + 1) \div b = q + 1 /\ (n + 1) % b = 0
    BY <2>2, <2>3
  <2> QED
    BY <1>2, <1>4, <2>4
<1> QED
  BY <1>1, <1>3, <1>4

(* A dead IMU: the LED has been dark since the last pass at the earliest,  *)
(* or in the dark window at hand, or in the one before and no pass has     *)
(* come yet.                                                               *)
Window == now \div BlinkTicks
InWindow == now % BlinkTicks

LedInv ==
  /\ red => dark = 0
  /\ ~armed => red \/ dark <= passAge
  /\ ~mpu => \/ dark <= passAge
             \/ Window % 2 = 0 /\ dark <= InWindow + Slack
             \/ /\ Window % 2 = 1 /\ InWindow < passAge
                /\ dark <= BlinkTicks + InWindow + Slack

LEMMA ClockWindow ==
  ASSUME now \in Time, now' = After(now, 1)
  PROVE  \/ InWindow + 1 < BlinkTicks /\ Window' = Window /\ InWindow' = InWindow + 1
         \/ InWindow + 1 = BlinkTicks /\ Window' = Window + 1 /\ InWindow' = 0
         \/ /\ Window % 2 = 1 /\ Slack <= InWindow + 1
            /\ Window' = 0 /\ InWindow' = 0
<1>1. now \in Nat /\ BlinkTicks \in Nat \ {0} /\ Wrap \in Nat
  BY BlinkAssumption, WrapAssumption DEF Time
<1>2. CASE now + 1 < Wrap
  <2>1. now' = now + 1
    BY <1>2, AfterInTime, WrapAssumption DEF Time
  <2>2. \/ /\ (now % BlinkTicks) + 1 < BlinkTicks
           /\ (now + 1) \div BlinkTicks = now \div BlinkTicks
           /\ (now + 1) % BlinkTicks = (now % BlinkTicks) + 1
        \/ /\ (now % BlinkTicks) + 1 = BlinkTicks
           /\ (now + 1) \div BlinkTicks = now \div BlinkTicks + 1
           /\ (now + 1) % BlinkTicks = 0
    BY <1>1, WindowTicks
  <2>3. Window' = (now + 1) \div BlinkTicks /\ InWindow' = (now + 1) % BlinkTicks
    BY <2>1 DEF Window, InWindow
  <2> QED
    BY <2>2, <2>3 DEF Window, InWindow
<1>3. CASE now + 1 = Wrap
  <2>1. now' = 0 /\ now = Wrap - 1
    BY <1>1, <1>3, AfterInTime, WrapAssumption DEF Time
  <2>2. 0 \div BlinkTicks = 0 /\ 0 % BlinkTicks = 0
    BY <1>1
  <2> QED
    BY <2>1, <2>2, BlinkAssumption DEF Window, InWindow
<1> QED
  BY <1>1, <1>2, <1>3, WrapAssumption DEF Time

LEMMA LedStep ==
  ASSUME TypeOK, LedInv, [Next]_vars
  PROVE  LedInv'
<1> DEFINE w == Window
           i == InWindow
<1>1. /\ w \in Nat /\ i \in 0 .. BlinkTicks - 1 /\ dark \in Nat /\ passAge \in 0 .. Slack
      /\ Slack \in Nat /\ BlinkTicks \in Nat \ {0} /\ Slack <= BlinkTicks
  <2>1. MaxDark \in Nat
    BY LoopAssumption, BlinkAssumption DEF MaxDark
  <2> QED
    BY <2>1, BlinkAssumption, LoopAssumption, WrapAssumption DEF TypeOK, Time, Window, InWindow
<1>2. CASE Pass
  <2>1. now' = now /\ mpu' = mpu /\ passAge' = 0 /\ ShowLed
    BY <1>2 DEF Pass
  <2>2. Window' = w /\ InWindow' = i
    BY <2>1 DEF Window, InWindow
  <2>3. PICK connected \in BOOLEAN : red' = RedLit(connected)
    BY <2>1 DEF ShowLed
  <2>4. dark' = IF red' THEN 0 ELSE dark
    BY <2>1 DEF ShowLed
  <2>5. ~armed' => red'
    BY <2>3 DEF RedLit
  <2>6. ~mpu /\ w % 2 = 1 => red'
    BY <2>3 DEF RedLit, Window
  <2> HIDE DEF w, i
  <2>7. ~mpu => dark' <= 0 \/ (w % 2 = 0 /\ dark' <= i + Slack)
    BY <1>1, <2>4, <2>6 DEF LedInv, w, i
  <2> QED
    BY <2>1, <2>2, <2>4, <2>5, <2>7 DEF LedInv
<1>3. CASE Tick
  <2>1. /\ now' = After(now, 1) /\ mpu' = mpu /\ armed' = armed /\ red' = red
        /\ passAge < Slack /\ passAge' = passAge + 1
    BY <1>3 DEF Tick, motorVars
  <2>2. dark' = IF ~red /\ dark <= MaxDark THEN dark + 1 ELSE dark
    BY <1>3 DEF Tick
  <2>3. dark' \in Nat /\ dark' <= dark + 1 /\ (red => dark' = dark)
    BY <1>1, <2>2
  <2>4. \/ i + 1 < BlinkTicks /\ Window' = w /\ InWindow' = i + 1
        \/ i + 1 = BlinkTicks /\ Window' = w + 1 /\ InWindow' = 0
        \/ w % 2 = 1 /\ Slack <= i + 1 /\ Window' = 0 /\ InWindow' = 0
    BY <2>1, ClockWindow DEF TypeOK
  <2> HIDE DEF w, i
  <2>5. /\ red => dark = 0
        /\ ~armed => red \/ dark <= passAge
        /\ ~mpu => \/ dark <= passAge
                   \/ w % 2 = 0 /\ dark <= i + Slack
                   \/ w % 2 = 1 /\ i < passAge /\ dark <= BlinkTicks + i + Slack
    BY DEF LedInv, w, i
  <2>6. (red' => dark' = 0) /\ (~armed' => red' \/ dark' <= passAge')
    BY <1>1, <2>1, <2>3, <2>5
  <2>7. ~mpu' => \/ dark' <= passAge'
                 \/ Window' % 2 = 0 /\ dark' <= InWindow' + Slack
                 \/ /\ Window' % 2 = 1 /\ InWindow' < passAge'
                    /\ dark' <= BlinkTicks + InWindow' + Slack
    <3> SUFFICES ASSUME ~mpu'
                 PROVE  \/ dark' <= passAge'
                        \/ Window' % 2 = 0 /\ dark' <= InWindow' + Slack
                        \/ /\ Window' % 2 = 1 /\ InWindow' < passAge'
                           /\ dark' <= BlinkTicks + InWindow' + Slack
      OBVIOUS
    <3>1. CASE dark <= passAge
      BY <1>1, <2>1, <2>3, <3>1
    <3>2. CASE w % 2 = 0 /\ dark <= i + Slack
      BY <1>1, <2>1, <2>3, <2>4, <3>2
    <3>3. CASE w % 2 = 1 /\ i < passAge /\ dark <= BlinkTicks + i + Slack
      BY <1>1, <2>1, <2>3, <2>4, <3>3
    <3> QED
      BY <2>1, <2>5, <3>1, <3>2, <3>3
  <2> QED
    BY <2>6, <2>7 DEF LedInv
<1>4. CASE UNCHANGED vars
  BY <1>4 DEF vars, motorVars, LedInv, Window, InWindow
<1> QED
  BY <1>2, <1>3, <1>4 DEF Next

(* A red LED that stays dark shows a live IMU and armed motors.            *)
THEOREM DarkAlwaysMeansFit == Spec => []DarkMeansFit
<1>1. Init => LedInv
  BY LoopAssumption, BlinkAssumption DEF Init, LedInv
<1>2. TypeOK /\ LedInv /\ [Next]_vars => LedInv'
  BY LedStep
<1>3. TypeOK /\ LedInv => DarkMeansFit
  <2> SUFFICES ASSUME TypeOK, LedInv, dark > MaxDark
               PROVE  mpu /\ armed
    BY DEF DarkMeansFit
  <2>1. /\ InWindow \in 0 .. BlinkTicks - 1 /\ dark \in Nat /\ passAge \in 0 .. Slack
        /\ Slack \in Nat \ {0} /\ BlinkTicks \in Nat \ {0}
    BY LoopAssumption, BlinkAssumption, WrapAssumption DEF TypeOK, Time, InWindow, MaxDark
  <2>2. dark > BlinkTicks + 2 * Slack - 1
    BY DEF MaxDark
  <2>3. ~red /\ dark > passAge
    BY <2>1, <2>2 DEF LedInv
  <2> QED
    BY <2>1, <2>2, <2>3 DEF LedInv
<1> QED
  BY <1>1, <1>2, <1>3, LoopTypeCorrect, PTL DEF Spec
=============================================================================
