----------------------------- MODULE GroundTrim -----------------------------
(***************************************************************************)
(* The gyro's zero: the calibration at boot (mpu6500.c) and the ground     *)
(* auto-trim of Orientation_Update (orientation.c).  The main loop calls   *)
(* Orientation_Update once per IMU tick, on the ground when the throttle   *)
(* is idle and the signal is up.                                           *)
(*                                                                         *)
(* The airframe is part of the model: a sample is the rotation it really   *)
(* performs plus the offset that the sensor and its calibration leave.     *)
(* A calibration that ran while the machine was moved leaves the motion as *)
(* offset, and the offset walks with time.  Means are kept as sums over a  *)
(* window, so trim and rate are Window times those of the code.  The       *)
(* complementary filter of the angles and the accelerometer's counters     *)
(* are left out: the trim does not read them.                              *)
(***************************************************************************)
EXTENDS Integers

CONSTANTS
  Axes,     \* x, y and z of the gyro
  Window,   \* samples of a window, 100 in the code
  Spread,   \* spread from which the airframe counts as moving, 2 dps
  Limit,    \* mean from which a reading is no bias, 10 dps
  Motions,  \* true rotations of the airframe, in flight and on the ground
  Offsets   \* what the calibration may leave: sensor bias and captured motion

ASSUME TrimAssumption ==
  /\ Window \in Nat \ {0} /\ Spread \in Nat \ {0} /\ Limit \in Nat \ {0}
  /\ Motions \subseteq Int /\ Offsets \subseteq Int

VARIABLES
  n, lo, hi, sum,   \* s_gt_n, s_gt_min, s_gt_max, s_gt_sum
  trim,             \* g_gyro_trim_dps
  rate,             \* the rates of g_orientation, which every loop reads
  offset,           \* what a motionless gyro reads on each axis
  aloft,            \* updates since the last one in the air (or boot)
  rested, jolted,   \* per axis, updates since the airframe was motionless
                    \* and since it turned by Spread or more
  stillRun          \* updates in a row on the ground, motionless on all axes

window == <<n, lo, hi, sum>>
past == <<aloft, rested, jolted, stillRun>>
vars == <<window, trim, rate, offset, past>>

Zero == [a \in Axes |-> 0]

Never == [a \in Axes |-> Window]

(* Histories count up to a limit.                                          *)
Later(age, limit) == IF age < limit THEN age + 1 ELSE limit

(* Power-up or a watchdog reset: MPU6500_CalibrateGyro has run, wherever   *)
(* the machine was, and the statics are clear.                             *)
Init ==
  /\ offset \in [Axes -> Offsets]
  /\ n = 0 /\ lo = Zero /\ hi = Zero /\ sum = Zero
  /\ trim = Zero /\ rate = Zero
  /\ aloft = 0 /\ rested = Never /\ jolted = Never /\ stillRun = 0

Reboot ==
  /\ offset' \in [Axes -> Offsets]
  /\ n' = 0 /\ lo' = Zero /\ hi' = Zero /\ sum' = Zero
  /\ trim' = Zero /\ rate' = Zero
  /\ aloft' = 0 /\ rested' = Never /\ jolted' = Never /\ stillRun' = 0

-----------------------------------------------------------------------------
(* Mutant: extremes are not taken afresh when a window opens.              *)
LowestEver(g) == [a \in Axes |-> IF g[a] < lo[a] THEN g[a] ELSE lo[a]]

Lowest(g) == [a \in Axes |-> IF n = 0 \/ g[a] < lo[a] THEN g[a] ELSE lo[a]]

Highest(g) == [a \in Axes |-> IF n = 0 \/ g[a] > hi[a] THEN g[a] ELSE hi[a]]

Total(g) == [a \in Axes |-> IF n = 0 THEN g[a] ELSE sum[a] + g[a]]

(* Mutant: stillness judged by magnitude.                                  *)
StillBySize(low, high, total) ==
  \A a \in Axes : -Limit * Window < total[a] /\ total[a] < Limit * Window

(* Mutant: any mean counts as bias.                                        *)
StillBySpread(low, high, total) == \A a \in Axes : high[a] - low[a] < Spread

(* All axes must be still, by spread, with a mean that can be a bias.      *)
Still(low, high, total) ==
  \A a \in Axes : /\ high[a] - low[a] < Spread
                  /\ -Limit * Window < total[a] /\ total[a] < Limit * Window

(* A sample on the ground: the window takes it, and closes when full.      *)
Gather(g) ==
  /\ lo' = Lowest(g) /\ hi' = Highest(g) /\ sum' = Total(g)
  /\ IF n + 1 < Window
     THEN n' = n + 1 /\ UNCHANGED trim
     ELSE n' = 0 /\ trim' = IF Still(lo', hi', sum') THEN sum' ELSE trim

(* Mutant: the window goes on over a flight.                               *)
FreezeKeepsWindow == UNCHANGED <<window, trim>>

(* A sample in the air: the trim is frozen, the window will start over.    *)
Freeze == n' = 0 /\ UNCHANGED <<lo, hi, sum, trim>>

(* The history of the true motion, which no code sees.                     *)
Remember(motion, ground) ==
  /\ aloft' = IF ground THEN Later(aloft, Window) ELSE 0
  /\ rested' = [a \in Axes |-> IF motion[a] = 0 THEN 0 ELSE Later(rested[a], Window)]
  /\ jolted' = [a \in Axes |->
       IF motion[a] >= Spread \/ motion[a] <= -Spread THEN 0 ELSE Later(jolted[a], Window)]
  /\ stillRun' = IF ground /\ motion = Zero THEN Later(stillRun, 2 * Window) ELSE 0

Orientation_Update ==
  \E motion \in [Axes -> Motions], ground \in BOOLEAN :
    LET g == [a \in Axes |-> motion[a] + offset[a]] IN
    /\ rate' = [a \in Axes |-> Window * g[a] - trim[a]]
    /\ IF ground THEN Gather(g) ELSE Freeze
    /\ Remember(motion, ground)
    /\ UNCHANGED offset

(* The sensor's bias walks: what was seen of the old one says nothing.     *)
Drift ==
  /\ offset' \in [Axes -> Offsets]
  /\ rested' = Never /\ jolted' = Never /\ stillRun' = 0
  /\ UNCHANGED <<window, trim, rate, aloft>>

Next == Orientation_Update \/ Drift \/ Reboot

Spec == Init /\ [][Next]_vars

-----------------------------------------------------------------------------
TypeOK ==
  /\ n \in 0 .. Window - 1
  /\ lo \in [Axes -> Int] /\ hi \in [Axes -> Int] /\ sum \in [Axes -> Int]
  /\ trim \in [Axes -> -(Limit * Window) + 1 .. Limit * Window - 1]
  /\ rate \in [Axes -> Int]
  /\ offset \in [Axes -> Offsets]
  /\ aloft \in 0 .. Window
  /\ rested \in [Axes -> 0 .. Window] /\ jolted \in [Axes -> 0 .. Window]
  /\ stillRun \in 0 .. 2 * Window

InLimit == \A a \in Axes : -Limit < offset[a] /\ offset[a] < Limit

(* "Re-zeroing whenever we KNOW the machine is stationary fixes exactly    *)
(* that": two windows motionless on the ground, and every axis reads zero, *)
(* whatever the boot calibration captured, whatever the windows before     *)
(* took for bias and at whatever point of a window the rest began.         *)
RestReadsZero ==
  stillRun = 2 * Window /\ InLimit => \A a \in Axes : rate[a] = 0

(* Motion and flight do not become bias: a trim is taken only when all of  *)
(* the last Window updates were on the ground, and never if some axis was  *)
(* both at rest and turning by Spread or more among them.                  *)
TrimNeedsStillGround ==
  [][trim' # trim /\ ~Reboot =>
       /\ aloft' = Window
       /\ \A a \in Axes : rested'[a] = Window \/ jolted'[a] = Window]_vars

(* A trim taken from a window in which the axis was once at rest is off by *)
(* less than Spread, however the airframe was handled around that moment.  *)
TrimErrorIsSmall ==
  [][\A a \in Axes : trim'[a] # trim[a] /\ rested'[a] < Window =>
       /\ trim'[a] < Window * (offset[a] + Spread)
       /\ trim'[a] > Window * (offset[a] - Spread)]_vars
=============================================================================
