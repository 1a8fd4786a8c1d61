-------------------------- MODULE MCAttitudeHold ---------------------------
(***************************************************************************)
(* An instance of AttitudeHold for TLC: attitudes beyond the ceiling on    *)
(* both sides, sticks of both signs and two speeds, and a leash shorter    *)
(* than the ceiling, as in stabilize.h (25 and 35 degrees).                *)
(***************************************************************************)
EXTENDS AttitudeHold

MCAngles == {-6, -1, 0, 2, 5}
MCSlews == {-3, -1, 0, 2}
MCRates == {0}
=============================================================================
