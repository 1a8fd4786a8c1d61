--------------------------- MODULE MCGroundTrim ----------------------------
(***************************************************************************)
(* An instance of GroundTrim for TLC: motions below and above the spread   *)
(* in both directions, and offsets below and above the limit.              *)
(***************************************************************************)
EXTENDS GroundTrim, TLC

MCMotions == {-1, 0, 2}
MCOffsets == {1, -3}

(* The extremes and the sum of a window that has not begun are never read. *)
MCView == <<n, IF n = 0 THEN <<>> ELSE <<lo, hi, sum>>, trim, rate, offset, past>>

MCSymmetry == Permutations(Axes)
=============================================================================
