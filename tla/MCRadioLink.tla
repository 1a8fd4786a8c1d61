---------------------------- MODULE MCRadioLink ----------------------------
(***************************************************************************)
(* Instances of RadioLink for TLC.  One unit of time stands for about      *)
(* 1.4 ms: a slot is 5 units (6.8 ms), DATA2 trails by 1 (1.6 ms), the     *)
(* window is 1 (2.1 ms).  Fallback, loss limit and wrap are scaled down    *)
(* together and keep their order: the rebind (64 slots and a window,       *)
(* 437 ms) comes before the loss limit (500 ms), and a poll falls between  *)
(* the loss limit and the wrap.                                            *)
(***************************************************************************)
EXTENDS RadioLink

CONSTANTS pilot, other

MCTransmitters == {pilot, other}

MCHopCodeOf == [a \in MCTransmitters |-> IF a = pilot THEN 1 ELSE 0]

(* An intact packet of another transmitter, and a damaged one.             *)
MCStrays == {[intact |-> TRUE, addr |-> other, num |-> 1, kind |-> "ch14"],
             [intact |-> FALSE, addr |-> other, num |-> 1, kind |-> "ch14"]}

NoStrays == {}
=============================================================================
