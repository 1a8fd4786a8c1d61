------------------------------- MODULE HopWalk -------------------------------
(***************************************************************************)
(* The receiver hopping along the sequence of one transmitter, from the    *)
(* channel it camps on (index 0).  The hop code is the five bits that      *)
(* parse_packet() takes from a frame and is constant for a transmitter.    *)
(***************************************************************************)
EXTENDS HopSequence

CONSTANT HopCodes

VARIABLES ch, hopcode, heard
vars == <<ch, hopcode, heard>>

Init ==
  /\ ch = 0
  /\ hopcode \in HopCodes
  /\ heard = {0}

Hop ==
  /\ ch' = NextChannel(ch, hopcode)
  /\ heard' = heard \cup {NextChannel(ch, hopcode)}
  /\ UNCHANGED hopcode

Next == Hop

Spec == Init /\ [][Next]_vars

-----------------------------------------------------------------------------
(* The index never leaves the table of per-channel calibration values      *)
(* (caldata[SFHSS_CHNUM], "hop index 0..29" in sfhss.h), whatever the hop  *)
(* code and the length of the walk.                                        *)
HopIndexInRange == ch \in Channels
=============================================================================
