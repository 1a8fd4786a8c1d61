---------------------------- MODULE HopSequence ----------------------------
(***************************************************************************)
(* The hop rule of the S-FHSS receiver: an index over ChNum channels       *)
(* (SFHSS_CHNUM = 30) moves by hopcode + 2 modulo ChNum + 1, and the one   *)
(* residue that is not a channel is stepped over.                          *)
(***************************************************************************)
EXTENDS Integers

CONSTANT ChNum

ASSUME ChNumAssumption == ChNum \in 2 .. 64

Channels == 0 .. ChNum - 1

(* A uint8_t assignment keeps the low eight bits.                          *)
U8(n) == n % 256

(* Mutant: the residue ChNum is not stepped over.                          *)
NextChannelNoSkip(ch, hopcode) ==
  LET c == U8(ch + hopcode + 2) IN
  IF c > ChNum THEN U8(c - (ChNum + 1)) ELSE c

(* Mutant: a plain modulus by the number of channels.                      *)
NextChannelModChNum(ch, hopcode) == (ch + hopcode + 2) % ChNum

NextChannel(ch, hopcode) ==
  LET c == U8(ch + hopcode + 2)
      d == IF c < ChNum + 1 THEN U8(c + hopcode + 2) ELSE c
  IN IF c > ChNum - 1 THEN U8(d - (ChNum + 1)) ELSE c

(* The channels met in ChNum - 1 hops, the first one included.             *)
Ahead(from, hopcode) ==
  LET walk[k \in 0 .. ChNum - 1] ==
        IF k = 0 THEN from ELSE NextChannel(walk[k - 1], hopcode)
  IN {walk[k] : k \in 0 .. ChNum - 1}
=============================================================================
