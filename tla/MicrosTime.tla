----------------------------- MODULE MicrosTime -----------------------------
(***************************************************************************)
(* Arithmetic on micros(): a clock that counts up and restarts from 0      *)
(* every Wrap units (TIME_WRAP in sfhss.c, 1 000 000 us in main.c).  Every *)
(* timestamp the firmware keeps is a reading of that clock.                *)
(***************************************************************************)
EXTENDS Integers

CONSTANT Wrap

ASSUME WrapAssumption == Wrap \in Nat /\ Wrap > 1

Time == 0 .. Wrap - 1

(* Unsigned age of a timestamp in the past: elapsed() and elapsed_us().    *)
Elapsed(since, now) ==
  LET d == now - since IN IF d < 0 THEN d + Wrap ELSE d

(* Mutant: since_signed() as it was before its second fold was added.      *)
SinceSignedOneFold(t, now) ==
  LET d == now - t IN IF d < -(Wrap \div 2) THEN d + Wrap ELSE d

(* Signed distance from t to now; t may lie in the near future.            *)
SinceSigned(t, now) ==
  LET d == now - t IN
  IF d < -(Wrap \div 2) THEN d + Wrap
  ELSE IF d > Wrap \div 2 THEN d - Wrap
  ELSE d

(* (t + us) % TIME_WRAP and (t + TIME_WRAP - us) % TIME_WRAP.              *)
After(t, us) == (t + us) % Wrap

Before(t, us) == (t + Wrap - us) % Wrap
=============================================================================
