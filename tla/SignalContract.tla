--------------------------- MODULE SignalContract ---------------------------
(***************************************************************************)
(* What the main loop may rely on when it asks SFHSS_HasSignal: a signal   *)
(* comes up with an accepted frame and with nothing else, it is down again *)
(* no later than Loss + Slack after the last accepted frame, and it is     *)
(* never taken down earlier than Loss.                                     *)
(***************************************************************************)
EXTENDS Naturals

CONSTANTS Loss, Slack

VARIABLES
  signal,    \* "none": no frame ever; "up"; "lost": silent for too long
  silence    \* time since the last accepted frame, saturating

contractVars == <<signal, silence>>

MaxSilence == Loss + Slack

Init == signal = "none" /\ silence = 0

Frame == signal' = "up" /\ silence' = 0

Loose == signal = "up" /\ silence >= Loss /\ signal' = "lost" /\ UNCHANGED silence

(* An "up" signal must be taken down before it is Loss + Slack old.        *)
Age ==
  /\ signal = "up" => silence + 1 < MaxSilence
  /\ silence' = IF silence < MaxSilence THEN silence + 1 ELSE silence
  /\ UNCHANGED signal

Next == Frame \/ Loose \/ Age

Spec == Init /\ [][Next]_contractVars
=============================================================================
