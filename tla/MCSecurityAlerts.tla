-------------------------- MODULE MCSecurityAlerts --------------------------
(* Instances of SecurityAlerts: thresholds, windows and the length of a day  *)
(* are scaled down so that windows overlap, slide and expire within MaxTime. *)
EXTENDS SecurityAlerts, TLC

CONSTANT AlertThreshold, AlertWindow, DayLength

MCThreshold == [r \in Rules |-> AlertThreshold]
MCWindow == [r \in Rules |-> AlertWindow]
MCDayStart == [n \in 0..MaxTime |-> n - (n % DayLength)]

Symmetry == Permutations(Threads)
=============================================================================
