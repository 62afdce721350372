------------------------------- MODULE MCHold -------------------------------
(* Instances of Hold for TLC. *)
EXTENDS Hold, TLC

(* Targets are only compared with each other. *)
Targets == Permutations(Target)
=============================================================================
