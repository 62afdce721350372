--------------------------- MODULE RestartBudget ---------------------------
(* What one-shot connection recovery promises the user, whatever crashes,     *)
(* failed writes and races happen below it: LCDSirPlus replaces itself at     *)
(* most once, closes Logitech Gaming Software at most once, and never touches *)
(* Logitech before it has tried to restart itself.                            *)
EXTENDS Naturals

VARIABLES
    spawns,     \* replacements of LCDSirPlus that were started
    kills       \* times Logitech Gaming Software was closed

vars == <<spawns, kills>>

Init == spawns = 0 /\ kills = 0

StartReplacement == spawns = 0 /\ spawns' = 1 /\ UNCHANGED kills

CloseLogitech == spawns = 1 /\ kills = 0 /\ kills' = 1 /\ UNCHANGED spawns

Next == StartReplacement \/ CloseLogitech

Spec == Init /\ [][Next]_vars
=============================================================================
