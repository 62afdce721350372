----------------------------- MODULE NetworkProbe -----------------------------
(* The worker that measures the network (providers/network.rs): latency and   *)
(* loss over the last trials. A trial takes seconds, in which the settings    *)
(* may be replaced; they and their generation change together (module         *)
(* Publication), so that the comparison of the settings of one generation     *)
(* finds no difference and is left out.                                       *)
EXTENDS Naturals, Sequences

CONSTANTS
    Window,         \* settings: the length of the window, zero when disabled
    MaxGeneration   \* bound: generations

VARIABLES
    generation, policy, \* the settings in force
    shutdown,
    at,         \* where the worker is
    current,    \* current_generation
    trials,     \* State::trials, each with the generation it was begun under
    readings,   \* State::update: ping, jitter and loss
    available,
    off,        \* disabled_published
    sent        \* the generation of the last update (history)

settings == <<generation, policy, shutdown>>
state == <<trials, readings, available>>
vars == <<settings, at, current, state, off, sent>>

Active == policy > 0
Clear == [ping |-> "none", jitter |-> "none", loss |-> "none"]

Init ==
    /\ generation = 1 /\ policy \in Window /\ shutdown = FALSE
    /\ at = "loop" /\ current = 0
    /\ trials = <<>> /\ readings = Clear /\ available = FALSE
    /\ off = FALSE /\ sent = 0

ClearState == trials' = <<>> /\ readings' = Clear /\ available' = FALSE

----------------------------------------------------------------------------
(* worker. The settings and their generation are read at the top of the loop. *)

(* What was measured before does not count, and this is sent at once. The     *)
(* settings that are read with a new generation are followed in that turn.    *)
Turn(clear) ==
    \/ /\ ~Active /\ at' = "loop" /\ off' = TRUE
       /\ IF off /\ ~clear THEN UNCHANGED <<state, sent>> ELSE ClearState /\ sent' = generation
    \/ /\ Active /\ at' = "probe" /\ off' = FALSE
       /\ IF clear THEN ClearState /\ sent' = generation ELSE UNCHANGED <<state, sent>>

NewGeneration ==
    /\ at = "loop" /\ ~shutdown /\ generation # current
    /\ current' = generation
    /\ Turn(TRUE)
    /\ UNCHANGED settings

(* The interval is over, or the settings disable the measurement. *)
SameGeneration ==
    /\ at = "loop" /\ ~shutdown /\ generation = current
    /\ Turn(FALSE)
    /\ UNCHANGED <<settings, current>>

(* The settings have been replaced during the trial: its outcome is dropped. *)
Recheck ==
    /\ at = "probe" /\ ~shutdown /\ generation # current
    /\ current' = generation
    /\ ClearState /\ sent' = generation
    /\ at' = "loop"
    /\ UNCHANGED <<settings, off>>

Fresh(b) == IF b THEN "current" ELSE "none"
Stale(r) == IF r = "none" THEN "none" ELSE "stale"

(* State::apply: a success or a loss is a trial; the oldest ones leave. *)
Apply(ok) ==
    LET all == Append(trials, [ok |-> ok, under |-> current])
        kept == IF Len(all) > policy THEN Tail(all) ELSE all
    IN  /\ trials' = kept
        /\ readings' = [ping |-> Fresh(ok), loss |-> "current",
                        jitter |-> Fresh(Len(SelectSeq(kept, LAMBDA t : t.ok)) > 1)]
        /\ available' = TRUE

(* The target could not be tried. *)
ApplyError ==
    /\ readings' = [r \in DOMAIN readings |-> Stale(readings[r])]
    /\ available' = FALSE
    /\ UNCHANGED trials

(* A trial, or none when the target cannot be reached at all. *)
Probe ==
    /\ at = "probe" /\ ~shutdown /\ generation = current
    /\ (\E ok \in BOOLEAN : Apply(ok)) \/ ApplyError
    /\ at' = "loop" /\ sent' = current
    /\ UNCHANGED <<settings, current, off>>

Ended ==
    /\ at # "ended" /\ shutdown /\ at' = "ended"
    /\ UNCHANGED <<settings, current, state, off, sent>>

UpdateConfig ==
    /\ generation < MaxGeneration /\ generation' = generation + 1
    /\ policy' \in Window
    /\ UNCHANGED <<shutdown, at, current, state, off, sent>>

Shutdown ==
    /\ ~shutdown /\ shutdown' = TRUE
    /\ UNCHANGED <<generation, policy, at, current, state, off, sent>>

Next ==
    \/ NewGeneration \/ SameGeneration \/ Recheck \/ Probe \/ Ended
    \/ UpdateConfig \/ Shutdown

Spec == Init /\ [][Next]_vars

----------------------------------------------------------------------------
TypeOK ==
    /\ generation \in 1..MaxGeneration /\ policy \in Window
    /\ {shutdown, available, off} \subseteq BOOLEAN
    /\ at \in {"loop", "probe", "ended"}
    /\ {current, sent} \subseteq 0..generation
    /\ trials \in Seq([ok : BOOLEAN, under : 1..generation])
    /\ readings \in [{"ping", "jitter", "loss"} -> {"none", "current", "stale"}]

(* What is sent under a generation is measured under it, over no more trials  *)
(* than its settings ask for; and nothing is current when the last attempt    *)
(* could not be made. The coordinator goes by the generation (worker).        *)
OwnTrials ==
    /\ \A i \in DOMAIN trials : trials[i].under = sent
    /\ generation = sent => Len(trials) <= policy
    /\ ~available => \A r \in DOMAIN readings : readings[r] # "current"
=============================================================================
