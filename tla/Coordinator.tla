----------------------------- MODULE Coordinator -----------------------------
(* The coordinator of the readings (telemetry.rs). Slow sources are asked by  *)
(* threads of their own, which answer with the generation of the settings     *)
(* they asked under through a queue that is never waited for; the others are  *)
(* asked in the coordinator's own tick. What is published of a source says    *)
(* whether it is current, and a temperature is taken from the first source    *)
(* that has a current one.                                                    *)
EXTENDS Naturals, Sequences

CONSTANTS
    Slow,           \* sources of the temperature: HWiNFO, LHM or GPU
    First,          \* the one that is preferred
    Kept, Dropped,  \* sources of the tick whose error keeps, drops the reading
    MaxQueue,       \* slow_tx: capacity
    MaxGeneration   \* bound: generations

VARIABLES
    settings,       \* of each generation: the slow sources enabled, or safe mode
    asked,          \* the generation a slow source is asked under, or 0
    queue,          \* slow_rx
    at, tick,       \* where the coordinator is, the generation of this tick
    merged,         \* Worker::generation
    safe,           \* safe_mode_active
    reading,        \* what it has of each source; "new" is of this tick
    from            \* the generation it was asked under (history)

worker == <<at, tick, merged, safe, reading, from>>
vars == <<settings, asked, queue, worker>>

Source == Slow \cup Kept \cup Dropped
generation == Len(settings)
Settings == [on : SUBSET Slow, safe : {FALSE}] \cup [on : {{}}, safe : {TRUE}]
Enabled(g, s) == ~settings[g].safe /\ s \in settings[g].on \cup Kept \cup Dropped

NoReadings == [s \in Source |-> "none"]

Init ==
    /\ \E s \in Settings : settings = <<s>>
    /\ asked = [s \in Slow |-> 0] /\ queue = <<>>
    /\ at = "rest" /\ tick = 1 /\ merged = 1 /\ safe = settings[1].safe
    /\ reading = NoReadings
    /\ from = [s \in Source |-> 0]

----------------------------------------------------------------------------
(* spawn_headset, spawn_lhm, spawn_hwinfo, spawn_gpu.                         *)

Ask(s) ==
    /\ asked[s] = 0 /\ Enabled(generation, s)
    /\ asked' = [asked EXCEPT ![s] = generation]
    /\ UNCHANGED <<settings, queue, worker>>

(* send_slow: an answer for which there is no room is dropped. Some answers   *)
(* hold nothing of what was selected. *)
Answer(s) ==
    /\ asked[s] # 0 /\ asked' = [asked EXCEPT ![s] = 0]
    /\ IF Len(queue) < MaxQueue
       THEN \E result \in {"value", "nothing", "error"} :
               queue' = Append(queue, [of |-> s, under |-> asked[s], result |-> result])
       ELSE UNCHANGED queue
    /\ UNCHANGED <<settings, worker>>

----------------------------------------------------------------------------
(* tick.                                                                      *)

ResetState ==
    /\ reading' = NoReadings
    /\ from' = [s \in Source |-> 0] /\ merged' = tick'

Request ==
    /\ at = "rest" /\ at' = "drain"
    /\ tick' = generation
    /\ IF tick' # merged THEN ResetState ELSE UNCHANGED <<merged, reading, from>>
    /\ UNCHANGED <<settings, asked, queue, safe>>

(* An error leaves what there is of a slow source. *)
Apply(s, g, result) ==
    IF result = "error" THEN UNCHANGED <<reading, from>>
    ELSE /\ reading' = [reading EXCEPT ![s] = IF result = "value" THEN "new" ELSE "none"]
         /\ from' = [from EXCEPT ![s] = IF result = "value" THEN g ELSE 0]

(* Mutant: the generation of the answer is not looked at. *)
ApplyAnySlowEvent ==
    /\ at = "drain" /\ queue # <<>> /\ queue' = Tail(queue)
    /\ Apply(Head(queue).of, Head(queue).under, Head(queue).result)
    /\ UNCHANGED <<settings, asked, at, tick, merged, safe>>

ApplySlowEvent ==
    /\ at = "drain" /\ queue # <<>> /\ queue' = Tail(queue)
    /\ IF Head(queue).under = tick
       THEN Apply(Head(queue).of, Head(queue).under, Head(queue).result)
       ELSE UNCHANGED <<reading, from>>
    /\ UNCHANGED <<settings, asked, at, tick, merged, safe>>

(* A source of the tick is not due, disabled, or is asked. *)
Polled(s) ==
    IF s \in Slow \/ ~Enabled(tick, s) THEN {reading[s]}
    ELSE {reading[s], "new"} \cup (IF s \in Dropped THEN {"none"} ELSE {})

(* apply_freshness: without a new success the last one grows old. *)
Judged(s, r) ==
    IF r = "none" \/ ~Enabled(tick, s) THEN {"none"}
    ELSE IF r = "new" \/ s \in Dropped THEN {"current"}
    ELSE {r, "stale"}

(* prefer_cpu_temperature, prefer_native_temperature: a current one before a  *)
(* stale one, the preferred source before the others. *)
Preferred(readings) ==
    LET those(r) == {s \in Slow : readings[s] = r}
        best == IF those("current") # {} THEN those("current") ELSE those("stale")
    IN  IF First \in best THEN First ELSE CHOOSE s \in best : TRUE

Finish ==
    /\ at = "drain" /\ queue = <<>> /\ ~settings[tick].safe
    /\ at' = "rest" /\ safe' = FALSE
    /\ \E polled \in [Source -> {"none", "new", "current", "stale"}] :
          /\ \A s \in Source : polled[s] \in Polled(s)
          /\ reading' \in [Source -> {"none", "current", "stale"}]
          /\ \A s \in Source : reading'[s] \in Judged(s, polled[s])
          /\ from' = [s \in Source |->
                         IF polled[s] = "none" THEN 0
                         ELSE IF polled[s] = "new" /\ s \notin Slow THEN tick ELSE from[s]]
    /\ UNCHANGED <<settings, asked, queue, tick, merged>>

FinishSafe ==
    /\ at = "drain" /\ queue = <<>> /\ settings[tick].safe
    /\ at' = "rest" /\ safe' = TRUE
    /\ UNCHANGED tick
    /\ IF safe THEN UNCHANGED <<merged, reading, from>> ELSE ResetState
    /\ UNCHANGED <<settings, asked, queue>>

----------------------------------------------------------------------------
(* The settings.                                                              *)

UpdateConfig ==
    /\ generation < MaxGeneration
    /\ \E s \in Settings : settings' = Append(settings, s)
    /\ UNCHANGED <<asked, queue, worker>>

Next ==
    \/ Request \/ ApplySlowEvent \/ Finish \/ FinishSafe \/ UpdateConfig
    \/ \E s \in Slow : Ask(s) \/ Answer(s)

Spec == Init /\ [][Next]_vars

----------------------------------------------------------------------------
(* Properties.                                                                *)

TypeOK ==
    /\ settings \in Seq(Settings)
    /\ asked \in [Slow -> 0..generation] /\ Len(queue) <= MaxQueue
    /\ at \in {"rest", "drain"} /\ safe \in BOOLEAN
    /\ {tick, merged} \subseteq 1..generation
    /\ reading \in [Source -> {"none", "new", "current", "stale"}]
    /\ from \in [Source -> 0..generation]

(* What is published with a generation was asked for under it, from a source  *)
(* that its settings enable: answers to old questions are left out however    *)
(* late they come, and in safe mode there is nothing. A temperature is        *)
(* current if one source of it is (apply_slow_event, apply_freshness).        *)
Publishes == at = "drain" /\ at' = "rest"

OwnGeneration ==
    [][Publishes =>
        \A s \in Source : reading'[s] # "none" =>
            /\ from'[s] = tick /\ Enabled(tick, s)
            /\ s \in Slow => reading'[Preferred(reading')] # "none"
            /\ s \in Slow /\ reading'[s] = "current" =>
                  reading'[Preferred(reading')] = "current"]_vars
=============================================================================
