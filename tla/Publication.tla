----------------------------- MODULE Publication -----------------------------
(* Settings on their way to the workers, and readings on their way back       *)
(* (telemetry.rs, providers/hang.rs, app.rs). The main loop reloads the       *)
(* settings file and raises a generation; each worker asks for settings and   *)
(* generation together (current_request) and marks its results with the       *)
(* generation; the coordinator merges the results that are not out of date    *)
(* into an update, and the main loop takes the latest update.                 *)
(*                                                                            *)
(* The worker is the detector of hung windows, for one window; the network    *)
(* worker has the same loop. Settings are told apart by what they mean to it. *)
(* Steps that only their own thread can see are joined to a step that others  *)
(* can see; so is the notification to the update it announces, because the    *)
(* main loop looks for an update after a notification only.                   *)
EXTENDS Naturals, Sequences, FiniteSetsExt

CONSTANTS
    AtStart,        \* what the settings may say when the program starts
    Failures,       \* hang_failures: scans that confirm a hung window
    MaxSaves,       \* bound: times the settings file is saved
    MaxEvents,      \* bound: changes of the window and failing scans
    MaxMsgs         \* bound: results of the detector in its channel

Meaning == {"active", "off", "safe"}        \* "off" and "safe" disable the detector

ASSUME PublicationAssumption ==
    /\ AtStart \subseteq Meaning
    /\ Failures \in Nat \ {0}
    /\ MaxSaves \in Nat /\ MaxEvents \in Nat /\ MaxMsgs \in Nat

VARIABLES
    \* The settings file: how often it was saved, and what it says.
    file,
    \* The main loop.
    main,           \* where it is
    running,        \* the settings it runs with
    signature,      \* ConfigWatcher: version of the file it believes loaded
    telemetry,      \* the update in use
    \* Telemetry: settings behind a lock, their generation, latest update.
    config, locked, generation, latest, notified,
    \* Requests in progress, by worker.
    asked,
    \* The detector.
    pc, current, tracker, seen, disabled, channel,
    \* The coordinator: Worker::update and Worker::generation.
    update, merged,
    \* Surroundings and history.
    hung,           \* whether the window hangs
    events,
    inForce         \* the settings of each generation

app    == <<main, running, signature, telemetry>>
shared == <<config, locked, generation>>
slot   == <<latest, notified>>
detector == <<pc, current, tracker, seen, disabled, channel>>
coordinator == <<update, merged>>
world == <<hung, events>>
vars == <<file, app, shared, slot, asked, detector, coordinator, world, inForce>>

Settings == [version : 0..MaxSaves, is : Meaning]
Active(settings) == settings.is = "active"

Worker == {"detector", "coordinator"}

(* What is published of the window: it is listed when under is not empty, and *)
(* under are then the generations of the scans that confirmed it (history).   *)
Result(gen, available, under) == [gen |-> gen, available |-> available, under |-> under]
Nothing(gen) == Result(gen, FALSE, {})
NoUpdate == Nothing(0)

NoRecord == [failures |-> 0, under |-> {}]

NotAsked == [at |-> "before", before |-> 0, cfg |-> [version |-> 0, is |-> "off"]]

Init ==
    /\ file \in [version : {0}, is : AtStart]
    /\ main = "boot" /\ running = file /\ signature = 0
    /\ telemetry = Nothing(1)
    /\ config = running /\ locked = FALSE /\ generation = 1
    /\ latest = NoUpdate /\ notified = FALSE
    /\ asked = [w \in Worker |-> NotAsked]
    /\ pc = "ask" /\ current = 0 /\ tracker = NoRecord /\ seen = "none"
    /\ disabled = FALSE /\ channel = <<>>
    /\ update = Nothing(0) /\ merged = 1
    /\ hung \in BOOLEAN /\ events = 0
    /\ inForce = <<running>>

----------------------------------------------------------------------------
(* The main loop.                                                             *)

(* The watcher starts long after the settings were loaded. *)
Watch ==
    /\ main = "boot" /\ main' = "drain"
    /\ signature' = file.version
    /\ UNCHANGED <<file, running, telemetry, shared, slot, asked, detector,
                   coordinator, world, inForce>>

(* LatestUpdates::try_recv, first the notification and then the update. *)
TryRecv ==
    /\ main = "drain" /\ notified
    /\ main' = "take" /\ notified' = FALSE
    /\ UNCHANGED <<file, running, signature, telemetry, shared, latest, asked,
                   detector, coordinator, world, inForce>>

(* An update of older settings is dropped. *)
Take ==
    /\ main = "take"
    /\ main' = "drain"
    /\ telemetry' = IF latest # NoUpdate /\ latest.gen = generation THEN latest ELSE telemetry
    /\ latest' = NoUpdate
    /\ UNCHANGED <<file, running, signature, shared, notified, asked, detector,
                   coordinator, world, inForce>>

(* With no notification left, the main loop looks at the file. One that has   *)
(* not changed, or that is rejected, leaves everything as it is; a rejected   *)
(* one is loaded again the next time (ConfigWatcher::changed). *)
FileChanged ==
    /\ main = "drain" /\ ~notified
    /\ signature # file.version /\ file.is # "invalid"

(* Mutant: the lock is released before the generation is raised. *)
ReloadUnlocked ==
    /\ FileChanged /\ main' = "raise"
    /\ running' = file /\ config' = file /\ locked' = FALSE
    /\ UNCHANGED <<file, signature, telemetry, generation, slot, asked, detector,
                   coordinator, world, inForce>>

(* The file is loaded and handed to the workers: settings and generation      *)
(* change under one lock (update_config). *)
Reload ==
    /\ FileChanged /\ main' = "raise"
    /\ running' = file /\ config' = file /\ locked' = TRUE
    /\ UNCHANGED <<file, signature, telemetry, generation, slot, asked, detector,
                   coordinator, world, inForce>>

(* What was published before is dropped, and the watcher takes the file as it *)
(* is by now for the one that was loaded (ConfigWatcher::replace). *)
Raise ==
    /\ main = "raise" /\ main' = "drain"
    /\ generation' = generation + 1 /\ locked' = FALSE
    /\ telemetry' = Nothing(generation')
    /\ signature' = file.version
    /\ inForce' = Append(inForce, running)
    /\ UNCHANGED <<file, running, config, slot, asked, detector, coordinator, world>>

----------------------------------------------------------------------------
(* current_request: the settings, read between two readings of one generation. *)

Set(w, at, before, cfg) ==
    asked' = [asked EXCEPT ![w] = [at |-> at, before |-> before, cfg |-> cfg]]

Asking(w) == w = "detector" => pc \in {"ask", "scanned"}

Ask(w) ==
    /\ Asking(w)
    /\ \/ asked[w].at = "before" /\ Set(w, "config", generation, asked[w].cfg)
       \/ /\ asked[w].at = "config" /\ ~locked
          /\ Set(w, "after", asked[w].before, config)
       \/ /\ asked[w].at = "after"
          /\ IF asked[w].before = generation
             THEN Set(w, "done", generation, asked[w].cfg)
             ELSE Set(w, "before", 0, NotAsked.cfg)
    /\ UNCHANGED <<file, app, shared, slot, detector, coordinator, world, inForce>>

Answered(w) == asked[w].at = "done"
Gen(w) == asked[w].before
Cfg(w) == asked[w].cfg
Forget(w) == asked' = [asked EXCEPT ![w] = NotAsked]

----------------------------------------------------------------------------
(* The detector. The policy cannot change within a generation, so a change of *)
(* it is not looked for a second time (reset_on_policy_change). A poll that   *)
(* is not due yet is one that takes its time to be asked for. *)

Send(results) ==
    /\ Len(channel) + Len(results) <= MaxMsgs
    /\ channel' = channel \o results

(* Mutant: failures counted under older settings confirm a window. *)
TurnKeepsTracker ==
    /\ pc = "ask" /\ Answered("detector") /\ Forget("detector")
    /\ LET gen == Gen("detector")
           new == gen # current
           first == IF new THEN <<Nothing(gen)>> ELSE <<>>
           told == disabled /\ ~new
       IN  /\ current' = gen
           /\ disabled' = ~Active(Cfg("detector"))
           /\ IF Active(Cfg("detector"))
              THEN pc' = "scan" /\ Send(first) /\ UNCHANGED tracker
              ELSE /\ pc' = "ask" /\ tracker' = NoRecord
                   /\ Send(first \o IF told THEN <<>> ELSE <<Nothing(gen)>>)
    /\ UNCHANGED <<file, app, shared, slot, coordinator, seen, world, inForce>>

(* A turn of the loop up to the scan: under new settings everything starts    *)
(* over, under settings that disable it the detector says so once. *)
Turn ==
    /\ pc = "ask" /\ Answered("detector") /\ Forget("detector")
    /\ LET gen == Gen("detector")
           new == gen # current
           first == IF new THEN <<Nothing(gen)>> ELSE <<>>
           told == disabled /\ ~new
       IN  /\ current' = gen
           /\ disabled' = ~Active(Cfg("detector"))
           /\ IF Active(Cfg("detector"))
              THEN /\ pc' = "scan" /\ Send(first)
                   /\ tracker' = IF new THEN NoRecord ELSE tracker
              ELSE /\ pc' = "ask" /\ tracker' = NoRecord
                   /\ Send(first \o IF told THEN <<>> ELSE <<Nothing(gen)>>)
    /\ UNCHANGED <<file, app, shared, slot, coordinator, seen, world, inForce>>

(* enumerate_and_probe takes its time; settings may change under it. *)
Scan ==
    /\ pc = "scan" /\ pc' = "scanned"
    /\ \/ seen' = (IF hung THEN "hung" ELSE "responsive") /\ UNCHANGED events
       \/ seen' = "error" /\ events < MaxEvents /\ events' = events + 1
    /\ UNCHANGED <<file, app, shared, slot, asked, current, tracker, disabled, channel,
                   coordinator, hung, inForce>>

(* The settings have changed: the scan is thrown away. *)
Discard ==
    /\ pc = "scanned" /\ Answered("detector") /\ Gen("detector") # current
    /\ Forget("detector")
    /\ pc' = "ask" /\ seen' = "none"
    /\ current' = Gen("detector")
    /\ disabled' = ~Active(Cfg("detector"))
    /\ tracker' = NoRecord
    /\ Send(<<Result(Gen("detector"), Active(Cfg("detector")), {})>>)
    /\ UNCHANGED <<file, app, shared, slot, coordinator, world, inForce>>

(* Tracker::update: a window that answered is forgotten. The time that a       *)
(* window must hang (hang_minimum) is taken to be no longer than its scans. *)
Updated ==
    IF seen = "hung"
    THEN [failures |-> IF tracker.failures < Failures THEN tracker.failures + 1 ELSE Failures,
          under |-> tracker.under \cup {current}]
    ELSE NoRecord

Publish ==
    /\ pc = "scanned" /\ Answered("detector") /\ Gen("detector") = current
    /\ Forget("detector")
    /\ pc' = "ask" /\ seen' = "none"
    /\ tracker' = Updated
    /\ Send(<<Result(current, seen # "error",
                     IF Updated.failures >= Failures THEN Updated.under ELSE {})>>)
    /\ UNCHANGED <<file, app, shared, slot, coordinator, current, disabled, world, inForce>>

----------------------------------------------------------------------------
(* The coordinator: Worker::tick.                                             *)

(* The last result of generation gen, or what there was before. *)
Drained(gen, before) ==
    LET own == {i \in DOMAIN channel : channel[i].gen = gen}
    IN  IF own = {} THEN before ELSE channel[Max(own)]

(* Mutant: new settings leave the merged readings as they are. *)
MergeWithoutReset ==
    /\ Answered("coordinator") /\ Forget("coordinator")
    /\ LET gen == Gen("coordinator")
       IN  /\ merged' = gen
           /\ update' = IF Cfg("coordinator").is = "safe" THEN Nothing(gen)
                        ELSE [Drained(gen, update) EXCEPT !.gen = gen]
    /\ latest' = update' /\ notified' = TRUE /\ channel' = <<>>
    /\ UNCHANGED <<file, app, shared, pc, current, tracker, seen, disabled, world, inForce>>

(* New settings empty the update (reset_state); then the channel is drained:  *)
(* results of other generations are dropped, newer ones too. The update is    *)
(* stored and the main loop notified (LatestSender::send). *)
Merge ==
    /\ Answered("coordinator") /\ Forget("coordinator")
    /\ LET gen == Gen("coordinator")
           kept == IF gen = merged THEN update ELSE Nothing(gen)
       IN  /\ merged' = gen
           /\ update' = IF Cfg("coordinator").is = "safe" THEN Nothing(gen)
                        ELSE [Drained(gen, kept) EXCEPT !.gen = gen]
    /\ latest' = update' /\ notified' = TRUE /\ channel' = <<>>
    /\ UNCHANGED <<file, app, shared, pc, current, tracker, seen, disabled, world, inForce>>

----------------------------------------------------------------------------
(* The user and the window.                                                   *)

Save(meaning) ==
    /\ file.version < MaxSaves
    /\ file' = [version |-> file.version + 1, is |-> meaning]
    /\ UNCHANGED <<app, shared, slot, asked, detector, coordinator, world, inForce>>

Hang ==
    /\ events < MaxEvents /\ events' = events + 1
    /\ hung' = ~hung
    /\ UNCHANGED <<file, app, shared, slot, asked, detector, coordinator, inForce>>

----------------------------------------------------------------------------

Main == Watch \/ TryRecv \/ Take \/ Reload \/ Raise
Detector == Ask("detector") \/ Turn \/ Scan \/ Discard \/ Publish
Coordinator == Ask("coordinator") \/ Merge

Next ==
    \/ Main \/ Detector \/ Coordinator
    \/ \E meaning \in Meaning \cup {"invalid"} : Save(meaning)
    \/ Hang

Spec == Init /\ [][Next]_vars

(* Every thread runs. *)
Fairness == WF_vars(Main) /\ WF_vars(Detector) /\ WF_vars(Coordinator)

FairSpec == Spec /\ Fairness

----------------------------------------------------------------------------
(* Properties.                                                                *)

Listing(gens) ==
    {r \in [gen : gens, available : BOOLEAN, under : SUBSET gens] :
        r.under # {} => r.available}

TypeOK ==
    LET gens == 0..generation IN
    /\ file \in [version : 0..MaxSaves, is : Meaning \cup {"invalid"}]
    /\ main \in {"boot", "drain", "take", "raise"}
    /\ running \in Settings /\ config \in Settings
    /\ signature \in 0..MaxSaves
    /\ {telemetry, latest, update} \subseteq Listing(gens)
    /\ locked \in BOOLEAN /\ notified \in BOOLEAN
    /\ generation \in Nat \ {0} /\ Len(inForce) = generation
    /\ asked \in [Worker -> [at : {"before", "config", "after", "done"},
                              before : gens, cfg : Settings]]
    /\ pc \in {"ask", "scan", "scanned"}
    /\ current \in gens /\ merged \in gens
    /\ tracker \in [failures : 0..Failures, under : SUBSET gens]
    /\ seen \in {"none", "hung", "responsive", "error"} /\ disabled \in BOOLEAN
    /\ \A i \in DOMAIN channel : channel[i] \in Listing(gens)
    /\ hung \in BOOLEAN /\ events \in 0..MaxEvents

(* A worker never holds the settings of one generation under the number of    *)
(* another, however reloads and its own reads interleave (current_request,    *)
(* update_config). *)
RequestConsistent ==
    \A w \in Worker : Answered(w) => Cfg(w) = inForce[Gen(w)]

(* What the main loop shows as hung was confirmed by scans that were all made *)
(* under the settings it runs with, and these allow it. *)
ConfirmedUnderCurrent ==
    main # "raise" /\ telemetry.under # {} =>
        telemetry.under = {generation} /\ Active(running)

(* When nothing changes any more, the main loop comes to show the window      *)
(* exactly when it hangs and the detector is on, although a result may be     *)
(* dropped on the way because it was ahead of the coordinator. *)
Settles ==
    <>[](telemetry.under # {} <=> hung /\ Active(running))

(* "Valid settings saves replace runtime settings" (docs/PRODUCT-SPEC.md). *)
LastSaveRuns ==
    <>[](file.is # "invalid" => running = file)
=============================================================================
