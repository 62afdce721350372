------------------------------- MODULE Backend -------------------------------
(* The LCD backend (backends/mod.rs): the command queue the dashboard writes, *)
(* the worker thread that owns the physical device, and the messages it sends *)
(* back; with the button tracker of input.rs, which lives in the worker.      *)
(*                                                                            *)
(* A frame is its number of submission; Picture gives what it looks like, so  *)
(* two frames with one picture are packed into the same report. Durations are *)
(* left out: a wait may end at any time, a debounce may be over or not.       *)
EXTENDS Naturals, Sequences

CONSTANTS
    Buttons,        \* the LCD buttons
    Kind,           \* configured backend: "auto", "sdk" or "hid"
    Picture,        \* what the frames 1, 2, ... look like
    MaxFrame,       \* bound: frames the dashboard renders
    MaxFaults,      \* bound: failures of the device and changes of LCore.exe
    MaxMsgs,        \* bound: messages in flight
    MaxPresses,     \* bound: changes of a button
    MaxRequests,    \* reconnect requests of one process
    MaxSpawns       \* bound: backend threads, one after the other

ASSUME BoundsAssumption ==
    /\ Kind \in {"auto", "sdk", "hid"}
    /\ MaxFrame \in Nat /\ MaxFaults \in Nat /\ MaxMsgs \in Nat
    /\ MaxPresses \in Nat /\ MaxSpawns \in Nat
    /\ DOMAIN Picture = 1..MaxFrame

(* The connection recovery asks for it after it has restarted Logitech, which *)
(* it does at most once (RestartBudget). *)
ASSUME RequestAssumption == MaxRequests \in {0, 1}

VARIABLES
    \* CommandQueue: written by the dashboard, read by the worker.
    latest,         \* the newest frame not taken, 0 when there is none
    shutdown, reconnect,
    \* physical_worker.
    pc,             \* where the worker is
    dev,            \* "none", or the kind of the open device
    replay, current,    \* frames, 0 for None
    lastSent,       \* picture of the last report accepted by this device
    reported,       \* health_reported
    \* ButtonTracker: sets of buttons that are down.
    initialized, raw, stable, emitted,
    msgs,           \* the message channel
    \* The device and its surroundings.
    lcore,          \* whether LCore.exe runs
    pressed,        \* buttons physically down
    panel,          \* picture on the display
    \* The dashboard.
    submitted,      \* frames rendered so far
    awaiting,       \* Recovery::awaiting_reconnect
    believed,       \* buttons that are down according to the worker's messages
    \* Counters of the bounds, and history.
    faults, presses, requests, spawns,
    written,        \* newest frame the display has ever shown
    opened          \* requests made before the open device was opened

queue   == <<latest, shutdown, reconnect>>
frames  == <<replay, current, lastSent>>
tracker == <<initialized, raw, stable, emitted>>
world   == <<lcore, pressed>>
app     == <<submitted, awaiting, believed>>
counts  == <<faults, presses, requests, spawns>>
vars == <<queue, pc, dev, frames, reported, tracker, msgs, world, panel, app,
          counts, written, opened>>

None == "none"
NoPicture == "no picture"
Blank == "blank"
Pictures == {Picture[f] : f \in 1..MaxFrame}

----------------------------------------------------------------------------
(* Messages. A Buttons message holds at most one event of each button.       *)

State(s) == [tag |-> "state", state |-> s]
Healthy(requested) == [tag |-> "healthy", opened |-> requested]
Started == [tag |-> "reconnectStarted"]
Edges(downs, ups, cancels, source) ==
    [tag |-> "buttons", down |-> downs, up |-> ups, cancel |-> cancels, source |-> source]

(* Bound: the worker waits while the channel is full; nothing is read while   *)
(* the dashboard waits for the worker to stop. *)
Send(messages) ==
    /\ Len(msgs) + Len(messages) <= MaxMsgs \/ shutdown
    /\ msgs' = msgs \o messages

(* Mutant: cancels every button that is down, reported or not. *)
CancelsOfStable(source) ==
    IF stable = {} THEN <<>> ELSE <<Edges({}, {}, stable, source)>>

(* Mutant: presses are forgotten without a word. *)
CancelsNothing(source) == <<>>

(* ButtonTracker::disconnect *)
Cancels(source) ==
    IF emitted = {} THEN <<>> ELSE <<Edges({}, {}, emitted, source)>>

ResetTracker ==
    initialized' = FALSE /\ raw' = {} /\ stable' = {} /\ emitted' = {}

Init ==
    /\ latest = 0 /\ shutdown = FALSE /\ reconnect = FALSE
    /\ pc = "top" /\ dev = None
    /\ replay = 0 /\ current = 0 /\ lastSent = NoPicture /\ reported = FALSE
    /\ initialized = FALSE /\ raw = {} /\ stable = {} /\ emitted = {}
    /\ msgs = <<State("discovering")>>
    /\ lcore \in BOOLEAN
    /\ pressed = {} /\ panel = Blank
    /\ submitted = 0 /\ awaiting = FALSE /\ believed = {}
    /\ faults = 0 /\ presses = 0 /\ requests = 0 /\ spawns = 1
    /\ written = 0 /\ opened = 0

----------------------------------------------------------------------------
(* The dashboard's side.                                                      *)

Listening == ~shutdown

Submit ==
    /\ Listening /\ submitted < MaxFrame
    /\ submitted' = submitted + 1 /\ latest' = submitted + 1
    /\ UNCHANGED <<shutdown, reconnect, pc, dev, frames, reported, tracker, msgs,
                   world, panel, awaiting, believed, counts, written, opened>>

(* Mutant: health already in the channel is believed. *)
RequestReconnectTrusting ==
    /\ Listening /\ requests < MaxRequests
    /\ requests' = requests + 1
    /\ reconnect' = TRUE
    /\ UNCHANGED <<latest, shutdown, pc, dev, frames, reported, tracker, msgs, world,
                   panel, app, faults, presses, spawns, written, opened>>

(* Recovery asks for a new device after Logitech was restarted, and ignores   *)
(* health until the worker says that it has started over. *)
RequestReconnect ==
    /\ Listening /\ requests < MaxRequests
    /\ requests' = requests + 1
    /\ reconnect' = TRUE /\ awaiting' = TRUE
    /\ UNCHANGED <<latest, shutdown, pc, dev, frames, reported, tracker, msgs, world,
                   panel, submitted, believed, faults, presses, spawns, written, opened>>

ReadMessage ==
    /\ Listening /\ msgs # <<>>
    /\ msgs' = Tail(msgs)
    /\ awaiting' = (awaiting /\ Head(msgs).tag # "reconnectStarted")
    /\ believed' = IF Head(msgs).tag = "buttons"
                   THEN (believed \cup Head(msgs).down) \ (Head(msgs).up \cup Head(msgs).cancel)
                   ELSE believed
    /\ UNCHANGED <<queue, pc, dev, frames, reported, tracker, world, panel,
                   submitted, counts, written, opened>>

(* A reconfiguration: the dashboard stops the worker, joins it, and starts a  *)
(* new one with a queue and a channel of its own. What the old one reported   *)
(* last is not ended, so believed begins anew. *)
Stop ==
    /\ Listening /\ spawns < MaxSpawns
    /\ shutdown' = TRUE
    /\ UNCHANGED <<latest, reconnect, pc, dev, frames, reported, tracker, msgs,
                   world, panel, app, counts, written, opened>>

Respawn ==
    /\ pc = "done" /\ spawns < MaxSpawns
    /\ spawns' = spawns + 1
    /\ latest' = 0 /\ shutdown' = FALSE /\ reconnect' = FALSE
    /\ pc' = "top" /\ replay' = 0 /\ current' = 0
    /\ ResetTracker
    /\ msgs' = <<State("discovering")>> /\ believed' = {}
    /\ UNCHANGED <<dev, lastSent, reported, world, panel, submitted, awaiting,
                   faults, presses, requests, written, opened>>

----------------------------------------------------------------------------
(* The worker.                                                                *)

Fault == faults < MaxFaults /\ faults' = faults + 1

Top ==
    /\ pc = "top" /\ pc' = "open"
    /\ IF reconnect THEN Send(<<Started>>) ELSE UNCHANGED msgs
    /\ reconnect' = FALSE
    /\ UNCHANGED <<latest, shutdown, dev, frames, reported, tracker, world, panel,
                   app, counts, written, opened>>

(* The kind of device to open, or None when the configuration refuses. *)
SelectPhysicalKind ==
    IF lcore THEN (IF Kind = "hid" THEN None ELSE "sdk")
             ELSE (IF Kind = "sdk" THEN None ELSE "hid")

OpenFails ==
    /\ pc = "open" /\ pc' = "sleep"
    /\ \/ SelectPhysicalKind = None /\ UNCHANGED faults
       \/ Fault
    /\ Send(<<State("disconnected")>>)
    /\ UNCHANGED <<queue, dev, frames, reported, tracker, world, panel, app,
                   presses, requests, spawns, written, opened>>

(* Mutant: the last report is remembered across devices. *)
OpenSucceedsRemembering ==
    /\ pc = "open" /\ pc' = "inspect"
    /\ SelectPhysicalKind # None
    /\ dev' = SelectPhysicalKind
    /\ Send(<<State("connected")>> \o Cancels(dev'))
    /\ ResetTracker
    /\ reported' = FALSE /\ opened' = requests
    /\ UNCHANGED <<queue, frames, world, panel, app, counts, written>>

OpenSucceeds ==
    /\ pc = "open" /\ pc' = "inspect"
    /\ SelectPhysicalKind # None
    /\ dev' = SelectPhysicalKind
    /\ Send(<<State("connected")>> \o Cancels(dev'))
    /\ ResetTracker
    /\ lastSent' = NoPicture /\ reported' = FALSE /\ opened' = requests
    /\ UNCHANGED <<queue, replay, current, world, panel, app, counts, written>>

(* sleep_interruptible *)
Sleep ==
    /\ pc = "sleep"
    /\ IF shutdown THEN pc' = "done" /\ Send(<<State("shutDown")>>)
                   ELSE pc' = "top" /\ UNCHANGED msgs
    /\ UNCHANGED <<queue, dev, frames, reported, tracker, world, panel, app, counts,
                   written, opened>>

(* The frame on the display is written again on the next device. *)
KeepFrame ==
    /\ replay' = IF replay = 0 THEN current ELSE replay
    /\ current' = IF replay = 0 THEN 0 ELSE current

(* A device closed with a blank frame, if that still works. *)
CloseBlank == dev' = None /\ panel' \in {panel, Blank}
CloseAsIs  == dev' = None /\ panel' = panel

(* Mutant: shutdown is noticed only when a frame is waiting. *)
InspectShutdownOnFrame ==
    /\ pc = "inspect" /\ shutdown /\ latest # 0
    /\ CloseBlank
    /\ pc' = "done"
    /\ Send(<<State("shutDown")>>) \/ Send(<<State("disconnected"), State("shutDown")>>)
    /\ UNCHANGED <<queue, frames, reported, tracker, world, app, counts, written, opened>>

InspectShutdown ==
    /\ pc = "inspect" /\ shutdown
    /\ CloseBlank
    /\ pc' = "done"
    /\ Send(<<State("shutDown")>>) \/ Send(<<State("disconnected"), State("shutDown")>>)
    /\ UNCHANGED <<queue, frames, reported, tracker, world, app, counts, written, opened>>

(* LCore.exe has appeared under a direct device, or left an SDK device. *)
OwnershipConflict == (dev = "hid" /\ lcore) \/ (dev = "sdk" /\ ~lcore)

InspectStartOver ==
    /\ pc = "inspect" /\ ~shutdown
    /\ reconnect \/ OwnershipConflict
    /\ KeepFrame /\ CloseAsIs
    /\ Send(<<State("discovering")>> \o Cancels(dev))
    /\ ResetTracker
    /\ pc' = "top"
    /\ UNCHANGED <<queue, lastSent, reported, world, app, counts, written, opened>>

(* Whether LCore.exe runs could not be found out. *)
InspectFails ==
    /\ pc = "inspect" /\ ~shutdown /\ ~reconnect
    /\ Fault
    /\ KeepFrame /\ CloseAsIs
    /\ Send(<<State("disconnected")>>)
    /\ pc' = "top"
    /\ UNCHANGED <<queue, lastSent, reported, tracker, world, app, presses, requests,
                   spawns, written, opened>>

InspectPasses ==
    /\ pc = "inspect" /\ ~shutdown /\ ~reconnect /\ ~OwnershipConflict
    /\ pc' = "frame"
    /\ UNCHANGED <<queue, dev, frames, reported, tracker, msgs, world, panel, app,
                   counts, written, opened>>

(* No frame, or one that came during the wait together with a request. *)
NoFrame ==
    /\ pc = "frame" /\ replay = 0
    /\ \/ (shutdown \/ reconnect) /\ pc' = "inspect"
       \/ ~shutdown /\ ~reconnect /\ latest = 0 /\ pc' = "poll"
    /\ UNCHANGED <<queue, dev, frames, reported, tracker, msgs, world, panel, app,
                   counts, written, opened>>

(* next_frame: the newest frame makes an older replay pointless. *)
Next_frame == IF latest # 0 THEN latest ELSE replay

(* Mutant: a newer frame leaves the replay in place. *)
WriteFrameKeepsReplay ==
    /\ pc = "frame" /\ Next_frame # 0
    /\ pc' = "poll"
    /\ current' = Next_frame
    /\ latest' = 0 /\ replay' = IF latest # 0 THEN replay ELSE 0
    /\ written' = Next_frame
    /\ IF lastSent = Picture[Next_frame]
       THEN UNCHANGED <<panel, lastSent>>
       ELSE panel' = Picture[Next_frame] /\ lastSent' = Picture[Next_frame]
    /\ UNCHANGED <<shutdown, reconnect, dev, reported, tracker, msgs, world, app,
                   counts, opened>>

(* The frame is written, unless the device already shows the same picture. *)
WriteFrame ==
    /\ pc = "frame" /\ Next_frame # 0
    /\ pc' = "poll"
    /\ current' = Next_frame
    /\ latest' = 0 /\ replay' = 0
    /\ written' = Next_frame
    /\ IF lastSent = Picture[Next_frame]
       THEN UNCHANGED <<panel, lastSent>>
       ELSE panel' = Picture[Next_frame] /\ lastSent' = Picture[Next_frame]
    /\ UNCHANGED <<shutdown, reconnect, dev, reported, tracker, msgs, world, app,
                   counts, opened>>

WriteFails ==
    /\ pc = "frame" /\ Next_frame # 0
    /\ lastSent # Picture[Next_frame]
    /\ Fault
    /\ replay' = Next_frame /\ latest' = 0
    /\ CloseBlank
    /\ Send(<<State("disconnected")>> \o Cancels(dev))
    /\ ResetTracker
    /\ pc' = "sleep"
    /\ UNCHANGED <<shutdown, reconnect, current, lastSent, reported, world, app,
                   presses, requests, spawns, written, opened>>

(* Health is reported once per device, after a frame was accepted. *)
HealthMessages ==
    IF ~reported /\ lastSent # NoPicture THEN <<Healthy(opened)>> ELSE <<>>

ReportHealth == reported' = (reported \/ lastSent # NoPicture)

(* A direct device had no input report. *)
PollNothing ==
    /\ pc = "poll" /\ dev = "hid"
    /\ ReportHealth /\ Send(HealthMessages)
    /\ pc' = "inspect"
    /\ UNCHANGED <<queue, dev, frames, tracker, world, panel, app, counts, written, opened>>

(* ButtonTracker::observe. The first reading is taken as it is. After that a  *)
(* change must be read twice: D are the buttons whose debounce is over. *)
Changed  == (pressed \ raw) \cup (raw \ pressed)
Unstable == ((raw \ stable) \cup (stable \ raw)) \ Changed

PollReport(D) ==
    /\ pc = "poll" /\ D \subseteq Unstable
    /\ ReportHealth
    /\ raw' = pressed /\ initialized' = TRUE
    /\ IF ~initialized
       THEN stable' = pressed /\ Send(HealthMessages) /\ UNCHANGED emitted
       ELSE LET downs == D \cap raw
                ups == (D \ raw) \cap emitted
            IN  /\ stable' = (stable \ D) \cup downs
                /\ emitted' = (emitted \cup downs) \ ups
                /\ Send(HealthMessages \o
                        IF downs \cup ups = {} THEN <<>>
                        ELSE <<Edges(downs, ups, {}, dev)>>)
    /\ pc' = "inspect"
    /\ UNCHANGED <<queue, dev, frames, world, panel, app, counts, written, opened>>

PollButtons == \E D \in SUBSET Buttons : PollReport(D)

PollFails ==
    /\ pc = "poll" /\ Fault
    /\ KeepFrame /\ CloseBlank
    /\ Send(<<State("disconnected")>> \o Cancels(dev))
    /\ ResetTracker
    /\ pc' = "sleep"
    /\ UNCHANGED <<queue, lastSent, reported, world, app, presses, requests, spawns,
                   written, opened>>

----------------------------------------------------------------------------
(* The surroundings.                                                          *)

(* LCore.exe starts or stops. What it draws itself is left out: panel is what *)
(* this program last put on the display. *)
LcoreChanges ==
    /\ Fault
    /\ lcore' = ~lcore
    /\ UNCHANGED <<queue, pc, dev, frames, reported, tracker, msgs, pressed, panel, app,
                   presses, requests, spawns, written, opened>>

MoveButton(b) ==
    /\ presses < MaxPresses /\ presses' = presses + 1
    /\ pressed' = IF b \in pressed THEN pressed \ {b} ELSE pressed \cup {b}
    /\ UNCHANGED <<queue, pc, dev, frames, reported, tracker, msgs, lcore, panel, app,
                   faults, requests, spawns, written, opened>>

----------------------------------------------------------------------------

Dashboard == Submit \/ RequestReconnect \/ ReadMessage \/ Stop \/ Respawn

Poll == PollNothing \/ PollButtons \/ PollFails

Worker ==
    \/ Top \/ OpenFails \/ OpenSucceeds \/ Sleep
    \/ InspectShutdown \/ InspectStartOver \/ InspectFails \/ InspectPasses
    \/ NoFrame \/ WriteFrame \/ WriteFails \/ Poll

Next == Dashboard \/ Worker \/ LcoreChanges \/ \E b \in Buttons : MoveButton(b)

Spec == Init /\ [][Next]_vars

(* The worker runs, the dashboard renders and reads its messages, and the     *)
(* device goes on delivering input reports, in the end past every debounce. *)
Fairness ==
    /\ WF_vars(Worker) /\ SF_vars(PollReport(Unstable))
    /\ WF_vars(Submit) /\ WF_vars(ReadMessage)

FairSpec == Spec /\ Fairness

----------------------------------------------------------------------------
(* Properties.                                                                *)

Message ==
    [tag : {"state"}, state : {"discovering", "connected", "disconnected", "shutDown"}]
      \cup [tag : {"healthy"}, opened : 0..MaxRequests]
      \cup [tag : {"reconnectStarted"}]
      \cup [tag : {"buttons"}, down : SUBSET Buttons, up : SUBSET Buttons,
            cancel : SUBSET Buttons, source : {"sdk", "hid"}]

Frame == 0..MaxFrame

TypeOK ==
    /\ latest \in Frame /\ shutdown \in BOOLEAN /\ reconnect \in BOOLEAN
    /\ pc \in {"top", "open", "sleep", "inspect", "frame", "poll", "done"}
    /\ dev \in {None, "sdk", "hid"}
    /\ replay \in Frame /\ current \in Frame
    /\ lastSent \in Pictures \cup {NoPicture}
    /\ reported \in BOOLEAN /\ initialized \in BOOLEAN
    /\ raw \subseteq Buttons /\ stable \subseteq Buttons /\ emitted \subseteq Buttons
    /\ msgs \in Seq(Message)
    /\ lcore \in BOOLEAN /\ pressed \subseteq Buttons
    /\ panel \in Pictures \cup {Blank}
    /\ submitted \in Frame /\ awaiting \in BOOLEAN /\ believed \subseteq Buttons
    /\ faults \in 0..MaxFaults /\ presses \in 0..MaxPresses
    /\ requests \in 0..MaxRequests /\ spawns \in Nat
    /\ written \in Frame /\ opened \in 0..requests

(* Across replay, reconnection and coalescing the display never goes back to  *)
(* a frame older than one it has shown (physical_worker, next_frame). *)
NeverOlder == [][written' >= written]_vars

(* When the frames and the failures end, the display comes to show the newest *)
(* frame and keeps it: no frame is lost in a reconnection, and suppressing    *)
(* unchanged frames never suppresses one the device does not show. *)
NewestShown == <>[](submitted = MaxFrame => panel = Picture[MaxFrame])

(* After a reconnect request the dashboard believes only the health of a      *)
(* device opened since, be it reported already or not                         *)
(* (Recovery::reconnect_started). *)
HealthIsFresh ==
    [][(msgs # <<>> /\ msgs' = Tail(msgs) /\ Head(msgs).tag = "healthy")
         => awaiting \/ Head(msgs).opened = requests]_vars

(* The dashboard is told of each press once, and of its end once, through     *)
(* debounce, device loss and change of device. *)
EdgesAlternate ==
    [][(msgs # <<>> /\ msgs' = Tail(msgs) /\ Head(msgs).tag = "buttons")
         => /\ Head(msgs).down \cap believed = {}
            /\ Head(msgs).up \cup Head(msgs).cancel \subseteq believed]_vars

(* No button stays pressed for the dashboard after it was released, as long   *)
(* as the worker that reported it is not stopped. *)
NoStuckButton == <>[](shutdown \/ believed \subseteq pressed)

(* A worker that is told to stop ends, from wherever it is: the dashboard,    *)
(* which joins it, does not hang. *)
StopEnds == shutdown ~> pc = "done"
=============================================================================
