------------------------------- MODULE Capture -------------------------------
(* The thread that owns PresentMon.exe (providers/presentmon.rs): one child   *)
(* at a time, with one trace session, started for a target or for all that    *)
(* present. A child that cannot be stopped, or whose session cannot be        *)
(* closed, is kept and tried again; until then no other is started.           *)
(*                                                                            *)
(* What the frames are shown as is in module Presenter.                       *)
EXTENDS Naturals

CONSTANTS
    Child, NoChild,     \* PresentMon processes, each with its trace session
    Target, NoTarget    \* processes whose frames can be captured

VARIABLES
    \* The program and Windows.
    mode,       \* mode of the settings in force
    changed,    \* their generation is not the one the thread has taken up
    shutdown,
    want,       \* the process that would be selected
    running,    \* the children that run
    traced,     \* the trace sessions that exist
    \* The thread.
    at,         \* where it is
    asked,      \* mode of the settings it has read
    pick,       \* the target a capture is being started for
    stops,      \* final attempts to stop that are left
    ours,       \* the child was started under the settings taken up (history)
    \* Capture.
    child,      \* the process it holds
    session,    \* owned_session
    key,        \* what the child is for
    lines,      \* channel of the reader: closed, open, with header, at its end
    seen,       \* frames: none, none for the startup timeout, some
    cooling,    \* retry_after lies in the future
    reported    \* that the end was not clean

world == <<mode, changed, shutdown, want>>
thread == <<asked, pick, stops, ours>>
capture == <<child, session, key, lines, seen>>
system == <<running, traced>>
vars == <<world, system, at, thread, capture, cooling, reported>>

NoKey == [mode |-> "off", target |-> NoTarget]

Init ==
    /\ mode = "off" /\ changed = FALSE /\ shutdown = FALSE /\ want = NoTarget
    /\ running = {} /\ traced = {}
    /\ at = "loop" /\ asked = "off" /\ pick = NoTarget /\ stops = 3
    /\ child = NoChild /\ session = NoChild /\ ours = TRUE /\ key = NoKey
    /\ lines = "closed" /\ seen = "none" /\ cooling = FALSE /\ reported = FALSE

----------------------------------------------------------------------------
(* stop_with and stop_and_report_cleanup.                                    *)

(* The child has not ended and cannot be killed in time: nothing is let go. *)
StopStuck ==
    /\ child \in running
    /\ UNCHANGED <<capture, system>>

(* Mutant: the name of the session is taken whether or not it can be closed. *)
StopDoneForgets ==
    /\ child' = NoChild /\ running' = running \ {child}
    /\ key' = NoKey /\ lines' = "closed" /\ seen' = "none"
    /\ session' = NoChild /\ traced' \in {traced, traced \ {session}}

(* The child is gone, the readers are joined or left behind, and the session  *)
(* is closed or, when that fails, kept for the next attempt. *)
StopDone ==
    /\ child' = NoChild /\ running' = running \ {child}
    /\ key' = NoKey /\ lines' = "closed" /\ seen' = "none"
    /\ \/ session' = session /\ traced' = traced
       \/ session' = NoChild /\ traced' = traced \ {session}

Stop == StopStuck \/ StopDone

(* Mutant: only a child counts. *)
PendingChild(c, s) == c # NoChild

TeardownPending(c, s) == c # NoChild \/ s # NoChild

(* The cooldown holds the attempt off, or it leaves something behind. *)
StopReportedFails ==
    \/ /\ TeardownPending(child, session) /\ cooling
       /\ UNCHANGED <<capture, system, cooling>>
    \/ /\ ~(TeardownPending(child, session) /\ cooling)
       /\ Stop /\ TeardownPending(child', session')
       /\ cooling' = TRUE

StopReported ==
    /\ ~(TeardownPending(child, session) /\ cooling)
    /\ Stop /\ ~TeardownPending(child', session')

Cleanup == StopReportedFails \/ (StopReported /\ UNCHANGED cooling)

(* A capture that does not work is stopped, and the next has to wait. *)
Abandon ==
    /\ Stop
    /\ cooling' = TRUE /\ at' = "loop"
    /\ UNCHANGED <<world, thread, reported>>

----------------------------------------------------------------------------
(* run: the settings are read; new ones need a capture of their own.         *)

SameGeneration ==
    /\ at = "loop" /\ ~shutdown /\ ~changed
    /\ asked' = mode /\ at' = "reconcile"
    /\ UNCHANGED <<world, system, pick, stops, ours, capture, cooling, reported>>

NewGeneration ==
    /\ at = "loop" /\ ~shutdown /\ changed
    /\ \/ StopReportedFails /\ UNCHANGED <<changed, asked, ours, at>>
       \/ /\ StopReported /\ cooling' = FALSE
          /\ changed' = FALSE /\ ours' = (child' = NoChild)
          /\ asked' = mode /\ at' = "reconcile"
    /\ UNCHANGED <<mode, shutdown, want, pick, stops, reported>>

----------------------------------------------------------------------------
(* reconcile: what is to be captured.                                        *)

Disabled ==
    /\ at = "reconcile" /\ asked = "off"
    /\ Cleanup
    /\ at' = "loop"
    /\ UNCHANGED <<world, thread, reported>>

(* The target is looked up once a second. *)
NotDue ==
    /\ at = "reconcile" /\ asked # "off"
    /\ at' = "check"
    /\ UNCHANGED <<world, system, thread, capture, cooling, reported>>

SelectionFails ==
    /\ at = "reconcile" /\ asked = "game"
    /\ Stop
    /\ at' = "loop"
    /\ UNCHANGED <<world, thread, cooling, reported>>

NoneSelected ==
    /\ at = "reconcile" /\ asked = "game" /\ want = NoTarget
    /\ Cleanup
    /\ at' = "loop"
    /\ UNCHANGED <<world, thread, reported>>

Selected == IF asked = "presenting" THEN NoTarget ELSE want
CaptureKey(t) == [mode |-> asked, target |-> t]
SelectedHeld == child # NoChild /\ key = CaptureKey(Selected)

Select ==
    /\ at = "reconcile" /\ asked # "off" /\ (asked = "game" => want # NoTarget)
    /\ \/ /\ SelectedHeld /\ at' = "check"
          /\ UNCHANGED <<system, pick, capture, cooling>>
       \/ /\ ~SelectedHeld /\ cooling /\ at' = "loop"
          /\ UNCHANGED <<system, pick, capture, cooling>>
       \/ ~SelectedHeld /\ ~cooling /\ StopReportedFails /\ at' = "loop" /\ UNCHANGED pick
       \/ /\ ~SelectedHeld /\ ~cooling /\ StopReported /\ UNCHANGED cooling
          /\ pick' = Selected /\ at' = "start"
    /\ UNCHANGED <<world, asked, stops, ours, reported>>

----------------------------------------------------------------------------
(* start.                                                                    *)

(* confirm_start_request: what was asked for is still what is wanted. *)
ConfirmStart ==
    ~shutdown /\ ~changed /\ (asked = "game" => want = pick)

(* The file is not the approved one, the request has changed, or the process  *)
(* cannot be created. *)
StartFails ==
    /\ at \in {"start", "spawn"}
    /\ cooling' = TRUE /\ at' = "loop" /\ pick' = NoTarget
    /\ UNCHANGED <<world, system, asked, stops, ours, capture, reported>>

Confirm ==
    /\ at = "start" /\ ConfirmStart
    /\ at' = "spawn"
    /\ UNCHANGED <<world, system, thread, capture, cooling, reported>>

Spawn(c) ==
    /\ at = "spawn" /\ c \notin running \cup traced
    /\ child' = c /\ session' = c /\ ours' = TRUE
    /\ running' = running \cup {c}
    /\ at' = "readers"
    /\ UNCHANGED <<world, traced, asked, pick, stops, key, lines, seen, cooling, reported>>

(* The two reader threads, one for frames and one for diagnostics. *)
Readers ==
    /\ at = "readers" /\ pick' = NoTarget
    /\ \/ Stop /\ cooling' = TRUE /\ at' = "loop"
       \/ /\ key' = CaptureKey(pick) /\ lines' = "open" /\ seen' = "none"
          /\ cooling' = FALSE /\ at' = "check"
          /\ UNCHANGED <<child, session, system>>
    /\ UNCHANGED <<world, asked, stops, ours, reported>>

----------------------------------------------------------------------------
(* reconcile: the capture is looked after.                                   *)

(* The child has exited, cannot be queried, or lines were dropped; a line is  *)
(* invalid, the reader has ended or the statistics are full. *)
Unhealthy ==
    /\ at \in {"check", "drain"} /\ child # NoChild
    /\ Abandon

Check ==
    /\ at = "check" /\ (child = NoChild \/ child \in running)
    /\ at' = "drain"
    /\ UNCHANGED <<world, system, thread, capture, cooling, reported>>

(* The header or frames are read, or nothing. *)
Drain ==
    /\ at = "drain" /\ lines # "ended"
    /\ at' = "finish"
    /\ \/ lines = "open" /\ lines' = "header" /\ UNCHANGED seen
       \/ lines = "header" /\ seen' = "some" /\ UNCHANGED lines
       \/ UNCHANGED <<lines, seen>>
    /\ UNCHANGED <<world, system, thread, child, session, key, cooling, reported>>

StartupTimedOut == seen = "late" /\ (asked = "game" \/ lines # "header")

TimedOut == at = "finish" /\ StartupTimedOut /\ Abandon

(* The frames are judged, and another presenter may be chosen. *)
Finish ==
    /\ at = "finish" /\ ~StartupTimedOut
    /\ at' = "loop"
    /\ seen' \in {seen} \cup (IF asked = "presenting" /\ seen = "some" THEN {"none"} ELSE {})
    /\ UNCHANGED <<world, system, thread, child, session, key, lines, cooling, reported>>

----------------------------------------------------------------------------
(* The end of the thread: three attempts, a report, and one more in drop.    *)

FinalStop ==
    /\ at = "loop" /\ shutdown /\ stops > 0
    /\ Stop
    /\ stops' = IF TeardownPending(child', session') THEN stops - 1 ELSE 0
    /\ reported' \in IF stops' = 0 /\ TeardownPending(child', session')
                     THEN {TRUE} ELSE {reported}
    /\ UNCHANGED <<world, at, asked, pick, ours, cooling>>

DropCapture ==
    /\ at = "loop" /\ shutdown /\ stops = 0
    /\ Stop
    /\ at' = "ended"
    /\ UNCHANGED <<world, thread, cooling, reported>>

----------------------------------------------------------------------------
(* The program, time and Windows.                                            *)

Reload ==
    /\ ~shutdown
    /\ mode' \in {"off", "game", "presenting"}
    /\ changed' = TRUE
    /\ UNCHANGED <<shutdown, want, system, at, thread, capture, cooling, reported>>

Shutdown ==
    /\ ~shutdown /\ shutdown' = TRUE
    /\ UNCHANGED <<mode, changed, want, system, at, thread, capture, cooling, reported>>

TargetChanges ==
    /\ want' \in (Target \cup {NoTarget}) \ {want}
    /\ UNCHANGED <<mode, changed, shutdown, system, at, thread, capture, cooling, reported>>

(* Every tick reads the clock once. *)
CooldownEnds ==
    /\ at = "loop" /\ cooling /\ cooling' = FALSE
    /\ UNCHANGED <<world, system, at, thread, capture, reported>>

StartupTimeout ==
    /\ at = "loop" /\ child # NoChild /\ seen = "none" /\ seen' = "late"
    /\ UNCHANGED <<world, system, at, thread, child, session, key, lines,
                   cooling, reported>>

Trace(c) ==
    /\ c \in running \ traced /\ traced' = traced \cup {c}
    /\ UNCHANGED <<world, running, at, thread, capture, cooling, reported>>

(* It closes its session, or leaves it behind. *)
ChildExits(c) ==
    /\ c \in running /\ running' = running \ {c}
    /\ traced' \in {traced, traced \ {c}}
    /\ lines' = IF c = child /\ lines # "closed" THEN "ended" ELSE lines
    /\ UNCHANGED <<world, at, thread, child, session, key, seen, cooling, reported>>

(* Attempts to stop. *)
Stopping ==
    \/ NewGeneration \/ Disabled \/ SelectionFails \/ NoneSelected \/ Select
    \/ Readers \/ Unhealthy \/ TimedOut \/ FinalStop \/ DropCapture

Worker ==
    \/ SameGeneration \/ NotDue \/ StartFails \/ Confirm \/ Check \/ Drain
    \/ Finish \/ Stopping
    \/ \E c \in Child : Spawn(c)

Next ==
    \/ Worker \/ Reload \/ Shutdown \/ TargetChanges \/ CooldownEnds \/ StartupTimeout
    \/ \E c \in Child : Trace(c) \/ ChildExits(c)

LetsGoOfChild == Stopping /\ child # NoChild /\ child' = NoChild
LetsGoOfSession == Stopping /\ session # NoChild /\ session' = NoChild

(* The thread runs on and time passes. Of infinitely many attempts to stop a  *)
(* child and close its session one succeeds. *)
Fairness ==
    /\ WF_vars(Worker) /\ WF_vars(CooldownEnds)
    /\ SF_vars(LetsGoOfChild) /\ SF_vars(LetsGoOfSession)

Spec == Init /\ [][Next]_vars
FairSpec == Spec /\ Fairness

----------------------------------------------------------------------------
(* Properties.                                                               *)

TypeOK ==
    /\ {mode, asked} \subseteq {"off", "game", "presenting"}
    /\ {changed, shutdown, ours, cooling, reported} \subseteq BOOLEAN
    /\ {want, pick} \subseteq Target \cup {NoTarget}
    /\ running \subseteq Child /\ traced \subseteq Child
    /\ at \in {"loop", "reconcile", "start", "spawn", "readers", "check", "drain",
              "finish", "ended"}
    /\ {child, session} \subseteq Child \cup {NoChild}
    /\ lines \in {"closed", "open", "header", "ended"}
    /\ seen \in {"none", "late", "some"} /\ stops \in 0..3

(* At most one PresentMon.exe with one trace session is the program's, also   *)
(* when one could not be stopped and the settings and the target have changed *)
(* since (teardown_pending, start). Frames are read and sent under a          *)
(* generation only from a child started under it: the coordinator goes by it. *)
InUse == running \cup traced
Owned == INSTANCE Exclusive WITH User <- Child, inside <- InUse
ReadsItsOwn == at \in {"check", "drain", "finish"} /\ child # NoChild => ours
OneCapture == Owned!Spec /\ []ReadsItsOwn

(* A capture that is switched off goes away, however often stopping it fails. *)
StopsWhenOff == mode = "off" ~> (InUse = {} \/ mode # "off" \/ shutdown)
=============================================================================
