------------------------------ MODULE Recovery ------------------------------
(* One-shot recovery of a lost LCD connection: the append-only journal and    *)
(* the dashboard loop that drives it (recovery.rs), the hand-over of the      *)
(* single-instance mutex from a process to its replacement (main.rs), and the *)
(* worker thread that restarts Logitech Gaming Software (sdk.rs).             *)
(*                                                                            *)
(* Several processes share the journal and the mutex. A process identifier is *)
(* used by one process only: wait_for_parent compares creation times.         *)
EXTENDS Naturals, FiniteSets

CONSTANTS
    Proc,       \* the processes of LCDSirPlus that may ever run
    NoProc,     \* not a process
    Faults,     \* whether journal reads and writes and the worker may fail
    Crashes,    \* whether a process may end abnormally
    Timeouts    \* whether the 10 s and 60 s limits of a hand-over may elapse

ASSUME ConstantsAssumption ==
    /\ NoProc \notin Proc
    /\ Faults \in BOOLEAN /\ Crashes \in BOOLEAN /\ Timeouts \in BOOLEAN

VARIABLES
    disk,       \* the stage that replaying the journal file gives
    receipt,    \* process id in the last application-launched line
    owner,      \* holder of the single-instance mutex
    enabled,    \* the owner's configuration: physical backend and no safe mode
    status,     \* where each process is
    handoff,    \* what wait_for_parent returned in it
    parent,     \* the process that started it
    ready,      \* processes that signalled their readiness event
    mem,        \* the stage it holds in memory: Journal::stage
    spawns,     \* replacements started so far
    kills,      \* times LCore.exe was terminated so far
    \* The Recovery value of the owner and its worker thread.
    conn,       \* "never" connected, "up", or "lost" after having worked
    awaiting,   \* awaiting_reconnect
    permit,     \* RestartPermit
    worker,     \* the connection-recovery thread
    held,       \* logitech_result is Some
    interrupted,
    timedOut    \* worker_timed_out

process == <<status, handoff, parent, ready>>
budget  == <<spawns, kills>>
thread  == <<permit, worker, held>>
flags   == <<interrupted, timedOut>>
recovery == <<conn, awaiting, thread, flags>>
journal == <<disk, receipt, mem>>
vars == <<journal, owner, enabled, process, budget, recovery>>

----------------------------------------------------------------------------
(* The journal.                                                              *)

Unfinished == {"fresh", "appAttempt", "appLaunched", "resumed",
               "lgsAttempt", "lgsResult"}
Stage == Unfinished \cup {"finished"}

(* A journal that does not replay stays unreadable; "none" is a process that  *)
(* could not load it. *)
DiskStage == Stage \cup {"invalid"}
MemStage  == Stage \cup {"none"}

Event == {"application-attempt", "application-launched", "application-resumed",
          "logitech-attempt", "logitech-result", "logitech-wait-timeout",
          "finished"}

After(stage, event) ==
    CASE stage = "fresh" /\ event = "application-attempt" -> "appAttempt"
      [] stage = "appAttempt" /\ event = "application-launched" -> "appLaunched"
      [] stage = "appLaunched" /\ event = "application-resumed" -> "resumed"
      [] stage = "resumed" /\ event = "logitech-attempt" -> "lgsAttempt"
      [] stage = "lgsAttempt" /\ event = "logitech-result" -> "lgsResult"
      [] stage = "lgsAttempt" /\ event = "logitech-wait-timeout" -> "lgsAttempt"
      [] stage \in Unfinished /\ event = "finished" -> "finished"
      [] OTHER -> "invalid"

(* A line reaches the file. Writing from Fresh creates the file, so it fails  *)
(* when another process has created it meanwhile. *)
Recorded(p, event) ==
    /\ After(mem[p], event) # "invalid"
    /\ mem[p] = "fresh" => disk = "fresh"
    /\ mem' = [mem EXCEPT ![p] = After(mem[p], event)]
    /\ disk' = After(disk, event)

(* The transition is refused, or the write fails: before the line, after it   *)
(* (the flush failed) or in the middle of it. A failed write ends recovery.   *)
NotRecorded(p, event) ==
    \/ /\ After(mem[p], event) = "invalid"
       /\ UNCHANGED <<mem, disk>>
    \/ /\ After(mem[p], event) # "invalid"
       /\ mem' = [mem EXCEPT ![p] = "finished"]
       /\ \/ mem[p] = "fresh" /\ disk # "fresh" /\ disk' = disk
          \/ Faults /\ disk' \in {disk, After(disk, event), "invalid"}

Finish(p) == Recorded(p, "finished") \/ NotRecorded(p, "finished")

(* Stages at which recovery has started in this process and not ended.        *)
Active == {"resumed", "lgsAttempt", "lgsResult"}

FinishIfActive(p) ==
    IF mem[p] \in Active THEN Finish(p) ELSE UNCHANGED <<mem, disk>>

CancelPermit == permit' = IF permit = "open" THEN "cancelled" ELSE permit

----------------------------------------------------------------------------
(* Processes and the hand-over of the instance mutex.                        *)

Ended == {"unborn", "exited", "dead"}       \* "dead": exit code not zero
Status == Ended \cup
    {"handoff", "signalled", "refused", "acquire", "start", "decide", "failed",
     "run", "launching", "awaitReady", "giveUp", "launched", "settle",
     "drop", "dropWait", "dropEnd", "exiting"}

Alive(p) == status[p] \notin Ended

Goto(p, s) == status' = [status EXCEPT ![p] = s]

Init ==
    /\ disk = "fresh" /\ receipt = NoProc
    /\ owner = NoProc
    /\ enabled = TRUE
    /\ status = [p \in Proc |-> "unborn"]
    /\ handoff = [p \in Proc |-> "none"]
    /\ parent = [p \in Proc |-> NoProc]
    /\ ready = {}
    /\ mem = [p \in Proc |-> "none"]
    /\ spawns = 0 /\ kills = 0
    /\ conn = "never" /\ awaiting = FALSE
    /\ permit = "open" /\ worker = "none" /\ held = FALSE
    /\ interrupted = FALSE /\ timedOut = FALSE

(* The user starts the program. *)
Boot(p) ==
    /\ status[p] = "unborn"
    /\ Goto(p, "acquire")
    /\ UNCHANGED <<journal, owner, enabled, handoff, parent, ready, budget, recovery>>

(* startup_failed reads the journal; what it then appends rests on this       *)
(* reading, whatever another process writes in between. *)
ReadForFailure(p) ==
    \E s \in {disk, "none"} :
        /\ s = "none" => Faults \/ ~(\/ disk \in {"fresh", "appAttempt"}
                                     \/ disk = "appLaunched" /\ receipt = p)
        /\ s # "none" => \/ disk \in {"fresh", "appAttempt"}
                         \/ disk = "appLaunched" /\ receipt = p
        /\ mem' = [mem EXCEPT ![p] = s]
        /\ UNCHANGED <<disk, receipt>>

(* Mutant of Signal: the replacement wants the mutex before it is ready. *)
SignalAfterMutex(p) ==
    /\ status[p] = "handoff" /\ owner = NoProc
    /\ ready' = ready \cup {p}
    /\ Goto(p, "signalled")
    /\ UNCHANGED <<journal, owner, enabled, handoff, parent, budget, recovery>>

(* The replacement identifies its parent and signals readiness while the      *)
(* parent is known to run. *)
Signal(p) ==
    /\ status[p] = "handoff" /\ Alive(parent[p])
    /\ ready' = ready \cup {p}
    /\ Goto(p, "signalled")
    /\ UNCHANGED <<journal, owner, enabled, handoff, parent, budget, recovery>>

(* Mutant of ParentExited: the exit code is not looked at. *)
ParentExitedAnyhow(p) ==
    /\ status[p] = "signalled" /\ status[parent[p]] \in {"exited", "dead"}
    /\ handoff' = [handoff EXCEPT ![p] = "verified"]
    /\ Goto(p, "acquire")
    /\ UNCHANGED <<journal, owner, enabled, parent, ready, budget, recovery>>

(* The parent ended with exit code 0. *)
ParentExited(p) ==
    /\ status[p] = "signalled" /\ status[parent[p]] = "exited"
    /\ handoff' = [handoff EXCEPT ![p] = "verified"]
    /\ Goto(p, "acquire")
    /\ UNCHANGED <<journal, owner, enabled, parent, ready, budget, recovery>>

(* Any other end of wait_for_parent: the parent is gone before readiness or   *)
(* ended abnormally, did not end in 60 s, or could not be identified.         *)
HandoffFails(p) ==
    /\ \/ status[p] = "handoff" /\ (Faults \/ ~Alive(parent[p]))
       \/ status[p] = "signalled" /\ (Timeouts \/ status[parent[p]] = "dead")
    /\ handoff' = [handoff EXCEPT ![p] = "failed"]
    /\ ReadForFailure(p)
    /\ Goto(p, "refused")
    /\ UNCHANGED <<owner, enabled, parent, ready, budget, recovery>>

(* startup_failed appends. A replacement without a verified hand-over still   *)
(* tries to be the dashboard; one that cannot start ends. *)
AppendFailure(p) ==
    /\ status[p] \in {"refused", "failed"}
    /\ IF mem[p] = "none" THEN UNCHANGED <<mem, disk>> ELSE Finish(p)
    /\ Goto(p, IF status[p] = "refused" THEN "acquire" ELSE "dead")
    /\ UNCHANGED <<receipt, owner, enabled, handoff, parent, ready, budget, recovery>>

CannotStart(p) ==
    IF handoff[p] = "none"
    THEN Goto(p, "dead") /\ UNCHANGED journal
    ELSE Goto(p, "failed") /\ ReadForFailure(p)

Acquire(p) ==
    /\ status[p] = "acquire"
    /\ \/ /\ owner = NoProc
          /\ owner' = p
          /\ Goto(p, "start") /\ UNCHANGED journal
       \/ /\ owner # NoProc \/ Faults
          /\ CannotStart(p) /\ UNCHANGED owner
    /\ UNCHANGED <<enabled, handoff, parent, ready, budget, recovery>>

(* The configuration or the log cannot be opened: the mutex is given up       *)
(* before the failure is journalled. *)
StartFails(p) ==
    /\ Faults
    /\ status[p] = "start"
    /\ owner' = NoProc
    /\ CannotStart(p)
    /\ UNCHANGED <<enabled, handoff, parent, ready, budget, recovery>>

(* Recovery::start reads the journal ... *)
Load(p) ==
    /\ status[p] = "start"
    /\ \/ disk # "invalid" /\ mem' = [mem EXCEPT ![p] = disk]
       \/ (Faults \/ disk = "invalid") /\ mem' = [mem EXCEPT ![p] = "none"]
    /\ enabled' \in BOOLEAN
    /\ conn' = "never" /\ awaiting' = FALSE
    /\ permit' = "open" /\ held' = FALSE
    /\ interrupted' = FALSE /\ timedOut' = FALSE
    /\ Goto(p, "decide")
    /\ UNCHANGED <<disk, receipt, owner, handoff, parent, ready, budget, worker>>

Resumes(p) ==
    handoff[p] = "verified" /\ mem[p] = "appLaunched" /\ receipt = p

(* ... and decides whether this process continues a recovery. Only the        *)
(* replacement that the journal names does; every other process ends what it  *)
(* finds unfinished. *)
Decide(p) ==
    /\ status[p] = "decide"
    /\ \/ /\ Resumes(p)
          /\ \/ Recorded(p, "application-resumed")
             \/ NotRecorded(p, "application-resumed")
       \/ /\ ~Resumes(p)
          /\ mem[p] \in Unfinished
          /\ mem[p] = "fresh" => handoff[p] # "none"
          /\ Finish(p)
       \/ /\ mem[p] \in {"finished", "none"} \/ (mem[p] = "fresh" /\ handoff[p] = "none")
          /\ UNCHANGED <<mem, disk>>
    /\ Goto(p, "run")
    /\ UNCHANGED <<receipt, owner, enabled, handoff, parent, ready, budget, recovery>>

----------------------------------------------------------------------------
(* What the dashboard loop tells Recovery about the connection.              *)

(* Mutant of Healthy: the permit of a running worker stays open. *)
HealthyKeepsPermit(p) ==
    /\ status[p] = "run" /\ ~awaiting
    /\ conn' = "up"
    /\ IF ~held /\ mem[p] \in {"resumed", "lgsResult"}
       THEN Finish(p) ELSE UNCHANGED <<mem, disk>>
    /\ UNCHANGED <<receipt, owner, enabled, process, budget,
                   awaiting, permit, worker, held, flags>>

Healthy(p) ==
    /\ status[p] = "run" /\ ~awaiting
    /\ conn' = "up"
    /\ IF held THEN CancelPermit ELSE UNCHANGED permit
    /\ IF ~held /\ mem[p] \in {"resumed", "lgsResult"}
       THEN Finish(p) ELSE UNCHANGED <<mem, disk>>
    /\ UNCHANGED <<receipt, owner, enabled, process, budget,
                   awaiting, worker, held, flags>>

Disconnected(p) ==
    /\ status[p] = "run"
    /\ conn = "up" /\ conn' = "lost"
    /\ UNCHANGED <<journal, owner, enabled, process, budget, awaiting, thread, flags>>

ReconnectStarted(p) ==
    /\ status[p] = "run"
    /\ awaiting /\ awaiting' = FALSE
    /\ UNCHANGED <<journal, owner, enabled, process, budget, conn, thread, flags>>

Suspend(p) ==
    /\ CancelPermit
    /\ conn' = "never"
    /\ interrupted' = (interrupted \/ held)
    /\ IF held THEN UNCHANGED <<mem, disk>> ELSE FinishIfActive(p)

(* A configuration reload; a change of the backend suspends recovery. *)
Reload(p) ==
    /\ status[p] = "run"
    /\ enabled' \in BOOLEAN
    /\ \/ Suspend(p)
       \/ UNCHANGED <<mem, disk, conn, permit, interrupted>>
    /\ UNCHANGED <<receipt, owner, process, budget, awaiting, worker, held, timedOut>>

(* Exit from the tray. *)
Exit(p) ==
    /\ status[p] = "run"
    /\ Goto(p, "drop")
    /\ UNCHANGED <<journal, owner, enabled, handoff, parent, ready, budget, recovery>>

----------------------------------------------------------------------------
(* Recovery::tick. A disabled tick suspends before it looks at the worker;    *)
(* each grace period of 30 s may be over at any time.                         *)

Answered == held /\ worker \in {"ok", "err", "lost"}

SuspendHeld ==
    IF enabled
    THEN UNCHANGED <<conn, permit, interrupted>>
    ELSE CancelPermit /\ conn' = "never" /\ interrupted' = TRUE

TickDisabled(p) ==
    /\ status[p] = "run" /\ ~enabled /\ ~Answered
    /\ Suspend(p)
    /\ UNCHANGED <<receipt, owner, enabled, process, budget, awaiting, worker, held, timedOut>>

(* The worker has answered. *)
TickResult(p) ==
    /\ status[p] = "run" /\ Answered /\ worker # "lost"
    /\ SuspendHeld
    /\ held' = FALSE
    /\ \/ Recorded(p, "logitech-result") /\ Goto(p, "settle")
       \/ NotRecorded(p, "logitech-result") /\ UNCHANGED status
    /\ UNCHANGED <<receipt, owner, enabled, handoff, parent, ready, budget,
                   awaiting, worker, timedOut>>

Settle(p) ==
    /\ status[p] = "settle"
    /\ IF interrupted \/ (worker = "err" /\ conn = "up")
       THEN Finish(p) ELSE UNCHANGED <<mem, disk>>
    /\ IF ~interrupted /\ worker = "ok"
       THEN conn' = "never" /\ awaiting' = TRUE
       ELSE UNCHANGED <<conn, awaiting>>
    /\ Goto(p, "run")
    /\ UNCHANGED <<receipt, owner, enabled, handoff, parent, ready, budget, thread, flags>>

(* The worker ended without an answer. *)
TickWorkerLost(p) ==
    /\ status[p] = "run" /\ Answered /\ worker = "lost"
    /\ SuspendHeld
    /\ held' = FALSE
    /\ Finish(p)
    /\ UNCHANGED <<receipt, owner, enabled, process, budget, awaiting,
                   worker, timedOut>>

TickTimeout(p) ==
    /\ status[p] = "run" /\ held /\ ~Answered /\ ~timedOut
    /\ timedOut' = TRUE
    /\ CancelPermit
    /\ IF enabled THEN UNCHANGED <<conn, interrupted>>
                  ELSE conn' = "never" /\ interrupted' = TRUE
    /\ IF permit' = "committed"
       THEN /\ \/ Recorded(p, "logitech-wait-timeout")
               \/ NotRecorded(p, "logitech-wait-timeout")
            /\ UNCHANGED held
       ELSE held' = FALSE /\ Finish(p)
    /\ UNCHANGED <<receipt, owner, enabled, process, budget, awaiting, worker>>

Due(p) ==
    /\ status[p] = "run" /\ enabled
    /\ \/ mem[p] = "fresh" /\ conn = "lost"
       \/ mem[p] \in {"resumed", "lgsResult"}

(* Mutant of TickFinish: nothing ends the wait after the Logitech restart. *)
TickFinishBlockedOnly(p) ==
    /\ Due(p)
    /\ Faults
    /\ Finish(p)
    /\ UNCHANGED <<receipt, owner, enabled, process, budget, recovery>>

(* The SDK refused to trust its library, or both restarts are used up. *)
TickFinish(p) ==
    /\ Due(p)
    /\ mem[p] = "lgsResult" \/ Faults
    /\ Finish(p)
    /\ UNCHANGED <<receipt, owner, enabled, process, budget, recovery>>

(* Mutant of TickRestartApplication: a failed journal write is ignored. *)
TickRestartApplicationUnrecorded(p) ==
    /\ Due(p) /\ mem[p] = "fresh"
    /\ \/ Recorded(p, "application-attempt")
       \/ NotRecorded(p, "application-attempt")
    /\ Goto(p, "launching")
    /\ UNCHANGED <<receipt, owner, enabled, handoff, parent, ready, budget, recovery>>

TickRestartApplication(p) ==
    /\ Due(p) /\ mem[p] = "fresh"
    /\ \/ Recorded(p, "application-attempt") /\ Goto(p, "launching")
       \/ NotRecorded(p, "application-attempt") /\ UNCHANGED status
    /\ UNCHANGED <<receipt, owner, enabled, handoff, parent, ready, budget, recovery>>

TickRestartLogitech(p) ==
    /\ Due(p) /\ mem[p] = "resumed"
    /\ \/ /\ Recorded(p, "logitech-attempt")
          /\ \/ worker' = "validating" /\ held' = TRUE /\ UNCHANGED status
             \/ Faults /\ Goto(p, "giveUp") /\ UNCHANGED <<worker, held>>
       \/ /\ NotRecorded(p, "logitech-attempt")
          /\ UNCHANGED <<worker, held, status>>
    /\ UNCHANGED <<receipt, owner, enabled, handoff, parent, ready, budget,
                   conn, awaiting, permit, flags>>

----------------------------------------------------------------------------
(* restart_application: the loop is blocked until the replacement is ready.   *)

Launch(p) ==
    /\ status[p] = "launching"
    /\ \/ \E c \in Proc :
            /\ status[c] = "unborn"
            /\ status' = [status EXCEPT ![p] = "awaitReady", ![c] = "handoff"]
            /\ parent' = [parent EXCEPT ![c] = p]
            /\ spawns' = spawns + 1
       \/ /\ Faults \/ \A c \in Proc : status[c] # "unborn"
          /\ Goto(p, "giveUp") /\ UNCHANGED <<parent, spawns>>
    /\ UNCHANGED <<journal, owner, enabled, handoff, ready, kills, recovery>>

ChildReady(p) ==
    /\ status[p] = "awaitReady"
    /\ \E c \in ready : parent[c] = p /\ Alive(c)
    /\ Goto(p, "launched")
    /\ UNCHANGED <<journal, owner, enabled, handoff, parent, ready, budget, recovery>>

(* A replacement that is not ready in 10 s is killed. *)
ChildNotReady(p) ==
    /\ status[p] = "awaitReady"
    /\ \E c \in Proc :
         /\ parent[c] = p /\ (Timeouts \/ ~Alive(c))
         /\ status' = [status EXCEPT ![p] = "giveUp",
                                     ![c] = IF Alive(c) THEN "dead" ELSE @]
    /\ UNCHANGED <<journal, owner, enabled, handoff, parent, ready, budget, recovery>>

(* Mutant of GiveUp: a failed launch is tried again. *)
GiveUpRetries(p) ==
    /\ status[p] = "giveUp"
    /\ Goto(p, "launching")
    /\ UNCHANGED <<journal, owner, enabled, handoff, parent, ready, budget, recovery>>

GiveUp(p) ==
    /\ status[p] = "giveUp"
    /\ Finish(p)
    /\ Goto(p, "run")
    /\ UNCHANGED <<receipt, owner, enabled, handoff, parent, ready, budget, recovery>>

Launched(p) ==
    /\ status[p] = "launched"
    /\ \E c \in ready :
         /\ parent[c] = p
         /\ \/ Recorded(p, "application-launched") /\ Goto(p, "drop")
            \/ NotRecorded(p, "application-launched") /\ Goto(p, "run")
         /\ receipt' = IF disk' = "appLaunched" THEN c ELSE receipt
    /\ UNCHANGED <<owner, enabled, handoff, parent, ready, budget, recovery>>

----------------------------------------------------------------------------
(* The worker: restart_lcore. It runs as long as the owner's process.         *)

Working == owner # NoProc /\ UNCHANGED <<journal, owner, enabled, process, conn,
                                         awaiting, held, flags, spawns>>

(* The G13 is absent, a gate fails, or the permit is refused. *)
WorkerSkips ==
    /\ worker = "validating" /\ worker' = "err"
    /\ permit' \in {permit} \cup (IF permit = "open" THEN {"cancelled"} ELSE {})
    /\ Working /\ UNCHANGED kills

WorkerCommits ==
    /\ worker = "validating" /\ permit = "open"
    /\ permit' = "committed" /\ worker' = "committed"
    /\ Working /\ UNCHANGED kills

WorkerCloses ==
    /\ worker = "committed" /\ worker' = "killed"
    /\ kills' = kills + 1
    /\ Working /\ UNCHANGED permit

WorkerAnswers ==
    /\ \/ worker = "committed" /\ worker' = "err"
       \/ worker = "killed" /\ worker' \in {"ok", "err"}
    /\ Working /\ UNCHANGED <<kills, permit>>

WorkerPanics ==
    /\ Faults
    /\ worker \in {"validating", "committed", "killed"} /\ worker' = "lost"
    /\ Working /\ UNCHANGED <<kills, permit>>

Worker == WorkerSkips \/ WorkerCommits \/ WorkerCloses \/ WorkerAnswers \/ WorkerPanics

----------------------------------------------------------------------------
(* The end of a process: Recovery::drop, the release of the mutex, a crash.   *)

(* Mutant of Drop: the permit is not cancelled. *)
DropKeepsPermit(p) ==
    /\ status[p] = "drop"
    /\ Goto(p, IF permit = "committed" /\ held THEN "dropWait" ELSE "dropEnd")
    /\ UNCHANGED <<journal, owner, enabled, handoff, parent, ready, budget, recovery>>

Drop(p) ==
    /\ status[p] = "drop"
    /\ CancelPermit
    /\ Goto(p, IF permit' = "committed" /\ held THEN "dropWait" ELSE "dropEnd")
    /\ UNCHANGED <<journal, owner, enabled, handoff, parent, ready, budget,
                   conn, awaiting, worker, held, flags>>

(* At most 10 s for the answer of a restart that can no longer be stopped. *)
DropWait(p) ==
    /\ status[p] = "dropWait"
    /\ Timeouts \/ worker \in {"ok", "err", "lost"}
    /\ held' = FALSE
    /\ Recorded(p, "logitech-result") \/ NotRecorded(p, "logitech-result")
    /\ Goto(p, "dropEnd")
    /\ UNCHANGED <<receipt, owner, enabled, handoff, parent, ready, budget,
                   conn, awaiting, permit, worker, flags>>

DropEnd(p) ==
    /\ status[p] = "dropEnd"
    /\ FinishIfActive(p)
    /\ Goto(p, "exiting")
    /\ UNCHANGED <<receipt, owner, enabled, handoff, parent, ready, budget, recovery>>

(* Mutex and threads end with the process. *)
EndProcess(p, s) ==
    /\ Goto(p, s)
    /\ owner' = IF owner = p THEN NoProc ELSE owner
    /\ worker' = IF owner = p THEN "none" ELSE worker
    /\ UNCHANGED <<journal, enabled, handoff, parent, ready, budget,
                   conn, awaiting, permit, held, flags>>

ProcessExits(p) == status[p] = "exiting" /\ EndProcess(p, "exited")

Crash(p) == Crashes /\ Alive(p) /\ EndProcess(p, "dead")

----------------------------------------------------------------------------

Tick(p) ==
    \/ TickDisabled(p) \/ TickResult(p) \/ TickWorkerLost(p) \/ TickTimeout(p)
    \/ TickFinish(p) \/ TickRestartApplication(p) \/ TickRestartLogitech(p)

(* What a process does on its own, outside the loop's ticks. *)
Proceed(p) ==
    \/ Signal(p) \/ ParentExited(p) \/ HandoffFails(p) \/ AppendFailure(p)
    \/ Acquire(p) \/ StartFails(p) \/ Load(p) \/ Decide(p)
    \/ Launch(p) \/ ChildReady(p) \/ ChildNotReady(p) \/ GiveUp(p) \/ Launched(p)
    \/ Settle(p) \/ Drop(p) \/ DropWait(p) \/ DropEnd(p) \/ ProcessExits(p)

Environment(p) ==
    \/ Boot(p) \/ Healthy(p) \/ Disconnected(p) \/ ReconnectStarted(p)
    \/ Reload(p) \/ Exit(p) \/ Crash(p)

Next == Worker \/ \E p \in Proc : Tick(p) \/ Proceed(p) \/ Environment(p)

Spec == Init /\ [][Next]_vars

(* Threads that can run do run, and the loop ticks every 10 ms. *)
Fairness ==
    /\ WF_vars(Worker)
    /\ \A p \in Proc : WF_vars(Tick(p)) /\ WF_vars(Proceed(p))

FairSpec == Spec /\ Fairness

----------------------------------------------------------------------------
(* Properties.                                                               *)

TypeOK ==
    /\ disk \in DiskStage
    /\ receipt \in Proc \cup {NoProc}
    /\ owner \in Proc \cup {NoProc}
    /\ enabled \in BOOLEAN
    /\ status \in [Proc -> Status]
    /\ handoff \in [Proc -> {"none", "verified", "failed"}]
    /\ parent \in [Proc -> Proc \cup {NoProc}]
    /\ ready \subseteq Proc
    /\ mem \in [Proc -> MemStage]
    /\ spawns \in Nat /\ kills \in Nat
    /\ conn \in {"never", "up", "lost"}
    /\ awaiting \in BOOLEAN
    /\ permit \in {"open", "committed", "cancelled"}
    /\ worker \in {"none", "validating", "committed", "killed", "ok", "err", "lost"}
    /\ held \in BOOLEAN /\ interrupted \in BOOLEAN /\ timedOut \in BOOLEAN

(* The journal is written ahead of what it authorises: a replacement exists   *)
(* only after its attempt is on disk, and Logitech Gaming Software was closed *)
(* only after the Logitech attempt is. A crash cannot give the budget back.   *)
WriteAhead ==
    /\ spawns > 0 => disk # "fresh"
    /\ kills > 0 => disk \in {"lgsAttempt", "lgsResult", "finished", "invalid"}

(* The inductive invariant behind WriteAhead, CommitOnlyWhenNeeded,           *)
(* ResumedAfterParent and Budget.                                             *)

Looping == {"run", "launching", "awaitReady", "giveUp", "launched", "settle",
            "drop", "dropWait", "dropEnd", "exiting"}
Owning == {"start", "decide"} \cup Looping
Late == {"lgsAttempt", "lgsResult", "finished", "invalid"}

(* The statuses that hold the mutex are those of its owner. *)
MutexInv ==
    /\ \A p \in Proc : status[p] \in Owning => owner = p
    /\ owner # NoProc => status[owner] \in Owning

(* There is at most one replacement; only a replacement has a hand-over, and  *)
(* a verified one has seen its parent end normally. *)
ChildInv ==
    /\ \A p, q \in Proc :
         parent[p] # NoProc /\ parent[q] # NoProc => p = q
    /\ \A p \in Proc :
         /\ parent[p] # p
         /\ parent[p] # NoProc => spawns = 1
         /\ status[p] \in {"handoff", "signalled", "refused", "failed"}
              => parent[p] # NoProc
         /\ handoff[p] # "none" => parent[p] # NoProc
         /\ handoff[p] = "verified" => status[parent[p]] = "exited"

(* What the journal says of the budget that is spent. *)
SpendingInv ==
    /\ spawns \in {0, 1} /\ kills \in {0, 1}
    /\ disk \in {"appLaunched", "resumed", "lgsAttempt", "lgsResult"} => spawns = 1
    /\ \A p \in Proc :
         /\ status[p] = "launching" => spawns = 0 /\ disk # "fresh"
         /\ status[p] \in {"awaitReady", "launched"} => spawns = 1

(* In a verified replacement that continues the recovery, memory and disk     *)
(* agree, so a stage it acts on is durable. *)
CoherenceInv ==
    \A p \in Proc :
      /\ status[p] = "decide" =>
           /\ conn = "never" /\ ~held
           /\ handoff[p] = "verified" => mem[p] \in {disk, "none"}
      /\ status[p] \in Looping /\ mem[p] \in Active =>
           handoff[p] = "verified" /\ disk = mem[p]
      /\ status[p] \in Looping /\ mem[p] = "resumed" => conn # "up" /\ ~held

(* The worker exists only in a running owner, works on a journalled attempt,  *)
(* and finds an open permit only while its attempt is still wanted. *)
WorkerInv ==
    /\ worker # "none" =>
         /\ owner # NoProc /\ status[owner] \in Looping
         /\ disk \in Late /\ spawns = 1
    /\ worker \in {"validating", "committed"} => kills = 0
    /\ \A p \in Proc :
         status[p] \in {"dropWait", "dropEnd", "exiting"} => permit # "open"
    /\ worker = "validating" /\ permit = "open" =>
         /\ held /\ conn # "up"
         /\ disk = "lgsAttempt" /\ mem[owner] = "lgsAttempt"
         /\ status[owner] \in {"run", "drop"}

IInv == /\ TypeOK /\ WriteAhead /\ MutexInv /\ ChildInv /\ SpendingInv
        /\ CoherenceInv /\ WorkerInv

(* The restart permit is taken only for a journalled attempt and never while  *)
(* the dashboard knows the display to be connected: health reported before    *)
(* the commit always wins the race (Recovery::healthy, RestartPermit). *)
CommitOnlyWhenNeeded ==
    [][(permit # "committed" /\ permit' = "committed")
         => disk = "lgsAttempt" /\ conn # "up"]_vars

(* A recovery is continued only by a replacement whose parent has ended       *)
(* normally: a crash is never followed by a Logitech restart. *)
ResumedAfterParent ==
    [][(disk # "resumed" /\ disk' = "resumed")
         => /\ owner # NoProc /\ parent[owner] # NoProc
            /\ status[parent[owner]] = "exited"]_vars

(* The whole recovery spends no more than its one-shot budget. *)
Budget == INSTANCE RestartBudget WITH spawns <- spawns, kills <- kills
BudgetSpec == Budget!Spec

(* A recovery that is under way in a running dashboard comes to an end. *)
RecoveryEnds ==
    \A p \in Proc : (status[p] = "run" /\ mem[p] \in Active)
                      ~> (mem[p] \notin Active \/ ~Alive(p))

(* The relaunch of the dashboard does not end with both processes waiting for *)
(* each other: some dashboard runs again. *)
DashboardReturns ==
    \A p \in Proc : status[p] = "launching" ~> \E q \in Proc : status[q] = "run"
=============================================================================
