------------------------------ MODULE SdkOwner ------------------------------
(* The thread that owns Logitech's LCD library (backends/sdk.rs) and its one  *)
(* caller, the backend worker (backends/mod.rs).                              *)
(*                                                                            *)
(* Every call into the library may take any time or never return, so the      *)
(* caller waits with limits. A limit that elapses opens the circuit for the   *)
(* rest of the process and leaves the thread behind; the claim keeps a second *)
(* thread out for as long as the first has not left the library.              *)
EXTENDS Naturals, Sequences

CONSTANTS
    Thread,     \* owner threads that may exist at a time
    NoThread    \* not a thread

VARIABLES
    circuit,    \* CIRCUIT_OPEN
    active,     \* SDK_OWNER_ACTIVE, the claim
    blocked,    \* RECOVERY_BLOCKED
    \* The owner threads.
    thread,     \* where each is
    answer,     \* its ready channel
    queue,      \* its request channel
    serving,    \* the request it executes
    pinned,     \* the DLL it holds open without sharing writes
    loaded,     \* the DLL it has loaded
    \* The caller.
    caller,     \* where it is
    device,     \* the thread whose request channel it holds
    call,       \* the request it makes, and from where
    reply,      \* the reply channel of that request
    late,       \* the 5 s to connect have passed
    \* The file system.
    dll         \* whether the DLL at the expected path passes validation

owners == <<thread, answer, queue, serving, pinned, loaded>>
worker == <<caller, device, call, reply, late>>
statics == <<circuit, active, blocked>>
vars == <<statics, owners, worker, dll>>

Kind == {"submit", "poll", "close"}
NoRequest == [kind |-> "none", live |-> FALSE]
NoCall == [kind |-> "none", from |-> "none"]

Init ==
    /\ circuit = FALSE /\ active = FALSE /\ blocked = FALSE
    /\ thread = [t \in Thread |-> "none"]
    /\ answer = [t \in Thread |-> "none"]
    /\ queue = [t \in Thread |-> << >>]
    /\ serving = [t \in Thread |-> NoRequest]
    /\ pinned = [t \in Thread |-> "none"]
    /\ loaded = [t \in Thread |-> "none"]
    /\ caller = "idle" /\ device = NoThread
    /\ call = NoCall /\ reply = "none" /\ late = FALSE
    /\ dll \in {"accepted", "refused"}

----------------------------------------------------------------------------
(* The owner thread: discovery, loading, the request loop.                   *)

(* Mutant: the files are validated before they are pinned. *)
FollowsUnpinned ==
    [find |-> "validate", validate |-> "pin", pin |-> "load",
     load |-> "identify", identify |-> "init", init |-> "serve"]

(* The order of its steps: what is validated, loaded and entered is the file  *)
(* that was pinned before. *)
Follows == [find |-> "pin", pin |-> "validate", validate |-> "load",
            load |-> "identify", identify |-> "init", init |-> "serve"]

Goto(t, s) == thread' = [thread EXCEPT ![t] = s]

(* An error is reported to whoever still waits, and nothing stays open. *)
Refuse(t, distrust) ==
    /\ Goto(t, "release")
    /\ answer' = [answer EXCEPT ![t] = "err"]
    /\ pinned' = [pinned EXCEPT ![t] = "none"]
    /\ loaded' = [loaded EXCEPT ![t] = "none"]
    /\ blocked' = (blocked \/ distrust)
    /\ UNCHANGED <<active, queue, serving, worker, dll>>

Continue(t) ==
    /\ Goto(t, Follows[thread[t]])
    /\ UNCHANGED <<statics, answer, queue, serving, worker, dll>>

(* LCore.exe is no longer the process the caller saw, or cannot be examined.  *)
FindOwner(t) ==
    /\ thread[t] = "find"
    /\ \/ Continue(t) /\ UNCHANGED <<pinned, loaded>>
       \/ Refuse(t, FALSE) /\ UNCHANGED circuit

(* Pinning shares the file for reading only: it is not replaced meanwhile. *)
Pin(t) ==
    /\ thread[t] = "pin"
    /\ \/ Continue(t) /\ pinned' = [pinned EXCEPT ![t] = dll] /\ UNCHANGED loaded
       \/ Refuse(t, TRUE) /\ UNCHANGED circuit

Validate(t) ==
    /\ thread[t] = "validate"
    /\ \/ dll = "accepted" /\ Continue(t) /\ UNCHANGED <<pinned, loaded>>
       \/ Refuse(t, TRUE) /\ UNCHANGED circuit

LoadLibrary(t) ==
    /\ thread[t] = "load"
    /\ \/ Continue(t) /\ loaded' = [loaded EXCEPT ![t] = dll] /\ UNCHANGED pinned
       \/ Refuse(t, FALSE) /\ UNCHANGED circuit

(* A module that cannot be shown to be the pinned file opens the circuit. *)
Identify(t) ==
    /\ thread[t] = "identify"
    /\ \/ loaded[t] = pinned[t] /\ Continue(t) /\ UNCHANGED <<pinned, loaded>>
       \/ Refuse(t, TRUE) /\ circuit' = TRUE

LogiLcdInit(t) ==
    /\ thread[t] = "init"
    /\ \/ /\ Goto(t, "serve")
          /\ answer' = [answer EXCEPT ![t] = "ok"]
          /\ UNCHANGED <<statics, queue, serving, pinned, loaded, worker, dll>>
       \/ Refuse(t, FALSE) /\ UNCHANGED circuit

Receive(t) ==
    /\ thread[t] = "serve" /\ queue[t] # << >>
    /\ Goto(t, "exec")
    /\ serving' = [serving EXCEPT ![t] = Head(queue[t])]
    /\ queue' = [queue EXCEPT ![t] = Tail(@)]
    /\ UNCHANGED <<statics, answer, pinned, loaded, worker, dll>>

(* Every request brings a reply channel of its own; a reply to a request that *)
(* was given up on is lost. *)
Send(t, r) == reply' = IF serving[t].live THEN r ELSE reply

Results == [submit |-> {"unit", "error"},
            poll |-> {"connected", "disconnected"},
            close |-> {"unit", "error"}]

Execute(t) ==
    /\ thread[t] = "exec"
    /\ IF serving[t].kind = "close"
       THEN Goto(t, "free") /\ UNCHANGED <<serving, reply>>
       ELSE /\ \E r \in Results[serving[t].kind] : Send(t, r)
            /\ Goto(t, "serve")
            /\ serving' = [serving EXCEPT ![t] = NoRequest]
    /\ UNCHANGED <<statics, answer, queue, pinned, loaded, caller, device, call, late, dll>>

(* The caller has dropped the device without a request to close it. *)
SenderGone(t) ==
    /\ thread[t] = "serve" /\ queue[t] = << >> /\ device # t
    /\ Goto(t, "free")
    /\ UNCHANGED <<statics, answer, queue, serving, pinned, loaded, worker, dll>>

(* LogiLcdShutdown and FreeLibrary, then the reply to the request to close. *)
Shutdown(t) ==
    /\ thread[t] = "free"
    /\ \E r \in Results.close : Send(t, r)
    /\ Goto(t, "release")
    /\ serving' = [serving EXCEPT ![t] = NoRequest]
    /\ loaded' = [loaded EXCEPT ![t] = "none"]
    /\ pinned' = [pinned EXCEPT ![t] = "none"]
    /\ queue' = [queue EXCEPT ![t] = << >>]
    /\ UNCHANGED <<statics, answer, caller, device, call, late, dll>>

Release(t) ==
    /\ thread[t] = "release"
    /\ Goto(t, "none")
    /\ active' = FALSE
    /\ UNCHANGED <<circuit, blocked, answer, queue, serving, pinned, loaded, worker, dll>>

Owner(t) ==
    \/ FindOwner(t) \/ Pin(t) \/ Validate(t) \/ LoadLibrary(t) \/ Identify(t)
    \/ LogiLcdInit(t) \/ Receive(t) \/ Execute(t) \/ SenderGone(t)
    \/ Shutdown(t) \/ Release(t)

(* A call into Windows or Logitech's library never returns. *)
Hang(t) ==
    /\ thread[t] \in {"validate", "load", "init", "exec", "free"}
    /\ Goto(t, "hung")
    /\ UNCHANGED <<statics, answer, queue, serving, pinned, loaded, worker, dll>>

----------------------------------------------------------------------------
(* The caller.                                                               *)

Claim ==
    /\ caller = "idle" /\ ~circuit /\ ~active
    /\ active' = TRUE
    /\ caller' = "claimed"
    /\ UNCHANGED <<circuit, blocked, owners, device, call, reply, late, dll>>

Spawn(t) ==
    /\ caller = "claimed" /\ thread[t] = "none"
    /\ Goto(t, "find")
    /\ answer' = [answer EXCEPT ![t] = "none"]
    /\ caller' = "ready" /\ device' = t
    /\ UNCHANGED <<statics, queue, serving, pinned, loaded, call, reply, late, dll>>

SpawnFails ==
    /\ caller = "claimed"
    /\ active' = FALSE
    /\ caller' = "idle"
    /\ UNCHANGED <<circuit, blocked, owners, device, call, reply, late, dll>>

DropSender == caller' = "idle" /\ device' = NoThread /\ call' = NoCall

(* Mutant of NotReady: a caller that gives up takes the claim with it. *)
NotReadyUnclaimed(timeout) ==
    /\ circuit' = circuit
    /\ active' = FALSE
    /\ DropSender
    /\ UNCHANGED <<blocked, owners, reply, late, dll>>

(* open() returns without a device; the thread finds its channels closed. *)
NotReady(timeout) ==
    /\ circuit' = (circuit \/ timeout)
    /\ DropSender
    /\ UNCHANGED <<active, blocked, owners, reply, late, dll>>

WaitReady ==
    /\ caller = "ready"
    /\ \/ /\ answer[device] = "ok"
          /\ caller' = "connect" /\ late' = FALSE
          /\ UNCHANGED <<statics, owners, device, call, reply, dll>>
       \/ answer[device] = "err" /\ NotReady(FALSE)
       \/ answer[device] = "none" /\ NotReady(TRUE)

ConnectDeadline ==
    /\ caller = "connect" \/ call.from = "connect"
    /\ ~late
    /\ late' = TRUE
    /\ UNCHANGED <<statics, owners, caller, device, call, reply, dll>>

Begin(kind, from) ==
    /\ caller' = "dispatch"
    /\ call' = [kind |-> kind, from |-> from]
    /\ reply' = "none"

Use ==
    /\ \/ caller = "connect" /\ Begin("poll", "connect")
       \/ caller = "device" /\ \E k \in Kind \ {"close"} : Begin(k, "device")
       \/ caller \in {"device", "broken"} /\ Begin("close", "close")
    /\ UNCHANGED <<statics, owners, device, late, dll>>

Dispatch ==
    /\ caller = "dispatch" /\ queue[device] = << >>
    /\ queue' = [queue EXCEPT ![device] = <<[kind |-> call.kind, live |-> TRUE]>>]
    /\ caller' = "reply"
    /\ UNCHANGED <<statics, thread, answer, serving, pinned, loaded,
                   device, call, reply, late, dll>>

(* Mutant: the device is kept until its close is answered. *)
FailedClosing ==
    \/ call.from = "connect" /\ Begin("close", "close") /\ UNCHANGED device
    \/ call.from = "device" /\ caller' = "broken" /\ UNCHANGED <<device, call, reply>>
    \/ call.from = "close" /\ caller' = "broken" /\ UNCHANGED <<device, call, reply>>

(* What a failed call leads to: a device that is being opened is dropped,     *)
(* which closes it; the worker closes one in use; closing is tried once. *)
Failed ==
    \/ call.from = "connect" /\ Begin("close", "close") /\ UNCHANGED device
    \/ call.from = "device" /\ caller' = "broken" /\ UNCHANGED <<device, call, reply>>
    \/ call.from = "close" /\ DropSender /\ UNCHANGED reply

DispatchTimeout ==
    /\ caller = "dispatch" /\ queue[device] # << >>
    /\ circuit' = TRUE
    /\ Failed
    /\ UNCHANGED <<active, blocked, owners, late, dll>>

GiveUp(t) ==
    /\ queue' = [queue EXCEPT ![t] = [i \in DOMAIN @ |-> [@[i] EXCEPT !.live = FALSE]]]
    /\ serving' = [serving EXCEPT ![t].live = FALSE]

ReplyTimeout ==
    /\ caller = "reply" /\ reply = "none"
    /\ circuit' = TRUE
    /\ GiveUp(device)
    /\ Failed
    /\ UNCHANGED <<active, blocked, thread, answer, pinned, loaded, late, dll>>

(* connected() of PhysicalDevice::poll, the loop of open(), close(). *)
Answered ==
    /\ caller = "reply" /\ reply # "none"
    /\ \/ reply = "error" /\ Failed
       \/ reply = "disconnected" /\ call.from = "device" /\ Failed
       \/ reply = "disconnected" /\ call.from = "connect" /\ late /\ Failed
       \/ /\ reply = "disconnected" /\ call.from = "connect" /\ ~late
          /\ caller' = "connect" /\ UNCHANGED <<device, call, reply>>
       \/ /\ reply \in {"unit", "connected"} /\ call.from # "close"
          /\ caller' = "device" /\ call' = NoCall /\ UNCHANGED <<device, reply>>
       \/ reply \in {"unit", "connected"} /\ call.from = "close" /\ DropSender /\ UNCHANGED reply
    /\ UNCHANGED <<statics, owners, late, dll>>

Caller ==
    \/ SpawnFails \/ WaitReady \/ Use \/ Dispatch \/ DispatchTimeout
    \/ ReplyTimeout \/ Answered
    \/ \E t \in Thread : Spawn(t)

----------------------------------------------------------------------------
(* An installer replaces the DLL while nobody holds it. *)
ReplaceDll ==
    /\ \A t \in Thread : pinned[t] = "none" /\ loaded[t] = "none"
    /\ dll' \in {"accepted", "refused"} \ {dll}
    /\ UNCHANGED <<statics, owners, worker>>

Next ==
    \/ Claim \/ Caller \/ ConnectDeadline \/ ReplaceDll
    \/ \E t \in Thread : Owner(t) \/ Hang(t)

Fairness ==
    /\ WF_vars(Caller) /\ WF_vars(ConnectDeadline)
    /\ \A t \in Thread : WF_vars(Owner(t))

Spec == Init /\ [][Next]_vars
FairSpec == Spec /\ Fairness

----------------------------------------------------------------------------
(* Properties.                                                               *)

Request == [kind : Kind \cup {"none"}, live : BOOLEAN]

TypeOK ==
    /\ circuit \in BOOLEAN /\ active \in BOOLEAN /\ blocked \in BOOLEAN
    /\ thread \in [Thread -> {"none", "find", "pin", "validate", "load", "identify",
                             "init", "serve", "exec", "free", "release", "hung"}]
    /\ answer \in [Thread -> {"none", "ok", "err"}]
    /\ serving \in [Thread -> Request]
    /\ \A t \in Thread : Len(queue[t]) <= 1 /\ \A i \in DOMAIN queue[t] : queue[t][i] \in Request
    /\ pinned \in [Thread -> {"none", "accepted", "refused"}]
    /\ loaded \in [Thread -> {"none", "accepted", "refused"}]
    /\ caller \in {"idle", "claimed", "ready", "connect", "device", "dispatch", "reply", "broken"}
    /\ device \in Thread \cup {NoThread}
    /\ call \in [kind : Kind \cup {"none"}, from : {"none", "connect", "device", "close"}]
    /\ reply \in {"none", "unit", "connected", "disconnected", "error"}
    /\ late \in BOOLEAN /\ dll \in {"accepted", "refused"}

(* The library whose code runs is the one that was validated, whatever an     *)
(* installer does to the file meanwhile (discover_pinned, Native::load). *)
OnlyVerifiedRuns ==
    \A t \in Thread :
        thread[t] \in {"init", "serve", "exec", "free"} => loaded[t] = "accepted"

(* A second owner thread is not started before the first has shut the library *)
(* down and ended, also when the caller has given up on it and it returns late *)
(* (claim_sdk_owner, the end of the thread in open). Once a limit has elapsed, *)
(* none is started at all, the only request that is still made is the one to  *)
(* close (call_timeout), and a late answer is not taken for that of another   *)
(* request (the reply channel of an Envelope). *)
Alive == {t \in Thread : thread[t] # "none"}
Owned == INSTANCE Exclusive WITH User <- Thread, inside <- Alive

AnswerFits ==
    caller = "reply" => reply \in {"none", "error"} \cup Results[call.kind]

NoUseAfterCircuit ==
    [][\A t \in Thread :
         /\ circuit /\ queue[t] = << >> /\ queue'[t] # << >>
              => queue'[t][1].kind = "close"
         /\ circuit /\ thread[t] = "none" => thread'[t] = "none"]_vars

OneOwner == Owned!Spec /\ NoUseAfterCircuit /\ []AnswerFits

(* The caller is never held up by the library: it comes back from opening,    *)
(* calling and closing with a device it can use or without one. *)
CallerReturns ==
    caller \notin {"idle", "device"} ~> caller \in {"idle", "device"}
=============================================================================
