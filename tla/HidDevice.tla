----------------------------- MODULE HidDevice -----------------------------
(* The G13 as a raw HID device (backends/hid.rs): discovery, exclusive open,  *)
(* overlapped reports with a time limit, and the close that blanks the panel. *)
(* The device thread is the only caller. A competing owner is LCore.exe or    *)
(* the lamp array service.                                                    *)
EXTENDS Naturals

CONSTANT MaxInterfaces  \* HID interfaces that are present, at most

VARIABLES
    competitor, \* a competing owner is running
    at,         \* where the device thread is
    left,       \* interfaces that have not been visited
    handles,    \* native handles that are open: Handle
    io          \* the operation on the stack, as the driver has it

vars == <<competitor, at, left, handles, io>>
Handle == {"device", "read", "write"}

Init ==
    /\ competitor \in BOOLEAN
    /\ at = "closed" /\ left = 0 /\ handles = {} /\ io = "none"

(* owner_gate: refuses also when the processes cannot be listed. *)
Passes == ~competitor
Refuses == TRUE

Closed == at' = "closed" /\ handles' = {} /\ left' = 0

----------------------------------------------------------------------------
(* HidDevice::open.                                                          *)

OwnerGate ==
    /\ at = "closed"
    /\ Passes
    /\ at' = "discover" /\ left' \in 0..MaxInterfaces
    /\ UNCHANGED <<competitor, handles, io>>

(* An interface that cannot be opened or described, or is another device, is   *)
(* a rejection; the first that matches is the candidate. *)
Discover ==
    /\ at = "discover"
    /\ \/ left = 0 /\ Closed
       \/ left > 0 /\ left' = left - 1 /\ UNCHANGED <<at, handles>>
       \/ left > 0 /\ at' = "open" /\ UNCHANGED <<left, handles>>
    /\ UNCHANGED <<competitor, io>>

OpenPath ==
    /\ at = "open"
    /\ \/ at' = "recheck" /\ handles' = {"device"} /\ UNCHANGED left
       \/ Closed
    /\ UNCHANGED <<competitor, io>>

(* The owners are checked again now that no other program can open the device. *)
Recheck ==
    /\ at = "recheck"
    /\ \/ Passes /\ at' = "events" /\ UNCHANGED <<handles, left>>
       \/ Refuses /\ Closed
    /\ UNCHANGED <<competitor, io>>

(* Each handle that was made is closed when a later one cannot be. *)
CreateIoEvents ==
    /\ at = "events"
    /\ \/ handles = {"device"} /\ handles' = handles \cup {"read"} /\ UNCHANGED <<at, left>>
       \/ "read" \in handles /\ handles' = Handle /\ at' = "ready" /\ left' = 0
       \/ Closed
    /\ UNCHANGED <<competitor, io>>

----------------------------------------------------------------------------
(* Reports. ResetEvent, ReadFile and WriteFile may fail, end at once, or be   *)
(* pending.                                                                  *)

Start(a) ==
    /\ io = "none"
    /\ \E s \in {"pending", "done"} : io' = s /\ at' = a

ReadInputTimeout ==
    /\ at = "ready"
    /\ Start("read")
    /\ UNCHANGED <<competitor, left, handles>>

WriteReport ==
    /\ at = "ready"
    /\ Passes /\ Start("write")
    /\ UNCHANGED <<competitor, left, handles>>

(* close: the blank report is written under the same gate. *)
Close ==
    /\ at = "ready"
    /\ \/ Passes /\ Start("blank") /\ UNCHANGED <<left, handles>>
       \/ Refuses /\ Closed /\ UNCHANGED io
    /\ UNCHANGED competitor

CloseWithoutBlank ==
    /\ at = "ready"
    /\ Closed
    /\ UNCHANGED <<competitor, io>>

(* The call returns: with the transfer, a short transfer or the error. *)
ReturnFrom(a) ==
    /\ io' = "none"
    /\ IF a = "blank" THEN Closed ELSE at' = "ready" /\ UNCHANGED <<left, handles>>

(* overlapped_result, and the WAIT_OBJECT_0 of wait_pending. *)
OverlappedResult ==
    /\ at \in {"read", "write", "blank"} /\ io = "done"
    /\ ReturnFrom(at)
    /\ UNCHANGED competitor

(* Mutant: a timed-out operation is cancelled and not waited for. *)
CancelOnly ==
    /\ at \in {"read", "write", "blank"} /\ io = "pending"
    /\ IF at = "blank" THEN Closed ELSE at' = "ready" /\ UNCHANGED <<left, handles>>
    /\ io' = "cancelled"
    /\ UNCHANGED competitor

(* The limit passes or the wait fails: the operation is cancelled. *)
Cancel ==
    /\ at \in {"read", "write", "blank"} /\ io = "pending"
    /\ io' = "cancelled"
    /\ UNCHANGED <<competitor, at, left, handles>>

(* cancel_and_drain waits for the driver without a limit. *)
Drain ==
    /\ at \in {"read", "write", "blank"} /\ io = "ended"
    /\ ReturnFrom(at)
    /\ UNCHANGED competitor

----------------------------------------------------------------------------
(* The driver and the other programs.                                        *)

IoEnds ==
    /\ \/ io = "pending" /\ io' = "done"
       \/ io = "cancelled" /\ io' = "ended"
    /\ UNCHANGED <<competitor, at, left, handles>>

Compete ==
    /\ competitor' = ~competitor
    /\ UNCHANGED <<at, left, handles, io>>

Next ==
    \/ OwnerGate \/ Discover \/ OpenPath \/ Recheck \/ CreateIoEvents
    \/ ReadInputTimeout \/ WriteReport \/ Close \/ CloseWithoutBlank
    \/ OverlappedResult \/ Cancel \/ Drain \/ IoEnds \/ Compete

Spec == Init /\ [][Next]_vars

----------------------------------------------------------------------------
(* Properties.                                                               *)

TypeOK ==
    /\ competitor \in BOOLEAN /\ left \in 0..MaxInterfaces
    /\ at \in {"closed", "discover", "open", "recheck", "events", "ready",
               "read", "write", "blank"}
    /\ handles \subseteq Handle
    /\ io \in {"none", "pending", "done", "cancelled", "ended"}

(* The driver never keeps a report or a buffer whose call has returned, and a *)
(* device that is not open, or could not be opened, holds no handle           *)
(* (cancel_and_drain, create_io_events, close_handles).                       *)
DriverDrained ==
    /\ at \notin {"read", "write", "blank"} => io = "none"
    /\ at = "closed" => handles = {}
=============================================================================
