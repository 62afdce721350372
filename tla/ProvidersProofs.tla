--------------------------- MODULE ProvidersProofs ---------------------------
(* Proofs about the workers of MCProviders, each for every value of its       *)
(* constants.                                                                 *)
EXTENDS MCProviders, Integers, SequenceTheorems, TLAPS

----------------------------------------------------------------------------
(* HidDevice. A transfer is out only while its caller waits, and a handle is  *)
(* open only from the open of the device on.                                  *)

Waits == {"read", "write", "blank"}

HInv ==
    /\ deviceAt \notin Waits => report = "none"
    /\ deviceAt \in {"closed", "discover", "open"} => handles = {}

LEMMA HInvInit == Device!Init => HInv
BY DEF Device!Init, HInv, Waits

LEMMA HInvNext ==
    ASSUME HInv, [Device!Next]_(Device!vars)
    PROVE  HInv'
<1> USE DEF HInv, Waits, Device!Closed, Device!Start, Device!ReturnFrom
<1>1. CASE Device!OwnerGate \/ Device!Discover \/ Device!OpenPath \/ Device!Recheck
  BY <1>1 DEF Device!OwnerGate, Device!Discover, Device!OpenPath, Device!Recheck
<1>2. CASE Device!CreateIoEvents \/ Device!CloseWithoutBlank \/ Device!Close
  BY <1>2 DEF Device!CreateIoEvents, Device!CloseWithoutBlank, Device!Close
<1>3. CASE Device!ReadInputTimeout \/ Device!WriteReport
  BY <1>3 DEF Device!ReadInputTimeout, Device!WriteReport
<1>4. CASE Device!OverlappedResult \/ Device!Cancel \/ Device!Drain
  BY <1>4 DEF Device!OverlappedResult, Device!Cancel, Device!Drain
<1>5. CASE Device!IoEnds \/ Device!Compete \/ UNCHANGED Device!vars
  BY <1>5 DEF Device!IoEnds, Device!Compete, Device!vars
<1>6. QED BY <1>1, <1>2, <1>3, <1>4, <1>5 DEF Device!Next

----------------------------------------------------------------------------
(* HeadsetQuery. Whatever is in the driver is either the query's, which then  *)
(* has the gate for itself, or was given up on, and the gate says so.         *)

Pending == {"writing", "reading", "grace"}
Probing == Pending \cup {"write", "read"}

GateTells ==
    /\ queryAt \in Probing => gate = {"active"}
    /\ gate \subseteq {"active", "quarantined"}
    /\ \A i \in Io :
          holder[i] \notin {"none", "query"} => "quarantined" \in gate

Held ==
    /\ \A i \in Io : holder[i] = "none" <=> io[i] = "none"
    /\ \A i \in Io : holder[i] = "query" => i = current /\ queryAt \in Pending
    /\ queryAt \in Pending => current \in Io /\ holder[current] = "query"
    /\ \A i, j \in Io : holder[i] # "none" /\ holder[j] # "none" => i = j

QInv ==
    /\ io \in [Io -> {"none", "pending", "cancelled", "done"}]
    /\ holder \in [Io -> {"none", "query", "reaper", "retained"}]
    /\ GateTells /\ Held

LEMMA QInvInit == Headset!Init => QInv
BY DEF Headset!Init, QInv, GateTells, Held, Probing, Pending

(* An operation that ends is let go of with its buffer. *)
LEMMA LetsGo ==
    ASSUME QInv, NEW i \in Io, io[i] = "done", Headset!Released(i)
    PROVE  /\ io' = [io EXCEPT ![i] = "none"]
           /\ holder' = [holder EXCEPT ![i] = "none"]
           /\ Headset!OneIo!Leave(i)
<1>1. io' = [io EXCEPT ![i] = "none"] /\ holder' = [holder EXCEPT ![i] = "none"]
  BY DEF Headset!Released, QInv
<1>2. Headset!BusyIo = {i}
  BY DEF QInv, Held, Headset!BusyIo
<1>3. Headset!BusyIo' = {}
  BY <1>1, <1>2 DEF Headset!BusyIo, QInv
<1>4. QED BY <1>1, <1>2, <1>3 DEF Headset!OneIo!Leave

(* Only the beginning of an operation fills the driver. *)
LEMMA BeginKeeps ==
    ASSUME QInv, Headset!Begin
    PROVE  QInv' /\ [Headset!OneIo!Next]_(Headset!BusyIo)
<1> USE DEF QInv, Probing, Pending, GateTells, Held
<1>1. CASE UNCHANGED <<io, holder>>
  BY <1>1 DEF Headset!Begin, Headset!Error, Headset!BusyIo
<1>2. CASE ~UNCHANGED <<io, holder>>
  <2>1. PICK i \in Io, s \in {"pending", "done"} :
            /\ holder[i] = "none"
            /\ io' = [io EXCEPT ![i] = s]
            /\ holder' = [holder EXCEPT ![i] = "query"]
            /\ current' = i
    BY <1>2 DEF Headset!Begin
  <2>2. /\ queryAt \in {"write", "read"} /\ queryAt' \in {"writing", "reading"}
        /\ gate' = gate
    BY <1>2 DEF Headset!Begin
  <2>3. \A j \in Io : holder[j] = "none"
    BY <2>2
  <2>4. Headset!BusyIo = {} /\ Headset!BusyIo' = {i}
    BY <2>1, <2>3 DEF Headset!BusyIo
  <2>5. Headset!OneIo!Enter(i)
    BY <2>4 DEF Headset!OneIo!Enter
  <2>6. QED BY <2>1, <2>2, <2>3, <2>5 DEF Headset!OneIo!Next
<1>3. QED BY <1>1, <1>2

(* What ends for the query. *)
LEMMA EndKeeps ==
    ASSUME QInv, Headset!Written \/ Headset!Read \/ Headset!ReclaimCanceled
    PROVE  QInv' /\ [Headset!OneIo!Next]_(Headset!BusyIo)
<1> USE DEF QInv, Probing, Pending, GateTells, Held
<1>1. /\ current \in Io /\ io[current] = "done" /\ Headset!Released(current)
      /\ queryAt \in Pending
  BY DEF Headset!Written, Headset!Read, Headset!ReclaimCanceled
<1>2. /\ io' = [io EXCEPT ![current] = "none"]
      /\ holder' = [holder EXCEPT ![current] = "none"]
      /\ Headset!OneIo!Leave(current)
  BY <1>1, LetsGo
<1>3. queryAt' \notin Pending /\ (gate' = gate \/ gate' = gate \ {"active"})
  BY DEF Headset!Written, Headset!Read, Headset!ReclaimCanceled, Headset!Error,
    Headset!Return
<1>4. queryAt' \in Probing => gate' = gate
  BY DEF Headset!Written, Headset!Read, Headset!ReclaimCanceled, Headset!Error,
    Headset!Return
<1>5. QED BY <1>1, <1>2, <1>3, <1>4 DEF Headset!OneIo!Next

(* What is cancelled, is left to a reaper, or ends for the driver stays in it. *)
LEMMA DriverKeeps ==
    ASSUME QInv,
           Headset!Cancel \/ Headset!Quarantine \/ \E i \in Io : Headset!IoEnds(i)
    PROVE  QInv' /\ [Headset!OneIo!Next]_(Headset!BusyIo)
<1> USE DEF QInv, Probing, Pending, GateTells, Held
<1>1. CASE Headset!Cancel
  BY <1>1 DEF Headset!Cancel, Headset!BusyIo
<1>2. CASE Headset!Quarantine
  BY <1>2 DEF Headset!Quarantine, Headset!Error, Headset!BusyIo
<1>3. CASE \E i \in Io : Headset!IoEnds(i)
  BY <1>3 DEF Headset!IoEnds, Headset!query, Headset!BusyIo
<1>4. QED BY <1>1, <1>2, <1>3

LEMMA ReapKeeps ==
    ASSUME QInv, NEW i \in Io, Headset!Reap(i)
    PROVE  QInv' /\ [Headset!OneIo!Next]_(Headset!BusyIo)
<1> USE DEF QInv, Probing, Pending, GateTells, Held
<1>1. /\ holder[i] = "reaper" /\ io[i] = "done" /\ Headset!Released(i)
      /\ gate' = gate \ {"quarantined"}
      /\ UNCHANGED Headset!query
  BY DEF Headset!Reap
<1>2. /\ io' = [io EXCEPT ![i] = "none"]
      /\ holder' = [holder EXCEPT ![i] = "none"]
      /\ Headset!OneIo!Leave(i)
  BY <1>1, LetsGo
<1>3. \A j \in Io : holder'[j] = "none"
  BY <1>1, <1>2
<1>4. QED BY <1>1, <1>2, <1>3 DEF Headset!query, Headset!OneIo!Next

LEMMA QInvNext ==
    ASSUME QInv, [Headset!Next]_(Headset!vars)
    PROVE  QInv' /\ [Headset!OneIo!Next]_(Headset!BusyIo)
<1> USE DEF QInv, Probing, Pending, GateTells, Held, Headset!BusyIo
<1>1. CASE Headset!Enter
  BY <1>1 DEF Headset!Enter
<1>2. CASE Headset!OutOfCandidates \/ Headset!TryCandidate
  BY <1>2 DEF Headset!OutOfCandidates, Headset!TryCandidate, Headset!Return,
    Headset!PermitsCandidateProbe
<1>3. CASE Headset!Deadline \/ UNCHANGED Headset!vars
  <2>1. UNCHANGED <<gate, queryAt, current, io, holder>>
    BY <1>3 DEF Headset!Deadline, Headset!vars, Headset!query
  <2>2. QED BY <2>1
<1>4. QED
  BY <1>1, <1>2, <1>3, BeginKeeps, EndKeeps, DriverKeeps, ReapKeeps
     DEF Headset!Next, Headset!Query

----------------------------------------------------------------------------
(* Capture. Whatever runs or traces is what the thread holds, by its process  *)
(* or by its session, and a new child is started when it holds neither.       *)

CapInv ==
    /\ running \subseteq Child /\ traced \subseteq Child
    /\ running \subseteq {child}
    /\ Capturing!InUse \subseteq {session}
    /\ captureAt \in {"start", "spawn"} =>
          child = NoChild /\ session = NoChild
    /\ child # NoChild => ours

LEMMA CapInvInit == Capturing!Init => CapInv
BY DEF Capturing!Init, CapInv, Capturing!InUse

(* Fewer in use than the one that was is a stutter or a step of Exclusive. *)
LEMMA Shrinks ==
    ASSUME CapInv, Capturing!InUse' \subseteq Capturing!InUse
    PROVE  [Capturing!Owned!Next]_(Capturing!InUse)
<1>1. CASE Capturing!InUse' = Capturing!InUse
  BY <1>1
<1>2. CASE Capturing!InUse' # Capturing!InUse
  <2>1. PICK c \in Capturing!InUse : c \notin Capturing!InUse'
    BY <1>2
  <2>2. c \in Child /\ Capturing!InUse = {c} /\ Capturing!InUse' = {}
    BY <2>1 DEF CapInv, Capturing!InUse
  <2>3. Capturing!Owned!Leave(c)
    BY <2>2 DEF Capturing!Owned!Leave
  <2>4. QED BY <2>2, <2>3 DEF Capturing!Owned!Next
<1>3. QED BY <1>1, <1>2

(* An attempt to stop, however it ends, forgets nothing that is in use. *)
LEMMA StopKeeps ==
    ASSUME CapInv, Capturing!Stop
    PROVE  /\ running' \subseteq Child /\ traced' \subseteq Child
           /\ running' \subseteq {child'}
           /\ Capturing!InUse' \subseteq {session'}
           /\ Capturing!InUse' \subseteq Capturing!InUse
           /\ child' \in {child, NoChild}
<1> USE DEF CapInv, Capturing!InUse
<1>1. CASE Capturing!StopStuck
  BY <1>1 DEF Capturing!StopStuck, Capturing!capture, Capturing!system
<1>2. CASE Capturing!StopDone
  BY <1>2 DEF Capturing!StopDone
<1>3. QED BY <1>1, <1>2 DEF Capturing!Stop

(* An attempt that leaves nothing behind, and one that does. *)
LEMMA CleanupKeeps ==
    ASSUME CapInv, Capturing!StopReportedFails \/ Capturing!StopReported
    PROVE  /\ running' \subseteq Child /\ traced' \subseteq Child
           /\ running' \subseteq {child'}
           /\ Capturing!InUse' \subseteq {session'}
           /\ Capturing!InUse' \subseteq Capturing!InUse
           /\ child' \in {child, NoChild}
           /\ Capturing!StopReported => child' = NoChild /\ session' = NoChild
<1>1. CASE Capturing!Stop
  BY <1>1, StopKeeps DEF Capturing!StopReported, Capturing!TeardownPending
<1>2. CASE UNCHANGED <<Capturing!capture, Capturing!system>>
  BY <1>2 DEF CapInv, Capturing!InUse, Capturing!capture, Capturing!system,
    Capturing!StopReported, Capturing!TeardownPending
<1>3. QED
  BY <1>1, <1>2 DEF Capturing!StopReportedFails, Capturing!StopReported

LEMMA CapInvNext ==
    ASSUME CapInv, [Capturing!Next]_(Capturing!vars)
    PROVE  CapInv' /\ [Capturing!Owned!Next]_(Capturing!InUse)
<1> USE DEF CapInv, Capturing!world, Capturing!system, Capturing!thread,
    Capturing!capture
\* The steps that may stop a capture.
<1>1. CASE Capturing!NewGeneration
  <2>1. Capturing!StopReportedFails \/ Capturing!StopReported
    BY <1>1 DEF Capturing!NewGeneration
  <2>2. captureAt' \in {"loop", "reconcile"}
    BY <1>1 DEF Capturing!NewGeneration
  <2>3. child' # NoChild => ours'
    <3>1. CASE Capturing!StopReported
      BY <3>1, CleanupKeeps
    <3>2. CASE ~Capturing!StopReported
      <4>1. ours' = ours
        BY <1>1, <3>2 DEF Capturing!NewGeneration
      <4>2. QED BY <2>1, <4>1, CleanupKeeps
    <3>3. QED BY <3>1, <3>2
  <2>4. QED BY <2>1, <2>2, <2>3, CleanupKeeps, Shrinks
<1>2. CASE Capturing!Disabled \/ Capturing!NoneSelected
  <2>1. /\ Capturing!StopReportedFails \/ Capturing!StopReported
        /\ captureAt' = "loop" /\ ours' = ours
    BY <1>2 DEF Capturing!Disabled, Capturing!NoneSelected, Capturing!Cleanup
  <2>2. QED BY <2>1, CleanupKeeps, Shrinks
<1>3. CASE Capturing!Select
  <2>1. CASE UNCHANGED <<Capturing!system, Capturing!capture>>
    BY <1>3, <2>1, CleanupKeeps DEF Capturing!Select, Capturing!InUse
  <2>2. CASE ~UNCHANGED <<Capturing!system, Capturing!capture>>
    <3>1. /\ Capturing!StopReportedFails \/ Capturing!StopReported
          /\ captureAt' = "loop" \/ Capturing!StopReported
          /\ ours' = ours
      BY <1>3, <2>2 DEF Capturing!Select
    <3>2. QED BY <3>1, CleanupKeeps, Shrinks
  <2>3. QED BY <2>1, <2>2
<1>4. CASE \/ Capturing!SelectionFails \/ Capturing!Unhealthy \/ Capturing!TimedOut
           \/ Capturing!FinalStop \/ Capturing!DropCapture
  <2>1. Capturing!Stop /\ captureAt' \notin {"start", "spawn"} /\ ours' = ours
    BY <1>4 DEF Capturing!SelectionFails, Capturing!Unhealthy, Capturing!TimedOut,
      Capturing!Abandon, Capturing!FinalStop, Capturing!DropCapture
  <2>2. QED BY <2>1, StopKeeps, Shrinks
<1>5. CASE Capturing!Readers
  <2>1. captureAt' \in {"loop", "check"} /\ ours' = ours
    BY <1>5 DEF Capturing!Readers
  <2>2. Capturing!Stop \/ UNCHANGED <<child, session, running, traced>>
    BY <1>5 DEF Capturing!Readers
  <2>3. QED BY <2>1, <2>2, StopKeeps, Shrinks DEF Capturing!InUse
\* The start of one.
<1>6. ASSUME NEW c \in Child, Capturing!Spawn(c)
      PROVE  CapInv' /\ [Capturing!Owned!Next]_(Capturing!InUse)
  <2>1. Capturing!InUse = {}
    BY <1>6, NoChildAssumption DEF Capturing!Spawn, Capturing!InUse
  <2>2. Capturing!InUse' = {c} /\ child' = c /\ session' = c
    BY <1>6, <2>1 DEF Capturing!Spawn, Capturing!InUse
  <2>3. Capturing!Owned!Enter(c)
    BY <2>1, <2>2 DEF Capturing!Owned!Enter
  <2>4. captureAt' = "readers" /\ ours' = TRUE
    BY <1>6 DEF Capturing!Spawn
  <2>5. QED
    BY <2>2, <2>3, <2>4 DEF Capturing!Owned!Next, Capturing!InUse
\* The child by itself.
<1>7. ASSUME NEW c \in Child, Capturing!Trace(c) \/ Capturing!ChildExits(c)
      PROVE  CapInv' /\ [Capturing!Owned!Next]_(Capturing!InUse)
  <2>1. /\ UNCHANGED <<child, session, captureAt, ours>>
        /\ running' \subseteq running /\ traced' \subseteq Capturing!InUse
    BY <1>7 DEF Capturing!Trace, Capturing!ChildExits, Capturing!InUse
  <2>2. QED BY <2>1, Shrinks DEF Capturing!InUse
\* All that leaves it alone.
<1>8. CASE \/ Capturing!SameGeneration \/ Capturing!NotDue \/ Capturing!StartFails
           \/ Capturing!Confirm \/ Capturing!Check \/ Capturing!Drain
           \/ Capturing!Finish \/ Capturing!Reload \/ Capturing!Shutdown
           \/ Capturing!TargetChanges \/ Capturing!CooldownEnds
           \/ Capturing!StartupTimeout \/ UNCHANGED Capturing!vars
  <2>1. UNCHANGED <<child, session, running, traced, ours>>
    BY <1>8, Zenon DEF Capturing!SameGeneration, Capturing!NotDue,
      Capturing!StartFails, Capturing!Confirm, Capturing!Check, Capturing!Drain,
      Capturing!Finish, Capturing!Reload, Capturing!Shutdown,
      Capturing!TargetChanges, Capturing!CooldownEnds, Capturing!StartupTimeout,
      Capturing!vars
  <2>2. captureAt' \in {"start", "spawn"} => captureAt \in {"start", "spawn"}
    BY <1>8 DEF Capturing!SameGeneration, Capturing!NotDue,
      Capturing!StartFails, Capturing!Confirm, Capturing!Check, Capturing!Drain,
      Capturing!Finish, Capturing!Reload, Capturing!Shutdown,
      Capturing!TargetChanges, Capturing!CooldownEnds, Capturing!StartupTimeout,
      Capturing!vars
  <2>3. QED BY <2>1, <2>2 DEF Capturing!InUse
<1>9. QED
  BY <1>1, <1>2, <1>3, <1>4, <1>5, <1>6, <1>7, <1>8
     DEF Capturing!Next, Capturing!Worker, Capturing!Stopping

----------------------------------------------------------------------------
(* DiscordPipe. Between packets nothing of one is outstanding, whether or not *)
(* a pipe is open, until an error is swallowed; the body that is read is the  *)
(* one announced.                                                             *)

Whole ==
    /\ pipeAt # "write" /\ ~swallowed => sent \in {0, Piping!Header + 1}
    /\ pipeAt \notin {"header", "body"} /\ ~swallowed => got \in {0, Piping!Header + incoming}
    /\ pipeAt = "body" => length = incoming

Known ==
    /\ pipeAt \in Piping!Transfer \cup {"ready"} => Piping!Validated(server)
    /\ pipeAt = "verifying" <=> verifier = "awaited"

PInv == Whole /\ Known /\ (pipeAt \notin Piping!Transfer => transfer = "none")

LEMMA PInvInit == Piping!Init => PInv
BY DEF Piping!Init, PInv, Whole, Known, Piping!Transfer

(* Opening: at most one verification is awaited, and only its answer about    *)
(* the pipe that is open leads on. *)
LEMMA OpenKeeps ==
    ASSUME PInv,
           \/ Piping!OpenPipe \/ Piping!TryPipe \/ Piping!NoPipe \/ Piping!Identify
           \/ Piping!StartVerifier \/ Piping!Verified \/ Piping!VerifierTimesOut
           \/ Piping!VerifierEnds
    PROVE  PInv'
<1> USE DEF PInv, Whole, Known, Piping!Transfer, Piping!place, Piping!peer,
    Piping!driver, Piping!stream, Piping!Reject, Piping!Close
<1>1. CASE Piping!OpenPipe \/ Piping!TryPipe \/ Piping!NoPipe
  BY <1>1 DEF Piping!OpenPipe, Piping!TryPipe, Piping!NoPipe
<1>2. CASE Piping!Identify
  BY <1>2 DEF Piping!Identify
<1>3. CASE Piping!StartVerifier
  BY <1>3 DEF Piping!StartVerifier
<1>4. CASE Piping!Verified
  BY <1>4 DEF Piping!Verified
<1>5. CASE Piping!VerifierTimesOut \/ Piping!VerifierEnds
  BY <1>5 DEF Piping!VerifierTimesOut, Piping!VerifierEnds
<1>6. QED BY <1>1, <1>2, <1>3, <1>4, <1>5

(* An error closes the pipe, or is swallowed and leaves it as it is. *)
LEMMA ErrorKeeps ==
    ASSUME NEW out, NEW in, Known, pipeAt \in Piping!Transfer,
           Piping!Error(out, in), verifier' = verifier, transfer' = "none"
    PROVE  PInv'
<1> USE DEF PInv, Whole, Known, Piping!Transfer
<1>1. CASE Piping!Close("failed")
  BY <1>1 DEF Piping!Close
<1>2. CASE pipeAt' = "ready" /\ swallowed' = TRUE /\ server' = server
  BY <1>2
<1>3. QED BY <1>1, <1>2 DEF Piping!Error

(* Packets: a call returns with all of its bytes moved, or with an error. *)
LEMMA PacketKeeps ==
    ASSUME PInv,
           \/ Piping!BeginRefresh \/ Piping!EndRefresh
           \/ Piping!BeginWrite \/ Piping!BeginRead \/ Piping!StartTransfer
           \/ Piping!Completed
           \/ Piping!Cancel \/ Piping!Drained \/ Piping!TransferFails
           \/ Piping!EndSession \/ Piping!IoEnds
    PROVE  PInv'
<1> USE DEF PInv, Whole, Known, Piping!Transfer, Piping!place, Piping!peer,
    Piping!driver, Piping!stream
<1>1. CASE \/ Piping!BeginRefresh \/ Piping!EndRefresh
           \/ Piping!BeginWrite \/ Piping!BeginRead \/ Piping!StartTransfer
  BY <1>1 DEF Piping!BeginRefresh, Piping!EndRefresh, Piping!BeginWrite,
    Piping!BeginRead, Piping!StartTransfer
<1>2. CASE Piping!Completed
  <2>1. CASE pipeAt = "write"
    BY <1>2, <2>1 DEF Piping!Completed
  <2>2. CASE pipeAt = "header"
    <3>1. CASE incoming > MaxFrame
      <4>1. Piping!Error(sent, Piping!Header) /\ verifier' = verifier /\ transfer' = "none"
        BY <1>2, <2>2, <3>1 DEF Piping!Completed, Piping!Packet
      <4>2. QED BY <2>2, <4>1, ErrorKeeps
    <3>2. CASE ~(incoming > MaxFrame)
      BY <1>2, <2>2, <3>2 DEF Piping!Completed, Piping!Packet, Piping!Header
    <3>3. QED BY <3>1, <3>2
  <2>3. CASE pipeAt = "body"
    BY <1>2, <2>3 DEF Piping!Completed
  <2>4. QED BY <1>2, <2>1, <2>2, <2>3 DEF Piping!Completed
<1>3. CASE Piping!Cancel \/ Piping!IoEnds
  BY <1>3 DEF Piping!Cancel, Piping!IoEnds
<1>4. CASE Piping!Drained \/ Piping!TransferFails
  <2>1. PICK n : Piping!TransferError(n)
    BY <1>4, Zenon DEF Piping!Drained, Piping!TransferFails
  <2>2. PICK out, in : Piping!Error(out, in)
    BY <2>1, Zenon DEF Piping!TransferError
  <2>3. verifier' = verifier /\ transfer' = "none"
    BY <1>4, Zenon DEF Piping!Drained, Piping!TransferFails
  <2>4. pipeAt \in Piping!Transfer
    BY <1>4, Zenon DEF Piping!Drained, Piping!TransferFails
  <2>5. QED BY <2>2, <2>3, <2>4, ErrorKeeps
<1>5. CASE Piping!EndSession
  BY <1>5 DEF Piping!EndSession, Piping!Close
<1>6. QED BY <1>1, <1>2, <1>3, <1>4, <1>5

LEMMA PInvNext ==
    ASSUME PInv, [Piping!Next]_(Piping!vars)
    PROVE  PInv'
<1>1. CASE UNCHANGED Piping!vars
  BY <1>1 DEF Piping!vars, PInv, Whole, Known, Piping!Transfer, Piping!place,
      Piping!peer, Piping!driver, Piping!stream
<1>2. QED
  BY <1>1, OpenKeeps, PacketKeeps DEF Piping!Next

(* Whoever may begin a packet has a verified Discord before him and, unless   *)
(* an error was swallowed, the last packet behind him, and the driver keeps   *)
(* no transfer of a call that has returned, however transfers are split,      *)
(* cancelled and late (transfer_all, read_exact, cancel_and_drain,            *)
(* verify_authenticode_bounded).                                              *)
LEMMA StaysInStep == Piping!Spec => []Piping!InStep
<1>1. PInv => Piping!InStep
  BY DEF PInv, Whole, Known, Piping!InStep, Piping!Transfer
<1>2. QED
  BY <1>1, PInvInit, PInvNext, PTL DEF Piping!Spec

----------------------------------------------------------------------------
(* PinnedFile. From the moment the file is held every directory               *)
(* above it is, so that the path leads to it until it is let go; from the     *)
(* moment it is examined it is what may run. *)

Holding == {"file", "validate", "repin", "spawn", "load", "loaded"}
Examined == {"repin", "spawn", "load", "loaded"}

Pinned ==
    /\ pinAt \in Holding => Pinning!Dir \subseteq heldLevels
    /\ pinAt \in Holding \ {"file"} => fileAttached
    /\ fileAttached => heldFile = pathTarget

TInv ==
    /\ Pinned
    /\ pinAt \in Examined => Pinning!Trusted(heldFile)
    /\ codeRunning # Pinning!NoFile => Pinning!Trusted(codeRunning)

LEMMA TInvInit == Pinning!Init => TInv
BY DEF Pinning!Init, TInv, Pinned, Holding, Examined

(* The last directory that is held completes the path. *)
LEMMA PinDirectoryKeeps ==
    ASSUME TInv, Pinning!PinDirectory
    PROVE  TInv'
<1>1. PICK d \in Pinning!Dir :
          /\ heldLevels = 1..(d - 1) /\ heldLevels' = heldLevels \cup {d}
          /\ pinAt' = IF d = Levels THEN "file" ELSE "pin"
  BY DEF Pinning!PinDirectory
<1>2. pinAt' = "file" => Pinning!Dir \subseteq heldLevels'
  <2>1. SUFFICES ASSUME d = Levels, NEW e \in Pinning!Dir PROVE e \in heldLevels'
    BY <1>1
  <2>2. e \in 1..d /\ d \in Int
    BY <1>1, <2>1 DEF Pinning!Dir
  <2>3. e \in 1..(d - 1) \/ e = d
    BY <2>2
  <2>4. QED BY <1>1, <2>3
<1>3. pinAt' \in {"file", "pin"} /\ UNCHANGED <<pinnedKind, Pinning!outside,
    heldFile, fileAttached, codeRunning>>
  BY <1>1 DEF Pinning!PinDirectory
<1>4. QED
  BY <1>2, <1>3 DEF TInv, Pinned, Holding, Examined, Pinning!outside,
      Pinning!Trusted, Pinning!Signed,
    Pinning!Artifact, Pinning!Candidate, Pinning!SameSigner, Pinning!SameProduct,
        Pinning!Image

(* The other steps of the caller. *)
LEMMA CallerKeeps ==
    ASSUME TInv,
           \/ Pinning!ResolveExecutable \/ Pinning!DiscoverPinned
           \/ Pinning!RejectWritableChain
           \/ Pinning!PinFile \/ Pinning!PinFails \/ Pinning!Validate
           \/ Pinning!Repin \/ Pinning!Spawn \/ Pinning!LoadLibrary
           \/ Pinning!Identify \/ Pinning!Stop
    PROVE  TInv'
<1> USE DEF TInv, Pinned, Holding, Examined, Pinning!outside, Pinning!pins,
    Pinning!Refuse, Pinning!LetGo, Pinning!Trusted,
            Pinning!Signed, Pinning!Artifact, Pinning!Candidate,
                Pinning!SameSigner, Pinning!SameProduct, Pinning!Image
<1>1. CASE Pinning!ResolveExecutable \/ Pinning!DiscoverPinned
  BY <1>1 DEF Pinning!ResolveExecutable, Pinning!DiscoverPinned
<1>2. CASE Pinning!RejectWritableChain \/ Pinning!PinFile \/ Pinning!PinFails
  BY <1>2 DEF Pinning!RejectWritableChain, Pinning!PinFile, Pinning!PinFails
<1>3. CASE Pinning!Validate
  BY <1>3 DEF Pinning!Validate
<1>4. CASE Pinning!Repin \/ Pinning!Spawn
  BY <1>4 DEF Pinning!Repin, Pinning!Spawn
<1>5. CASE Pinning!LoadLibrary \/ Pinning!Identify \/ Pinning!Stop
  BY <1>5 DEF Pinning!LoadLibrary, Pinning!Identify, Pinning!Stop
<1>6. QED BY <1>1, <1>2, <1>3, <1>4, <1>5

LEMMA TInvNext ==
    ASSUME TInv, [Pinning!Next]_(Pinning!vars)
    PROVE  TInv'
<1> USE DEF TInv, Pinned, Holding, Examined, Pinning!outside, Pinning!pins,
    Pinning!Trusted,
            Pinning!Signed, Pinning!Artifact, Pinning!Candidate,
                Pinning!SameSigner, Pinning!SameProduct, Pinning!Image
<1>1. CASE Pinning!ReplaceDirectory
  BY <1>1 DEF Pinning!ReplaceDirectory
<1>2. CASE Pinning!ReplaceFile
  BY <1>2 DEF Pinning!ReplaceFile
<1>3. CASE UNCHANGED Pinning!vars
  BY <1>3 DEF Pinning!vars
<1>4. QED
  BY <1>1, <1>2, <1>3, PinDirectoryKeeps, CallerKeeps DEF Pinning!Next

(* Only what passed the examination runs, however deep the path is and        *)
(* whatever other programs rename or replace between the steps                *)
(* (pin_parent_chain, pin_file). *)
LEMMA RunsVerifiedOnly == Pinning!Spec => []Pinning!OnlyVerifiedRuns
<1>1. TInv => Pinning!OnlyVerifiedRuns
  BY DEF TInv, Pinned, Pinning!OnlyVerifiedRuns
<1>2. QED
  BY <1>1, TInvInit, TInvNext, PTL DEF Pinning!Spec

----------------------------------------------------------------------------
(* SdkOwner. The types, as far as the proofs need them.                       *)

Starting == {"find", "pin", "validate", "load", "identify", "init"}
Stage == Starting \cup {"none", "serve", "exec", "free", "release", "hung"}

SType ==
    /\ thread \in [Thread -> Stage]
    /\ answer \in [Thread -> {"none", "ok", "err"}]
    /\ serving \in [Thread -> Sdk!Request]
    /\ queue \in [Thread -> Seq(Sdk!Request)]
    /\ pinned \in [Thread -> {"none", "accepted", "refused"}]
    /\ loaded \in [Thread -> {"none", "accepted", "refused"}]
    /\ dll \in {"accepted", "refused"}
    /\ caller \in {"ready", "connect", "device", "dispatch", "reply", "broken"}
         => device \in Thread
    /\ caller \in {"dispatch", "reply"} =>
         /\ call.kind \in Sdk!Kind
         /\ call.from \in {"connect", "device", "close"}
         /\ call.kind = "close" <=> call.from = "close"

(* The order of the steps of an owner thread. *)
LEMMA Order ==
    /\ Sdk!Follows["find"] = "pin" /\ Sdk!Follows["pin"] = "validate"
    /\ Sdk!Follows["validate"] = "load" /\ Sdk!Follows["load"] = "identify"
    /\ Sdk!Follows["identify"] = "init" /\ Sdk!Follows["init"] = "serve"
BY DEF Sdk!Follows

(* A queue whose requests were given up on holds the same requests. *)
LEMMA GivenUp ==
    ASSUME NEW q \in Seq(Sdk!Request)
    PROVE  [i \in DOMAIN q |-> [q[i] EXCEPT !.live = FALSE]] \in Seq(Sdk!Request)
<1>1. ASSUME NEW i \in DOMAIN q PROVE [q[i] EXCEPT !.live = FALSE] \in Sdk!Request
  <2>1. q[i] \in Sdk!Request
    OBVIOUS
  <2>2. QED BY <2>1 DEF Sdk!Request
<1>2. QED BY <1>1

LEMMA STypeInit == Sdk!Init => SType
BY DEF Sdk!Init, SType, Stage, Starting, Sdk!NoRequest, Sdk!Request

LEMMA STypeNext ==
    ASSUME SType, [Sdk!Next]_(Sdk!vars)
    PROVE  SType'
<1> USE DEF SType, Sdk!Kind, Stage, Starting, Sdk!Goto, Sdk!statics, Sdk!owners,
      Sdk!worker
<1>1. ASSUME NEW t \in Thread,
             \/ Sdk!FindOwner(t) \/ Sdk!Pin(t) \/ Sdk!Validate(t)
             \/ Sdk!LoadLibrary(t) \/ Sdk!Identify(t) \/ Sdk!LogiLcdInit(t)
      PROVE SType'
  <2>1. ASSUME thread[t] \in Starting, Sdk!Continue(t)
        PROVE  /\ thread' \in [Thread -> Stage]
               /\ UNCHANGED <<answer, serving, queue, dll, caller, device, call>>
    BY <2>1, Order DEF Sdk!Continue
  <2>2. CASE \E distrust \in BOOLEAN : Sdk!Refuse(t, distrust)
    BY <2>2 DEF Sdk!Refuse
  <2>3. CASE Sdk!FindOwner(t)
    BY <2>1, <2>2, <2>3 DEF Sdk!FindOwner
  <2>4. CASE Sdk!Pin(t)
    <3>1. CASE /\ Sdk!Continue(t)
               /\ pinned' = [pinned EXCEPT ![t] = dll] /\ UNCHANGED loaded
      <4>1. pinned' \in [Thread -> {"none", "accepted", "refused"}]
        BY <3>1
      <4>2. thread[t] \in Starting
        BY <2>4 DEF Sdk!Pin
      <4>3. QED BY <2>1, <3>1, <4>1, <4>2
    <3>2. QED BY <2>2, <2>4, <3>1 DEF Sdk!Pin
  <2>5. CASE Sdk!Validate(t)
    BY <2>1, <2>2, <2>5 DEF Sdk!Validate
  <2>6. CASE Sdk!LoadLibrary(t)
    <3>1. CASE /\ Sdk!Continue(t)
               /\ loaded' = [loaded EXCEPT ![t] = dll] /\ UNCHANGED pinned
      <4>1. loaded' \in [Thread -> {"none", "accepted", "refused"}]
        BY <3>1
      <4>2. thread[t] \in Starting
        BY <2>6 DEF Sdk!LoadLibrary
      <4>3. QED BY <2>1, <3>1, <4>1, <4>2
    <3>2. QED BY <2>2, <2>6, <3>1 DEF Sdk!LoadLibrary
  <2>7. CASE Sdk!Identify(t)
    BY <2>1, <2>2, <2>7 DEF Sdk!Identify
  <2>8. CASE Sdk!LogiLcdInit(t)
    BY <2>2, <2>8 DEF Sdk!LogiLcdInit
  <2>9. QED BY <1>1, <2>3, <2>4, <2>5, <2>6, <2>7, <2>8
<1>3. ASSUME NEW t \in Thread, Sdk!Receive(t) PROVE SType'
  <2>1. Head(queue[t]) \in Sdk!Request /\ Tail(queue[t]) \in Seq(Sdk!Request)
    BY <1>3 DEF Sdk!Receive
  <2>2. QED BY <1>3, <2>1 DEF Sdk!Receive
<1>4. ASSUME NEW t \in Thread,
             \/ Sdk!Execute(t) \/ Sdk!SenderGone(t) \/ Sdk!Release(t) \/ Sdk!Hang(t)
      PROVE SType'
  <2>1. Sdk!NoRequest \in Sdk!Request
    BY DEF Sdk!NoRequest, Sdk!Request
  <2>2. QED BY <1>4, <2>1 DEF Sdk!Execute, Sdk!SenderGone, Sdk!Release, Sdk!Hang
<1>5. ASSUME NEW t \in Thread, Sdk!Shutdown(t) PROVE SType'
  <2>1. Sdk!NoRequest \in Sdk!Request /\ << >> \in Seq(Sdk!Request)
    BY DEF Sdk!NoRequest, Sdk!Request
  <2>2. QED BY <1>5, <2>1 DEF Sdk!Shutdown
<1>6. CASE Sdk!Claim \/ Sdk!SpawnFails \/ Sdk!WaitReady \/ Sdk!Use
  BY <1>6 DEF Sdk!Claim, Sdk!SpawnFails, Sdk!WaitReady, Sdk!Use, Sdk!Begin,
      Sdk!NotReady, Sdk!DropSender
<1>7. ASSUME NEW t \in Thread, Sdk!Spawn(t) PROVE SType'
  BY <1>7 DEF Sdk!Spawn
<1>8. CASE Sdk!Dispatch
  <2>1. [kind |-> call.kind, live |-> TRUE] \in Sdk!Request
    BY <1>8 DEF Sdk!Dispatch, Sdk!Request
  <2>2. QED BY <1>8, <2>1 DEF Sdk!Dispatch
<1>9. CASE Sdk!DispatchTimeout \/ Sdk!Answered \/ Sdk!ConnectDeadline \/ Sdk!ReplaceDll
  BY <1>9 DEF Sdk!DispatchTimeout, Sdk!Answered, Sdk!Failed, Sdk!Begin, Sdk!DropSender,
      Sdk!ConnectDeadline, Sdk!ReplaceDll
<1>10. CASE Sdk!ReplyTimeout
  <2>1. [serving[device] EXCEPT !.live = FALSE] \in Sdk!Request
    BY <1>10 DEF Sdk!ReplyTimeout, Sdk!Request
  <2>2. serving' \in [Thread -> Sdk!Request] /\ queue' \in [Thread -> Seq(Sdk!Request)]
    BY <1>10, <2>1, GivenUp DEF Sdk!ReplyTimeout, Sdk!GiveUp
  <2>3. QED
    BY <1>10, <2>2 DEF Sdk!ReplyTimeout, Sdk!Failed, Sdk!Begin, Sdk!DropSender
<1>11. CASE UNCHANGED Sdk!vars
  BY <1>11 DEF Sdk!vars
<1>12. QED
  BY <1>1, <1>3, <1>4, <1>5, <1>6, <1>7, <1>8, <1>9, <1>10, <1>11
     DEF Sdk!Next, Sdk!Owner, Sdk!Caller

----------------------------------------------------------------------------
(* What runs was verified. While the file is pinned it is the file at the     *)
(* path, which is not replaced then. *)

VInv ==
    \A t \in Thread :
        /\ thread[t] \in {"validate", "load", "identify"} => pinned[t] = dll
        /\ thread[t] \in {"load", "identify"} => dll = "accepted"
        /\ thread[t] \in {"init", "serve", "exec", "free"} => loaded[t] = "accepted"

LEMMA VInvInit == Sdk!Init => VInv
BY DEF Sdk!Init, VInv

LEMMA VInvNext ==
    ASSUME SType, VInv, [Sdk!Next]_(Sdk!vars)
    PROVE  VInv'
<1> USE DEF VInv
<1>1. ASSUME NEW t \in Thread, \E distrust \in BOOLEAN : Sdk!Refuse(t, distrust)
      PROVE  VInv'
  BY <1>1 DEF Sdk!Refuse, Sdk!Goto, SType
<1>2. ASSUME NEW t \in Thread, Sdk!FindOwner(t) PROVE VInv'
  <2>1. CASE Sdk!Continue(t) /\ UNCHANGED <<pinned, loaded>>
    BY <1>2, <2>1, Order DEF Sdk!FindOwner, Sdk!Continue, Sdk!Goto, SType
  <2>2. QED BY <1>1, <1>2, <2>1 DEF Sdk!FindOwner
<1>3. ASSUME NEW t \in Thread, Sdk!Pin(t) PROVE VInv'
  <2>1. CASE Sdk!Continue(t) /\ pinned' = [pinned EXCEPT ![t] = dll] /\ UNCHANGED loaded
    BY <1>3, <2>1, Order DEF Sdk!Pin, Sdk!Continue, Sdk!Goto, SType
  <2>2. QED BY <1>1, <1>3, <2>1 DEF Sdk!Pin
<1>4. ASSUME NEW t \in Thread, Sdk!Validate(t) PROVE VInv'
  <2>1. CASE dll = "accepted" /\ Sdk!Continue(t) /\ UNCHANGED <<pinned, loaded>>
    BY <1>4, <2>1, Order DEF Sdk!Validate, Sdk!Continue, Sdk!Goto, SType
  <2>2. QED BY <1>1, <1>4, <2>1 DEF Sdk!Validate
<1>5. ASSUME NEW t \in Thread, Sdk!LoadLibrary(t) PROVE VInv'
  <2>1. CASE Sdk!Continue(t) /\ loaded' = [loaded EXCEPT ![t] = dll] /\ UNCHANGED pinned
    BY <1>5, <2>1, Order DEF Sdk!LoadLibrary, Sdk!Continue, Sdk!Goto, SType
  <2>2. QED BY <1>1, <1>5, <2>1 DEF Sdk!LoadLibrary
<1>6. ASSUME NEW t \in Thread, Sdk!Identify(t) PROVE VInv'
  <2>1. CASE loaded[t] = pinned[t] /\ Sdk!Continue(t) /\ UNCHANGED <<pinned, loaded>>
    BY <1>6, <2>1, Order DEF Sdk!Identify, Sdk!Continue, Sdk!Goto, SType
  <2>2. QED BY <1>1, <1>6, <2>1 DEF Sdk!Identify
<1>7. ASSUME NEW t \in Thread, Sdk!LogiLcdInit(t) PROVE VInv'
  BY <1>1, <1>7 DEF Sdk!LogiLcdInit, Sdk!Goto, SType
<1>8. ASSUME NEW t \in Thread,
             \/ Sdk!Receive(t) \/ Sdk!SenderGone(t) \/ Sdk!Release(t) \/ Sdk!Hang(t)
      PROVE VInv'
  BY <1>8 DEF Sdk!Receive, Sdk!SenderGone, Sdk!Release, Sdk!Hang, Sdk!Goto, SType,
      Sdk!worker
<1>9. ASSUME NEW t \in Thread, Sdk!Execute(t) PROVE VInv'
  BY <1>9 DEF Sdk!Execute, Sdk!Goto, SType
<1>10. ASSUME NEW t \in Thread, Sdk!Shutdown(t) PROVE VInv'
  BY <1>10 DEF Sdk!Shutdown, Sdk!Goto, SType
<1>11. ASSUME NEW t \in Thread, Sdk!Spawn(t) PROVE VInv'
  BY <1>11 DEF Sdk!Spawn, Sdk!Goto, SType
<1>12. CASE
        \/ Sdk!Claim \/ Sdk!SpawnFails \/ Sdk!WaitReady \/ Sdk!Use \/ Sdk!Dispatch
        \/ Sdk!DispatchTimeout
        \/ Sdk!ReplyTimeout \/ Sdk!Answered \/ Sdk!ConnectDeadline
  <2>1. UNCHANGED <<thread, pinned, loaded, dll>>
    BY <1>12, Zenon DEF Sdk!Claim, Sdk!SpawnFails, Sdk!WaitReady, Sdk!NotReady,
        Sdk!Use, Sdk!Dispatch,
      Sdk!DispatchTimeout, Sdk!ReplyTimeout, Sdk!Answered, Sdk!ConnectDeadline,
          Sdk!owners
  <2>2. QED BY <2>1
<1>13. CASE Sdk!ReplaceDll
  <2>1. \A t \in Thread : pinned[t] # dll
    BY <1>13 DEF Sdk!ReplaceDll, SType
  <2>2. QED BY <1>13, <2>1 DEF Sdk!ReplaceDll, Sdk!owners
<1>14. CASE UNCHANGED Sdk!vars
  BY <1>14 DEF Sdk!vars, Sdk!owners
<1>15. QED
  BY <1>2, <1>3, <1>4, <1>5, <1>6, <1>7, <1>8, <1>9, <1>10, <1>11, <1>12, <1>13, <1>14
     DEF Sdk!Next, Sdk!Owner, Sdk!Caller

(* The code of the library that runs is the code that was validated, for any  *)
(* threads and whenever an installer replaces the file (discover_pinned,      *)
(* Native::load). *)
LEMMA LibraryVerified == Sdk!Spec => []Sdk!OnlyVerifiedRuns
<1>1. VInv => Sdk!OnlyVerifiedRuns
  BY DEF VInv, Sdk!OnlyVerifiedRuns
<1>2. Sdk!Init => SType /\ VInv
  BY STypeInit, VInvInit
<1>3. SType /\ VInv /\ [Sdk!Next]_(Sdk!vars) => SType' /\ VInv'
  BY STypeNext, VInvNext
<1>4. QED
  BY <1>1, <1>2, <1>3, PTL DEF Sdk!Spec
----------------------------------------------------------------------------
(* One owner. A claim is given back by the thread that ends, or before one is *)
(* started; the circuit is never open where the caller could still do more    *)
(* than close. *)

Using == {"connect", "device", "dispatch", "reply", "broken"}

Sole == \A t, u \in Thread : thread[t] # "none" /\ thread[u] # "none" => t = u
Claimed == \A t \in Thread : thread[t] # "none" => active
Unstarted ==
    caller = "claimed" =>
        /\ ~circuit
        /\ active
        /\ \A t \in Thread : thread[t] = "none"
Waiting ==
    caller = "ready" =>
        /\ \A t \in Thread : thread[t] # "none" => t = device
        /\ circuit => answer[device] = "err"
StartsFirst ==
    \A t \in Thread : thread[t] \in Starting => answer[t] = "none" /\ caller \notin Using
OnlyCloses ==
    circuit =>
        /\ caller \notin {"connect", "device"}
        /\ caller \in {"dispatch", "reply"} => call.from = "close"

CInv == Sole /\ Claimed /\ Unstarted /\ Waiting /\ StartsFirst /\ OnlyCloses

LEMMA CInvInit == Sdk!Init => CInv
BY DEF Sdk!Init, CInv, Sole, Claimed, Unstarted, Waiting, StartsFirst, OnlyCloses,
      Starting, Using

LEMMA CInvNext ==
    ASSUME SType, CInv, [Sdk!Next]_(Sdk!vars)
    PROVE  CInv'
<1> USE DEF CInv, Sole, Claimed, Unstarted, Waiting, StartsFirst, OnlyCloses,
            Starting, Using
<1>1. ASSUME NEW t \in Thread, \E distrust \in BOOLEAN : Sdk!Refuse(t, distrust),
             thread[t] \in Starting
      PROVE  CInv'
  BY <1>1 DEF Sdk!Refuse, Sdk!Goto, SType, Sdk!worker
<1>2. ASSUME NEW t \in Thread, Sdk!Continue(t), thread[t] \in Starting
      PROVE  CInv'
  <2>1. /\ thread' = [thread EXCEPT ![t] = Sdk!Follows[thread[t]]]
        /\ Sdk!Follows[thread[t]] # "none"
        /\ Sdk!Follows[thread[t]] \in Starting \cup {"serve"}
    BY <1>2, Order DEF Sdk!Continue, Sdk!Goto
  <2>2. QED BY <1>2, <2>1 DEF Sdk!Continue, SType, Sdk!statics, Sdk!worker
<1>3. ASSUME NEW t \in Thread,
             \/ Sdk!FindOwner(t) \/ Sdk!Pin(t) \/ Sdk!Validate(t)
             \/ Sdk!LoadLibrary(t) \/ Sdk!Identify(t)
      PROVE CInv'
  <2>1. thread[t] \in Starting
    BY <1>3, Zenon DEF Sdk!FindOwner, Sdk!Pin, Sdk!Validate, Sdk!LoadLibrary,
        Sdk!Identify
  <2>2. Sdk!Continue(t) \/ \E distrust \in BOOLEAN : Sdk!Refuse(t, distrust)
    BY <1>3, Zenon DEF Sdk!FindOwner, Sdk!Pin, Sdk!Validate, Sdk!LoadLibrary,
        Sdk!Identify
  <2>3. QED BY <1>1, <1>2, <2>1, <2>2
<1>4. ASSUME NEW t \in Thread, Sdk!LogiLcdInit(t) PROVE CInv'
  <2>1. CASE \E distrust \in BOOLEAN : Sdk!Refuse(t, distrust)
    BY <1>1, <1>4, <2>1 DEF Sdk!LogiLcdInit
  <2>2. CASE /\ Sdk!Goto(t, "serve")
             /\ answer' = [answer EXCEPT ![t] = "ok"]
             /\ UNCHANGED <<Sdk!statics, queue, serving, pinned, loaded, Sdk!worker,
                 dll>>
    BY <1>4, <2>2 DEF Sdk!LogiLcdInit, Sdk!Goto, SType, Sdk!statics, Sdk!worker
  <2>3. QED BY <1>4, <2>1, <2>2 DEF Sdk!LogiLcdInit
<1>5. ASSUME NEW t \in Thread,
             \/ Sdk!Receive(t) \/ Sdk!Execute(t) \/ Sdk!SenderGone(t)
             \/ Sdk!Shutdown(t) \/ Sdk!Hang(t)
      PROVE CInv'
  <2>1. /\ UNCHANGED <<Sdk!statics, answer, caller, device, call>>
        /\ thread[t] # "none"
    BY <1>5, Zenon DEF Sdk!Receive, Sdk!Execute, Sdk!SenderGone, Sdk!Shutdown,
        Sdk!Hang, Sdk!worker
  <2>2. /\ thread' = [thread EXCEPT ![t] = thread'[t]]
        /\ thread'[t] \in {"exec", "serve", "free", "release", "hung"}
    BY <1>5 DEF Sdk!Receive, Sdk!Execute, Sdk!SenderGone, Sdk!Shutdown, Sdk!Hang,
        Sdk!Goto, SType
  <2>3. \A u \in Thread :
           /\ thread'[u] # "none" <=> thread[u] # "none"
           /\ thread'[u] \in Starting => thread[u] \in Starting
    BY <2>1, <2>2 DEF SType
  <2>4. QED BY <2>1, <2>3 DEF Sdk!statics
<1>6. ASSUME NEW t \in Thread, Sdk!Release(t) PROVE CInv'
  BY <1>6 DEF Sdk!Release, Sdk!Goto, SType, Sdk!worker
<1>7. CASE Sdk!Claim \/ Sdk!SpawnFails
  BY <1>7 DEF Sdk!Claim, Sdk!SpawnFails, Sdk!owners, SType
<1>8. ASSUME NEW t \in Thread, Sdk!Spawn(t) PROVE CInv'
  BY <1>8 DEF Sdk!Spawn, Sdk!Goto, SType, Sdk!statics
<1>9. CASE Sdk!WaitReady
  BY <1>9 DEF Sdk!WaitReady, Sdk!NotReady, Sdk!DropSender, SType, Sdk!statics,
      Sdk!owners
<1>10. CASE Sdk!Use \/ Sdk!Dispatch \/ Sdk!ConnectDeadline \/ Sdk!ReplaceDll
  BY <1>10 DEF Sdk!Use, Sdk!Begin, Sdk!Dispatch, Sdk!ConnectDeadline, Sdk!ReplaceDll,
      SType, Sdk!statics, Sdk!owners, Sdk!worker
<1>11. CASE Sdk!DispatchTimeout \/ Sdk!ReplyTimeout
  <2>1. /\ UNCHANGED <<thread, answer, active>>
        /\ caller \in {"dispatch", "reply"}
        /\ Sdk!Failed
    BY <1>11, Zenon DEF Sdk!DispatchTimeout, Sdk!ReplyTimeout, Sdk!owners
  <2>2. QED BY <2>1 DEF Sdk!Failed, Sdk!Begin, Sdk!DropSender, SType
<1>12. CASE Sdk!Answered
  BY <1>12 DEF Sdk!Answered, Sdk!Failed, Sdk!Begin, Sdk!DropSender, SType, Sdk!statics,
      Sdk!owners
<1>13. CASE UNCHANGED Sdk!vars
  BY <1>13 DEF Sdk!vars, Sdk!statics, Sdk!owners, Sdk!worker
<1>14. QED
  BY <1>3, <1>4, <1>5, <1>6, <1>7, <1>8, <1>9, <1>10, <1>11, <1>12, <1>13
     DEF Sdk!Next, Sdk!Owner, Sdk!Caller

(* Every step of the code is one of the promise, or changes nothing of it. *)
LEMMA Refines ==
    ASSUME SType, CInv, [Sdk!Next]_(Sdk!vars)
    PROVE  [Sdk!Owned!Next]_(Sdk!Alive)
<1> USE DEF SType
<1>1. ASSUME \A u \in Thread : thread'[u] # "none" <=> thread[u] # "none"
      PROVE  [Sdk!Owned!Next]_(Sdk!Alive)
  BY <1>1 DEF Sdk!Alive
<1>2. ASSUME NEW t \in Thread,
             \/ Sdk!FindOwner(t) \/ Sdk!Pin(t) \/ Sdk!Validate(t)
             \/ Sdk!LoadLibrary(t) \/ Sdk!Identify(t)
             \/ Sdk!LogiLcdInit(t)
      PROVE [Sdk!Owned!Next]_(Sdk!Alive)
  <2>1. thread[t] \in Starting
    BY <1>2, Zenon DEF Sdk!FindOwner, Sdk!Pin, Sdk!Validate, Sdk!LoadLibrary,
        Sdk!Identify, Sdk!LogiLcdInit, Starting
  <2>2. \E s \in Stage \ {"none"} : thread' = [thread EXCEPT ![t] = s]
    <3>1. CASE \E distrust \in BOOLEAN : Sdk!Refuse(t, distrust)
      BY <3>1 DEF Sdk!Refuse, Sdk!Goto, Stage
    <3>2. CASE Sdk!Continue(t)
      BY <2>1, <3>2, Order DEF Sdk!Continue, Sdk!Goto, Starting, Stage
    <3>3. CASE Sdk!Goto(t, "serve")
      BY <3>3 DEF Sdk!Goto, Stage
    <3>4. QED
      BY <1>2, <3>1, <3>2, <3>3, Zenon
         DEF Sdk!FindOwner, Sdk!Pin, Sdk!Validate, Sdk!LoadLibrary, Sdk!Identify,
             Sdk!LogiLcdInit
  <2>3. QED BY <1>1, <2>1, <2>2 DEF Starting
<1>3. ASSUME NEW t \in Thread,
             \/ Sdk!Receive(t) \/ Sdk!Execute(t) \/ Sdk!SenderGone(t)
             \/ Sdk!Shutdown(t) \/ Sdk!Hang(t)
      PROVE [Sdk!Owned!Next]_(Sdk!Alive)
  BY <1>1, <1>3 DEF Sdk!Receive, Sdk!Execute, Sdk!SenderGone, Sdk!Shutdown, Sdk!Hang,
      Sdk!Goto
<1>4. ASSUME NEW t \in Thread, Sdk!Release(t) PROVE [Sdk!Owned!Next]_(Sdk!Alive)
  <2>1. Sdk!Alive = {t} /\ Sdk!Alive' = {}
    BY <1>4 DEF Sdk!Release, Sdk!Goto, CInv, Sole, Sdk!Alive
  <2>2. QED BY <2>1 DEF Sdk!Owned!Next, Sdk!Owned!Leave
<1>5. ASSUME NEW t \in Thread, Sdk!Spawn(t) PROVE [Sdk!Owned!Next]_(Sdk!Alive)
  <2>1. Sdk!Alive = {} /\ Sdk!Alive' = {t}
    BY <1>5 DEF Sdk!Spawn, Sdk!Goto, CInv, Unstarted, Sdk!Alive
  <2>2. QED BY <2>1 DEF Sdk!Owned!Next, Sdk!Owned!Enter
<1>6. CASE
        \/ Sdk!Claim \/ Sdk!SpawnFails \/ Sdk!WaitReady \/ Sdk!Use \/ Sdk!Dispatch
        \/ Sdk!DispatchTimeout
        \/ Sdk!ReplyTimeout \/ Sdk!Answered \/ Sdk!ConnectDeadline
        \/ Sdk!ReplaceDll \/ UNCHANGED Sdk!vars
  <2>1. UNCHANGED thread
    BY <1>6, Zenon DEF Sdk!Claim, Sdk!SpawnFails, Sdk!WaitReady, Sdk!NotReady, Sdk!Use,
        Sdk!Dispatch,
      Sdk!DispatchTimeout, Sdk!ReplyTimeout, Sdk!Answered, Sdk!ConnectDeadline,
          Sdk!ReplaceDll, Sdk!owners, Sdk!vars
  <2>2. QED BY <1>1, <2>1
<1>7. QED
  BY <1>2, <1>3, <1>4, <1>5, <1>6 DEF Sdk!Next, Sdk!Owner, Sdk!Caller

(* A queue that was empty is empty after it was given up on. *)
LEMMA NothingGivenUp ==
    [i \in DOMAIN << >> |-> [<< >>[i] EXCEPT !.live = FALSE]] = << >>
OBVIOUS

(* Nothing is started and nothing but a close is asked for once the circuit   *)
(* is open. *)
LEMMA Guarded ==
    ASSUME SType, CInv, [Sdk!Next]_(Sdk!vars), NEW t \in Thread
    PROVE  /\ circuit /\ queue[t] = << >> /\ queue'[t] # << >>
                => queue'[t][1].kind = "close"
           /\ circuit /\ thread[t] = "none" => thread'[t] = "none"
<1> USE DEF SType
<1>1. ASSUME circuit, queue[t] = << >>, queue'[t] # << >>
      PROVE  queue'[t][1].kind = "close"
  <2>1. CASE Sdk!Dispatch
    <3>1. t = device /\ queue'[t] = <<[kind |-> call.kind, live |-> TRUE]>>
      BY <1>1, <2>1 DEF Sdk!Dispatch
    <3>2. call.kind = "close"
      BY <1>1, <2>1 DEF Sdk!Dispatch, CInv, OnlyCloses
    <3>3. QED BY <3>1, <3>2
  <2>2. CASE Sdk!ReplyTimeout
    <3>1. queue'[t] =
            IF t = device
            THEN [i \in DOMAIN queue[t] |-> [queue[t][i] EXCEPT !.live = FALSE]]
            ELSE queue[t]
      BY <2>2 DEF Sdk!ReplyTimeout, Sdk!GiveUp
    <3>2. QED BY <1>1, <3>1, NothingGivenUp
  <2>3. ASSUME NEW u \in Thread, Sdk!Receive(u) \/ Sdk!Shutdown(u)
        PROVE  FALSE
    BY <1>1, <2>3 DEF Sdk!Receive, Sdk!Shutdown
  <2>4. ASSUME UNCHANGED queue PROVE FALSE
    BY <1>1, <2>4
  <2>5. ASSUME NEW u \in Thread,
               \/ Sdk!FindOwner(u) \/ Sdk!Pin(u) \/ Sdk!Validate(u)
               \/ Sdk!LoadLibrary(u) \/ Sdk!Identify(u)
               \/ Sdk!LogiLcdInit(u) \/ Sdk!Execute(u) \/ Sdk!SenderGone(u)
               \/ Sdk!Release(u) \/ Sdk!Hang(u)
               \/ Sdk!Spawn(u)
        PROVE  FALSE
    BY <2>4, <2>5, Zenon DEF Sdk!FindOwner, Sdk!Pin, Sdk!Validate, Sdk!LoadLibrary,
        Sdk!Identify, Sdk!LogiLcdInit,
      Sdk!Execute, Sdk!SenderGone, Sdk!Release, Sdk!Hang, Sdk!Spawn, Sdk!Refuse,
          Sdk!Continue, Sdk!owners
  <2>6. CASE
          \/ Sdk!Claim \/ Sdk!SpawnFails \/ Sdk!WaitReady \/ Sdk!Use
          \/ Sdk!DispatchTimeout
          \/ Sdk!Answered \/ Sdk!ConnectDeadline \/ Sdk!ReplaceDll
          \/ UNCHANGED Sdk!vars
    BY <2>4, <2>6, Zenon DEF Sdk!Claim, Sdk!SpawnFails, Sdk!WaitReady, Sdk!NotReady,
        Sdk!Use,
      Sdk!DispatchTimeout, Sdk!Answered, Sdk!ConnectDeadline, Sdk!ReplaceDll,
          Sdk!owners, Sdk!vars
  <2>7. QED
    BY <2>1, <2>2, <2>3, <2>5, <2>6 DEF Sdk!Next, Sdk!Owner, Sdk!Caller
<1>2. ASSUME circuit, thread[t] = "none" PROVE thread'[t] = "none"
  <2>1. ASSUME NEW u \in Thread, thread[u] # "none", NEW s,
      thread' = [thread EXCEPT ![u] = s]
        PROVE  thread'[t] = "none"
    BY <1>2, <2>1
  <2>2. ASSUME NEW u \in Thread, Sdk!Owner(u) \/ Sdk!Hang(u) PROVE thread'[t] = "none"
    <3>1. thread[u] # "none"
      BY <2>2, Zenon DEF Sdk!Owner, Sdk!FindOwner, Sdk!Pin, Sdk!Validate,
          Sdk!LoadLibrary, Sdk!Identify,
        Sdk!LogiLcdInit, Sdk!Receive, Sdk!Execute, Sdk!SenderGone, Sdk!Shutdown,
            Sdk!Release, Sdk!Hang
    <3>2. \E s : thread' = [thread EXCEPT ![u] = s]
      BY <2>2, Zenon DEF Sdk!Owner, Sdk!FindOwner, Sdk!Pin, Sdk!Validate,
          Sdk!LoadLibrary, Sdk!Identify,
        Sdk!LogiLcdInit, Sdk!Receive, Sdk!Execute, Sdk!SenderGone, Sdk!Shutdown,
            Sdk!Release, Sdk!Hang,
        Sdk!Refuse, Sdk!Continue, Sdk!Goto
    <3>3. QED BY <2>1, <3>1, <3>2
  <2>3. ASSUME NEW u \in Thread, Sdk!Spawn(u) PROVE FALSE
    BY <1>2, <2>3 DEF Sdk!Spawn, CInv, Unstarted
  <2>4. CASE
          \/ Sdk!Claim \/ Sdk!SpawnFails \/ Sdk!WaitReady \/ Sdk!Use \/ Sdk!Dispatch
          \/ Sdk!DispatchTimeout
          \/ Sdk!ReplyTimeout \/ Sdk!Answered \/ Sdk!ConnectDeadline
          \/ Sdk!ReplaceDll \/ UNCHANGED Sdk!vars
    <3>1. UNCHANGED thread
      BY <2>4, Zenon DEF Sdk!Claim, Sdk!SpawnFails, Sdk!WaitReady, Sdk!NotReady,
          Sdk!Use, Sdk!Dispatch,
        Sdk!DispatchTimeout, Sdk!ReplyTimeout, Sdk!Answered, Sdk!ConnectDeadline,
            Sdk!ReplaceDll, Sdk!owners, Sdk!vars
    <3>2. QED BY <1>2, <3>1
  <2>5. QED
    BY <2>2, <2>3, <2>4 DEF Sdk!Next, Sdk!Caller
<1>3. QED BY <1>1, <1>2

----------------------------------------------------------------------------
(* Answers. At most one request waits for an answer: the one the caller made  *)
(* last. *)

Open(q) == q # << >> /\ q[1].live

Current ==
    \A t \in Thread :
        /\ serving[t].live => /\ caller = "reply" /\ reply = "none" /\ t = device
                              /\ serving[t].kind = call.kind
        /\ Open(queue[t]) => /\ caller = "reply" /\ reply = "none" /\ t = device
                             /\ queue[t][1].kind = call.kind
Once == \A t \in Thread : ~(serving[t].live /\ Open(queue[t]))
Short == \A t \in Thread : Len(queue[t]) <= 1
Entered ==
    \A t \in Thread :
        /\ serving[t].live => thread[t] \in {"exec", "free", "hung"}
        /\ serving[t].live /\ thread[t] = "free" => serving[t].kind = "close"

LInv ==
    /\ Current /\ Once /\ Short /\ Entered
    /\ caller = "dispatch" => reply = "none"
    /\ Sdk!AnswerFits

LEMMA Answers ==
    /\ Sdk!Results["submit"] = {"unit", "error"}
    /\ Sdk!Results["poll"] = {"connected", "disconnected"}
    /\ Sdk!Results["close"] = {"unit", "error"}
    /\ Sdk!Results.close = {"unit", "error"}
BY DEF Sdk!Results

(* The only element of a queue that has room for one. *)
LEMMA Single ==
    ASSUME NEW S, NEW q \in Seq(S), Len(q) <= 1, q # << >>
    PROVE  Head(q) = q[1] /\ Tail(q) = << >> /\ Len(Tail(q)) = 0
<1>1. Len(q) = 1
  BY EmptySeq, LenProperties
<1>2. Tail(q) \in Seq(S) /\ Len(Tail(q)) = 0
  BY <1>1, HeadTailProperties
<1>3. Tail(q) = << >>
  BY <1>2, EmptySeq
<1>4. QED BY <1>2, <1>3

LEMMA LInvInit == Sdk!Init => LInv
BY DEF Sdk!Init, LInv, Current, Once, Short, Entered, Sdk!AnswerFits, Open,
      Sdk!NoRequest

(* Nobody waits for an answer before the request was sent or after it came. *)
LEMMA NobodyWaits ==
    ASSUME LInv, caller # "reply" \/ reply # "none"
    PROVE  \A t \in Thread : ~serving[t].live /\ ~Open(queue[t])
BY DEF LInv, Current

(* A step that leaves the requests alone, and answers nobody. *)
LEMMA Unanswered ==
    ASSUME SType, LInv, UNCHANGED <<queue, serving>>,
           \A t \in Thread : ~serving[t].live /\ ~Open(queue[t]),
           caller' # "reply", caller' = "dispatch" => reply' = "none"
    PROVE  LInv'
BY DEF LInv, Current, Once, Short, Entered, Sdk!AnswerFits

(* A step of a thread that moves it while it serves nobody. *)
LEMMA Unserved ==
    ASSUME SType, LInv, NEW t \in Thread, ~serving[t].live,
           NEW s, thread' = [thread EXCEPT ![t] = s],
           UNCHANGED <<queue, serving, caller, device, call, reply>>
    PROVE  LInv'
<1>1. \A u \in Thread : u # t => thread'[u] = thread[u]
  BY DEF SType
<1>2. Entered'
  BY <1>1 DEF LInv, Entered
<1>3. QED BY <1>2 DEF LInv, Current, Once, Short, Sdk!AnswerFits

LEMMA LInvNext ==
    ASSUME SType, CInv, LInv, [Sdk!Next]_(Sdk!vars)
    PROVE  LInv'
<1>1. ASSUME NEW t \in Thread,
             \/ Sdk!FindOwner(t) \/ Sdk!Pin(t) \/ Sdk!Validate(t)
             \/ Sdk!LoadLibrary(t) \/ Sdk!Identify(t)
             \/ Sdk!LogiLcdInit(t) \/ Sdk!Release(t) \/ Sdk!SenderGone(t)
      PROVE LInv'
  <2>1. thread[t] \notin {"exec", "free", "hung"}
    BY <1>1 DEF Sdk!FindOwner, Sdk!Pin, Sdk!Validate, Sdk!LoadLibrary, Sdk!Identify,
        Sdk!LogiLcdInit, Sdk!Release, Sdk!SenderGone
  <2>2. \E s : thread' = [thread EXCEPT ![t] = s]
    BY <1>1, Zenon DEF Sdk!FindOwner, Sdk!Pin, Sdk!Validate, Sdk!LoadLibrary,
        Sdk!Identify, Sdk!LogiLcdInit,
      Sdk!Release, Sdk!SenderGone, Sdk!Refuse, Sdk!Continue, Sdk!Goto
  <2>3. UNCHANGED <<queue, serving, caller, device, call, reply>>
    BY <1>1, Zenon DEF Sdk!FindOwner, Sdk!Pin, Sdk!Validate, Sdk!LoadLibrary,
        Sdk!Identify, Sdk!LogiLcdInit,
      Sdk!Release, Sdk!SenderGone, Sdk!Refuse, Sdk!Continue, Sdk!worker
  <2>4. ~serving[t].live
    BY <2>1 DEF LInv, Entered
  <2>5. QED BY <2>2, <2>3, <2>4, Unserved
<1>2. ASSUME NEW t \in Thread, Sdk!Spawn(t) PROVE LInv'
  <2>1. ~serving[t].live
    BY <1>2, NobodyWaits DEF Sdk!Spawn
  <2>2. /\ thread' = [thread EXCEPT ![t] = "find"]
        /\ UNCHANGED <<queue, serving, call, reply>>
        /\ caller = "claimed" /\ caller' = "ready"
    BY <1>2 DEF Sdk!Spawn, Sdk!Goto
  <2>3. \A u \in Thread : ~serving[u].live /\ ~Open(queue[u])
    BY <2>2, NobodyWaits
  <2>4. QED BY <2>2, <2>3, Unanswered
<1>3. ASSUME NEW t \in Thread, Sdk!Hang(t) PROVE LInv'
  <2>1. /\ thread' = [thread EXCEPT ![t] = "hung"]
        /\ UNCHANGED <<queue, serving, caller, device, call, reply>>
    BY <1>3 DEF Sdk!Hang, Sdk!Goto, Sdk!worker
  <2>2. Entered'
    BY <2>1 DEF SType, LInv, Entered
  <2>3. QED BY <2>1, <2>2 DEF LInv, Current, Once, Short, Sdk!AnswerFits
<1>4. ASSUME NEW t \in Thread, Sdk!Receive(t) PROVE LInv'
  <2>1. /\ thread' = [thread EXCEPT ![t] = "exec"] /\ thread[t] = "serve"
        /\ serving' = [serving EXCEPT ![t] = Head(queue[t])]
        /\ queue' = [queue EXCEPT ![t] = Tail(queue[t])]
        /\ queue[t] # << >>
        /\ UNCHANGED <<caller, device, call, reply>>
    BY <1>4 DEF Sdk!Receive, Sdk!Goto, Sdk!worker
  <2>2. /\ Len(queue[t]) = 1 /\ Tail(queue[t]) = << >> /\ Head(queue[t]) = queue[t][1]
        /\ ~Open(Tail(queue[t]))
        /\ Len(Tail(queue[t])) <= 1
    <3>1. queue[t] \in Seq(Sdk!Request) /\ Len(queue[t]) <= 1
      BY DEF LInv, Short, SType
    <3>2. QED BY <2>1, <3>1, Single DEF Open
  <2>3. /\ queue'[t] = << >> /\ serving'[t] = queue[t][1] /\ thread'[t] = "exec"
        /\ \A u \in Thread : u # t =>
              /\ queue'[u] = queue[u]
              /\ serving'[u] = serving[u]
              /\ thread'[u] = thread[u]
    BY <2>1, <2>2 DEF SType
  <2>4. serving'[t].live <=> Open(queue[t])
    BY <2>1, <2>3 DEF Open
  <2>5. ~Open(queue'[t])
    BY <2>3 DEF Open
  <2>6. Current'
    BY <2>1, <2>3, <2>4, <2>5 DEF LInv, Current
  <2>7. Once' /\ Entered'
    BY <2>3, <2>5 DEF LInv, Once, Entered
  <2>8. Short'
    BY <2>2, <2>3 DEF LInv, Short
  <2>9. QED BY <2>1, <2>6, <2>7, <2>8 DEF LInv, Sdk!AnswerFits
<1>5. ASSUME NEW t \in Thread, Sdk!Execute(t) \/ Sdk!Shutdown(t) PROVE LInv'
  <2>1. CASE Sdk!Execute(t) /\ serving[t].kind = "close"
    <3>1. /\ thread' = [thread EXCEPT ![t] = "free"]
          /\ UNCHANGED <<queue, serving, caller, device, call, reply>>
      BY <2>1 DEF Sdk!Execute, Sdk!Goto
    <3>2. Entered'
      BY <2>1, <3>1 DEF SType, LInv, Entered
    <3>3. QED BY <3>1, <3>2 DEF LInv, Current, Once, Short, Sdk!AnswerFits
  <2>2. CASE Sdk!Shutdown(t) \/ serving[t].kind # "close"
    <3>1. /\ UNCHANGED <<caller, device, call>>
          /\ serving' = [serving EXCEPT ![t] = Sdk!NoRequest]
          /\ thread[t] \in {"exec", "free"}
      BY <1>5, <2>2 DEF Sdk!Execute, Sdk!Shutdown
    <3>2. thread' = [thread EXCEPT ![t] = thread'[t]]
      BY <1>5, <2>2 DEF Sdk!Execute, Sdk!Shutdown, Sdk!Goto, SType
    <3>3. queue' = queue \/ queue' = [queue EXCEPT ![t] = << >>]
      BY <1>5, <2>2 DEF Sdk!Execute, Sdk!Shutdown
    <3>4. /\ ~serving'[t].live
          /\ \A u \in Thread : u # t => serving'[u] = serving[u] /\ thread'[u] = thread[u]
      BY <3>1, <3>2 DEF SType, Sdk!NoRequest
    <3>5. \A u \in Thread : queue'[u] = queue[u] \/ queue'[u] = << >>
      BY <3>3 DEF SType
    <3>6. \A u \in Thread : Open(queue'[u]) => Open(queue[u]) /\ queue'[u] = queue[u]
      BY <3>5 DEF Open
    <3>7. ~serving[t].live => reply' = reply
      BY <1>5, <2>2 DEF Sdk!Execute, Sdk!Shutdown, Sdk!Send
    <3>8. serving[t].live =>
             /\ caller = "reply" /\ t = device /\ reply' \in Sdk!Results[call.kind]
             /\ \A u \in Thread : u # t => ~serving[u].live
             /\ \A u \in Thread : ~Open(queue[u])
      <4> SUFFICES ASSUME serving[t].live
                   PROVE  /\ caller = "reply" /\ t = device
                          /\ reply' \in Sdk!Results[call.kind]
                          /\ \A u \in Thread : u # t => ~serving[u].live
                          /\ \A u \in Thread : ~Open(queue[u])
        OBVIOUS
      <4>1. caller = "reply" /\ t = device /\ serving[t].kind = call.kind
        BY DEF LInv, Current
      <4>2. CASE Sdk!Execute(t)
        <5>1. reply' \in Sdk!Results[serving[t].kind]
          BY <2>2, <4>2 DEF Sdk!Execute, Sdk!Send, Sdk!Shutdown
        <5>2. QED BY <4>1, <5>1 DEF LInv, Current, Once
      <4>3. CASE Sdk!Shutdown(t)
        <5>1. serving[t].kind = "close"
          BY <4>3 DEF Sdk!Shutdown, LInv, Entered
        <5>2. reply' \in Sdk!Results["close"]
          BY <4>3, Answers DEF Sdk!Shutdown, Sdk!Send
        <5>3. QED BY <4>1, <5>1, <5>2 DEF LInv, Current, Once
      <4>4. QED BY <1>5, <4>2, <4>3
    <3>9. Current'
      BY <3>1, <3>4, <3>6, <3>7, <3>8 DEF LInv, Current
    <3>10. Once' /\ Entered'
      BY <3>4, <3>6 DEF LInv, Once, Entered
    <3>11. Short'
      BY <3>5 DEF LInv, Short
    <3>12. (caller = "dispatch" => reply = "none")' /\ Sdk!AnswerFits'
      BY <3>1, <3>7, <3>8 DEF LInv, Sdk!AnswerFits
    <3>13. QED BY <3>9, <3>10, <3>11, <3>12 DEF LInv
  <2>3. QED BY <1>5, <2>1, <2>2
<1>6. CASE Sdk!Claim \/ Sdk!SpawnFails \/ Sdk!WaitReady \/ Sdk!Use
  <2>1. /\ UNCHANGED <<queue, serving>>
        /\ caller # "reply"
        /\ caller' # "reply" /\ (caller' = "dispatch" => reply' = "none")
    <3>1. CASE Sdk!Claim
      BY <3>1 DEF Sdk!Claim, Sdk!owners
    <3>2. CASE Sdk!SpawnFails
      BY <3>2 DEF Sdk!SpawnFails, Sdk!owners
    <3>3. CASE Sdk!WaitReady
      <4>1. CASE \E timeout \in BOOLEAN : Sdk!NotReady(timeout)
        BY <3>3, <4>1 DEF Sdk!WaitReady, Sdk!NotReady, Sdk!DropSender, Sdk!owners
      <4>2. CASE caller' = "connect" /\ UNCHANGED Sdk!owners
        BY <3>3, <4>2 DEF Sdk!WaitReady, Sdk!owners
      <4>3. QED BY <3>3, <4>1, <4>2, Zenon DEF Sdk!WaitReady
    <3>4. CASE Sdk!Use
      BY <3>4 DEF Sdk!Use, Sdk!Begin, Sdk!owners
    <3>5. QED BY <1>6, <3>1, <3>2, <3>3, <3>4
  <2>2. QED BY <2>1, NobodyWaits, Unanswered
<1>7. CASE Sdk!DispatchTimeout \/ Sdk!Answered
  <2>1. /\ UNCHANGED <<queue, serving>>
        /\ caller # "reply" \/ reply # "none"
        /\ caller' # "reply" /\ (caller' = "dispatch" => reply' = "none")
    <3>1. CASE /\ Sdk!Failed /\ UNCHANGED Sdk!owners
               /\ caller = "dispatch" \/ reply # "none"
      BY <3>1 DEF Sdk!Failed, Sdk!DropSender, Sdk!Begin, Sdk!owners
    <3>2. CASE Sdk!Answered /\ ~Sdk!Failed
      BY <3>2 DEF Sdk!Answered, Sdk!DropSender, Sdk!owners
    <3>3. QED BY <1>7, <3>1, <3>2, Zenon DEF Sdk!DispatchTimeout, Sdk!Answered
  <2>2. QED BY <2>1, NobodyWaits, Unanswered
<1>8. CASE Sdk!Dispatch
  <2>1. /\ queue' = [queue EXCEPT ![device] = <<[kind |-> call.kind, live |-> TRUE]>>]
        /\ caller = "dispatch" /\ caller' = "reply" /\ reply = "none"
        /\ UNCHANGED <<thread, serving, device, call, reply>>
        /\ device \in Thread
    BY <1>8 DEF Sdk!Dispatch, LInv, SType
  <2>2. \A t \in Thread : ~serving[t].live /\ ~Open(queue[t])
    BY <2>1, NobodyWaits
  <2>3. /\ queue'[device] = <<[kind |-> call.kind, live |-> TRUE]>>
        /\ \A u \in Thread : u # device => queue'[u] = queue[u]
    BY <2>1 DEF SType
  <2>4. queue'[device][1].kind = call.kind /\ Len(queue'[device]) = 1
    BY <2>3
  <2>5. Current' /\ Once' /\ Entered'
    BY <2>1, <2>2, <2>3, <2>4 DEF Current, Once, Entered
  <2>6. Short'
    <3>1. Len(queue'[device]) <= 1
      BY <2>4
    <3>2. QED BY <2>3, <3>1 DEF LInv, Short
  <2>7. QED BY <2>1, <2>5, <2>6 DEF LInv, Sdk!AnswerFits
<1>9. CASE Sdk!ReplyTimeout
  <2>1. /\ serving' = [serving EXCEPT ![device].live = FALSE]
        /\ queue' = [queue EXCEPT ![device] =
              [i \in DOMAIN @ |-> [@[i] EXCEPT !.live = FALSE]]]
        /\ UNCHANGED thread
        /\ caller' # "reply" /\ (caller' = "dispatch" => reply' = "none")
        /\ device \in Thread
    BY <1>9 DEF Sdk!ReplyTimeout, Sdk!GiveUp, Sdk!Failed, Sdk!Begin, Sdk!DropSender,
        SType
  <2>2. /\ serving'[device] = [serving[device] EXCEPT !.live = FALSE]
        /\ queue'[device] = [i \in DOMAIN queue[device] |->
              [queue[device][i] EXCEPT !.live = FALSE]]
        /\ \A u \in Thread : u # device => queue'[u] = queue[u] /\ serving'[u] = serving[u]
    BY <2>1 DEF SType
  <2>3. ~serving'[device].live
    BY <2>1, <2>2 DEF SType, Sdk!Request
  <2>4. queue'[device] \in Seq(Sdk!Request) /\ Len(queue'[device]) = Len(queue[device])
    <3>1. queue[device] \in Seq(Sdk!Request)
      BY <2>1 DEF SType
    <3>2. queue'[device] \in Seq(Sdk!Request)
      BY <2>2, <3>1, GivenUp
    <3>3. DOMAIN queue'[device] = DOMAIN queue[device]
      BY <2>2
    <3>4. QED BY <3>1, <3>2, <3>3
  <2>5. ~Open(queue'[device])
    <3> SUFFICES ASSUME queue'[device] # << >> PROVE ~queue'[device][1].live
      BY DEF Open
    <3>1. 1 \in DOMAIN queue[device]
      BY <2>1, <2>4 DEF SType
    <3>2. queue'[device][1] = [queue[device][1] EXCEPT !.live = FALSE]
      BY <2>2, <3>1
    <3>3. queue[device][1] \in Sdk!Request
      BY <2>1, <3>1 DEF SType
    <3>4. QED BY <3>2, <3>3 DEF Sdk!Request
  <2>6. \A u \in Thread : ~serving'[u].live /\ ~Open(queue'[u])
    BY <2>2, <2>3, <2>5 DEF LInv, Current
  <2>7. Short'
    BY <2>2, <2>4 DEF LInv, Short
  <2>8. QED BY <2>1, <2>6, <2>7 DEF LInv, Current, Once, Entered, Sdk!AnswerFits
<1>10. CASE Sdk!ConnectDeadline \/ Sdk!ReplaceDll \/ UNCHANGED Sdk!vars
  <2>1. UNCHANGED <<thread, queue, serving, caller, device, call, reply>>
    BY <1>10, Zenon DEF Sdk!ConnectDeadline, Sdk!ReplaceDll, Sdk!vars, Sdk!owners,
        Sdk!worker
  <2>2. QED BY <2>1 DEF LInv, Current, Once, Short, Entered, Sdk!AnswerFits
<1>11. QED
  BY <1>1, <1>2, <1>3, <1>4, <1>5, <1>6, <1>7, <1>8, <1>9, <1>10 DEF Sdk!Next,
      Sdk!Owner, Sdk!Caller

----------------------------------------------------------------------------
(* The theorems.                                                             *)

(* Code of others runs only if it is what was examined: the library that its  *)
(* thread runs is the one it validated, whenever an installer replaces it     *)
(* (discover_pinned, Native::load), and the file at a path that is held is    *)
(* the file that was examined, whatever other programs rename or replace on   *)
(* the way to it (pin_parent_chain, pin_file). *)
THEOREM OnlyVerified == Sdk!Spec /\ Pinning!Spec => []OnlyVerifiedRuns
<1>1. Sdk!Spec => []Sdk!OnlyVerifiedRuns
  BY LibraryVerified, PTL
<1>2. Pinning!Spec => []Pinning!OnlyVerifiedRuns
  BY RunsVerifiedOnly, PTL
<1>3. OnlyVerifiedRuns <=> Sdk!OnlyVerifiedRuns /\ Pinning!OnlyVerifiedRuns
  BY DEF OnlyVerifiedRuns
<1>4. QED BY <1>1, <1>2, <1>3, PTL

(* No second owner thread exists before the first has left the library, for   *)
(* any threads, also when the caller has given up on it and it returns late   *)
(* (claim_sdk_owner): the code implements Exclusive. Once a limit has elapsed *)
(* nothing is started and only a close is asked for (call_timeout); no answer *)
(* is taken for that of another request (the reply channel of an Envelope).   *)
THEOREM OwnsAlone == Sdk!Spec => OneOwner
<1> DEFINE Inv == SType /\ CInv /\ LInv
<1>1. Sdk!Init => Inv
  BY STypeInit, CInvInit, LInvInit
<1>2. Inv /\ [Sdk!Next]_(Sdk!vars) => Inv'
  BY STypeNext, CInvNext, LInvNext
<1>3. Sdk!Init => Sdk!Owned!Init
  BY DEF Sdk!Init, Sdk!Owned!Init, Sdk!Alive
<1>4. Inv /\ [Sdk!Next]_(Sdk!vars) => [Sdk!Owned!Next]_(Sdk!Alive)
  BY Refines
<1>5. Inv /\ [Sdk!Next]_(Sdk!vars) =>
        [\A t \in Thread :
           /\ circuit /\ queue[t] = << >> /\ queue'[t] # << >>
                => queue'[t][1].kind = "close"
           /\ circuit /\ thread[t] = "none" => thread'[t] = "none"]_(Sdk!vars)
  BY Guarded
<1>6. Inv => Sdk!AnswerFits
  BY DEF LInv
<1>7. QED
  BY <1>1, <1>2, <1>3, <1>4, <1>5, <1>6, PTL
     DEF Sdk!Spec, OneOwner, Sdk!OneOwner, Sdk!NoUseAfterCircuit, Sdk!Owned!Spec

(* The drivers keep nothing of a caller that has gone on: neither a report of *)
(* the device (cancel_and_drain, create_io_events) nor a transfer of a packet *)
(* of Discord. Its program was verified, and its pipe is read and written in  *)
(* step with it until a refresh swallows an error (transfer_all, read_exact,  *)
(* verify_authenticode_bounded, refresh_channel).                             *)
THEOREM DriversInStep == Device!Spec /\ Piping!Spec => []InStep
<1>1. HInv => Device!DriverDrained
  BY DEF HInv, Waits, Device!DriverDrained
<1>2. Device!Spec => []Device!DriverDrained
  BY <1>1, HInvInit, HInvNext, PTL DEF Device!Spec
<1>3. Piping!Spec => []Piping!InStep
  BY StaysInStep, PTL
<1>4. InStep <=> Device!DriverDrained /\ Piping!InStep
  BY DEF InStep
<1>5. QED BY <1>2, <1>3, <1>4, PTL

(* One operation at a time is with the headset, for any number of candidates  *)
(* and whenever one is cancelled and left to a reaper (QueryGate,             *)
(* reap_pending): the code implements Exclusive. The memory the driver may    *)
(* still write to is kept.                                                    *)
THEOREM OneQuery == Headset!Spec => OneIoAtATime
<1>1. Headset!Init => Headset!OneIo!Init
  BY DEF Headset!Init, Headset!OneIo!Init, Headset!BusyIo
<1>2. QInv => Headset!BufferKept
  BY DEF QInv, Held, Headset!BufferKept, Headset!InDriver
<1>3. QED
  BY <1>1, <1>2, QInvInit, QInvNext, PTL
     DEF Headset!Spec, OneIoAtATime, Headset!OneIoAtATime, Headset!OneIo!Spec

(* At most one PresentMon.exe with one session exists, however often stopping *)
(* it fails while settings and targets change (teardown_pending, start): the  *)
(* code implements Exclusive. A child that is read was started under the      *)
(* settings the thread has taken up.                                          *)
THEOREM CapturesAlone == Capturing!Spec => OneCapture
<1>1. Capturing!Init => Capturing!Owned!Init
  BY DEF Capturing!Init, Capturing!Owned!Init, Capturing!InUse
<1>2. CapInv => Capturing!ReadsItsOwn
  BY DEF CapInv, Capturing!ReadsItsOwn
<1>3. QED
  BY <1>1, <1>2, CapInvInit, CapInvNext, PTL
     DEF Capturing!Spec, OneCapture, Capturing!OneCapture, Capturing!Owned!Spec

(* Every behaviour of the workers together is one of each of them. *)
THEOREM Projects ==
    Spec => /\ Sdk!Spec /\ Headset!Spec /\ Capturing!Spec
            /\ Device!Spec /\ Piping!Spec /\ Pinning!Spec
<1>1. Init => /\ Sdk!Init /\ Headset!Init /\ Capturing!Init
              /\ Device!Init /\ Piping!Init /\ Pinning!Init
  BY DEF Init
<1>2. [Next]_vars => [Sdk!Next]_(Sdk!vars)
  BY DEF Next, vars, sdkVars, Sdk!vars, Sdk!statics, Sdk!owners, Sdk!worker
<1>3. [Next]_vars => [Headset!Next]_(Headset!vars)
  BY DEF Next, vars, headsetVars, Headset!vars, Headset!query
<1>4. [Next]_vars => [Capturing!Next]_(Capturing!vars)
  BY DEF Next, vars, captureVars, Capturing!vars, Capturing!world,
    Capturing!system, Capturing!thread, Capturing!capture
<1>5. [Next]_vars => [Device!Next]_(Device!vars)
  BY DEF Next, vars, deviceVars, Device!vars
<1>6. [Next]_vars => [Piping!Next]_(Piping!vars)
  BY DEF Next, vars, pipeVars, Piping!vars, Piping!place, Piping!peer,
    Piping!driver, Piping!stream
<1>7. [Next]_vars => [Pinning!Next]_(Pinning!vars)
  BY DEF Next, vars, pinnedVars, Pinning!vars, Pinning!outside, Pinning!pins
<1>8. QED
  BY <1>1, <1>2, <1>3, <1>4, <1>5, <1>6, <1>7, PTL
     DEF Spec, Sdk!Spec, Headset!Spec, Capturing!Spec, Device!Spec, Piping!Spec,
       Pinning!Spec

(* So the workers together, which the run looks at, have all of it. *)
THEOREM WorkersTogether ==
    Spec => /\ []OnlyVerifiedRuns /\ []InStep
            /\ OneOwner /\ OneIoAtATime /\ OneCapture
BY Projects, OnlyVerified, OwnsAlone, DriversInStep, OneQuery, CapturesAlone, PTL
=============================================================================
