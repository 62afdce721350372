---------------------------- MODULE HeadsetQuery ----------------------------
(* A battery query of a headset (providers/headset.rs): candidates are tried  *)
(* one after the other with overlapped reads and writes. An I/O that outlives *)
(* the deadline is cancelled; one that does not end in time is left to a      *)
(* reaper thread with its buffer, and the gate stays quarantined until then.  *)
(*                                                                            *)
(* The telemetry thread is the only caller, so the gate is never just busy.   *)
EXTENDS Naturals

CONSTANTS
    Io,             \* overlapped operations that may exist at a time
    NoIo,           \* not an operation
    Candidates,     \* most interfaces one enumeration returns
    ReadAttempts    \* READ_ATTEMPTS

VARIABLES
    gate,       \* the bits of QueryGate
    at,         \* where the query is
    left,       \* candidates that have not been tried
    step,       \* request that was sent last: Step
    reads,      \* reads that are left for this candidate
    late,       \* the deadline has passed
    current,    \* the operation the query waits for
    io,         \* the state of each operation in the driver
    holder      \* who keeps its buffer, handle and event

query == <<at, left, step, reads, late, current>>
vars == <<gate, query, io, holder>>

Init ==
    /\ gate = {} /\ at = "idle" /\ left = 0 /\ step = "status" /\ reads = 0
    /\ late = FALSE /\ current = NoIo
    /\ io = [i \in Io |-> "none"]
    /\ holder = [i \in Io |-> "none"]

----------------------------------------------------------------------------
(* QueryGate.                                                                *)

(* Mutant: only the bit of the query counts. *)
PermitsWhileActive == "active" \in gate

PermitsCandidateProbe == gate = {"active"}

Enter ==
    /\ at = "idle" /\ gate = {}
    /\ gate' = {"active"}
    /\ at' = "candidates"
    /\ left' \in 0..Candidates
    /\ late' = FALSE
    /\ UNCHANGED <<step, reads, current, io, holder>>

(* The guard of the query is dropped. *)
Return ==
    /\ gate' = gate \ {"active"}
    /\ at' = "idle" /\ left' = 0 /\ reads' = 0 /\ step' = "status"

----------------------------------------------------------------------------
(* probe_candidates and probe_handle.                                        *)

OutOfCandidates ==
    /\ at = "candidates"
    /\ left = 0 \/ ~PermitsCandidateProbe
    /\ Return
    /\ UNCHANGED <<late, current, io, holder>>

(* The interface is opened, or cannot be. *)
TryCandidate ==
    /\ at = "candidates" /\ left > 0 /\ PermitsCandidateProbe
    /\ left' = left - 1
    /\ \/ at' = "write" /\ step' = "status" /\ reads' = ReadAttempts
       \/ UNCHANGED <<at, step, reads>>
    /\ UNCHANGED <<gate, late, current, io, holder>>

(* The handle, and with it the candidate, is given up. *)
Error == at' = "candidates" /\ reads' = 0 /\ step' = "status" /\ UNCHANGED left

(* run_overlapped: the operation ends at once, is pending, or is not begun.   *)
Begin ==
    /\ at \in {"write", "read"}
    /\ \/ Error /\ UNCHANGED <<current, io, holder>>
       \/ /\ ~late
          /\ \E i \in Io, s \in {"pending", "done"} :
                /\ holder[i] = "none"
                /\ io' = [io EXCEPT ![i] = s]
                /\ holder' = [holder EXCEPT ![i] = "query"]
                /\ current' = i
          /\ at' = IF at = "write" THEN "writing" ELSE "reading"
          /\ UNCHANGED <<left, step, reads>>
    /\ UNCHANGED <<gate, late>>

Released(i) ==
    /\ holder' = [holder EXCEPT ![i] = "none"]
    /\ io' = [io EXCEPT ![i] = IF @ = "done" THEN "none" ELSE @]

(* finish_io after a write, which may be short, have failed, or have come      *)
(* after the last read. *)
Written ==
    /\ at = "writing" /\ io[current] = "done"
    /\ Released(current) /\ current' = NoIo
    /\ \/ reads > 0 /\ at' = "read" /\ UNCHANGED <<left, step, reads>>
       \/ Error
    /\ UNCHANGED <<gate, late>>

(* finish_io after a read and parse_response: a status, a further request, a  *)
(* report that does not answer, or a failed read. *)
Read ==
    /\ at = "reading" /\ io[current] = "done"
    /\ Released(current) /\ current' = NoIo
    /\ \/ Return
       \/ /\ reads' = reads - 1
          /\ \/ step = "status" /\ step' = "battery" /\ at' = "write"
             \/ reads > 1 /\ step' = step /\ at' = "read"
          /\ UNCHANGED <<gate, left>>
       \/ Error /\ UNCHANGED gate
    /\ UNCHANGED late

----------------------------------------------------------------------------
(* cancel_or_reap.                                                           *)

(* The deadline has passed, or the wait failed; the operation is cancelled. *)
Cancel ==
    /\ at \in {"writing", "reading"} /\ io[current] = "pending"
    /\ at' = "grace"
    /\ io' = [io EXCEPT ![current] = "cancelled"]
    /\ UNCHANGED <<gate, left, step, reads, late, current, holder>>

ReclaimCanceled ==
    /\ at = "grace" /\ io[current] = "done"
    /\ Released(current) /\ current' = NoIo
    /\ Error
    /\ UNCHANGED <<gate, late>>

(* reap_pending; when the reaper cannot be started the buffer stays retained. *)
Quarantine ==
    /\ at = "grace" /\ io[current] = "cancelled"
    /\ gate' = gate \cup {"quarantined"}
    /\ \E h \in {"reaper", "retained"} : holder' = [holder EXCEPT ![current] = h]
    /\ current' = NoIo
    /\ Error
    /\ UNCHANGED <<late, io>>

(* Mutant: the reaper leaves the gate as it is. *)
ReapQuietly(i) ==
    /\ holder[i] = "reaper" /\ io[i] = "done"
    /\ Released(i)
    /\ UNCHANGED <<gate, query>>

Reap(i) ==
    /\ holder[i] = "reaper" /\ io[i] = "done"
    /\ Released(i)
    /\ gate' = gate \ {"quarantined"}
    /\ UNCHANGED query

----------------------------------------------------------------------------
(* The driver and time.                                                      *)

IoEnds(i) ==
    /\ io[i] \in {"pending", "cancelled"}
    /\ io' = [io EXCEPT ![i] = "done"]
    /\ UNCHANGED <<gate, query, holder>>

Deadline ==
    /\ at # "idle" /\ ~late
    /\ late' = TRUE
    /\ UNCHANGED <<gate, at, left, step, reads, current, io, holder>>

Query ==
    \/ OutOfCandidates \/ TryCandidate \/ Begin \/ Written \/ Read
    \/ Cancel \/ ReclaimCanceled \/ Quarantine

Next == Enter \/ Query \/ Deadline \/ \E i \in Io : Reap(i) \/ IoEnds(i)

(* The query's thread and the reapers run, and the deadline comes. A driver   *)
(* ends an operation that was cancelled at some time, not one that was not.   *)
Fairness ==
    /\ WF_vars(Query) /\ WF_vars(Deadline)
    /\ \A i \in Io : WF_vars(Reap(i)) /\ WF_vars(io[i] = "cancelled" /\ IoEnds(i))

Spec == Init /\ [][Next]_vars
FairSpec == Spec /\ Fairness

----------------------------------------------------------------------------
(* Properties.                                                               *)

TypeOK ==
    /\ gate \subseteq {"active", "quarantined"}
    /\ at \in {"idle", "candidates", "write", "writing", "read", "reading", "grace"}
    /\ left \in 0..Candidates /\ step \in {"status", "battery"}
    /\ reads \in 0..ReadAttempts /\ late \in BOOLEAN
    /\ current \in Io \cup {NoIo}
    /\ io \in [Io -> {"none", "pending", "cancelled", "done"}]
    /\ holder \in [Io -> {"none", "query", "reaper", "retained"}]

(* No report is sent to a headset and none is read while an earlier operation *)
(* is still with the driver, in this query or the next (QueryGate); and the   *)
(* memory the driver may still write to is not given back (reap_pending).     *)
InDriver == {i \in Io : io[i] \in {"pending", "cancelled"}}
BusyIo == {i \in Io : io[i] # "none"}
OneIo == INSTANCE Exclusive WITH User <- Io, inside <- BusyIo
BufferKept == \A i \in InDriver : holder[i] # "none"
OneIoAtATime == OneIo!Spec /\ []BufferKept

(* A quarantine ends when the operation does, unless its reaper could not be  *)
(* started: then battery queries stay off until the program is restarted. *)
GateReopens ==
    "quarantined" \in gate
        ~> (gate = {} \/ \E i \in Io : holder[i] = "retained")
=============================================================================
