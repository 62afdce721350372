---------------------------- MODULE SharedMemory ----------------------------
(* The readings of HWiNFO: its shared memory and the mutex over it, the copy  *)
(* the telemetry thread takes of it (providers/hwinfo.rs), and what becomes   *)
(* of the sample with time (apply_hwinfo and apply_freshness of               *)
(* telemetry.rs). HWiNFO may end at any moment, and the memory it leaves is   *)
(* there for as long as a third program keeps it open.                        *)
EXTENDS Naturals

CONSTANTS
    Field,      \* fields with a selector
    StaleAfter, \* hwinfo_stale_ms, in ticks
    NoMemory    \* there is no mapping

Element == 1..2             \* reading elements of the memory
Label == [field : Field, valid : BOOLEAN] \cup {[field |-> "other", valid |-> TRUE]}
Old == 2 * StaleAfter + 1   \* ages are counted up to this
None == Old + 1             \* and this is none

VARIABLES
    hwinfo,     \* what HWiNFO does
    third,      \* another program keeps the mutex and the memory
    mutex,      \* who owns the mutex, if it exists
    memory,     \* the memory
    pollAge,    \* time since the poll whose time stamp it has
    halved,     \* HWiNFO ended within an update and the memory stayed
    at,         \* where sample is
    result,     \* what it returns
    kept,       \* the last sample: the fields that have a value, its age,
                \* whether it is of two polls, and of a memory left behind
    success     \* time since hwinfo_success

world == <<hwinfo, third, mutex, memory, pollAge, halved>>
reader == <<at, result>>
vars == <<world, reader, kept, success>>

Nothing == [fields |-> {}, age |-> None, torn |-> FALSE, left |-> FALSE]

Init ==
    /\ hwinfo = "off" /\ third = FALSE /\ mutex = "none" /\ memory = NoMemory
    /\ pollAge = Old /\ halved = FALSE
    /\ at = "idle" /\ result = Nothing
    /\ kept = Nothing /\ success = None

----------------------------------------------------------------------------
(* HWiNFO and the third program.                                             *)

HwinfoStarts ==
    /\ hwinfo = "off"
    /\ hwinfo' = "idle"
    /\ mutex' = IF mutex = "none" THEN "free" ELSE mutex
    /\ UNCHANGED <<third, memory, pollAge, halved, reader, kept, success>>

(* An update writes the header and one element after the other. *)
BeginUpdate ==
    /\ hwinfo = "idle" /\ mutex \in {"free", "abandoned"}
    /\ mutex' = "hwinfo" /\ hwinfo' = "updating"
    /\ \E f \in Label, ok \in BOOLEAN :
          memory' = [first |-> f,
                     second |-> IF memory = NoMemory THEN f ELSE memory.second,
                     torn |-> TRUE, understood |-> ok]
    /\ pollAge' = 0 /\ halved' = FALSE
    /\ UNCHANGED <<third, reader, kept, success>>

EndUpdate ==
    /\ hwinfo = "updating"
    /\ hwinfo' = "idle" /\ mutex' = "free"
    /\ \E f \in Label : memory' = [memory EXCEPT !.second = f, !.torn = FALSE]
    /\ UNCHANGED <<third, pollAge, halved, reader, kept, success>>

(* Windows drops the memory with the last handle, and the mutex with its own. *)
HwinfoEnds ==
    /\ hwinfo # "off"
    /\ hwinfo' = "off"
    /\ memory' = IF third THEN memory ELSE NoMemory
    /\ mutex' = IF mutex = "hwinfo" THEN "abandoned"
                ELSE IF mutex = "free" /\ ~third /\ at = "idle" THEN "none" ELSE mutex
    /\ halved' = (third /\ (hwinfo = "updating" \/ halved))
    /\ UNCHANGED <<third, pollAge, reader, kept, success>>

ThirdProgram ==
    /\ third' = ~third
    /\ memory' = IF hwinfo = "off" THEN NoMemory ELSE memory
    /\ mutex' = IF hwinfo = "off" /\ at = "idle" THEN "none" ELSE mutex
    /\ third \/ hwinfo # "off"
    /\ UNCHANGED <<hwinfo, pollAge, halved, reader, kept, success>>

----------------------------------------------------------------------------
(* sample.                                                                   *)

OpenMutex ==
    /\ at = "idle"
    /\ IF mutex = "none" THEN at' = "apply" /\ result' = Nothing
       ELSE at' = "wait" /\ UNCHANGED result
    /\ UNCHANGED <<world, kept, success>>

(* An abandoned mutex is as good as a free one. *)
TakeMutex ==
    /\ at = "wait" /\ mutex \in {"free", "abandoned"}
    /\ at' = "copy" /\ mutex' = "reader"
    /\ UNCHANGED <<hwinfo, third, memory, pollAge, halved, result, kept, success>>

WaitTimesOut ==
    /\ at = "wait"
    /\ at' = "apply" /\ result' = Nothing
    /\ UNCHANGED <<world, kept, success>>

(* decode_readings: a header it does not understand, or an old poll.          *)
Refused == memory = NoMemory \/ ~memory.understood \/ pollAge > StaleAfter

(* select: exactly one reading has the label pair, and it is valid. *)
Elements == [i \in Element |-> IF i = 1 THEN memory.first ELSE memory.second]
Matches(f) == {i \in Element : Elements[i].field = f}
Selected ==
    {f \in Field : \E i \in Element : Matches(f) = {i} /\ Elements[i].valid}

Sample == [fields |-> Selected, age |-> pollAge, torn |-> memory.torn,
           left |-> halved]

(* Mutant: the mapping is copied as it is when the wait times out. *)
CopyUnlocked ==
    /\ at \in {"wait", "copy"}
    /\ at' = "apply"
    /\ mutex' = IF mutex # "reader" THEN mutex
                ELSE IF hwinfo = "off" /\ ~third THEN "none" ELSE "free"
    /\ result' = IF Refused THEN Nothing ELSE Sample
    /\ UNCHANGED <<hwinfo, third, memory, pollAge, halved, kept, success>>

(* The mapping is opened when the mutex is owned, copied, and let go with it. *)
CopyMapping ==
    /\ at = "copy"
    /\ at' = "apply"
    /\ mutex' = IF hwinfo = "off" /\ ~third THEN "none" ELSE "free"
    /\ result' = IF Refused THEN Nothing ELSE Sample
    /\ UNCHANGED <<hwinfo, third, memory, pollAge, halved, kept, success>>

(* An error leaves the last values, which age. *)
ApplyHwinfo ==
    /\ at = "apply"
    /\ at' = "idle" /\ result' = Nothing
    /\ IF result = Nothing THEN UNCHANGED <<kept, success>>
       ELSE kept' = result /\ success' = 0
    /\ UNCHANGED world

(* A reload of the settings, or a setting without a selector, forgets all. *)
ResetState ==
    /\ kept' = Nothing /\ success' = None
    /\ UNCHANGED <<world, reader>>

Older(age) == IF age >= Old THEN age ELSE age + 1

(* A sample is taken in less than a tick. *)
Tick ==
    /\ at = "idle"
    /\ pollAge' = Older(pollAge) /\ success' = Older(success)
    /\ kept' = [kept EXCEPT !.age = Older(@)]
    /\ UNCHANGED <<hwinfo, third, mutex, memory, halved, reader>>

Next ==
    \/ HwinfoStarts \/ BeginUpdate \/ EndUpdate \/ HwinfoEnds \/ ThirdProgram
    \/ OpenMutex \/ TakeMutex \/ WaitTimesOut \/ CopyMapping \/ ApplyHwinfo
    \/ ResetState \/ Tick

Spec == Init /\ [][Next]_vars

----------------------------------------------------------------------------
(* Properties.                                                               *)

TypeOK ==
    /\ hwinfo \in {"off", "idle", "updating"} /\ {third, halved} \subseteq BOOLEAN
    /\ mutex \in {"none", "free", "hwinfo", "reader", "abandoned"}
    /\ pollAge \in 0..Old /\ success \in 0..None
    /\ at \in {"idle", "wait", "copy", "apply"}
    /\ kept.fields \subseteq Field /\ kept.age \in 0..None

(* apply_freshness: what is shown without the mark of a stale reading. *)
Current == success <= StaleAfter

(* A reading that is shown as current is no older than two limits, one when   *)
(* it was sampled and one since; and its values are of one poll, unless       *)
(* HWiNFO ended within an update and a third program kept what it left.       *)
(* Without one an abandoned mutex is safe to take, since the mapping is only  *)
(* opened afterwards (copy_mapping, decode_readings, apply_hwinfo).           *)
WholeReadings ==
    /\ Current => kept.age <= 2 * StaleAfter
    /\ kept.torn => kept.left
=============================================================================
