------------------------------ MODULE LogFiles ------------------------------
(* The log file and its backups (logging.rs): a file that is full is copied   *)
(* over the oldest backup and cut off. Every file operation may fail, also in *)
(* its middle, and the program may end between any two of them.               *)
(*                                                                            *)
(* A line has the length 1 and is its number; a line that was written in part *)
(* is Torn and takes its place.                                               *)
EXTENDS Naturals, Sequences, SequencesExt, FiniteSetsExt

CONSTANTS
    MaxBytes,   \* max_bytes
    Backups,    \* backups
    Excess,     \* a file found at start-up may be longer by this
    MaxLines    \* bound on the lines that are logged

Slot == 1..Backups
Torn == 0
Missing == <<>>     \* an empty backup is as good as none

VARIABLES
    current,    \* the contents of the log file
    backup,     \* and of its backups
    modified,   \* when each backup was written
    at,         \* where the logger is
    open,       \* `file` is there
    size,       \* `size`
    slot,       \* `next_slot`
    copy,       \* the temporary file
    line,       \* number of the line that is logged
    written     \* the last bytes that were appended to the log file

files == <<current, backup, modified>>
memory == <<open, size, slot, copy>>
vars == <<current, backup, modified, at, open, size, slot, copy, line, written>>

LastBytes(s) == SubSeq(s, Max({1, Len(s) - MaxBytes + 1}), Len(s))
Now == Max({0} \cup {modified[i] : i \in Slot}) + 1

(* The files may be left by a run with a higher limit. *)
Init ==
    /\ current \in {<<>>} \cup {[i \in 1..(MaxBytes + Excess) |-> i]}
    /\ written = LastBytes(current)
    /\ backup = [i \in Slot |-> Missing] /\ modified = [i \in Slot |-> 0]
    /\ at = "ended" /\ open = FALSE /\ size = 0 /\ slot = 1 /\ copy = Missing
    /\ line = Len(current)

----------------------------------------------------------------------------
(* RotatingFile::open.                                                       *)

(* prepare_tail: the copy is whole and on disk, or is removed. *)
PrepareTail(next) ==
    \/ copy' = LastBytes(current) /\ at' = next
    \/ copy' = Missing /\ at' = "failed"

(* normalize_set begins with a file that is longer than the limit. *)
NormalizeSet ==
    /\ at = "ended"
    /\ IF Len(current) > MaxBytes THEN PrepareTail("normalize")
       ELSE at' = "open" /\ UNCHANGED copy
    /\ UNCHANGED <<files, open, size, slot, line, written>>

ReplaceCurrent ==
    /\ at = "normalize"
    /\ \/ current' = copy /\ at' = "open"
       \/ UNCHANGED current /\ at' = "failed"
    /\ copy' = Missing
    /\ UNCHANGED <<backup, modified, open, size, slot, line, written>>

(* next_backup_slot: the first that is missing, or else the oldest. *)
NextBackupSlot ==
    IF \E i \in Slot : backup[i] = Missing
    THEN Min({i \in Slot : backup[i] = Missing})
    ELSE Min({i \in Slot : \A j \in Slot : modified[i] <= modified[j]})

Open ==
    /\ at = "open"
    /\ \/ /\ at' = "ready" /\ open' = TRUE
          /\ size' = Len(current) /\ slot' = NextBackupSlot
       \/ at' = "failed" /\ UNCHANGED <<open, size, slot>>
    /\ UNCHANGED <<files, copy, line, written>>

----------------------------------------------------------------------------
(* RotatingFile::write and rotate. log drops the line that could not be       *)
(* written and keeps the file.                                                *)

Full == size + 1 > MaxBytes

(* write_all; when it fails a part may be in the file, and size is not raised. *)
WriteAll ==
    /\ \/ open /\ current' = Append(current, line') /\ size' = size + 1
       \/ open /\ current' = Append(current, Torn) /\ UNCHANGED size
       \/ UNCHANGED <<current, size>>
    /\ written' = LastBytes(written \o SubSeq(current', Len(current) + 1, Len(current')))

Write ==
    /\ at = "ready" /\ ~Full /\ line < MaxLines
    /\ line' = line + 1
    /\ WriteAll
    /\ UNCHANGED <<at, backup, modified, open, slot, copy>>

(* Mutant: the file is cut off before its copy is in place. *)
RotateCuttingFirst ==
    /\ at = "ready" /\ Full /\ line < MaxLines
    /\ line' = line + 1
    /\ open' = FALSE
    /\ PrepareTail("publish")
    /\ current' = <<>>
    /\ UNCHANGED <<backup, modified, size, slot, written>>

(* The file is closed and copied. *)
Rotate ==
    /\ at = "ready" /\ Full /\ line < MaxLines
    /\ line' = line + 1
    /\ open' = FALSE
    /\ PrepareTail("publish")
    /\ UNCHANGED <<files, size, slot, written>>

Publish ==
    /\ at = "publish"
    /\ \/ /\ backup' = [backup EXCEPT ![slot] = copy]
          /\ modified' = [modified EXCEPT ![slot] = Now]
          /\ at' = "truncate"
       \/ UNCHANGED <<backup, modified>> /\ at' = "failed"
    /\ copy' = Missing
    /\ UNCHANGED <<current, open, size, slot, line, written>>

(* The file is opened anew and empty, and takes the line that was too much. *)
Truncate ==
    /\ at = "truncate"
    /\ \/ /\ at' = "ready" /\ open' = TRUE
          /\ slot' = (slot % Backups) + 1
          /\ \/ current' = <<line>> /\ size' = 1
             \/ current' = <<Torn>> /\ size' = 0
             \/ current' = <<>> /\ size' = 0
          /\ written' = LastBytes(written \o current')
       \/ at' = "failed" /\ UNCHANGED <<current, open, size, slot, written>>
    /\ UNCHANGED <<backup, modified, copy, line>>

(* The rotation failed: the old file is opened again, if it can be. The file  *)
(* that could not be opened at start-up ends the program. *)
Reopen ==
    /\ at = "failed"
    /\ IF size = 0 /\ ~open THEN at' = "ended" /\ UNCHANGED open
       ELSE at' = "ready" /\ open' \in BOOLEAN
    /\ UNCHANGED <<files, size, slot, copy, line, written>>

(* The process ends, of itself or not. *)
End ==
    /\ at # "ended"
    /\ at' = "ended"
    /\ open' = FALSE /\ size' = 0 /\ slot' = 1 /\ copy' = Missing
    /\ UNCHANGED <<files, line, written>>

Next ==
    \/ NormalizeSet \/ ReplaceCurrent \/ Open
    \/ Write \/ Rotate \/ Publish \/ Truncate \/ Reopen \/ End

Spec == Init /\ [][Next]_vars

----------------------------------------------------------------------------
(* Properties.                                                               *)

TypeOK ==
    /\ current \in Seq(0..MaxLines) /\ copy \in Seq(0..MaxLines)
    /\ backup \in [Slot -> Seq(0..MaxLines)] /\ modified \in [Slot -> Nat]
    /\ at \in {"ended", "normalize", "open", "ready", "publish", "truncate",
               "failed"}
    /\ open \in BOOLEAN /\ size \in 0..(MaxBytes + Excess) /\ slot \in Slot
    /\ line \in 0..MaxLines

(* Whatever fails and wherever the program ends, the last max_bytes that were *)
(* appended to the log are in the log file and its newest backup, in order    *)
(* (rotate publishes the copy before it cuts the file off).                   *)
OnDisk(s) ==
    \E older \in {Missing} \cup {backup[i] : i \in Slot} :
        IsSuffix(s, older \o current)
KeptWhole == OnDisk(written)
=============================================================================
