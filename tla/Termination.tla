----------------------------- MODULE Termination -----------------------------
(* From the hung window that is seen to the program that is ended             *)
(* (providers/hang.rs): a window is described, probed and looked at again     *)
(* before it is listed, and the bound target goes through eight checks before *)
(* its process is terminated. Between any two of them the program may recover *)
(* or end, its title may change, and others may get its process id and its    *)
(* window handle.                                                             *)
(*                                                                            *)
(* One process id and one window handle are looked at. A handle that others   *)
(* have had does not come back to the same program: its upper half counts.    *)
EXTENDS Naturals, Sequences

CONSTANTS Program, NoProgram, Title

VARIABLES
    \* Windows.
    unborn, alive,      \* programs, each with its creation time
    pid,                \* whose id it is
    window,             \* whose window the handle is, and its title
    had,                \* those that have lost the window
    hung,               \* programs that do not answer
    \* The detector and the hold.
    todo,               \* the steps that are left
    target,             \* what the window was described as
    listed,             \* it was bound
    process,            \* the process that is held open
    probed,             \* whose window timed out last (history)
    killed              \* the process that was terminated (history)

windows == <<unborn, alive, pid, window, had, hung>>
work == <<todo, target, listed, process, probed, killed>>
vars == <<windows, work>>

None == [of |-> NoProgram, title |-> CHOOSE t \in Title : TRUE]

(* One program, with a window; all are alike. *)
Init ==
    /\ pid = CHOOSE p \in Program : TRUE
    /\ alive = {pid} /\ unborn = Program \ alive
    /\ window = [None EXCEPT !.of = pid] /\ had = {} /\ hung = {}
    /\ todo = <<>> /\ target = None /\ listed = FALSE
    /\ process = NoProgram /\ probed = NoProgram /\ killed = NoProgram

(* enumerate_callback *)
Scan == <<"describe", "probe", "identity", "list">>

(* Mutant: the process is opened when everything has been checked. *)
PlanOpenLast ==
    <<"window", "probe", "window", "window", "probe", "window", "open", "terminate">>

(* terminate_bound_target_with *)
Plan ==
    <<"window", "probe", "window", "open", "process", "window", "probe", "window",
      "terminate">>

----------------------------------------------------------------------------
Step(s) == todo # <<>> /\ Head(todo) = s
Pass == todo' = Tail(todo)

(* query_identity of the id, which is the owner's while it lives. *)
Described == window.of # NoProgram /\ window.of \in alive /\ pid = window.of

Begin ==
    /\ todo = <<>> /\ killed = NoProgram
    /\ todo' = IF listed THEN Plan ELSE Scan
    /\ UNCHANGED <<windows, target, listed, process, probed, killed>>

Describe ==
    /\ Step("describe") /\ Described
    /\ target' = window /\ Pass
    /\ UNCHANGED <<windows, listed, process, probed, killed>>

(* WM_NULL is not answered in time; it is answered or refused otherwise. *)
Probe ==
    /\ Step("probe") /\ window.of \in hung
    /\ probed' = window.of /\ Pass
    /\ UNCHANGED <<windows, target, listed, process, killed>>

(* identity_still_matches: whatever the title. *)
Identity ==
    /\ Step("identity") /\ Described /\ window.of = target.of
    /\ Pass
    /\ UNCHANGED <<windows, target, listed, process, probed, killed>>

List ==
    /\ Step("list") /\ listed' = TRUE /\ Pass
    /\ UNCHANGED <<windows, target, process, probed, killed>>

(* action_window and validate_window *)
ActionWindow ==
    /\ Step("window") /\ Described /\ window = target
    /\ Pass
    /\ UNCHANGED <<windows, target, listed, process, probed, killed>>

Open ==
    /\ Step("open") /\ pid # NoProgram
    /\ process' = pid /\ Pass
    /\ UNCHANGED <<windows, target, listed, probed, killed>>

ProcessIdentity ==
    /\ Step("process") /\ process = target.of
    /\ Pass
    /\ UNCHANGED <<windows, target, listed, process, probed, killed>>

(* It may be refused, or end too late. *)
Terminate ==
    /\ Step("terminate")
    /\ killed' = process /\ Pass
    /\ \E ended \in {{}, {process}} :
          /\ alive' = alive \ ended /\ hung' = hung \ ended
    /\ UNCHANGED <<unborn, pid, window, had, target, listed, process, probed>>

(* A check is not passed, or the action is over: the handle is closed. *)
GiveUp ==
    /\ todo # <<>> \/ listed
    /\ todo' = <<>> /\ target' = None /\ listed' = FALSE
    /\ process' = NoProgram /\ probed' = NoProgram /\ killed' = NoProgram
    /\ UNCHANGED windows

----------------------------------------------------------------------------
(* Windows and the programs. *)

End(p) ==
    /\ p \in alive /\ alive' = alive \ {p} /\ hung' = hung \ {p}
    /\ UNCHANGED <<unborn, pid, window, had, work>>

(* An id is free when its process has ended and no handle of it is open. *)
Start(p) ==
    /\ p \in unborn /\ unborn' = unborn \ {p} /\ alive' = alive \cup {p}
    /\ pid' \in {pid} \cup (IF pid \notin alive /\ process # pid THEN {p} ELSE {})
    /\ UNCHANGED <<window, had, hung, work>>

Show(p, t) ==
    /\ p \in alive /\ p \notin had
    /\ window' = [of |-> p, title |-> t]
    /\ had' = had \cup ({window.of} \ {p, NoProgram})
    /\ UNCHANGED <<unborn, alive, pid, hung, work>>

Hang(p) ==
    /\ p \in alive /\ hung' = (hung \ {p}) \cup ({p} \ hung)
    /\ UNCHANGED <<unborn, alive, pid, window, had, work>>

Detector ==
    \/ Begin \/ Describe \/ Probe \/ Identity \/ List \/ ActionWindow \/ Open
    \/ ProcessIdentity \/ Terminate \/ GiveUp

Next ==
    \/ Detector
    \/ \E p \in Program : End(p) \/ Start(p) \/ Hang(p) \/ \E t \in Title : Show(p, t)

Spec == Init /\ [][Next]_vars

----------------------------------------------------------------------------
TypeOK ==
    /\ alive \cap unborn = {} /\ alive \cup unborn \subseteq Program
    /\ hung \subseteq alive /\ had \subseteq Program
    /\ {pid, process, probed, killed} \subseteq Program \cup {NoProgram}
    /\ {window, target} \subseteq [of : Program \cup {NoProgram}, title : Title]
    /\ listed \in BOOLEAN /\ Len(todo) <= Len(Plan)

(* The program that is ended is the one that was listed, which had not        *)
(* answered when its own window was probed for the last time: not another     *)
(* that got its process id or its window (terminate_bound_target_with).       *)
EndsOnlyTheHung ==
    [][killed' # killed /\ killed' # NoProgram =>
        killed' = target.of /\ probed = target.of]_vars
=============================================================================
