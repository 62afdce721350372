------------------------------ MODULE Presenter ------------------------------
(* Whose frames are counted in the mode `presenting` (providers/presentmon.rs).*)
(* The process with the most work is selected, and another takes its place    *)
(* only when it has been ahead for two seconds, or when the selected one has  *)
(* ended, may not be shown, or has stopped to present.                        *)
(*                                                                            *)
(* The steps of `at` are those of one tick; module Capture has the rest of it.*)
EXTENDS Integers, FiniteSets

CONSTANTS
    Process, NoProcess, \* told apart by creation time
    MaxCandidates,      \* MAX_CANDIDATES
    Workload, Margin,       \* values of a workload, SWITCH_MARGIN
    SwitchWindows,      \* SWITCH_WINDOWS
    Seconds             \* bound: seconds of the trace

VARIABLES
    fit,        \* processes that run and that the list of games allows
    idle,       \* candidates, or the target, without a frame for ten seconds
    at,         \* where the tick is
    known,      \* ActivityTracker::candidates
    window,     \* the last full second of each one's frames
    target,     \* the process that is selected
    challenger, \* who is ahead of it, until which second, for how many
    ahead       \* seconds each was ahead without interruption (history)

tracker == <<known, idle, window>>
choice == <<target, challenger, ahead>>
vars == <<fit, at, tracker, choice>>

NoChallenger == [process |-> NoProcess, window |-> 0, wins |-> 0]
NeverAhead == [p \in Process |-> {}]

Init ==
    /\ fit = Process /\ at = "rest"
    /\ known = {} /\ idle = {} /\ window = [p \in Process |-> 0]
    /\ target = NoProcess /\ challenger = NoChallenger /\ ahead = NeverAhead

(* Whoever is forgotten is counted anew when it comes back. *)
Tracked(k) ==
    /\ known' = k
    /\ window' = [p \in Process |-> IF p \in k THEN window[p] ELSE 0]

SelectPresenter(p) ==
    target' = p /\ challenger' = NoChallenger /\ ahead' = NeverAhead

NoContest ==
    challenger' = NoChallenger /\ ahead' = NeverAhead /\ UNCHANGED target

----------------------------------------------------------------------------
(* prepare_presenting, after validate_processes and apply_catalog: what ended *)
(* or is not allowed is forgotten, and the target when it has expired.        *)
Prepare ==
    /\ at = "rest"
    /\ Tracked((known \cap fit) \ (idle \cap {target}))
    /\ idle' = idle \cap known'
    /\ IF target # NoProcess /\ target \notin known'
       THEN SelectPresenter(NoProcess)
       ELSE UNCHANGED choice
    /\ at' = IF target' = NoProcess THEN "pick first" ELSE "drain"
    /\ UNCHANGED fit

----------------------------------------------------------------------------
(* drain and ActivityTracker::record.                                        *)

Evictable == known \ {target}

(* Mutant: whoever presents becomes a candidate. *)
RecordUnbounded(p) ==
    p \in fit \cup known /\ Tracked(known \cup {p})

(* A frame of a candidate, which is found out to have ended, or of a process  *)
(* that can be identified and is allowed. *)
Record(p) ==
    \/ p \in known /\ Tracked(known)
    \/ p \in known \ fit /\ Tracked(known \ {p})
    \/ /\ p \in fit \ known
       /\ \/ Cardinality(known) < MaxCandidates /\ Tracked(known \cup {p})
          \/ /\ Cardinality(known) = MaxCandidates
             /\ \E q \in Evictable : Tracked((known \ {q}) \cup {p})

Drain ==
    /\ at = "drain" /\ at' = "pick"
    /\ \/ \E p \in Process : Record(p) /\ idle' = (idle \ {p}) \cap known'
       \/ UNCHANGED tracker
    /\ IF target # NoProcess /\ target \notin known'
       THEN SelectPresenter(NoProcess)
       ELSE UNCHANGED choice
    /\ UNCHANGED fit

----------------------------------------------------------------------------
(* ranked and pick_presenter.                                                *)

(* `active` are the candidates with frames in the last seconds; `load` gives  *)
(* a workload to those that have three full seconds of them. *)
Best(load) == {p \in DOMAIN load : \A q \in DOMAIN load : load[q] <= load[p]}

Ranked(load, active, foreground) ==
    IF DOMAIN load = {}
    THEN IF foreground \in active THEN {foreground} ELSE active
    ELSE IF target \in DOMAIN load
    THEN {IF load[p] >= load[target] + Margin THEN p ELSE target : p \in Best(load)}
    ELSE IF /\ foreground \in DOMAIN load
            /\ \E p \in Best(load) : load[p] - load[foreground] < Margin
    THEN {foreground}
    ELSE Best(load)

(* Mutant: every tick counts. *)
ChallengeTicks(c) ==
    [process |-> c, window |-> window[c],
     wins |-> IF challenger.process = c THEN challenger.wins + 1 ELSE 1]

(* The next second counts, the same does not count again, and after a gap the *)
(* count begins anew. *)
Challenge(c) ==
    IF challenger.process = c /\ window[c] = challenger.window
    THEN challenger
    ELSE [process |-> c, window |-> window[c],
          wins |-> IF challenger.process = c /\ window[c] = challenger.window + 1
                   THEN challenger.wins + 1 ELSE 1]

IsAhead(c, load) ==
    /\ c # target /\ c \in DOMAIN load
    /\ load[c] >= Margin + (IF target \in DOMAIN load THEN load[target] ELSE 0)

PickPresenter(c, load) ==
    IF target = NoProcess THEN SelectPresenter(c)
    ELSE IF ~IsAhead(c, load) THEN NoContest
    ELSE IF Challenge(c).wins >= SwitchWindows THEN SelectPresenter(c)
    ELSE /\ challenger' = Challenge(c)
         /\ ahead' = [NeverAhead EXCEPT ![c] = ahead[c] \cup {window[c]}]
         /\ UNCHANGED target

(* Expired candidates are forgotten before. *)
Pick ==
    /\ at \in {"pick first", "pick"}
    /\ at' = IF at = "pick" THEN "rest" ELSE "drain"
    /\ Tracked(known \ idle) /\ idle' = idle \cap {target}
    /\ \E active \in SUBSET known' :
       \E timed \in SUBSET active, foreground \in Process :
       \E load \in [timed -> Workload] :
          IF active = {}
          THEN NoContest
          ELSE \E c \in Ranked(load, active, foreground) : PickPresenter(c, load)
    /\ UNCHANGED fit

----------------------------------------------------------------------------
(* The processes and time.                                                   *)

SecondPasses(p) ==
    /\ at = "rest" /\ p \in known /\ window[p] < Seconds
    /\ window' = [window EXCEPT ![p] = @ + 1]
    /\ UNCHANGED <<fit, at, known, idle, choice>>

Expires(p) ==
    /\ at = "rest" /\ p \in known \ idle
    /\ idle' = idle \cup {p}
    /\ UNCHANGED <<fit, at, known, window, choice>>

(* It ends, or is taken off the list of games. *)
Unfit(p) ==
    /\ p \in fit /\ fit' = fit \ {p}
    /\ UNCHANGED <<at, tracker, choice>>

(* Another with its name is started, or it is put on the list. *)
Fit(p) ==
    /\ p \notin fit \cup known \cup {target} /\ fit' = fit \cup {p}
    /\ UNCHANGED <<at, tracker, choice>>

Next ==
    \/ Prepare \/ Drain \/ Pick
    \/ \E p \in Process : SecondPasses(p) \/ Expires(p) \/ Unfit(p) \/ Fit(p)

Spec == Init /\ [][Next]_vars

----------------------------------------------------------------------------
(* Properties.                                                               *)

TypeOK ==
    /\ fit \subseteq Process /\ idle \subseteq known \cup {target}
    /\ at \in {"rest", "pick first", "drain", "pick"}
    /\ known \subseteq Process /\ Cardinality(known) <= MaxCandidates
    /\ window \in [Process -> 0..Seconds]
    /\ target \in Process \cup {NoProcess}
    /\ challenger.process \in Process \cup {NoProcess}
    /\ challenger.window \in 0..Seconds /\ challenger.wins \in 0..SwitchWindows
    /\ ahead \in [Process -> SUBSET (0..Seconds)]

(* The process that is shown keeps its place against a short rush of another  *)
(* and against a crowd of new ones: it is given up only when it has ended, is *)
(* not allowed, has not presented for ten seconds, or was behind by the       *)
(* margin in the second before and is so now. *)
KeptUnlessBeaten ==
    [][target # NoProcess /\ target' # target =>
         \/ target \notin fit \/ target \in idle
         \/ target' # NoProcess /\ window[target'] - 1 \in ahead[target']]_vars
=============================================================================
