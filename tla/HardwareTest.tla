----------------------------- MODULE HardwareTest -----------------------------
(* The command that tests the device (hardware_test.rs, and run_hardware_test *)
(* of app.rs): it shows one picture after another, the last of them the       *)
(* dashboard, reads the buttons meanwhile, and says in its exit code whether  *)
(* every call of the device succeeded. LCore.exe may start and end meanwhile. *)
EXTENDS Naturals, Sequences

CONSTANTS
    Steps,      \* STEP_COUNT
    TestButton,
    MaxTicks    \* bound: ticks of a step, and of the dashboard after them

VARIABLES
    lcore,      \* LCore.exe runs
    kind,       \* of the transport, or auto
    at,         \* where the command is
    results,    \* StepResult of each step that began
    tick,       \* ticks of this step
    lastReport, \* last_report
    prior,      \* ButtonTransitions::prior: the buttons that are down
    ends,       \* what was observed last of each button
    code,       \* the exit code, or 9
    accepted,   \* the pictures that the device took (history)
    failed      \* a call of the device has failed (history)

screen == <<results, tick, lastReport, accepted>>
buttons == <<prior, ends>>
vars == <<lcore, kind, at, screen, buttons, code, failed>>

NotEnded == 9
NoReport == <<>>
Blank == <<0, 0>>
step == Len(results)

(* Each picture has the number of its step on it; some move with the ticks.   *)
Picture(n, t) == {<<n, 0>>, <<n, t>>}

Init ==
    /\ lcore \in BOOLEAN /\ kind \in {"auto", "sdk", "hid", "virtual"}
    /\ at = "select"
    /\ results = <<>> /\ tick = 0 /\ lastReport = NoReport /\ accepted = <<>>
    /\ prior = {} /\ ends = [b \in TestButton |-> "up"]
    /\ code = NotEnded /\ failed = FALSE

----------------------------------------------------------------------------
(* run_hardware_test up to the first picture.                                *)

(* The settings are not valid, the log cannot be opened, or the device: what  *)
(* runs there is asked for anew when it is opened. *)
CannotStart ==
    /\ at \in {"select", "open"}
    /\ \/ at = "select" /\ code' \in {1, 2}
       \/ at = "select" /\ kind = "auto" /\ code' = 3
       \/ at = "open" /\ kind # "virtual" /\ code' = 3
    /\ at' = "done" /\ failed' = TRUE
    /\ UNCHANGED <<lcore, kind, screen, buttons>>

Select ==
    /\ at = "select" /\ at' = "open"
    /\ kind' = IF kind # "auto" THEN kind ELSE IF lcore THEN "sdk" ELSE "hid"
    /\ UNCHANGED <<lcore, screen, buttons, code, failed>>

NewStep == [submissions |-> 0, error |-> FALSE]

Open ==
    /\ at = "open"
    /\ kind = "sdk" => lcore
    /\ kind = "hid" => ~lcore
    /\ at' = "draw" /\ results' = <<NewStep>>
    /\ UNCHANGED <<lcore, kind, tick, lastReport, accepted, buttons, code, failed>>

----------------------------------------------------------------------------
(* run_step, and the dashboard that is held afterwards.                      *)

Record(field, value) == [results EXCEPT ![step][field] = value]

(* A call of the device fails: the steps end and every pressed button with    *)
(* them. *)
Disconnect ==
    /\ prior' = {}
    /\ ends' = [b \in TestButton |-> IF b \in prior THEN "canceled" ELSE ends[b]]

TransportFails ==
    /\ at \in {"draw", "poll"} /\ kind # "virtual"
    /\ results' = Record("error", TRUE) /\ failed' = TRUE
    /\ Disconnect /\ at' = "close"
    /\ UNCHANGED <<lcore, kind, tick, lastReport, accepted, code>>

(* The same picture is not submitted again. While the dashboard is held no    *)
(* submission is counted; it has no number on it then. *)
Draw ==
    /\ at = "draw" /\ at' = "poll"
    /\ \E report \in Picture(step, tick) :
          IF report = lastReport
          THEN UNCHANGED <<results, lastReport, accepted>>
          ELSE /\ lastReport' = report /\ accepted' = Append(accepted, report)
               /\ results' = Record("submissions", 1)
    /\ UNCHANGED <<lcore, kind, tick, buttons, code, failed>>

(* ButtonTransitions::observe; no report need come. *)
Poll ==
    /\ at = "poll" /\ at' = "pace"
    /\ prior' \in IF kind = "virtual" THEN {prior} ELSE SUBSET TestButton
    /\ ends' = [b \in TestButton |-> IF b \in prior' THEN "down"
                                 ELSE IF b \in prior THEN "up" ELSE ends[b]]
    /\ UNCHANGED <<lcore, kind, screen, code, failed>>

(* Each tick lasts the interval, each step its time. *)
Pace ==
    /\ at = "pace"
    /\ \/ tick < MaxTicks /\ at' = "draw" /\ tick' = tick + 1 /\ UNCHANGED <<results, buttons>>
       \/ /\ step < Steps
          /\ at' = "draw" /\ tick' = 0 /\ results' = Append(results, NewStep)
          /\ UNCHANGED buttons
       \/ step = Steps /\ at' = "close" /\ Disconnect /\ UNCHANGED <<results, tick>>
    /\ UNCHANGED <<lcore, kind, lastReport, accepted, code, failed>>

----------------------------------------------------------------------------
(* The end.                                                                  *)

(* Mutant: that the device did not close is said, but not recorded. *)
CloseUnrecorded ==
    /\ at = "close" /\ at' = "report"
    /\ \/ accepted' = Append(accepted, Blank) /\ UNCHANGED <<results, failed>>
       \/ failed' = TRUE /\ UNCHANGED <<accepted, results>>
    /\ UNCHANGED <<lcore, kind, tick, lastReport, buttons, code>>

(* record_final_error. Nothing is closed in the virtual backend.             *)
Close ==
    /\ at = "close" /\ at' = "report"
    /\ \/ kind # "virtual" /\ accepted' = Append(accepted, Blank) /\ UNCHANGED <<results, failed>>
       \/ kind # "virtual" /\ results' = Record("error", TRUE) /\ failed' = TRUE /\ UNCHANGED accepted
       \/ kind = "virtual" /\ UNCHANGED <<accepted, results, failed>>
    /\ UNCHANGED <<lcore, kind, tick, lastReport, buttons, code>>

ReportTestResults ==
    /\ at = "report" /\ at' = "done"
    /\ code' = IF \A n \in 1..step : ~results[n].error /\ results[n].submissions > 0
               THEN 0 ELSE 4
    /\ UNCHANGED <<lcore, kind, screen, buttons, failed>>

LcoreChanges ==
    lcore' = ~lcore /\ UNCHANGED <<kind, at, screen, buttons, code, failed>>

Next ==
    \/ CannotStart \/ Select \/ Open
    \/ TransportFails \/ Draw \/ Poll \/ Pace
    \/ Close \/ ReportTestResults \/ LcoreChanges

Spec == Init /\ [][Next]_vars

----------------------------------------------------------------------------
(* Properties.                                                               *)

TypeOK ==
    /\ {lcore, failed} \subseteq BOOLEAN
    /\ kind \in {"auto", "sdk", "hid", "virtual"}
    /\ at \in {"select", "open", "draw", "poll", "pace", "close", "report", "done"}
    /\ step <= Steps /\ tick \in 0..MaxTicks
    /\ prior \subseteq TestButton /\ ends \in [TestButton -> {"down", "up", "canceled"}]
    /\ code \in 0..4 \cup {NotEnded}

(* "Software transport success is never treated as physical confirmation"     *)
(* (hardware_test.rs), and transport failure never as success: the exit code  *)
(* is 0 if and only if no call of the device failed, and then the device took *)
(* the pictures of all steps in their order and was left blank. Every press   *)
(* that was reported has an end. *)
HonestReport ==
    at = "done" =>
        /\ code = 0 <=> ~failed
        /\ \A b \in TestButton : ends[b] # "down"
        /\ code = 0 =>
              /\ \A n \in 1..Steps : \E i \in DOMAIN accepted : accepted[i][1] = n
              /\ \A i, j \in DOMAIN accepted :
                    i < j /\ accepted[j] # Blank => accepted[i][1] <= accepted[j][1]
              /\ kind # "virtual" => accepted[Len(accepted)] = Blank
=============================================================================
