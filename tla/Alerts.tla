-------------------------------- MODULE Alerts --------------------------------
(* The alert episodes of the main loop (alerts.rs). An episode begins with a  *)
(* reading at its limit and ends with one below it, never for lack of one; a  *)
(* critical one stays a little longer. Button 4 acknowledges the highest.     *)
EXTENDS Naturals

CONSTANTS
    Id,             \* alerts, numbered in the order of their names
    CriticalId      \* those with a critical limit

VARIABLES
    enabled,        \* those whose category is, in this turn
    seen,           \* Manager::seen
    older,          \* pairs of episodes by first_seen, then by name
    known           \* the last current reading while enabled (history)

vars == <<enabled, seen, older, known>>

(* What a reading says: nothing, as it is missing or stale, or its severity.  *)
Unknown == 9
Fine == 0
Warning == 2
Critical == 3

NoEpisode == [severity |-> 0, acknowledged |-> FALSE, recovery |-> "no"]

Init ==
    /\ enabled = {}
    /\ seen = [i \in Id |-> NoEpisode] /\ older = {}
    /\ known = [i \in Id |-> Unknown]

(* metric_alert, for readings of the enabled categories. *)
Readings ==
    {r \in [Id -> {Unknown, Fine, Warning, Critical}] :
        \A i \in Id : r[i] = Critical => i \in CriticalId}

(* Mutant: no reading is taken for a good one. *)
ObservedAny(on, reading) == on

Observed(on, reading) == {i \in on : reading[i] # Unknown}

(* The episode of i after a turn; `linger` says whether the time that a       *)
(* critical one stays is more than nothing. *)
Episode(i, reading, on, linger) ==
    LET old == seen[i]
        active == i \in Observed(on, reading) /\ reading[i] \in {Warning, Critical}
        recovery == IF i \in Observed(on, reading) /\ old.recovery = "no"
                    THEN IF linger THEN "begun" ELSE "over"
                    ELSE old.recovery
    IN  IF active
        THEN [severity |-> reading[i], acknowledged |-> old.acknowledged, recovery |-> "no"]
        ELSE IF \/ old.severity = 0
                \/ recovery = "over"
                \/ recovery = "begun" /\ old.severity # Critical
        THEN NoEpisode
        ELSE [old EXCEPT !.recovery = recovery]

Ongoing(s) == {i \in Id : s[i].severity > 0}

(* Of two in one turn the one of the first name is the older. *)
Older(i, j) == IF seen[j].severity = 0 THEN seen[i].severity > 0 \/ i < j
               ELSE <<i, j>> \in older

(* The order of Snapshot::alerts: by severity, then by age. *)
Higher(i, j) ==
    \/ seen[i].severity > seen[j].severity
    \/ seen[i].severity = seen[j].severity /\ <<i, j>> \in older

(* clear_disabled_categories after a reload, and evaluate. *)
Evaluate ==
    \E on \in SUBSET Id, reading \in Readings, linger \in BOOLEAN :
        /\ enabled' = on
        /\ seen' = [i \in Id |-> IF i \in on THEN Episode(i, reading, on, linger)
                                 ELSE NoEpisode]
        /\ older' = {p \in Ongoing(seen') \X Ongoing(seen') : Older(p[1], p[2])}
        /\ known' = [i \in Id |-> IF i \notin on THEN Unknown
                                  ELSE IF reading[i] # Unknown THEN reading[i]
                                  ELSE known[i]]

(* acknowledge_highest *)
Acknowledge ==
    LET open == {i \in Ongoing(seen) : ~seen[i].acknowledged}
    IN  \E i \in open :
           /\ \A j \in open \ {i} : Higher(i, j)
           /\ seen' = [seen EXCEPT ![i].acknowledged = TRUE]
           /\ UNCHANGED <<enabled, older, known>>

(* critical_alert_linger passes. *)
LingerPasses(i) ==
    /\ seen[i].recovery = "begun"
    /\ seen' = [seen EXCEPT ![i].recovery = "over"]
    /\ UNCHANGED <<enabled, older, known>>

Next == Evaluate \/ Acknowledge \/ \E i \in Id : LingerPasses(i)

Spec == Init /\ [][Next]_vars

----------------------------------------------------------------------------
TypeOK ==
    /\ enabled \subseteq Id
    /\ seen \in [Id -> [severity : {0, Warning, Critical}, acknowledged : BOOLEAN,
                        recovery : {"no", "begun", "over"}]]
    /\ known \in [Id -> {Unknown, Fine, Warning, Critical}]
    /\ older \subseteq Ongoing(seen) \X Ongoing(seen)
    /\ \A i, j, k \in Ongoing(seen) :
          /\ i # j => (<<i, j>> \in older <=> <<j, i>> \notin older)
          /\ <<i, i>> \notin older
          /\ <<i, j>> \in older /\ <<j, k>> \in older => <<i, k>> \in older

(* "Unknown or stale data does not prove recovery" (CONFIGURATION.md): an     *)
(* episode goes on until the last current reading was below the limit or its  *)
(* category is disabled, and what was acknowledged of it stays so.            *)
EpisodeEnds ==
    [][\A i \in Ongoing(seen) :
        /\ seen'[i].severity = 0 => i \notin enabled' \/ known'[i] = Fine
        /\ seen'[i].severity > 0 /\ seen[i].acknowledged => seen'[i].acknowledged]_vars
=============================================================================
