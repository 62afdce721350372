------------------------------ MODULE Startup ------------------------------
(* What a process finds and leaves on the machine when it starts (main.rs,    *)
(* runtime.rs, sync_startup_if_needed in app.rs): the instance guard, the     *)
(* user's settings file, which an installed copy seeds from a template, and   *)
(* the entry that starts a portable copy at login. Any step may fail, the     *)
(* process may end between any two, and several may run at once.              *)
EXTENDS Naturals

CONSTANTS
    Instance,       \* processes that run at a time
    NoInstance       \* not a process

VARIABLES
    installed,  \* the marker file is there
    guard,      \* the process that has the instance mutex
    command,    \* what each process was started for
    at,         \* where it is
    temporary,  \* the temporary file of each process that ever seeded
    config,     \* the user's settings file
    wanted,     \* start_at_login, as that file has it
    entry,      \* the value under HKCU\...\Run
    seen,       \* its value as read in the transaction
    synced,     \* what it last brought the entry in line with, if it did
    touched,    \* another program has changed the entry since
    foreign,    \* the last value another program gave it is not ours
    saved       \* the user has saved the settings file

seeding == <<temporary, config>>
registry == <<entry, seen, synced, touched>>
history == <<foreign, saved>>
vars == <<installed, guard, command, at, seeding, wanted, registry, history>>

(* An installed copy leaves the entry alone, so it is fixed. *)
Init ==
    /\ installed \in BOOLEAN
    /\ guard = NoInstance
    /\ command = [p \in Instance |-> "none"] /\ at = [p \in Instance |-> "ended"]
    /\ temporary = [p \in Instance |-> "none"]
    /\ config \in {"none", "user"} /\ wanted \in BOOLEAN
    /\ entry \in {"none", "ours", "foreign"}
    /\ seen = [p \in Instance |-> "none"]
    /\ synced = [p \in Instance |-> {}]
    /\ touched = FALSE /\ foreign = (entry = "foreign") /\ saved = (config = "user")
    /\ IF installed THEN ~wanted /\ entry = "none" ELSE config = "user"

Goto(p, place) == at' = [at EXCEPT ![p] = place]

(* The process ends: Windows drops its mutex and its transaction. *)
End(p) ==
    /\ Goto(p, "ended")
    /\ command' = [command EXCEPT ![p] = "none"]
    /\ guard' = IF guard = p THEN NoInstance ELSE guard
    /\ seen' = [seen EXCEPT ![p] = "none"]
    /\ synced' = [synced EXCEPT ![p] = {}]

----------------------------------------------------------------------------
(* main. The commands that only look at the settings take no guard.          *)

Main(p) ==
    /\ at[p] = "ended"
    /\ \E c \in {"validate", "dashboard", "hardware test"} :
          /\ command' = [command EXCEPT ![p] = c]
          /\ IF c = "validate" THEN Goto(p, "resolve") ELSE Goto(p, "acquire")
    /\ UNCHANGED <<installed, guard, seeding, wanted, registry>>

Acquire(p) ==
    /\ at[p] = "acquire"
    /\ \/ /\ guard = NoInstance
          /\ guard' = p /\ Goto(p, "resolve")
          /\ UNCHANGED <<command, seen, synced>>
       \/ guard # NoInstance /\ End(p)
    /\ UNCHANGED <<installed, seeding, wanted, entry, touched>>

----------------------------------------------------------------------------
(* resolve_config and seed_config.                                           *)

Resolved(p) ==
    Goto(p, IF command[p] = "dashboard" THEN "sync" ELSE "running")

(* Nothing to seed: portable, or the user's file is there. *)
ResolveConfig(p) ==
    /\ at[p] = "resolve"
    /\ IF installed /\ config = "none" THEN Goto(p, "create") ELSE Resolved(p)
    /\ UNCHANGED <<installed, guard, command, seeding, wanted, registry>>

(* create_new: the name has the process and a counter, so it is always new. *)
CreateTemporary(p) ==
    /\ at[p] = "create"
    /\ Goto(p, "write")
    /\ temporary' = [temporary EXCEPT ![p] = "part"]
    /\ UNCHANGED <<installed, guard, command, config, wanted, registry>>

WriteTemporary(p) ==
    /\ at[p] = "write"
    /\ Goto(p, "move")
    /\ temporary' = [temporary EXCEPT ![p] = "template"]
    /\ UNCHANGED <<installed, guard, command, config, wanted, registry>>

(* Mutant: the template is copied to its place. *)
CopyTemplate(p) ==
    /\ at[p] = "move"
    /\ config' \in {"part", "template"}
    /\ temporary' = [temporary EXCEPT ![p] = "none"]
    /\ Resolved(p)
    /\ UNCHANGED <<installed, guard, command, wanted, registry>>

(* move_no_replace: of two processes that seed one loses, and takes the file   *)
(* that is there; so does one that finds the user's. *)
MoveNoReplace(p) ==
    /\ at[p] = "move"
    /\ config' = IF config = "none" THEN temporary[p] ELSE config
    /\ temporary' = [temporary EXCEPT ![p] = "none"]
    /\ Resolved(p)
    /\ UNCHANGED <<installed, guard, command, wanted, registry>>

(* An error removes the temporary file, if it can, and ends the process. *)
ResolveFails(p) ==
    /\ at[p] \in {"resolve", "create", "write", "move"}
    /\ \/ temporary' = [temporary EXCEPT ![p] = "none"]
       \/ UNCHANGED temporary
    /\ End(p)
    /\ UNCHANGED <<installed, config, wanted, entry, touched>>

----------------------------------------------------------------------------
(* sync_startup: one transaction, from reading the value to its commit.      *)

SyncNeeded(p) == ~installed /\ synced[p] # {wanted}

SyncStartup(p) ==
    /\ at[p] = "sync"
    /\ IF SyncNeeded(p)
       THEN /\ seen' = [seen EXCEPT ![p] = entry]
            /\ Goto(p, "commit")
       ELSE Goto(p, "running") /\ UNCHANGED seen
    /\ UNCHANGED <<installed, guard, command, seeding, wanted, entry, synced,
                   touched>>

(* A foreign value is not replaced, which is an error, and not deleted. *)
Written(value) ==
    IF wanted THEN (IF value = "foreign" THEN value ELSE "ours")
    ELSE (IF value = "ours" THEN "none" ELSE value)
Refused(value) == wanted /\ value = "foreign"

(* The commit fails also when another program has changed the value. *)
Commit(p) ==
    /\ at[p] = "commit"
    /\ \/ /\ ~Refused(seen[p]) /\ entry = seen[p]
          /\ entry' = Written(entry)
          /\ synced' = [synced EXCEPT ![p] = {wanted}]
          /\ touched' = FALSE
       \/ UNCHANGED <<entry, synced, touched>>
    /\ seen' = [seen EXCEPT ![p] = "none"]
    /\ Goto(p, "running")
    /\ UNCHANGED <<installed, guard, command, seeding, wanted>>

(* The dashboard has taken in a save of the settings. *)
Reload(p) ==
    /\ at[p] = "running" /\ command[p] = "dashboard"
    /\ synced[p] # {wanted}
    /\ Goto(p, "sync")
    /\ UNCHANGED <<installed, guard, command, seeding, wanted, registry>>

----------------------------------------------------------------------------
(* The user and other programs.                                              *)

(* The settings are saved; a transaction goes on with the old ones in hand,   *)
(* which is left out: nothing is saved between its read and its commit. *)
Save ==
    /\ \A p \in Instance : at[p] # "commit"
    /\ config' = "user" /\ saved' = TRUE
    /\ wanted' \in IF installed THEN {wanted} ELSE BOOLEAN
    /\ UNCHANGED <<installed, guard, command, at, temporary, registry, foreign>>

Register ==
    /\ ~installed
    /\ entry' \in {"none", "ours", "foreign"} \ {entry}
    /\ touched' = TRUE /\ foreign' = (entry' = "foreign")
    /\ UNCHANGED <<installed, guard, command, at, seeding, wanted, seen, synced,
                   saved>>

Exit(p) ==
    /\ at[p] # "ended"
    /\ End(p)
    /\ UNCHANGED <<installed, seeding, wanted, entry, touched>>

ProgramStep ==
    /\ UNCHANGED history
    /\ \E p \in Instance :
          \/ Main(p) \/ Acquire(p) \/ ResolveConfig(p) \/ CreateTemporary(p)
          \/ WriteTemporary(p) \/ MoveNoReplace(p) \/ ResolveFails(p)
          \/ SyncStartup(p) \/ Commit(p) \/ Reload(p) \/ Exit(p)

Next == ProgramStep \/ Save \/ Register

Spec == Init /\ [][Next]_vars

----------------------------------------------------------------------------
(* Properties.                                                               *)

TypeOK ==
    /\ installed \in BOOLEAN /\ guard \in Instance \cup {NoInstance}
    /\ command \in [Instance -> {"none", "validate", "dashboard", "hardware test"}]
    /\ at \in [Instance -> {"ended", "acquire", "resolve", "create", "write",
                           "move", "sync", "commit", "running"}]
    /\ temporary \in [Instance -> {"none", "part", "template"}]
    /\ config \in {"none", "part", "template", "user"} /\ wanted \in BOOLEAN
    /\ entry \in {"none", "ours", "foreign"}
    /\ seen \in [Instance -> {"none", "ours", "foreign"}]
    /\ synced \in [Instance -> SUBSET BOOLEAN]
    /\ {touched, foreign, saved} \subseteq BOOLEAN

(* A settings file is whole whenever there is one, and the template never     *)
(* takes the place of what the user saved, though two processes seed it at    *)
(* once or end half-way (seed_config, move_no_replace). The start-up entry of *)
(* another program is neither replaced nor deleted; and what the dashboard    *)
(* takes for the state of the entry is its state, as long as no other program *)
(* changes it (sync_startup, startup_synced).                                 *)
Agrees(value) == IF wanted THEN value = "ours" ELSE value # "ours"

KeptWhole ==
    /\ config # "part"
    /\ saved => config = "user"
    /\ foreign => entry = "foreign"
    /\ \A p \in Instance : synced[p] = {wanted} /\ ~touched => Agrees(entry)
=============================================================================
