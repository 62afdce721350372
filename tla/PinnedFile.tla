----------------------------- MODULE PinnedFile -----------------------------
(* Code of others that this process runs: PresentMon.exe (presentmon.rs) and  *)
(* LogitechLcd.dll (backends/sdk.rs). Both are run by their path, after what  *)
(* is at that path was examined. In between every directory of the path and   *)
(* the file itself are held open, so that no other program can put anything   *)
(* else there. LCore.exe, which lies on the way to the DLL, is held and       *)
(* examined with it.                                                          *)
EXTENDS Naturals

CONSTANT Levels     \* directories of the path

Dir == 1..Levels
Level == 1..Levels + 1

VARIABLES
    kind,       \* which of the two
    at,         \* where the caller is
    entry,      \* what each directory of the path is
    target,     \* the file that the path leads to
    held,       \* levels of the path that are held open
    file,       \* the file that is held open
    attached,   \* the path leads to that file
    running     \* what runs

outside == <<entry, target>>
pins == <<held, file, attached>>
vars == <<kind, at, outside, pins, running>>

File == [signed : BOOLEAN, artifact : BOOLEAN, product : BOOLEAN, image : BOOLEAN]
NoFile == [signed |-> FALSE, artifact |-> FALSE, product |-> FALSE, image |-> FALSE]

Init ==
    /\ kind \in {"PresentMon", "SDK"}
    /\ at = "idle"
    /\ entry = [d \in Dir |-> "directory"] /\ target = NoFile
    /\ held = {} /\ file = NoFile /\ attached = FALSE
    /\ running = NoFile

LetGo == held' = {} /\ file' = NoFile /\ attached' = FALSE
Refuse == at' = "idle" /\ LetGo /\ UNCHANGED running

----------------------------------------------------------------------------
(* What is asked of a file, each of the handle that is held.                 *)

(* verify_authenticode: signed, by whom it should be. *)
Signed(f) == f.signed
(* The signer of the DLL and of LCore.exe is the same, and is Logitech. *)
SameSigner(f) == f.signed
(* held_sha256: it is the artifact that was released. *)
Artifact(f) == f.artifact
(* file_version, version_string: of the product and version of LCore.exe. *)
SameProduct(f) == f.product
(* validate_pe: a DLL for this machine with the exports that are called. *)
Image(f) == f.image

(* validate_candidate_with. *)
Candidate(f) == SameSigner(f) /\ SameProduct(f) /\ Image(f)

Trusted(f) == IF kind = "PresentMon" THEN Signed(f) /\ Artifact(f) ELSE Candidate(f)

----------------------------------------------------------------------------
(* validate_executable, discover_pinned.                                     *)

(* The path is spelled out, so that it has no link in it. *)
ResolveExecutable ==
    /\ kind = "PresentMon" /\ at = "idle"
    /\ at' = "pin"
    /\ UNCHANGED <<kind, outside, pins, running>>

(* The path is that of LCore.exe. *)
DiscoverPinned ==
    /\ kind = "SDK" /\ at = "idle"
    /\ at' = "immutable"
    /\ UNCHANGED <<kind, outside, pins, running>>

(* It lies within Program Files, has no link in it, and cannot be changed     *)
(* with the rights of this process. Installers have more. *)
RejectWritableChain ==
    /\ at = "immutable"
    /\ \/ /\ \A d \in Dir : entry[d] = "directory"
          /\ at' = "pin" /\ UNCHANGED <<pins, running>>
       \/ Refuse
    /\ UNCHANGED <<kind, outside>>

(* Mutant: of the path only the file is held. *)
PinDirectoryForAMoment ==
    /\ at = "pin" /\ held = {}
    /\ \A d \in Dir : entry[d] = "directory"
    /\ at' = "file"
    /\ UNCHANGED <<kind, outside, pins, running>>

(* pin_parent_chain, from the root down: each may be read but not renamed or  *)
(* deleted by others while it is held. *)
PinDirectory ==
    /\ at = "pin"
    /\ \E d \in Dir :
          /\ held = 1..(d - 1)
          /\ entry[d] = "directory"
          /\ held' = held \cup {d}
          /\ at' = IF d = Levels THEN "file" ELSE "pin"
    /\ UNCHANGED <<kind, outside, file, attached, running>>

(* It may be read but not written, renamed or deleted while it is held. *)
PinFile ==
    /\ at = "file"
    /\ held' = held \cup {Levels + 1}
    /\ file' = target /\ attached' = TRUE
    /\ at' = "validate"
    /\ UNCHANGED <<kind, outside, running>>

(* A link, a path that is another than the one that was asked for, an error. *)
PinFails ==
    /\ at \in {"pin", "file"}
    /\ Refuse
    /\ UNCHANGED <<kind, outside>>

Validate ==
    /\ at = "validate"
    /\ \/ /\ Trusted(file)
          /\ at' = IF kind = "PresentMon" THEN "repin" ELSE "load"
          /\ UNCHANGED <<pins, running>>
       \/ Refuse
    /\ UNCHANGED <<kind, outside>>

(* Capture::start holds the path anew: the file is still the same. *)
Repin ==
    /\ at = "repin"
    /\ \/ attached /\ at' = "spawn" /\ UNCHANGED <<pins, running>>
       \/ Refuse
    /\ UNCHANGED <<kind, outside>>

(* The settings or the target have changed, or the process cannot be made. *)
Spawn ==
    /\ at = "spawn"
    /\ \/ at' = "running" /\ running' = target /\ LetGo
       \/ Refuse
    /\ UNCHANGED <<kind, outside>>

(* LoadLibrary runs the code of the DLL. *)
LoadLibrary ==
    /\ at = "load"
    /\ \/ at' = "loaded" /\ running' = target /\ UNCHANGED pins
       \/ Refuse
    /\ UNCHANGED <<kind, outside>>

(* require_same_identity. The files are held for as long as it is loaded. *)
Identify ==
    /\ at = "loaded"
    /\ \/ attached /\ at' = "running" /\ UNCHANGED <<pins, running>>
       \/ at' = "idle" /\ LetGo /\ running' = NoFile
    /\ UNCHANGED <<kind, outside>>

Stop ==
    /\ at = "running"
    /\ at' = "idle" /\ LetGo /\ running' = NoFile
    /\ UNCHANGED <<kind, outside>>

----------------------------------------------------------------------------
(* Other programs.                                                           *)

(* A directory that is not held becomes another, and so does all below it. *)
ReplaceDirectory ==
    /\ \E d \in Dir \ held :
          /\ \E what \in {"directory", "link"} :
                entry' = [x \in Dir |-> IF x = d THEN what ELSE IF x > d THEN "directory"
                                        ELSE entry[x]]
    /\ target' \in File
    /\ attached' = FALSE
    /\ UNCHANGED <<kind, at, held, file, running>>

ReplaceFile ==
    /\ ~attached
    /\ target' \in File
    /\ UNCHANGED <<kind, at, entry, pins, running>>

Next ==
    \/ ResolveExecutable \/ DiscoverPinned \/ RejectWritableChain
    \/ PinDirectory \/ PinFile \/ PinFails \/ Validate
    \/ Repin \/ Spawn \/ LoadLibrary \/ Identify \/ Stop
    \/ ReplaceDirectory \/ ReplaceFile

Spec == Init /\ [][Next]_vars

----------------------------------------------------------------------------
(* Properties.                                                               *)

TypeOK ==
    /\ kind \in {"PresentMon", "SDK"}
    /\ at \in {"idle", "immutable", "pin", "file", "validate", "repin", "spawn",
               "load", "loaded", "running"}
    /\ entry \in [Dir -> {"directory", "link"}] /\ target \in File
    /\ held \subseteq Level /\ file \in File /\ attached \in BOOLEAN
    /\ running \in File

(* Only what passed the examination ever runs, though other programs rename   *)
(* directories and replace the file at any moment (pin_parent_chain,          *)
(* pin_file; Capture::start names the race that is left). What is held at the *)
(* path is what the path leads to. *)
OnlyVerifiedRuns ==
    /\ running # NoFile => Trusted(running)
    /\ attached => file = target
=============================================================================
