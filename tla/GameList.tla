------------------------------- MODULE GameList -------------------------------
(* The list of games that the NVIDIA app keeps (providers/presentmon.rs): one *)
(* worker reads it anew when the file has changed, while its owner may write  *)
(* it or put another in its place. Processes that are not on a list are not   *)
(* shown; without a list all are.                                             *)
EXTENDS Integers, FiniteSets

CONSTANTS
    Path, NoPath,       \* image paths; one that is not in the normal form
    MaxApplications,    \* MAX_CATALOG_APPLICATIONS
    Changes             \* bound: times the file is changed

VARIABLES
    file,       \* what is at the path
    unfinished, \* its owner is in the middle of writing it
    clock,      \* time of the last change
    at,         \* where the worker is
    handle,     \* the file that it has opened
    before,     \* its metadata then
    read,       \* what has been read of it
    retried,    \* this is the second attempt
    list, metadata  \* CatalogCache: the list, and what it was read from

outside == <<file, unfinished, clock>>
attempt == <<handle, before, read, retried>>
cache == <<list, metadata>>
vars == <<outside, at, attempt, cache>>

----------------------------------------------------------------------------
(* An application as parse_catalog sees it: it may lack one of the fields, or *)
(* have one twice.                                                            *)
Application == [recognized : BOOLEAN, creative : BOOLEAN, ops : BOOLEAN,
                manual : BOOLEAN, path : Path \cup {NoPath}]

Game(p) == [recognized |-> TRUE, creative |-> FALSE, ops |-> TRUE,
            manual |-> FALSE, path |-> p]

(* What the owner may write: lists, one of which names a game that was added  *)
(* by hand and a path that is none, one that this program does not know, and  *)
(* one that is too long. *)
Document ==
    UNION {LET odd == {Game(NoPath), [Game(p) EXCEPT !.manual = TRUE]}
               other == [Game(p) EXCEPT !.recognized = FALSE]
           IN  {{Game(p)}, {Game(p)} \cup odd, {other}, {Game(p), other} \cup odd} :
           p \in Path}

Unavailable == [available |-> FALSE, paths |-> {}]
Available(P) == [available |-> TRUE, paths |-> P]

NoText == [document |-> {}, whole |-> FALSE]
NoFile == [index |-> 0, modified |-> 0, text |-> NoText]

(* The size does not tell two versions apart, but a whole one from a part.    *)
Metadata(f) == [index |-> f.index, modified |-> f.modified, whole |-> f.text.whole]
NoMetadata == Metadata(NoFile)

(* parse_catalog: a part of a document is no JSON. *)
ParseCatalog(text) ==
    LET known == {a \in text.document : a.recognized}
        qualified == {a \in known : ~a.creative /\ a.ops /\ ~a.manual /\ a.path # NoPath}
    IN  IF \/ ~text.whole
           \/ Cardinality(text.document) > MaxApplications
           \/ known = {}
        THEN Unavailable
        ELSE Available({a.path : a \in qualified})

(* CatalogState::classify, allows. *)
Allows(path) == list.available => path \in list.paths

Init ==
    /\ file = NoFile /\ unfinished = FALSE /\ clock = 0
    /\ at = "rest" /\ handle = NoFile /\ before = NoMetadata
    /\ read = NoText /\ retried = FALSE
    /\ list = Unavailable /\ metadata = NoMetadata

----------------------------------------------------------------------------
(* CatalogCache::refresh and load_catalog_with.                              *)

Keep(l, m) ==
    /\ list' = l /\ metadata' = m /\ at' = "rest"
    /\ handle' = NoFile /\ before' = NoMetadata /\ read' = NoText /\ retried' = FALSE

(* Five seconds after the last check. A file with the metadata of the one     *)
(* that was read is not read again. *)
Refresh ==
    /\ at = "rest"
    /\ \/ file # NoFile /\ Metadata(file) = metadata /\ UNCHANGED at
       \/ (file = NoFile \/ Metadata(file) # metadata) /\ at' = "open"
    /\ UNCHANGED <<outside, attempt, cache>>

(* There is no path, no file, or it is a link or too long. *)
Unreadable ==
    /\ at \in {"open", "read", "compare"}
    /\ Keep(Unavailable, NoMetadata)
    /\ UNCHANGED outside

Open ==
    /\ at = "open" /\ file # NoFile
    /\ handle' = file /\ before' = Metadata(file)
    /\ at' = "read"
    /\ UNCHANGED <<outside, read, retried, cache>>

(* A file that another took the place of is read as it was. What has another  *)
(* length than its metadata said is given up at once. *)
Read ==
    /\ at = "read"
    /\ LET text == IF file.index = handle.index THEN file.text ELSE handle.text
       IN  IF text.whole = before.whole
           THEN read' = text /\ at' = "compare" /\ UNCHANGED <<handle, before, retried, cache>>
           ELSE Keep(Unavailable, NoMetadata)
    /\ UNCHANGED outside

(* Mutant: the file is not looked at again after it was read. *)
CompareNothing ==
    /\ at = "compare" /\ file # NoFile
    /\ Keep(ParseCatalog(read), Metadata(file))
    /\ UNCHANGED outside

(* The metadata of the path, not of the handle, so that another file in its   *)
(* place is seen too. *)
Compare ==
    /\ at = "compare" /\ file # NoFile
    /\ IF before = Metadata(file) THEN Keep(ParseCatalog(read), Metadata(file))
       ELSE IF retried THEN Keep(Unavailable, NoMetadata)
       ELSE /\ retried' = TRUE /\ at' = "open"
            /\ UNCHANGED <<handle, before, read, cache>>
    /\ UNCHANGED outside

----------------------------------------------------------------------------
(* The owner of the file. Each change has a time of its own, and a file that  *)
(* is written in place is cut first.                                          *)

Change(f, cut) ==
    /\ clock < Changes /\ clock' = clock + 1
    /\ file' = f /\ unfinished' = cut
    /\ UNCHANGED <<at, attempt, cache>>

Replace(d) ==
    ~unfinished /\ Change([index |-> clock + 1, modified |-> clock + 1,
                           text |-> [document |-> d, whole |-> TRUE]], FALSE)

BeginWrite(d) ==
    /\ file # NoFile /\ ~unfinished
    /\ Change([file EXCEPT !.modified = clock + 1,
                           !.text = [document |-> d, whole |-> FALSE]], TRUE)

EndWrite ==
    /\ unfinished
    /\ Change([file EXCEPT !.modified = clock + 1, !.text.whole = TRUE], FALSE)

Remove == file # NoFile /\ ~unfinished /\ Change(NoFile, FALSE)

Next ==
    \/ Refresh \/ Unreadable \/ Open \/ Read \/ Compare
    \/ EndWrite \/ Remove
    \/ \E d \in Document : Replace(d) \/ BeginWrite(d)

Spec == Init /\ [][Next]_vars

----------------------------------------------------------------------------
(* Properties.                                                               *)

TypeOK ==
    /\ file.text.document \subseteq Application /\ unfinished \in BOOLEAN
    /\ clock \in 0..Changes
    /\ at \in {"rest", "open", "read", "compare"}
    /\ read.document \subseteq Application /\ retried \in BOOLEAN
    /\ list.available \in BOOLEAN /\ list.paths \subseteq Path

(* What is kept as read from a file is what that file says, in full, though   *)
(* it is replaced or rewritten between the steps of reading it: otherwise a   *)
(* stale or half list would stay until the next change (load_catalog_with). *)
WholeReadings ==
    file # NoFile /\ metadata = Metadata(file) => list = ParseCatalog(file.text)
=============================================================================
