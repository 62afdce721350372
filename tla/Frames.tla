-------------------------------- MODULE Frames --------------------------------
(* How old the frame rates on the screen may be (providers/presentmon.rs):    *)
(* statistics are sent when the interval is over and there are new frames,    *)
(* and again as stale and as expired after five and ten seconds without any.  *)
(* A change of presenter sends nothing: what is shown stays until the new one *)
(* presents, or is dropped because it has been silent for ten seconds.        *)
CONSTANT LongInterval   \* presentmon_interval_ms may exceed STALE_AFTER

VARIABLES
    presenting, \* the mode: all that present, or one target
    at,         \* where the tick is
    selected,   \* there is a target
    listed,     \* activity.contains(target)
    sampled,    \* last_frame, and last_publish with it: a frame was counted
    age,        \* of its last frame, counted or seen: none, fresh, stale, expired
    unsent,     \* last_frame > last_publish
    said,       \* last_unavailable
    shown       \* what was sent last

target == <<selected, listed, sampled>>
vars == <<presenting, at, target, age, unsent, said, shown>>

Init ==
    /\ presenting \in BOOLEAN
    /\ at = "rest"
    /\ selected = ~presenting /\ listed = ~presenting /\ sampled = FALSE
    /\ age = "none" /\ unsent = FALSE /\ said = "" /\ shown = "nothing"

(* set_unavailable and its like: a detail is not repeated. *)
Say(detail, what) ==
    IF said = detail THEN UNCHANGED <<said, shown>> ELSE said' = detail /\ shown' = what

(* stale_projection *)
Project ==
    \/ sampled /\ age = "stale" /\ Say("stale", "stale")
    \/ sampled /\ age = "expired" /\ Say("expired", "nothing")

(* One that is picked was seen to present in the last seconds; none of its    *)
(* frames is counted. *)
SelectPresenter(s) ==
    /\ selected' = s /\ listed' = s /\ sampled' = FALSE
    /\ age' = IF s THEN "fresh" ELSE "none"
    /\ unsent' = FALSE /\ said' = ""

(* The capture fails, or its target is another, and it starts anew. *)
Restart ==
    /\ at' = "rest"
    /\ selected' = ~presenting /\ listed' = ~presenting /\ sampled' = FALSE
    /\ age' = "none" /\ unsent' = FALSE /\ said' = "" /\ shown' = "nothing"
    /\ UNCHANGED presenting

(* The mode `presenting` judges the frames before it reads new ones; an       *)
(* expired presenter, or one that is no more listed, ended or excluded, is    *)
(* dropped, and one is picked where there is none. *)
Prepare ==
    /\ at = "rest" /\ presenting
    /\ at' = "drain"
    /\ \/ selected /\ listed /\ age = "stale" /\ Project /\ UNCHANGED <<target, age, unsent>>
       \/ /\ selected => listed
          /\ sampled => age = "fresh"
          /\ UNCHANGED <<target, age, unsent, said, shown>>
       \/ /\ selected /\ sampled /\ age = "expired" /\ shown' = "nothing"
          /\ \E s \in BOOLEAN : SelectPresenter(s)
       \/ selected /\ UNCHANGED shown /\ \E s \in BOOLEAN : SelectPresenter(s)
       \/ ~selected /\ UNCHANGED shown /\ SelectPresenter(TRUE)
    /\ UNCHANGED presenting

(* The statistics are sent, at once when they are the first. *)
Count(framed) ==
    /\ age' = IF framed THEN "fresh" ELSE age
    /\ sampled' = (sampled \/ framed)
    /\ \/ (unsent \/ framed) /\ shown' = "current" /\ unsent' = FALSE
       \/ (framed => sampled) /\ unsent' = (unsent \/ framed) /\ shown' = shown
    /\ UNCHANGED <<selected, listed>>

Drained ==
    /\ at = (IF presenting THEN "drain" ELSE "rest")
    /\ at' = "finish"
    /\ UNCHANGED presenting

(* Mutant: what was said about the frames before is not forgotten. *)
DrainKeepingSaid ==
    /\ Drained
    /\ \/ \E framed \in IF selected THEN BOOLEAN ELSE {FALSE} :
             Count(framed) /\ said' = said
       \/ presenting /\ selected /\ SelectPresenter(FALSE) /\ UNCHANGED shown

(* New frames of the target are counted; a presenter of which a frame comes   *)
(* after its end is dropped. *)
Drain ==
    /\ Drained
    /\ \/ \E framed \in IF selected THEN BOOLEAN ELSE {FALSE} :
             Count(framed) /\ said' = IF framed THEN "" ELSE said
       \/ presenting /\ selected /\ SelectPresenter(FALSE) /\ UNCHANGED shown

(* The other modes judge them afterwards. In `presenting` those silent for    *)
(* ten seconds are no more listed, and a challenger may take over. *)
Finish ==
    /\ at = "finish" /\ at' = "rest"
    /\ \/ ~presenting /\ Project /\ UNCHANGED <<target, age, unsent>>
       \/ /\ ~presenting /\ (sampled => age = "fresh")
          /\ UNCHANGED <<target, age, unsent, said, shown>>
       \/ /\ presenting /\ selected /\ listed' = (age # "expired")
          /\ UNCHANGED <<selected, sampled, age, unsent, said, shown>>
       \/ presenting /\ SelectPresenter(TRUE) /\ UNCHANGED shown
       \/ /\ presenting /\ ~selected /\ Say("waiting", "nothing")
          /\ UNCHANGED <<target, age, unsent>>
    /\ UNCHANGED presenting

(* Five seconds pass. What is new has been sent by then, unless the interval  *)
(* is longer; after ten seconds it always has. *)
FiveSeconds ==
    /\ at = "rest"
    /\ \/ age = "fresh" /\ (~unsent \/ LongInterval) /\ age' = "stale"
       \/ age = "stale" /\ ~unsent /\ age' = "expired"
    /\ UNCHANGED <<presenting, at, target, unsent, said, shown>>

Next == Prepare \/ Drain \/ Finish \/ Restart \/ FiveSeconds

Spec == Init /\ [][Next]_vars

----------------------------------------------------------------------------
TypeOK ==
    /\ {presenting, selected, listed, sampled, unsent} \subseteq BOOLEAN
    /\ at \in {"rest", "drain", "finish"}
    /\ age \in {"none", "fresh", "stale", "expired"}
    /\ said \in {"", "stale", "expired", "waiting"}
    /\ shown \in {"nothing", "current", "stale"}

(* The target shown is the one before: it is not known how old its values     *)
(* are, but the next one is watched and has not been silent for ten seconds,  *)
(* or the next tick drops it. *)
Handover ==
    presenting /\ selected /\ ~sampled /\ (listed => age # "expired")

(* "Frame values become stale after five seconds without frames"              *)
(* (CONFIGURATION.md:255). A tick that leaves values shown as current has     *)
(* counted a frame of their target in the last five seconds, unless the       *)
(* presenter was changed and the new one has not presented since: then those  *)
(* of the one before stay as they are, which the sentence does not say        *)
(* (select_presenter sends nothing, presentmon.rs:1968-1979), and only until  *)
(* the new one presents or has been silent for ten seconds.                   *)
StaleIsShown ==
    [][at' = "rest" /\ at # "rest" /\ shown' = "current" =>
          \/ sampled' /\ age' = "fresh"
          \/ Handover']_vars
=============================================================================
