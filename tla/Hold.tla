-------------------------------- MODULE Hold --------------------------------
(* The hold that ends a hung program (HoldState of providers/hang.rs), with   *)
(* the parts of the main loop (app.rs) that drive it: the slots that select   *)
(* PROC_HANG, the published list of hung targets, the settings, and the       *)
(* button events of the backend.                                              *)
(*                                                                            *)
(* Everything runs in the thread of the main loop, so each action is one      *)
(* stage of an iteration with every call it makes. Durations are abstracted   *)
(* to three ages of a press: "short" of hang_hold, "due", and "late", past    *)
(* the maximum.                                                               *)
EXTENDS Integers, Sequences, FiniteSets

CONSTANTS
    Buttons,        \* how many buttons there are; each has its slot
    Target,         \* identities of hung windows
    NoTarget,       \* what a press is bound to when it is bound to none
    Active,         \* settings (Policy) under which the action is allowed
    Off,            \* settings that disable it, or safe mode
    CheckFails      \* whether a check of device ownership may fail

ASSUME HoldAssumption ==
    Buttons \in Nat \ {0} /\ IsFiniteSet(Target) /\ NoTarget \notin Target
      /\ Off \notin Active /\ CheckFails \in BOOLEAN

Button == 1..Buttons
NoOwner == 0

Policy == Active \cup {Off}

VARIABLES
    \* HoldState
    presses, owner, hungIndex, hungDetail,
    \* The main loop: settings, slots showing PROC_HANG, publication.
    cfg, selected, published,
    \* The backend: the open device, and the presses its tracker has reported.
    source, emitted,
    \* History: the last command, the bound presses whose continuity was broken
    \* since they began, and those that have asked for the end of a program.
    command, broken, fired

hold    == <<presses, owner, hungIndex, hungDetail>>
device  == <<source, emitted>>
history == <<broken, fired>>
vars == <<hold, cfg, selected, published, device, command, history>>

NoPress == [source |-> "none", target |-> NoTarget, index |-> 0, policy |-> Off,
            age |-> "short", canceled |-> FALSE, resolved |-> FALSE]

NoCommand == [do |-> "none", button |-> NoOwner, target |-> NoTarget]
Cycle(b) == [do |-> "cycle", button |-> b, target |-> NoTarget]
Terminate(b) == [do |-> "terminate", button |-> b, target |-> presses[b].target]

Bound(p)   == p.target # NoTarget
Pending(p) == Bound(p) /\ ~p.canceled /\ ~p.resolved

(* The presses ps, those of the buttons S canceled if they are in progress. *)
Cancel(ps, S) ==
    [b \in Button |-> IF b \in S /\ Pending(ps[b]) THEN [ps[b] EXCEPT !.canceled = TRUE]
                                                  ELSE ps[b]]

(* What the detector publishes: no target twice. *)
Unavailable == [available |-> FALSE, targets |-> <<>>]
Publications ==
    {Unavailable} \cup
    {[available |-> TRUE, targets |-> t] :
        t \in {s \in UNION {[1..n -> Target] : n \in 0..Cardinality(Target)} :
                 \A i, j \in DOMAIN s : s[i] = s[j] => i = j}}

(* proc_hang_owner: the first slot that selects PROC_HANG owns its button. *)
OwnerOf(slots) ==
    IF slots = {} THEN NoOwner ELSE CHOOSE b \in slots : \A c \in slots : b <= c

(* Mutant: the list need not hold the target any more. *)
ContinuousElsewhere(b, publication) ==
    /\ publication.available
    /\ cfg # Off /\ presses[b].policy = cfg
    /\ owner = b

(* The target of the press is where it was in the list, under the settings    *)
(* and the owner the press was bound with. *)
Continuous(b, publication) ==
    /\ publication.available
    /\ cfg # Off /\ presses[b].policy = cfg
    /\ owner = b
    /\ presses[b].index < Len(publication.targets)
    /\ publication.targets[presses[b].index + 1] = presses[b].target

(* The target of the press is in the list at all. *)
Listed(b, publication) ==
    \E i \in DOMAIN publication.targets : publication.targets[i] = presses[b].target

Init ==
    /\ presses = [b \in Button |-> NoPress]
    /\ selected \in SUBSET Button /\ owner = OwnerOf(selected)
    /\ hungIndex = 0 /\ hungDetail = FALSE
    /\ cfg \in Policy /\ published = Unavailable
    /\ source = "none" /\ emitted = {}
    /\ command = NoCommand /\ broken = {} /\ fired = {}

----------------------------------------------------------------------------
(* Stages of the main loop.                                                   *)

(* A publication arrives; reconcile follows. *)
Publish(publication) ==
    /\ cfg = Off => publication.targets = <<>>
    /\ published' = publication
    /\ presses' = Cancel(presses, {b \in Button : ~Continuous(b, publication)})
    /\ broken' = broken \cup {b \in Button : Bound(presses[b]) /\ ~Listed(b, publication)}
    /\ command' = NoCommand
    /\ UNCHANGED <<owner, hungIndex, hungDetail, cfg, selected, device, fired>>

(* New settings: a press in progress is canceled, what was published is       *)
(* dropped, and the slots may select something else. When the settings of the *)
(* backend differ it is replaced, and its tracker with it. *)
Reload(policy, slots, replaced) ==
    /\ cfg' = policy /\ published' = Unavailable
    /\ selected' = slots /\ owner' = OwnerOf(slots)
    /\ presses' = Cancel(presses, Button)
    /\ broken' = broken \cup {b \in Button : Bound(presses[b])}
    /\ IF replaced THEN source' = "none" /\ emitted' = {} ELSE UNCHANGED device
    /\ command' = NoCommand
    /\ UNCHANGED <<hungIndex, hungDetail, fired>>

(* Mutant: a press does not keep the other buttons out. *)
NotBlocked(b) == FALSE

(* A bound press keeps other buttons, and its own on another device, out. *)
Blocked(b) ==
    \E o \in Button : Bound(presses[o]) /\ (o # b \/ presses[o].source # source)

(* The owner's button is bound to the target at hungIndex. *)
NewPress(b) ==
    LET press == [NoPress EXCEPT !.source = source]
        i == hungIndex % Len(published.targets)
    IN  IF b = owner /\ cfg # Off /\ published.targets # <<>>
        THEN [press EXCEPT !.index = i, !.target = published.targets[i + 1], !.policy = cfg]
        ELSE press

(* A press already there gives way if it is one of the same device, neither   *)
(* canceled nor resolved. *)
Down(b) ==
    /\ source # "none" /\ b \notin emitted
    /\ emitted' = emitted \cup {b}
    /\ IF /\ ~Blocked(b)
          /\ presses[b].source \in {"none", source}
          /\ ~presses[b].canceled /\ ~presses[b].resolved
       THEN /\ presses' = [presses EXCEPT ![b] = NewPress(b)]
            /\ broken' = broken \ {b} /\ fired' = fired \ {b}
       ELSE UNCHANGED <<presses, history>>
    /\ command' = NoCommand
    /\ UNCHANGED <<owner, hungIndex, hungDetail, cfg, selected, published, source>>

(* A slot is moved to its next selection, and with it the owner: set_owner. *)
MoveSlot(b, ps) ==
    \E slots \in {selected \cup {b}, selected \ {b}} :
        /\ selected' = slots /\ owner' = OwnerOf(slots)
        /\ presses' = Cancel(ps, Button \ {owner'})
        /\ broken' = broken \cup {p \in Button : Bound(ps[p]) /\ p # owner'}

Taken(b) == [presses EXCEPT ![b] = NoPress]

(* The end of a press that was reported, as long as it is one HoldState knows. *)
Answers(b) ==
    /\ source # "none" /\ b \in emitted
    /\ ~Blocked(b) /\ presses[b].source = source

Up(b) ==
    /\ source # "none" /\ b \in emitted
    /\ ~Answers(b)
    /\ emitted' = emitted \ {b}
    /\ command' = NoCommand
    /\ UNCHANGED <<hold, cfg, selected, published, source, history>>

(* A press that was bound to nothing moves its slot. The last button          *)
(* acknowledges an alert instead, when there is one; and over the list of     *)
(* hung targets a button does nothing. *)
UpUnbound(b) ==
    /\ Answers(b) /\ ~Bound(presses[b])
    /\ emitted' = emitted \ {b}
    /\ \/ /\ ~(b = owner /\ published.targets # <<>>)
          /\ command' = Cycle(b) /\ UNCHANGED fired
          /\ MoveSlot(b, Taken(b))
       \/ /\ (b = owner /\ published.targets # <<>>) \/ b = Buttons
          /\ command' = NoCommand
          /\ presses' = Taken(b)
          /\ UNCHANGED <<selected, owner, history>>
    /\ UNCHANGED <<hungIndex, hungDetail, cfg, published, source>>

(* The next target of the list. *)
NextTarget(i) == (i + 1) % Len(published.targets)

(* A short press that was bound and not canceled shows the title of the       *)
(* target, then the next target. *)
UpBound(b) ==
    /\ Answers(b) /\ Bound(presses[b])
    /\ emitted' = emitted \ {b}
    /\ presses' = Taken(b)
    /\ IF Pending(presses[b]) /\ Continuous(b, published) /\ presses[b].age = "short"
       THEN IF hungDetail /\ Len(published.targets) > 1
            THEN hungIndex' = NextTarget(presses[b].index) /\ hungDetail' = FALSE
            ELSE hungDetail' = ~hungDetail /\ UNCHANGED hungIndex
       ELSE UNCHANGED <<hungIndex, hungDetail>>
    /\ broken' = broken \ {b} /\ fired' = fired \ {b}
    /\ command' = NoCommand
    /\ UNCHANGED <<owner, cfg, selected, published, source>>

(* A click on the preview. *)
Click(b) ==
    /\ MoveSlot(b, presses)
    /\ command' = NoCommand
    /\ UNCHANGED <<hungIndex, hungDetail, cfg, published, device, fired>>

(* Mutant: a hold that is late fires like any other. *)
TickLate(b) ==
    /\ Pending(presses[b]) /\ presses[b].age # "short"
    /\ presses' = [presses EXCEPT ![b].resolved = TRUE]
    /\ command' = Terminate(b) /\ fired' = fired \cup {b}
    /\ UNCHANGED <<owner, hungIndex, hungDetail, cfg, selected, published,
                   device, broken>>

(* Mutant: a hold that is late is left as it is. *)
TickDueOnly(b) ==
    /\ Pending(presses[b]) /\ Continuous(b, published) /\ presses[b].age = "due"
    /\ presses' = [presses EXCEPT ![b].resolved = TRUE]
    /\ command' = Terminate(b) /\ fired' = fired \cup {b}
    /\ UNCHANGED <<owner, hungIndex, hungDetail, cfg, selected, published,
                   device, broken>>

(* A hold that is due asks for the end of its target, one that is late is     *)
(* refused, and one that was interrupted is canceled. *)
Tick(b) ==
    /\ Pending(presses[b])
    /\ IF ~Continuous(b, published)
       THEN presses' = Cancel(presses, {b}) /\ command' = NoCommand /\ UNCHANGED fired
       ELSE /\ presses[b].age # "short"
            /\ presses' = [presses EXCEPT ![b].resolved = TRUE]
            /\ IF presses[b].age = "due"
               THEN command' = Terminate(b) /\ fired' = fired \cup {b}
               ELSE command' = NoCommand /\ UNCHANGED fired
    /\ UNCHANGED <<owner, hungIndex, hungDetail, cfg, selected, published,
                   device, broken>>

----------------------------------------------------------------------------
(* The backend and time.                                                      *)

(* Cancellations of the buttons S, in order, under the name of a device. A    *)
(* bound press keeps those before it out, and if it is not among them, all.   *)
CancelsFrom(S, name) ==
    LET bound == {o \in Button : Bound(presses[o])}
        heard == {b \in S : \A o \in bound : o \in S /\ o <= b /\ presses[o].source = name}
    IN  [b \in Button |-> IF b \in heard /\ presses[b].source = name THEN NoPress
                                                                   ELSE presses[b]]

BoundAmong(S) == {b \in S : Bound(presses'[b])}

(* The device opens; presses that were left are canceled under its name. *)
Open(name) ==
    /\ source = "none" /\ source' = name
    /\ presses' = CancelsFrom(emitted, name) /\ emitted' = {}
    /\ broken' = BoundAmong(broken) /\ fired' = BoundAmong(fired)
    /\ command' = NoCommand
    /\ UNCHANGED <<owner, hungIndex, hungDetail, cfg, selected, published>>

(* The device is lost, with the cancellations sent before it is closed, or,   *)
(* when the check of its ownership failed, without. *)
Lose ==
    /\ source # "none" /\ source' = "none"
    /\ \/ presses' = CancelsFrom(emitted, source) /\ emitted' = {}
       \/ CheckFails /\ UNCHANGED <<presses, emitted>>
    /\ broken' = BoundAmong(Button) /\ fired' = BoundAmong(fired)
    /\ command' = NoCommand
    /\ UNCHANGED <<owner, hungIndex, hungDetail, cfg, selected, published>>

Elapse(b) ==
    /\ Pending(presses[b]) /\ presses[b].age # "late"
    /\ presses' = [presses EXCEPT ![b].age = IF @ = "short" THEN "due" ELSE "late"]
    /\ command' = NoCommand
    /\ UNCHANGED <<owner, hungIndex, hungDetail, cfg, selected, published,
                   device, history>>

----------------------------------------------------------------------------

Loop ==
    \/ \E publication \in Publications : Publish(publication)
    \/ \E policy \in Policy, slots \in SUBSET Button, replaced \in BOOLEAN :
          Reload(policy, slots, replaced)
    \/ \E b \in Button : Click(b) \/ Tick(b)

Event(b) == Down(b) \/ Up(b) \/ UpUnbound(b) \/ UpBound(b)

Next ==
    \/ Loop \/ Lose
    \/ \E name \in {"hid", "sdk"} : Open(name)
    \/ \E b \in Button : Event(b) \/ Elapse(b)

Spec == Init /\ [][Next]_vars

(* The loop goes on and time passes. *)
FairSpec == Spec /\ \A b \in Button : WF_vars(Tick(b)) /\ WF_vars(Elapse(b))

----------------------------------------------------------------------------
(* Properties.                                                                *)

Press ==
    [source : {"none", "hid", "sdk"}, target : Target \cup {NoTarget}, index : Nat,
     policy : Policy, age : {"short", "due", "late"}, canceled : BOOLEAN, resolved : BOOLEAN]

TypeOK ==
    /\ presses \in [Button -> Press]
    /\ owner \in Button \cup {NoOwner}
    /\ hungIndex \in Nat /\ (hungIndex = 0 \/ hungIndex < Cardinality(Target)) /\ hungDetail \in BOOLEAN
    /\ cfg \in Policy /\ selected \subseteq Button /\ published \in Publications
    /\ source \in {"none", "hid", "sdk"} /\ emitted \subseteq Button
    /\ command \in [do : {"none", "cycle", "terminate"}, button : Button \cup {NoOwner},
                     target : Target \cup {NoTarget}]
    /\ broken \subseteq Button /\ fired \subseteq Button

(* No two presses are bound at a time, however presses, devices and owners    *)
(* change: set_owner, reconcile and tick look at one press only, and would    *)
(* leave a second one running. *)
OneBoundPress ==
    \A a, b \in Button : Bound(presses[a]) /\ Bound(presses[b]) => a = b

(* "Hold state cancels on release, recovery, identity or selection change,    *)
(* device loss, source failure, settings change, disable" (ARCHITECTURE.md):  *)
(* the end of a program is asked for only by a press during which none of     *)
(* these happened, even for a moment, and while the button is down. *)
TerminateUnbroken ==
    [][\A b \in Button :
         command'.do = "terminate" /\ command'.button = b => b \notin broken /\ b \in emitted]_vars

(* "If the app responds too late, the hold is refused rather than fired late" *)
(* (CONFIGURATION.md): a hold fires neither early nor late, and once. The     *)
(* press that fired has no other effect: its release does not move a slot.    *)
FiresOnce ==
    [][\A b \in Button :
         command'.do # "none" /\ command'.button = b =>
            /\ b \notin fired
            /\ command'.do = "terminate" => presses[b].age = "due"]_vars

(* A press that is bound comes to an end by itself, without a release that    *)
(* may never be reported, unless its button is pressed anew before. *)
PressEnds ==
    \A b \in Button :
        \/ []<>~Pending(presses[b])
        \/ []<><<Down(b) /\ presses'[b] # presses[b]>>_vars
=============================================================================
