----------------------------- MODULE HoldProofs -----------------------------
(* Proofs about Hold, for any number of buttons and every set of programs.    *)
EXTENDS Hold, WellFoundedInduction, FiniteSetTheorems, SequenceTheorems, TLAPS

----------------------------------------------------------------------------
(* The operators.                                                            *)

LEMMA Least ==
    ASSUME NEW S \in SUBSET Nat, S # {}
    PROVE  \E x \in S : \A y \in S : x <= y
<1> DEFINE R == OpToRel(<, Nat)
<1>1. IsWellFoundedOn(R, Nat)
  BY NatLessThanWellFounded
<1>2. \A x, y \in Nat : x < y => <<x, y>> \in R
  BY DEF OpToRel
<1> HIDE DEF R
<1>3. PICK x \in S : \A y \in S : ~(<<y, x>> \in R)
  BY <1>1, WFMin
<1>4. \A y \in S : ~(y < x)
  BY <1>2, <1>3
<1>5. QED BY <1>4

(* The owner is one of the slots that select PROC_HANG, if there are any. *)
LEMMA Owners ==
    ASSUME NEW slots \in SUBSET Button
    PROVE  OwnerOf(slots) \in Button \cup {NoOwner}
<1>1. CASE slots = {}
  BY <1>1 DEF OwnerOf
<1>2. CASE slots # {}
  <2>1. \E b \in slots : \A c \in slots : b <= c
    BY <1>2, Least, HoldAssumption DEF Button
  <2>2. QED BY <1>2, <2>1 DEF OwnerOf
<1>3. QED BY <1>1, <1>2

(* A published list is no longer than there are programs. *)
LEMMA Lists ==
    ASSUME NEW p \in Publications
    PROVE  /\ p.targets \in Seq(Target)
           /\ Len(p.targets) \in Nat
           /\ Len(p.targets) <= Cardinality(Target)
<1>1. Cardinality(Target) \in Nat
  BY HoldAssumption, FS_CardinalityType
<1>2. CASE p = Unavailable
  BY <1>1, <1>2 DEF Unavailable
<1>3. CASE p # Unavailable
  <2>1. PICK n \in 0..Cardinality(Target) : p.targets \in [1..n -> Target]
    BY <1>3 DEF Publications
  <2>2. n \in Nat /\ n <= Cardinality(Target)
    BY <1>1, <2>1
  <2>3. QED BY <2>1, <2>2
<1>4. QED BY <1>2, <1>3

(* An index into a list comes back to its beginning. *)
LEMMA Wraps ==
    ASSUME NEW i \in Nat, NEW n \in Nat, n # 0
    PROVE  i % n \in Nat /\ i % n < n
OBVIOUS

LEMMA NoPressTyped == NoPress \in Press /\ ~Bound(NoPress) /\ ~Pending(NoPress)
BY DEF NoPress, Press, Bound, Pending, Policy

(* A press that is canceled stays what it is otherwise. *)
LEMMA Canceled ==
    ASSUME NEW p \in Press
    PROVE  LET q == [p EXCEPT !.canceled = TRUE]
           IN  /\ q \in Press
               /\ q.target = p.target
               /\ q.resolved = p.resolved
               /\ q.canceled = TRUE
BY DEF Press

(* So does one that is over. *)
LEMMA Resolved ==
    ASSUME NEW p \in Press
    PROVE  LET q == [p EXCEPT !.resolved = TRUE]
           IN  q \in Press /\ q.target = p.target /\ q.resolved = TRUE
BY DEF Press

LEMMA Cancels ==
    ASSUME NEW ps \in [Button -> Press], NEW S, NEW qs, qs = Cancel(ps, S)
    PROVE  /\ qs \in [Button -> Press]
           /\ \A b \in Button :
                /\ qs[b].target = ps[b].target
                /\ qs[b].resolved = ps[b].resolved
                /\ b \in S => ~Pending(qs[b])
                /\ Pending(qs[b]) => qs[b] = ps[b]
<1>1. ASSUME NEW b \in Button
      PROVE  /\ qs[b] \in Press
             /\ qs[b].target = ps[b].target
             /\ qs[b].resolved = ps[b].resolved
             /\ b \in S => ~Pending(qs[b])
             /\ Pending(qs[b]) => qs[b] = ps[b]
  <2>1. ps[b] \in Press
    OBVIOUS
  <2>2. CASE b \in S /\ Pending(ps[b])
    <3>1. qs[b] = [ps[b] EXCEPT !.canceled = TRUE]
      BY <2>2 DEF Cancel
    <3>2. QED BY <2>1, <3>1, Canceled DEF Pending
  <2>3. CASE ~(b \in S /\ Pending(ps[b]))
    <3>1. qs[b] = ps[b]
      BY <2>3 DEF Cancel
    <3>2. QED BY <2>1, <2>3, <3>1
  <2>4. QED BY <2>2, <2>3
<1>2. qs = [b \in Button |-> qs[b]]
  BY DEF Cancel
<1>3. QED BY <1>1, <1>2

(* What the cancellations of a device leave. *)
LEMMA CanceledByDevice ==
    ASSUME TypeOK, NEW S, NEW name, NEW qs, qs = CancelsFrom(S, name)
    PROVE  /\ qs \in [Button -> Press]
           /\ \A b \in Button : qs[b] \in {NoPress, presses[b]}
<1>1. \A b \in Button : qs[b] \in {NoPress, presses[b]}
  BY DEF CancelsFrom
<1>2. qs = [b \in Button |-> qs[b]]
  BY DEF CancelsFrom
<1>3. QED BY <1>1, <1>2, NoPressTyped DEF TypeOK

(* A press that begins. *)
LEMMA Begins ==
    ASSUME TypeOK, NEW b \in Button
    PROVE  NewPress(b) \in Press
<1> DEFINE press == [NoPress EXCEPT !.source = source]
           i == hungIndex % Len(published.targets)
<1>1. press \in Press
  BY NoPressTyped DEF TypeOK, Press
<1>2. CASE published.targets = << >>
  BY <1>1, <1>2 DEF NewPress
<1>3. CASE published.targets # << >>
  <2>1. /\ published.targets \in Seq(Target) /\ Len(published.targets) \in Nat
        /\ Len(published.targets) # 0 /\ hungIndex \in Nat
    BY <1>3, Lists, EmptySeq DEF TypeOK
  <2>2. i \in Nat /\ i < Len(published.targets)
    BY <2>1, Wraps
  <2>3. i \in Nat /\ published.targets[i + 1] \in Target
    <3> HIDE DEF i
    <3>1. i + 1 \in 1..Len(published.targets)
      BY <2>1, <2>2
    <3>2. QED BY <2>1, <2>2, <3>1, ElementOfSeq
  <2>4. cfg \in Policy
    BY DEF TypeOK
  <2> HIDE DEF i
  <2>5. [press EXCEPT !.index = i, !.target = published.targets[i + 1], !.policy = cfg] \in Press
    BY <1>1, <2>3, <2>4 DEF Press
  <2>6. QED BY <1>1, <2>5 DEF NewPress, i
<1>4. QED BY <1>2, <1>3
----------------------------------------------------------------------------
(* Types, and one press at a time.                                           *)

(* A press that has fired is still bound, and over. *)
FiredIsOver == \A b \in fired : Bound(presses[b]) /\ presses[b].resolved

HInv == TypeOK /\ OneBoundPress /\ FiredIsOver

LEMMA HInvInit == Init => HInv
<1> SUFFICES ASSUME Init PROVE HInv
  OBVIOUS
<1>1. presses \in [Button -> Press] /\ \A b \in Button : ~Bound(presses[b])
  BY NoPressTyped DEF Init
<1>2. owner \in Button \cup {NoOwner} /\ selected \subseteq Button
  BY Owners DEF Init
<1>3. TypeOK
  BY <1>1, <1>2 DEF Init, TypeOK, Publications, NoCommand
<1>4. QED BY <1>1, <1>3 DEF Init, HInv, OneBoundPress, FiredIsOver

(* Who is bound is so before: no press is bound anew. *)
LEMMA NothingBound ==
    ASSUME HInv, \A b \in Button : Bound(presses'[b]) => Bound(presses[b])
    PROVE  OneBoundPress'
BY DEF HInv, OneBoundPress

(* Canceling alone keeps the invariant. *)
LEMMA CancelKeeps ==
    ASSUME HInv, NEW ps \in [Button -> Press], NEW S, presses' = Cancel(ps, S),
           \A b \in Button :
              \/ ps[b] = presses[b]
              \/ ~Bound(ps[b]) /\ ~Bound(presses[b]),
           fired' = fired
    PROVE  presses' \in [Button -> Press] /\ OneBoundPress' /\ FiredIsOver'
<1>1. /\ presses' \in [Button -> Press]
      /\ \A b \in Button : /\ presses'[b].target = ps[b].target
                           /\ presses'[b].resolved = ps[b].resolved
  BY Cancels
<1>2. \A b \in Button : Bound(presses'[b]) => presses[b] = ps[b] /\ Bound(presses[b])
  BY <1>1 DEF Bound
<1>3. \A b \in fired : Bound(presses[b]) /\ presses[b] = ps[b]
  BY DEF HInv, FiredIsOver, TypeOK
<1>4. FiredIsOver'
  BY <1>1, <1>3 DEF HInv, FiredIsOver, TypeOK, Bound
<1>5. QED BY <1>1, <1>2, <1>4, NothingBound

(* A slot that moves leaves the owner and what is selected well typed. *)
LEMMA MoveSlotKeeps ==
    ASSUME HInv, NEW b \in Button, NEW ps \in [Button -> Press], MoveSlot(b, ps),
           \A c \in Button :
              \/ ps[c] = presses[c]
              \/ ~Bound(ps[c]) /\ ~Bound(presses[c]),
           fired' = fired
    PROVE  /\ presses' \in [Button -> Press] /\ OneBoundPress' /\ FiredIsOver'
           /\ owner' \in Button \cup {NoOwner} /\ selected' \subseteq Button
           /\ broken' \subseteq Button
<1>1. PICK slots \in {selected \cup {b}, selected \ {b}} :
         /\ selected' = slots /\ owner' = OwnerOf(slots)
         /\ presses' = Cancel(ps, Button \ {owner'})
         /\ broken' = broken \cup {p \in Button : Bound(ps[p]) /\ p # owner'}
  BY DEF MoveSlot
<1>2. slots \subseteq Button
  BY DEF HInv, TypeOK
<1>3. owner' \in Button \cup {NoOwner}
  BY <1>1, <1>2, Owners
<1>4. presses' \in [Button -> Press] /\ OneBoundPress' /\ FiredIsOver'
  BY <1>1, CancelKeeps
<1>5. QED BY <1>1, <1>2, <1>3, <1>4 DEF HInv, TypeOK

LEMMA HInvNext ==
    ASSUME HInv, [Next]_vars
    PROVE  HInv'
<1> USE DEF HInv
<1>1. ASSUME NEW publication \in Publications, Publish(publication) PROVE HInv'
  <2>1. presses' \in [Button -> Press] /\ OneBoundPress' /\ FiredIsOver'
    BY <1>1, CancelKeeps DEF Publish, TypeOK
  <2>2. TypeOK'
    BY <1>1, <2>1 DEF Publish, TypeOK, NoCommand, device
  <2>3. QED BY <2>1, <2>2
<1>2. ASSUME NEW policy \in Policy, NEW slots \in SUBSET Button, NEW replaced \in BOOLEAN,
             Reload(policy, slots, replaced)
      PROVE HInv'
  <2>1. presses' \in [Button -> Press] /\ OneBoundPress' /\ FiredIsOver'
    BY <1>2, CancelKeeps DEF Reload, TypeOK
  <2>2. owner' \in Button \cup {NoOwner} /\ selected' \subseteq Button
    BY <1>2, Owners DEF Reload
  <2>3. source' \in {"none", "hid", "sdk"} /\ emitted' \subseteq Button
    BY <1>2 DEF Reload, TypeOK, device
  <2>4. TypeOK'
    BY <1>2, <2>1, <2>2, <2>3 DEF Reload, TypeOK, NoCommand, Publications
  <2>5. QED BY <2>1, <2>4
<1>3. ASSUME NEW b \in Button, Click(b) PROVE HInv'
  <2>1. /\ presses' \in [Button -> Press] /\ OneBoundPress' /\ FiredIsOver'
        /\ owner' \in Button \cup {NoOwner} /\ selected' \subseteq Button
        /\ broken' \subseteq Button
    BY <1>3, MoveSlotKeeps DEF Click, TypeOK
  <2>2. TypeOK'
    BY <1>3, <2>1 DEF Click, TypeOK, NoCommand, device
  <2>3. QED BY <2>1, <2>2
<1>4. ASSUME NEW b \in Button, Tick(b) PROVE HInv'
  <2>1. CASE ~Continuous(b, published)
    <3>1. presses' \in [Button -> Press] /\ OneBoundPress' /\ FiredIsOver'
      BY <1>4, <2>1, CancelKeeps DEF Tick, TypeOK
    <3>2. TypeOK'
      BY <1>4, <2>1, <3>1 DEF Tick, TypeOK, NoCommand, device
    <3>3. QED BY <3>1, <3>2
  <2>2. CASE Continuous(b, published)
    <3>1. presses[b] \in Press /\ presses' = [presses EXCEPT ![b].resolved = TRUE]
      BY <1>4, <2>2 DEF Tick, TypeOK
    <3>2. presses'[b] = [presses[b] EXCEPT !.resolved = TRUE]
      BY <3>1 DEF TypeOK
    <3>3. /\ presses'[b] \in Press /\ presses'[b].target = presses[b].target
          /\ presses'[b].resolved
      BY <3>1, <3>2, Resolved
    <3>4. \A c \in Button : c # b => presses'[c] = presses[c]
      BY <3>1 DEF TypeOK
    <3>5. presses' \in [Button -> Press]
      BY <3>1, <3>3, <3>4 DEF TypeOK
    <3>6. OneBoundPress'
      BY <3>3, <3>4, NothingBound DEF Bound
    <3>7. fired' \in {fired, fired \cup {b}} /\ Bound(presses[b])
      BY <1>4, <2>2 DEF Tick, Pending
    <3>8. FiredIsOver'
      BY <3>3, <3>4, <3>7 DEF FiredIsOver, Bound, TypeOK
    <3>9. command' \in [do : {"none", "cycle", "terminate"}, button : Button \cup {NoOwner},
                        target : Target \cup {NoTarget}]
      BY <1>4, <2>2, <3>1 DEF Tick, NoCommand, Terminate, Press
    <3>10. TypeOK'
      BY <1>4, <3>5, <3>7, <3>9 DEF Tick, TypeOK, device
    <3>11. QED BY <3>6, <3>8, <3>10
  <2>3. QED BY <2>1, <2>2
<1>5. ASSUME NEW b \in Button, Down(b) PROVE HInv'
  <2>1. CASE UNCHANGED <<presses, history>>
    BY <1>5, <2>1 DEF Down, TypeOK, OneBoundPress, FiredIsOver, NoCommand, history
  <2>2. CASE /\ ~Blocked(b)
             /\ presses' = [presses EXCEPT ![b] = NewPress(b)]
             /\ broken' = broken \ {b} /\ fired' = fired \ {b}
    <3>1. presses' \in [Button -> Press]
      BY <2>2, Begins DEF TypeOK
    <3>2. \A c \in Button : c # b => presses'[c] = presses[c]
      BY <2>2 DEF TypeOK
    <3>3. \A c \in Button : c # b => ~Bound(presses[c])
      BY <2>2 DEF Blocked
    <3>4. OneBoundPress'
      BY <3>2, <3>3 DEF OneBoundPress
    <3>5. FiredIsOver'
      BY <2>2, <3>2 DEF FiredIsOver, TypeOK
    <3>6. TypeOK'
      BY <1>5, <2>2, <3>1 DEF Down, TypeOK, NoCommand
    <3>7. QED BY <3>4, <3>5, <3>6
  <2>3. QED BY <1>5, <2>1, <2>2 DEF Down
<1>6. ASSUME NEW b \in Button, Up(b) PROVE HInv'
  BY <1>6 DEF Up, TypeOK, OneBoundPress, FiredIsOver, NoCommand, hold, history
<1>7. ASSUME NEW b \in Button, UpUnbound(b) PROVE HInv'
  <2>1. /\ Taken(b) \in [Button -> Press]
        /\ \A c \in Button : \/ Taken(b)[c] = presses[c]
                             \/ ~Bound(Taken(b)[c]) /\ ~Bound(presses[c])
    BY <1>7, NoPressTyped DEF UpUnbound, Taken, TypeOK
  <2>2. CASE command' = Cycle(b) /\ UNCHANGED fired /\ MoveSlot(b, Taken(b))
    <3>1. /\ presses' \in [Button -> Press] /\ OneBoundPress' /\ FiredIsOver'
          /\ owner' \in Button \cup {NoOwner} /\ selected' \subseteq Button
          /\ broken' \subseteq Button
      BY <2>1, <2>2, MoveSlotKeeps
    <3>2. TypeOK'
      BY <1>7, <2>2, <3>1 DEF UpUnbound, TypeOK, Cycle
    <3>3. QED BY <3>1, <3>2
  <2>3. CASE /\ command' = NoCommand
             /\ presses' = Taken(b)
             /\ UNCHANGED <<selected, owner, history>>
    <3>1. OneBoundPress'
      BY <2>1, <2>3, NothingBound
    <3>2. FiredIsOver'
      BY <2>1, <2>3 DEF FiredIsOver, TypeOK, history
    <3>3. TypeOK'
      BY <1>7, <2>1, <2>3 DEF UpUnbound, TypeOK, NoCommand, history
    <3>4. QED BY <3>1, <3>2, <3>3
  <2>4. QED BY <1>7, <2>2, <2>3 DEF UpUnbound
<1>8. ASSUME NEW b \in Button, UpBound(b) PROVE HInv'
  <2>1. /\ presses' \in [Button -> Press]
        /\ presses'[b] = NoPress
        /\ \A c \in Button : c # b => presses'[c] = presses[c]
    BY <1>8, NoPressTyped DEF UpBound, Taken, TypeOK
  <2>2. OneBoundPress'
    BY <2>1, NoPressTyped, NothingBound
  <2>3. FiredIsOver'
    BY <1>8, <2>1 DEF UpBound, FiredIsOver, TypeOK
  <2>4. hungIndex' \in Nat /\ (hungIndex' = 0 \/ hungIndex' < Cardinality(Target))
    <3>1. CASE hungIndex' = hungIndex
      BY <3>1 DEF TypeOK
    <3>2. CASE /\ hungIndex' = NextTarget(presses[b].index)
               /\ Len(published.targets) > 1
      <4>1. presses[b].index \in Nat
        BY DEF TypeOK, Press
      <4>2. Len(published.targets) \in Nat /\ Len(published.targets) <= Cardinality(Target)
        BY Lists DEF TypeOK
      <4>3. Cardinality(Target) \in Nat
        BY HoldAssumption, FS_CardinalityType
      <4>4. hungIndex' \in Nat /\ hungIndex' < Len(published.targets)
        BY <3>2, <4>1, <4>2, Wraps DEF NextTarget
      <4>5. QED BY <4>2, <4>3, <4>4
    <3>3. QED BY <1>8, <3>1, <3>2 DEF UpBound
  <2>5. hungDetail' \in BOOLEAN
    BY <1>8, Zenon DEF UpBound, TypeOK
  <2>6. TypeOK'
    BY <1>8, <2>1, <2>4, <2>5 DEF UpBound, TypeOK, NoCommand
  <2>7. QED BY <2>2, <2>3, <2>6
<1>9. CASE Lose \/ \E name \in {"hid", "sdk"} : Open(name)
  <2>1. \/ UNCHANGED <<presses, emitted>>
        \/ \E S, name : presses' = CancelsFrom(S, name) /\ emitted' = {}
    BY <1>9 DEF Lose, Open
  <2>2. /\ presses' \in [Button -> Press]
        /\ \A b \in Button : presses'[b] \in {NoPress, presses[b]}
        /\ emitted' \subseteq Button
    BY <2>1, CanceledByDevice DEF TypeOK
  <2>3. OneBoundPress'
    BY <2>2, NoPressTyped, NothingBound
  <2>4. fired' = BoundAmong(fired) /\ broken' \subseteq Button
    BY <1>9 DEF Lose, Open, BoundAmong, TypeOK
  <2>5. FiredIsOver'
    BY <2>2, <2>4, NoPressTyped DEF FiredIsOver, BoundAmong, TypeOK
  <2>6. TypeOK'
    BY <1>9, <2>2, <2>4 DEF Lose, Open, TypeOK, NoCommand, BoundAmong
  <2>7. QED BY <2>3, <2>5, <2>6
<1>10. ASSUME NEW b \in Button, Elapse(b) PROVE HInv'
  <2>1. presses[b] \in Press /\ presses'[b] =
          [presses[b] EXCEPT !.age = IF presses[b].age = "short" THEN "due" ELSE "late"]
    BY <1>10 DEF Elapse, TypeOK
  <2>2. /\ presses'[b] \in Press
        /\ presses'[b].target = presses[b].target
        /\ presses'[b].resolved = presses[b].resolved
    BY <2>1 DEF Press
  <2>3. \A c \in Button : c # b => presses'[c] = presses[c]
    BY <1>10 DEF Elapse, TypeOK
  <2>4. presses' \in [Button -> Press]
    BY <1>10, <2>2, <2>3 DEF Elapse, TypeOK
  <2>5. OneBoundPress'
    BY <2>2, <2>3, NothingBound DEF Bound
  <2>6. FiredIsOver'
    BY <1>10, <2>2, <2>3 DEF Elapse, FiredIsOver, Bound, TypeOK, history
  <2>7. TypeOK'
    BY <1>10, <2>4 DEF Elapse, TypeOK, NoCommand, device, history
  <2>8. QED BY <2>5, <2>6, <2>7
<1>11. CASE UNCHANGED vars
  BY <1>11 DEF vars, hold, device, history, TypeOK, OneBoundPress, FiredIsOver
<1>12. QED
  BY <1>1, <1>2, <1>3, <1>4, <1>5, <1>6, <1>7, <1>8, <1>9, <1>10, <1>11 DEF Next, Loop, Event

(* What a step may ask for. *)
LEMMA Commands ==
    ASSUME HInv, [Next]_vars, NEW b \in Button, command'.do # "none", command'.button = b
    PROVE  \/ UNCHANGED vars
           \/ b \notin fired /\ command'.do # "terminate"
           \/ b \notin fired /\ Pending(presses[b]) /\ presses[b].age = "due"
<1>1. ASSUME NEW c \in Button, Tick(c)
      PROVE  c = b /\ b \notin fired /\ Pending(presses[b]) /\ presses[b].age = "due"
  <2>1. command' = Terminate(c) /\ Pending(presses[c]) /\ presses[c].age = "due"
    BY <1>1 DEF Tick, NoCommand
  <2>2. c = b
    BY <2>1 DEF Terminate
  <2>3. b \notin fired
    BY <2>1, <2>2 DEF HInv, FiredIsOver, Pending
  <2>4. QED BY <2>1, <2>2, <2>3
<1>2. ASSUME NEW c \in Button, UpUnbound(c)
      PROVE  b \notin fired /\ command'.do # "terminate"
  <2>1. command' = Cycle(c) /\ ~Bound(presses[c])
    BY <1>2 DEF UpUnbound, NoCommand
  <2>2. QED BY <2>1 DEF Cycle, HInv, FiredIsOver
<1>3. ASSUME command' = NoCommand PROVE FALSE
  BY <1>3 DEF NoCommand
<1>4. QED
  BY <1>1, <1>2, <1>3 DEF Next, Loop, Event, Publish, Reload, Click, Lose, Open, Down, Up,
    UpBound, Elapse

----------------------------------------------------------------------------
(* Unbroken presses, where no check of the device's ownership fails.         *)

BrokenIsOver == \A b \in broken : ~Pending(presses[b])
HeldDown ==
    \A b \in Button :
        Pending(presses[b]) =>
            /\ b \in emitted
            /\ presses[b].source = source
            /\ source # "none"

BInv == BrokenIsOver /\ HeldDown

LEMMA BInvInit == Init => BInv
BY NoPressTyped DEF Init, BInv, BrokenIsOver, HeldDown

(* A step that begins no press, whose device and buttons are as they were. *)
LEMMA OverKeeps ==
    ASSUME HInv, BInv, UNCHANGED <<source, emitted>>,
           \A b \in Button : Pending(presses'[b]) => presses'[b] = presses[b],
           broken' \subseteq Button,
           \A b \in broken' : b \in broken \/ ~Pending(presses'[b])
    PROVE  BInv'
BY DEF BInv, BrokenIsOver, HeldDown

LEMMA NewPressSource ==
    ASSUME TypeOK, NEW b \in Button
    PROVE  NewPress(b).source = source
<1>1. [NoPress EXCEPT !.source = source].source = source
  BY DEF NoPress
<1>2. ASSUME NEW i, NEW t
      PROVE  [[NoPress EXCEPT !.source = source]
                EXCEPT !.index = i, !.target = t, !.policy = cfg].source = source
  BY DEF NoPress
<1>3. QED BY <1>1, <1>2 DEF NewPress

(* The device's cancellations reach a press in progress. *)
LEMMA DeviceCancels ==
    ASSUME HInv, BInv, NEW b \in Button, Pending(presses[b]),
           presses' = CancelsFrom(emitted, source)
    PROVE  presses'[b] = NoPress
<1>1. \A o \in Button : Bound(presses[o]) => o = b
  BY DEF HInv, OneBoundPress, Pending
<1>2. b \in emitted /\ presses[b].source = source /\ b <= b
  BY HoldAssumption DEF BInv, HeldDown, Button
<1>3. QED BY <1>1, <1>2 DEF CancelsFrom

LEMMA BInvNext ==
    ASSUME HInv, HInv', BInv, ~CheckFails, [Next]_vars
    PROVE  BInv'
<1>1. /\ presses \in [Button -> Press]
      /\ \A b \in Button : presses[b] \in Press
      /\ broken \subseteq Button /\ broken' \subseteq Button
  BY DEF HInv, TypeOK
<1>2. ASSUME NEW publication \in Publications, Publish(publication) PROVE BInv'
  <2> DEFINE S == {b \in Button : ~Continuous(b, publication)}
  <2>1. \A b \in Button : /\ Pending(presses'[b]) => presses'[b] = presses[b]
                          /\ b \in S => ~Pending(presses'[b])
    BY <1>1, <1>2, Cancels DEF Publish
  <2>2. ASSUME NEW b \in Button, Continuous(b, publication) PROVE Listed(b, publication)
    <3>1. /\ presses[b].index \in Nat /\ publication.targets \in Seq(Target)
          /\ presses[b].index < Len(publication.targets)
          /\ publication.targets[presses[b].index + 1] = presses[b].target
      BY <1>1, <2>2, Lists DEF Continuous, Press
    <3>2. presses[b].index + 1 \in DOMAIN publication.targets
      BY <3>1, LenProperties
    <3>3. QED BY <3>1, <3>2 DEF Listed
  <2>3. \A b \in broken' : b \in broken \/ ~Pending(presses'[b])
    BY <1>2, <2>1, <2>2 DEF Publish
  <2>4. QED BY <1>1, <1>2, <2>1, <2>3, OverKeeps DEF Publish, device
<1>3. ASSUME NEW policy \in Policy, NEW slots \in SUBSET Button, NEW replaced \in BOOLEAN,
             Reload(policy, slots, replaced)
      PROVE BInv'
  <2>1. \A b \in Button : ~Pending(presses'[b])
    BY <1>1, <1>3, Cancels DEF Reload
  <2>2. QED BY <1>1, <2>1 DEF BInv, BrokenIsOver, HeldDown
<1>4. ASSUME NEW b \in Button, NEW ps \in [Button -> Press], MoveSlot(b, ps)
      PROVE  /\ \A c \in Button : Pending(presses'[c]) => presses'[c] = ps[c]
             /\ \A c \in broken' : c \in broken \/ ~Pending(presses'[c])
  BY <1>4, Cancels DEF MoveSlot
<1>5. ASSUME NEW b \in Button, Click(b) PROVE BInv'
  BY <1>1, <1>4, <1>5, OverKeeps DEF Click, device
<1>6. ASSUME NEW b \in Button, Tick(b) PROVE BInv'
  <2>1. CASE ~Continuous(b, published)
    <3>1. \A c \in Button : Pending(presses'[c]) => presses'[c] = presses[c]
      BY <1>1, <1>6, <2>1, Cancels DEF Tick
    <3>2. QED BY <1>1, <1>6, <3>1, OverKeeps DEF Tick, device
  <2>2. CASE Continuous(b, published)
    <3>1. presses' = [presses EXCEPT ![b].resolved = TRUE]
      BY <1>6, <2>2 DEF Tick
    <3>2. presses'[b].resolved = TRUE /\ \A c \in Button : c # b => presses'[c] = presses[c]
      BY <1>1, <3>1, Resolved
    <3>3. \A c \in Button : Pending(presses'[c]) => presses'[c] = presses[c]
      BY <3>2 DEF Pending
    <3>4. QED BY <1>1, <1>6, <3>3, OverKeeps DEF Tick, device
  <2>3. QED BY <2>1, <2>2
<1>7. ASSUME NEW b \in Button, Down(b) PROVE BInv'
  <2>1. source # "none" /\ source' = source /\ emitted' = emitted \cup {b}
    BY <1>7 DEF Down
  <2>2. CASE UNCHANGED <<presses, history>>
    BY <2>1, <2>2 DEF BInv, BrokenIsOver, HeldDown, history
  <2>3. CASE /\ presses' = [presses EXCEPT ![b] = NewPress(b)]
             /\ broken' = broken \ {b} /\ fired' = fired \ {b}
    <3>1. presses'[b].source = source /\ \A c \in Button : c # b => presses'[c] = presses[c]
      BY <1>1, <2>3, NewPressSource DEF HInv
    <3>2. BrokenIsOver'
      BY <1>1, <2>3, <3>1 DEF BInv, BrokenIsOver
    <3>3. HeldDown'
      BY <2>1, <3>1 DEF BInv, HeldDown
    <3>4. QED BY <3>2, <3>3 DEF BInv
  <2>4. QED BY <1>7, <2>2, <2>3 DEF Down
<1>8. ASSUME NEW b \in Button, Up(b) PROVE BInv'
  <2>1. ~Pending(presses[b])
    <3> SUFFICES ASSUME Pending(presses[b]) PROVE FALSE
      OBVIOUS
    <3>1. \A o \in Button : Bound(presses[o]) => o = b
      BY DEF HInv, OneBoundPress, Pending
    <3>2. presses[b].source = source
      BY DEF BInv, HeldDown
    <3>3. QED BY <1>8, <3>1, <3>2 DEF Up, Answers, Blocked
  <2>2. QED BY <1>8, <2>1 DEF Up, BInv, BrokenIsOver, HeldDown, hold, history
<1>9. ASSUME NEW b \in Button, UpUnbound(b) \/ UpBound(b) PROVE BInv'
  <2>1. /\ Taken(b) \in [Button -> Press]
        /\ ~Pending(Taken(b)[b])
        /\ \A c \in Button : c # b => Taken(b)[c] = presses[c]
    BY <1>1, NoPressTyped DEF Taken
  <2>2. /\ \A c \in Button : Pending(presses'[c]) => presses'[c] = Taken(b)[c]
        /\ \A c \in broken' : c \in broken \/ ~Pending(presses'[c])
    BY <1>4, <1>9, <2>1 DEF UpUnbound, UpBound, history
  <2>3. source' = source /\ emitted' = emitted \ {b}
    BY <1>9 DEF UpUnbound, UpBound
  <2>4. \A c \in Button : Pending(presses'[c]) => c # b /\ presses'[c] = presses[c]
    BY <2>1, <2>2
  <2>5. BrokenIsOver'
    BY <1>1, <2>2, <2>4 DEF BInv, BrokenIsOver
  <2>6. HeldDown'
    BY <2>3, <2>4 DEF BInv, HeldDown
  <2>7. QED BY <2>5, <2>6 DEF BInv
<1>10. ASSUME NEW S, NEW name, presses' = CancelsFrom(S, name),
              \A b \in Button : Pending(presses[b]) => presses'[b] = NoPress
       PROVE  BInv'
  <2>1. \A b \in Button : presses'[b] \in {NoPress, presses[b]}
    BY <1>10, CanceledByDevice DEF HInv
  <2>2. \A b \in Button : ~Pending(presses'[b])
    BY <1>10, <2>1, NoPressTyped
  <2>3. QED BY <1>1, <2>2 DEF BInv, BrokenIsOver, HeldDown
<1>11. CASE Lose
  BY <1>10, <1>11, DeviceCancels DEF Lose
<1>12. ASSUME NEW name, Open(name) PROVE BInv'
  <2>1. \A b \in Button : ~Pending(presses[b])
    BY <1>12 DEF Open, BInv, HeldDown
  <2>2. QED BY <1>10, <1>12, <2>1 DEF Open
<1>13. ASSUME NEW b \in Button, Elapse(b) PROVE BInv'
  <2>1. /\ \A c \in Button : c # b => presses'[c] = presses[c]
        /\ presses'[b].source = presses[b].source
        /\ Pending(presses[b])
    BY <1>1, <1>13 DEF Elapse, Press
  <2>2. UNCHANGED <<source, emitted, broken>>
    BY <1>13 DEF Elapse, device, history
  <2>3. QED BY <1>1, <2>1, <2>2 DEF BInv, BrokenIsOver, HeldDown
<1>14. CASE UNCHANGED vars
  BY <1>14 DEF vars, hold, device, history, BInv, BrokenIsOver, HeldDown
<1>15. QED
  BY <1>2, <1>3, <1>5, <1>6, <1>7, <1>8, <1>9, <1>11, <1>12, <1>13, <1>14
     DEF Next, Loop, Event

----------------------------------------------------------------------------
(* The theorems.                                                             *)

LEMMA HInvAlways == Spec => []HInv
<1>1. HInv /\ [Next]_vars => HInv'
  BY HInvNext
<1>2. QED BY <1>1, HInvInit, PTL DEF Spec

(* Every variable keeps its type, for any buttons, programs and settings; the *)
(* owner is a button and the shown index is in the list (HoldState). *)
THEOREM TypeCorrect == Spec => []TypeOK
<1>1. HInv => TypeOK
  BY DEF HInv
<1>2. QED BY <1>1, HInvAlways, PTL

(* One press is bound at a time, for any number of buttons, whichever         *)
(* devices, owners, lists and settings come and go in it (HoldState::event). *)
THEOREM OneIsBound == Spec => []OneBoundPress
<1>1. HInv => OneBoundPress
  BY DEF HInv
<1>2. QED BY <1>1, HInvAlways, PTL

(* A hold fires once, when it is due and not late, and its release does not   *)
(* move a slot (HoldState::tick, HoldState::event). *)
THEOREM FiresOnceOnly == Spec => FiresOnce
<1>1. HInv /\ [Next]_vars =>
        [\A b \in Button :
           command'.do # "none" /\ command'.button = b =>
              /\ b \notin fired
              /\ command'.do = "terminate" => presses[b].age = "due"]_vars
  BY Commands
<1>2. QED BY <1>1, HInvAlways, PTL DEF Spec, FiresOnce

(* Where no check of the device's ownership fails, only an unbroken press     *)
(* whose button is down ends a program, whatever happens to other presses. *)
THEOREM EndsUnbroken ==
    ASSUME ~CheckFails
    PROVE  Spec => TerminateUnbroken
<1>1. Init => BInv
  BY BInvInit
<1>2. HInv /\ HInv' /\ BInv /\ [Next]_vars => BInv'
  BY BInvNext
<1>3. HInv /\ BInv /\ [Next]_vars =>
        [\A b \in Button :
           command'.do = "terminate" /\ command'.button = b
             => b \notin broken /\ b \in emitted]_vars
  BY Commands DEF BInv, BrokenIsOver, HeldDown
<1>4. QED
  BY <1>1, <1>2, <1>3, HInvAlways, PTL DEF Spec, TerminateUnbroken

=============================================================================
