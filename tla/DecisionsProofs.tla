--------------------------- MODULE DecisionsProofs ---------------------------
(* Proofs about the parts of MCDecisions that choose by what they have read   *)
(* or been told, each for every value of its constants.                       *)
EXTENDS MCDecisions, Integers, FiniteSetTheorems, SequenceTheorems, TLAPS

----------------------------------------------------------------------------
(* Presenter. The selected process is a candidate or has expired, and a       *)
(* challenger with wins was ahead in the second it was counted for last.      *)

Counts ==
    /\ known \subseteq Process
    /\ window \in [Process -> Nat]
    /\ ahead \in [Process -> SUBSET Nat]

Counted ==
    /\ challenger.wins \in Nat /\ challenger.wins < SwitchWindows
    /\ challenger.window \in Nat
    /\ challenger.wins > 0 => challenger.window \in ahead[challenger.process]

PInv ==
    /\ Counts /\ Counted
    /\ target # NoProcess => target \in known \cup idle

(* Why the selected process may be given up. *)
Replaced ==
    target # NoProcess /\ target' # target =>
        \/ target \notin fit \/ target \in idle
        \/ target' # NoProcess /\ window[target'] - 1 \in ahead[target']

LEMMA PInvInit == Presenting!Init => PInv
BY PresenterAssumption DEF Presenting!Init, PInv, Counts, Counted, Presenting!NeverAhead,
  Presenting!NoChallenger

LEMMA TrackedCounts ==
    ASSUME window \in [Process -> Nat], NEW k, Presenting!Tracked(k)
    PROVE  known' = k /\ window' \in [Process -> Nat]
BY DEF Presenting!Tracked

(* The choice is kept or begins anew. *)
LEMMA ChoiceKept ==
    ASSUME Counts, Counted, known' \subseteq Process, window' \in [Process -> Nat],
           \/ UNCHANGED <<challenger, ahead>>
           \/ challenger' = Presenting!NoChallenger /\ ahead' = Presenting!NeverAhead
    PROVE  Counts' /\ Counted'
BY PresenterAssumption DEF Counts, Counted, Presenting!NeverAhead, Presenting!NoChallenger

(* Whoever ranks first has presented. *)
LEMMA RankedActive ==
    ASSUME NEW active, NEW timed \in SUBSET active, NEW load \in [timed -> Workload],
           NEW foreground, NEW c \in Presenting!Ranked(load, active, foreground)
    PROVE  c \in active
<1> DOMAIN load = timed
  OBVIOUS
<1>1. \A p \in Presenting!Best(load) : p \in timed
  BY DEF Presenting!Best
<1>2. QED
  BY <1>1 DEF Presenting!Ranked

(* A contest that is won was led in the second before. *)
LEMMA Won ==
    ASSUME PInv, NEW c \in Process, Presenting!Challenge(c).wins >= SwitchWindows
    PROVE  window[c] - 1 \in ahead[c]
<1> USE DEF PInv, Counts, Counted
<1>1. CASE challenger.process = c /\ window[c] = challenger.window
  <2>1. Presenting!Challenge(c).wins = challenger.wins
    BY <1>1 DEF Presenting!Challenge
  <2>2. QED BY <2>1, PresenterAssumption
<1>2. CASE ~(challenger.process = c /\ window[c] = challenger.window)
  <2>1. Presenting!Challenge(c).wins =
          IF challenger.process = c /\ window[c] = challenger.window + 1
          THEN challenger.wins + 1 ELSE 1
    BY <1>2 DEF Presenting!Challenge
  <2>2. challenger.process = c /\ window[c] = challenger.window + 1
    BY <2>1, PresenterAssumption
  <2>3. challenger.wins > 0
    BY <2>1, <2>2, PresenterAssumption
  <2>4. window[c] - 1 = challenger.window
    BY <2>2
  <2>5. QED BY <2>2, <2>3, <2>4
<1>3. QED BY <1>1, <1>2

(* A contest that goes on is counted for the second that has passed. *)
LEMMA Contested ==
    ASSUME PInv, NEW c \in Process, ~(Presenting!Challenge(c).wins >= SwitchWindows),
           challenger' = Presenting!Challenge(c),
           ahead' = [Presenting!NeverAhead EXCEPT ![c] = ahead[c] \cup {window[c]}]
    PROVE  ahead' \in [Process -> SUBSET Nat] /\ Counted'
<1> USE DEF PInv, Counts, Counted
<1>1. /\ challenger'.process = c /\ challenger'.window = window[c]
      /\ challenger'.wins \in Nat
  <2>1. CASE challenger.process = c /\ window[c] = challenger.window
    BY <2>1 DEF Presenting!Challenge
  <2>2. CASE ~(challenger.process = c /\ window[c] = challenger.window)
    BY <2>2 DEF Presenting!Challenge
  <2>3. QED BY <2>1, <2>2
<1>2. ahead' \in [Process -> SUBSET Nat] /\ window[c] \in ahead'[c]
  BY DEF Presenting!NeverAhead
<1>3. challenger'.wins < SwitchWindows
  BY <1>1, PresenterAssumption
<1>4. QED BY <1>1, <1>2, <1>3

LEMMA PickKeeps ==
    ASSUME PInv, Presenting!Pick
    PROVE  PInv' /\ Replaced
<1>1. known' = known \ idle /\ idle' = idle \cap {target}
      /\ window' \in [Process -> Nat]
  BY TrackedCounts, Zenon DEF Presenting!Pick, PInv, Counts
<1>2. known' \subseteq Process
  BY <1>1 DEF PInv, Counts
<1>3. CASE Presenting!NoContest
  <2>1. Counts' /\ Counted'
    BY <1>1, <1>2, <1>3, ChoiceKept DEF PInv, Presenting!NoContest
  <2>2. QED BY <1>1, <1>3, <2>1 DEF Presenting!NoContest, PInv, Replaced
<1>4. ASSUME NEW active \in SUBSET known', NEW timed \in SUBSET active,
             NEW foreground \in Process, NEW load \in [timed -> Workload],
             NEW c \in Presenting!Ranked(load, active, foreground),
             Presenting!PickPresenter(c, load)
      PROVE  PInv' /\ Replaced
  <2>1. c \in known' /\ c \in Process /\ c # NoProcess
    BY <1>2, RankedActive, PresenterAssumption
  <2>2. CASE target = NoProcess
    <3>1. Presenting!SelectPresenter(c)
      BY <1>4, <2>2 DEF Presenting!PickPresenter
    <3>2. Counts' /\ Counted'
      BY <1>1, <1>2, <3>1, ChoiceKept DEF PInv, Presenting!SelectPresenter
    <3>3. QED BY <2>1, <2>2, <3>1, <3>2 DEF PInv, Replaced, Presenting!SelectPresenter
  <2>3. CASE target # NoProcess /\ ~Presenting!IsAhead(c, load)
    BY <1>3, <1>4, <2>3 DEF Presenting!PickPresenter
  <2>4. CASE /\ target # NoProcess /\ Presenting!IsAhead(c, load)
             /\ Presenting!Challenge(c).wins >= SwitchWindows
    <3>1. Presenting!SelectPresenter(c)
      BY <1>4, <2>4 DEF Presenting!PickPresenter
    <3>2. Counts' /\ Counted'
      BY <1>1, <1>2, <3>1, ChoiceKept DEF PInv, Presenting!SelectPresenter
    <3>3. window[c] - 1 \in ahead[c]
      BY <2>1, <2>4, Won
    <3>4. QED BY <2>1, <3>1, <3>2, <3>3 DEF PInv, Replaced, Presenting!SelectPresenter
  <2>5. CASE /\ target # NoProcess /\ Presenting!IsAhead(c, load)
             /\ ~(Presenting!Challenge(c).wins >= SwitchWindows)
    <3>1. /\ challenger' = Presenting!Challenge(c)
          /\ ahead' = [Presenting!NeverAhead EXCEPT ![c] = ahead[c] \cup {window[c]}]
          /\ UNCHANGED target
      BY <1>4, <2>5 DEF Presenting!PickPresenter
    <3>2. Counts' /\ Counted'
      BY <1>1, <1>2, <2>1, <2>5, <3>1, Contested DEF Counts
    <3>3. QED BY <1>1, <3>1, <3>2 DEF PInv, Replaced
  <2>6. QED BY <2>2, <2>3, <2>4, <2>5
<1>5. QED
  BY <1>3, <1>4, Zenon DEF Presenting!Pick

(* The selected process is given up when it is no candidate any more. *)
LEMMA ForgottenKeeps ==
    ASSUME PInv, NEW k, k \subseteq Process, Presenting!Tracked(k),
           IF target # NoProcess /\ target \notin known'
           THEN Presenting!SelectPresenter(NoProcess)
           ELSE UNCHANGED Presenting!choice
    PROVE  /\ PInv'
           /\ target' # target => target # NoProcess /\ target \notin k
<1>1. known' = k /\ window' \in [Process -> Nat]
  BY TrackedCounts DEF PInv, Counts
<1>2. Counts' /\ Counted'
  BY <1>1, ChoiceKept DEF PInv, Presenting!SelectPresenter, Presenting!choice
<1>3. QED BY <1>1, <1>2 DEF PInv, Presenting!SelectPresenter, Presenting!choice

LEMMA PInvNext ==
    ASSUME PInv, [Presenting!Next]_(Presenting!vars)
    PROVE  PInv' /\ Replaced
<1> USE DEF Presenting!tracker, Presenting!choice
<1>1. CASE Presenting!Prepare
  <2>1. (known \cap fit) \ (idle \cap {target}) \subseteq Process
    BY DEF PInv, Counts
  <2>2. PInv' /\ (target' # target => target # NoProcess /\
                    target \notin (known \cap fit) \ (idle \cap {target}))
    BY <1>1, <2>1, ForgottenKeeps, Zenon DEF Presenting!Prepare
  <2>3. QED BY <2>2 DEF PInv, Replaced
<1>2. CASE Presenting!Drain
  <2>1. ASSUME NEW k, k \subseteq Process, Presenting!Tracked(k),
               target \in known => target \in k \/ target \notin fit
        PROVE  PInv' /\ Replaced
    <3>1. PInv' /\ (target' # target => target # NoProcess /\ target \notin k)
      BY <1>2, <2>1, ForgottenKeeps DEF Presenting!Drain
    <3>2. QED BY <2>1, <3>1 DEF PInv, Replaced
  <2>2. ASSUME NEW p \in Process, Presenting!Record(p) PROVE PInv' /\ Replaced
    <3> known \subseteq Process
      BY DEF PInv, Counts
    <3>1. CASE Presenting!Tracked(known)
      BY <2>1, <3>1
    <3>2. CASE p \in known \ fit /\ Presenting!Tracked(known \ {p})
      <4>1. known \ {p} \subseteq Process
        OBVIOUS
      <4>2. QED BY <2>1, <3>2, <4>1
    <3>3. CASE Presenting!Tracked(known \cup {p})
      <4>1. known \cup {p} \subseteq Process
        OBVIOUS
      <4>2. QED BY <2>1, <3>3, <4>1
    <3>4. ASSUME NEW q \in Presenting!Evictable, Presenting!Tracked((known \ {q}) \cup {p})
          PROVE  PInv' /\ Replaced
      <4>1. (known \ {q}) \cup {p} \subseteq Process /\ q # target
        BY DEF Presenting!Evictable
      <4>2. QED BY <2>1, <3>4, <4>1
    <3>5. QED BY <2>2, <3>1, <3>2, <3>3, <3>4 DEF Presenting!Record
  <2>3. CASE UNCHANGED Presenting!tracker
    <3>1. \/ target' = NoProcess /\ target # NoProcess /\ target \notin known
             /\ challenger' = Presenting!NoChallenger /\ ahead' = Presenting!NeverAhead
          \/ UNCHANGED Presenting!choice
      BY <1>2, <2>3 DEF Presenting!Drain, Presenting!SelectPresenter
    <3>2. known' \subseteq Process /\ window' \in [Process -> Nat]
      BY <2>3 DEF PInv, Counts
    <3>3. Counts' /\ Counted'
      BY <3>1, <3>2, ChoiceKept DEF PInv
    <3>4. QED BY <2>3, <3>1, <3>3 DEF PInv, Replaced
  <2>4. QED BY <1>2, <2>2, <2>3 DEF Presenting!Drain
<1>3. CASE Presenting!Pick
  BY <1>3, PickKeeps
<1>4. ASSUME NEW p \in Process, Presenting!SecondPasses(p) PROVE PInv' /\ Replaced
  BY <1>4 DEF Presenting!SecondPasses, PInv, Counts, Counted, Replaced
<1>5. ASSUME NEW p \in Process,
             Presenting!Expires(p) \/ Presenting!Unfit(p) \/ Presenting!Fit(p)
      PROVE PInv' /\ Replaced
  BY <1>5 DEF Presenting!Expires, Presenting!Unfit, Presenting!Fit, PInv, Counts,
      Counted, Replaced
<1>6. CASE UNCHANGED Presenting!vars
  BY <1>6 DEF Presenting!vars, PInv, Counts, Counted, Replaced
<1>7. QED
  BY <1>1, <1>2, <1>3, <1>4, <1>5, <1>6 DEF Presenting!Next

(* The process that is shown is given up only when it has ended, is not       *)
(* allowed, has not presented for ten seconds, or was behind by the margin in *)
(* the second before and is so now: a short rush of another and a crowd of    *)
(* new ones do not displace it (pick_presenter, ActivityTracker::record).     *)
THEOREM KeptInPlace == Presenting!Spec => KeptUnlessBeaten
<1>1. PInv /\ [Presenting!Next]_(Presenting!vars) =>
        [target # NoProcess /\ target' # target =>
           \/ target \notin fit \/ target \in idle
           \/ target' # NoProcess /\ window[target'] - 1 \in ahead[target']
        ]_(Presenting!vars)
  BY PInvNext DEF Replaced
<1>2. PInv /\ [Presenting!Next]_(Presenting!vars) => PInv'
  BY PInvNext
<1>3. QED
  BY <1>1, <1>2, PInvInit, PTL
     DEF Presenting!Spec, KeptUnlessBeaten, Presenting!KeptUnlessBeaten

(* The types of Presenter. The candidates are finitely many and within their  *)
(* limit, and whoever is idle is one of them: a target that expired is forgotten first.  *)
Challenger ==
    [process : Process \cup {NoProcess}, window : 0..Seconds, wins : 0..SwitchWindows]

PTypes ==
    /\ fit \subseteq Process
    /\ presenterAt \in {"rest", "pick first", "drain", "pick"}
    /\ known \subseteq Process /\ IsFiniteSet(known) /\ Cardinality(known) <= MaxCandidates
    /\ window \in [Process -> 0..Seconds]
    /\ target \in Process \cup {NoProcess}
    /\ challenger \in Challenger
    /\ ahead \in [Process -> SUBSET (0..Seconds)]
    /\ idle \subseteq known
    /\ presenterAt # "rest" => target \notin idle

(* The instance counts as everybody does. *)
LEMMA SameCardinality ==
    ASSUME NEW S
    PROVE  Presenting!Cardinality(S) = Cardinality(S)
BY DEF Presenting!Cardinality, Cardinality

(* Fewer candidates are within the limit, and so is one more below it. *)
LEMMA Fewer ==
    ASSUME NEW K, IsFiniteSet(K), Cardinality(K) <= MaxCandidates, NEW k \in SUBSET K
    PROVE  IsFiniteSet(k) /\ Cardinality(k) <= MaxCandidates
<1>1. /\ IsFiniteSet(k) /\ Cardinality(k) \in Nat /\ Cardinality(K) \in Nat
      /\ Cardinality(k) <= Cardinality(K)
  BY FS_Subset, FS_CardinalityType
<1>2. QED BY <1>1, BoundsAssumption

LEMMA OneMoreCandidate ==
    ASSUME NEW K, IsFiniteSet(K), Cardinality(K) < MaxCandidates, NEW p
    PROVE  IsFiniteSet(K \cup {p}) /\ Cardinality(K \cup {p}) <= MaxCandidates
<1>1. /\ IsFiniteSet(K \cup {p}) /\ Cardinality(K) \in Nat
      /\ Cardinality(K \cup {p}) \in {Cardinality(K), Cardinality(K) + 1}
  BY FS_AddElement, FS_CardinalityType
<1>2. QED BY <1>1, BoundsAssumption

LEMMA OneForAnother ==
    ASSUME NEW K, IsFiniteSet(K), Cardinality(K) = MaxCandidates, NEW q \in K, NEW p
    PROVE  IsFiniteSet((K \ {q}) \cup {p}) /\ Cardinality((K \ {q}) \cup {p}) <= MaxCandidates
<1>1. /\ IsFiniteSet(K \ {q}) /\ Cardinality(K) \in Nat
      /\ Cardinality(K \ {q}) = Cardinality(K) - 1
  BY FS_RemoveElement, FS_CardinalityType
<1>2. Cardinality(K \ {q}) < MaxCandidates
  BY <1>1, BoundsAssumption
<1>3. QED BY <1>1, <1>2, OneMoreCandidate

LEMMA TrackedTypes ==
    ASSUME PTypes, NEW k \in SUBSET Process, Presenting!Tracked(k)
    PROVE  known' = k /\ window' \in [Process -> 0..Seconds]
<1>1. known' = k /\ window' = [p \in Process |-> IF p \in k THEN window[p] ELSE 0]
  BY DEF Presenting!Tracked
<1>2. 0 \in 0..Seconds
  BY BoundsAssumption
<1>3. \A p \in Process : (IF p \in k THEN window[p] ELSE 0) \in 0..Seconds
  BY <1>2, Zenon DEF PTypes
<1>4. QED BY <1>1, <1>3

LEMMA SelectTypes ==
    ASSUME NEW p \in Process \cup {NoProcess}, Presenting!SelectPresenter(p)
    PROVE  /\ target' = p /\ challenger' \in Challenger
           /\ ahead' \in [Process -> SUBSET (0..Seconds)]
BY BoundsAssumption, PresenterAssumption DEF Presenting!SelectPresenter, Challenger,
  Presenting!NoChallenger, Presenting!NeverAhead

LEMMA ContestTypes ==
    ASSUME Presenting!NoContest
    PROVE  /\ target' = target /\ challenger' \in Challenger
           /\ ahead' \in [Process -> SUBSET (0..Seconds)]
BY BoundsAssumption, PresenterAssumption DEF Presenting!NoContest, Challenger,
  Presenting!NoChallenger, Presenting!NeverAhead

LEMMA PTypesInit == Presenting!Init => PTypes
<1> SUFFICES ASSUME Presenting!Init PROVE PTypes
  OBVIOUS
<1>1. Presenting!NoChallenger \in Challenger
  BY BoundsAssumption, PresenterAssumption DEF Presenting!NoChallenger, Challenger
<1>2. IsFiniteSet({}) /\ Cardinality({}) = 0
  BY FS_EmptySet
<1>3. QED
  BY <1>1, <1>2, BoundsAssumption DEF Presenting!Init, PTypes, Presenting!NeverAhead

LEMMA PickTypes ==
    ASSUME PTypes, Counted, NEW c \in Process, NEW load, Presenting!PickPresenter(c, load)
    PROVE  /\ target' \in Process \cup {NoProcess} /\ challenger' \in Challenger
           /\ ahead' \in [Process -> SUBSET (0..Seconds)]
<1>1. CASE Presenting!SelectPresenter(c)
  BY <1>1, SelectTypes
<1>2. CASE target # NoProcess /\ Presenting!NoContest
  BY <1>2, ContestTypes, Zenon DEF PTypes
<1>3. CASE /\ target # NoProcess
           /\ ~(Presenting!Challenge(c).wins >= SwitchWindows)
           /\ challenger' = Presenting!Challenge(c)
           /\ ahead' = [Presenting!NeverAhead EXCEPT ![c] = ahead[c] \cup {window[c]}]
           /\ UNCHANGED target
  <2>1. ahead[c] \cup {window[c]} \in SUBSET (0..Seconds)
    BY Zenon DEF PTypes
  <2>2. ahead' \in [Process -> SUBSET (0..Seconds)]
    BY <1>3, <2>1 DEF Presenting!NeverAhead
  <2>3. Presenting!Challenge(c) \in Challenger
    <3>1. CASE Presenting!Challenge(c) = challenger
      BY <3>1, Zenon DEF PTypes
    <3>2. CASE /\ Presenting!Challenge(c).process = c
               /\ Presenting!Challenge(c) \in
                    {[process |-> c, window |-> window[c], wins |-> n] :
                        n \in {challenger.wins + 1, 1}}
      <4>1. PICK n \in {challenger.wins + 1, 1} :
              Presenting!Challenge(c) = [process |-> c, window |-> window[c], wins |-> n]
        BY <3>2
      <4>2. n \in Nat /\ n < SwitchWindows
        BY <1>3, <4>1, PresenterAssumption DEF Counted
      <4>3. window[c] \in 0..Seconds
        BY Zenon DEF PTypes
      <4>5. n \in 0..SwitchWindows
        BY <4>2, PresenterAssumption
      <4>4. QED BY <4>1, <4>3, <4>5 DEF Challenger
    <3>3. QED BY <3>1, <3>2 DEF Presenting!Challenge
  <2>4. QED BY <1>3, <2>2, <2>3, Zenon DEF PTypes
<1>4. QED
  BY <1>1, <1>2, <1>3 DEF Presenting!PickPresenter

LEMMA PTypesNext ==
    ASSUME PTypes, Counted, [Presenting!Next]_(Presenting!vars)
    PROVE  PTypes'
<1>1. CASE Presenting!Prepare
  <2>1. /\ known' = (known \cap fit) \ (idle \cap {target})
        /\ window' \in [Process -> 0..Seconds]
    <3>1. (known \cap fit) \ (idle \cap {target}) \in SUBSET Process
      BY Zenon DEF PTypes
    <3>2. QED BY <1>1, <3>1, TrackedTypes, Zenon DEF Presenting!Prepare
  <2>2. IsFiniteSet(known') /\ Cardinality(known') <= MaxCandidates
    BY <2>1, Fewer, Zenon DEF PTypes
  <2>3. /\ target' \in Process \cup {NoProcess} /\ challenger' \in Challenger
        /\ ahead' \in [Process -> SUBSET (0..Seconds)]
    BY <1>1, SelectTypes, Zenon DEF PTypes, Presenting!Prepare, Presenting!choice
  <2>4. /\ idle' = idle \cap known' /\ fit' = fit
        /\ presenterAt' = IF target' = NoProcess THEN "pick first" ELSE "drain"
    BY <1>1, Zenon DEF Presenting!Prepare
  <2>5. /\ idle' \subseteq known' /\ target' \notin idle'
        /\ presenterAt' \in {"rest", "pick first", "drain", "pick"}
    <3>1. NoProcess \notin idle'
      BY <2>1, <2>4, PresenterAssumption, Zenon DEF PTypes
    <3>2. target' = NoProcess \/ (target' = target /\ target \in known')
      BY <1>1, Zenon DEF Presenting!Prepare, Presenting!SelectPresenter, Presenting!choice
    <3>3. QED BY <2>1, <2>4, <3>1, <3>2, Zenon
  <2>6. QED BY <2>1, <2>2, <2>3, <2>4, <2>5, Zenon DEF PTypes
<1>2. CASE Presenting!Drain
  <2>1. /\ known' \subseteq Process /\ IsFiniteSet(known')
        /\ Cardinality(known') <= MaxCandidates /\ window' \in [Process -> 0..Seconds]
        /\ idle' \subseteq known'
    <3>1. ASSUME NEW p \in Process, Presenting!Record(p), idle' = (idle \ {p}) \cap known'
          PROVE  /\ known' \subseteq Process /\ IsFiniteSet(known')
                 /\ Cardinality(known') <= MaxCandidates
                 /\ window' \in [Process -> 0..Seconds] /\ idle' \subseteq known'
      <4>1. CASE p \in known /\ Presenting!Tracked(known)
        BY <3>1, <4>1, TrackedTypes, Zenon DEF PTypes
      <4>2. CASE Presenting!Tracked(known \ {p})
        <5>1. known' = known \ {p} /\ window' \in [Process -> 0..Seconds]
          BY <4>2, TrackedTypes, Zenon DEF PTypes
        <5>2. QED BY <3>1, <5>1, Fewer, Zenon DEF PTypes
      <4>3. CASE Cardinality(known) < MaxCandidates /\ Presenting!Tracked(known \cup {p})
        <5>1. known' = known \cup {p} /\ window' \in [Process -> 0..Seconds]
          BY <4>3, TrackedTypes, Zenon DEF PTypes
        <5>2. QED BY <3>1, <4>3, <5>1, OneMoreCandidate, Zenon DEF PTypes
      <4>4. CASE /\ Cardinality(known) = MaxCandidates
                 /\ \E q \in Presenting!Evictable : Presenting!Tracked((known \ {q}) \cup {p})
        <5>1. PICK q \in known : Presenting!Tracked((known \ {q}) \cup {p})
          BY <4>4 DEF Presenting!Evictable
        <5>2. known' = (known \ {q}) \cup {p} /\ window' \in [Process -> 0..Seconds]
          BY <5>1, TrackedTypes, Zenon DEF PTypes
        <5>3. QED BY <3>1, <4>4, <5>2, OneForAnother, Zenon DEF PTypes
      <4>5. \/ p \in known /\ Presenting!Tracked(known)
            \/ Presenting!Tracked(known \ {p})
            \/ Cardinality(known) < MaxCandidates /\ Presenting!Tracked(known \cup {p})
            \/ /\ Cardinality(known) = MaxCandidates
               /\ \E q \in Presenting!Evictable : Presenting!Tracked((known \ {q}) \cup {p})
        BY <3>1, SameCardinality DEF Presenting!Record
      <4>6. QED BY <4>1, <4>2, <4>3, <4>4, <4>5
    <3>2. CASE UNCHANGED Presenting!tracker
      BY <1>2, <3>2 DEF PTypes, Presenting!tracker, Presenting!Drain
    <3>3. QED BY <1>2, <3>1, <3>2 DEF Presenting!Drain
  <2>2. /\ target' \in Process \cup {NoProcess} /\ challenger' \in Challenger
        /\ ahead' \in [Process -> SUBSET (0..Seconds)]
    BY <1>2, SelectTypes DEF PTypes, Presenting!Drain, Presenting!choice
  <2>3. fit' = fit /\ presenterAt = "drain" /\ presenterAt' = "pick"
    BY <1>2 DEF Presenting!Drain
  <2>4. target' \notin idle'
    <3>1. idle' \subseteq idle
      BY <1>2 DEF Presenting!Drain, Presenting!tracker
    <3>2. NoProcess \notin idle /\ target \notin idle
      BY <2>3, PresenterAssumption DEF PTypes
    <3>3. target' \in {target, NoProcess}
      BY <1>2 DEF Presenting!Drain, Presenting!SelectPresenter, Presenting!choice
    <3>4. QED BY <3>1, <3>2, <3>3
  <2>5. QED BY <2>1, <2>2, <2>3, <2>4 DEF PTypes
<1>3. CASE Presenting!Pick
  <2>1. /\ known' = known \ idle /\ window' \in [Process -> 0..Seconds]
    <3>1. known \ idle \in SUBSET Process
      BY Zenon DEF PTypes
    <3>2. QED BY <1>3, <3>1, TrackedTypes, Zenon DEF Presenting!Pick
  <2>2. IsFiniteSet(known') /\ Cardinality(known') <= MaxCandidates
    BY <2>1, Fewer, Zenon DEF PTypes
  <2>3. /\ target' \in Process \cup {NoProcess} /\ challenger' \in Challenger
        /\ ahead' \in [Process -> SUBSET (0..Seconds)]
    <3>1. CASE Presenting!NoContest
      BY <3>1, ContestTypes, Zenon DEF PTypes
    <3>2. ASSUME NEW c \in Process, NEW load, Presenting!PickPresenter(c, load)
          PROVE  /\ target' \in Process \cup {NoProcess} /\ challenger' \in Challenger
                 /\ ahead' \in [Process -> SUBSET (0..Seconds)]
      BY <3>2, PickTypes
    <3>3. \/ Presenting!NoContest
          \/ \E active \in SUBSET known' : \E timed \in SUBSET active, foreground \in Process :
             \E load \in [timed -> Workload] :
             \E c \in Presenting!Ranked(load, active, foreground) :
                Presenting!PickPresenter(c, load)
      BY <1>3, Zenon DEF Presenting!Pick
    <3>4. known' \subseteq Process
      BY <2>1, Zenon DEF PTypes
    <3>5. QED
      BY <3>1, <3>2, <3>3, <3>4, RankedActive
  <2>4. /\ idle' = idle \cap {target} /\ fit' = fit
        /\ presenterAt' = IF presenterAt = "pick" THEN "rest" ELSE "drain"
        /\ presenterAt \in {"pick first", "pick"}
    BY <1>3, Zenon DEF Presenting!Pick
  <2>5. idle' = {} /\ presenterAt' \in {"rest", "drain"}
    BY <2>4, Zenon DEF PTypes
  <2>6. QED
    BY <2>1, <2>2, <2>3, <2>4, <2>5, Zenon DEF PTypes
<1>4. ASSUME NEW p \in Process,
             \/ Presenting!SecondPasses(p) \/ Presenting!Expires(p)
             \/ Presenting!Unfit(p) \/ Presenting!Fit(p)
      PROVE  PTypes'
  <2>1. CASE Presenting!SecondPasses(p)
    <3>1. /\ window' = [window EXCEPT ![p] = @ + 1] /\ window[p] < Seconds
          /\ presenterAt' = presenterAt /\ fit' = fit /\ known' = known /\ idle' = idle
          /\ target' = target /\ challenger' = challenger /\ ahead' = ahead
      BY <2>1 DEF Presenting!SecondPasses, Presenting!choice
    <3>2. window[p] + 1 \in 0..Seconds
      <4>1. window[p] \in 0..Seconds
        BY Zenon DEF PTypes
      <4>2. QED BY <3>1, <4>1, BoundsAssumption
    <3>3. window' \in [Process -> 0..Seconds]
      BY <3>1, <3>2, Zenon DEF PTypes
    <3>4. QED BY <3>1, <3>3, Zenon DEF PTypes
  <2>2. CASE Presenting!Expires(p)
    BY <2>2 DEF Presenting!Expires, Presenting!choice, PTypes
  <2>3. CASE Presenting!Unfit(p) \/ Presenting!Fit(p)
    BY <2>3, Zenon DEF Presenting!Unfit, Presenting!Fit, Presenting!tracker, Presenting!choice, PTypes
  <2>4. QED BY <1>4, <2>1, <2>2, <2>3
<1>5. CASE UNCHANGED Presenting!vars
  BY <1>5, Zenon DEF Presenting!vars, Presenting!tracker, Presenting!choice, PTypes
<1>6. QED
  BY <1>1, <1>2, <1>3, <1>4, <1>5 DEF Presenting!Next

(* The types of Presenter: no more candidates than there may be are kept,     *)
(* whoever comes and goes (ActivityTracker::record). *)
THEOREM PresenterTypes == Presenting!Spec => []Presenting!TypeOK
<1>1. PInv /\ PTypes /\ [Presenting!Next]_(Presenting!vars) => PInv' /\ PTypes'
  BY PInvNext, PTypesNext DEF PInv
<1>2. PTypes => Presenting!TypeOK
  <2>1. ASSUME NEW c \in Challenger
        PROVE  /\ c.process \in Process \cup {NoProcess}
               /\ c.window \in 0..Seconds /\ c.wins \in 0..SwitchWindows
    BY <2>1 DEF Challenger
  <2>2. ASSUME PTypes
        PROVE  /\ challenger.process \in Process \cup {NoProcess}
               /\ challenger.window \in 0..Seconds /\ challenger.wins \in 0..SwitchWindows
    BY <2>1, <2>2, Zenon DEF PTypes
  <2>3. QED BY <2>2, SameCardinality, Zenon DEF PTypes, Presenting!TypeOK
<1>3. QED
  BY <1>1, <1>2, PInvInit, PTypesInit, PTL DEF Presenting!Spec

----------------------------------------------------------------------------
(* Frames. What has not been sent is new and of a presenter whose frames are  *)
(* counted, so that what is stale or has expired has been said, or is judged  *)
(* before the tick ends.                                                      *)

FInv ==
    /\ unsent => age = "fresh" /\ said = "" /\ sampled
    /\ sampled => selected
    /\ said # "" => frameShown # "current"
    /\ ~presenting /\ frameShown = "current" => sampled
    /\ presenting /\ frameAt \in {"drain", "finish"} /\ sampled /\ age # "fresh" =>
          frameShown # "current"

LEMMA FInvInit == Framing!Init => FInv
BY Zenon DEF Framing!Init, FInv

(* What a drained tick does. *)
LEMMA FInvDrain ==
    ASSUME FInv, Framing!Drain
    PROVE  FInv' /\ frameAt' = "finish"
<1> USE DEF FInv
<1>1. UNCHANGED presenting /\ frameAt' = "finish" /\ (presenting => frameAt = "drain")
  BY Zenon DEF Framing!Drain, Framing!Drained
<1>2. CASE presenting /\ Framing!SelectPresenter(FALSE)
  <2>1. sampled' = FALSE /\ unsent' = FALSE /\ said' = ""
    BY <1>2, Zenon DEF Framing!SelectPresenter
  <2>2. QED BY <1>1, <1>2, <2>1, Zenon
<1>3. ASSUME NEW framed \in IF selected THEN BOOLEAN ELSE {FALSE},
             Framing!Count(framed), said' = IF framed THEN "" ELSE said
      PROVE  FInv'
  <2>0. framed \in BOOLEAN /\ (framed => selected) /\ selected' = selected
    BY <1>3, Zenon DEF Framing!Count
  <2>1. /\ age' = IF framed THEN "fresh" ELSE age
        /\ sampled' = (sampled \/ framed)
        /\ \/ (unsent \/ framed) /\ frameShown' = "current" /\ unsent' = FALSE
           \/ unsent' = (unsent \/ framed) /\ frameShown' = frameShown
    BY <1>3, Zenon DEF Framing!Count
  <2>2. CASE framed
    <3>1. age' = "fresh" /\ said' = "" /\ sampled'
      BY <1>3, <2>0, <2>1, <2>2, Zenon
    <3>2. QED BY <2>0, <2>2, <3>1, Zenon
  <2>3. CASE ~framed
    <3>1. age' = age /\ said' = said
      BY <1>3, <2>1, <2>3, Zenon
    <3>2. (sampled' => sampled) /\ (sampled => sampled') /\ (unsent' => unsent)
      BY <2>0, <2>1, <2>3, Zenon
    <3>3. frameShown' = "current" => unsent \/ frameShown' = frameShown
      BY <2>1, <2>3, Zenon
    <3>4. QED BY <1>1, <2>0, <3>1, <3>2, <3>3, Zenon
  <2>4. QED BY <2>0, <2>2, <2>3, Zenon
<1>4. QED BY <1>1, <1>2, <1>3, Zenon DEF Framing!Drain

(* The values a tick leaves are new, or those of the presenter before. *)
Accounted ==
    frameShown = "current" => (sampled /\ age = "fresh") \/ Framing!Handover

LEMMA FInvNext ==
    ASSUME ~LongInterval, FInv, [Framing!Next]_(Framing!vars)
    PROVE  FInv' /\ (frameAt' = "rest" /\ frameAt # "rest" => Accounted')
<1> USE DEF FInv
<1>1. CASE Framing!Prepare
  <2>1. frameAt' = "drain" /\ UNCHANGED presenting /\ presenting
    BY <1>1, Zenon DEF Framing!Prepare
  <2>2. CASE Framing!Project /\ UNCHANGED <<selected, listed, sampled, age, unsent>>
    BY <2>1, <2>2, Zenon DEF Framing!Project, Framing!Say
  <2>3. CASE /\ sampled => age = "fresh"
             /\ UNCHANGED <<selected, listed, sampled, age, unsent, said, frameShown>>
    BY <2>1, <2>3, Zenon
  <2>4. ASSUME NEW s \in BOOLEAN, Framing!SelectPresenter(s)
        PROVE  FInv'
    <3>1. sampled' = FALSE /\ unsent' = FALSE /\ said' = ""
      BY <2>4, Zenon DEF Framing!SelectPresenter
    <3>2. QED BY <2>1, <3>1, Zenon
  <2>5. FInv'
    BY <1>1, <2>2, <2>3, <2>4, Zenon DEF Framing!Prepare, Framing!target
  <2>6. QED BY <2>1, <2>5, Zenon
<1>2. CASE Framing!Drain
  BY <1>2, FInvDrain, Zenon
<1>3. CASE Framing!Finish
  <2>1. frameAt' = "rest" /\ UNCHANGED presenting /\ frameAt = "finish"
    BY <1>3, Zenon DEF Framing!Finish
  <2>2. CASE ~presenting /\ Framing!Project /\ UNCHANGED <<selected, listed, sampled, age, unsent>>
    <3>1. sampled /\ frameShown' # "current" /\ (age = "stale" \/ age = "expired")
      BY <2>2, Zenon DEF Framing!Project, Framing!Say
    <3>2. ~unsent'
      BY <2>2, <3>1, Zenon
    <3>3. QED BY <2>1, <2>2, <3>1, <3>2, Zenon DEF Accounted
  <2>3. CASE /\ ~presenting /\ (sampled => age = "fresh")
             /\ UNCHANGED <<selected, listed, sampled, age, unsent, said, frameShown>>
    BY <2>1, <2>3, Zenon DEF Accounted
  <2>4. CASE /\ presenting /\ selected /\ listed' = (age # "expired")
             /\ UNCHANGED <<selected, sampled, age, unsent, said, frameShown>>
    <3>1. FInv'
      BY <2>1, <2>4, Zenon
    <3>2. presenting' /\ selected' /\ (listed' => age' # "expired")
      BY <2>1, <2>4, Zenon
    <3>3. frameShown' = "current" /\ sampled' => age' = "fresh"
      BY <2>1, <2>4, Zenon
    <3>4. QED BY <3>1, <3>2, <3>3, Zenon DEF Accounted, Framing!Handover
  <2>5. CASE presenting /\ Framing!SelectPresenter(TRUE) /\ UNCHANGED frameShown
    <3>1. selected' /\ sampled' = FALSE /\ unsent' = FALSE /\ said' = "" /\ age' = "fresh"
      BY <2>5, Zenon DEF Framing!SelectPresenter
    <3>2. FInv'
      BY <2>1, <2>5, <3>1, Zenon
    <3>3. Accounted'
      BY <2>1, <2>5, <3>1, Zenon DEF Accounted, Framing!Handover
    <3>4. QED BY <3>2, <3>3, Zenon
  <2>6. CASE /\ presenting /\ ~selected /\ Framing!Say("waiting", "nothing")
             /\ UNCHANGED <<selected, listed, sampled, age, unsent>>
    <3>1. frameShown' # "current"
      BY <2>6, Zenon DEF Framing!Say
    <3>2. ~sampled' /\ ~unsent'
      BY <2>6, Zenon
    <3>3. QED BY <2>1, <2>6, <3>1, <3>2, Zenon DEF Accounted
  <2>7. QED
    BY <1>3, <2>2, <2>3, <2>4, <2>5, <2>6, Zenon DEF Framing!Finish, Framing!target
<1>4. CASE Framing!Restart
  BY <1>4, Zenon DEF Framing!Restart, Accounted
<1>5. CASE Framing!FiveSeconds
  BY <1>5, Zenon DEF Framing!FiveSeconds, Framing!target
<1>6. CASE UNCHANGED Framing!vars
  BY <1>6, Zenon DEF Framing!vars, Framing!target
<1>7. QED BY <1>1, <1>2, <1>3, <1>4, <1>5, <1>6, Zenon DEF Framing!Next

(* "Frame values become stale after five seconds without frames"              *)
(* (CONFIGURATION.md:255): a tick that leaves values shown as current has     *)
(* counted a frame of their target in the last five seconds, or the presenter *)
(* was changed and the new one has neither presented since nor been silent    *)
(* for ten seconds; in all of the modes, when the interval of the statistics  *)
(* is not longer than five seconds.                                           *)
THEOREM StaleShown ==
    ASSUME ~LongInterval
    PROVE  Framing!Spec => StaleIsShown
<1>1. FInv /\ [Framing!Next]_(Framing!vars) =>
        [frameAt' = "rest" /\ frameAt # "rest" /\ frameShown' = "current" =>
           \/ sampled' /\ age' = "fresh"
           \/ Framing!Handover']_(Framing!vars)
  BY FInvNext DEF Accounted
<1>2. FInv /\ [Framing!Next]_(Framing!vars) => FInv'
  BY FInvNext
<1>3. QED
  BY <1>1, <1>2, FInvInit, PTL DEF Framing!Spec, StaleIsShown, Framing!StaleIsShown

LEMMA FramesTypesNext ==
    ASSUME Framing!TypeOK, [Framing!Next]_(Framing!vars)
    PROVE  Framing!TypeOK'
<1> USE DEF Framing!TypeOK, Framing!target
<1>1. ASSUME NEW s \in BOOLEAN, Framing!SelectPresenter(s)
      PROVE  /\ {selected, listed, sampled, unsent}' \subseteq BOOLEAN
             /\ age' \in {"none", "fresh", "stale", "expired"} /\ said' = ""
  BY <1>1, Zenon DEF Framing!SelectPresenter
<1>2. ASSUME Framing!Project
      PROVE  said' \in {"", "stale", "expired", "waiting"} /\ frameShown' \in {"nothing", "current", "stale"}
  BY <1>2, Zenon DEF Framing!Project, Framing!Say
<1>3. CASE Framing!Prepare
  BY <1>1, <1>2, <1>3, Zenon DEF Framing!Prepare
<1>4. CASE Framing!Drain
  <2>1. frameAt' = "finish" /\ UNCHANGED presenting
    BY <1>4, Zenon DEF Framing!Drain, Framing!Drained
  <2>2. CASE Framing!SelectPresenter(FALSE) /\ UNCHANGED frameShown
    BY <1>1, <2>1, <2>2, Zenon
  <2>3. ASSUME NEW framed \in BOOLEAN, Framing!Count(framed),
               said' = IF framed THEN "" ELSE said
        PROVE  Framing!TypeOK'
    <3>1. age' \in {"none", "fresh", "stale", "expired"}
          /\ said' \in {"", "stale", "expired", "waiting"}
      BY <2>3, Zenon DEF Framing!Count
    <3>2. sampled' \in BOOLEAN /\ unsent' \in BOOLEAN
      BY <2>3, Zenon DEF Framing!Count
    <3>3. UNCHANGED <<selected, listed>> /\ frameShown' \in {"nothing", "current", "stale"}
      BY <2>3, Zenon DEF Framing!Count
    <3>4. QED BY <2>1, <3>1, <3>2, <3>3, Zenon
  <2>4. QED BY <1>4, <2>2, <2>3, Zenon DEF Framing!Drain
<1>5. CASE Framing!Finish
  <2>1. (age # "expired") \in BOOLEAN
    BY Zenon
  <2>2. ASSUME Framing!Say("waiting", "nothing")
        PROVE  said' \in {"", "stale", "expired", "waiting"} /\ frameShown' \in {"nothing", "current", "stale"}
    BY <2>2, Zenon DEF Framing!Say
  <2>3. QED BY <1>1, <1>2, <1>5, <2>1, <2>2, Zenon DEF Framing!Finish
<1>6. CASE Framing!Restart
  BY <1>6, Zenon DEF Framing!Restart
<1>7. CASE Framing!FiveSeconds
  BY <1>7, Zenon DEF Framing!FiveSeconds
<1>8. CASE UNCHANGED Framing!vars
  BY <1>8, Zenon DEF Framing!vars
<1>9. QED BY <1>3, <1>4, <1>5, <1>6, <1>7, <1>8, Zenon DEF Framing!Next

(* The types of Frames, whether the interval is long or not. *)
THEOREM FramesTypes == Framing!Spec => []Framing!TypeOK
<1>1. Framing!Init => Framing!TypeOK
  BY Zenon DEF Framing!Init, Framing!TypeOK
<1>2. QED
  BY <1>1, FramesTypesNext, PTL DEF Framing!Spec

----------------------------------------------------------------------------
(* Termination. What is left of the plan says what was checked: from the      *)
(* check of the process on it is the target's that is held, and from the last *)
(* probe on the target was probed or has lost its window, which it does not   *)
(* get back.                                                                  *)

Plan8 == <<"probe", "window", "open", "process", "window", "probe", "window",
           "terminate">>
Plan7 == <<"window", "open", "process", "window", "probe", "window", "terminate">>
Plan6 == <<"open", "process", "window", "probe", "window", "terminate">>
Plan5 == <<"process", "window", "probe", "window", "terminate">>
Plan4 == <<"window", "probe", "window", "terminate">>
Plan3 == <<"probe", "window", "terminate">>
Plan2 == <<"window", "terminate">>
Plan1 == <<"terminate">>
Scan3 == <<"probe", "identity", "list">>
Scan2 == <<"identity", "list">>
Scan1 == <<"list">>

Done == <<>>

Remaining ==
    {Done, Ending!Plan, Plan8, Plan7, Plan6, Plan5, Plan4, Plan3, Plan2, Plan1,
     Ending!Scan, Scan3, Scan2, Scan1}

(* The plan has one check of the process and one end, and ends with a probe   *)
(* between two looks at the window. *)
LEMMA Tails ==
    /\ Tail(Ending!Plan) = Plan8 /\ Tail(Plan8) = Plan7 /\ Tail(Plan7) = Plan6
    /\ Tail(Plan6) = Plan5 /\ Tail(Plan5) = Plan4 /\ Tail(Plan4) = Plan3
    /\ Tail(Plan3) = Plan2 /\ Tail(Plan2) = Plan1 /\ Tail(Plan1) = Done
    /\ Tail(Ending!Scan) = Scan3 /\ Tail(Scan3) = Scan2 /\ Tail(Scan2) = Scan1
    /\ Tail(Scan1) = Done
BY DEF Ending!Plan, Plan8, Plan7, Plan6, Plan5, Plan4, Plan3, Plan2, Plan1,
  Ending!Scan, Scan3, Scan2, Scan1, Done

LEMMA Heads ==
    /\ Head(Ending!Plan) = "window" /\ Head(Plan8) = "probe"
    /\ Head(Plan7) = "window" /\ Head(Plan6) = "open" /\ Head(Plan5) = "process"
    /\ Head(Plan4) = "window" /\ Head(Plan3) = "probe" /\ Head(Plan2) = "window"
    /\ Head(Plan1) = "terminate"
    /\ Head(Ending!Scan) = "describe" /\ Head(Scan3) = "probe"
    /\ Head(Scan2) = "identity" /\ Head(Scan1) = "list"
BY DEF Ending!Plan, Plan8, Plan7, Plan6, Plan5, Plan4, Plan3, Plan2, Plan1,
  Ending!Scan, Scan3, Scan2, Scan1

LEMMA Apart ==
    /\ Plan4 \notin {Done, Ending!Plan, Plan8, Plan7, Plan6, Plan5, Plan3, Plan2,
        Plan1, Ending!Scan, Scan3, Scan2, Scan1}
    /\ Plan3 \notin {Done, Ending!Plan, Plan8, Plan7, Plan6, Plan5, Plan4, Plan2,
        Plan1, Ending!Scan, Scan3, Scan2, Scan1}
    /\ Plan2 \notin {Done, Ending!Plan, Plan8, Plan7, Plan6, Plan5, Plan4, Plan3,
        Plan1, Ending!Scan, Scan3, Scan2, Scan1}
    /\ Plan1 \notin {Done, Ending!Plan, Plan8, Plan7, Plan6, Plan5, Plan4, Plan3,
        Plan2, Ending!Scan, Scan3, Scan2, Scan1}
BY DEF Ending!Plan, Plan8, Plan7, Plan6, Plan5, Plan4, Plan3, Plan2, Plan1,
  Ending!Scan, Scan3, Scan2, Scan1, Done

EInv ==
    /\ todo \in Remaining
    /\ windowOf.of \notin had
    /\ todo \in {Plan4, Plan3, Plan2, Plan1} => process = bound.of
    /\ todo = Plan3 =>
          /\ bound.of # NoProgram
          /\ windowOf.of = bound.of \/ bound.of \in had
    /\ todo = Plan2 => probed = bound.of \/ bound.of \in had
    /\ todo = Plan1 => probed = bound.of

(* A step of a plan is what is left of it. *)
LEMMA StepPassed ==
    ASSUME todo \in Remaining, NEW s, Ending!Step(s), Ending!Pass
    PROVE  /\ todo' \in Remaining
           /\ todo' = Plan4 => s = "process"
           /\ todo' = Plan3 => todo = Plan4 /\ s = "window"
           /\ todo' = Plan2 => todo = Plan3 /\ s = "probe"
           /\ todo' = Plan1 => todo = Plan2 /\ s = "window"
           /\ s = "terminate" => todo = Plan1
<1> USE Tails, Heads, Apart DEF Ending!Step, Ending!Pass, Remaining
<1>1. CASE todo = Ending!Plan
  BY <1>1
<1>2. CASE todo = Plan8
  BY <1>2
<1>3. CASE todo = Plan7
  BY <1>3
<1>4. CASE todo = Plan6
  BY <1>4
<1>5. CASE todo = Plan5
  BY <1>5
<1>6. CASE todo = Plan4
  BY <1>6
<1>7. CASE todo = Plan3
  BY <1>7
<1>8. CASE todo = Plan2
  BY <1>8
<1>9. CASE todo = Plan1
  <2>1. todo' = Done /\ s = "terminate"
    BY <1>9
  <2>2. todo' # Plan4 /\ todo' # Plan3 /\ todo' # Plan2 /\ todo' # Plan1
    BY ONLY <2>1, Apart
  <2>3. todo' \in Remaining
    BY ONLY <2>1 DEF Remaining
  <2>4. QED BY ONLY <2>1, <2>2, <2>3, <1>9
<1>10. CASE todo = Ending!Scan
  BY <1>10
<1>11. CASE todo = Scan3
  BY <1>11
<1>12. CASE todo = Scan2
  BY <1>12
<1>13. CASE todo = Scan1
  <2>1. todo' = Done /\ s = "list"
    BY <1>13
  <2>2. todo' # Plan4 /\ todo' # Plan3 /\ todo' # Plan2 /\ todo' # Plan1
    BY ONLY <2>1, Apart
  <2>3. todo' \in Remaining
    BY ONLY <2>1 DEF Remaining
  <2>4. QED BY ONLY <2>1, <2>2, <2>3
<1>14. todo # Done
  BY DEF Done
<1>15. QED
  BY <1>14, <1>1, <1>2, <1>3, <1>4, <1>5, <1>6, <1>7, <1>8, <1>9, <1>10, <1>11, <1>12, <1>13

LEMMA EInvInit == Ending!Init => EInv
BY Apart DEF Ending!Init, EInv, Remaining, Done

(* The steps of the detector and the hold. *)
LEMMA DetectorKeeps ==
    ASSUME EInv, Ending!Detector
    PROVE  /\ EInv'
           /\ killed' # killed /\ killed' # NoProgram =>
                 killed' = bound.of /\ probed = bound.of
<1> USE StepPassed, Apart DEF EInv, Ending!windows
<1>1. CASE Ending!Begin
  <2>1. todo' \in {Ending!Plan, Ending!Scan}
    BY <1>1 DEF Ending!Begin
  <2>2. UNCHANGED <<windowOf, had, killed>>
    BY <1>1 DEF Ending!Begin
  <2>3. QED BY <2>1, <2>2 DEF Remaining
<1>2. CASE Ending!Describe
  BY <1>2 DEF Ending!Describe
<1>3. CASE Ending!Probe
  BY <1>3 DEF Ending!Probe
<1>4. CASE Ending!Identity
  BY <1>4 DEF Ending!Identity
<1>5. CASE Ending!List
  BY <1>5 DEF Ending!List
<1>6. CASE Ending!ActionWindow
  BY <1>6 DEF Ending!ActionWindow, Ending!Described
<1>7. CASE Ending!Open
  BY <1>7 DEF Ending!Open
<1>8. CASE Ending!ProcessIdentity
  BY <1>8 DEF Ending!ProcessIdentity
<1>9. CASE Ending!Terminate
  BY <1>9 DEF Ending!Terminate
<1>10. CASE Ending!GiveUp
  <2>1. todo' = Done /\ killed' = NoProgram /\ UNCHANGED <<windowOf, had>>
    BY <1>10 DEF Ending!GiveUp, Done
  <2>2. QED BY <2>1 DEF Remaining
<1>11. QED
  BY <1>1, <1>2, <1>3, <1>4, <1>5, <1>6, <1>7, <1>8, <1>9, <1>10 DEF Ending!Detector

LEMMA EInvNext ==
    ASSUME EInv, [Ending!Next]_(Ending!vars)
    PROVE  /\ EInv'
           /\ killed' # killed /\ killed' # NoProgram =>
                 killed' = bound.of /\ probed = bound.of
<1>1. CASE \E p \in Program : Ending!End(p) \/ Ending!Start(p) \/ Ending!Hang(p)
  BY <1>1 DEF Ending!End, Ending!Start, Ending!Hang, Ending!work, EInv
<1>2. ASSUME NEW p \in Program, NEW t \in Title, Ending!Show(p, t) PROVE EInv'
  <2>1. UNCHANGED <<todo, bound, process, probed>>
    BY <1>2 DEF Ending!Show, Ending!work
  <2>2. /\ windowOf'.of = p /\ p \notin had
        /\ had' = had \cup ({windowOf.of} \ {p, NoProgram})
    BY <1>2 DEF Ending!Show
  <2>3. QED BY <2>1, <2>2 DEF EInv
<1>3. CASE UNCHANGED Ending!vars
  BY <1>3 DEF Ending!vars, Ending!windows, Ending!work, EInv
<1>4. QED
  BY <1>1, <1>2, <1>3, DetectorKeeps DEF Ending!Next, Ending!Show, Ending!work

(* The program that is ended is the one that was listed, and it had not       *)
(* answered when its own window was probed for the last time, whatever        *)
(* programs end, start with its process id or show a window meanwhile         *)
(* (terminate_bound_target_with). *)
THEOREM EndsHung == Ending!Spec => EndsOnlyTheHung
<1>1. EInv /\ [Ending!Next]_(Ending!vars) =>
        [killed' # killed /\ killed' # NoProgram =>
           killed' = bound.of /\ probed = bound.of]_(Ending!vars)
  BY EInvNext
<1>2. EInv /\ [Ending!Next]_(Ending!vars) => EInv'
  BY EInvNext
<1>3. QED
  BY <1>1, <1>2, EInvInit, PTL
     DEF Ending!Spec, EndsOnlyTheHung, Ending!EndsOnlyTheHung

Programs == Program \cup {NoProgram}
Bindings == [of : Programs, title : Title]

(* There are no more steps left than a plan has. *)
LEMMA PlanLengths == \A s \in Remaining : Len(s) <= Len(Ending!Plan)
<1>1. \A s \in {Done, Plan8, Plan7, Plan6, Plan5, Plan4, Plan3, Plan2, Plan1, Ending!Scan,
                Scan3, Scan2, Scan1} : Len(s) \in 0..9
  BY DEF Plan8, Plan7, Plan6, Plan5, Plan4, Plan3, Plan2, Plan1, Ending!Scan, Scan3,
    Scan2, Scan1, Done
<1>2. Len(Ending!Plan) = 9 /\ 9 \in 0..9
  BY DEF Ending!Plan
<1>3. \A s \in Remaining : Len(s) \in 0..9
  BY <1>1, <1>2, Zenon DEF Remaining
<1>4. \A m, n : m = 9 /\ n \in 0..9 => n <= m
  OBVIOUS
<1>5. QED BY <1>2, <1>3, <1>4, Zenon

EndingTypes ==
    /\ alive \cap unborn = {} /\ alive \cup unborn \subseteq Program
    /\ hung \subseteq alive /\ had \subseteq Program
    /\ pid \in Programs /\ process \in Programs /\ probed \in Programs
    /\ killed \in Programs
    /\ windowOf \in Bindings /\ bound \in Bindings
    /\ isBound \in BOOLEAN

LEMMA EndingTyped == EInv /\ EndingTypes => Ending!TypeOK
BY PlanLengths DEF EInv, EndingTypes, Ending!TypeOK, Programs, Bindings

LEMMA NothingBound == Ending!None \in Bindings
BY TerminationAssumption DEF Ending!None, Bindings, Programs

LEMMA EndingTypesInit == Ending!Init => EndingTypes
<1> SUFFICES ASSUME Ending!Init PROVE EndingTypes
  OBVIOUS
<1>1. pid \in Program
  BY TerminationAssumption DEF Ending!Init
<1>2. windowOf = [Ending!None EXCEPT !.of = pid]
  BY DEF Ending!Init
<1>3. windowOf \in Bindings
  BY <1>1, <1>2, NothingBound DEF Bindings, Programs
<1>4. QED
  BY <1>1, <1>3, NothingBound DEF Ending!Init, EndingTypes, Programs

LEMMA EndingTypesNext ==
    ASSUME EndingTypes, [Ending!Next]_(Ending!vars)
    PROVE  EndingTypes'
<1> USE DEF EndingTypes
<1>1. ASSUME NEW p \in Program, Ending!End(p) PROVE EndingTypes'
  BY <1>1 DEF Ending!End, Ending!work
<1>2. ASSUME NEW p \in Program, Ending!Start(p) PROVE EndingTypes'
  <2>1. pid' \in Programs
    BY <1>2 DEF Ending!Start, Programs
  <2>2. QED BY <1>2, <2>1 DEF Ending!Start, Ending!work
<1>3. ASSUME NEW p \in Program, Ending!Hang(p) PROVE EndingTypes'
  BY <1>3 DEF Ending!Hang, Ending!work
<1>4. ASSUME NEW p \in Program, NEW t \in Title, Ending!Show(p, t) PROVE EndingTypes'
  <2>1. windowOf' \in Bindings
    BY <1>4 DEF Ending!Show, Bindings, Programs
  <2>2. had' \subseteq Program
    BY <1>4 DEF Ending!Show, Bindings, Programs
  <2>3. QED BY <1>4, <2>1, <2>2 DEF Ending!Show, Ending!work
<1>5. CASE Ending!Begin
  BY <1>5 DEF Ending!Begin, Ending!windows
<1>6. CASE Ending!Describe
  BY <1>6 DEF Ending!Describe, Ending!windows
<1>7. CASE Ending!Probe
  <2>1. probed' \in Programs
    BY <1>7 DEF Ending!Probe, Programs
  <2>2. QED BY <1>7, <2>1 DEF Ending!Probe, Ending!windows
<1>8. CASE Ending!Identity \/ Ending!ActionWindow \/ Ending!ProcessIdentity
  BY <1>8 DEF Ending!Identity, Ending!ActionWindow, Ending!ProcessIdentity, Ending!windows
<1>9. CASE Ending!List
  BY <1>9 DEF Ending!List, Ending!windows
<1>10. CASE Ending!Open
  BY <1>10 DEF Ending!Open, Ending!windows
<1>11. CASE Ending!Terminate
  <2>1. PICK ended : alive' = alive \ ended /\ hung' = hung \ ended
    BY <1>11 DEF Ending!Terminate
  <2>2. QED BY <1>11, <2>1 DEF Ending!Terminate
<1>12. CASE Ending!GiveUp
  BY <1>12, NothingBound DEF Ending!GiveUp, Ending!windows, Programs
<1>13. CASE UNCHANGED Ending!vars
  BY <1>13 DEF Ending!vars, Ending!windows, Ending!work
<1>14. QED
  BY <1>1, <1>2, <1>3, <1>4, <1>5, <1>6, <1>7, <1>8, <1>9, <1>10, <1>11, <1>12, <1>13, Zenon
     DEF Ending!Next, Ending!Detector

(* The types of Termination: a program that hangs is alive, and what lost its *)
(* window, holds the process id or is held open is a program.                 *)
THEOREM TerminationTypes == Ending!Spec => []Ending!TypeOK
BY EInvInit, EInvNext, EndingTypesInit, EndingTypesNext, EndingTyped, PTL DEF Ending!Spec

----------------------------------------------------------------------------
(* Discord. Whoever holds a token or asks for one does so for an account, and *)
(* the command holds its own account's token when it saves.                   *)

Session == {"load", "exchange", "save", "reopen", "authenticate", "serve"}

Holders ==
    /\ discordAt \in Session => readyUser \in Account
    /\ authorizing # "off" => asker \in Account
    /\ authorizing = "save" => owner = asker

DInv == Voice!TypeOK /\ Holders /\ Voice!TokenKept

LEMMA DInvInit == Voice!Init => DInv
BY DEF Voice!Init, DInv, Voice!TypeOK, Holders, Session, Voice!TokenKept,
    Voice!Worth

(* Every step of the worker keeps it. *)
LEMMA WorkerKeeps ==
    ASSUME DInv, Voice!Worker
    PROVE  DInv'
<1> USE DEF DInv, Voice!TypeOK, Holders, Session, Voice!TokenKept, Voice!Worth,
    Voice!world, Voice!worker, Voice!command
<1>1. CASE Voice!Ended \/ Voice!Disabled \/ Voice!Connect \/ Voice!Failed
    \/ Voice!Waited
  BY <1>1 DEF Voice!Ended, Voice!Disabled, Voice!Connect, Voice!Failed, Voice!Waited
<1>2. CASE Voice!Ready \/ Voice!LoadToken
  BY <1>2 DEF Voice!Ready, Voice!LoadToken
<1>3. CASE Voice!Exchange
  <2>1. CASE own /\ stored' = [stored EXCEPT ![readyUser] = "spent"]
    BY <1>3, <2>1 DEF Voice!Exchange
  <2>2. CASE UNCHANGED stored
    BY <1>3, <2>2 DEF Voice!Exchange
  <2>3. QED BY <1>3, <2>1, <2>2 DEF Voice!Exchange
<1>4. CASE Voice!ExchangeLost
  BY <1>4 DEF Voice!ExchangeLost, Voice!Fail
<1>5. CASE Voice!PersistRotatedRefresh
  BY <1>5 DEF Voice!PersistRotatedRefresh
<1>6. CASE Voice!PersistFails
  BY <1>6 DEF Voice!PersistFails, Voice!Fail
<1>7. CASE Voice!Reopen \/ Voice!Authenticate \/ Voice!Publish
  BY <1>7 DEF Voice!Reopen, Voice!Authenticate, Voice!Publish
<1>8. CASE Voice!Error
  BY <1>8 DEF Voice!Error, Voice!Fail
<1>9. QED
  BY <1>1, <1>2, <1>3, <1>4, <1>5, <1>6, <1>7, <1>8 DEF Voice!Worker

(* Every step of a command keeps it. *)
LEMMA CommandsKeep ==
    ASSUME DInv, Voice!Commands
    PROVE  DInv'
<1> USE DEF DInv, Voice!TypeOK, Holders, Session, Voice!TokenKept, Voice!Worth,
    Voice!world, Voice!worker, Voice!command
<1>1. CASE Voice!AskAuthorize \/ Voice!Approve
  BY <1>1 DEF Voice!AskAuthorize, Voice!Approve
<1>2. CASE Voice!ReopenAuthorize \/ Voice!ValidateAuthentication
  BY <1>2 DEF Voice!ReopenAuthorize, Voice!ValidateAuthentication
<1>3. CASE Voice!SaveAuthorized
  BY <1>3 DEF Voice!SaveAuthorized, Voice!NotAuthorized
<1>4. CASE Voice!AuthorizeFails
  BY <1>4 DEF Voice!AuthorizeFails, Voice!NotAuthorized
<1>5. ASSUME NEW a \in Account, Voice!ClearToken(a) PROVE DInv'
  BY <1>5 DEF Voice!ClearToken
<1>6. QED
  BY <1>1, <1>2, <1>3, <1>4, <1>5 DEF Voice!Commands

LEMMA DInvNext ==
    ASSUME DInv, [Voice!Next]_(Voice!vars)
    PROVE  DInv'
<1> USE DEF DInv, Voice!TypeOK, Holders, Session, Voice!TokenKept, Voice!Worth,
    Voice!world, Voice!worker, Voice!command
<1>1. CASE Voice!UpdateConfig \/ Voice!Shutdown \/ Voice!SwitchAccount
  BY <1>1 DEF Voice!UpdateConfig, Voice!Shutdown, Voice!SwitchAccount
<1>2. CASE Voice!Crash
  BY <1>2, Zenon DEF Voice!Crash
<1>3. CASE UNCHANGED Voice!vars
  BY <1>3 DEF Voice!vars
<1>4. QED
  BY <1>1, <1>2, <1>3, WorkerKeeps, CommandsKeep DEF Voice!Next

(* A file holds a spent token only while the worker is about to save its      *)
(* successor, and never the token of another account, whatever sessions,      *)
(* commands, crashes and changes of the account interleave                    *)
(* (persist_rotated_refresh, authorize). *)
THEOREM KeepsToken == Voice!Spec => []TokenKept
<1>1. DInv => TokenKept
  BY DEF DInv, TokenKept
<1>2. QED
  BY <1>1, DInvInit, DInvNext, PTL DEF Voice!Spec

(* The types of Discord. *)
THEOREM VoiceTypes == Voice!Spec => []Voice!TypeOK
<1>1. DInv => Voice!TypeOK
  BY DEF DInv
<1>2. QED
  BY <1>1, DInvInit, DInvNext, PTL DEF Voice!Spec

----------------------------------------------------------------------------
(* DiscordChannel. At most one answer is waited for, behind that to an        *)
(* `unsubscribe` which is not waited for any more. What was selected since    *)
(* the answer of the last query is behind it in the pipe, or noted.           *)

Selection == "VOICE_CHANNEL_SELECT"
Places == Channel \cup {NoChannel}
Order == [kind : Channels!Waiting, channel : Places]
Message ==
    [kind : {"ok", "ERROR"}, of : Channels!Waiting, channel : Places]
    \cup [kind : {Selection, "CURRENT_USER_UPDATE", "VOICE"}, of : {"event"},
          channel : Places]

(* What is in a pipe q. *)
Replies(m) == m.of # "event"
Only(q, kinds) == \A i \in 1..Len(q) : Replies(q[i]) => q[i].of \in kinds
Single(q) == \A i, j \in 1..Len(q) : i < j => ~(Replies(q[i]) /\ Replies(q[j]))
Pairs(q, a) ==
    \A i, j \in 1..Len(q) : i < j /\ Replies(q[i]) /\ Replies(q[j]) =>
        q[i].of = "unsubscribe" /\ q[j].of = a /\ a \in Channels!Waiting \ {"unsubscribe"}
Selects(q) == \E i \in 1..Len(q) : q[i].kind = Selection
Subscribes(q) == \E i \in 1..Len(q) : q[i].of = "subscribe" /\ q[i].kind = "ok"
Newer(q, c) ==
    \A i \in 1..Len(q) : q[i].of = "get" /\ q[i].kind = "ok" =>
        q[i].channel = c \/ \E j \in 1..Len(q) : j > i /\ q[j].kind = Selection

CTypes ==
    /\ commands \in Seq(Order) /\ inbox \in Seq(Message)
    /\ selectedChannel \in Places /\ channel \in Places /\ channelSubscribed \in Places
    /\ channelAt \in Channels!Waiting \cup {"serve", "ended"}
    /\ channelAt = "ended" => Len(commands) = 0 /\ Len(inbox) = 0

Shape ==
    \/ /\ Len(commands) = 0
       /\ Only(inbox, {"unsubscribe", channelAt}) /\ Pairs(inbox, channelAt)
    \/ /\ Len(commands) = 1 /\ channelAt \in Channels!Waiting
       /\ commands[1].kind = channelAt
       /\ Only(inbox, {"unsubscribe"}) /\ Single(inbox)
       /\ channelAt = "unsubscribe" => Only(inbox, {})
    \/ /\ Len(commands) = 1 /\ channelAt = "serve"
       /\ commands[1].kind = "unsubscribe" /\ Only(inbox, {})
    \/ /\ Len(commands) = 2 /\ channelAt \in {"get", "subscribe"}
       /\ commands[1].kind = "unsubscribe" /\ commands[2].kind = channelAt
       /\ Only(inbox, {})

Fed ==
    /\ Subscribes(inbox) => channel \in feeds
    /\ \A i \in 1..Len(commands) : commands[i].kind = "subscribe" =>
          commands[i].channel = channel
    /\ channelAt \notin {"unsubscribe", "ended"} /\ channelSubscribed # NoChannel =>
          /\ channelSubscribed \in feeds
          /\ \A i \in 1..Len(commands) : commands[i].kind # "unsubscribe"

Found ==
    /\ missed \/ Newer(inbox, selectedChannel)
    /\ channelAt \in {"global", "unsubscribe", "subscribe"} =>
          channel = selectedChannel \/ missed \/ pendingRefresh \/ Selects(inbox)
    /\ channelAt = "serve" /\ ~refreshFailed =>
          /\ channelSubscribed = channel
          /\ channel = selectedChannel \/ missed \/ Selects(inbox)

CInv == CTypes /\ Shape /\ Fed /\ Found

(* Reading and writing a queue. *)
LEMMA Behind ==
    ASSUME NEW S, NEW q \in Seq(S), Len(q) # 0
    PROVE  /\ Tail(q) \in Seq(S) /\ Len(Tail(q)) = Len(q) - 1 /\ Len(q) \in Nat
           /\ Head(q) = q[1] /\ Head(q) \in S /\ 1 \in 1..Len(q)
           /\ \A i \in 1..Len(Tail(q)) : i + 1 \in 1..Len(q) /\ Tail(q)[i] = q[i + 1]
           /\ \A j \in 1..Len(q) : j # 1 => j - 1 \in 1..Len(Tail(q)) /\ q[j] = Tail(q)[j - 1]
<1>1. q # <<>> /\ Len(q) \in Nat
  BY LenProperties, EmptySeq
<1>2. /\ Tail(q) \in Seq(S) /\ Len(Tail(q)) = Len(q) - 1 /\ Head(q) = q[1]
      /\ Head(q) \in S /\ \A i \in 1..Len(Tail(q)) : Tail(q)[i] = q[i + 1]
  BY <1>1, HeadTailProperties
<1>3. QED BY <1>1, <1>2

LEMMA InFront ==
    ASSUME NEW S, NEW q \in Seq(S), NEW m \in S, NEW r, r = Append(q, m)
    PROVE  /\ r \in Seq(S) /\ Len(r) = Len(q) + 1 /\ Len(q) \in Nat
           /\ \A i \in 1..Len(q) : i \in 1..Len(r) /\ r[i] = q[i]
           /\ r[Len(q) + 1] = m /\ Len(q) + 1 \in 1..Len(r)
           /\ \A i \in 1..Len(r) : i \in 1..Len(q) \/ i = Len(q) + 1
BY AppendProperties, LenProperties

LEMMA ReadKeeps ==
    ASSUME NEW q \in Seq(Message), Len(q) # 0, NEW kinds, NEW a, NEW c
    PROVE  /\ Only(q, kinds) => Only(Tail(q), kinds)
           /\ Single(q) => Single(Tail(q))
           /\ Pairs(q, a) => Pairs(Tail(q), a)
           /\ Subscribes(Tail(q)) => Subscribes(q)
           /\ Selects(q) => Selects(Tail(q)) \/ Head(q).kind = Selection
           /\ Newer(q, c) => Newer(Tail(q), c)
           /\ Newer(q, c) /\ Head(q).of = "get" /\ Head(q).kind = "ok" =>
                 Head(q).channel = c \/ Selects(Tail(q))
<1> DEFINE t == Tail(q)
<1> USE Behind
<1>1. Only(q, kinds) => Only(t, kinds)
  BY DEF Only
<1>2. Single(q) => Single(t)
  <2>1. SUFFICES ASSUME Single(q), NEW i \in 1..Len(t), NEW j \in 1..Len(t), i < j
        PROVE  ~(Replies(t[i]) /\ Replies(t[j]))
    BY DEF Single
  <2>2. i + 1 \in 1..Len(q) /\ j + 1 \in 1..Len(q) /\ i + 1 < j + 1
        /\ t[i] = q[i + 1] /\ t[j] = q[j + 1]
    BY <2>1
  <2>3. QED BY <2>1, <2>2 DEF Single
<1>3. Pairs(q, a) => Pairs(t, a)
  <2>1. SUFFICES ASSUME Pairs(q, a), NEW i \in 1..Len(t), NEW j \in 1..Len(t), i < j,
                        Replies(t[i]), Replies(t[j])
        PROVE  t[i].of = "unsubscribe" /\ t[j].of = a
               /\ a \in Channels!Waiting \ {"unsubscribe"}
    BY DEF Pairs
  <2>2. i + 1 \in 1..Len(q) /\ j + 1 \in 1..Len(q) /\ i + 1 < j + 1
        /\ t[i] = q[i + 1] /\ t[j] = q[j + 1]
    BY <2>1
  <2>3. QED BY <2>1, <2>2 DEF Pairs
<1>4. Subscribes(t) => Subscribes(q)
  BY DEF Subscribes
<1>5. Selects(q) => Selects(t) \/ Head(q).kind = Selection
  <2>1. SUFFICES ASSUME NEW j \in 1..Len(q), q[j].kind = Selection, j # 1
        PROVE  Selects(t)
    BY DEF Selects
  <2>2. j - 1 \in 1..Len(t) /\ t[j - 1].kind = Selection
    BY <2>1
  <2>3. QED BY <2>2 DEF Selects
<1>6. Newer(q, c) => Newer(t, c)
  <2>1. SUFFICES ASSUME Newer(q, c), NEW i \in 1..Len(t), t[i].of = "get",
                        t[i].kind = "ok", t[i].channel # c
        PROVE  \E j \in 1..Len(t) : j > i /\ t[j].kind = Selection
    BY DEF Newer
  <2>2. i + 1 \in 1..Len(q) /\ t[i] = q[i + 1]
    OBVIOUS
  <2>3. PICK j \in 1..Len(q) : j > i + 1 /\ q[j].kind = Selection
    BY <2>1, <2>2 DEF Newer
  <2>4. j - 1 \in 1..Len(t) /\ t[j - 1].kind = Selection /\ j - 1 > i
    BY <2>3
  <2>5. QED BY <2>4
<1>7. Newer(q, c) /\ Head(q).of = "get" /\ Head(q).kind = "ok" =>
        Head(q).channel = c \/ Selects(t)
  <2>1. SUFFICES ASSUME Newer(q, c), q[1].of = "get", q[1].kind = "ok", q[1].channel # c
        PROVE  Selects(t)
    OBVIOUS
  <2>2. PICK j \in 1..Len(q) : j > 1 /\ q[j].kind = Selection
    BY <2>1 DEF Newer
  <2>3. j - 1 \in 1..Len(t) /\ t[j - 1].kind = Selection
    BY <2>2
  <2>4. QED BY <2>3 DEF Selects
<1>8. QED BY <1>1, <1>2, <1>3, <1>4, <1>5, <1>6, <1>7

LEMMA WriteKeeps ==
    ASSUME NEW q \in Seq(Message), NEW m \in Message, NEW r, r = Append(q, m),
           NEW kinds, NEW a, NEW c
    PROVE  /\ Only(q, kinds) /\ (Replies(m) => m.of \in kinds) => Only(r, kinds)
           /\ Single(q) /\ (Replies(m) => Only(q, {})) => Single(r)
           /\ Pairs(q, a) /\ ~Replies(m) => Pairs(r, a)
           /\ Single(q) /\ Only(q, {"unsubscribe"}) /\ m.of = a
              /\ (a \in Channels!Waiting \ {"unsubscribe"} \/ Only(q, {})) => Pairs(r, a)
           /\ Selects(q) \/ m.kind = Selection => Selects(r)
           /\ Subscribes(r) => Subscribes(q) \/ (m.of = "subscribe" /\ m.kind = "ok")
           /\ Newer(q, c) /\ (m.of = "get" /\ m.kind = "ok" => m.channel = c) => Newer(r, c)
           /\ m.kind = Selection => Newer(r, c)
<1> USE InFront
<1>1. Only(q, kinds) /\ (Replies(m) => m.of \in kinds) => Only(r, kinds)
  BY DEF Only
<1>2. Single(q) /\ (Replies(m) => Only(q, {})) => Single(r)
  <2>1. SUFFICES ASSUME Single(q), Replies(m) => Only(q, {}), NEW i \in 1..Len(r),
                        NEW j \in 1..Len(r), i < j, Replies(r[i]), Replies(r[j])
        PROVE  FALSE
    BY DEF Single
  <2>2. i \in 1..Len(q)
    BY <2>1
  <2>3. QED BY <2>1, <2>2 DEF Single, Only
<1>3. Pairs(q, a) /\ ~Replies(m) => Pairs(r, a)
  <2>1. SUFFICES ASSUME Pairs(q, a), ~Replies(m), NEW i \in 1..Len(r),
                        NEW j \in 1..Len(r), i < j, Replies(r[i]), Replies(r[j])
        PROVE  r[i].of = "unsubscribe" /\ r[j].of = a
               /\ a \in Channels!Waiting \ {"unsubscribe"}
    BY DEF Pairs
  <2>2. i \in 1..Len(q) /\ j \in 1..Len(q)
    BY <2>1
  <2>3. QED BY <2>1, <2>2 DEF Pairs
<1>4. Single(q) /\ Only(q, {"unsubscribe"}) /\ m.of = a
      /\ (a \in Channels!Waiting \ {"unsubscribe"} \/ Only(q, {})) => Pairs(r, a)
  <2>1. SUFFICES ASSUME Single(q), Only(q, {"unsubscribe"}), m.of = a,
                        a \in Channels!Waiting \ {"unsubscribe"} \/ Only(q, {}),
                        NEW i \in 1..Len(r),
                        NEW j \in 1..Len(r), i < j, Replies(r[i]), Replies(r[j])
        PROVE  r[i].of = "unsubscribe" /\ r[j].of = a
               /\ a \in Channels!Waiting \ {"unsubscribe"}
    BY DEF Pairs
  <2>2. i \in 1..Len(q) /\ r[i] = q[i]
    BY <2>1
  <2>3. j = Len(q) + 1
    BY <2>1, <2>2 DEF Single
  <2>4. r[i].of = "unsubscribe"
    BY <2>1, <2>2 DEF Only
  <2>5. a \in Channels!Waiting \ {"unsubscribe"}
    BY <2>1, <2>2 DEF Only
  <2>6. QED BY <2>1, <2>3, <2>4, <2>5
<1>5. Selects(q) \/ m.kind = Selection => Selects(r)
  BY DEF Selects
<1>6. Subscribes(r) => Subscribes(q) \/ (m.of = "subscribe" /\ m.kind = "ok")
  BY DEF Subscribes
<1>7. Newer(q, c) /\ (m.of = "get" /\ m.kind = "ok" => m.channel = c) => Newer(r, c)
  <2>1. SUFFICES ASSUME Newer(q, c), m.of = "get" /\ m.kind = "ok" => m.channel = c,
                        NEW i \in 1..Len(r), r[i].of = "get", r[i].kind = "ok",
                        r[i].channel # c
        PROVE  \E j \in 1..Len(r) : j > i /\ r[j].kind = Selection
    BY DEF Newer
  <2>2. i \in 1..Len(q) /\ r[i] = q[i]
    BY <2>1
  <2>3. PICK j \in 1..Len(q) : j > i /\ q[j].kind = Selection
    BY <2>1, <2>2 DEF Newer
  <2>4. j \in 1..Len(r) /\ r[j] = q[j]
    OBVIOUS
  <2>5. QED BY <2>3, <2>4
<1>8. m.kind = Selection => Newer(r, c)
  <2>1. SUFFICES ASSUME m.kind = Selection, NEW i \in 1..Len(r), r[i].kind = "ok"
        PROVE  \E j \in 1..Len(r) : j > i /\ r[j].kind = Selection
    BY DEF Newer
  <2>2. r[Len(q) + 1].kind = Selection /\ Len(q) + 1 \in 1..Len(r)
    BY <2>1
  <2>3. i # Len(q) + 1
    BY <2>1, <2>2 DEF Selection
  <2>4. Len(q) + 1 > i
    BY <2>3
  <2>5. QED BY <2>2, <2>4
<1>9. QED BY <1>1, <1>2, <1>3, <1>4, <1>5, <1>6, <1>7, <1>8

(* Without an answer to a query or a subscription in it. *)
LEMMA Quiet ==
    ASSUME NEW q, Only(q, {"unsubscribe"}) \/ Only(q, {})
    PROVE  ~Subscribes(q) /\ \A c : Newer(q, c)
BY DEF Only, Subscribes, Newer, Replies

(* What an event or an answer leaves when it has been read, and what may be   *)
(* sent then. *)
Moves ==
    /\ commands \in Seq(Order) /\ inbox' \in Seq(Message)
    /\ selectedChannel' \in Places /\ channel' \in Places /\ channelSubscribed' \in Places
    /\ channelSubscribed' # NoChannel => channelSubscribed' \in feeds' /\ Len(commands) = 0

Clean == Len(commands) = 0 /\ Only(inbox', {})

Loose ==
    \/ Len(commands) = 0 /\ Only(inbox', {"unsubscribe"}) /\ Single(inbox')
    \/ Len(commands) = 1 /\ commands[1].kind = "unsubscribe" /\ Only(inbox', {})

Lately(pending) ==
    channel' = selectedChannel' \/ missed' \/ pending \/ Selects(inbox')

LEMMA CleanIsLoose == Clean => Loose
BY DEF Clean, Loose, Only, Single

LEMMA Sent ==
    ASSUME commands \in Seq(Order), NEW k \in Channels!Waiting, NEW c \in Places,
           Channels!Send(k, c)
    PROVE  /\ channelAt' = k /\ commands' \in Seq(Order) /\ Len(commands) \in Nat
           /\ Len(commands') = Len(commands) + 1
           /\ \A i \in 1..Len(commands) : commands'[i] = commands[i]
           /\ commands'[Len(commands) + 1].kind = k
           /\ commands'[Len(commands) + 1].channel = c
           /\ \A i \in 1..Len(commands') : i \in 1..Len(commands) \/ i = Len(commands) + 1
<1> DEFINE m == [kind |-> k, channel |-> c]
<1>1. m \in Order /\ m.kind = k /\ m.channel = c
  BY DEF Order
<1>2. commands' = Append(commands, m) /\ channelAt' = k
  BY DEF Channels!Send, Channels!Command
<1> HIDE DEF m
<1>3. QED BY <1>1, <1>2, InFront

LEMMA SendsQuery ==
    ASSUME Moves, Loose, Channels!BeginRound
    PROVE  CInv'
<1>1. "get" \in Channels!Waiting /\ NoChannel \in Places /\ commands \in Seq(Order)
  BY DEF Channels!Waiting, Places, Moves
<1>2. Channels!Send("get", NoChannel)
  BY DEF Channels!BeginRound
<1>3. /\ channelAt' = "get" /\ commands' \in Seq(Order)
      /\ Len(commands') = Len(commands) + 1
      /\ \A i \in 1..Len(commands) : commands'[i] = commands[i]
      /\ commands'[Len(commands) + 1].kind = "get"
      /\ \A i \in 1..Len(commands') : i \in 1..Len(commands) \/ i = Len(commands) + 1
  BY <1>1, <1>2, Sent
<1>4. CTypes'
  BY <1>1, <1>3 DEF CTypes, Moves
<1>5. Shape'
  BY <1>1, <1>3 DEF Shape, Loose
<1>6. ~Subscribes(inbox') /\ \A c : Newer(inbox', c)
  BY Quiet DEF Loose
<1>7. \A i \in 1..Len(commands) : commands[i].kind = "unsubscribe" /\ Len(commands) = 1
  BY DEF Loose
<1>8. Fed'
  BY <1>3, <1>6, <1>7 DEF Fed, Moves
<1>9. Found'
  BY <1>3, <1>6 DEF Found
<1>10. QED BY <1>4, <1>5, <1>8, <1>9 DEF CInv

LEMMA SendsOther ==
    ASSUME Moves, NEW k \in {"global", "unsubscribe", "subscribe"}, NEW c \in Places,
           Channels!Send(k, c), Clean \/ (Loose /\ k = "subscribe"),
           k = "subscribe" => c = channel', Lately(pendingRefresh')
    PROVE  CInv'
<1>1. k \in Channels!Waiting /\ commands \in Seq(Order)
  BY DEF Channels!Waiting, Moves
<1>2. /\ channelAt' = k /\ commands' \in Seq(Order)
      /\ Len(commands') = Len(commands) + 1
      /\ \A i \in 1..Len(commands) : commands'[i] = commands[i]
      /\ commands'[Len(commands) + 1].kind = k
      /\ commands'[Len(commands) + 1].channel = c
      /\ \A i \in 1..Len(commands') : i \in 1..Len(commands) \/ i = Len(commands) + 1
  BY <1>1, Sent
<1>3. Loose
  BY CleanIsLoose
<1>4. CTypes'
  BY <1>1, <1>2 DEF CTypes, Moves
<1>5. Shape'
  <2>1. CASE Clean
    <3>1. Only(inbox', {"unsubscribe"}) /\ Single(inbox')
      BY <2>1 DEF Clean, Only, Single
    <3>2. QED BY <1>1, <1>2, <2>1, <3>1 DEF Shape, Clean
  <2>2. CASE Loose /\ k = "subscribe"
    BY <1>1, <1>2, <2>2 DEF Shape, Loose
  <2>3. QED BY <2>1, <2>2
<1>6. ~Subscribes(inbox') /\ \A x : Newer(inbox', x)
  BY <1>3, Quiet DEF Loose
<1>7. \A i \in 1..Len(commands) : commands[i].kind = "unsubscribe" /\ Len(commands) = 1
  BY <1>3 DEF Loose
<1>8. Fed'
  BY <1>2, <1>6, <1>7 DEF Fed, Moves
<1>9. Found'
  BY <1>2, <1>6 DEF Found, Lately
<1>10. QED BY <1>4, <1>5, <1>8, <1>9 DEF CInv

(* A refresh is over when the events are of the channel that was found. *)
LEMMA EndsRound ==
    ASSUME Moves, Loose, Channels!EndRound, channelSubscribed' = channel',
           Lately(pendingRefresh)
    PROVE  CInv'
<1>1. CASE Channels!BeginRound
  BY <1>1, SendsQuery
<1>2. CASE channelAt' = "serve" /\ UNCHANGED commands /\ refreshFailed' = pendingRefresh
  <2>1. CTypes'
    BY <1>2 DEF CTypes, Moves
  <2>2. Shape'
    <3>1. Single(inbox') => Pairs(inbox', "serve")
      BY DEF Single, Pairs
    <3>2. Only(inbox', {"unsubscribe"}) => Only(inbox', {"unsubscribe", "serve"})
      BY DEF Only
    <3>3. QED BY <1>2, <3>1, <3>2 DEF Shape, Loose
  <2>3. ~Subscribes(inbox') /\ \A x : Newer(inbox', x)
    BY Quiet DEF Loose
  <2>4. \A i \in 1..Len(commands) : commands[i].kind = "unsubscribe" /\ Len(commands) = 1
    BY DEF Loose
  <2>5. Fed'
    BY <1>2, <2>3, <2>4 DEF Fed, Moves
  <2>6. Found'
    BY <1>2, <2>3 DEF Found, Lately
  <2>7. QED BY <2>1, <2>2, <2>5, <2>6 DEF CInv
<1>3. QED BY <1>1, <1>2 DEF Channels!EndRound

LEMMA Follows ==
    ASSUME Moves, Clean, Channels!FollowChannel(channelSubscribed'), Lately(pendingRefresh)
    PROVE  CInv'
<1>1. CASE channelSubscribed' # NoChannel /\ channelSubscribed' # channel'
  <2>1. Channels!Send("unsubscribe", channelSubscribed') /\ UNCHANGED pendingRefresh
    BY <1>1 DEF Channels!FollowChannel
  <2>2. channelSubscribed' \in Places /\ Lately(pendingRefresh')
    BY <2>1 DEF Moves, Lately
  <2>3. PICK c \in Places : Channels!Send("unsubscribe", c)
    BY <2>1, <2>2
  <2>4. QED BY <2>2, <2>3, SendsOther
<1>2. CASE /\ ~(channelSubscribed' # NoChannel /\ channelSubscribed' # channel')
           /\ channel' # NoChannel /\ channelSubscribed' # channel'
  <2>1. Channels!Send("subscribe", channel') /\ UNCHANGED pendingRefresh
    BY <1>2 DEF Channels!FollowChannel
  <2>2. channel' \in Places /\ Lately(pendingRefresh')
    BY <2>1 DEF Moves, Lately
  <2>3. PICK c \in Places : Channels!Send("subscribe", c) /\ c = channel'
    BY <2>1, <2>2
  <2>4. QED BY <2>2, <2>3, SendsOther
<1>3. CASE channelSubscribed' = channel'
  <2>1. Channels!EndRound
    BY <1>3 DEF Channels!FollowChannel
  <2>2. QED BY <1>3, <2>1, EndsRound, CleanIsLoose
<1>4. QED BY <1>1, <1>2, <1>3

LEMMA GivesUp ==
    ASSUME Moves, Clean, Channels!GiveUp
    PROVE  CInv'
<1>1. channelAt' = "serve" /\ refreshFailed' = TRUE /\ UNCHANGED commands
  BY DEF Channels!GiveUp
<1>2. CTypes'
  BY <1>1 DEF CTypes, Moves
<1>3. Only(inbox', {"unsubscribe", "serve"}) /\ Pairs(inbox', "serve")
  BY DEF Clean, Only, Pairs
<1>4. ~Subscribes(inbox') /\ \A x : Newer(inbox', x)
  BY Quiet DEF Clean
<1>5. Fed'
  BY <1>1, <1>4 DEF Fed, Moves, Clean
<1>6. QED
  BY <1>1, <1>2, <1>3, <1>4, <1>5 DEF CInv, Shape, Found, Clean

LEMMA EndsSession ==
    ASSUME CInv, Channels!EndSession
    PROVE  CInv'
<1>1. /\ channelAt' = "ended" /\ commands' = <<>> /\ inbox' = <<>>
      /\ UNCHANGED <<selectedChannel, feeds, missed, channel, channelSubscribed>>
  BY DEF Channels!EndSession, Channels!discord, Channels!tracker
<1>2. commands' \in Seq(Order) /\ inbox' \in Seq(Message) /\ Len(commands') = 0
      /\ Len(inbox') = 0
  BY <1>1, EmptySeq
<1>3. QED
  BY <1>1, <1>2 DEF CInv, CTypes, Shape, Fed, Found, Only, Pairs, Subscribes, Newer,
     Channels!Waiting

LEMMA CInvInit == Channels!Init => CInv
<1> SUFFICES ASSUME Channels!Init PROVE CInv
  OBVIOUS
<1>1. commands \in Seq(Order) /\ inbox \in Seq(Message) /\ Len(commands) = 0
      /\ Len(inbox) = 0 /\ channelAt = "ended"
  BY EmptySeq DEF Channels!Init
<1>2. QED
  BY <1>1 DEF Channels!Init, CInv, CTypes, Shape, Fed, Found, Only, Pairs, Subscribes, Newer,
     Channels!Waiting, Places

LEMMA Reconnects ==
    ASSUME CInv, Channels!Reconnect
    PROVE  CInv'
<1> DEFINE m == [kind |-> "monitor", channel |-> NoChannel]
<1>1. m \in Order /\ "monitor" \in Channels!Waiting
  BY DEF Order, Places, Channels!Waiting
<1>2. commands' = <<m>> /\ inbox' = <<>> /\ channelAt' = "monitor"
      /\ channel' = NoChannel /\ channelSubscribed' = NoChannel
      /\ selectedChannel' = selectedChannel
  BY DEF Channels!Reconnect, Channels!Start, Channels!Command
<1>3. commands' \in Seq(Order) /\ Len(commands') = 1 /\ commands'[1].kind = "monitor"
  BY <1>1, <1>2
<1>4. inbox' \in Seq(Message) /\ Len(inbox') = 0
  BY <1>2, EmptySeq
<1>5. CTypes' /\ Shape'
  BY <1>1, <1>2, <1>3, <1>4 DEF CInv, CTypes, Shape, Only, Single, Places
<1>6. Fed' /\ Found'
  BY <1>2, <1>3, <1>4 DEF Fed, Found, Subscribes, Newer
<1>7. QED BY <1>5, <1>6 DEF CInv

(* The answer that is waited for is the last one. *)
LEMMA LastAnswer ==
    ASSUME CInv, channelAt \in Channels!Waiting, Len(inbox) # 0, Head(inbox).of = channelAt
    PROVE  Len(commands) = 0 /\ Only(Tail(inbox), {})
<1>1. /\ Head(inbox) = inbox[1] /\ 1 \in 1..Len(inbox)
      /\ \A i \in 1..Len(Tail(inbox)) :
            i + 1 \in 1..Len(inbox) /\ Tail(inbox)[i] = inbox[i + 1]
  BY Behind DEF CInv, CTypes
<1>2. Replies(inbox[1]) /\ ~Only(inbox, {})
  BY <1>1 DEF Replies, Channels!Waiting, Only
<1>3. Only(inbox, {"unsubscribe"}) => channelAt = "unsubscribe"
  BY <1>1, <1>2 DEF Only
<1>4. Len(commands) = 0 /\ Pairs(inbox, channelAt)
  BY <1>2, <1>3 DEF CInv, Shape
<1>5. Only(Tail(inbox), {})
  <2>1. SUFFICES ASSUME NEW i \in 1..Len(Tail(inbox)), Replies(Tail(inbox)[i]) PROVE FALSE
    BY DEF Only
  <2>2. i + 1 \in 1..Len(inbox) /\ Replies(inbox[i + 1]) /\ 1 < i + 1
    BY <1>1, <2>1
  <2>3. inbox[1].of = "unsubscribe" /\ channelAt # "unsubscribe"
    BY <1>1, <1>2, <1>4, <2>2 DEF Pairs
  <2>4. QED BY <1>1, <2>3
<1>6. QED BY <1>4, <1>5

LEMMA ReadAnswerKeeps ==
    ASSUME CInv, Channels!ReadAnswer
    PROVE  CInv'
<1>1. /\ channelAt \in Channels!Waiting /\ Len(inbox) # 0 /\ Head(inbox).of = channelAt
      /\ inbox' = Tail(inbox) /\ UNCHANGED <<selectedChannel, feeds, missed>>
  BY EmptySeq DEF Channels!ReadAnswer, Channels!discord, CInv, CTypes
<1>2. Len(commands) = 0 /\ Clean
  BY <1>1, LastAnswer DEF Clean
<1>3. /\ Head(inbox) = inbox[1] /\ 1 \in 1..Len(inbox)
      /\ Head(inbox) \in Message /\ inbox' \in Seq(Message)
  BY <1>1, Behind DEF CInv, CTypes
<1>4. Head(inbox).kind \in {"ok", "ERROR"} /\ Head(inbox).channel \in Places
      /\ Head(inbox).kind # Selection
  BY <1>1, <1>3 DEF Message, Channels!Waiting, Selection
<1>5. channelAt # "unsubscribe" /\ channelSubscribed # NoChannel => channelSubscribed \in feeds
  BY <1>1 DEF CInv, Fed, Channels!Waiting
<1>6. commands \in Seq(Order) /\ selectedChannel \in Places /\ channel \in Places
      /\ channelSubscribed \in Places
  BY DEF CInv, CTypes
<1>7. channelAt \in {"global", "unsubscribe", "subscribe"} /\ UNCHANGED channel
        => Lately(pendingRefresh)
  BY <1>1, <1>3, <1>4, ReadKeeps DEF CInv, CTypes, Found, Lately
<1>8. CASE channelAt = "monitor"
  <2>1. Channels!BeginRound /\ UNCHANGED <<channel, channelSubscribed>>
    BY <1>8 DEF Channels!ReadAnswer, Channels!Monitored, Channels!tracker
  <2>2. Moves
    BY <1>1, <1>2, <1>3, <1>5, <1>6, <1>8, <2>1 DEF Moves
  <2>3. QED BY <1>2, <2>1, <2>2, SendsQuery, CleanIsLoose
<1>9. CASE channelAt = "get" /\ Head(inbox).kind = "ok"
  <2>1. Channels!GotChannel(Head(inbox).channel)
    BY <1>9 DEF Channels!ReadAnswer
  <2>2. channel' = Head(inbox).channel /\ UNCHANGED channelSubscribed
    BY <2>1 DEF Channels!GotChannel
  <2>3. Moves
    BY <1>1, <1>2, <1>3, <1>4, <1>5, <1>6, <1>9, <2>2 DEF Moves
  <2>4. missed \/ Head(inbox).channel = selectedChannel \/ Selects(Tail(inbox))
    BY <1>1, <1>3, <1>9, ReadKeeps DEF CInv, CTypes, Found
  <2>5. \A p : Lately(p)
    BY <1>1, <2>2, <2>4 DEF Lately
  <2>6. CASE globalSubscribed
    <3>1. Channels!FollowChannel(channelSubscribed')
      BY <2>1, <2>2, <2>6 DEF Channels!GotChannel
    <3>2. QED BY <1>2, <2>3, <2>5, <3>1, Follows
  <2>7. CASE ~globalSubscribed
    <3>1. Channels!Send("global", NoChannel) /\ NoChannel \in Places
      BY <2>1, <2>7 DEF Channels!GotChannel, Places
    <3>2. QED BY <1>2, <2>3, <2>5, <3>1, SendsOther
  <2>8. QED BY <2>6, <2>7
<1>10. CASE /\ channelAt \in {"global", "unsubscribe", "subscribe"}
            /\ Head(inbox).kind = "ok" \/ channelAt = "unsubscribe"
  <2>1. Channels!Subscribed(channelAt)
    BY <1>10 DEF Channels!ReadAnswer
  <2>2. UNCHANGED channel /\ Lately(pendingRefresh)
    BY <1>7, <1>10, <2>1 DEF Channels!Subscribed
  <2>3. CASE /\ channelAt = "global" /\ UNCHANGED channelSubscribed
             /\ Channels!FollowChannel(channelSubscribed)
    <3>1. Moves
      BY <1>1, <1>2, <1>3, <1>5, <1>6, <2>2, <2>3 DEF Moves
    <3>2. Channels!FollowChannel(channelSubscribed')
      BY <2>3
    <3>3. QED BY <1>2, <2>2, <3>1, <3>2, Follows
  <2>4. CASE channelSubscribed' = NoChannel /\ Channels!FollowChannel(NoChannel)
    <3>1. Moves
      BY <1>1, <1>2, <1>3, <1>6, <2>2, <2>4 DEF Moves, Places
    <3>2. Channels!FollowChannel(channelSubscribed')
      BY <2>4
    <3>3. QED BY <1>2, <2>2, <3>1, <3>2, Follows
  <2>5. CASE channelAt = "subscribe" /\ channelSubscribed' = channel /\ Channels!EndRound
    <3>1. Subscribes(inbox)
      BY <1>1, <1>3, <1>10, <2>5 DEF Subscribes
    <3>2. channel \in feeds
      BY <3>1 DEF CInv, Fed
    <3>3. Moves
      BY <1>1, <1>2, <1>3, <1>6, <2>2, <2>5, <3>2 DEF Moves
    <3>4. QED BY <1>2, <2>2, <2>5, <3>3, EndsRound, CleanIsLoose
  <2>6. QED BY <2>1, <2>3, <2>4, <2>5 DEF Channels!Subscribed
<1>11. CASE ~(Head(inbox).kind = "ok" \/ channelAt = "unsubscribe")
  <2>1. Channels!GiveUp /\ UNCHANGED <<channel, channelSubscribed>>
    BY <1>11 DEF Channels!ReadAnswer, Channels!tracker
  <2>2. Moves
    BY <1>1, <1>2, <1>3, <1>5, <1>6, <1>11, <2>1 DEF Moves
  <2>3. QED BY <1>2, <2>1, <2>2, GivesUp
<1>12. QED
  BY <1>1, <1>4, <1>8, <1>9, <1>10, <1>11 DEF Channels!Waiting

(* A message is read, and nothing is sent. *)
LEMMA ReadOnly ==
    ASSUME CInv, channelAt # "ended", Len(inbox) # 0, inbox' = Tail(inbox),
           UNCHANGED <<selectedChannel, feeds, missed, commands, channelAt, channel,
                       channelSubscribed, refreshFailed>>,
           pendingRefresh => pendingRefresh',
           Head(inbox).kind = Selection => pendingRefresh' /\ channelAt # "serve"
    PROVE  CInv'
<1> USE DEF CInv
<1>1. inbox \in Seq(Message) /\ Tail(inbox) \in Seq(Message)
  BY Behind DEF CTypes
<1>2. CTypes'
  BY <1>1 DEF CTypes
<1>3. Shape'
  BY <1>1, ReadKeeps DEF Shape
<1>4. Fed'
  BY <1>1, ReadKeeps DEF Fed
<1>5. Found'
  BY <1>1, ReadKeeps DEF Found
<1>6. QED BY <1>2, <1>3, <1>4, <1>5

(* What is left when no answer is waited for any more. *)
LEMMA Loosened ==
    ASSUME CInv, channelAt \in {"unsubscribe", "serve"}, Len(inbox) # 0,
           inbox' = Tail(inbox)
    PROVE  Loose
<1>1. inbox \in Seq(Message)
  BY DEF CInv, CTypes
<1>2. \A i \in 1..Len(inbox) : inbox[i] \in Message
  BY <1>1, ElementOfSeq
<1>3. Only(inbox, {"unsubscribe", channelAt}) => Only(inbox, {"unsubscribe"})
  BY <1>2 DEF Only, Message, Replies, Channels!Waiting
<1>4. Pairs(inbox, channelAt) => Single(inbox)
  BY DEF Pairs, Single, Channels!Waiting
<1>5. \/ Len(commands) = 0 /\ Only(inbox, {"unsubscribe"}) /\ Single(inbox)
      \/ Len(commands) = 1 /\ commands[1].kind = "unsubscribe" /\ Only(inbox, {})
  BY <1>3, <1>4 DEF CInv, Shape, Channels!Waiting
<1>6. QED BY <1>1, <1>5, ReadKeeps DEF Loose

LEMMA EventKeeps ==
    ASSUME CInv, Channels!AccountChanged \/ Channels!Serve
    PROVE  CInv'
<1>1. CASE Channels!AccountChanged /\ channelAt = "unsubscribe"
  <2>1. /\ Len(inbox) # 0 /\ inbox' = Tail(inbox) /\ Head(inbox).kind # Selection
        /\ channelSubscribed' = NoChannel
        /\ UNCHANGED <<selectedChannel, feeds, missed, channel>>
    BY <1>1, EmptySeq DEF Channels!AccountChanged, Channels!discord, CInv, CTypes, Selection
  <2>2. Loose
    BY <1>1, <2>1, Loosened
  <2>3. Lately(pendingRefresh)
    BY <1>1, <2>1, ReadKeeps DEF CInv, CTypes, Found, Lately
  <2>4. Moves
    BY <2>1, Behind DEF CInv, CTypes, Moves, Places
  <2>5. CASE channel # NoChannel
    <3>1. Channels!Send("subscribe", channel) /\ UNCHANGED pendingRefresh
      BY <1>1, <2>5 DEF Channels!AccountChanged
    <3>2. channel \in Places /\ Lately(pendingRefresh')
      BY <2>3, <3>1 DEF CInv, CTypes, Lately
    <3>3. QED BY <2>1, <2>2, <2>4, <3>1, <3>2, SendsOther
  <2>6. CASE channel = NoChannel
    <3>1. Channels!EndRound
      BY <1>1, <2>6 DEF Channels!AccountChanged
    <3>2. QED BY <2>1, <2>2, <2>3, <2>4, <2>6, <3>1, EndsRound
  <2>7. QED BY <2>5, <2>6
<1>2. CASE Channels!AccountChanged /\ channelAt # "unsubscribe"
  BY <1>2, EndsSession DEF Channels!AccountChanged
<1>3. CASE Channels!Serve
  <2>1. /\ Len(inbox) # 0 /\ inbox' = Tail(inbox) /\ channelAt = "serve"
        /\ Channels!BeginRound
        /\ UNCHANGED <<selectedChannel, feeds, missed, channel, channelSubscribed>>
    BY <1>3, EmptySeq DEF Channels!Serve, Channels!discord, Channels!tracker, CInv, CTypes
  <2>2. Loose
    BY <2>1, Loosened
  <2>3. Moves
    <3>1. Len(commands) = 0 \/ (Len(commands) = 1 /\ commands[1].kind = "unsubscribe")
      BY <2>1 DEF CInv, Shape, Channels!Waiting
    <3>2. channelSubscribed # NoChannel => channelSubscribed \in feeds /\ Len(commands) = 0
      BY <2>1, <3>1 DEF CInv, Fed
    <3>3. QED BY <2>1, <3>2, Behind DEF CInv, CTypes, Moves
  <2>4. QED BY <2>1, <2>2, <2>3, SendsQuery
<1>4. QED BY <1>1, <1>2, <1>3

(* Discord tells of something, if it is asked to. *)
LEMMA Arrives ==
    ASSUME CInv, channelAt # "ended",
           NEW e \in {Selection, "CURRENT_USER_UPDATE", "VOICE"},
           UNCHANGED inbox \/ inbox' = Append(inbox, Channels!Event(e)),
           UNCHANGED <<feeds, commands, channelAt, channel, channelSubscribed,
                       pendingRefresh, refreshFailed>>,
           selectedChannel' \in Places, missed => missed',
           \/ selectedChannel' = selectedChannel \/ missed'
           \/ e = Selection /\ inbox' = Append(inbox, Channels!Event(e))
    PROVE  CInv'
<1> DEFINE m == Channels!Event(e)
<1>1. /\ m \in Message /\ ~Replies(m) /\ m.kind = e /\ m.of = "event"
  BY DEF Channels!Event, Message, Places, Replies
<1> HIDE DEF m
<1>2. inbox \in Seq(Message)
  BY DEF CInv, CTypes
<1>3. CASE inbox' = Append(inbox, m)
  <2>1. inbox' \in Seq(Message)
    BY <1>1, <1>2, <1>3, InFront
  <2>2. CTypes'
    BY <2>1 DEF CInv, CTypes
  <2>3. \A kinds : Only(inbox, kinds) => Only(inbox', kinds)
    BY <1>1, <1>2, <1>3, WriteKeeps
  <2>4. \A a : Pairs(inbox, a) => Pairs(inbox', a)
    BY <1>1, <1>2, <1>3, WriteKeeps
  <2>5. Single(inbox) => Single(inbox')
    BY <1>1, <1>2, <1>3, WriteKeeps
  <2>6. Shape'
    BY <2>3, <2>4, <2>5 DEF CInv, Shape
  <2>7. Subscribes(inbox') => Subscribes(inbox)
    BY <1>1, <1>2, <1>3, WriteKeeps
  <2>8. Fed'
    BY <2>7 DEF CInv, Fed
  <2>9. Selects(inbox) \/ e = Selection => Selects(inbox')
    BY <1>1, <1>2, <1>3, WriteKeeps
  <2>10. \A c : Newer(inbox, c) \/ e = Selection => Newer(inbox', c)
    BY <1>1, <1>2, <1>3, WriteKeeps
  <2>11. Found'
    BY <1>3, <2>9, <2>10 DEF CInv, Found
  <2>12. QED BY <2>2, <2>6, <2>8, <2>11 DEF CInv
<1>4. CASE UNCHANGED inbox /\ (selectedChannel' = selectedChannel \/ missed')
  BY <1>4 DEF CInv, CTypes, Shape, Fed, Found
<1>5. QED BY <1>3, <1>4 DEF m

LEMMA DiscordKeeps ==
    ASSUME CInv,
           \/ Channels!SwitchAccount \/ Channels!Voice
           \/ \E c \in Places : Channels!SelectChannel(c)
    PROVE  CInv'
<1> USE DEF Channels!rpc, Channels!tracker, Channels!discord
<1>1. CASE Channels!SwitchAccount
  <2>1. /\ channelAt # "ended"
        /\ UNCHANGED inbox \/ inbox' = Append(inbox, Channels!Event("CURRENT_USER_UPDATE"))
        /\ UNCHANGED <<feeds, commands, channelAt, channel, channelSubscribed,
                       pendingRefresh, refreshFailed, selectedChannel, missed>>
    BY <1>1 DEF Channels!SwitchAccount, Channels!Notify
  <2>2. QED BY <2>1, Arrives DEF CInv, CTypes
<1>2. CASE Channels!Voice
  <2>1. /\ channelAt # "ended" /\ inbox' = Append(inbox, Channels!Event("VOICE"))
        /\ UNCHANGED <<feeds, commands, channelAt, channel, channelSubscribed,
                       pendingRefresh, refreshFailed, selectedChannel, missed>>
    BY <1>2 DEF Channels!Voice
  <2>2. QED BY <2>1, Arrives DEF CInv, CTypes
<1>3. ASSUME NEW c \in Places, Channels!SelectChannel(c) PROVE CInv'
  <2>1. /\ channelAt # "ended" /\ selectedChannel' = c
        /\ UNCHANGED <<feeds, commands, channelAt, channel, channelSubscribed,
                       pendingRefresh, refreshFailed>>
    BY <1>3 DEF Channels!SelectChannel
  <2>2. missed => missed'
    BY <1>3 DEF Channels!SelectChannel
  <2>3. CASE "select" \in feeds
    <3>1. inbox' = Append(inbox, Channels!Event(Selection))
      BY <1>3, <2>3 DEF Channels!SelectChannel, Channels!Notify, Selection
    <3>2. QED BY <2>1, <2>2, <3>1, Arrives
  <2>4. CASE "select" \notin feeds
    <3>1. UNCHANGED inbox /\ missed'
      BY <1>3, <2>4 DEF Channels!SelectChannel, Channels!Notify
    <3>2. QED BY <2>1, <2>2, <3>1, Arrives
  <2>5. QED BY <2>3, <2>4
<1>4. QED BY <1>1, <1>2, <1>3

(* A command is answered: the oldest first. *)
LEMMA AnswerKeeps ==
    ASSUME CInv, Channels!AnswerCommand
    PROVE  CInv'
<1> DEFINE k == Head(commands).kind
           c == Head(commands).channel
<1>1. /\ Len(commands) # 0 /\ commands' = Tail(commands)
      /\ UNCHANGED <<selectedChannel, channelAt, channel, channelSubscribed,
                     pendingRefresh, refreshFailed>>
  BY EmptySeq DEF Channels!AnswerCommand, Channels!rpc, Channels!tracker, CInv, CTypes
<1>2. PICK result \in {"ok", "ERROR"} :
          /\ inbox' = Append(inbox, Channels!Answer(k, selectedChannel, result))
          /\ result = "ok" => feeds' = Channels!Effect(k, c)
          /\ feeds' \in {feeds, Channels!Effect(k, c)}
          /\ missed' => missed
          /\ missed /\ ~(k = "get" /\ result = "ok") => missed'
  <2>1. CASE /\ feeds' = Channels!Effect(k, c)
             /\ missed' = (missed /\ k # "get")
             /\ inbox' = Append(inbox, Channels!Answer(k, selectedChannel, "ok"))
    BY <2>1
  <2>2. CASE /\ feeds' \in {feeds, Channels!Effect(k, c)}
             /\ inbox' = Append(inbox, Channels!Answer(k, selectedChannel, "ERROR"))
             /\ UNCHANGED missed
    BY <2>2
  <2>3. QED BY <2>1, <2>2 DEF Channels!AnswerCommand
<1> DEFINE m == Channels!Answer(k, selectedChannel, result)
<1>3. /\ commands \in Seq(Order) /\ inbox \in Seq(Message) /\ channelAt # "ended"
      /\ commands' \in Seq(Order) /\ Len(commands') = Len(commands) - 1
      /\ Len(commands) \in Nat
      /\ Head(commands) = commands[1] /\ Head(commands) \in Order /\ 1 \in 1..Len(commands)
      /\ \A i \in 1..Len(commands') :
            i + 1 \in 1..Len(commands) /\ commands'[i] = commands[i + 1]
  BY <1>1, Behind DEF CInv, CTypes
<1>4. m \in Message /\ Replies(m) /\ m.of = k /\ m.kind = result
      /\ m.channel = selectedChannel /\ m.kind # Selection /\ k \in Channels!Waiting
  BY <1>3 DEF CInv, CTypes, Order, Message, Replies, Channels!Waiting, Channels!Answer,
              Selection
<1>5. inbox' = Append(inbox, m)
  BY <1>2
<1> HIDE DEF m
<1>6. inbox' \in Seq(Message)
  BY <1>3, <1>4, <1>5, InFront
<1>7. CTypes'
  BY <1>1, <1>3, <1>6 DEF CInv, CTypes
<1>8. Selects(inbox) => Selects(inbox')
  BY <1>3, <1>4, <1>5, WriteKeeps
<1>9. Subscribes(inbox') => Subscribes(inbox) \/ (k = "subscribe" /\ result = "ok")
  BY <1>3, <1>4, <1>5, WriteKeeps
<1>10. \A x : Newer(inbox, x) /\ (k = "get" /\ result = "ok" => selectedChannel = x)
                => Newer(inbox', x)
  BY <1>3, <1>4, <1>5, WriteKeeps
<1>11. k # "unsubscribe" => feeds \subseteq feeds'
  BY <1>2 DEF Channels!Effect
<1>12. k = "subscribe" /\ result = "ok" => c \in feeds'
  BY <1>2 DEF Channels!Effect
<1>13. k = channelAt \/ k = "unsubscribe"
  BY <1>1, <1>3 DEF CInv, Shape
<1>14. Only(inbox, {"unsubscribe"})
  BY <1>1, <1>3 DEF CInv, Shape, Only
<1>15. Shape'
  <2>1. CASE /\ Len(commands) = 1 /\ k = channelAt /\ channelAt \in Channels!Waiting
             /\ Single(inbox)
             /\ channelAt = "unsubscribe" => Only(inbox, {})
    <3>1. Only(inbox, {"unsubscribe", channelAt})
      BY <1>14 DEF Only
    <3>2. Only(inbox', {"unsubscribe", channelAt})
      BY <1>3, <1>4, <1>5, <2>1, <3>1, WriteKeeps
    <3>3. Pairs(inbox', channelAt)
      <4>1. channelAt \in Channels!Waiting \ {"unsubscribe"} \/ Only(inbox, {})
        BY <2>1
      <4>2. Single(inbox) /\ m.of = channelAt
        BY <1>4, <2>1
      <4>3. QED BY <1>3, <1>4, <1>5, <1>14, <4>1, <4>2, WriteKeeps
    <3>4. QED BY <1>1, <1>3, <2>1, <3>2, <3>3 DEF Shape
  <2>2. CASE /\ Len(commands) = 1 /\ k = "unsubscribe" /\ channelAt = "serve"
             /\ Only(inbox, {})
    <3>1. Only(inbox, {"unsubscribe", channelAt}) /\ Single(inbox)
      BY <2>2 DEF Only, Single
    <3>2. Only(inbox', {"unsubscribe", channelAt})
      BY <1>3, <1>4, <1>5, <2>2, <3>1, WriteKeeps
    <3>3. Single(inbox')
      BY <1>3, <1>4, <1>5, <2>2, <3>1, WriteKeeps
    <3>4. Pairs(inbox', channelAt)
      BY <3>3 DEF Single, Pairs
    <3>5. QED BY <1>1, <1>3, <2>2, <3>2, <3>4 DEF Shape
  <2>3. CASE /\ Len(commands) = 2 /\ k = "unsubscribe" /\ channelAt \in {"get", "subscribe"}
             /\ commands[2].kind = channelAt /\ Only(inbox, {})
    <3>1. Single(inbox)
      BY <2>3 DEF Only, Single
    <3>2. Only(inbox', {"unsubscribe"})
      BY <1>3, <1>4, <1>5, <1>14, <2>3, WriteKeeps
    <3>3. Single(inbox')
      BY <1>3, <1>4, <1>5, <2>3, <3>1, WriteKeeps
    <3>4. commands'[1].kind = channelAt /\ Len(commands') = 1
      BY <1>3, <2>3
    <3>5. QED BY <1>1, <2>3, <3>2, <3>3, <3>4 DEF Shape, Channels!Waiting
  <2>4. QED BY <1>1, <1>3, <2>1, <2>2, <2>3 DEF CInv, Shape
<1>16. ~Subscribes(inbox) /\ \A x : Newer(inbox, x)
  BY <1>14, Quiet
<1>17. Fed'
  <2>1. Subscribes(inbox') => channel' \in feeds'
    BY <1>1, <1>3, <1>9, <1>12, <1>16 DEF CInv, Fed
  <2>2. \A i \in 1..Len(commands') : commands'[i].kind = "subscribe" =>
            commands'[i].channel = channel'
    BY <1>1, <1>3 DEF CInv, Fed
  <2>3. ASSUME channelAt \notin {"unsubscribe", "ended"}, channelSubscribed # NoChannel
        PROVE  /\ channelSubscribed \in feeds'
               /\ \A i \in 1..Len(commands') : commands'[i].kind # "unsubscribe"
    <3>1. /\ channelSubscribed \in feeds
          /\ \A i \in 1..Len(commands) : commands[i].kind # "unsubscribe"
      BY <2>3 DEF CInv, Fed
    <3>2. QED BY <1>3, <1>11, <3>1
  <2>4. QED BY <1>1, <2>1, <2>2, <2>3 DEF Fed
<1>18. Found'
  <2>1. Newer(inbox', selectedChannel')
    BY <1>1, <1>10, <1>16
  <2>2. channelAt \in {"global", "unsubscribe", "subscribe", "serve"} /\ missed => missed'
    BY <1>2, <1>13
  <2>3. QED BY <1>1, <1>8, <2>1, <2>2 DEF CInv, Found
<1>19. QED BY <1>7, <1>15, <1>17, <1>18 DEF CInv

LEMMA CInvNext ==
    ASSUME CInv, [Channels!Next]_(Channels!vars)
    PROVE  CInv'
<1> USE DEF Channels!rpc, Channels!tracker, Channels!discord
<1> inbox \in Seq(Message)
  BY DEF CInv, CTypes
<1>1. CASE Channels!SkipAnswer
  <2>1. /\ channelAt # "ended" /\ Len(inbox) # 0 /\ inbox' = Tail(inbox)
        /\ Head(inbox).of # "event"
        /\ UNCHANGED <<selectedChannel, feeds, missed, commands, channelAt, channel,
                       channelSubscribed, refreshFailed, pendingRefresh>>
    BY <1>1, EmptySeq DEF Channels!SkipAnswer
  <2>2. Head(inbox).kind # Selection
    BY <2>1, Behind DEF Message, Selection
  <2>3. QED BY <2>1, <2>2, ReadOnly
<1>2. CASE Channels!NoteSelection
  <2>1. /\ channelAt \in Channels!Waiting /\ Len(inbox) # 0 /\ inbox' = Tail(inbox)
        /\ pendingRefresh' = TRUE
        /\ UNCHANGED <<selectedChannel, feeds, missed, commands, channelAt, channel,
                       channelSubscribed, refreshFailed>>
    BY <1>2, EmptySeq DEF Channels!NoteSelection
  <2>2. channelAt # "ended" /\ channelAt # "serve"
    BY <2>1 DEF Channels!Waiting
  <2>3. QED BY <2>1, <2>2, ReadOnly
<1>3. CASE Channels!NoteVoice
  <2>1. /\ channelAt \in Channels!Waiting \cup {"serve"} /\ Len(inbox) # 0
        /\ inbox' = Tail(inbox) /\ Head(inbox).kind # Selection
        /\ UNCHANGED <<selectedChannel, feeds, missed, commands, channelAt, channel,
                       channelSubscribed, refreshFailed, pendingRefresh>>
    BY <1>3, EmptySeq DEF Channels!NoteVoice, Selection
  <2>2. channelAt # "ended"
    BY <2>1 DEF Channels!Waiting
  <2>3. QED BY <2>1, <2>2, ReadOnly
<1>4. CASE Channels!Disconnect
  BY <1>4, EndsSession DEF Channels!Disconnect
<1>5. CASE UNCHANGED Channels!vars
  <2>1. UNCHANGED <<selectedChannel, feeds, missed, commands, inbox, channelAt, channel,
                    channelSubscribed, refreshFailed, pendingRefresh>>
    BY <1>5 DEF Channels!vars, Channels!pipe
  <2>2. QED BY <2>1 DEF CInv, CTypes, Shape, Fed, Found
<1>6. QED
  BY <1>1, <1>2, <1>3, <1>4, <1>5, AnswerKeeps, ReadAnswerKeeps, EventKeeps, DiscordKeeps,
     Reconnects DEF Channels!Next, Places

(* When the worker has read all there is, what it shows is of the channel     *)
(* that is selected, and it is told of that channel's events, in whatever     *)
(* order selections, answers and a change of the account arrive               *)
(* (refresh_channel, command, handle_event). *)
THEOREM FollowsChannel == Channels!Spec => []ChannelFollowed
<1>1. CInv => ChannelFollowed
  <2>1. SUFFICES ASSUME CInv, channelAt = "serve", inbox = <<>>, ~refreshFailed, ~missed
        PROVE  /\ channel = selectedChannel /\ channelSubscribed = selectedChannel
               /\ selectedChannel # NoChannel => selectedChannel \in feeds
    BY DEF ChannelFollowed, Channels!ChannelFollowed
  <2>2. ~Selects(inbox)
    BY <2>1 DEF Selects
  <2>3. QED BY <2>1, <2>2 DEF CInv, Fed, Found
<1>2. QED
  BY <1>1, CInvInit, CInvNext, PTL DEF Channels!Spec

(* The types of DiscordChannel. What is in the pipe and what has not been     *)
(* answered are together no more than what Discord sends by itself and two    *)
(* commands: whatever is asked is asked when something was read. *)
Flags ==
    /\ same \in BOOLEAN /\ missed \in BOOLEAN /\ first \in BOOLEAN
    /\ globalSubscribed \in BOOLEAN /\ pendingRefresh \in BOOLEAN
    /\ accountChanged \in BOOLEAN /\ refreshFailed \in BOOLEAN /\ channelShown \in BOOLEAN
    /\ feeds \subseteq {"account", "select"} \cup Channel
    /\ round \in 0..2

InPipe ==
    /\ Len(inbox) + Len(commands) <= MaxInbox + 2
    /\ \A i \in 1..Len(commands) :
          commands[i].kind = "subscribe" => commands[i].channel \in Channel

(* At most one command more. *)
Asks ==
    \/ commands' = commands
    \/ \E k, c : commands' = Append(commands, Channels!Command(k, c))
                 /\ (k = "subscribe" => c \in Channel)

Refreshed ==
    /\ Asks /\ round' \in 0..2 /\ first' \in BOOLEAN /\ pendingRefresh' \in BOOLEAN
    /\ refreshFailed' \in BOOLEAN /\ channelShown' \in BOOLEAN

LEMMA AskFor ==
    ASSUME NEW k, NEW c, commands' = Append(commands, Channels!Command(k, c)),
           k = "subscribe" => c \in Channel
    PROVE  Asks
BY Zenon DEF Asks

LEMMA EndRoundAsks ==
    ASSUME Flags, Channels!EndRound
    PROVE  Refreshed
<1>1. CASE pendingRefresh /\ round > 0
  <2>1. /\ commands' = Append(commands, Channels!Command("get", NoChannel))
        /\ pendingRefresh' = FALSE /\ round' = round - 1 /\ first' = first
        /\ refreshFailed' = refreshFailed /\ channelShown' = TRUE
    BY <1>1 DEF Channels!EndRound, Channels!BeginRound, Channels!Send, Channels!Publish
  <2>2. Asks
    BY <2>1, AskFor
  <2>3. round' \in 0..2
    BY <1>1, <2>1 DEF Flags
  <2>4. QED BY <2>1, <2>2, <2>3, Zenon DEF Flags, Refreshed
<1>2. CASE ~(pendingRefresh /\ round > 0)
  <2>1. /\ commands' = commands /\ pendingRefresh' = pendingRefresh /\ round' = 0
        /\ first' = FALSE /\ refreshFailed' = pendingRefresh /\ channelShown' = TRUE
    BY <1>2 DEF Channels!EndRound, Channels!Publish
  <2>2. 0 \in 0..2
    OBVIOUS
  <2>3. QED BY <2>1, <2>2, Zenon DEF Flags, Refreshed, Asks
<1>3. QED BY <1>1, <1>2

LEMMA SendAsks ==
    ASSUME Flags, NEW k, NEW c, Channels!Send(k, c), k = "subscribe" => c \in Channel,
           round' = round, first' = first, pendingRefresh' \in BOOLEAN,
           refreshFailed' = refreshFailed, channelShown' \in BOOLEAN
    PROVE  Refreshed
<1>1. Asks
  BY Zenon DEF Channels!Send, Asks
<1>2. QED BY <1>1 DEF Flags, Refreshed

LEMMA FollowAsks ==
    ASSUME Flags, NEW s, channel' \in Places, Channels!FollowChannel(s)
    PROVE  Refreshed
<1>1. CASE s # NoChannel /\ s # channel'
  <2>1. /\ Channels!Send("unsubscribe", s) /\ round' = round /\ first' = first
        /\ pendingRefresh' = pendingRefresh /\ refreshFailed' = refreshFailed
        /\ channelShown' = channelShown
    BY <1>1 DEF Channels!FollowChannel
  <2>2. QED BY <2>1, SendAsks DEF Flags
<1>2. CASE ~(s # NoChannel /\ s # channel') /\ channel' # NoChannel /\ s # channel'
  <2>1. /\ Channels!Send("subscribe", channel') /\ round' = round /\ first' = first
        /\ pendingRefresh' = pendingRefresh /\ refreshFailed' = refreshFailed
        /\ channelShown' = channelShown
    BY <1>2 DEF Channels!FollowChannel
  <2>2. channel' \in Channel
    BY <1>2 DEF Places
  <2>3. QED BY <2>1, <2>2, SendAsks DEF Flags
<1>3. CASE ~(s # NoChannel /\ s # channel') /\ ~(channel' # NoChannel /\ s # channel')
  BY <1>3, EndRoundAsks DEF Channels!FollowChannel
<1>4. QED BY <1>1, <1>2, <1>3

(* Reading a message and asking for one thing leaves as much in the pipe. *)
LEMMA AsksKeeps ==
    ASSUME CInv, CInv', InPipe, Asks, Len(inbox') + 1 <= Len(inbox)
    PROVE  InPipe'
<1>1. /\ Len(inbox) \in Nat /\ Len(inbox') \in Nat /\ Len(commands) \in Nat
      /\ commands \in Seq(Order) /\ commands' \in Seq(Order)
  BY LenProperties DEF CInv, CTypes
<1>2. CASE commands' = commands
  BY <1>1, <1>2, BoundsAssumption DEF InPipe
<1>3. ASSUME NEW k, NEW c, commands' = Append(commands, Channels!Command(k, c)),
             k = "subscribe" => c \in Channel
      PROVE  InPipe'
  <2> DEFINE m == Channels!Command(k, c)
  <2>1. m.kind = k /\ m.channel = c
    BY DEF Channels!Command
  <2> HIDE DEF m
  <2>2. /\ Len(commands') = Len(commands) + 1
        /\ \A i \in 1..Len(commands) : commands'[i] = commands[i]
        /\ commands'[Len(commands) + 1] = m
    BY <1>1, <1>3 DEF m
  <2>3. \A i \in 1..Len(commands') : i \in 1..Len(commands) \/ i = Len(commands) + 1
    BY <1>1, <2>2
  <2>4. \A i \in 1..Len(commands') :
            commands'[i].kind = "subscribe" => commands'[i].channel \in Channel
    BY <1>3, <2>1, <2>2, <2>3 DEF InPipe
  <2>5. Len(inbox') + Len(commands') <= MaxInbox + 2
    BY <1>1, <2>2, BoundsAssumption DEF InPipe
  <2>6. QED BY <2>4, <2>5 DEF InPipe
<1>4. QED BY <1>2, <1>3 DEF Asks

LEMMA ChannelsNext ==
    ASSUME CInv, CInv', Flags, InPipe, [Channels!Next]_(Channels!vars)
    PROVE  Flags' /\ InPipe'
<1> USE DEF Channels!discord, Channels!pipe, Channels!tracker, Channels!rpc
<1>1. /\ Len(inbox) \in Nat /\ Len(inbox') \in Nat /\ Len(commands) \in Nat
      /\ Len(commands') \in Nat /\ Len(commands) <= 2 /\ Len(commands') <= 2
      /\ commands \in Seq(Order) /\ inbox \in Seq(Message) /\ MaxInbox \in Nat
      /\ channel' \in Places
  <2>1. /\ commands \in Seq(Order) /\ inbox \in Seq(Message)
        /\ commands' \in Seq(Order) /\ inbox' \in Seq(Message) /\ channel' \in Places
    BY DEF CInv, CTypes
  <2>2. Len(commands) \in {0, 1, 2} /\ Len(commands') \in {0, 1, 2}
    BY DEF CInv, Shape
  <2>3. Len(inbox) \in Nat /\ Len(inbox') \in Nat
    BY <2>1
  <2>4. \A n \in {0, 1, 2} : n \in Nat /\ n <= 2
    OBVIOUS
  <2>5. /\ Len(commands) \in Nat /\ Len(commands') \in Nat /\ Len(commands) <= 2
        /\ Len(commands') <= 2
    BY <2>2, <2>4, Zenon
  <2>6. QED BY <2>1, <2>3, <2>5, BoundsAssumption
<1>2. ASSUME inbox # <<>>, inbox' = Tail(inbox) PROVE Len(inbox') + 1 <= Len(inbox)
  BY <1>1, <1>2
<1>3. ASSUME commands' = commands, Len(inbox) < MaxInbox, Len(inbox') <= Len(inbox) + 1
      PROVE  InPipe'
  BY <1>1, <1>3 DEF InPipe
<1>4. ASSUME NEW e PROVE Len(Append(inbox, e)) = Len(inbox) + 1
  BY <1>1
<1>5. ASSUME commands' = <<>>, inbox' = <<>> PROVE InPipe'
  BY <1>1, <1>5 DEF InPipe
<1>6. ASSUME NEW c \in Channel \cup {NoChannel}, Channels!SelectChannel(c)
      PROVE  Flags' /\ InPipe'
  <2>1. /\ commands' = commands /\ Len(inbox) < MaxInbox
        /\ inbox' = inbox \/ \E e : inbox' = Append(inbox, e)
    BY <1>6, Zenon DEF Channels!SelectChannel, Channels!Notify
  <2>2. InPipe'
    BY <1>1, <1>3, <1>4, <2>1
  <2>3. Flags'
    BY <1>6 DEF Channels!SelectChannel, Flags
  <2>4. QED BY <2>2, <2>3
<1>7. CASE Channels!SwitchAccount
  <2>1. /\ commands' = commands /\ Len(inbox) < MaxInbox
        /\ inbox' = inbox \/ \E e : inbox' = Append(inbox, e)
    BY <1>7, Zenon DEF Channels!SwitchAccount, Channels!Notify
  <2>2. InPipe'
    BY <1>1, <1>3, <1>4, <2>1
  <2>3. Flags'
    BY <1>7 DEF Channels!SwitchAccount, Flags
  <2>4. QED BY <2>2, <2>3
<1>8. CASE Channels!Voice
  <2>1. /\ commands' = commands /\ Len(inbox) < MaxInbox
        /\ \E e : inbox' = Append(inbox, e)
    BY <1>8, Zenon DEF Channels!Voice
  <2>2. InPipe'
    BY <1>1, <1>3, <1>4, <2>1
  <2>3. Flags'
    BY <1>8 DEF Channels!Voice, Flags
  <2>4. QED BY <2>2, <2>3
<1>9. CASE Channels!AnswerCommand
  <2> DEFINE h == commands[1]
             effect == Channels!Effect(h.kind, h.channel)
  <2>1. commands # <<>> /\ commands' = Tail(commands) /\ \E e : inbox' = Append(inbox, e)
    BY <1>9, Zenon DEF Channels!AnswerCommand
  <2>2. /\ Len(commands') = Len(commands) - 1 /\ Head(commands) = h /\ 1 \in 1..Len(commands)
        /\ \A i \in 1..Len(commands') : i + 1 \in 1..Len(commands)
                                        /\ commands'[i] = commands[i + 1]
    BY <1>1, <2>1, Behind
  <2>3. Len(inbox') = Len(inbox) + 1
    BY <1>4, <2>1
  <2>4. InPipe'
    BY <1>1, <2>2, <2>3 DEF InPipe
  <2>5. effect \subseteq {"account", "select"} \cup Channel
    <3>1. h.kind = "subscribe" => h.channel \in Channel
      BY <2>2 DEF InPipe
    <3>2. QED BY <3>1 DEF Channels!Effect, Flags
  <2>6. /\ feeds' \in {feeds, effect} /\ missed' \in {missed, missed /\ h.kind # "get"}
        /\ UNCHANGED <<same, first, globalSubscribed, pendingRefresh, accountChanged,
                       refreshFailed, channelShown, round>>
    BY <1>9, <2>2 DEF Channels!AnswerCommand
  <2>7. Flags'
    BY <2>5, <2>6 DEF Flags
  <2>8. QED BY <2>4, <2>7
<1>10. ASSUME Channels!EndSession PROVE /\ InPipe' /\ channelShown' = FALSE
                                        /\ UNCHANGED <<same, missed, feeds, first, round,
                                             globalSubscribed, pendingRefresh, refreshFailed>>
  BY <1>5, <1>10 DEF Channels!EndSession
<1>11. CASE Channels!ReadAnswer
  <2>1. /\ inbox # <<>> /\ inbox' = Tail(inbox) /\ accountChanged' = accountChanged
        /\ same' = same /\ missed' = missed /\ feeds' = feeds
    BY <1>11 DEF Channels!ReadAnswer
  <2>2. Refreshed /\ globalSubscribed' \in BOOLEAN
    <3>1. CASE Channels!Monitored
      <4>1. /\ Channels!Send("get", NoChannel) /\ round' = 2 /\ first' = first
            /\ pendingRefresh' = FALSE /\ refreshFailed' = refreshFailed
            /\ channelShown' = channelShown /\ globalSubscribed' = globalSubscribed
        BY <3>1 DEF Channels!Monitored, Channels!BeginRound
      <4>2. Asks
        BY <4>1, AskFor DEF Channels!Send
      <4>3. 2 \in 0..2
        OBVIOUS
      <4>4. QED BY <4>1, <4>2, <4>3, Zenon DEF Flags, Refreshed
    <3>2. ASSUME NEW c, Channels!GotChannel(c) PROVE Refreshed /\ globalSubscribed' \in BOOLEAN
      <4>1. CASE globalSubscribed
        BY <1>1, <3>2, <4>1, FollowAsks DEF Channels!GotChannel, Flags
      <4>2. CASE ~globalSubscribed
        <5>1. /\ Channels!Send("global", NoChannel) /\ round' = round /\ first' = first
              /\ pendingRefresh' = pendingRefresh /\ refreshFailed' = refreshFailed
              /\ channelShown' = channelShown /\ globalSubscribed' = globalSubscribed
          BY <3>2, <4>2 DEF Channels!GotChannel
        <5>2. QED BY <5>1, SendAsks DEF Flags
      <4>3. QED BY <4>1, <4>2
    <3>3. ASSUME NEW k, Channels!Subscribed(k) PROVE Refreshed /\ globalSubscribed' \in BOOLEAN
      <4>1. globalSubscribed' \in BOOLEAN
        BY <3>3 DEF Channels!Subscribed, Flags
      <4>2. Channels!FollowChannel(channelSubscribed) \/ Channels!FollowChannel(NoChannel)
            \/ Channels!EndRound
        BY <3>3, Zenon DEF Channels!Subscribed
      <4>3. QED BY <1>1, <4>1, <4>2, FollowAsks, EndRoundAsks
    <3>4. CASE Channels!GiveUp /\ UNCHANGED Channels!tracker
      <4>1. /\ commands' = commands /\ round' = 0 /\ first' = FALSE /\ refreshFailed' = TRUE
            /\ channelShown' = (channelShown \/ ~first) /\ pendingRefresh' = pendingRefresh
            /\ globalSubscribed' = globalSubscribed
        BY <3>4 DEF Channels!GiveUp
      <4>2. 0 \in 0..2
        OBVIOUS
      <4>3. (channelShown \/ ~first) \in BOOLEAN
        OBVIOUS
      <4>4. QED BY <4>1, <4>2, <4>3, Zenon DEF Flags, Refreshed, Asks
    <3>5. QED
      BY <1>11, <3>1, <3>2, <3>3, <3>4, Zenon DEF Channels!ReadAnswer
  <2>3. InPipe'
    BY <1>2, <2>1, <2>2, AsksKeeps DEF Refreshed
  <2>4. Flags'
    BY <2>1, <2>2 DEF Refreshed, Flags
  <2>5. QED BY <2>3, <2>4
<1>12. CASE Channels!SkipAnswer \/ Channels!NoteSelection \/ Channels!NoteVoice
  <2>1. inbox # <<>> /\ inbox' = Tail(inbox) /\ commands' = commands
    BY <1>12 DEF Channels!SkipAnswer, Channels!NoteSelection, Channels!NoteVoice
  <2>2. InPipe'
    BY <1>2, <2>1, AsksKeeps DEF Asks
  <2>3. Flags'
    BY <1>12 DEF Channels!SkipAnswer, Channels!NoteSelection, Channels!NoteVoice,
      Channels!Publish, Flags
  <2>4. QED BY <2>2, <2>3
<1>13. CASE Channels!AccountChanged
  <2>1. CASE channelAt = "unsubscribe"
    <3>1. /\ inbox # <<>> /\ inbox' = Tail(inbox) /\ accountChanged' = TRUE
          /\ same' = same /\ missed' = missed /\ feeds' = feeds
          /\ globalSubscribed' = globalSubscribed /\ channel' = channel
      BY <1>13, <2>1 DEF Channels!AccountChanged
    <3>2. Refreshed
      <4>1. CASE channel # NoChannel
        <5>1. /\ Channels!Send("subscribe", channel) /\ channelShown' = FALSE
              /\ round' = round /\ first' = first /\ pendingRefresh' = pendingRefresh
              /\ refreshFailed' = refreshFailed
          BY <1>13, <2>1, <4>1 DEF Channels!AccountChanged
        <5>2. channel \in Channel
          BY <1>1, <3>1, <4>1 DEF Places
        <5>3. QED BY <5>1, <5>2, SendAsks DEF Flags
      <4>2. CASE channel = NoChannel
        BY <1>13, <2>1, <4>2, EndRoundAsks DEF Channels!AccountChanged
      <4>3. QED BY <4>1, <4>2
    <3>3. InPipe'
      BY <1>2, <3>1, <3>2, AsksKeeps DEF Refreshed
    <3>4. Flags'
      BY <3>1, <3>2 DEF Refreshed, Flags
    <3>5. QED BY <3>3, <3>4
  <2>2. CASE channelAt # "unsubscribe"
    <3>1. Channels!EndSession /\ accountChanged' = TRUE
      BY <1>13, <2>2 DEF Channels!AccountChanged
    <3>2. QED BY <1>10, <3>1 DEF Flags
  <2>3. QED BY <2>1, <2>2
<1>14. CASE Channels!Serve
  <2>1. /\ inbox # <<>> /\ inbox' = Tail(inbox) /\ Channels!Send("get", NoChannel)
        /\ pendingRefresh' = FALSE /\ round' = 2
        /\ UNCHANGED <<same, missed, feeds, first, globalSubscribed, accountChanged,
                       refreshFailed, channelShown>>
    BY <1>14 DEF Channels!Serve, Channels!BeginRound
  <2>2. Asks
    BY <2>1, AskFor DEF Channels!Send
  <2>3. InPipe'
    BY <1>2, <2>1, <2>2, AsksKeeps
  <2>4. 2 \in 0..2
    OBVIOUS
  <2>5. QED BY <2>1, <2>3, <2>4, Zenon DEF Flags
<1>15. CASE Channels!Disconnect
  BY <1>10, <1>15 DEF Channels!Disconnect, Flags
<1>16. CASE Channels!Reconnect
  <2>1. Flags'
    <3>1. /\ same' = TRUE /\ feeds' = {} /\ missed' = FALSE /\ first' = TRUE /\ round' = 0
          /\ globalSubscribed' = FALSE /\ pendingRefresh' = FALSE
          /\ accountChanged' = FALSE /\ refreshFailed' = FALSE /\ channelShown' = FALSE
      BY <1>16 DEF Channels!Reconnect, Channels!Start
    <3>2. 0 \in 0..2
      OBVIOUS
    <3>3. QED BY <3>1, <3>2, Zenon DEF Flags
  <2>2. commands' = <<Channels!Command("monitor", NoChannel)>> /\ inbox' = <<>>
    BY <1>16 DEF Channels!Reconnect, Channels!Start
  <2>3. /\ Len(inbox') = 0 /\ Len(commands') = 1
        /\ \A i \in 1..Len(commands') : commands'[i].kind = "monitor"
    BY <2>2 DEF Channels!Command
  <2>4. InPipe'
    BY <1>1, <2>3 DEF InPipe
  <2>5. QED BY <2>1, <2>4
<1>17. CASE UNCHANGED Channels!vars
  BY <1>17 DEF Channels!vars, Flags, InPipe
<1>18. QED
  BY <1>6, <1>7, <1>8, <1>9, <1>11, <1>12, <1>13, <1>14, <1>15, <1>16, <1>17
  DEF Channels!Next

(* The types of DiscordChannel: no more than two commands wait for an answer, *)
(* and the pipe holds no more than the events and their answers.              *)
THEOREM ChannelTypes == Channels!Spec => []Channels!TypeOK
<1>1. Channels!Init => Flags /\ InPipe
  <2> SUFFICES ASSUME Channels!Init PROVE Flags /\ InPipe
    OBVIOUS
  <2>1. Flags
    <3>1. /\ same = TRUE /\ feeds = {} /\ missed = FALSE /\ first = TRUE /\ round = 0
          /\ globalSubscribed = FALSE /\ pendingRefresh = FALSE
          /\ accountChanged = FALSE /\ refreshFailed = FALSE /\ channelShown = FALSE
      BY DEF Channels!Init
    <3>2. 0 \in 0..2
      OBVIOUS
    <3>3. QED BY <3>1, <3>2, Zenon DEF Flags
  <2>2. Len(inbox) = 0 /\ Len(commands) = 0
    BY DEF Channels!Init
  <2>3. QED BY <2>1, <2>2, BoundsAssumption DEF InPipe
<1>2. CInv /\ Flags /\ InPipe => Channels!TypeOK
  <2> SUFFICES ASSUME CInv, Flags, InPipe PROVE Channels!TypeOK
    OBVIOUS
  <2>1. Len(inbox) \in Nat /\ Len(commands) \in Nat /\ Len(commands) <= 2
    <3>1. commands \in Seq(Order) /\ inbox \in Seq(Message)
      BY DEF CInv, CTypes
    <3>2. Len(commands) \in {0, 1, 2}
      BY DEF CInv, Shape
    <3>3. Len(commands) \in Nat /\ Len(commands) <= 2
      BY <3>2
    <3>4. QED BY <3>1, <3>3
  <2>2. Len(inbox) <= MaxInbox + 2
    BY <2>1, BoundsAssumption DEF InPipe
  <2>3. /\ selectedChannel \in Channel \cup {NoChannel} /\ channel \in Channel \cup {NoChannel}
        /\ channelSubscribed \in Channel \cup {NoChannel}
        /\ channelAt \in Channels!Waiting \cup {"serve", "ended"}
    BY DEF CInv, CTypes, Places
  <2>4. QED BY <2>1, <2>2, <2>3, Zenon DEF Flags, Channels!TypeOK
<1>3. CInv /\ Flags /\ InPipe /\ [Channels!Next]_(Channels!vars) => (CInv /\ Flags /\ InPipe)'
  BY CInvNext, ChannelsNext
<1>4. QED
  BY <1>1, <1>2, <1>3, CInvInit, PTL DEF Channels!Spec

----------------------------------------------------------------------------
(* NetworkProbe. Whenever a generation is taken up nothing of another is      *)
(* left, so that all trials are of the generation that was sent last.         *)

NInv ==
    /\ generation \in Nat /\ policy \in Nat /\ probing \in Nat
    /\ sent = probing /\ probing <= generation
    /\ trials \in Seq([ok : BOOLEAN, under : Nat])
    /\ \A i \in DOMAIN trials : trials[i].under = probing
    /\ probing = generation => Len(trials) <= policy
    /\ ~available => \A r \in DOMAIN readings : readings[r] # "current"

LEMMA Cleared ==
    ASSUME generation \in Nat, policy \in Nat,
           UNCHANGED <<generation, policy>>, probing' = generation, sent' = generation,
           Network!ClearState
    PROVE  NInv'
<1>1. trials' \in Seq([ok : BOOLEAN, under : Nat]) /\ Len(trials') = 0
  BY EmptySeq DEF Network!ClearState
<1>2. DOMAIN trials' = {}
  BY DEF Network!ClearState
<1>3. \A r \in DOMAIN readings' : readings'[r] # "current"
  BY DEF Network!ClearState, Network!Clear
<1>4. QED BY <1>1, <1>2, <1>3 DEF NInv

(* A trial is added, and the oldest leaves when the window is full. *)
LEMMA Tried ==
    ASSUME NInv, generation = probing, NEW ok \in BOOLEAN, Network!Apply(ok),
           UNCHANGED <<generation, policy, probing>>, sent' = probing
    PROVE  NInv'
<1> DEFINE T == [ok : BOOLEAN, under : Nat]
           new == [ok |-> ok, under |-> probing]
           all == Append(trials, new)
<1> USE DEF NInv
<1>1. new \in T
  OBVIOUS
<1>2. /\ all \in Seq(T) /\ Len(all) = Len(trials) + 1
      /\ \A i \in 1..Len(trials) : all[i] = trials[i]
      /\ all[Len(trials) + 1] = new
  BY <1>1, AppendProperties
<1>3. Len(trials) \in Nat /\ DOMAIN trials = 1..Len(trials)
  BY LenProperties
<1>4. \A i \in 1..Len(all) : all[i].under = probing
  BY <1>2, <1>3
<1>5. trials' = IF Len(all) > policy THEN Tail(all) ELSE all
  BY DEF Network!Apply
<1>6. available' = TRUE
  BY DEF Network!Apply
<1> HIDE DEF all, new
<1>7. CASE trials' = all /\ ~(Len(all) > policy)
  <2>1. DOMAIN trials' = 1..Len(all)
    BY <1>2, <1>7, LenProperties
  <2>2. QED BY <1>2, <1>3, <1>4, <1>6, <1>7, <2>1
<1>8. CASE trials' = Tail(all)
  <2>1. all # <<>>
    BY <1>2, <1>3
  <2>2. /\ Tail(all) \in Seq(T) /\ Len(Tail(all)) = Len(all) - 1
        /\ \A i \in 1..Len(Tail(all)) : Tail(all)[i] = all[i + 1]
    BY <1>2, <2>1, HeadTailProperties
  <2>3. DOMAIN Tail(all) = 1..Len(Tail(all))
    BY <2>2, LenProperties
  <2>4. \A i \in DOMAIN trials' : trials'[i].under = probing
    <3>1. SUFFICES ASSUME NEW i \in 1..Len(Tail(all)) PROVE Tail(all)[i].under = probing
      BY <1>8, <2>3
    <3>2. i \in Int /\ i + 1 \in 1..Len(all)
      BY <1>2, <1>3, <2>2
    <3>3. Tail(all)[i] = all[i + 1]
      BY <2>2
    <3>4. QED BY <1>4, <3>2, <3>3
  <2>5. QED BY <1>2, <1>3, <1>6, <1>8, <2>2, <2>4
<1>9. QED BY <1>5, <1>7, <1>8

LEMMA NInvInit == Network!Init => NInv
<1> SUFFICES ASSUME Network!Init PROVE NInv
  OBVIOUS
<1>1. trials \in Seq([ok : BOOLEAN, under : Nat]) /\ Len(trials) = 0 /\ DOMAIN trials = {}
  BY EmptySeq DEF Network!Init
<1>2. \A r \in DOMAIN readings : readings[r] # "current"
  BY DEF Network!Init, Network!Clear
<1>3. QED BY <1>1, <1>2, NetworkAssumption DEF Network!Init, NInv

LEMMA NInvNext ==
    ASSUME NInv, [Network!Next]_(Network!vars)
    PROVE  NInv'
<1> USE DEF Network!settings, Network!state
<1>1. CASE Network!NewGeneration
  <2>1. Network!ClearState /\ sent' = generation
    BY <1>1 DEF Network!NewGeneration, Network!Turn
  <2>2. QED BY <1>1, <2>1, Cleared DEF Network!NewGeneration, NInv
<1>2. CASE Network!SameGeneration
  <2>1. /\ UNCHANGED <<generation, policy, probing>> /\ generation = probing
        /\ \/ UNCHANGED <<trials, readings, available, sent>>
           \/ Network!ClearState /\ sent' = generation
    BY <1>2 DEF Network!SameGeneration, Network!Turn
  <2>2. CASE UNCHANGED <<trials, readings, available, sent>>
    BY <2>1, <2>2 DEF NInv
  <2>3. CASE Network!ClearState /\ sent' = generation
    BY <2>1, <2>3, Cleared DEF NInv
  <2>4. QED BY <2>1, <2>2, <2>3
<1>3. CASE Network!Recheck
  BY <1>3, Cleared DEF Network!Recheck, NInv
<1>4. CASE Network!Probe
  <2>1. /\ UNCHANGED <<generation, policy, probing>> /\ generation = probing
        /\ sent' = probing
    BY <1>4 DEF Network!Probe
  <2>2. ASSUME NEW ok \in BOOLEAN, Network!Apply(ok) PROVE NInv'
    BY <2>1, <2>2, Tried
  <2>3. CASE Network!ApplyError
    BY <2>1, <2>3 DEF Network!ApplyError, Network!Stale, NInv
  <2>4. QED BY <1>4, <2>2, <2>3 DEF Network!Probe
<1>5. CASE Network!Ended \/ Network!Shutdown \/ UNCHANGED Network!vars
  <2>1. UNCHANGED <<generation, policy, probing, trials, readings, available, sent>>
    BY <1>5 DEF Network!Ended, Network!Shutdown, Network!vars
  <2>2. QED BY <2>1 DEF NInv
<1>6. CASE Network!UpdateConfig
  BY <1>6, NetworkAssumption DEF Network!UpdateConfig, NInv
<1>7. QED
  BY <1>1, <1>2, <1>3, <1>4, <1>5, <1>6 DEF Network!Next

LEMMA OwnTrials == Network!Spec => []Network!OwnTrials
<1>1. NInv => Network!OwnTrials
  BY DEF NInv, Network!OwnTrials
<1>2. QED
  BY <1>1, NInvInit, NInvNext, PTL DEF Network!Spec

(* The types of NetworkProbe. *)
Shown == {"none", "current", "stale"}
Measured == [{"ping", "jitter", "loss"} -> Shown]
Trial(n) == [ok : BOOLEAN, under : 1..n]

NTypes ==
    /\ generation \in 1..MaxGeneration /\ policy \in Window
    /\ networkShutdown \in BOOLEAN /\ available \in BOOLEAN /\ off \in BOOLEAN
    /\ probeAt \in {"loop", "probe", "ended"}
    /\ probing \in Nat
    /\ probeAt = "probe" => probing >= 1
    /\ trials \in Seq(Trial(MaxGeneration))
    /\ readings \in Measured

LEMMA ThreeReadings ==
    ASSUME NEW p \in Shown, NEW j \in Shown, NEW l \in Shown
    PROVE  [ping |-> p, jitter |-> j, loss |-> l] \in Measured
<1> DEFINE r == [ping |-> p, jitter |-> j, loss |-> l]
<1>1. DOMAIN r = {"ping", "jitter", "loss"}
  OBVIOUS
<1>2. r["ping"] = p /\ r["jitter"] = j /\ r["loss"] = l
  OBVIOUS
<1>3. r = [i \in {"ping", "jitter", "loss"} |-> r[i]]
  OBVIOUS
<1>4. QED BY <1>1, <1>2, <1>3 DEF Measured

LEMMA ClearTypes ==
    ASSUME Network!ClearState
    PROVE  trials' \in Seq(Trial(MaxGeneration)) /\ available' \in BOOLEAN
           /\ readings' \in Measured
<1>1. "none" \in Shown
  BY DEF Shown
<1>2. Network!Clear \in Measured
  BY <1>1, ThreeReadings, Zenon DEF Network!Clear
<1>3. <<>> \in Seq(Trial(MaxGeneration))
  BY EmptySeq
<1>4. QED BY <1>2, <1>3, Zenon DEF Network!ClearState

LEMMA ApplyTypes ==
    ASSUME NTypes, probeAt = "probe", probing = generation,
           NEW ok \in BOOLEAN, Network!Apply(ok)
    PROVE  trials' \in Seq(Trial(MaxGeneration)) /\ available' \in BOOLEAN
           /\ readings' \in Measured
<1> DEFINE one == [ok |-> ok, under |-> probing]
           T == Trial(MaxGeneration)
<1>1. one \in T /\ trials \in Seq(T)
  BY DEF NTypes, Trial
<1>2. PICK b \in BOOLEAN :
         readings' = [ping |-> Network!Fresh(ok), loss |-> "current",
                      jitter |-> Network!Fresh(b)]
  <2>1. \A n : (n > 1) \in BOOLEAN
    OBVIOUS
  <2>2. QED BY <2>1, Zenon DEF Network!Apply
<1>3. trials' \in {Append(trials, one), Tail(Append(trials, one))} /\ available' = TRUE
  BY Zenon DEF Network!Apply
<1> HIDE DEF one, T
<1>4. Append(trials, one) \in Seq(T) /\ Append(trials, one) # <<>>
  BY <1>1, AppendProperties
<1>5. Tail(Append(trials, one)) \in Seq(T)
  BY <1>4
<1>6. /\ Network!Fresh(ok) \in Shown /\ Network!Fresh(b) \in Shown /\ "current" \in Shown
      /\ readings' = [ping |-> Network!Fresh(ok), jitter |-> Network!Fresh(b),
                      loss |-> "current"]
  BY <1>2 DEF Network!Fresh, Shown
<1>7. readings' \in Measured
  BY <1>6, ThreeReadings
<1>8. QED BY <1>3, <1>4, <1>5, <1>7 DEF T

LEMMA NTypesNext ==
    ASSUME NTypes, NInv, [Network!Next]_(Network!vars)
    PROVE  NTypes'
<1> USE DEF Network!settings, Network!state
<1>1. CASE Network!NewGeneration \/ Network!SameGeneration \/ Network!Recheck
  <2>1. /\ generation' = generation /\ policy' = policy /\ networkShutdown' = networkShutdown
        /\ probing' = generation /\ probeAt' \in {"loop", "probe"} /\ off' \in BOOLEAN
    BY <1>1 DEF Network!NewGeneration, Network!SameGeneration, Network!Recheck, Network!Turn,
      NTypes
  <2>2. trials' \in Seq(Trial(MaxGeneration)) /\ available' \in BOOLEAN
        /\ readings' \in Measured
    <3>1. CASE Network!ClearState
      BY <3>1, ClearTypes
    <3>2. CASE trials' = trials /\ available' = available /\ readings' = readings
      BY <3>2 DEF NTypes
    <3>3. QED
      BY <1>1, <3>1, <3>2 DEF Network!NewGeneration, Network!SameGeneration, Network!Recheck,
        Network!Turn
  <2>3. generation \in Nat /\ generation >= 1
    BY BoundsAssumption DEF NTypes
  <2>4. QED BY <2>1, <2>2, <2>3 DEF NTypes
<1>2. CASE Network!Probe
  <2>1. /\ generation' = generation /\ policy' = policy /\ networkShutdown' = networkShutdown
        /\ probing' = probing /\ probeAt' = "loop" /\ off' = off /\ generation = probing
        /\ probeAt = "probe"
        /\ (\E ok \in BOOLEAN : Network!Apply(ok)) \/ Network!ApplyError
    BY <1>2, Zenon DEF Network!Probe
  <2>2. CASE Network!ApplyError
    <3>1. trials' = trials /\ available' = FALSE
          /\ readings' = [r \in DOMAIN readings |-> Network!Stale(readings[r])]
      BY <2>2 DEF Network!ApplyError
    <3>2. DOMAIN readings = {"ping", "jitter", "loss"}
      BY DEF NTypes, Measured
    <3>3. \A r \in DOMAIN readings : Network!Stale(readings[r]) \in Shown
      BY DEF Network!Stale, Shown
    <3>4. readings' \in Measured
      BY <3>1, <3>2, <3>3 DEF Measured
    <3>5. QED BY <2>1, <3>1, <3>4 DEF NTypes
  <2>3. CASE \E ok \in BOOLEAN : Network!Apply(ok)
    <3>1. trials' \in Seq(Trial(MaxGeneration)) /\ available' \in BOOLEAN
          /\ readings' \in Measured
      BY <2>1, <2>3, ApplyTypes
    <3>2. QED BY <2>1, <3>1 DEF NTypes
  <2>4. QED BY <2>1, <2>2, <2>3
<1>3. CASE Network!UpdateConfig
  <2>1. generation' \in 1..MaxGeneration
    BY <1>3, BoundsAssumption DEF Network!UpdateConfig, NTypes
  <2>2. QED BY <1>3, <2>1 DEF Network!UpdateConfig, NTypes
<1>4. CASE Network!Ended \/ Network!Shutdown \/ UNCHANGED Network!vars
  BY <1>4 DEF Network!Ended, Network!Shutdown, Network!vars, NTypes
<1>5. QED
  BY <1>1, <1>2, <1>3, <1>4 DEF Network!Next

LEMMA NTypesInit == Network!Init => NTypes
<1> SUFFICES ASSUME Network!Init PROVE NTypes
  OBVIOUS
<1>1. Network!Clear \in Measured
  BY ThreeReadings, Zenon DEF Network!Clear, Shown
<1>2. 1 \in 1..MaxGeneration
  BY BoundsAssumption
<1>3. <<>> \in Seq(Trial(MaxGeneration))
  BY EmptySeq
<1> HIDE DEF Network!Clear
<1>4. QED BY <1>1, <1>2, <1>3 DEF Network!Init, NTypes

(* The types of NetworkProbe. A trial is not newer than the settings.         *)
THEOREM NetworkTypes == Network!Spec => []Network!TypeOK
<1>1. NTypes /\ NInv => Network!TypeOK
  <2> SUFFICES ASSUME NTypes, NInv PROVE Network!TypeOK
    OBVIOUS
  <2>1. probing \in 0..generation /\ sent \in 0..generation
    BY DEF NInv
  <2>2. trials \in Seq(Trial(MaxGeneration)) /\ generation \in Nat
        /\ DOMAIN trials = 1..Len(trials) /\ Len(trials) \in Nat
    BY BoundsAssumption DEF NTypes
  <2>3. ASSUME NEW i \in 1..Len(trials) PROVE trials[i] \in Trial(generation)
    <3>1. /\ trials[i] \in Trial(MaxGeneration)
          /\ trials[i].under = probing
      BY <2>2 DEF NInv
    <3>2. trials[i].under \in 1..generation
      BY <2>1, <2>2, <3>1, BoundsAssumption DEF Trial
    <3>3. QED BY <3>1, <3>2 DEF Trial
  <2>4. trials \in Seq(Trial(generation))
    <3> HIDE DEF Trial
    <3>1. QED BY <2>2, <2>3
  <2>5. QED BY <2>1, <2>4 DEF NTypes, Trial, Measured, Shown, Network!TypeOK
<1>2. QED
  BY <1>1, NTypesInit, NTypesNext, NInvInit, NInvNext, PTL DEF Network!Spec

----------------------------------------------------------------------------
(* Coordinator. The settings of a generation do not change, so that what was  *)
(* asked for under one was enabled in it; and what is merged is of the        *)
(* generation that is merged.                                                 *)

Generations == 1..Len(settings)

Answer == [of : Slow, under : Nat, result : {"value", "nothing", "error"}]

Asked ==
    /\ settings \in Seq(Merging!Settings) /\ Len(settings) > 0
    /\ questions \in [Slow -> Nat]
    /\ \A s \in Slow : questions[s] # 0 =>
          questions[s] \in Generations /\ Merging!Enabled(questions[s], s)

Answered ==
    /\ slowQueue \in Seq(Answer)
    /\ \A i \in 1..Len(slowQueue) :
          /\ slowQueue[i].under \in Generations
          /\ Merging!Enabled(slowQueue[i].under, slowQueue[i].of)

Has(s) == merging[s] # "none" => mergedFrom[s] = merged /\ Merging!Enabled(merged, s)

Merged ==
    /\ tick \in Generations /\ merged \in Generations
    /\ mergeAt = "drain" => merged = tick
    /\ DOMAIN merging = Merging!Source /\ DOMAIN mergedFrom = Merging!Source
    /\ \A s \in Merging!Source : Has(s)

MInv == Asked /\ Answered /\ Merged

Published ==
    mergeAt = "drain" /\ mergeAt' = "rest" =>
        \A s \in Merging!Source : merging'[s] # "none" =>
            /\ mergedFrom'[s] = tick /\ Merging!Enabled(tick, s)
            /\ s \in Slow => merging'[Merging!Preferred(merging')] # "none"
            /\ s \in Slow /\ merging'[s] = "current" =>
                  merging'[Merging!Preferred(merging')] = "current"

LEMMA MInvInit == Merging!Init => MInv
<1> SUFFICES ASSUME Merging!Init PROVE MInv
  OBVIOUS
<1>1. PICK s \in Merging!Settings : settings = <<s>>
  BY DEF Merging!Init
<1>2. settings \in Seq(Merging!Settings) /\ Len(settings) = 1
  BY <1>1
<1>3. slowQueue \in Seq(Answer) /\ Len(slowQueue) = 0
  BY EmptySeq DEF Merging!Init
<1>4. Asked
  BY <1>2 DEF Merging!Init, Asked
<1>5. Answered
  BY <1>3 DEF Answered
<1>6. Merged
  BY <1>2 DEF Merging!Init, Merging!NoReadings, Merged, Has, Generations
<1>7. QED BY <1>4, <1>5, <1>6 DEF MInv

(* A choice among the readings that are best. *)
LEMMA PreferredBest ==
    ASSUME NEW found, found \in [Merging!Source -> {"none", "current", "stale"}],
           NEW s \in Slow, found[s] # "none"
    PROVE  /\ found[Merging!Preferred(found)] # "none"
           /\ found[s] = "current" => found[Merging!Preferred(found)] = "current"
<1> DEFINE those(r) == {x \in Slow : found[x] = r}
           best == IF those("current") # {} THEN those("current") ELSE those("stale")
<1>1. s \in Merging!Source
  BY DEF Merging!Source
<1>2. s \in those("current") \/ s \in those("stale")
  BY <1>1
<1>3. best # {}
  BY <1>2
<1>4. /\ \A x \in best : found[x] # "none"
      /\ found[s] = "current" => \A x \in best : found[x] = "current"
  BY <1>2
<1>5. Merging!Preferred(found) = IF First \in best THEN First ELSE CHOOSE x \in best : TRUE
  BY DEF Merging!Preferred
<1> HIDE DEF best
<1>6. Merging!Preferred(found) \in best
  BY <1>3, <1>5
<1>7. QED BY <1>4, <1>6

LEMMA SourceParts ==
    ASSUME NEW s \in Slow
    PROVE  s \in Merging!Source
BY DEF Merging!Source

LEMMA TickKeeps ==
    ASSUME MInv, Merging!Request \/ Merging!ApplySlowEvent
    PROVE  MInv'
<1> USE DEF Merging!worker
<1>1. CASE Merging!Request
  <2>1. Asked' /\ Answered'
    BY <1>1 DEF MInv, Merging!Request, Asked, Answered, Generations, Merging!Enabled
  <2>2. tick' = Len(settings) /\ mergeAt' = "drain" /\ tick' \in Generations
    BY <1>1, LenProperties DEF MInv, Asked, Merging!Request, Merging!generation, Generations
  <2>3. CASE tick' # merged
    <3>1. /\ merged' = tick' /\ DOMAIN merging' = Merging!Source
          /\ DOMAIN mergedFrom' = Merging!Source
          /\ \A s \in Merging!Source : merging'[s] = "none"
      BY <1>1, <2>3 DEF Merging!Request, Merging!ResetState, Merging!NoReadings
    <3>2. QED
      BY <1>1, <2>1, <2>2, <3>1 DEF MInv, Merged, Has, Merging!Request, Generations
  <2>4. CASE tick' = merged
    <3>1. UNCHANGED <<settings, merged, merging, mergedFrom>>
      BY <1>1, <2>4 DEF Merging!Request
    <3>2. QED
      BY <2>1, <2>2, <2>4, <3>1 DEF MInv, Merged, Has, Merging!Enabled, Generations
  <2>5. QED BY <2>3, <2>4
<1>2. CASE Merging!ApplySlowEvent
  <2>1. /\ slowQueue # <<>> /\ slowQueue' = Tail(slowQueue) /\ mergeAt = "drain"
        /\ UNCHANGED <<settings, questions, mergeAt, tick, merged, safe>>
    BY <1>2 DEF Merging!ApplySlowEvent
  <2>2. Asked'
    BY <2>1 DEF MInv, Asked, Generations, Merging!Enabled
  <2>3. /\ Tail(slowQueue) \in Seq(Answer) /\ Len(Tail(slowQueue)) = Len(slowQueue) - 1
        /\ \A i \in 1..Len(Tail(slowQueue)) : Tail(slowQueue)[i] = slowQueue[i + 1]
        /\ Head(slowQueue) = slowQueue[1] /\ Len(slowQueue) \in Nat /\ Len(slowQueue) > 0
    BY <2>1, HeadTailProperties, LenProperties, EmptySeq DEF MInv, Answered
  <2>4. Answered'
    <3>1. SUFFICES ASSUME NEW i \in 1..Len(Tail(slowQueue))
          PROVE  /\ slowQueue'[i].under \in Generations
                 /\ Merging!Enabled(slowQueue'[i].under, slowQueue'[i].of)
      BY <2>1, <2>3 DEF Answered, Generations, Merging!Enabled
    <3>2. i \in Int /\ i + 1 \in 1..Len(slowQueue) /\ slowQueue'[i] = slowQueue[i + 1]
      BY <2>1, <2>3
    <3>3. QED
      BY <3>2 DEF MInv, Answered
  <2>5. 1 \in 1..Len(slowQueue) /\ Head(slowQueue) \in Answer
    BY <2>3, ElementOfSeq DEF MInv, Answered
  <2> DEFINE s == Head(slowQueue).of
             r == Head(slowQueue).result
  <2>6. s \in Slow /\ s \in Merging!Source /\ r \in {"value", "nothing", "error"}
    BY <2>5, SourceParts DEF Answer
  <2>7. CASE UNCHANGED <<merging, mergedFrom>>
    <3>1. Merged'
      BY <2>1, <2>7 DEF MInv, Merged, Has, Generations, Merging!Enabled
    <3>2. QED BY <2>2, <2>4, <3>1 DEF MInv
  <2>8. CASE /\ Head(slowQueue).under = tick
             /\ Merging!Apply(s, Head(slowQueue).under, r) /\ r # "error"
    <3>1. /\ merging' = [merging EXCEPT ![s] = IF r = "value" THEN "new" ELSE "none"]
          /\ mergedFrom' = [mergedFrom EXCEPT ![s] =
                              IF r = "value" THEN Head(slowQueue).under ELSE 0]
      BY <2>8 DEF Merging!Apply
    <3>2. Head(slowQueue).under = merged /\ Merging!Enabled(merged, s)
      BY <2>1, <2>3, <2>5, <2>8 DEF MInv, Merged, Answered
    <3>3. ASSUME NEW x \in Merging!Source PROVE Has(x)'
      <4>1. CASE x = s /\ r = "value"
        BY <2>1, <2>6, <3>1, <3>2, <4>1 DEF Has, MInv, Merged, Merging!Enabled
      <4>2. CASE x = s /\ r # "value"
        BY <2>6, <3>1, <4>2 DEF Has, MInv, Merged
      <4>3. CASE x # s
        BY <2>1, <2>6, <3>1, <4>3 DEF Has, MInv, Merged, Merging!Enabled
      <4>4. QED BY <4>1, <4>2, <4>3
    <3>4. Merged'
      BY <2>1, <3>1, <3>3 DEF MInv, Merged, Generations
    <3>5. QED BY <2>2, <2>4, <3>4 DEF MInv
  <2>9. QED
    BY <1>2, <2>7, <2>8 DEF Merging!ApplySlowEvent, Merging!Apply
<1>3. QED BY <1>1, <1>2

(* What the sources of the tick add is of this generation, and what is judged *)
(* is of an enabled source. *)
LEMMA FinishKeeps ==
    ASSUME MInv, Merging!Finish
    PROVE  MInv' /\ Published
<1>1. /\ mergeAt = "drain" /\ mergeAt' = "rest" /\ merged = tick
      /\ UNCHANGED <<settings, questions, slowQueue, tick, merged>>
  BY DEF Merging!Finish, MInv, Merged
<1>2. PICK polled \in [Merging!Source -> {"none", "new", "current", "stale"}] :
          /\ \A s \in Merging!Source : polled[s] \in Merging!Polled(s)
          /\ merging' \in [Merging!Source -> {"none", "current", "stale"}]
          /\ \A s \in Merging!Source : merging'[s] \in Merging!Judged(s, polled[s])
          /\ mergedFrom' = [s \in Merging!Source |->
                 IF polled[s] = "none" THEN 0
                 ELSE IF polled[s] = "new" /\ s \notin Slow THEN tick ELSE mergedFrom[s]]
  BY DEF Merging!Finish
<1>3. ASSUME NEW s \in Merging!Source, merging'[s] # "none"
      PROVE  mergedFrom'[s] = tick /\ Merging!Enabled(tick, s)
  <2>1. polled[s] # "none" /\ Merging!Enabled(tick, s)
    BY <1>2, <1>3 DEF Merging!Judged
  <2>2. CASE polled[s] = "new" /\ s \notin Slow
    BY <1>2, <2>1, <2>2
  <2>3. CASE ~(polled[s] = "new" /\ s \notin Slow)
    <3>1. polled[s] = merging[s]
      BY <1>2, <2>1, <2>3 DEF Merging!Polled
    <3>2. mergedFrom'[s] = mergedFrom[s]
      BY <1>2, <2>1, <2>3
    <3>3. QED BY <1>1, <2>1, <3>1, <3>2 DEF MInv, Merged, Has
  <2>4. QED BY <2>2, <2>3
<1>4. Asked' /\ Answered'
  BY <1>1 DEF MInv, Asked, Answered, Generations, Merging!Enabled
<1>5. \A s \in Merging!Source : Has(s)'
  BY <1>1, <1>3 DEF Has, Merging!Enabled
<1>6. Merged'
  BY <1>1, <1>2, <1>5 DEF MInv, Merged, Generations
<1>7. \A s \in Slow : merging'[s] # "none" =>
        /\ merging'[Merging!Preferred(merging')] # "none"
        /\ merging'[s] = "current" => merging'[Merging!Preferred(merging')] = "current"
  BY <1>2, PreferredBest
<1>8. QED BY <1>3, <1>4, <1>6, <1>7 DEF MInv, Published

(* In safe mode there is nothing. *)
LEMMA FinishSafeKeeps ==
    ASSUME MInv, Merging!FinishSafe
    PROVE  MInv' /\ Published
<1>1. /\ mergeAt = "drain" /\ mergeAt' = "rest" /\ merged = tick /\ settings[tick].safe
      /\ UNCHANGED <<settings, questions, slowQueue, tick>>
      /\ UNCHANGED <<merged, merging, mergedFrom>> \/ Merging!ResetState
  BY DEF Merging!FinishSafe, MInv, Merged
<1>2. /\ merged' = merged
      /\ DOMAIN merging' = Merging!Source /\ DOMAIN mergedFrom' = Merging!Source
      /\ \A s \in Merging!Source : merging'[s] = "none"
  <2>1. CASE UNCHANGED <<merged, merging, mergedFrom>>
    BY <1>1, <2>1 DEF MInv, Merged, Has, Merging!Enabled
  <2>2. CASE Merging!ResetState
    BY <1>1, <2>2 DEF Merging!ResetState, Merging!NoReadings
  <2>3. QED BY <1>1, <2>1, <2>2
<1>3. Asked' /\ Answered'
  BY <1>1 DEF MInv, Asked, Answered, Generations, Merging!Enabled
<1>4. Merged'
  BY <1>1, <1>2 DEF MInv, Merged, Has, Generations
<1>5. QED BY <1>2, <1>3, <1>4 DEF MInv, Published

(* Questions, and new settings behind the old ones. *)
LEMMA QuestionsKeep ==
    ASSUME MInv,
           \/ \E s \in Slow : Merging!Ask(s) \/ Merging!Answer(s)
           \/ Merging!UpdateConfig
    PROVE  MInv' /\ mergeAt' = mergeAt
<1> USE DEF Merging!worker
<1>1. ASSUME NEW s \in Slow, Merging!Ask(s) PROVE MInv' /\ mergeAt' = mergeAt
  <2>1. /\ UNCHANGED <<settings, slowQueue, mergeAt, tick, merged, merging, mergedFrom>>
        /\ questions' = [questions EXCEPT ![s] = Len(settings)]
        /\ Merging!Enabled(Len(settings), s)
    BY <1>1 DEF Merging!Ask, Merging!generation
  <2>2. Answered' /\ Merged'
    BY <2>1 DEF MInv, Answered, Merged, Has, Generations, Merging!Enabled
  <2>3. Len(settings) \in Generations /\ Len(settings) \in Nat
    BY LenProperties DEF MInv, Asked, Generations
  <2>4. Asked'
    BY <2>1, <2>3 DEF MInv, Asked, Generations, Merging!Enabled
  <2>5. QED BY <2>1, <2>2, <2>4 DEF MInv
<1>2. ASSUME NEW s \in Slow, Merging!Answer(s) PROVE MInv' /\ mergeAt' = mergeAt
  <2>1. /\ UNCHANGED <<settings, mergeAt, tick, merged, merging, mergedFrom>>
        /\ questions[s] # 0 /\ questions' = [questions EXCEPT ![s] = 0]
    BY <1>2 DEF Merging!Answer
  <2>2. Asked' /\ Merged'
    BY <2>1 DEF MInv, Asked, Merged, Has, Generations, Merging!Enabled
  <2>3. CASE UNCHANGED slowQueue
    BY <2>1, <2>2, <2>3 DEF MInv, Answered, Generations, Merging!Enabled
  <2>4. ASSUME NEW result \in {"value", "nothing", "error"},
               slowQueue' = Append(slowQueue, [of |-> s, under |-> questions[s],
                                               result |-> result])
        PROVE  Answered'
    <3> DEFINE new == [of |-> s, under |-> questions[s], result |-> result]
    <3>1. new \in Answer /\ new.of = s /\ new.under = questions[s]
      BY DEF Answer, MInv, Asked
    <3>2. questions[s] \in Generations /\ Merging!Enabled(questions[s], s)
      BY <2>1 DEF MInv, Asked
    <3> HIDE DEF new
    <3>3. slowQueue' = Append(slowQueue, new)
      BY <2>4 DEF new
    <3>4. /\ slowQueue' \in Seq(Answer) /\ Len(slowQueue') = Len(slowQueue) + 1
          /\ \A i \in 1..Len(slowQueue) : slowQueue'[i] = slowQueue[i]
          /\ slowQueue'[Len(slowQueue) + 1] = new
      BY <3>1, <3>3, AppendProperties DEF MInv, Answered
    <3>5. Len(slowQueue) \in Nat
      BY LenProperties DEF MInv, Answered
    <3>6. ASSUME NEW i \in 1..Len(slowQueue')
          PROVE  /\ slowQueue'[i].under \in Generations
                 /\ Merging!Enabled(slowQueue'[i].under, slowQueue'[i].of)
      <4>1. CASE i = Len(slowQueue) + 1
        BY <3>1, <3>2, <3>4, <4>1
      <4>2. CASE i # Len(slowQueue) + 1
        <5>1. i \in 1..Len(slowQueue)
          BY <3>4, <3>5, <4>2
        <5>2. QED BY <3>4, <5>1 DEF MInv, Answered
      <4>3. QED BY <4>1, <4>2
    <3>7. QED BY <2>1, <3>4, <3>6 DEF Answered, Generations, Merging!Enabled
  <2>5. QED BY <1>2, <2>1, <2>2, <2>3, <2>4 DEF Merging!Answer, MInv
<1>3. CASE Merging!UpdateConfig
  <2>1. PICK s \in Merging!Settings : settings' = Append(settings, s)
    BY <1>3 DEF Merging!UpdateConfig
  <2>2. UNCHANGED <<questions, slowQueue, mergeAt, tick, merged, merging, mergedFrom>>
    BY <1>3 DEF Merging!UpdateConfig
  <2>3. /\ settings' \in Seq(Merging!Settings) /\ Len(settings') = Len(settings) + 1
        /\ \A g \in Generations : settings'[g] = settings[g]
        /\ Len(settings) \in Nat
    BY <2>1, AppendProperties, LenProperties DEF MInv, Asked, Generations
  <2>4. \A g \in Generations : g \in Generations'
    BY <2>3 DEF Generations
  <2>5. \A x : \A g \in Generations : Merging!Enabled(g, x) =>
           ~settings'[g].safe /\ x \in settings'[g].on \cup Kept \cup Dropped
    BY <2>3 DEF Merging!Enabled
  <2>6. Asked'
    BY <2>2, <2>3, <2>4, <2>5 DEF MInv, Asked, Merging!Enabled
  <2>7. Answered'
    BY <2>2, <2>4, <2>5 DEF MInv, Answered, Merging!Enabled
  <2>8. Merged'
    BY <2>2, <2>4, <2>5 DEF MInv, Merged, Has, Merging!Enabled
  <2>9. QED BY <2>2, <2>6, <2>7, <2>8 DEF MInv
<1>4. QED BY <1>1, <1>2, <1>3

LEMMA MInvNext ==
    ASSUME MInv, [Merging!Next]_(Merging!vars)
    PROVE  MInv' /\ Published
<1>1. CASE Merging!Request \/ Merging!ApplySlowEvent
  <2>1. ~(mergeAt = "drain" /\ mergeAt' = "rest")
    BY <1>1 DEF Merging!Request, Merging!ApplySlowEvent
  <2>2. QED BY <1>1, <2>1, TickKeeps DEF Published
<1>2. CASE Merging!Finish
  BY <1>2, FinishKeeps
<1>3. CASE Merging!FinishSafe
  BY <1>3, FinishSafeKeeps
<1>4. CASE Merging!UpdateConfig \/ \E s \in Slow : Merging!Ask(s) \/ Merging!Answer(s)
  <2>1. MInv' /\ mergeAt' = mergeAt
    BY <1>4, QuestionsKeep
  <2>2. ~(mergeAt = "drain" /\ mergeAt' = "rest")
    BY <2>1
  <2>3. QED BY <2>1, <2>2 DEF Published
<1>5. CASE UNCHANGED Merging!vars
  <2>1. UNCHANGED <<settings, questions, slowQueue, mergeAt, tick, merged, merging,
                    mergedFrom>>
    BY <1>5 DEF Merging!vars, Merging!worker
  <2>2. MInv'
    BY <2>1 DEF MInv, Asked, Answered, Merged, Has, Generations, Merging!Enabled
  <2>3. QED BY <2>1, <2>2 DEF Published
<1>6. QED
  BY <1>1, <1>2, <1>3, <1>4, <1>5 DEF Merging!Next

(* What a worker sends with a generation of the settings was measured under   *)
(* them, and what the coordinator publishes with one was asked for under it   *)
(* from an enabled source, however many settings replace each other while an  *)
(* answer is on its way; in safe mode there is nothing (worker,               *)
(* apply_slow_event, apply_freshness). *)
THEOREM OfItsGeneration == Network!Spec /\ Merging!Spec => OwnGeneration
<1>1. MInv /\ [Merging!Next]_(Merging!vars) =>
        [Merging!Publishes =>
           \A s \in Merging!Source : merging'[s] # "none" =>
              /\ mergedFrom'[s] = tick /\ Merging!Enabled(tick, s)
              /\ s \in Slow => merging'[Merging!Preferred(merging')] # "none"
              /\ s \in Slow /\ merging'[s] = "current" =>
                    merging'[Merging!Preferred(merging')] = "current"]_(Merging!vars)
  BY MInvNext DEF Published, Merging!Publishes
<1>2. MInv /\ [Merging!Next]_(Merging!vars) => MInv'
  BY MInvNext
<1>3. QED
  BY <1>1, <1>2, MInvInit, OwnTrials, PTL
     DEF Merging!Spec, OwnGeneration, Merging!OwnGeneration

Tag == {"none", "new", "current", "stale"}

MergingTypes ==
    /\ Len(slowQueue) <= MaxQueue
    /\ mergeAt \in {"rest", "drain"} /\ safe \in BOOLEAN
    /\ merging \in [Merging!Source -> Tag]
    /\ mergedFrom \in [Merging!Source -> Nat]
    /\ \A s \in Merging!Source : mergedFrom[s] = 0 \/ mergedFrom[s] \in Generations

LEMMA MergingTyped ==
    ASSUME MInv, MergingTypes
    PROVE  Merging!TypeOK
<1> DEFINE g == Len(settings)
<1>1. g \in Nat /\ g > 0
  BY LenProperties DEF MInv, Asked
<1>2. \A n \in Nat : n = 0 \/ n \in 1..g => n \in 0..g
  BY <1>1
<1>3. \A s \in Slow : questions[s] \in 0..g
  <2>1. \A s \in Slow : questions[s] \in Nat /\ (questions[s] = 0 \/ questions[s] \in 1..g)
    BY DEF MInv, Asked, Generations
  <2>2. QED BY <1>2, <2>1, Zenon
<1>4. \A s \in Merging!Source : mergedFrom[s] \in 0..g
  <2>1. \A s \in Merging!Source : mergedFrom[s] \in Nat
    BY DEF MergingTypes
  <2>2. QED BY <1>2, <2>1, Zenon DEF MergingTypes, Generations
<1>5. questions \in [Slow -> 0..g]
  BY <1>3 DEF MInv, Asked
<1>6. mergedFrom \in [Merging!Source -> 0..g]
  BY <1>4 DEF MergingTypes
<1>7. {tick, merged} \subseteq 1..g
  BY DEF MInv, Merged, Generations
<1>8. settings \in Seq(Merging!Settings)
  BY DEF MInv, Asked
<1>9. QED
  BY <1>5, <1>6, <1>7, <1>8 DEF Merging!TypeOK, MergingTypes, Merging!generation, Tag

LEMMA MergingTypesInit == Merging!Init => MergingTypes
<1> SUFFICES ASSUME Merging!Init PROVE MergingTypes
  OBVIOUS
<1>1. PICK s \in Merging!Settings : settings = <<s>>
  BY DEF Merging!Init
<1>2. settings[1].safe \in BOOLEAN
  BY <1>1 DEF Merging!Settings
<1>3. Len(slowQueue) = 0
  BY DEF Merging!Init
<1>4. QED
  BY <1>2, <1>3, BoundsAssumption DEF Merging!Init, Merging!NoReadings, MergingTypes, Tag

LEMMA NoReadingsTyped ==
    ASSUME Merging!ResetState
    PROVE  /\ merging' \in [Merging!Source -> Tag] /\ mergedFrom' \in [Merging!Source -> Nat]
           /\ \A s \in Merging!Source : mergedFrom'[s] = 0
BY DEF Merging!ResetState, Merging!NoReadings, Tag

LEMMA TickTypes ==
    ASSUME MInv, MergingTypes, Merging!Request \/ Merging!ApplySlowEvent
    PROVE  MergingTypes'
<1>1. CASE Merging!Request
  <2>1. UNCHANGED <<settings, slowQueue, safe>> /\ mergeAt' = "drain"
    BY <1>1 DEF Merging!Request
  <2>2. CASE UNCHANGED <<merging, mergedFrom>>
    BY <2>1, <2>2 DEF MergingTypes, Generations
  <2>3. CASE Merging!ResetState
    BY <2>1, <2>3, NoReadingsTyped DEF MergingTypes
  <2>4. QED BY <1>1, <2>2, <2>3 DEF Merging!Request
<1>2. CASE Merging!ApplySlowEvent
  <2>1. /\ slowQueue # <<>> /\ slowQueue' = Tail(slowQueue)
        /\ UNCHANGED <<settings, mergeAt, safe>>
    BY <1>2 DEF Merging!ApplySlowEvent
  <2>2. /\ Len(slowQueue') <= MaxQueue
        /\ Head(slowQueue) = slowQueue[1] /\ 1 \in 1..Len(slowQueue)
        /\ Head(slowQueue) \in Answer
    <3>1. /\ Len(slowQueue) \in Nat /\ Len(slowQueue) > 0 /\ Head(slowQueue) = slowQueue[1]
          /\ Len(slowQueue') = Len(slowQueue) - 1
      BY <2>1, HeadTailProperties, LenProperties, EmptySeq DEF MInv, Answered
    <3>2. 1 \in 1..Len(slowQueue)
      BY <3>1
    <3>3. Head(slowQueue) \in Answer
      BY <3>1, <3>2, ElementOfSeq DEF MInv, Answered
    <3>4. QED BY <3>1, <3>2, <3>3, BoundsAssumption DEF MergingTypes
  <2> DEFINE s == Head(slowQueue).of
             u == Head(slowQueue).under
             r == Head(slowQueue).result
  <2>3. s \in Merging!Source /\ u \in Nat /\ u \in Generations
    BY <2>2, SourceParts DEF Answer, MInv, Answered
  <2>4. CASE UNCHANGED <<merging, mergedFrom>>
    BY <2>1, <2>2, <2>4 DEF MergingTypes, Generations
  <2>5. CASE Merging!Apply(s, u, r) /\ r # "error"
    <3>1. /\ merging' = [merging EXCEPT ![s] = IF r = "value" THEN "new" ELSE "none"]
          /\ mergedFrom' = [mergedFrom EXCEPT ![s] = IF r = "value" THEN u ELSE 0]
      BY <2>5 DEF Merging!Apply
    <3> HIDE DEF s, u, r
    <3>2. (IF r = "value" THEN "new" ELSE "none") \in Tag
      BY DEF Tag
    <3>3. merging' \in [Merging!Source -> Tag]
      BY <3>1, <3>2 DEF MergingTypes
    <3>4. /\ mergedFrom' \in [Merging!Source -> Nat]
          /\ \A x \in Merging!Source : mergedFrom'[x] = 0 \/ mergedFrom'[x] \in Generations
      BY <2>3, <3>1 DEF MergingTypes
    <3>5. QED BY <2>1, <2>2, <3>3, <3>4 DEF MergingTypes, Generations
  <2>6. QED
    BY <1>2, <2>4, <2>5 DEF Merging!ApplySlowEvent, Merging!Apply
<1>3. QED BY <1>1, <1>2

LEMMA PublishTypes ==
    ASSUME MInv, MergingTypes, Merging!Finish \/ Merging!FinishSafe
    PROVE  MergingTypes'
<1>1. CASE Merging!Finish
  <2>1. UNCHANGED <<settings, slowQueue>> /\ mergeAt' = "rest" /\ safe' = FALSE
    BY <1>1 DEF Merging!Finish
  <2>2. PICK polled \in [Merging!Source -> {"none", "new", "current", "stale"}] :
          /\ merging' \in [Merging!Source -> {"none", "current", "stale"}]
          /\ mergedFrom' = [s \in Merging!Source |->
                 IF polled[s] = "none" THEN 0
                 ELSE IF polled[s] = "new" /\ s \notin Slow THEN tick ELSE mergedFrom[s]]
    BY <1>1 DEF Merging!Finish
  <2>3. tick \in Nat /\ tick \in Generations
    BY DEF MInv, Merged, Generations
  <2>4. /\ mergedFrom' \in [Merging!Source -> Nat]
        /\ \A s \in Merging!Source : mergedFrom'[s] = 0 \/ mergedFrom'[s] \in Generations
    BY <2>2, <2>3 DEF MergingTypes
  <2>5. merging' \in [Merging!Source -> Tag]
    BY <2>2 DEF Tag
  <2>6. QED BY <2>1, <2>4, <2>5 DEF MergingTypes, Generations
<1>2. CASE Merging!FinishSafe
  <2>1. UNCHANGED <<settings, slowQueue>> /\ mergeAt' = "rest" /\ safe' = TRUE
    BY <1>2 DEF Merging!FinishSafe
  <2>2. CASE UNCHANGED <<merging, mergedFrom>>
    BY <2>1, <2>2 DEF MergingTypes, Generations
  <2>3. CASE Merging!ResetState
    BY <2>1, <2>3, NoReadingsTyped DEF MergingTypes
  <2>4. QED BY <1>2, <2>2, <2>3 DEF Merging!FinishSafe
<1>3. QED BY <1>1, <1>2

LEMMA QuestionTypes ==
    ASSUME MInv, MergingTypes,
           \/ \E s \in Slow : Merging!Ask(s) \/ Merging!Answer(s)
           \/ Merging!UpdateConfig
    PROVE  MergingTypes'
<1> USE DEF Merging!worker
<1>1. ASSUME NEW s \in Slow, Merging!Ask(s) PROVE MergingTypes'
  BY <1>1 DEF Merging!Ask, MergingTypes, Generations
<1>2. ASSUME NEW s \in Slow, Merging!Answer(s) PROVE MergingTypes'
  <2>1. UNCHANGED <<settings, mergeAt, safe, merging, mergedFrom>>
    BY <1>2 DEF Merging!Answer
  <2>2. Len(slowQueue') <= MaxQueue
    <3>1. CASE Len(slowQueue) < MaxQueue
      <4>1. PICK r : slowQueue' = Append(slowQueue, r)
        BY <1>2, <3>1 DEF Merging!Answer
      <4>2. Len(slowQueue') = Len(slowQueue) + 1 /\ Len(slowQueue) \in Nat
        BY <4>1, LenProperties DEF MInv, Answered
      <4>3. QED BY <3>1, <4>2, BoundsAssumption
    <3>2. CASE ~(Len(slowQueue) < MaxQueue)
      BY <1>2, <3>2 DEF Merging!Answer, MergingTypes
    <3>3. QED BY <3>1, <3>2
  <2>3. QED BY <2>1, <2>2 DEF MergingTypes, Generations
<1>3. CASE Merging!UpdateConfig
  <2>1. PICK s \in Merging!Settings : settings' = Append(settings, s)
    BY <1>3 DEF Merging!UpdateConfig
  <2>2. UNCHANGED <<slowQueue, mergeAt, safe, merging, mergedFrom>>
    BY <1>3 DEF Merging!UpdateConfig
  <2>3. \A n \in Generations : n \in Generations'
    BY <2>1, AppendProperties, LenProperties DEF MInv, Asked, Generations
  <2>4. QED BY <2>2, <2>3 DEF MergingTypes
<1>4. QED BY <1>1, <1>2, <1>3

LEMMA MergingTypesNext ==
    ASSUME MInv, MergingTypes, [Merging!Next]_(Merging!vars)
    PROVE  MergingTypes'
<1>1. CASE UNCHANGED Merging!vars
  BY <1>1 DEF Merging!vars, Merging!worker, MergingTypes, Generations
<1>2. QED BY <1>1, TickTypes, PublishTypes, QuestionTypes DEF Merging!Next

(* The types of Coordinator: no question and no reading is of a generation to *)
(* come, and the queue is never longer than its bound (send_slow). *)
THEOREM CoordinatorTypes == Merging!Spec => []Merging!TypeOK
BY MInvInit, MInvNext, MergingTypesInit, MergingTypesNext, MergingTyped, PTL
   DEF Merging!Spec

----------------------------------------------------------------------------
(* Alerts. A recovery begins with a current reading below the limit.          *)

Record ==
    [severity : {0, Alarms!Warning, Alarms!Critical}, acknowledged : BOOLEAN,
     recovery : {"no", "begun", "over"}]

Severity == {Alarms!Unknown, Alarms!Fine, Alarms!Warning, Alarms!Critical}

AInv ==
    /\ episodes \in [Id -> Record]
    /\ lastKnown \in [Id -> Severity]
    /\ \A i \in Id : episodes[i].recovery # "no" => lastKnown[i] = Alarms!Fine

Continues(i) ==
    /\ episodes'[i].severity = 0 => i \notin alarmOn' \/ lastKnown'[i] = Alarms!Fine
    /\ episodes'[i].severity > 0 /\ episodes[i].acknowledged =>
          episodes'[i].acknowledged

LEMMA AInvInit == Alarms!Init => AInv
BY DEF Alarms!Init, AInv, Record, Severity, Alarms!NoEpisode, Alarms!Unknown

(* One turn of one alert whose category is enabled. *)
LEMMA EpisodeKeeps ==
    ASSUME AInv, NEW i \in Id, NEW on, i \in on, NEW reading \in Alarms!Readings,
           NEW linger \in BOOLEAN, NEW latest,
           latest = IF reading[i] # Alarms!Unknown THEN reading[i] ELSE lastKnown[i]
    PROVE  LET new == Alarms!Episode(i, reading, on, linger) IN
           /\ new \in Record
           /\ latest \in Severity
           /\ new.recovery # "no" => latest = Alarms!Fine
           /\ episodes[i].severity > 0 /\ new.severity = 0 => latest = Alarms!Fine
           /\ new.severity > 0 /\ episodes[i].severity > 0 /\ episodes[i].acknowledged
                => new.acknowledged
<1> DEFINE new == Alarms!Episode(i, reading, on, linger)
           old == episodes[i]
           heard == reading[i] # Alarms!Unknown
           recovery == IF heard /\ old.recovery = "no"
                       THEN IF linger THEN "begun" ELSE "over" ELSE old.recovery
<1> USE DEF AInv, Severity, Alarms!Unknown, Alarms!Fine, Alarms!Warning, Alarms!Critical
<1>1. reading[i] \in Severity /\ lastKnown[i] \in Severity /\ old \in Record
  BY DEF Alarms!Readings
<1>2. i \in Alarms!Observed(on, reading) <=> heard
  BY DEF Alarms!Observed
<1>3. CASE heard /\ reading[i] \in {Alarms!Warning, Alarms!Critical}
  <2>1. new = [severity |-> reading[i], acknowledged |-> old.acknowledged,
               recovery |-> "no"]
    BY <1>2, <1>3 DEF Alarms!Episode
  <2>2. QED BY <1>1, <1>3, <2>1 DEF Record
<1>4. CASE ~(heard /\ reading[i] \in {Alarms!Warning, Alarms!Critical})
  <2>1. new = IF \/ old.severity = 0 \/ recovery = "over"
                 \/ recovery = "begun" /\ old.severity # Alarms!Critical
              THEN Alarms!NoEpisode ELSE [old EXCEPT !.recovery = recovery]
    BY <1>2, <1>4 DEF Alarms!Episode
  <2>2. recovery # "no" => latest = Alarms!Fine
    BY <1>1, <1>4
  <2>3. recovery \in {"no", "begun", "over"}
    BY <1>1 DEF Record
  <2> HIDE DEF recovery
  <2>4. CASE new = Alarms!NoEpisode
    BY <1>1, <2>1, <2>2, <2>4 DEF Record, Alarms!NoEpisode
  <2>5. CASE new = [old EXCEPT !.recovery = recovery]
    BY <1>1, <2>1, <2>2, <2>3, <2>5 DEF Record
  <2>6. QED BY <2>1, <2>4, <2>5
<1>5. QED BY <1>3, <1>4

LEMMA AInvNext ==
    ASSUME AInv, [Alarms!Next]_(Alarms!vars)
    PROVE  AInv' /\ \A i \in Alarms!Ongoing(episodes) : Continues(i)
<1>1. ASSUME NEW on \in SUBSET Id, NEW reading \in Alarms!Readings, NEW linger \in BOOLEAN,
             alarmOn' = on,
             episodes' = [i \in Id |-> IF i \in on
                                       THEN Alarms!Episode(i, reading, on, linger)
                                       ELSE Alarms!NoEpisode],
             lastKnown' = [i \in Id |-> IF i \notin on THEN Alarms!Unknown
                                        ELSE IF reading[i] # Alarms!Unknown THEN reading[i]
                                        ELSE lastKnown[i]]
      PROVE  AInv' /\ \A i \in Alarms!Ongoing(episodes) : Continues(i)
  <2>1. ASSUME NEW i \in Id
        PROVE  /\ episodes'[i] \in Record /\ lastKnown'[i] \in Severity
               /\ episodes'[i].recovery # "no" => lastKnown'[i] = Alarms!Fine
               /\ episodes[i].severity > 0 => Continues(i)
    <3>1. CASE i \in on
      <4>1. episodes'[i] = Alarms!Episode(i, reading, on, linger)
        BY <1>1, <3>1
      <4>2. lastKnown'[i] = IF reading[i] # Alarms!Unknown THEN reading[i]
                            ELSE lastKnown[i]
        BY <1>1, <3>1
      <4>3. QED BY <3>1, <4>1, <4>2, EpisodeKeeps DEF Continues
    <3>2. CASE i \notin on
      <4>1. episodes'[i] = Alarms!NoEpisode /\ lastKnown'[i] = Alarms!Unknown
        BY <1>1, <3>2
      <4>2. QED
        BY <1>1, <3>2, <4>1 DEF Alarms!NoEpisode, Record, Severity, Continues
    <3>3. QED BY <3>1, <3>2
  <2>2. \A i \in Alarms!Ongoing(episodes) : i \in Id /\ episodes[i].severity > 0
    BY DEF Alarms!Ongoing
  <2>3. episodes' \in [Id -> Record] /\ lastKnown' \in [Id -> Severity]
    BY <1>1, <2>1
  <2>4. QED BY <2>1, <2>2, <2>3 DEF AInv
<1>2. CASE Alarms!Evaluate
  BY <1>1, <1>2, Zenon DEF Alarms!Evaluate
<1>3. CASE Alarms!Acknowledge
  <2>1. PICK j : episodes' = [episodes EXCEPT ![j].acknowledged = TRUE]
    BY <1>3 DEF Alarms!Acknowledge
  <2>2. lastKnown' = lastKnown
    BY <1>3 DEF Alarms!Acknowledge
  <2>3. ASSUME NEW i \in Id
        PROVE  /\ episodes'[i] \in Record
               /\ episodes'[i].recovery = episodes[i].recovery
               /\ episodes'[i].severity = episodes[i].severity
               /\ episodes[i].acknowledged => episodes'[i].acknowledged
    <3>1. episodes[i] \in Record
      BY DEF AInv
    <3>2. CASE i = j
      <4>1. episodes'[i] = [episodes[i] EXCEPT !.acknowledged = TRUE]
        BY <2>1, <3>2 DEF AInv
      <4>2. QED BY <3>1, <4>1 DEF Record
    <3>3. CASE i # j
      BY <2>1, <3>1, <3>3 DEF AInv
    <3>4. QED BY <3>2, <3>3
  <2>4. AInv'
    BY <2>1, <2>2, <2>3 DEF AInv
  <2>5. \A i \in Alarms!Ongoing(episodes) : i \in Id /\ episodes'[i].severity > 0
    BY <2>3 DEF Alarms!Ongoing
  <2>6. \A i \in Alarms!Ongoing(episodes) : ~(episodes'[i].severity = 0)
    BY <2>5
  <2>7. QED BY <2>3, <2>4, <2>5, <2>6 DEF Continues
<1>4. ASSUME NEW j \in Id, Alarms!LingerPasses(j)
      PROVE  AInv' /\ \A i \in Alarms!Ongoing(episodes) : Continues(i)
  <2>1. /\ episodes[j].recovery = "begun" /\ lastKnown' = lastKnown
        /\ episodes' = [episodes EXCEPT ![j].recovery = "over"]
    BY <1>4 DEF Alarms!LingerPasses
  <2>2. ASSUME NEW i \in Id
        PROVE  /\ episodes'[i] \in Record
               /\ episodes'[i].recovery # "no" => episodes[i].recovery # "no"
               /\ episodes'[i].severity = episodes[i].severity
               /\ episodes'[i].acknowledged = episodes[i].acknowledged
    <3>1. episodes[i] \in Record
      BY DEF AInv
    <3>2. CASE i = j
      <4>1. episodes'[i] = [episodes[i] EXCEPT !.recovery = "over"]
        BY <2>1, <3>2 DEF AInv
      <4>2. QED BY <2>1, <3>1, <3>2, <4>1 DEF Record
    <3>3. CASE i # j
      BY <2>1, <3>1, <3>3 DEF AInv
    <3>4. QED BY <3>2, <3>3
  <2>3. AInv'
    BY <2>1, <2>2 DEF AInv
  <2>4. \A i \in Alarms!Ongoing(episodes) : i \in Id /\ episodes'[i].severity > 0
    BY <2>2 DEF Alarms!Ongoing
  <2>5. \A i \in Alarms!Ongoing(episodes) : ~(episodes'[i].severity = 0)
    BY <2>4
  <2>6. QED BY <2>2, <2>3, <2>4, <2>5 DEF Continues
<1>5. CASE UNCHANGED Alarms!vars
  <2>1. episodes' = episodes /\ lastKnown' = lastKnown
    BY <1>5 DEF Alarms!vars
  <2>2. \A i \in Alarms!Ongoing(episodes) : ~(episodes[i].severity = 0)
    BY DEF Alarms!Ongoing
  <2>3. QED BY <2>1, <2>2 DEF AInv, Continues
<1>6. QED
  BY <1>2, <1>3, <1>4, <1>5 DEF Alarms!Next

(* An episode goes on until the last current reading was below the limit or   *)
(* its category is disabled, for whatever lack of readings in between, and    *)
(* what was acknowledged of it stays so (evaluate, acknowledge_highest).      *)
THEOREM EpisodesEnd == Alarms!Spec => EpisodeEnds
<1>1. AInv /\ [Alarms!Next]_(Alarms!vars) =>
        [\A i \in Alarms!Ongoing(episodes) :
            /\ episodes'[i].severity = 0 => i \notin alarmOn' \/ lastKnown'[i] = Alarms!Fine
            /\ episodes'[i].severity > 0 /\ episodes[i].acknowledged =>
                  episodes'[i].acknowledged]_(Alarms!vars)
  BY AInvNext DEF Continues
<1>2. AInv /\ [Alarms!Next]_(Alarms!vars) => AInv'
  BY AInvNext
<1>3. QED
  BY <1>1, <1>2, AInvInit, PTL DEF Alarms!Spec, EpisodeEnds, Alarms!EpisodeEnds

(* The alerts are in an order: by it one of those that are open is the        *)
(* highest. *)
Ordered(K, r) ==
    /\ r \subseteq K \X K
    /\ \A i, j, k \in K :
          /\ i # j => (<<i, j>> \in r <=> <<j, i>> \notin r)
          /\ <<i, i>> \notin r
          /\ <<i, j>> \in r /\ <<j, k>> \in r => <<i, k>> \in r

Began(K, r, i, j) == IF j \notin K THEN i \in K \/ i < j ELSE <<i, j>> \in r

LEMMA OrderedOn ==
    ASSUME NEW K \in SUBSET Id, NEW r, Ordered(K, r), NEW L \in SUBSET Id, NEW s,
           s \subseteq L \X L,
           \A i, j \in L : <<i, j>> \in s <=> Began(K, r, i, j)
    PROVE  Ordered(L, s)
<1>1. K \subseteq Nat /\ L \subseteq Nat
  BY AlertsAssumption
<1>2. ASSUME NEW i \in L, NEW j \in L, i # j PROVE Began(K, r, i, j) <=> ~Began(K, r, j, i)
  <2>1. CASE i \in K /\ j \in K
    BY <1>2, <2>1, Zenon DEF Ordered, Began
  <2>2. CASE i \in K /\ j \notin K
    BY <2>2 DEF Ordered, Began
  <2>3. CASE i \notin K /\ j \in K
    BY <2>3 DEF Ordered, Began
  <2>4. CASE i \notin K /\ j \notin K
    BY <1>1, <1>2, <2>4 DEF Began
  <2>5. QED BY <2>1, <2>2, <2>3, <2>4
<1>3. ASSUME NEW i \in L PROVE ~Began(K, r, i, i)
  <2>1. CASE i \in K
    BY <2>1, Zenon DEF Ordered, Began
  <2>2. CASE i \notin K
    BY <1>1, <2>2 DEF Began
  <2>3. QED BY <2>1, <2>2
<1>4. ASSUME NEW i \in L, NEW j \in L, NEW k \in L, Began(K, r, i, j), Began(K, r, j, k)
      PROVE  Began(K, r, i, k)
  <2>1. \A a, b : <<a, b>> \in r => a \in K /\ b \in K
    BY DEF Ordered
  <2>2. CASE k \in K
    <3>1. <<j, k>> \in r /\ j \in K
      BY <1>4, <2>1, <2>2, Zenon DEF Began
    <3>2. <<i, j>> \in r /\ i \in K
      BY <1>4, <2>1, <3>1, Zenon DEF Began
    <3>3. QED BY <2>2, <3>1, <3>2, Zenon DEF Ordered, Began
  <2>3. CASE k \notin K /\ j \in K
    <3>1. <<i, j>> \in r /\ i \in K
      BY <1>4, <2>1, <2>3, Zenon DEF Began
    <3>2. QED BY <2>3, <3>1, Zenon DEF Began
  <2>4. CASE k \notin K /\ j \notin K
    BY <1>1, <1>4, <2>4 DEF Began
  <2>5. QED BY <2>2, <2>3, <2>4
<1>5. QED BY <1>2, <1>3, <1>4, Zenon DEF Ordered

LEMMA AlertsTyped ==
    Alarms!TypeOK <=>
        /\ alarmOn \subseteq Id /\ episodes \in [Id -> Record] /\ lastKnown \in [Id -> Severity]
        /\ Ordered(Alarms!Ongoing(episodes), episodeOrder)
BY Zenon DEF Alarms!TypeOK, Record, Severity, Ordered

LEMMA AlertsOrder ==
    ASSUME AInv, AInv', Ordered(Alarms!Ongoing(episodes), episodeOrder),
           [Alarms!Next]_(Alarms!vars)
    PROVE  Ordered(Alarms!Ongoing(episodes), episodeOrder)'
<1> DEFINE K == Alarms!Ongoing(episodes)
           L == Alarms!Ongoing(episodes')
<1>1. K \in SUBSET Id /\ L \in SUBSET Id
  BY DEF Alarms!Ongoing
<1>2. \A i \in Id : /\ i \in K <=> episodes[i].severity > 0
                    /\ i \in L <=> episodes'[i].severity > 0
  BY DEF Alarms!Ongoing
<1>3. \A i \in Id : episodes[i].severity > 0 <=> ~(episodes[i].severity = 0)
  BY DEF AInv, Record, Alarms!Warning, Alarms!Critical
<1>4. CASE Alarms!Evaluate
  <2>1. episodeOrder' = {p \in L \X L : Alarms!Older(p[1], p[2])}
    BY <1>4, Zenon DEF Alarms!Evaluate
  <2>2. \A i, j \in L : Alarms!Older(i, j) <=> Began(K, episodeOrder, i, j)
    BY <1>1, <1>2, <1>3, Zenon DEF Alarms!Older, Began
  <2> HIDE DEF K, L
  <2>3. \A i, j \in L : <<i, j>> \in episodeOrder' <=> Alarms!Older(i, j)
    BY <2>1
  <2>4. episodeOrder' \subseteq L \X L
    BY <2>1
  <2>5. Ordered(K, episodeOrder)
    BY DEF K
  <2>6. Ordered(L, episodeOrder')
    BY <1>1, <2>2, <2>3, <2>4, <2>5, OrderedOn
  <2>7. QED BY <2>6 DEF L
<1>5. ASSUME episodeOrder' = episodeOrder,
             \A i \in Id : episodes'[i].severity = episodes[i].severity
      PROVE  Ordered(L, episodeOrder')
  <2>1. L = K
    BY <1>1, <1>2, <1>5
  <2>2. QED BY <1>5, <2>1
<1>6. CASE Alarms!Acknowledge
  <2>1. PICK j : episodes' = [episodes EXCEPT ![j].acknowledged = TRUE]
    BY <1>6, Zenon DEF Alarms!Acknowledge
  <2>2. episodeOrder' = episodeOrder
    BY <1>6 DEF Alarms!Acknowledge
  <2>3. ASSUME NEW i \in Id PROVE episodes'[i].severity = episodes[i].severity
    BY <2>1 DEF AInv, Record
  <2>4. QED BY <1>5, <2>2, <2>3
<1>7. ASSUME NEW j \in Id, Alarms!LingerPasses(j) PROVE Ordered(L, episodeOrder')
  <2>1. episodes' = [episodes EXCEPT ![j].recovery = "over"] /\ episodeOrder' = episodeOrder
    BY <1>7 DEF Alarms!LingerPasses
  <2>2. ASSUME NEW i \in Id PROVE episodes'[i].severity = episodes[i].severity
    BY <2>1 DEF AInv, Record
  <2>3. QED BY <1>5, <2>1, <2>2
<1>8. CASE UNCHANGED Alarms!vars
  BY <1>5, <1>8 DEF Alarms!vars
<1>9. QED BY <1>4, <1>6, <1>7, <1>8 DEF Alarms!Next

(* The types of Alerts: the episodes are in one order, so one of those that   *)
(* are open is the highest (evaluate, acknowledge_highest). *)
THEOREM AlertsTypes == Alarms!Spec => []Alarms!TypeOK
<1>1. Alarms!Init => AInv /\ Alarms!TypeOK
  <2>1. ASSUME Alarms!Init PROVE Ordered(Alarms!Ongoing(episodes), episodeOrder)
    BY <2>1 DEF Alarms!Init, Alarms!Ongoing, Alarms!NoEpisode, Ordered
  <2>2. Alarms!Init => alarmOn \subseteq Id
    BY DEF Alarms!Init
  <2>3. QED BY <2>1, <2>2, AInvInit, AlertsTyped DEF AInv
<1>2. ASSUME AInv, Alarms!TypeOK, [Alarms!Next]_(Alarms!vars) PROVE (AInv /\ Alarms!TypeOK)'
  <2>1. AInv'
    BY <1>2, AInvNext
  <2>2. Ordered(Alarms!Ongoing(episodes), episodeOrder)'
    BY <1>2, <2>1, AlertsTyped, AlertsOrder
  <2>3. (alarmOn \subseteq Id)'
    BY <1>2 DEF Alarms!TypeOK, Alarms!Next, Alarms!Evaluate, Alarms!Acknowledge,
      Alarms!LingerPasses, Alarms!vars
  <2>4. (Alarms!TypeOK <=>
           /\ alarmOn \subseteq Id /\ episodes \in [Id -> Record] /\ lastKnown \in [Id -> Severity]
           /\ Ordered(Alarms!Ongoing(episodes), episodeOrder))'
    BY AlertsTyped, PTL
  <2>5. QED BY <2>1, <2>2, <2>3, <2>4 DEF AInv
<1>3. QED
  BY <1>1, <1>2, PTL DEF Alarms!Spec

----------------------------------------------------------------------------
(* The hardware test. What the exit code says is read off the results of the  *)
(* steps: a call that failed is in one of them, a picture that differs from   *)
(* the last one was taken, and the picture of a new step always does.         *)

StepResult == [submissions : Nat, error : BOOLEAN]
TestPicture == Nat \X Nat
Drawn == {"draw", "poll", "pace"}
step == Len(testResults)

TestTypes ==
    /\ testResults \in Seq(StepResult) /\ accepted \in Seq(TestPicture)
    /\ stepTick \in Nat /\ prior \subseteq TestButton
    /\ buttonEnds \in [TestButton -> {"down", "up", "canceled"}]
    /\ callFailed \in BOOLEAN

Pressed ==
    /\ \A b \in TestButton : buttonEnds[b] = "down" => b \in prior
    /\ testAt \notin Drawn => prior = {}

(* Until the first step there is nothing, and then there is a step. *)
Steady ==
    /\ testAt \in {"select", "open"} =>
          testResults = <<>> /\ accepted = <<>> /\ lastReport = <<>> /\ ~callFailed
    /\ testAt \in Drawn \cup {"close", "report"} => step > 0

(* What failed is in the results. *)
Noted ==
    testAt \in Drawn \cup {"close", "report"} =>
        (callFailed <=> \E n \in 1..step : testResults[n].error)

(* The last step may be without a picture only while it draws its first. *)
Submitted ==
    /\ testAt \in Drawn =>
          \A n \in 1..step :
              \/ testResults[n].submissions > 0
              \/ n = step /\ testAt = "draw" /\ \A t \in Nat : lastReport # <<step, t>>
    /\ testAt \in {"poll", "pace"} => \E t \in Nat : lastReport = <<step, t>>
    /\ (testAt \in {"close", "report"} /\ ~callFailed) =>
          step = Steps /\ \A n \in 1..step : testResults[n].submissions > 0

Taken ==
    /\ \A n \in 1..step :
          testResults[n].submissions > 0 =>
              \E i \in DOMAIN accepted : accepted[i][1] = n
    /\ \A i, j \in DOMAIN accepted :
          (i < j /\ accepted[j] # Testing!Blank) => accepted[i][1] <= accepted[j][1]
    /\ testAt \in Drawn \cup {"close"} =>
          \A i \in DOMAIN accepted : accepted[i][1] \in 1..step
    /\ (testAt = "report" /\ ~callFailed /\ kind # "virtual") =>
          accepted[Len(accepted)] = Testing!Blank

TInv ==
    /\ TestTypes /\ Pressed /\ Steady /\ Noted /\ Submitted /\ Taken
    /\ Testing!HonestReport

LEMMA TInvInit == Testing!Init => TInv
<1> SUFFICES ASSUME Testing!Init PROVE TInv
  OBVIOUS
<1>1. /\ testAt = "select" /\ testResults = <<>> /\ accepted = <<>> /\ lastReport = <<>>
      /\ stepTick = 0 /\ prior = {} /\ callFailed = FALSE
      /\ buttonEnds = [b \in TestButton |-> "up"]
  BY DEF Testing!Init, Testing!NoReport
<1>2. TestTypes
  BY <1>1, EmptySeq DEF TestTypes
<1>3. Pressed /\ Steady /\ Noted /\ Submitted /\ Testing!HonestReport
  BY <1>1 DEF Pressed, Steady, Noted, Submitted, Testing!HonestReport, Drawn
<1>4. Taken
  BY <1>1, EmptySeq DEF Taken, step, Drawn
<1>5. QED BY <1>2, <1>3, <1>4 DEF TInv

(* The steps of the test. Another field of a result is not touched. *)
LEMMA Recorded ==
    ASSUME testResults \in Seq(StepResult), step > 0
    PROVE  /\ \A v \in BOOLEAN :
                 LET r == Testing!Record("error", v)
                 IN  /\ r \in Seq(StepResult) /\ Len(r) = step
                     /\ \A n \in 1..step :
                           /\ r[n].submissions = testResults[n].submissions
                           /\ r[n].error = IF n = step THEN v ELSE testResults[n].error
           /\ LET r == Testing!Record("submissions", 1)
              IN  /\ r \in Seq(StepResult) /\ Len(r) = step
                  /\ \A n \in 1..step :
                        /\ r[n].error = testResults[n].error
                        /\ r[n].submissions = IF n = step THEN 1
                                              ELSE testResults[n].submissions
<1>1. step \in Nat /\ step \in DOMAIN testResults /\ DOMAIN testResults = 1..step
  BY LenProperties DEF step
<1>2. \A n \in 1..step : testResults[n] \in StepResult
  BY <1>1, ElementOfSeq DEF step
<1>3. ASSUME NEW v \in BOOLEAN
      PROVE  LET r == Testing!Record("error", v)
             IN  /\ r \in Seq(StepResult) /\ Len(r) = step
                 /\ \A n \in 1..step :
                       /\ r[n].submissions = testResults[n].submissions
                       /\ r[n].error = IF n = step THEN v ELSE testResults[n].error
  <2> DEFINE s == [testResults[step] EXCEPT !["error"] = v]
             r == [testResults EXCEPT ![step] = s]
  <2>1. s \in StepResult /\ s.error = v /\ s.submissions = testResults[step].submissions
    BY <1>1, <1>2 DEF StepResult
  <2>2. Testing!Record("error", v) = r
    BY DEF Testing!Record, Testing!step, step
  <2> HIDE DEF s
  <2>3. r \in Seq(StepResult) /\ Len(r) = step
    BY <1>1, <2>1, ExceptSeq DEF step
  <2>4. QED BY <1>1, <2>1, <2>2, <2>3
<1>4. LET r == Testing!Record("submissions", 1)
      IN  /\ r \in Seq(StepResult) /\ Len(r) = step
          /\ \A n \in 1..step :
                /\ r[n].error = testResults[n].error
                /\ r[n].submissions = IF n = step THEN 1 ELSE testResults[n].submissions
  <2> DEFINE s == [testResults[step] EXCEPT !["submissions"] = 1]
             r == [testResults EXCEPT ![step] = s]
  <2>1. s \in StepResult /\ s.submissions = 1 /\ s.error = testResults[step].error
    BY <1>1, <1>2 DEF StepResult
  <2>2. Testing!Record("submissions", 1) = r
    BY DEF Testing!Record, Testing!step, step
  <2> HIDE DEF s
  <2>3. r \in Seq(StepResult) /\ Len(r) = step
    BY <1>1, <2>1, ExceptSeq DEF step
  <2>4. QED BY <1>1, <2>1, <2>2, <2>3
<1>5. QED BY <1>3, <1>4

(* The acts that touch neither results nor pictures. *)
LEMMA TestKept ==
    ASSUME TInv, UNCHANGED <<testResults, accepted, callFailed, stepTick, lastReport,
                             kind, exitCode, prior, buttonEnds, testAt>>
    PROVE  TInv'
BY DEF TInv, TestTypes, Pressed, Steady, Noted, Submitted, Taken,
       Testing!HonestReport, step

LEMMA TestBegins ==
    ASSUME TInv, Testing!CannotStart \/ Testing!Select \/ Testing!Open
    PROVE  TInv'
<1> USE DEF Drawn
<1>1. testAt \in {"select", "open"} /\ prior = {}
  BY DEF TInv, Pressed, Testing!CannotStart, Testing!Select, Testing!Open
<1>2. /\ testResults = <<>> /\ accepted = <<>> /\ lastReport = <<>> /\ ~callFailed
      /\ UNCHANGED <<accepted, lastReport, stepTick, prior, buttonEnds>>
  BY <1>1 DEF TInv, Steady, Testing!CannotStart, Testing!Select, Testing!Open,
              Testing!screen, Testing!buttons
<1>3. CASE Testing!CannotStart
  <2>1. /\ testAt' = "done" /\ callFailed' = TRUE /\ exitCode' \in {1, 2, 3}
        /\ testResults' = testResults
    BY <1>3 DEF Testing!CannotStart, Testing!screen
  <2>2. TestTypes' /\ Pressed' /\ Steady' /\ Noted' /\ Submitted'
    BY <1>1, <1>2, <2>1 DEF TInv, TestTypes, Pressed, Steady, Noted, Submitted, step
  <2>3. Taken'
    BY <1>2, <2>1 DEF TInv, Taken, step
  <2>4. Testing!HonestReport'
    BY <1>1, <1>2, <2>1 DEF Testing!HonestReport, TInv, Pressed, TestTypes
  <2>5. QED BY <2>2, <2>3, <2>4 DEF TInv
<1>4. CASE Testing!Select
  <2>1. testAt' = "open" /\ UNCHANGED <<testResults, callFailed>>
    BY <1>4 DEF Testing!Select, Testing!screen
  <2>2. TestTypes' /\ Pressed' /\ Steady' /\ Noted' /\ Submitted'
    BY <1>1, <1>2, <2>1 DEF TInv, TestTypes, Pressed, Steady, Noted, Submitted, step
  <2>3. Taken'
    BY <1>2, <2>1 DEF TInv, Taken, step
  <2>4. Testing!HonestReport'
    BY <2>1 DEF Testing!HonestReport
  <2>5. QED BY <2>2, <2>3, <2>4 DEF TInv
<1>5. CASE Testing!Open
  <2>1. /\ testAt' = "draw" /\ UNCHANGED callFailed
        /\ testResults' = <<[submissions |-> 0, error |-> FALSE]>>
    BY <1>5 DEF Testing!Open, Testing!NewStep
  <2>2. [submissions |-> 0, error |-> FALSE] \in StepResult
    BY DEF StepResult
  <2>3. testResults' \in Seq(StepResult) /\ step' = 1
        /\ testResults'[1].submissions = 0 /\ testResults'[1].error = FALSE
    BY <2>1, <2>2 DEF step
  <2>4. TestTypes' /\ Pressed'
    BY <1>1, <1>2, <2>1, <2>3 DEF TInv, TestTypes, Pressed
  <2>5. Noted'
    BY <1>2, <2>1, <2>3 DEF Noted
  <2>6. Steady'
    BY <2>1, <2>3 DEF Steady
  <2>7. Submitted'
    <3>1. \A t \in Nat : <<>> # <<1, t>>
      OBVIOUS
    <3>2. QED BY <1>2, <2>1, <2>3, <3>1 DEF Submitted
  <2>8. Taken'
    BY <1>2, <2>1, <2>3, EmptySeq DEF Taken
  <2>9. Testing!HonestReport'
    BY <2>1 DEF Testing!HonestReport
  <2>10. QED BY <2>4, <2>5, <2>6, <2>7, <2>8, <2>9 DEF TInv
<1>6. QED BY <1>3, <1>4, <1>5

(* Every press ends with the connection. *)
LEMMA Released ==
    ASSUME TInv, Testing!Disconnect
    PROVE  /\ prior' = {}
           /\ buttonEnds' \in [TestButton -> {"down", "up", "canceled"}]
           /\ \A b \in TestButton : buttonEnds'[b] # "down"
BY DEF TInv, TestTypes, Pressed, Testing!Disconnect

LEMMA TestTransportFails ==
    ASSUME TInv, Testing!TransportFails
    PROVE  TInv'
<1>1. /\ testAt \in {"draw", "poll"} /\ testAt' = "close" /\ callFailed' = TRUE
      /\ testResults' = Testing!Record("error", TRUE) /\ Testing!Disconnect
      /\ UNCHANGED <<kind, stepTick, lastReport, accepted, exitCode>>
  BY DEF Testing!TransportFails
<1>2. testResults \in Seq(StepResult) /\ step > 0
  BY <1>1 DEF TInv, TestTypes, Steady, Drawn
<1>3. /\ testResults' \in Seq(StepResult) /\ step' = step
      /\ \A n \in 1..step :
            /\ testResults'[n].submissions = testResults[n].submissions
            /\ testResults'[n].error = IF n = step THEN TRUE ELSE testResults[n].error
  BY <1>1, <1>2, Recorded DEF step
<1>4. TestTypes' /\ Pressed' /\ Steady' /\ Submitted'
  BY <1>1, <1>2, <1>3, Released
  DEF TInv, TestTypes, Pressed, Steady, Submitted, Drawn
<1>5. Noted'
  <2>1. step \in 1..step
    BY <1>2, LenProperties DEF step
  <2>2. QED BY <1>1, <1>3, <2>1 DEF Noted
<1>6. Taken'
  BY <1>1, <1>3 DEF TInv, Taken, Drawn
<1>7. Testing!HonestReport'
  BY <1>1 DEF Testing!HonestReport
<1>8. QED BY <1>4, <1>5, <1>6, <1>7 DEF TInv

(* A picture of this step is on it, whatever the tick. *)
LEMMA TestDraw ==
    ASSUME TInv, Testing!Draw
    PROVE  TInv'
<1>1. /\ testAt = "draw" /\ testAt' = "poll"
      /\ UNCHANGED <<kind, stepTick, prior, buttonEnds, exitCode, callFailed>>
  BY DEF Testing!Draw, Testing!buttons
<1>2. PICK report \in {<<step, 0>>, <<step, stepTick>>} :
          IF report = lastReport
          THEN UNCHANGED <<testResults, lastReport, accepted>>
          ELSE /\ lastReport' = report /\ accepted' = Append(accepted, report)
               /\ testResults' = Testing!Record("submissions", 1)
  BY DEF Testing!Draw, Testing!Picture, Testing!step, step
<1>3. testResults \in Seq(StepResult) /\ step > 0 /\ stepTick \in Nat /\ step \in Nat
  BY <1>1, LenProperties DEF TInv, TestTypes, Steady, Drawn, step
<1>4. PICK t \in Nat : report = <<step, t>>
  BY <1>2, <1>3
<1>5. Pressed' /\ Testing!HonestReport'
  BY <1>1 DEF TInv, Pressed, Testing!HonestReport, Drawn
<1>6. CASE report = lastReport
  <2>1. UNCHANGED <<testResults, accepted, step>>
    BY <1>2, <1>6 DEF step
  <2>2. \A n \in 1..step : testResults[n].submissions > 0
    BY <1>1, <1>4, <1>6 DEF TInv, Submitted, Drawn
  <2>3. TestTypes' /\ Steady' /\ Noted'
    BY <1>1, <1>3, <2>1 DEF TInv, TestTypes, Steady, Noted, Drawn
  <2>3a. \E u \in Nat : lastReport' = <<step', u>>
    BY <1>2, <1>4, <1>6, <2>1
  <2>3b. Submitted'
    BY <1>1, <2>1, <2>2, <2>3a DEF Submitted, Drawn
  <2>4. Taken'
    BY <1>1, <2>1 DEF TInv, Taken, Drawn
  <2>5. QED BY <1>5, <2>3, <2>3b, <2>4 DEF TInv
<1>7. CASE report # lastReport
  <2>1. /\ testResults' \in Seq(StepResult) /\ step' = step
        /\ \A n \in 1..step :
              /\ testResults'[n].error = testResults[n].error
              /\ testResults'[n].submissions = IF n = step THEN 1
                                               ELSE testResults[n].submissions
    BY <1>2, <1>3, <1>7, Recorded DEF step
  <2>2. accepted \in Seq(TestPicture) /\ report \in TestPicture /\ report[1] = step
    BY <1>3, <1>4 DEF TInv, TestTypes, TestPicture
  <2>3. /\ accepted' \in Seq(TestPicture) /\ Len(accepted') = Len(accepted) + 1
        /\ \A i \in 1..Len(accepted) : accepted'[i] = accepted[i]
        /\ accepted'[Len(accepted) + 1] = report
    <3>1. accepted' = Append(accepted, report)
      BY <1>2, <1>7, Zenon
    <3>2. QED BY <2>2, <3>1, AppendProperties
  <2>4. /\ Len(accepted) \in Nat /\ DOMAIN accepted = 1..Len(accepted)
        /\ DOMAIN accepted' = 1..(Len(accepted) + 1)
        /\ \A i \in DOMAIN accepted : accepted[i] \in TestPicture
    BY <2>2, <2>3, LenProperties, ElementOfSeq
  <2>5. \A n \in 1..step : testResults'[n].submissions > 0
    BY <1>1, <2>1 DEF TInv, Submitted, Drawn
  <2>6. TestTypes' /\ Steady' /\ Noted'
    BY <1>1, <1>3, <2>1, <2>3 DEF TInv, TestTypes, Steady, Noted, Drawn
  <2>6a. \E u \in Nat : lastReport' = <<step', u>>
    BY <1>2, <1>4, <1>7, <2>1
  <2>6b. Submitted'
    BY <1>1, <2>1, <2>5, <2>6a DEF Submitted, Drawn
  <2>7. \A i \in DOMAIN accepted : accepted[i][1] \in 1..step
    BY <1>1 DEF TInv, Taken, Drawn
  <2>8. \A n \in 1..step : \E i \in DOMAIN accepted' : accepted'[i][1] = n
    <3>1. SUFFICES ASSUME NEW n \in 1..step
                   PROVE  \E i \in DOMAIN accepted' : accepted'[i][1] = n
      OBVIOUS
    <3>2. CASE n = step
      BY <2>2, <2>3, <2>4, <3>2
    <3>3. CASE n # step
      <4>1. testResults[n].submissions > 0
        BY <2>1, <2>5, <3>3
      <4>2. PICK i \in DOMAIN accepted : accepted[i][1] = n
        BY <4>1 DEF TInv, Taken
      <4>3. QED BY <2>3, <2>4, <4>2
    <3>4. QED BY <3>2, <3>3
  <2>9. \A i \in DOMAIN accepted' : accepted'[i][1] \in 1..step
    BY <1>3, <2>2, <2>3, <2>4, <2>7
  <2>10. \A i, j \in DOMAIN accepted' :
            (i < j /\ accepted'[j] # Testing!Blank) => accepted'[i][1] <= accepted'[j][1]
    <3>1. SUFFICES ASSUME NEW i \in DOMAIN accepted', NEW j \in DOMAIN accepted',
                          i < j, accepted'[j] # Testing!Blank
                   PROVE  accepted'[i][1] <= accepted'[j][1]
      OBVIOUS
    <3>2. CASE j = Len(accepted) + 1
      BY <1>3, <2>2, <2>3, <2>9, <3>2
    <3>3. CASE j # Len(accepted) + 1
      <4>1. i \in DOMAIN accepted /\ j \in DOMAIN accepted
        BY <2>4, <3>1, <3>3
      <4>2. accepted'[i] = accepted[i] /\ accepted'[j] = accepted[j]
        BY <2>3, <2>4, <4>1
      <4>3. QED BY <3>1, <4>1, <4>2 DEF TInv, Taken
    <3>4. QED BY <3>2, <3>3
  <2>11. Taken'
    BY <1>1, <2>1, <2>8, <2>9, <2>10 DEF Taken, Drawn
  <2>12. QED BY <1>5, <2>6, <2>6b, <2>11 DEF TInv
<1>8. QED BY <1>6, <1>7

LEMMA TestPoll ==
    ASSUME TInv, Testing!Poll
    PROVE  TInv'
<1> USE DEF Drawn
<1>1. /\ testAt = "poll" /\ testAt' = "pace" /\ prior' \subseteq TestButton
      /\ buttonEnds' = [b \in TestButton |-> IF b \in prior' THEN "down"
                                         ELSE IF b \in prior THEN "up"
                                         ELSE buttonEnds[b]]
      /\ UNCHANGED <<kind, testResults, stepTick, lastReport, accepted, exitCode,
                     callFailed>>
  BY DEF Testing!Poll, Testing!screen, TInv, TestTypes
<1>2. TestTypes' /\ Pressed'
  BY <1>1 DEF TInv, TestTypes, Pressed
<1>3. Steady' /\ Noted' /\ Submitted' /\ Testing!HonestReport'
  BY <1>1 DEF TInv, Steady, Noted, Submitted, Testing!HonestReport, step
<1>4. Taken'
  BY <1>1 DEF TInv, Taken, step
<1>5. QED BY <1>2, <1>3, <1>4 DEF TInv

(* A new step has a number that no picture has had. *)
LEMMA TestPace ==
    ASSUME TInv, Testing!Pace
    PROVE  TInv'
<1> USE DEF Drawn
<1>1. /\ testAt = "pace" /\ testAt' \in {"draw", "close"}
      /\ UNCHANGED <<kind, lastReport, accepted, exitCode, callFailed>>
  BY DEF Testing!Pace
<1>2. testResults \in Seq(StepResult) /\ step > 0 /\ step \in Nat /\ stepTick \in Nat
  BY <1>1, LenProperties DEF TInv, TestTypes, Steady, step
<1>3. \A n \in 1..step : testResults[n].submissions > 0
  BY <1>1 DEF TInv, Submitted
<1>4. Testing!HonestReport'
  BY <1>1 DEF Testing!HonestReport
<1>5. CASE /\ testAt' = "draw" /\ stepTick' = stepTick + 1
           /\ UNCHANGED <<testResults, prior, buttonEnds>>
  <2>1. TestTypes' /\ Pressed' /\ Steady' /\ Noted' /\ Submitted'
    BY <1>1, <1>2, <1>3, <1>5
    DEF TInv, TestTypes, Pressed, Steady, Noted, Submitted, step
  <2>2. Taken'
    BY <1>1, <1>5 DEF TInv, Taken, step
  <2>3. QED BY <1>4, <2>1, <2>2 DEF TInv
<1>6. CASE /\ testAt' = "draw" /\ stepTick' = 0
           /\ testResults' = Append(testResults, Testing!NewStep)
           /\ UNCHANGED <<prior, buttonEnds>>
  <2>1. Testing!NewStep \in StepResult /\ Testing!NewStep.submissions = 0
        /\ Testing!NewStep.error = FALSE
    BY DEF Testing!NewStep, StepResult
  <2>2. /\ testResults' \in Seq(StepResult) /\ step' = step + 1
        /\ \A n \in 1..step : testResults'[n] = testResults[n]
        /\ testResults'[step + 1] = Testing!NewStep
    BY <1>2, <1>6, <2>1, AppendProperties DEF step
  <2>3. TestTypes' /\ Pressed' /\ Steady'
    BY <1>1, <1>2, <1>6, <2>2 DEF TInv, TestTypes, Pressed, Steady
  <2>4. Noted'
    <3>1. callFailed <=> \E n \in 1..step : testResults[n].error
      BY <1>1 DEF TInv, Noted
    <3>2. (\E n \in 1..step' : testResults'[n].error)
            <=> \E n \in 1..step : testResults[n].error
      <4>1. \A n \in 1..step' : n \in 1..step \/ n = step + 1
        BY <1>2, <2>2
      <4>2. 1..step \subseteq 1..step'
        BY <1>2, <2>2
      <4>3. ~testResults'[step + 1].error
        BY <2>1, <2>2
      <4>4. QED BY <2>2, <4>1, <4>2, <4>3
    <3>3. callFailed' = callFailed
      BY <1>1
    <3>4. QED BY <3>1, <3>2, <3>3, Zenon DEF Noted
  <2>5. \A t \in Nat : lastReport # <<step + 1, t>>
    <3>1. PICK t \in Nat : lastReport = <<step, t>>
      BY <1>1 DEF TInv, Submitted
    <3>2. QED BY <1>2, <3>1
  <2>6. Submitted'
    <3>1. ASSUME NEW n \in 1..step'
          PROVE  \/ testResults'[n].submissions > 0
                 \/ /\ n = step' /\ testAt' = "draw"
                    /\ \A t \in Nat : lastReport' # <<step', t>>
      <4>1. CASE n = step + 1
        BY <1>1, <1>6, <2>2, <2>5, <4>1
      <4>2. CASE n # step + 1
        BY <1>2, <1>3, <2>2, <3>1, <4>2
      <4>3. QED BY <4>1, <4>2
    <3>2. QED BY <1>6, <3>1 DEF Submitted
  <2>7. Taken'
    <3>1. \A i \in DOMAIN accepted : accepted[i][1] \in 1..step'
      BY <1>1, <1>2, <2>2 DEF TInv, Taken
    <3>2. ASSUME NEW n \in 1..step', testResults'[n].submissions > 0
          PROVE  \E i \in DOMAIN accepted : accepted[i][1] = n
      <4>1. n \in 1..step
        BY <1>2, <2>1, <2>2, <3>2
      <4>2. QED BY <2>2, <3>2, <4>1 DEF TInv, Taken
    <3>3. QED BY <1>1, <1>6, <3>1, <3>2 DEF TInv, Taken
  <2>8. QED BY <1>4, <2>3, <2>4, <2>6, <2>7 DEF TInv
<1>7. CASE /\ step = Steps /\ testAt' = "close" /\ Testing!Disconnect
           /\ UNCHANGED <<testResults, stepTick>>
  <2>1. TestTypes' /\ Pressed' /\ Steady' /\ Noted' /\ Submitted'
    BY <1>1, <1>2, <1>3, <1>7, Released
    DEF TInv, TestTypes, Pressed, Steady, Noted, Submitted, step
  <2>2. Taken'
    BY <1>1, <1>7 DEF TInv, Taken, step
  <2>3. QED BY <1>4, <2>1, <2>2 DEF TInv
<1>8. QED
  BY <1>5, <1>6, <1>7 DEF Testing!Pace, Testing!buttons, Testing!step, step

LEMMA TestClose ==
    ASSUME TInv, Testing!Close
    PROVE  TInv'
<1> USE DEF Drawn
<1>1. /\ testAt = "close" /\ testAt' = "report"
      /\ UNCHANGED <<kind, stepTick, lastReport, prior, buttonEnds, exitCode>>
  BY DEF Testing!Close, Testing!buttons
<1>2. testResults \in Seq(StepResult) /\ step > 0 /\ step \in Nat
  BY <1>1, LenProperties DEF TInv, TestTypes, Steady, step
<1>3. Testing!HonestReport'
  BY <1>1 DEF Testing!HonestReport
<1>4. CASE kind # "virtual" /\ accepted' = Append(accepted, Testing!Blank)
           /\ UNCHANGED <<testResults, callFailed>>
  <2>1. Testing!Blank \in TestPicture /\ accepted \in Seq(TestPicture)
    BY DEF Testing!Blank, TestPicture, TInv, TestTypes
  <2>2. /\ accepted' \in Seq(TestPicture) /\ Len(accepted') = Len(accepted) + 1
        /\ \A i \in 1..Len(accepted) : accepted'[i] = accepted[i]
        /\ accepted'[Len(accepted) + 1] = Testing!Blank
    BY <1>4, <2>1, AppendProperties
  <2>3. /\ Len(accepted) \in Nat /\ DOMAIN accepted = 1..Len(accepted)
        /\ DOMAIN accepted' = 1..(Len(accepted) + 1)
    BY <2>1, <2>2, LenProperties
  <2>4. TestTypes' /\ Pressed' /\ Steady' /\ Noted' /\ Submitted'
    BY <1>1, <1>4, <2>2 DEF TInv, TestTypes, Pressed, Steady, Noted, Submitted, step
  <2>5. \A n \in 1..step :
            testResults[n].submissions > 0 =>
                \E i \in DOMAIN accepted' : accepted'[i][1] = n
    <3>1. SUFFICES ASSUME NEW n \in 1..step, testResults[n].submissions > 0
                   PROVE  \E i \in DOMAIN accepted' : accepted'[i][1] = n
      OBVIOUS
    <3>2. PICK i \in DOMAIN accepted : accepted[i][1] = n
      BY <3>1 DEF TInv, Taken
    <3>3. QED BY <2>2, <2>3, <3>2
  <2>6. \A i, j \in DOMAIN accepted' :
            (i < j /\ accepted'[j] # Testing!Blank) => accepted'[i][1] <= accepted'[j][1]
    <3>1. SUFFICES ASSUME NEW i \in DOMAIN accepted', NEW j \in DOMAIN accepted',
                          i < j, accepted'[j] # Testing!Blank
                   PROVE  accepted'[i][1] <= accepted'[j][1]
      OBVIOUS
    <3>2. i \in DOMAIN accepted /\ j \in DOMAIN accepted
      BY <2>2, <2>3, <3>1
    <3>3. accepted'[i] = accepted[i] /\ accepted'[j] = accepted[j]
      BY <2>2, <2>3, <3>2
    <3>4. QED BY <3>1, <3>2, <3>3 DEF TInv, Taken
  <2>7. Taken'
    BY <1>1, <1>4, <2>2, <2>5, <2>6 DEF Taken, step
  <2>8. QED BY <1>3, <2>4, <2>7 DEF TInv
<1>5. CASE /\ kind # "virtual" /\ testResults' = Testing!Record("error", TRUE)
           /\ callFailed' = TRUE /\ UNCHANGED accepted
  <2>1. /\ testResults' \in Seq(StepResult) /\ step' = step
        /\ \A n \in 1..step :
              /\ testResults'[n].submissions = testResults[n].submissions
              /\ testResults'[n].error = IF n = step THEN TRUE ELSE testResults[n].error
    BY <1>2, <1>5, Recorded DEF step
  <2>2. TestTypes' /\ Pressed' /\ Steady' /\ Submitted'
    BY <1>1, <1>2, <1>5, <2>1 DEF TInv, TestTypes, Pressed, Steady, Submitted
  <2>3. Noted'
    <3>1. step \in 1..step
      BY <1>2
    <3>2. QED BY <1>1, <1>5, <2>1, <3>1 DEF Noted
  <2>4. Taken'
    BY <1>1, <1>5, <2>1 DEF TInv, Taken
  <2>5. QED BY <1>3, <2>2, <2>3, <2>4 DEF TInv
<1>6. CASE kind = "virtual" /\ UNCHANGED <<accepted, testResults, callFailed>>
  <2>1. TestTypes' /\ Pressed' /\ Steady' /\ Noted' /\ Submitted'
    BY <1>1, <1>6 DEF TInv, TestTypes, Pressed, Steady, Noted, Submitted, step
  <2>2. Taken'
    BY <1>1, <1>6 DEF TInv, Taken, step
  <2>3. QED BY <1>3, <2>1, <2>2 DEF TInv
<1>7. QED BY <1>4, <1>5, <1>6 DEF Testing!Close

LEMMA TestReports ==
    ASSUME TInv, Testing!ReportTestResults
    PROVE  TInv'
<1> USE DEF Drawn
<1>1. /\ testAt = "report" /\ testAt' = "done"
      /\ exitCode' = IF \A n \in 1..step : /\ ~testResults[n].error
                                           /\ testResults[n].submissions > 0
                     THEN 0 ELSE 4
      /\ UNCHANGED <<kind, testResults, stepTick, lastReport, accepted, prior, buttonEnds,
                     callFailed>>
  BY DEF Testing!ReportTestResults, Testing!screen, Testing!buttons, Testing!step, step
<1>2. callFailed <=> \E n \in 1..step : testResults[n].error
  BY <1>1 DEF TInv, Noted
<1>3. ~callFailed => step = Steps /\ \A n \in 1..step : testResults[n].submissions > 0
  BY <1>1 DEF TInv, Submitted
<1>4. exitCode' = 0 <=> ~callFailed
  BY <1>1, <1>2, <1>3
<1>5. \A b \in TestButton : buttonEnds[b] # "down"
  BY <1>1 DEF TInv, Pressed
<1>6. ~callFailed =>
          /\ \A n \in 1..Steps : \E i \in DOMAIN accepted : accepted[i][1] = n
          /\ \A i, j \in DOMAIN accepted :
                (i < j /\ accepted[j] # Testing!Blank) => accepted[i][1] <= accepted[j][1]
          /\ kind # "virtual" => accepted[Len(accepted)] = Testing!Blank
  BY <1>1, <1>3 DEF TInv, Taken
<1>7. Testing!HonestReport'
  BY <1>1, <1>4, <1>5, <1>6 DEF Testing!HonestReport
<1>8. TestTypes' /\ Pressed' /\ Steady' /\ Noted' /\ Submitted'
  BY <1>1 DEF TInv, TestTypes, Pressed, Steady, Noted, Submitted, step
<1>9. Taken'
  BY <1>1 DEF TInv, Taken, step
<1>10. QED BY <1>7, <1>8, <1>9 DEF TInv

LEMMA TInvNext ==
    ASSUME TInv, [Testing!Next]_(Testing!vars)
    PROVE  TInv'
<1>1. CASE Testing!LcoreChanges
  BY <1>1, TestKept DEF Testing!LcoreChanges, Testing!screen, Testing!buttons
<1>2. CASE UNCHANGED Testing!vars
  BY <1>2, TestKept DEF Testing!vars, Testing!screen, Testing!buttons
<1>3. QED
  BY <1>1, <1>2, TestBegins, TestTransportFails, TestDraw, TestPoll, TestPace, TestClose,
     TestReports
  DEF Testing!Next

(* The exit code of the hardware test is 0 exactly when no call of the device *)
(* failed, and then the device took the pictures of every step in their order *)
(* and was left blank, for every number of steps and every set of buttons     *)
(* (run_step, record_final_error, report_test_results). *)
THEOREM ReportsHonestly == Testing!Spec => []HonestReport
<1>1. TInv => HonestReport
  BY DEF TInv, HonestReport
<1>2. QED
  BY TInvInit, TInvNext, <1>1, PTL DEF Testing!Spec

Kinds == {"auto", "sdk", "hid", "virtual"}
Stages == {"select", "open", "draw", "poll", "pace", "close", "report", "done"}
Codes == 0..4 \cup {9}

TestBounds ==
    /\ lcore \in BOOLEAN /\ kind \in Kinds /\ testAt \in Stages
    /\ step <= Steps /\ stepTick <= MaxTicks /\ exitCode \in Codes

LEMMA ExitCodes == {0, 1, 2, 3, 4, 9} \subseteq Codes
BY DEF Codes

LEMMA TestTyped ==
    ASSUME TInv, TestBounds
    PROVE  Testing!TypeOK
<1>1. {lcore, callFailed} \subseteq BOOLEAN
  <2>1. lcore \in BOOLEAN /\ callFailed \in BOOLEAN
    BY DEF TestBounds, TInv, TestTypes
  <2>2. QED BY <2>1, Zenon
<1>2. stepTick \in 0..MaxTicks
  BY BoundsAssumption DEF TestBounds, TInv, TestTypes
<1>3. /\ prior \subseteq TestButton
      /\ buttonEnds \in [TestButton -> {"down", "up", "canceled"}]
  BY DEF TInv, TestTypes
<1>4. /\ kind \in {"auto", "sdk", "hid", "virtual"}
      /\ testAt \in {"select", "open", "draw", "poll", "pace", "close", "report", "done"}
      /\ exitCode \in 0..4 \cup {Testing!NotEnded} /\ Testing!step <= Steps
  BY DEF TestBounds, Kinds, Stages, Codes, Testing!NotEnded, Testing!step, step
<1>5. QED BY <1>1, <1>2, <1>3, <1>4, Zenon DEF Testing!TypeOK

LEMMA TestBoundsInit == Testing!Init => TestBounds
<1> SUFFICES ASSUME Testing!Init PROVE TestBounds
  OBVIOUS
<1>1. /\ testAt = "select" /\ testResults = <<>> /\ stepTick = 0 /\ exitCode = 9
      /\ kind \in Kinds
  BY DEF Testing!Init, Testing!NotEnded, Kinds
<1>2. lcore \in BOOLEAN
  BY Zenon DEF Testing!Init
<1>3. "select" \in Stages
  BY DEF Stages
<1>4. step <= Steps /\ stepTick <= MaxTicks
  BY <1>1, BoundsAssumption DEF step
<1>5. QED BY <1>1, <1>2, <1>3, <1>4, ExitCodes DEF TestBounds

LEMMA TestBoundsNext ==
    ASSUME TInv, TestBounds, [Testing!Next]_(Testing!vars)
    PROVE  TestBounds'
<1> DEFINE Rests == UNCHANGED <<testResults, stepTick>>
<1>1. step \in Nat /\ stepTick \in Nat
  BY LenProperties DEF TInv, TestTypes, step
<1>2. lcore' \in BOOLEAN
  <2>1. lcore' = lcore \/ lcore' = ~lcore
    BY Zenon DEF Testing!Next, Testing!CannotStart, Testing!Select, Testing!Open,
      Testing!TransportFails, Testing!Draw, Testing!Poll, Testing!Pace, Testing!Close,
      Testing!ReportTestResults, Testing!LcoreChanges, Testing!vars
  <2>2. QED BY <2>1, Zenon DEF TestBounds
<1>3. testAt' \in Stages
  BY DEF TestBounds, Stages, Testing!Next, Testing!CannotStart, Testing!Select, Testing!Open,
      Testing!TransportFails, Testing!Draw, Testing!Poll, Testing!Pace, Testing!Close,
      Testing!ReportTestResults, Testing!LcoreChanges, Testing!vars
<1>4. kind' \in Kinds
  BY DEF TestBounds, Kinds, Testing!Next, Testing!CannotStart, Testing!Select, Testing!Open,
      Testing!TransportFails, Testing!Draw, Testing!Poll, Testing!Pace, Testing!Close,
      Testing!ReportTestResults, Testing!LcoreChanges, Testing!vars
<1>5. exitCode' \in Codes
  <2>1. exitCode' = exitCode \/ exitCode' \in {1, 2} \/ exitCode' = 3 \/ exitCode' = 0
        \/ exitCode' = 4
    BY Zenon DEF Testing!Next, Testing!CannotStart, Testing!Select, Testing!Open,
      Testing!TransportFails, Testing!Draw, Testing!Poll, Testing!Pace, Testing!Close,
      Testing!ReportTestResults, Testing!LcoreChanges, Testing!vars
  <2>2. QED BY <2>1, ExitCodes DEF TestBounds
<1>6. CASE Testing!CannotStart \/ Testing!Select \/ Testing!Poll
           \/ Testing!ReportTestResults \/ Testing!LcoreChanges \/ UNCHANGED Testing!vars
  <2>1. Rests
    BY <1>6, Zenon DEF Testing!CannotStart, Testing!Select, Testing!Poll,
      Testing!ReportTestResults, Testing!LcoreChanges, Testing!vars, Testing!screen
  <2>2. QED BY <1>2, <1>3, <1>4, <1>5, <2>1 DEF TestBounds, step
<1>7. CASE Testing!Open
  <2>1. testResults' = <<[submissions |-> 0, error |-> FALSE]>> /\ stepTick' = stepTick
    BY <1>7 DEF Testing!Open, Testing!NewStep
  <2>2. step' = 1
    BY <2>1 DEF step
  <2>3. step' <= Steps
    BY <2>2, BoundsAssumption
  <2>4. QED BY <1>2, <1>3, <1>4, <1>5, <2>1, <2>3 DEF TestBounds
<1>8. CASE Testing!TransportFails \/ Testing!Draw \/ Testing!Close
  <2>1. step > 0
    BY <1>8 DEF TInv, Steady, Drawn, Testing!TransportFails, Testing!Draw, Testing!Close
  <2>2. testResults' \in {testResults, Testing!Record("error", TRUE),
                          Testing!Record("submissions", 1)}
    BY <1>8, Zenon DEF Testing!TransportFails, Testing!Draw, Testing!Close
  <2>3. step' = step
    BY <2>1, <2>2, Recorded DEF TInv, TestTypes, step
  <2>4. stepTick' = stepTick
    BY <1>8, Zenon DEF Testing!TransportFails, Testing!Draw, Testing!Close
  <2>5. QED BY <1>2, <1>3, <1>4, <1>5, <2>3, <2>4 DEF TestBounds
<1>9. CASE Testing!Pace
  <2>1. \/ stepTick < MaxTicks /\ stepTick' = stepTick + 1 /\ UNCHANGED testResults
        \/ /\ step < Steps /\ stepTick' = 0
           /\ testResults' = Append(testResults, Testing!NewStep)
        \/ Rests
    BY <1>9, Zenon DEF Testing!Pace, Testing!step, step
  <2>2. stepTick' <= MaxTicks
    BY <1>1, <2>1, BoundsAssumption DEF TestBounds
  <2>3. step' <= Steps
    <3>1. CASE UNCHANGED testResults
      BY <3>1 DEF TestBounds, step
    <3>2. CASE step < Steps /\ testResults' = Append(testResults, Testing!NewStep)
      <4>1. step' = step + 1
        BY <3>2 DEF TInv, TestTypes, step
      <4>2. QED BY <1>1, <3>2, <4>1, BoundsAssumption
    <3>3. QED BY <2>1, <3>1, <3>2
  <2>4. QED BY <1>2, <1>3, <1>4, <1>5, <2>2, <2>3 DEF TestBounds
<1>10. QED
  BY <1>6, <1>7, <1>8, <1>9, Zenon DEF Testing!Next

(* The types of HardwareTest: there is never a step more than there are       *)
(* pictures, and a code that is one of the program's (run_hardware_test). *)
THEOREM TestTypesKept == Testing!Spec => []Testing!TypeOK
BY TInvInit, TInvNext, TestBoundsInit, TestBoundsNext, TestTyped, PTL DEF Testing!Spec
=============================================================================
