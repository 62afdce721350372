-------------------------- MODULE PublicationProofs --------------------------
(* Proofs about Publication, for any settings, number of scans that confirm   *)
(* a window, saves and results in the channel.                                *)
EXTENDS Publication, WellFoundedInduction, SequenceTheorems, TLAPS

----------------------------------------------------------------------------
(* The last result of a generation in the channel.                           *)

LEMMA Least ==
    ASSUME NEW S \in SUBSET Nat, S # {}
    PROVE  \E x \in S : \A y \in S : x <= y
<1> DEFINE R == OpToRel(<, Nat)
<1>1. IsWellFoundedOn(R, Nat)
  BY NatLessThanWellFounded
<1>2. \A x, y \in Nat : x < y => <<x, y>> \in R
  BY DEF OpToRel
<1> HIDE DEF R
<1>3. PICK x \in S : \A y \in S : ~(<<y, x>> \in R)
  BY <1>1, WFMin
<1>4. \A y \in S : ~(y < x)
  BY <1>2, <1>3
<1>5. QED BY <1>4

LEMMA Greatest ==
    ASSUME NEW n \in Nat, NEW S \in SUBSET (1..n), S # {}
    PROVE  Max(S) \in S
<1> DEFINE T == {n - x : x \in S}
<1>1. T \in SUBSET Nat /\ T # {}
  <2>1. \A x \in 1..n : n - x \in Nat
    OBVIOUS
  <2>2. QED BY <2>1
<1>2. PICK y \in T : \A z \in T : y <= z
  BY <1>1, Least
<1>3. PICK x \in S : y = n - x
  OBVIOUS
<1>4. ASSUME NEW z \in S PROVE x >= z
  <2>1. n - x <= n - z
    BY <1>2, <1>3
  <2>2. QED BY <2>1
<1>5. QED BY <1>3, <1>4 DEF Max

LEMMA LastOfGeneration ==
    ASSUME NEW R, channel \in Seq(R), NEW gen, NEW before
    PROVE  \/ Drained(gen, before) = before
           \/ \E i \in DOMAIN channel :
                 Drained(gen, before) = channel[i] /\ channel[i].gen = gen
<1> DEFINE own == {i \in DOMAIN channel : channel[i].gen = gen}
<1>1. CASE own = {}
  BY <1>1 DEF Drained
<1>2. CASE own # {}
  <2>1. own \in SUBSET (1..Len(channel)) /\ Len(channel) \in Nat
    BY LenProperties
  <2>2. Max(own) \in own
    BY <1>2, <2>1, Greatest
  <2>3. Drained(gen, before) = channel[Max(own)]
    BY <1>2 DEF Drained
  <2>4. QED BY <2>2, <2>3
<1>3. QED BY <1>1, <1>2

----------------------------------------------------------------------------
(* Types.                                                                    *)

Gens == 0..generation

PType ==
    /\ TypeOK
    /\ channel \in Seq(Listing(Gens))
    /\ inForce \in Seq(Settings)

(* More generations allow for more results. *)
LEMMA ListingGrows ==
    ASSUME NEW g \in Nat
    PROVE  Listing(0..g) \subseteq Listing(0..(g + 1))
<1>1. 0..g \subseteq 0..(g + 1)
  OBVIOUS
<1>2. QED BY <1>1 DEF Listing

LEMMA NothingListed ==
    ASSUME NEW G, NEW g \in G
    PROVE  /\ Nothing(g) \in Listing(G)
           /\ Nothing(g).gen = g /\ Nothing(g).under = {}
BY DEF Nothing, Result, Listing

LEMMA Relabeled ==
    ASSUME NEW G, NEW r \in Listing(G), NEW g \in G
    PROVE  /\ [r EXCEPT !.gen = g] \in Listing(G)
           /\ [r EXCEPT !.gen = g].gen = g
           /\ [r EXCEPT !.gen = g].under = r.under
BY DEF Listing

LEMMA PTypeInit == Init => PType
<1> SUFFICES ASSUME Init PROVE PType
  OBVIOUS
<1>1. running \in Settings
  BY PublicationAssumption DEF Init, Settings
<1>2. generation = 1 /\ inForce = <<running>> /\ Len(inForce) = 1 /\ inForce \in Seq(Settings)
  BY <1>1 DEF Init
<1>3. {telemetry, latest, update} \subseteq Listing(Gens)
  BY <1>2, NothingListed DEF Init, NoUpdate, Gens
<1>4. asked \in [Worker -> [at : {"before", "config", "after", "done"},
                            before : Gens, cfg : Settings]]
  BY <1>2, PublicationAssumption DEF Init, NotAsked, Settings, Meaning, Gens
<1>5. tracker \in [failures : 0..Failures, under : SUBSET Gens]
  BY PublicationAssumption DEF Init, NoRecord
<1>6. channel = << >>
  BY DEF Init
<1>7. /\ file \in [version : 0..MaxSaves, is : Meaning \cup {"invalid"}]
      /\ signature \in 0..MaxSaves /\ events \in 0..MaxEvents
  <2>1. 0 \in 0..MaxSaves /\ 0 \in 0..MaxEvents
    BY PublicationAssumption
  <2>2. file \in [version : 0..MaxSaves, is : Meaning \cup {"invalid"}]
    BY <2>1, PublicationAssumption DEF Init
  <2>3. QED BY <2>1, <2>2 DEF Init
<1>8. TypeOK
  <2>1. /\ main \in {"boot", "drain", "take", "raise"}
        /\ locked \in BOOLEAN /\ notified \in BOOLEAN /\ disabled \in BOOLEAN
        /\ pc \in {"ask", "scan", "scanned"}
        /\ seen \in {"none", "hung", "responsive", "error"}
        /\ hung \in BOOLEAN
    BY DEF Init
  <2>2. config \in Settings /\ current \in Gens /\ merged \in Gens
        /\ generation \in Nat \ {0} /\ Len(inForce) = generation
    BY <1>1, <1>2 DEF Init, Gens
  <2>3. \A i \in DOMAIN channel : channel[i] \in Listing(Gens)
    BY <1>6
  <2>4. QED
    BY <1>1, <1>3, <1>4, <1>5, <1>7, <2>1, <2>2, <2>3 DEF TypeOK, Gens
<1>9. QED BY <1>2, <1>6, <1>8, EmptySeq DEF PType


(* A request that is answered carries a generation and settings. *)
LEMMA AnswerTyped ==
    ASSUME PType, NEW w \in Worker
    PROVE  Gen(w) \in Gens /\ Cfg(w) \in Settings
BY DEF PType, TypeOK, Gens, Gen, Cfg

LEMMA SetTyped ==
    ASSUME PType, NEW w \in Worker, NEW at \in {"before", "config", "after", "done"},
           NEW before \in Gens, NEW settings \in Settings, Set(w, at, before, settings)
    PROVE  asked' \in [Worker -> [at : {"before", "config", "after", "done"},
                                  before : Gens, cfg : Settings]]
BY DEF PType, TypeOK, Gens, Set

LEMMA NotAskedTyped ==
    ASSUME PType
    PROVE  NotAsked \in [at : {"before", "config", "after", "done"}, before : Gens,
                         cfg : Settings]
BY PublicationAssumption DEF PType, TypeOK, NotAsked, Gens, Settings, Meaning

LEMMA ForgetTyped ==
    ASSUME PType, NEW w \in Worker, Forget(w)
    PROVE  asked' \in [Worker -> [at : {"before", "config", "after", "done"},
                                  before : Gens, cfg : Settings]]
BY NotAskedTyped DEF PType, TypeOK, Gens, Forget

LEMMA SendTyped ==
    ASSUME PType, NEW results \in Seq(Listing(Gens)), Send(results)
    PROVE  channel' \in Seq(Listing(Gens))
BY DEF PType, Send

(* A step under one generation, seen part by part. *)
LEMMA SameGeneration ==
    ASSUME PType, UNCHANGED <<generation, inForce>>,
           file' \in [version : 0..MaxSaves, is : Meaning \cup {"invalid"}],
           main' \in {"boot", "drain", "take", "raise"},
           running' \in Settings /\ config' \in Settings,
           signature' \in 0..MaxSaves,
           {telemetry', latest', update'} \subseteq Listing(Gens),
           locked' \in BOOLEAN /\ notified' \in BOOLEAN,
           asked' \in [Worker -> [at : {"before", "config", "after", "done"},
                                  before : Gens, cfg : Settings]],
           pc' \in {"ask", "scan", "scanned"},
           current' \in Gens /\ merged' \in Gens,
           tracker' \in [failures : 0..Failures, under : SUBSET Gens],
           seen' \in {"none", "hung", "responsive", "error"} /\ disabled' \in BOOLEAN,
           channel' \in Seq(Listing(Gens)),
           hung' \in BOOLEAN /\ events' \in 0..MaxEvents
    PROVE  PType'
<1>1. \A i \in DOMAIN channel' : channel'[i] \in Listing(Gens)
  BY LenProperties, ElementOfSeq
<1>2. Gens' = Gens
  BY DEF Gens
<1>3. TypeOK'
  BY <1>1 DEF PType, TypeOK, Gens
<1>4. QED BY <1>2, <1>3 DEF PType

LEMMA PTypeNext ==
    ASSUME PType, [Next]_vars
    PROVE  PType'
<1> USE DEF app, shared, slot, detector, coordinator, world
<1>1. /\ file \in [version : 0..MaxSaves, is : Meaning \cup {"invalid"}]
      /\ main \in {"boot", "drain", "take", "raise"}
      /\ running \in Settings /\ config \in Settings /\ signature \in 0..MaxSaves
      /\ {telemetry, latest, update} \subseteq Listing(Gens)
      /\ locked \in BOOLEAN /\ notified \in BOOLEAN
      /\ generation \in Nat \ {0} /\ Len(inForce) = generation
      /\ asked \in [Worker -> [at : {"before", "config", "after", "done"},
                               before : Gens, cfg : Settings]]
      /\ pc \in {"ask", "scan", "scanned"}
      /\ current \in Gens /\ merged \in Gens
      /\ tracker \in [failures : 0..Failures, under : SUBSET Gens]
      /\ seen \in {"none", "hung", "responsive", "error"} /\ disabled \in BOOLEAN
      /\ channel \in Seq(Listing(Gens))
      /\ hung \in BOOLEAN /\ events \in 0..MaxEvents
      /\ inForce \in Seq(Settings)
      /\ 0 \in Gens /\ generation \in Gens
  BY DEF PType, TypeOK, Gens
<1>2. NoRecord \in [failures : 0..Failures, under : SUBSET Gens]
  BY PublicationAssumption DEF NoRecord
<1>3. file.version \in 0..MaxSaves
  BY <1>1
<1>4. CASE Watch
  BY <1>1, <1>3, <1>4, SameGeneration DEF Watch
<1>5. CASE TryRecv
  BY <1>1, <1>5, SameGeneration DEF TryRecv
<1>6. CASE Take
  <2>1. NoUpdate \in Listing(Gens)
    BY <1>1, NothingListed DEF NoUpdate
  <2>2. {telemetry', latest', update'} \subseteq Listing(Gens)
    BY <1>1, <1>6, <2>1 DEF Take
  <2>3. QED BY <1>1, <1>6, <2>2, SameGeneration DEF Take
<1>7. CASE Reload
  <2>1. file \in Settings
    BY <1>1, <1>7 DEF Reload, FileChanged, Settings
  <2>2. QED BY <1>1, <1>7, <2>1, SameGeneration DEF Reload
<1>8. CASE Raise
  <2>1. generation' = generation + 1 /\ generation' \in Nat \ {0}
        /\ inForce' = Append(inForce, running)
    BY <1>1, <1>8 DEF Raise
  <2>2. inForce' \in Seq(Settings) /\ Len(inForce') = generation'
    BY <1>1, <2>1, AppendProperties
  <2>3. Gens \subseteq Gens' /\ Listing(Gens) \subseteq Listing(Gens')
    BY <1>1, <2>1, ListingGrows DEF Gens
  <2>4. Nothing(generation') \in Listing(Gens')
    <3>1. generation' \in Gens'
      BY <2>1 DEF Gens
    <3>2. QED BY <3>1, NothingListed
  <2>5. {telemetry', latest', update'} \subseteq Listing(Gens')
    BY <1>1, <1>8, <2>3, <2>4 DEF Raise
  <2>6. asked' \in [Worker -> [at : {"before", "config", "after", "done"},
                               before : Gens', cfg : Settings]]
    BY <1>1, <1>8, <2>3 DEF Raise
  <2>7. tracker' \in [failures : 0..Failures, under : SUBSET Gens']
    BY <1>1, <1>8, <2>3 DEF Raise
  <2>8. /\ channel' \in Seq(Listing(Gens'))
        /\ \A i \in DOMAIN channel' : channel'[i] \in Listing(Gens')
    <3>1. channel' = channel
      BY <1>8 DEF Raise
    <3>2. \A i \in 1..Len(channel) : channel[i] \in Listing(Gens')
      BY <1>1, <2>3, ElementOfSeq
    <3>3. channel \in Seq(Listing(Gens'))
      BY <1>1, <3>2, LenProperties
    <3>4. QED BY <1>1, <3>1, <3>2, <3>3, LenProperties
  <2>9. current' \in Gens' /\ merged' \in Gens'
    BY <1>1, <1>8, <2>3 DEF Raise
  <2>10. TypeOK'
    BY <1>1, <1>3, <1>8, <2>1, <2>2, <2>5, <2>6, <2>7, <2>8, <2>9 DEF Raise, TypeOK, Gens
  <2>11. QED BY <2>2, <2>8, <2>10 DEF PType
<1>9. ASSUME NEW w \in Worker, Ask(w) PROVE PType'
  <2>1. asked[w].cfg \in Settings /\ asked[w].before \in Gens
    BY <1>1
  <2>2. 0 \in Gens /\ NotAsked.cfg \in Settings
    BY <1>1, PublicationAssumption DEF NotAsked, Settings, Meaning
  <2>3. asked' \in [Worker -> [at : {"before", "config", "after", "done"},
                               before : Gens, cfg : Settings]]
    BY <1>1, <1>9, <2>1, <2>2, SetTyped DEF Ask
  <2>4. QED BY <1>1, <1>9, <2>3, SameGeneration DEF Ask
<1>10. CASE Turn
  <2> DEFINE gen == Gen("detector")
  <2>1. gen \in Gens /\ Cfg("detector") \in Settings
    BY AnswerTyped DEF Worker
  <2>2. asked' \in [Worker -> [at : {"before", "config", "after", "done"},
                               before : Gens, cfg : Settings]]
    BY <1>10, ForgetTyped DEF Turn, Worker
  <2>3. /\ << >> \in Seq(Listing(Gens)) /\ <<Nothing(gen)>> \in Seq(Listing(Gens))
        /\ <<Nothing(gen)>> \o <<Nothing(gen)>> \in Seq(Listing(Gens))
        /\ <<Nothing(gen)>> \o << >> \in Seq(Listing(Gens))
        /\ << >> \o <<Nothing(gen)>> \in Seq(Listing(Gens))
        /\ << >> \o << >> \in Seq(Listing(Gens))
    BY <2>1, NothingListed
  <2>4. \E results \in Seq(Listing(Gens)) : Send(results)
    BY <1>10, <2>3 DEF Turn
  <2>5. channel' \in Seq(Listing(Gens))
    BY <2>4, SendTyped
  <2>6. /\ tracker' \in [failures : 0..Failures, under : SUBSET Gens]
        /\ pc' \in {"ask", "scan", "scanned"}
        /\ current' \in Gens
    BY <1>1, <1>2, <1>10, <2>1 DEF Turn
  <2>7. disabled' \in BOOLEAN
    BY <1>10 DEF Turn, Active
  <2>8. QED BY <1>1, <1>10, <2>2, <2>5, <2>6, <2>7, SameGeneration DEF Turn
<1>11. CASE Scan
  <2>1. events' \in 0..MaxEvents
    BY <1>1, <1>11, PublicationAssumption DEF Scan
  <2>2. QED BY <1>1, <1>11, <2>1, SameGeneration DEF Scan
<1>12. CASE Discard
  <2>1. Gen("detector") \in Gens
    BY AnswerTyped DEF Worker
  <2>2. asked' \in [Worker -> [at : {"before", "config", "after", "done"},
                               before : Gens, cfg : Settings]]
    BY <1>12, ForgetTyped DEF Discard, Worker
  <2>3. Active(Cfg("detector")) \in BOOLEAN
    BY DEF Active
  <2>4. Result(Gen("detector"), Active(Cfg("detector")), {}) \in Listing(Gens)
    BY <2>1, <2>3 DEF Result, Listing
  <2>5. channel' \in Seq(Listing(Gens))
    <3>1. ASSUME NEW r \in Listing(Gens) PROVE <<r>> \in Seq(Listing(Gens))
      OBVIOUS
    <3>2. QED BY <1>12, <2>4, <3>1, SendTyped DEF Discard
  <2>6. QED BY <1>1, <1>2, <1>12, <2>1, <2>2, <2>3, <2>5, SameGeneration DEF Discard
<1>13. CASE Publish
  <2>1. asked' \in [Worker -> [at : {"before", "config", "after", "done"},
                               before : Gens, cfg : Settings]]
    BY <1>13, ForgetTyped DEF Publish, Worker
  <2>2. tracker.failures \in 0..Failures /\ tracker.under \in SUBSET Gens
    BY <1>1
  <2>3. Updated \in [failures : 0..Failures, under : SUBSET Gens]
    <3>1. (IF tracker.failures < Failures THEN tracker.failures + 1 ELSE Failures) \in 0..Failures
      BY <2>2, PublicationAssumption
    <3>2. tracker.under \cup {current} \in SUBSET Gens
      BY <1>1, <2>2
    <3>3. QED BY <1>2, <3>1, <3>2 DEF Updated
  <2>4. Updated.failures >= Failures => seen = "hung"
    BY PublicationAssumption DEF Updated, NoRecord
  <2>5. Result(current, seen # "error",
               IF Updated.failures >= Failures THEN Updated.under ELSE {}) \in Listing(Gens)
    <3>1. (seen # "error") \in BOOLEAN
      OBVIOUS
    <3>2. (IF Updated.failures >= Failures THEN Updated.under ELSE {}) \in SUBSET Gens
      BY <2>3
    <3>3. (IF Updated.failures >= Failures THEN Updated.under ELSE {}) # {} => seen # "error"
      BY <2>4
    <3>4. QED BY <1>1, <3>1, <3>2, <3>3 DEF Result, Listing
  <2>6. channel' \in Seq(Listing(Gens))
    <3>1. ASSUME NEW r \in Listing(Gens) PROVE <<r>> \in Seq(Listing(Gens))
      OBVIOUS
    <3>2. QED BY <1>13, <2>5, <3>1, SendTyped DEF Publish
  <2>7. QED BY <1>1, <1>13, <2>1, <2>3, <2>6, SameGeneration DEF Publish
<1>14. CASE Merge
  <2> DEFINE gen == Gen("coordinator")
             kept == IF gen = merged THEN update ELSE Nothing(gen)
  <2>1. gen \in Gens
    BY AnswerTyped DEF Worker
  <2>2. asked' \in [Worker -> [at : {"before", "config", "after", "done"},
                               before : Gens, cfg : Settings]]
    BY <1>14, ForgetTyped DEF Merge, Worker
  <2>3. kept \in Listing(Gens) /\ Nothing(gen) \in Listing(Gens)
    BY <1>1, <2>1, NothingListed
  <2> HIDE DEF gen, kept
  <2>4. Drained(gen, kept) \in Listing(Gens)
    BY <1>1, <2>3, LastOfGeneration, LenProperties, ElementOfSeq
  <2>5. update' \in Listing(Gens)
    <3>1. update' = Nothing(gen) \/ update' = [Drained(gen, kept) EXCEPT !.gen = gen]
      BY <1>14 DEF Merge, gen, kept
    <3>2. QED BY <2>1, <2>3, <2>4, <3>1, Relabeled
  <2>6. latest' = update' /\ merged' \in Gens /\ notified' = TRUE /\ channel' = << >>
    BY <1>14, <2>1 DEF Merge, gen
  <2>7. channel' \in Seq(Listing(Gens))
    BY <2>6
  <2>8. QED BY <1>1, <1>14, <2>2, <2>5, <2>6, <2>7, SameGeneration DEF Merge
<1>15. ASSUME NEW meaning \in Meaning \cup {"invalid"}, Save(meaning) PROVE PType'
  <2>1. file.version + 1 \in 0..MaxSaves
    BY <1>3, <1>15, PublicationAssumption DEF Save
  <2>2. file' \in [version : 0..MaxSaves, is : Meaning \cup {"invalid"}]
    BY <1>15, <2>1 DEF Save
  <2>3. QED BY <1>1, <1>15, <2>2, SameGeneration DEF Save
<1>16. CASE Hang
  <2>1. events' \in 0..MaxEvents
    BY <1>1, <1>16, PublicationAssumption DEF Hang
  <2>2. QED BY <1>1, <1>16, <2>1, SameGeneration DEF Hang
<1>17. CASE UNCHANGED vars
  BY <1>1, <1>17, SameGeneration DEF vars
<1>18. QED
  BY <1>4, <1>5, <1>6, <1>7, <1>8, <1>9, <1>10, <1>11, <1>12, <1>13, <1>14, <1>15,
     <1>16, <1>17 DEF Next, Main, Detector, Coordinator, Worker

----------------------------------------------------------------------------
(* Requests. Settings and generation change under the lock, so that outside   *)
(* of it the settings are those of the generation; and a generation is never  *)
(* used again.                                                               *)

Versions ==
    /\ config = running
    /\ main = "raise" => locked
    /\ main # "raise" => inForce[generation] = running

Requests ==
    \A w \in Worker :
        /\ asked[w].at = "after" /\ asked[w].before = generation
             => asked[w].cfg = inForce[generation]
        /\ asked[w].at = "done" =>
             /\ asked[w].before # 0
             /\ asked[w].cfg = inForce[asked[w].before]

RInv == Versions /\ Requests

LEMMA RInvInit == Init => RInv
BY DEF Init, RInv, Versions, Requests, NotAsked

(* The settings of the generations there are stay what they are. *)
LEMMA Remembered ==
    ASSUME PType, NEW settings \in Settings
    PROVE  /\ \A g \in Gens \ {0} : Append(inForce, settings)[g] = inForce[g]
           /\ Append(inForce, settings)[generation + 1] = settings
<1>1. inForce \in Seq(Settings) /\ Len(inForce) = generation /\ generation \in Nat
  BY DEF PType, TypeOK
<1>2. Append(inForce, settings)[generation + 1] = settings
  BY <1>1, AppendProperties
<1>3. \A g \in 1..Len(inForce) : Append(inForce, settings)[g] = inForce[g]
  BY <1>1, AppendProperties
<1>4. Gens \ {0} \subseteq 1..Len(inForce)
  BY <1>1 DEF Gens
<1>5. QED BY <1>2, <1>3, <1>4

(* A step that has nothing to do with settings and requests. *)
LEMMA RequestsStay ==
    ASSUME RInv, UNCHANGED <<config, running, generation, inForce, locked>>,
           main' = "raise" <=> main = "raise",
           \A w \in Worker : asked'[w] \in {asked[w], NotAsked}
    PROVE  RInv'
BY DEF RInv, Versions, Requests, NotAsked

LEMMA RInvNext ==
    ASSUME PType, RInv, [Next]_vars
    PROVE  RInv'
<1> USE DEF app, shared, slot, detector, coordinator, world
<1>1. generation \in Nat /\ generation # 0 /\ generation \in Gens \ {0}
  BY DEF PType, TypeOK, Gens
<1>2. \A w \in Worker : asked[w].before \in Gens
  BY DEF PType, TypeOK, Gens
<1>3. CASE Watch \/ TryRecv \/ Take
  BY <1>3, RequestsStay DEF Watch, TryRecv, Take
<1>4. CASE Reload
  BY <1>4 DEF Reload, RInv, Versions, Requests
<1>5. CASE Raise
  <2>1. /\ running \in Settings
        /\ generation' = generation + 1
        /\ inForce' = Append(inForce, running)
        /\ main' = "drain"
        /\ UNCHANGED <<config, running, asked>>
    BY <1>5 DEF Raise, PType, TypeOK
  <2>2. /\ \A g \in Gens \ {0} : inForce'[g] = inForce[g]
        /\ inForce'[generation'] = running
    BY <2>1, Remembered
  <2>3. generation' \notin Gens
    BY <1>1, <2>1 DEF Gens
  <2>4. QED BY <1>2, <2>1, <2>2, <2>3 DEF RInv, Versions, Requests
<1>6. ASSUME NEW w \in Worker, Ask(w) PROVE RInv'
  <2>1. Versions'
    BY <1>6 DEF Ask, RInv, Versions
  <2>2. \A v \in Worker : v # w => asked'[v] = asked[v]
    BY <1>6 DEF Ask, Set, PType, TypeOK
  <2>3. UNCHANGED <<generation, inForce>>
    BY <1>6 DEF Ask
  <2>4. /\ asked'[w].at = "after" /\ asked'[w].before = generation
             => asked'[w].cfg = inForce[generation]
        /\ asked'[w].at = "done" =>
             /\ asked'[w].before # 0
             /\ asked'[w].cfg = inForce[asked'[w].before]
    <3>1. w \in DOMAIN asked
      BY DEF PType, TypeOK
    <3>2. CASE asked[w].at = "before" /\ Set(w, "config", generation, asked[w].cfg)
      BY <3>1, <3>2 DEF Set
    <3>3. CASE /\ asked[w].at = "config" /\ ~locked
               /\ Set(w, "after", asked[w].before, config)
      <4>1. config = inForce[generation]
        BY <3>3 DEF RInv, Versions
      <4>2. QED BY <3>1, <3>3, <4>1 DEF Set
    <3>4. CASE /\ asked[w].at = "after" /\ asked[w].before = generation
               /\ Set(w, "done", generation, asked[w].cfg)
      BY <1>1, <3>1, <3>4 DEF Set, RInv, Requests
    <3>5. CASE Set(w, "before", 0, NotAsked.cfg)
      BY <3>1, <3>5 DEF Set
    <3>6. QED BY <1>6, <3>2, <3>3, <3>4, <3>5 DEF Ask
  <2>5. Requests'
    BY <2>2, <2>3, <2>4 DEF RInv, Requests
  <2>6. QED BY <2>1, <2>5 DEF RInv
<1>7. CASE Turn \/ Discard \/ Publish \/ Merge
  <2>1. \A w \in Worker : asked'[w] \in {asked[w], NotAsked}
    BY <1>7 DEF Turn, Discard, Publish, Merge, Forget, PType, TypeOK
  <2>2. UNCHANGED <<config, running, generation, inForce, locked, main>>
    BY <1>7 DEF Turn, Discard, Publish, Merge
  <2>3. QED BY <2>1, <2>2, RequestsStay
<1>8. CASE Scan \/ Hang \/ UNCHANGED vars
  BY <1>8, RequestsStay DEF Scan, Hang, vars
<1>9. ASSUME NEW meaning, Save(meaning) PROVE RInv'
  BY <1>9, RequestsStay DEF Save
<1>10. QED
  BY <1>3, <1>4, <1>5, <1>6, <1>7, <1>8, <1>9 DEF Next, Main, Detector, Coordinator, Worker

----------------------------------------------------------------------------
(* Results. What lists the window was confirmed under one generation, whose   *)
(* settings let the detector look; it is named by that generation wherever it *)
(* is on its way to the main loop.                                           *)

Fits(under, g) ==
    under # {} =>
        /\ under = {g}
        /\ g \in Gens \ {0}
        /\ Active(inForce[g])

Confirmed ==
    /\ \A i \in DOMAIN channel : Fits(channel[i].under, channel[i].gen)
    /\ Fits(update.under, merged)
    /\ Fits(latest.under, latest.gen)
    /\ Fits(telemetry.under, generation)

Scanning ==
    /\ tracker.under \subseteq {current}
    /\ pc # "ask" => current \in Gens \ {0} /\ Active(inForce[current])

VInv == Confirmed /\ Scanning

LEMMA VInvInit == Init => VInv
BY DEF Init, VInv, Confirmed, Scanning, Fits, Nothing, NoUpdate, Result, NoRecord

(* An answer names a generation, and gives its settings. *)
LEMMA AnswerFits ==
    ASSUME PType, RInv, NEW w \in Worker, Answered(w)
    PROVE  Gen(w) \in Gens \ {0} /\ Cfg(w) = inForce[Gen(w)]
BY DEF PType, TypeOK, RInv, Requests, Answered, Gen, Cfg, Gens

(* What is sent fits, and what was there does. *)
LEMMA SendFits ==
    ASSUME PType, Confirmed, NEW results \in Seq(Listing(Gens)), Send(results),
           UNCHANGED <<generation, inForce>>,
           \A i \in DOMAIN results : Fits(results[i].under, results[i].gen)
    PROVE  (\A i \in DOMAIN channel : Fits(channel[i].under, channel[i].gen))'
<1>1. channel \in Seq(Listing(Gens)) /\ channel' = channel \o results
  BY DEF PType, Send
<1>2. \A i \in DOMAIN channel' :
         \/ \E j \in DOMAIN channel : channel'[i] = channel[j]
         \/ \E j \in DOMAIN results : channel'[i] = results[j]
  BY <1>1
<1>3. ASSUME NEW i \in DOMAIN channel'
      PROVE  Fits(channel[i].under, channel[i].gen)'
  <2>1. PICK r : /\ channel'[i] = r
                 /\ Fits(r.under, r.gen)
    BY <1>2 DEF Confirmed
  <2>2. QED BY <2>1 DEF Fits, Gens
<1>4. QED BY <1>3

(* A result, and once more, or not at all. *)
UpToTwo(n) ==
    {<< >>, <<n>>, <<n>> \o << >>, << >> \o <<n>>, << >> \o << >>, <<n>> \o <<n>>}

LEMMA NoneOrTwo ==
    ASSUME NEW S, NEW n \in S, NEW r \in UpToTwo(n)
    PROVE  r \in Seq(S) /\ \A i \in DOMAIN r : r[i] = n
<1>1. CASE r = << >>
  BY <1>1
<1>2. CASE r = <<n>>
  BY <1>2
<1>3. CASE r = <<n>> \o << >>
  BY <1>3
<1>4. CASE r = << >> \o <<n>>
  BY <1>4
<1>5. CASE r = << >> \o << >>
  BY <1>5
<1>6. CASE r = <<n>> \o <<n>>
  BY <1>6
<1>7. QED BY <1>1, <1>2, <1>3, <1>4, <1>5, <1>6 DEF UpToTwo

LEMMA ConfirmedNext ==
    ASSUME PType, RInv, VInv, [Next]_vars
    PROVE  Confirmed'
<1> USE DEF app, shared, slot, detector, coordinator, world
<1>1. generation \in Nat /\ generation # 0 /\ generation \in Gens \ {0}
  BY DEF PType, TypeOK, Gens
<1>2. /\ \A i \in DOMAIN channel : Fits(channel[i].under, channel[i].gen)
      /\ Fits(update.under, merged)
      /\ Fits(latest.under, latest.gen)
      /\ Fits(telemetry.under, generation)
  BY DEF VInv, Confirmed
<1>3. CASE Watch \/ TryRecv \/ Reload \/ Scan \/ Hang \/ UNCHANGED vars
  <2>1. UNCHANGED <<generation, inForce, channel, update, merged, latest, telemetry>>
    BY <1>3 DEF Watch, TryRecv, Reload, FileChanged, Scan, Hang, vars
  <2>2. QED BY <1>2, <2>1 DEF Confirmed, Fits, Gens
<1>4. ASSUME NEW meaning, Save(meaning) PROVE Confirmed'
  <2>1. UNCHANGED <<generation, inForce, channel, update, merged, latest, telemetry>>
    BY <1>4 DEF Save
  <2>2. QED BY <1>2, <2>1 DEF Confirmed, Fits, Gens
<1>5. ASSUME NEW w \in Worker, Ask(w) PROVE Confirmed'
  <2>1. UNCHANGED <<generation, inForce, channel, update, merged, latest, telemetry>>
    BY <1>5 DEF Ask
  <2>2. QED BY <1>2, <2>1 DEF Confirmed, Fits, Gens
<1>6. CASE Take
  <2>1. /\ UNCHANGED <<generation, inForce, channel, update, merged>>
        /\ latest' = NoUpdate
        /\ telemetry' = telemetry \/ (telemetry' = latest /\ latest.gen = generation)
    BY <1>6 DEF Take
  <2>2. latest'.under = {}
    BY <2>1 DEF NoUpdate, Nothing, Result
  <2>3. Fits(telemetry'.under, generation)
    BY <1>2, <2>1
  <2>4. QED BY <1>2, <2>1, <2>2, <2>3 DEF Confirmed, Fits, Gens
<1>7. CASE Raise
  <2>1. /\ running \in Settings
        /\ generation' = generation + 1
        /\ inForce' = Append(inForce, running)
        /\ telemetry' = Nothing(generation')
        /\ UNCHANGED <<channel, update, merged, latest>>
    BY <1>7 DEF Raise, PType, TypeOK
  <2>2. telemetry'.under = {}
    BY <2>1 DEF Nothing, Result
  <2>3. \A g \in Gens \ {0} : g \in (Gens)' /\ inForce'[g] = inForce[g]
    <3>1. \A g \in Gens \ {0} : inForce'[g] = inForce[g]
      BY <2>1, Remembered
    <3>2. \A g \in Gens \ {0} : g \in (Gens)'
      BY <1>1, <2>1 DEF Gens
    <3>3. QED BY <3>1, <3>2
  <2>4. ASSUME NEW under, NEW g, Fits(under, g)
        PROVE  under # {} => /\ under = {g}
                             /\ g \in (Gens)' \ {0}
                             /\ Active(inForce'[g])
    BY <2>3, <2>4 DEF Fits
  <2>5. QED BY <1>2, <2>1, <2>2, <2>4 DEF Confirmed, Fits, Active
<1>8. CASE Turn \/ Discard \/ Publish
  <2>1. UNCHANGED <<generation, inForce, update, merged, latest, telemetry>>
    BY <1>8 DEF Turn, Discard, Publish
  <2>2. \E results \in Seq(Listing(Gens)) :
          /\ Send(results)
          /\ \A i \in DOMAIN results : Fits(results[i].under, results[i].gen)
    <3>1. CASE Turn
      <4>1. Gen("detector") \in Gens
        BY <3>1, AnswerFits DEF Turn, Worker
      <4> DEFINE n == Nothing(Gen("detector"))
      <4>2. PICK r \in UpToTwo(n) : Send(r)
        BY <3>1 DEF Turn, UpToTwo
      <4>3. n \in Listing(Gens) /\ n.under = {}
        BY <4>1, NothingListed
      <4> HIDE DEF n
      <4>4. r \in Seq(Listing(Gens)) /\ \A i \in DOMAIN r : r[i] = n
        BY <4>3, NoneOrTwo
      <4>5. QED BY <4>2, <4>3, <4>4 DEF Fits
    <3>2. CASE Discard
      <4> DEFINE r == Result(Gen("detector"), Active(Cfg("detector")), {})
      <4>1. Gen("detector") \in Gens
        BY <3>2, AnswerFits DEF Discard, Worker
      <4>2. r \in Listing(Gens) /\ r.under = {}
        BY <4>1 DEF Result, Listing, Active
      <4>3. Send(<<r>>)
        BY <3>2 DEF Discard
      <4> HIDE DEF r
      <4>4. <<r>> \in Seq(Listing(Gens)) /\ \A i \in DOMAIN <<r>> : <<r>>[i] = r
        BY <4>2
      <4>5. QED BY <4>2, <4>3, <4>4 DEF Fits
    <3>3. CASE Publish
      <4> DEFINE listed == IF Updated.failures >= Failures THEN Updated.under ELSE {}
                 r == Result(current, seen # "error", listed)
      <4>1. current \in Gens \ {0} /\ Active(inForce[current])
            /\ tracker.under \subseteq {current}
        BY <3>3 DEF Publish, VInv, Scanning
      <4>2. listed \subseteq {current} /\ (listed # {} => seen = "hung")
        BY <4>1 DEF Updated, NoRecord
      <4> HIDE DEF listed
      <4>3. r \in Listing(Gens) /\ Fits(r.under, r.gen)
        <5>1. listed \in SUBSET Gens /\ (listed # {} => seen # "error")
          BY <4>1, <4>2
        <5>2. r.gen = current /\ r.under = listed /\ r.available = (seen # "error")
          BY DEF Result
        <5>3. Fits(listed, current)
          BY <4>1, <4>2 DEF Fits
        <5>4. r \in [gen : Gens, available : BOOLEAN, under : SUBSET Gens]
          BY <4>1, <5>1 DEF Result
        <5>5. QED BY <5>1, <5>2, <5>3, <5>4 DEF Listing
      <4>4. Send(<<r>>)
        BY <3>3 DEF Publish, listed
      <4> HIDE DEF r
      <4>5. <<r>> \in Seq(Listing(Gens)) /\ \A i \in DOMAIN <<r>> : <<r>>[i] = r
        BY <4>3
      <4>6. QED BY <4>3, <4>4, <4>5
    <3>4. QED BY <1>8, <3>1, <3>2, <3>3
  <2>3. (\A i \in DOMAIN channel : Fits(channel[i].under, channel[i].gen))'
    BY <2>1, <2>2, SendFits DEF VInv
  <2>4. /\ Fits(update.under, merged)'
        /\ Fits(latest.under, latest.gen)'
        /\ Fits(telemetry.under, generation)'
    BY <1>2, <2>1 DEF Fits, Gens
  <2>5. QED BY <2>3, <2>4 DEF Confirmed
<1>9. CASE Merge
  <2> DEFINE gen == Gen("coordinator")
             kept == IF gen = merged THEN update ELSE Nothing(gen)
             last == Drained(gen, kept)
  <2>1. /\ UNCHANGED <<generation, inForce, telemetry>>
        /\ merged' = gen /\ latest' = update' /\ channel' = << >>
        /\ \/ update' = Nothing(gen)
           \/ update' = [last EXCEPT !.gen = gen]
    BY <1>9 DEF Merge
  <2>2. gen \in Gens \ {0}
    BY <1>9, AnswerFits DEF Merge, Worker
  <2>3. kept \in Listing(Gens) /\ Fits(kept.under, gen)
    <3>1. CASE gen = merged
      BY <1>2, <3>1 DEF PType, TypeOK, Gens
    <3>2. CASE gen # merged
      BY <2>2, <3>2, NothingListed DEF Fits
    <3>3. QED BY <3>1, <3>2
  <2>4. channel \in Seq(Listing(Gens))
        /\ \A i \in DOMAIN channel : channel[i] \in Listing(Gens)
    BY DEF PType, TypeOK, Gens
  <2> HIDE DEF kept
  <2>5. \/ last = kept
        \/ \E i \in DOMAIN channel : last = channel[i] /\ channel[i].gen = gen
    BY <2>4, LastOfGeneration
  <2>6. last \in Listing(Gens) /\ Fits(last.under, gen)
    BY <1>2, <2>3, <2>4, <2>5
  <2> HIDE DEF last, gen
  <2>7. update'.gen = gen /\ Fits(update'.under, gen)
    <3>1. CASE update' = Nothing(gen)
      BY <2>2, <3>1, NothingListed DEF Fits
    <3>2. CASE update' = [last EXCEPT !.gen = gen]
      BY <2>2, <2>6, <3>2, Relabeled
    <3>3. QED BY <2>1, <3>1, <3>2 DEF last
  <2>8. Fits(update.under, merged)' /\ Fits(latest.under, latest.gen)'
    BY <2>1, <2>7 DEF Fits, Gens
  <2>9. Fits(telemetry.under, generation)'
    BY <1>2, <2>1 DEF Fits, Gens
  <2>10. DOMAIN channel' = {}
    BY <2>1
  <2>11. QED BY <2>8, <2>9, <2>10 DEF Confirmed
<1>10. QED
  BY <1>3, <1>4, <1>5, <1>6, <1>7, <1>8, <1>9 DEF Next, Main, Detector, Coordinator, Worker

LEMMA ScanningNext ==
    ASSUME PType, RInv, VInv, [Next]_vars
    PROVE  Scanning'
<1> USE DEF app, shared, slot, detector, coordinator, world
<1>1. generation \in Nat /\ generation # 0
  BY DEF PType, TypeOK
<1>2. tracker.under \subseteq {current}
      /\ (pc # "ask" => current \in Gens \ {0} /\ Active(inForce[current]))
  BY DEF VInv, Scanning
<1>3. CASE Watch \/ TryRecv \/ Take \/ Reload \/ Merge \/ Hang \/ UNCHANGED vars
  <2>1. UNCHANGED <<tracker, current, pc, generation, inForce>>
    BY <1>3 DEF Watch, TryRecv, Take, Reload, FileChanged, Merge, Hang, vars
  <2>2. QED BY <1>2, <2>1 DEF Scanning, Gens
<1>4. ASSUME NEW meaning, Save(meaning) PROVE Scanning'
  <2>1. UNCHANGED <<tracker, current, pc, generation, inForce>>
    BY <1>4 DEF Save
  <2>2. QED BY <1>2, <2>1 DEF Scanning, Gens
<1>5. ASSUME NEW w \in Worker, Ask(w) PROVE Scanning'
  <2>1. UNCHANGED <<tracker, current, pc, generation, inForce>>
    BY <1>5 DEF Ask
  <2>2. QED BY <1>2, <2>1 DEF Scanning, Gens
<1>6. CASE Raise
  <2>1. /\ running \in Settings
        /\ generation' = generation + 1
        /\ inForce' = Append(inForce, running)
        /\ UNCHANGED <<tracker, current, pc>>
    BY <1>6 DEF Raise, PType, TypeOK
  <2>2. \A g \in Gens \ {0} : g \in (Gens)' /\ inForce'[g] = inForce[g]
    <3>1. \A g \in Gens \ {0} : inForce'[g] = inForce[g]
      BY <2>1, Remembered
    <3>2. \A g \in Gens \ {0} : g \in (Gens)'
      BY <1>1, <2>1 DEF Gens
    <3>3. QED BY <3>1, <3>2
  <2>3. QED BY <1>2, <2>1, <2>2 DEF Scanning, Active
<1>7. CASE Scan
  <2>1. /\ pc = "scan" /\ pc' = "scanned"
        /\ UNCHANGED <<tracker, current, generation, inForce>>
    BY <1>7 DEF Scan
  <2>2. QED BY <1>2, <2>1 DEF Scanning, Gens
<1>8. CASE Turn
  <2>1. Gen("detector") \in Gens \ {0} /\ Cfg("detector") = inForce[Gen("detector")]
    BY <1>8, AnswerFits DEF Turn, Worker
  <2>2. current' = Gen("detector") /\ UNCHANGED <<generation, inForce>>
    BY <1>8 DEF Turn
  <2>3. \/ tracker' = NoRecord
        \/ tracker' = tracker /\ Gen("detector") = current
    BY <1>8 DEF Turn
  <2>4. \/ pc' = "ask"
        \/ Active(Cfg("detector"))
    BY <1>8 DEF Turn
  <2>5. tracker'.under \subseteq {current'}
    BY <1>2, <2>2, <2>3 DEF NoRecord
  <2>6. QED BY <2>1, <2>2, <2>4, <2>5 DEF Scanning, Gens
<1>9. CASE Discard
  <2>1. pc' = "ask" /\ tracker' = NoRecord
    BY <1>9 DEF Discard
  <2>2. QED BY <2>1 DEF Scanning, NoRecord
<1>10. CASE Publish
  <2>1. pc' = "ask" /\ tracker' = Updated /\ current' = current
    BY <1>10 DEF Publish
  <2>2. Updated.under \subseteq {current}
    BY <1>2 DEF Updated, NoRecord
  <2>3. QED BY <2>1, <2>2 DEF Scanning
<1>11. QED
  BY <1>3, <1>4, <1>5, <1>6, <1>7, <1>8, <1>9, <1>10
     DEF Next, Main, Detector, Coordinator, Worker

----------------------------------------------------------------------------
(* Main loop, detector and coordinator, at every moment of a run: values are  *)
(* of their types.                                                           *)
THEOREM TypeCorrect == Spec => []TypeOK
<1>1. Init => PType
  BY PTypeInit
<1>2. PType /\ [Next]_vars => PType'
  BY PTypeNext
<1>3. PType => TypeOK
  BY DEF PType
<1>4. QED BY <1>1, <1>2, <1>3, PTL DEF Spec

LEMMA AlwaysSound == Spec => [](PType /\ RInv /\ VInv)
<1>1. Init => PType /\ RInv /\ VInv
  BY PTypeInit, RInvInit, VInvInit
<1>2. PType /\ RInv /\ VInv /\ [Next]_vars => (PType /\ RInv /\ VInv)'
  BY PTypeNext, RInvNext, ConfirmedNext, ScanningNext DEF VInv
<1>3. QED BY <1>1, <1>2, PTL DEF Spec

(* A worker never holds the settings of one generation under the number of    *)
(* another (current_request, update_config).                                 *)
THEOREM RequestsConsistent == Spec => []RequestConsistent
<1>1. PType /\ RInv /\ VInv => RequestConsistent
  BY DEF RequestConsistent, RInv, Requests, Answered, Cfg, Gen
<1>2. QED BY <1>1, AlwaysSound, PTL

(* What the main loop shows as hung was confirmed under the settings it runs  *)
(* with, by scans of one generation (reset_on_policy_change, apply_event).   *)
THEOREM ConfirmsUnderCurrent == Spec => []ConfirmedUnderCurrent
<1>1. PType /\ RInv /\ VInv => ConfirmedUnderCurrent
  BY DEF ConfirmedUnderCurrent, RInv, Versions, VInv, Confirmed, Fits
<1>2. QED BY <1>1, AlwaysSound, PTL

=============================================================================
