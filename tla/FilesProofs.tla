----------------------------- MODULE FilesProofs -----------------------------
(* Proofs about the parts of MCDecisions that read and write the program's    *)
(* own files: the log, the configuration of a first start, the settings and   *)
(* the list of games. Each is for every value of the constants that the       *)
(* assumptions admit. Induction over the natural numbers goes through the     *)
(* least element of a set of them: the library's theorem takes an operator.   *)
EXTENDS MCDecisions, Integers, FiniteSetTheorems, SequenceTheorems, TLAPS

----------------------------------------------------------------------------
(* Numbers. The least element of a set of numbers, which stands in for an     *)
(* induction over them.                                                       *)

LEMMA Least ==
    ASSUME NEW S, S \subseteq Nat, S # {}
    PROVE  \E m \in S : \A n \in S : m <= n
<1> DEFINE R == {ss \in Nat \X Nat : ss[1] < ss[2]}
<1>1. OpToRel(<, Nat) = R
  BY DEF OpToRel
<1>2. IsWellFoundedOn(R, Nat)
  BY <1>1, NatLessThanWellFounded, Zenon
<1>3. \A a, b \in Nat : a < b => <<a, b>> \in R
  OBVIOUS
<1> HIDE DEF R
<1>4. PICK m \in S : \A n \in S : ~(<<n, m>> \in R)
  BY <1>2, WFMin
<1>5. ASSUME NEW n \in S PROVE m <= n
  <2>1. m \in Nat /\ n \in Nat /\ ~(n < m)
    BY <1>3, <1>4
  <2>2. QED BY <2>1
<1>6. QED BY <1>5

(* Finitely many numbers have a bound, and a greatest. *)
LEMMA Bounded ==
    ASSUME NEW k \in Nat, NEW f \in [1..k -> Nat]
    PROVE  \E b \in Nat : \A i \in 1..k : f[i] <= b
<1> DEFINE S == {n \in 0..k : ~\E b \in Nat : \A i \in 1..n : f[i] <= b}
<1>1. SUFFICES ASSUME S # {} PROVE FALSE
  <2>1. k \notin S => \E b \in Nat : \A i \in 1..k : f[i] <= b
    OBVIOUS
  <2>2. QED BY <2>1
<1>2. PICK m \in S : \A n \in S : m <= n
  <2>1. S \subseteq Nat
    OBVIOUS
  <2> HIDE DEF S
  <2>2. QED BY <1>1, <2>1, Least
<1>3. m > 0
  <2>1. \A i \in 1..0 : f[i] <= 0
    OBVIOUS
  <2>2. QED BY <1>2, <2>1
<1>4. m - 1 \notin S /\ m - 1 \in 0..k /\ m \in 1..k
  <2>1. m \in 0..k
    OBVIOUS
  <2>2. m - 1 \in 0..k /\ m \in 1..k /\ ~(m <= m - 1)
    BY <1>3, <2>1
  <2> HIDE DEF S
  <2>3. QED BY <1>2, <2>2
<1>5. PICK b \in Nat : \A i \in 1..(m - 1) : f[i] <= b
  BY <1>4
<1>6. PICK c \in Nat : c >= b /\ c >= f[m]
  <2>1. f[m] \in Nat
    BY <1>4
  <2>2. \/ b >= b /\ b >= f[m]
        \/ f[m] >= b /\ f[m] >= f[m]
    BY <2>1
  <2>3. QED BY <2>1, <2>2
<1>7. \A i \in 1..m : f[i] <= c
  BY <1>4, <1>5, <1>6
<1>8. QED BY <1>2, <1>6, <1>7

LEMMA Greatest ==
    ASSUME NEW S, S \subseteq Nat, S # {}, NEW b \in Nat, \A n \in S : n <= b
    PROVE  \E m \in S : \A n \in S : n <= m
<1> DEFINE T == {c \in Nat : \A n \in S : n <= c}
<1>1. PICK m \in T : \A c \in T : m <= c
  <2>1. T \subseteq Nat /\ b \in T
    OBVIOUS
  <2> HIDE DEF T
  <2>2. QED BY <2>1, Least
<1>2. m \in S
  <2>1. SUFFICES ASSUME m \notin S PROVE FALSE
    OBVIOUS
  <2>2. PICK n \in S : TRUE
    OBVIOUS
  <2>3. \A x \in S : x <= m - 1
    BY <1>1, <2>1
  <2>4. m - 1 \in Nat
    BY <1>1, <2>2, <2>3
  <2>5. m - 1 \in T
    BY <2>3, <2>4
  <2>6. QED BY <1>1, <2>5
<1>3. QED BY <1>1, <1>2

----------------------------------------------------------------------------
(* Sequences that end another one, by their indices. *)

Ends(s, t) ==
    /\ Len(s) <= Len(t)
    /\ \A i \in 1..Len(s) : s[i] = t[Len(t) - Len(s) + i]

LEMMA EndsIsSuffix ==
    ASSUME NEW S, NEW s \in Seq(S), NEW t \in Seq(S), Ends(s, t)
    PROVE  Logging!IsSuffix(s, t)
<1> DEFINE r == Logging!Reverse(s)
           q == Logging!Reverse(t)
           n == Len(s)
           m == Len(t)
<1>1. n \in Nat /\ m \in Nat /\ n <= m
      /\ (\A i \in 1..n : s[i] \in S) /\ (\A i \in 1..m : t[i] \in S)
  BY LenProperties, ElementOfSeq DEF Ends
<1>2. r = [i \in 1..n |-> s[n - i + 1]] /\ q = [i \in 1..m |-> t[m - i + 1]]
  BY DEF Logging!Reverse
<1>3. /\ r \in [1..n -> S] /\ q \in [1..m -> S]
      /\ \A i \in 1..n : r[i] = q[i]
  <2>1. \A i \in 1..n : n - i + 1 \in 1..n
    BY <1>1
  <2>2. \A i \in 1..m : m - i + 1 \in 1..m
    BY <1>1
  <2>3. \A i \in 1..n : s[n - i + 1] = t[m - i + 1]
    <3>1. SUFFICES ASSUME NEW i \in 1..n PROVE s[n - i + 1] = t[m - i + 1]
      OBVIOUS
    <3>2. m - n + (n - i + 1) = m - i + 1
      BY <1>1
    <3>3. s[n - i + 1] = t[m - n + (n - i + 1)]
      BY <2>1 DEF Ends
    <3>4. QED BY <3>2, <3>3
  <2>4. QED BY <1>1, <1>2, <2>1, <2>2, <2>3
<1> HIDE DEF r, q
<1>4. r \in Seq(S) /\ Len(r) = n /\ q \in Seq(S) /\ Len(q) = m
  <2>1. ASSUME NEW k \in Nat, NEW x \in [1..k -> S]
        PROVE  x \in Seq(S) /\ Len(x) = k
    OBVIOUS
  <2>2. QED BY <1>1, <1>3, <2>1
<1>5. /\ SubSeq(r, 1, n) \in Seq(S) /\ Len(SubSeq(r, 1, n)) = n
      /\ \A i \in 1..n : SubSeq(r, 1, n)[i] = r[i]
  BY <1>1, <1>3, <1>4, SubSeqProperties
<1>6. /\ SubSeq(q, 1, n) \in Seq(S) /\ Len(SubSeq(q, 1, n)) = n
      /\ \A i \in 1..n : SubSeq(q, 1, n)[i] = q[i]
  <2>1. \A i \in 1..n : q[i] \in S
    BY <1>1, <1>3
  <2>2. QED BY <1>1, <2>1, SubSeqProperties
<1>7. SubSeq(r, 1, n) = SubSeq(q, 1, n)
  BY <1>3, <1>5, <1>6, SeqEqual
<1>8. QED BY <1>1, <1>4, <1>7 DEF Logging!IsSuffix, Logging!IsPrefix, r, q

LEMMA EndsOfEnd ==
    ASSUME NEW S, NEW r \in Seq(S), NEW s \in Seq(S), NEW t \in Seq(S)
    PROVE  /\ Ends(r, s) /\ Ends(s, t) => Ends(r, t)
           /\ Ends(r, t) /\ Ends(s, t) /\ Len(r) <= Len(s) => Ends(r, s)
<1>1. Len(r) \in Nat /\ Len(s) \in Nat /\ Len(t) \in Nat
  BY LenProperties
<1>2. ASSUME Ends(r, s), Ends(s, t) PROVE Ends(r, t)
  <2>1. Len(r) <= Len(s) /\ Len(s) <= Len(t)
    BY <1>2 DEF Ends
  <2>2. ASSUME NEW i \in 1..Len(r)
        PROVE  r[i] = t[Len(t) - Len(r) + i]
    <3>1. Len(s) - Len(r) + i \in 1..Len(s)
      BY <1>1, <2>1
    <3>2. r[i] = s[Len(s) - Len(r) + i]
      BY <1>2 DEF Ends
    <3>3. s[Len(s) - Len(r) + i] = t[Len(t) - Len(s) + (Len(s) - Len(r) + i)]
      BY <1>2, <3>1 DEF Ends
    <3>4. Len(t) - Len(s) + (Len(s) - Len(r) + i) = Len(t) - Len(r) + i
      BY <1>1
    <3>5. QED BY <3>2, <3>3, <3>4
  <2>3. QED BY <1>1, <2>1, <2>2 DEF Ends
<1>3. ASSUME Ends(r, t), Ends(s, t), Len(r) <= Len(s) PROVE Ends(r, s)
  <2>1. ASSUME NEW i \in 1..Len(r)
        PROVE  r[i] = s[Len(s) - Len(r) + i]
    <3>1. Len(s) - Len(r) + i \in 1..Len(s)
      BY <1>1, <1>3
    <3>2. r[i] = t[Len(t) - Len(r) + i]
      BY <1>3 DEF Ends
    <3>3. s[Len(s) - Len(r) + i] = t[Len(t) - Len(s) + (Len(s) - Len(r) + i)]
      BY <1>3, <3>1 DEF Ends
    <3>4. Len(t) - Len(s) + (Len(s) - Len(r) + i) = Len(t) - Len(r) + i
      BY <1>1
    <3>5. QED BY <3>2, <3>3, <3>4
  <2>2. QED BY <1>3, <2>1 DEF Ends
<1>4. QED BY <1>2, <1>3

LEMMA EndsConcat ==
    ASSUME NEW S, NEW s \in Seq(S), NEW t \in Seq(S), NEW u \in Seq(S)
    PROVE  /\ Ends(s, s) /\ Ends(s, t \o s)
           /\ Ends(s, t) => Ends(s \o u, t \o u)
<1>1. Len(s) \in Nat /\ Len(t) \in Nat /\ Len(u) \in Nat
  BY LenProperties
<1>2. /\ Len(t \o s) = Len(t) + Len(s)
      /\ \A i \in 1..Len(t) + Len(s) :
            (t \o s)[i] = IF i <= Len(t) THEN t[i] ELSE s[i - Len(t)]
  BY ConcatProperties
<1>3. /\ Len(s \o u) = Len(s) + Len(u)
      /\ \A i \in 1..Len(s) + Len(u) :
            (s \o u)[i] = IF i <= Len(s) THEN s[i] ELSE u[i - Len(s)]
  BY ConcatProperties
<1>4. /\ Len(t \o u) = Len(t) + Len(u)
      /\ \A i \in 1..Len(t) + Len(u) :
            (t \o u)[i] = IF i <= Len(t) THEN t[i] ELSE u[i - Len(t)]
  BY ConcatProperties
<1>5. Ends(s, s)
  BY <1>1 DEF Ends
<1>6. Ends(s, t \o s)
  <2>1. ASSUME NEW i \in 1..Len(s)
        PROVE  s[i] = (t \o s)[Len(t \o s) - Len(s) + i]
    <3>1. Len(t \o s) - Len(s) + i = Len(t) + i /\ Len(t) + i \in 1..Len(t) + Len(s)
          /\ ~(Len(t) + i <= Len(t)) /\ (Len(t) + i) - Len(t) = i
      BY <1>1, <1>2
    <3>2. QED BY <1>2, <3>1
  <2>2. QED BY <1>1, <1>2, <2>1 DEF Ends
<1>7. ASSUME Ends(s, t) PROVE Ends(s \o u, t \o u)
  <2> DEFINE k == Len(t) - Len(s)
  <2>1. k \in Nat /\ Len(t) = k + Len(s)
    BY <1>1, <1>7 DEF Ends
  <2>2. ASSUME NEW i \in 1..Len(s) + Len(u)
        PROVE  (s \o u)[i] = (t \o u)[k + i]
    <3>1. k + i \in 1..Len(t) + Len(u)
      BY <1>1, <2>1
    <3>2. CASE i <= Len(s)
      <4>1. i \in 1..Len(s) /\ k + i <= Len(t)
        BY <1>1, <2>1, <3>2
      <4>2. s[i] = t[k + i]
        BY <1>7, <4>1 DEF Ends
      <4>3. QED BY <1>3, <1>4, <3>1, <3>2, <4>1, <4>2
    <3>3. CASE ~(i <= Len(s))
      <4>1. ~(k + i <= Len(t)) /\ (k + i) - Len(t) = i - Len(s)
        BY <1>1, <2>1, <3>3
      <4>2. QED BY <1>3, <1>4, <3>1, <3>3, <4>1
    <3>4. QED BY <3>2, <3>3
  <2>3. Len(t \o u) - Len(s \o u) = k /\ Len(s \o u) <= Len(t \o u)
    BY <1>1, <1>3, <1>4, <2>1
  <2> HIDE DEF k
  <2>4. QED BY <1>3, <2>2, <2>3 DEF Ends
<1>8. QED BY <1>5, <1>6, <1>7

(* The last max_bytes. *)
LEMMA LastOnes ==
    ASSUME NEW S, NEW s \in Seq(S)
    PROVE  /\ Logging!LastBytes(s) \in Seq(S)
           /\ Len(Logging!LastBytes(s)) <= MaxBytes
           /\ Len(s) >= MaxBytes => Len(Logging!LastBytes(s)) = MaxBytes
           /\ Ends(Logging!LastBytes(s), s)
           /\ Len(s) <= MaxBytes => Logging!LastBytes(s) = s
<1> DEFINE n == Len(s)
           from == Logging!Max({1, n - MaxBytes + 1})
<1>1. n \in Nat /\ MaxBytes \in Nat /\ \A i \in 1..n : s[i] \in S
  BY LogAssumption, LenProperties, ElementOfSeq
<1>2. from = IF n >= MaxBytes THEN n - MaxBytes + 1 ELSE 1
  <2>1. \A x \in {1, n - MaxBytes + 1} :
            (\A y \in {1, n - MaxBytes + 1} : x >= y) =>
                x = IF n >= MaxBytes THEN n - MaxBytes + 1 ELSE 1
    BY <1>1
  <2>2. \E x \in {1, n - MaxBytes + 1} : \A y \in {1, n - MaxBytes + 1} : x >= y
    BY <1>1
  <2>3. QED BY <2>1, <2>2 DEF Logging!Max
<1>3. Logging!LastBytes(s) = SubSeq(s, from, n)
  BY DEF Logging!LastBytes
<1> HIDE DEF from
<1>4. /\ SubSeq(s, from, n) \in Seq(S)
      /\ Len(SubSeq(s, from, n)) = IF from <= n THEN n - from + 1 ELSE 0
      /\ \A i \in 1..(n - from + 1) : SubSeq(s, from, n)[i] = s[from + i - 1]
  <2>1. from \in Int /\ \A i \in from..n : s[i] \in S
    BY <1>1, <1>2
  <2>2. QED BY <1>1, <2>1, SubSeqProperties
<1>5. Len(SubSeq(s, from, n)) = IF n >= MaxBytes THEN MaxBytes ELSE n
  <2>1. CASE n >= MaxBytes
    <3>1. from = n - MaxBytes + 1 /\ n - from + 1 = MaxBytes
          /\ (from <= n \/ MaxBytes = 0)
      BY <1>1, <1>2, <2>1
    <3>2. QED BY <1>1, <1>4, <2>1, <3>1
  <2>2. CASE ~(n >= MaxBytes)
    <3>1. from = 1 /\ n - from + 1 = n /\ (from <= n \/ n = 0)
      BY <1>1, <1>2, <2>2
    <3>2. QED BY <1>1, <1>4, <2>2, <3>1
  <2>3. QED BY <2>1, <2>2
<1>6. Ends(SubSeq(s, from, n), s)
  <2> DEFINE k == Len(SubSeq(s, from, n))
  <2>1. k \in Nat /\ k <= n /\ \A i \in 1..k : i \in 1..(n - from + 1)
                                          /\ from + i - 1 = n - k + i
    <3>1. CASE n >= MaxBytes
      BY <1>1, <1>2, <1>5, <3>1
    <3>2. CASE ~(n >= MaxBytes)
      <4>1. k = n /\ from = 1
        BY <1>1, <1>2, <1>5, <3>2
      <4> HIDE DEF k
      <4>2. QED BY <1>1, <4>1
    <3>3. QED BY <3>1, <3>2
  <2>2. QED BY <1>4, <2>1 DEF Ends
<1>7. n <= MaxBytes => SubSeq(s, from, n) = s
  <2>1. ASSUME n <= MaxBytes PROVE from = 1
    BY <1>1, <1>2, <2>1
  <2>2. QED BY <2>1, SubSeqFull
<1>8. QED BY <1>1, <1>3, <1>4, <1>5, <1>6, <1>7

----------------------------------------------------------------------------
(* The log. Whenever there is a file that fills a limit of its own, what was  *)
(* appended last is in it alone, so that a backup may be replaced; and from   *)
(* then until the file is cut off it is in the copy, and then in the backup.  *)

LogTypes ==
    /\ logged \in Seq(Nat) /\ copy \in Seq(Nat) /\ written \in Seq(Nat)
    /\ backup \in [1..Backups -> Seq(Nat)] /\ modified \in [1..Backups -> Nat]
    /\ logSize \in Nat /\ nextSlot \in 1..Backups /\ logLine \in Nat
    /\ Len(written) <= MaxBytes /\ logSize <= Len(logged)

Older == {<<>>} \cup {backup[i] : i \in 1..Backups}
Present == \E older \in Older : Ends(written, older \o logged)

Rotating ==
    /\ logAt \in {"ended", "normalize", "open"} => logSize = 0
    /\ logAt \in {"normalize", "publish"} => Ends(written, copy)
    /\ logAt = "publish" => Ends(written, logged)
    /\ logAt = "truncate" => Ends(written, backup[nextSlot])

LInv == LogTypes /\ Present /\ Rotating

LEMMA OlderOnes ==
    ASSUME LogTypes, NEW older \in Older
    PROVE  older \in Seq(Nat) /\ older \o logged \in Seq(Nat)
<1>1. <<>> \in Seq(Nat)
  BY EmptySeq
<1>2. older \in Seq(Nat)
  BY <1>1 DEF LogTypes, Older
<1>3. QED BY <1>2, ConcatProperties DEF LogTypes

(* A file that fills the limit has it all, and so has its end. *)
LEMMA Alone ==
    ASSUME LogTypes, Present, Len(logged) >= MaxBytes
    PROVE  Ends(written, logged) /\ Ends(written, Logging!LastBytes(logged))
<1>1. PICK older \in Older : Ends(written, older \o logged)
  BY DEF Present
<1>2. older \in Seq(Nat) /\ older \o logged \in Seq(Nat) /\ logged \in Seq(Nat)
      /\ written \in Seq(Nat) /\ Len(written) <= MaxBytes
  BY OlderOnes DEF LogTypes
<1>3. Len(written) \in Nat /\ Len(logged) \in Nat /\ MaxBytes \in Nat
  BY <1>2, LenProperties, LogAssumption
<1>4. Ends(logged, older \o logged)
  BY <1>2, EndsConcat
<1>5. Ends(written, logged)
  <2>1. Len(written) <= Len(logged)
    BY <1>2, <1>3
  <2>2. QED BY <1>1, <1>2, <1>4, <2>1, EndsOfEnd
<1>6. LET l == Logging!LastBytes(logged)
      IN  l \in Seq(Nat) /\ Len(l) = MaxBytes /\ Ends(l, logged)
  BY <1>2, LastOnes
<1>7. QED BY <1>2, <1>5, <1>6, EndsOfEnd

LEMMA NumbersConcat ==
    ASSUME NEW a \in Seq(Nat), NEW b \in Seq(Nat), NEW c \in Seq(Nat)
    PROVE  (a \o b) \o c = a \o (b \o c)
BY SMT

(* What is appended is appended to both. *)
LEMMA Appended ==
    ASSUME LogTypes, NEW old \in Seq(Nat), Ends(written, old), NEW u \in Seq(Nat)
    PROVE  LET w == Logging!LastBytes(written \o u)
           IN  w \in Seq(Nat) /\ Len(w) <= MaxBytes /\ Ends(w, old \o u)
<1>1. written \in Seq(Nat)
  BY DEF LogTypes
<1>2. written \o u \in Seq(Nat) /\ old \o u \in Seq(Nat) /\ Ends(written \o u, old \o u)
  BY <1>1, ConcatProperties, EndsConcat
<1> DEFINE w == Logging!LastBytes(written \o u)
<1>3. w \in Seq(Nat) /\ Len(w) <= MaxBytes /\ Ends(w, written \o u)
  BY <1>2, LastOnes
<1> HIDE DEF w
<1>4. Ends(w, old \o u)
  BY <1>2, <1>3, EndsOfEnd
<1>5. QED BY <1>3, <1>4 DEF w

(* There is a backup to be replaced, and a time for it. *)
LEMMA SlotFound ==
    ASSUME LogTypes
    PROVE  Logging!NextBackupSlot \in 1..Backups /\ Logging!Now \in Nat
<1>1. Backups \in Nat \ {0} /\ Logging!Slot = 1..Backups
  BY LogAssumption DEF Logging!Slot
<1>2. ASSUME NEW S, S \subseteq 1..Backups, S # {}
      PROVE  Logging!Min(S) \in S
  <2>1. S \subseteq Nat
    BY <1>1, <1>2
  <2>2. \E x \in S : \A y \in S : x <= y
    BY <1>2, <2>1, Least
  <2>3. QED BY <2>2 DEF Logging!Min
<1>3. Logging!NextBackupSlot \in 1..Backups
  <2> DEFINE M == {i \in 1..Backups : backup[i] = Logging!Missing}
             L == {i \in 1..Backups : \A j \in 1..Backups : modified[i] <= modified[j]}
             T == {modified[i] : i \in 1..Backups}
  <2>1. T \subseteq Nat /\ T # {}
    BY <1>1 DEF LogTypes
  <2>2. \E m \in T : \A n \in T : m <= n
    BY <2>1, Least
  <2>3. L # {}
    BY <2>2
  <2>4. Logging!NextBackupSlot = IF \E i \in 1..Backups : backup[i] = Logging!Missing
                               THEN Logging!Min(M) ELSE Logging!Min(L)
    BY <1>1 DEF Logging!NextBackupSlot
  <2>5. M \subseteq 1..Backups /\ L \subseteq 1..Backups
        /\ ((\E i \in 1..Backups : backup[i] = Logging!Missing) => M # {})
    OBVIOUS
  <2> HIDE DEF M, L
  <2>6. QED BY <1>2, <2>3, <2>4, <2>5
<1>4. Logging!Now \in Nat
  <2> DEFINE S == {0} \cup {modified[i] : i \in 1..Backups}
  <2>1. modified \in [1..Backups -> Nat]
    BY DEF LogTypes
  <2>2. PICK b \in Nat : \A i \in 1..Backups : modified[i] <= b
    BY <1>1, <2>1, Bounded
  <2>3. S \subseteq Nat /\ S # {} /\ \A n \in S : n <= b
    BY <2>1, <2>2
  <2>4. Logging!Now = Logging!Max(S) + 1
    BY <1>1 DEF Logging!Now
  <2> HIDE DEF S
  <2>5. \E m \in S : \A n \in S : n <= m
    BY <2>3, Greatest
  <2>6. \E m \in S : \A n \in S : m >= n
    BY <2>3, <2>5
  <2>7. Logging!Max(S) \in S
    BY <2>6 DEF Logging!Max
  <2>8. Logging!Max(S) \in Nat
    BY <2>3, <2>7
  <2>9. QED BY <2>4, <2>8
<1>5. QED BY <1>3, <1>4

LEMMA LInvInit == Logging!Init => LInv
<1> SUFFICES ASSUME Logging!Init PROVE LInv
  OBVIOUS
<1> DEFINE long == [i \in 1..(MaxBytes + Excess) |-> i]
<1>1. /\ logged \in {<<>>} \cup {long}
      /\ written = Logging!LastBytes(logged)
      /\ backup = [i \in 1..Backups |-> <<>>] /\ modified = [i \in 1..Backups |-> 0]
      /\ logAt = "ended" /\ logSize = 0 /\ nextSlot = 1 /\ copy = <<>>
      /\ logLine = Len(logged)
  BY DEF Logging!Init, Logging!Slot, Logging!Missing
<1>2. <<>> \in Seq(Nat) /\ logged \in Seq(Nat)
  <2>1. MaxBytes + Excess \in Nat
    BY LogAssumption
  <2>2. ASSUME NEW n \in Nat PROVE [i \in 1..n |-> i] \in Seq(Nat)
    <3>1. [i \in 1..n |-> i] \in [1..n -> Nat]
      OBVIOUS
    <3>2. QED BY <3>1
  <2>3. QED BY <1>1, <2>1, <2>2, EmptySeq
<1>3. Len(logged) \in Nat /\ <<>> \o logged = logged
  BY <1>2, LenProperties, ConcatEmptySeq
<1>4. written \in Seq(Nat) /\ Len(written) <= MaxBytes /\ Ends(written, logged)
  BY <1>1, <1>2, LastOnes
<1>5. LogTypes
  BY <1>1, <1>2, <1>3, <1>4, LogAssumption DEF LogTypes
<1>6. Present
  BY <1>3, <1>4 DEF Present, Older
<1>7. Rotating
  BY <1>1 DEF Rotating
<1>8. QED BY <1>5, <1>6, <1>7 DEF LInv

(* The file that is too long at start-up is replaced by its end. *)
LEMMA LInvNormalize ==
    ASSUME LInv, Logging!NormalizeSet \/ Logging!ReplaceCurrent
    PROVE  LInv'
<1> USE DEF Logging!files
<1>1. LogTypes /\ Present
  BY DEF LInv
<1>2. CASE Logging!NormalizeSet
  <2>1. /\ logAt = "ended" /\ logSize = 0
        /\ UNCHANGED <<logged, backup, modified, logSize, nextSlot, logLine, written>>
    BY <1>2 DEF Logging!NormalizeSet, LInv, Rotating
  <2>2. \/ /\ Len(logged) > MaxBytes /\ copy' = Logging!LastBytes(logged)
           /\ logAt' = "normalize"
        \/ logAt' \in {"open", "failed"} /\ copy' \in {copy, <<>>}
    BY <1>2 DEF Logging!NormalizeSet, Logging!PrepareTail, Logging!Missing
  <2>3. copy' \in Seq(Nat)
    <3>1. Logging!LastBytes(logged) \in Seq(Nat) /\ copy \in Seq(Nat) /\ <<>> \in Seq(Nat)
      BY <1>1, LastOnes, EmptySeq DEF LogTypes
    <3>2. copy' = Logging!LastBytes(logged) \/ copy' = copy \/ copy' = <<>>
      BY <2>2
    <3>3. QED BY <3>1, <3>2, Zenon
  <2>4. LogTypes'
    BY <1>1, <2>1, <2>3 DEF LogTypes
  <2>5. Present'
    BY <1>1, <2>1 DEF Present, Older
  <2>6. logAt' = "normalize" => Ends(written, copy')
    <3>1. ASSUME Len(logged) > MaxBytes, copy' = Logging!LastBytes(logged)
          PROVE  Ends(written, copy')
      <4>1. Len(logged) >= MaxBytes
        BY <1>1, <3>1, LenProperties, LogAssumption DEF LogTypes
      <4>2. QED BY <1>1, <3>1, <4>1, Alone
    <3>2. QED BY <2>2, <3>1
  <2>7. Rotating'
    BY <2>1, <2>2, <2>6 DEF Rotating
  <2>8. QED BY <2>4, <2>5, <2>7 DEF LInv
<1>3. CASE Logging!ReplaceCurrent
  <2>1. /\ logAt = "normalize" /\ copy' = <<>> /\ logSize = 0
        /\ \/ logged' = copy /\ logAt' = "open"
           \/ logged' = logged /\ logAt' = "failed"
        /\ UNCHANGED <<backup, modified, logSize, nextSlot, logLine, written>>
    BY <1>3 DEF Logging!ReplaceCurrent, Logging!Missing, LInv, Rotating
  <2>2. Ends(written, copy)
    BY <2>1 DEF LInv, Rotating
  <2>3. copy \in Seq(Nat) /\ Len(copy) \in Nat /\ <<>> \o copy = copy /\ <<>> \in Seq(Nat)
    BY <1>1, LenProperties, ConcatEmptySeq, EmptySeq DEF LogTypes
  <2>4. LogTypes'
    BY <1>1, <2>1, <2>3 DEF LogTypes
  <2>5. Present'
    <3>1. CASE logged' = copy
      BY <2>1, <2>2, <2>3, <3>1 DEF Present, Older
    <3>2. CASE logged' = logged
      BY <1>1, <2>1, <3>2 DEF Present, Older
    <3>3. QED BY <2>1, <3>1, <3>2
  <2>6. Rotating'
    BY <2>1 DEF Rotating
  <2>7. QED BY <2>4, <2>5, <2>6 DEF LInv
<1>4. QED BY <1>2, <1>3

LEMMA LInvOpen ==
    ASSUME LInv, Logging!Open \/ Logging!Reopen \/ Logging!End
    PROVE  LInv'
<1> USE DEF Logging!files
<1>1. LogTypes /\ Present
  BY DEF LInv
<1>2. UNCHANGED <<logged, backup, modified, logLine, written>>
  BY DEF Logging!Open, Logging!Reopen, Logging!End
<1>3. /\ copy' \in {copy, <<>>} /\ nextSlot' \in 1..Backups
      /\ logSize' \in {logSize, Len(logged), 0}
      /\ logAt' \in {"ready", "failed", "ended"}
      /\ logAt' = "ended" => logSize' = 0
  <2>1. CASE Logging!Open
    BY <1>1, <2>1, SlotFound DEF Logging!Open, LogTypes
  <2>2. CASE Logging!Reopen
    BY <1>1, <2>2 DEF Logging!Reopen, LogTypes
  <2>3. CASE Logging!End
    BY <2>3, LogAssumption DEF Logging!End, Logging!Missing
  <2>4. QED BY <2>1, <2>2, <2>3
<1>4. Len(logged) \in Nat /\ <<>> \in Seq(Nat)
  BY <1>1, LenProperties, EmptySeq DEF LogTypes
<1>5. LogTypes'
  <2>1. copy' \in Seq(Nat)
    BY <1>1, <1>3, <1>4, Zenon DEF LogTypes
  <2>2. logSize' \in Nat /\ logSize' <= Len(logged)
    <3>1. logSize \in Nat /\ logSize <= Len(logged)
      BY <1>1 DEF LogTypes
    <3>2. logSize' = logSize \/ logSize' = Len(logged) \/ logSize' = 0
      BY <1>3
    <3>3. QED BY <1>4, <3>1, <3>2
  <2>3. QED BY <1>1, <1>2, <1>3, <2>1, <2>2 DEF LogTypes
<1>6. Present'
  BY <1>1, <1>2 DEF Present, Older
<1>7. Rotating'
  BY <1>3 DEF Rotating
<1>8. QED BY <1>5, <1>6, <1>7 DEF LInv

LEMMA LInvWrite ==
    ASSUME LInv, Logging!Write
    PROVE  LInv'
<1>1. LogTypes /\ Present
  BY DEF LInv
<1>2. /\ logAt = "ready" /\ logLine' = logLine + 1 /\ Logging!WriteAll
      /\ UNCHANGED <<logAt, backup, modified, nextSlot, copy>>
  BY DEF Logging!Write
<1>3. logged \in Seq(Nat) /\ Len(logged) \in Nat /\ logSize \in Nat /\ logLine' \in Nat
  BY <1>1, <1>2, LenProperties DEF LogTypes
<1>4. PICK u \in Seq(Nat) :
          /\ logged' = logged \o u
          /\ logSize' \in {logSize, logSize + 1}
          /\ logSize' = logSize + 1 => Len(u) = 1
  <2>1. ASSUME NEW x \in Nat
        PROVE  <<x>> \in Seq(Nat) /\ Len(<<x>>) = 1 /\ Append(logged, x) = logged \o <<x>>
    BY <1>3, AppendIsConcat
  <2>2. <<>> \in Seq(Nat) /\ logged = logged \o <<>>
    BY <1>3, EmptySeq, ConcatEmptySeq
  <2>3. CASE logged' = Append(logged, logLine') /\ logSize' = logSize + 1
    BY <1>3, <2>1, <2>3
  <2>4. CASE logged' = Append(logged, Logging!Torn) /\ logSize' = logSize
    BY <1>3, <2>1, <2>4 DEF Logging!Torn
  <2>5. CASE logged' = logged /\ logSize' = logSize
    <3>1. logged' = logged \o <<>> /\ logSize' \in {logSize, logSize + 1}
          /\ (logSize' = logSize + 1 => Len(<<>>) = 1)
      BY <1>3, <2>2, <2>5
    <3>2. QED BY <2>2, <3>1, Zenon
  <2>6. QED BY <1>2, <2>3, <2>4, <2>5 DEF Logging!WriteAll
<1>5. logged' \in Seq(Nat) /\ Len(logged') = Len(logged) + Len(u) /\ Len(u) \in Nat
  BY <1>3, <1>4, ConcatProperties, LenProperties
<1>6. SubSeq(logged', Len(logged) + 1, Len(logged')) = u
  <2>1. \A i \in 1..Len(logged') : logged'[i] \in Nat
    BY <1>5, ElementOfSeq
  <2>2. \A i \in 1..Len(u) : /\ Len(logged) + i \in 1..Len(logged')
                             /\ logged'[Len(logged) + i] = u[i]
    <3>1. \A i \in 1..Len(logged) + Len(u) :
              (logged \o u)[i] = IF i <= Len(logged) THEN logged[i] ELSE u[i - Len(logged)]
      BY <1>3, <1>4, ConcatProperties
    <3>2. SUFFICES ASSUME NEW i \in 1..Len(u)
                   PROVE  /\ Len(logged) + i \in 1..Len(logged')
                          /\ logged'[Len(logged) + i] = u[i]
      OBVIOUS
    <3>3. /\ Len(logged) + i \in 1..Len(logged) + Len(u)
          /\ ~(Len(logged) + i <= Len(logged))
          /\ (Len(logged) + i) - Len(logged) = i
      BY <1>3, <1>5
    <3>4. QED BY <1>4, <1>5, <3>1, <3>3
  <2> DEFINE s == SubSeq(logged', Len(logged) + 1, Len(logged'))
             m == Len(logged) + 1
             n == Len(logged')
  <2>3. /\ m \in Int /\ n \in Int /\ n - m + 1 = Len(u)
        /\ \A i \in m..n : logged'[i] \in Nat
        /\ \A i \in 1..Len(u) : m + i - 1 = Len(logged) + i
    BY <1>3, <1>5, <2>1
  <2>4. /\ s \in Seq(Nat)
        /\ Len(s) = IF m <= n THEN n - m + 1 ELSE 0
        /\ \A i \in 1..(n - m + 1) : s[i] = logged'[m + i - 1]
    BY <2>3, SubSeqProperties
  <2>5. Len(s) = Len(u)
    BY <1>3, <1>5, <2>3, <2>4
  <2>6. \A i \in 1..Len(u) : s[i] = u[i]
    BY <2>2, <2>3, <2>4
  <2> HIDE DEF s
  <2>7. s = u
    BY <2>4, <2>5, <2>6, SeqEqual
  <2>8. QED BY <2>7 DEF s
<1>7. written' = Logging!LastBytes(written \o u)
  BY <1>2, <1>6 DEF Logging!WriteAll
<1>8. PICK older \in Older : Ends(written, older \o logged)
  BY <1>1 DEF Present
<1>9. older \in Seq(Nat) /\ older \o logged \in Seq(Nat)
      /\ (older \o logged) \o u = older \o logged'
  <2>1. older \in Seq(Nat) /\ older \o logged \in Seq(Nat)
    BY <1>1, OlderOnes
  <2>2. logged \in Seq(Nat) /\ u \in Seq(Nat)
    BY <1>3, <1>4
  <2>3. (older \o logged) \o u = older \o (logged \o u)
    BY <2>1, <2>2, NumbersConcat
  <2>4. QED BY <1>4, <2>1, <2>3
<1>10. /\ written' \in Seq(Nat) /\ Len(written') <= MaxBytes
       /\ Ends(written', older \o logged')
  BY <1>1, <1>4, <1>7, <1>8, <1>9, Appended
<1>11. LogTypes'
  <2>1. logSize' \in Nat /\ logSize' <= Len(logged')
    <3>1. logSize <= Len(logged)
      BY <1>1 DEF LogTypes
    <3>2. CASE logSize' = logSize
      BY <1>3, <1>5, <3>1, <3>2
    <3>3. CASE logSize' = logSize + 1 /\ Len(u) = 1
      BY <1>3, <1>5, <3>1, <3>3
    <3>4. QED BY <1>4, <3>2, <3>3
  <2>2. QED BY <1>1, <1>2, <1>3, <1>5, <1>10, <2>1 DEF LogTypes
<1>12. Present'
  BY <1>2, <1>8, <1>10 DEF Present, Older
<1>13. Rotating'
  BY <1>2 DEF Rotating
<1>14. QED BY <1>11, <1>12, <1>13 DEF LInv

LEMMA LInvRotate ==
    ASSUME LInv, Logging!Rotate \/ Logging!Publish
    PROVE  LInv'
<1> USE DEF Logging!files
<1>1. LogTypes /\ Present
  BY DEF LInv
<1>2. CASE Logging!Rotate
  <2>1. /\ logSize + 1 > MaxBytes /\ logLine' = logLine + 1
        /\ UNCHANGED <<logged, backup, modified, logSize, nextSlot, written>>
        /\ \/ copy' = Logging!LastBytes(logged) /\ logAt' = "publish"
           \/ copy' = <<>> /\ logAt' = "failed"
    BY <1>2 DEF Logging!Rotate, Logging!Full, Logging!PrepareTail, Logging!Missing
  <2>2. logged \in Seq(Nat) /\ Len(logged) >= MaxBytes
    BY <1>1, <2>1, LenProperties, LogAssumption DEF LogTypes
  <2>3. Ends(written, logged) /\ Ends(written, Logging!LastBytes(logged))
    BY <1>1, <2>2, Alone
  <2>4. copy' \in Seq(Nat)
    <3>1. Logging!LastBytes(logged) \in Seq(Nat) /\ <<>> \in Seq(Nat)
      BY <2>2, LastOnes, EmptySeq
    <3>2. copy' = Logging!LastBytes(logged) \/ copy' = <<>>
      BY <2>1
    <3>3. QED BY <3>1, <3>2, Zenon
  <2>5. LogTypes'
    BY <1>1, <2>1, <2>4 DEF LogTypes
  <2>6. Present'
    BY <1>1, <2>1 DEF Present, Older
  <2>7. Rotating'
    BY <2>1, <2>3 DEF Rotating
  <2>8. QED BY <2>5, <2>6, <2>7 DEF LInv
<1>3. CASE Logging!Publish
  <2>1. /\ logAt = "publish" /\ copy' = <<>>
        /\ UNCHANGED <<logged, logSize, nextSlot, logLine, written>>
        /\ \/ /\ backup' = [backup EXCEPT ![nextSlot] = copy]
              /\ modified' = [modified EXCEPT ![nextSlot] = Logging!Now]
              /\ logAt' = "truncate"
           \/ UNCHANGED <<backup, modified>> /\ logAt' = "failed"
    BY <1>3 DEF Logging!Publish, Logging!Missing
  <2>2. Ends(written, copy) /\ Ends(written, logged)
    BY <2>1 DEF LInv, Rotating
  <2>3. /\ backup' \in [1..Backups -> Seq(Nat)] /\ modified' \in [1..Backups -> Nat]
        /\ logAt' = "truncate" => backup'[nextSlot] = copy
    BY <1>1, <2>1, SlotFound DEF LogTypes
  <2>4. <<>> \in Seq(Nat) /\ <<>> \o logged = logged
    BY <1>1, EmptySeq, ConcatEmptySeq DEF LogTypes
  <2>5. LogTypes'
    BY <1>1, <2>1, <2>3, <2>4 DEF LogTypes
  <2>6. Present'
    BY <2>1, <2>2, <2>4 DEF Present, Older
  <2>7. Rotating'
    BY <2>1, <2>2, <2>3 DEF Rotating
  <2>8. QED BY <2>5, <2>6, <2>7 DEF LInv
<1>4. QED BY <1>2, <1>3

LEMMA LInvTruncate ==
    ASSUME LInv, Logging!Truncate
    PROVE  LInv'
<1>1. LogTypes /\ Present
  BY DEF LInv
<1>2. logAt = "truncate" /\ UNCHANGED <<backup, modified, copy, logLine>>
  BY DEF Logging!Truncate
<1>3. Ends(written, backup[nextSlot])
  BY <1>2 DEF LInv, Rotating
<1>4. CASE /\ logAt' = "failed" /\ UNCHANGED <<logged, logSize, nextSlot, written>>
  <2>1. LogTypes' /\ Rotating'
    BY <1>1, <1>2, <1>4 DEF LogTypes, Rotating
  <2>2. Present'
    BY <1>1, <1>2, <1>4 DEF Present, Older
  <2>3. QED BY <2>1, <2>2 DEF LInv
<1>5. CASE /\ logAt' = "ready" /\ nextSlot' = (nextSlot % Backups) + 1
           /\ \/ logged' = <<logLine>> /\ logSize' = 1
              \/ logged' = <<Logging!Torn>> /\ logSize' = 0
              \/ logged' = <<>> /\ logSize' = 0
           /\ written' = Logging!LastBytes(written \o logged')
  <2>1. \A x \in Nat : <<x>> \in Seq(Nat) /\ Len(<<x>>) = 1
    OBVIOUS
  <2>2. logged' \in Seq(Nat) /\ logSize' \in Nat /\ logSize' <= Len(logged')
    <3>1. CASE logged' = <<logLine>> /\ logSize' = 1
      BY <1>1, <2>1, <3>1 DEF LogTypes
    <3>2. CASE logged' = <<Logging!Torn>> /\ logSize' = 0
      BY <2>1, <3>2 DEF Logging!Torn
    <3>3. CASE logged' = <<>> /\ logSize' = 0
      BY <3>3, EmptySeq
    <3>4. QED BY <1>5, <3>1, <3>2, <3>3
  <2>3. backup[nextSlot] \in Seq(Nat) /\ backup[nextSlot] \in Older
    BY <1>1 DEF LogTypes, Older
  <2>4. written' \in Seq(Nat) /\ Len(written') <= MaxBytes
        /\ Ends(written', backup[nextSlot] \o logged')
    BY <1>1, <1>3, <1>5, <2>2, <2>3, Appended
  <2>5. nextSlot' \in 1..Backups
    BY <1>1, <1>5, LogAssumption DEF LogTypes
  <2>6. LogTypes'
    BY <1>1, <1>2, <2>2, <2>4, <2>5 DEF LogTypes
  <2>7. Present'
    BY <1>2, <2>3, <2>4 DEF Present, Older
  <2>8. Rotating'
    BY <1>5 DEF Rotating
  <2>9. QED BY <2>6, <2>7, <2>8 DEF LInv
<1>6. QED BY <1>4, <1>5 DEF Logging!Truncate

LEMMA LInvNext ==
    ASSUME LInv, [Logging!Next]_(Logging!vars)
    PROVE  LInv'
<1>1. CASE UNCHANGED Logging!vars
  <2>1. UNCHANGED <<logged, backup, modified, logAt, logSize, nextSlot, copy, logLine,
                    written>>
    BY <1>1 DEF Logging!vars
  <2>2. QED BY <2>1 DEF LInv, LogTypes, Present, Older, Rotating
<1>2. QED
  BY <1>1, LInvNormalize, LInvOpen, LInvWrite, LInvRotate, LInvTruncate
  DEF Logging!Next

(* What was appended last, up to max_bytes of it, is in the log file and one  *)
(* of its backups, for every limit and number of backups, whatever fails and  *)
(* wherever the program ends (rotate_to, prepare_tail, normalize_set). *)
THEOREM LogsWhole == Logging!Spec => []Logging!KeptWhole
<1>1. LInv => Logging!KeptWhole
  <2>1. SUFFICES ASSUME LInv PROVE Logging!KeptWhole
    OBVIOUS
  <2>2. PICK older \in Older : Ends(written, older \o logged)
    BY <2>1 DEF LInv, Present
  <2>3. older \o logged \in Seq(Nat) /\ written \in Seq(Nat)
    BY <2>1, OlderOnes DEF LInv, LogTypes
  <2>4. Logging!IsSuffix(written, older \o logged)
    BY <2>2, <2>3, EndsIsSuffix
  <2>5. older \in {Logging!Missing} \cup {backup[i] : i \in Logging!Slot}
    BY DEF Older, Logging!Missing, Logging!Slot
  <2>6. QED BY <2>4, <2>5 DEF Logging!KeptWhole, Logging!OnDisk
<1>2. QED
  BY LInvInit, LInvNext, <1>1, PTL DEF Logging!Spec

Numbered == 0..MaxLines
Logs == Seq(Numbered)

LogBounds ==
    /\ logged \in Logs /\ copy \in Logs /\ backup \in [1..Backups -> Logs]
    /\ logAt \in {"ended", "normalize", "open", "ready", "publish", "truncate", "failed"}
    /\ logOpen \in BOOLEAN /\ logSize <= MaxBytes /\ logLine <= MaxLines
    /\ logAt = "open" => Len(logged) <= MaxBytes
    /\ logAt = "normalize" => Len(copy) <= MaxBytes

LEMMA LogTyped ==
    ASSUME LInv, LogBounds
    PROVE  Logging!TypeOK
<1>1. Logging!Slot = 1..Backups
  BY DEF Logging!Slot
<1>2. /\ modified \in [1..Backups -> Nat] /\ nextSlot \in 1..Backups
      /\ logSize \in Nat /\ logLine \in Nat
  BY DEF LInv, LogTypes
<1>3. logSize \in 0..(MaxBytes + Excess) /\ logLine \in 0..MaxLines
  BY <1>2, LogAssumption, BoundsAssumption DEF LogBounds
<1>4. /\ logged \in Seq(0..MaxLines) /\ copy \in Seq(0..MaxLines)
      /\ backup \in [1..Backups -> Seq(0..MaxLines)]
  BY DEF LogBounds, Logs, Numbered
<1>5. QED BY <1>1, <1>2, <1>3, <1>4, Zenon DEF Logging!TypeOK, LogBounds

LEMMA LastNumbered ==
    ASSUME NEW s \in Logs
    PROVE  Logging!LastBytes(s) \in Logs /\ Len(Logging!LastBytes(s)) <= MaxBytes
BY LastOnes DEF Logs

LEMMA NoneNumbered == <<>> \in Logs
BY EmptySeq DEF Logs

(* A line that is counted is appended, or a part of it. *)
LEMMA LineNumbered ==
    ASSUME NEW s \in Logs, NEW n \in Nat, n <= MaxLines
    PROVE  Append(s, n) \in Logs /\ <<n>> \in Logs
<1>1. n \in Numbered
  BY BoundsAssumption DEF Numbered
<1>2. QED BY <1>1, AppendProperties DEF Logs

LEMMA LogBoundsInit == Logging!Init => LogBounds
<1> SUFFICES ASSUME Logging!Init PROVE LogBounds
  OBVIOUS
<1> DEFINE n == MaxBytes + Excess
           long == [i \in 1..n |-> i]
<1>1. /\ logged \in {<<>>} \cup {long}
      /\ backup = [i \in 1..Backups |-> <<>>] /\ copy = <<>>
      /\ logAt = "ended" /\ logOpen = FALSE /\ logSize = 0 /\ logLine = Len(logged)
  BY DEF Logging!Init, Logging!Slot, Logging!Missing
<1>2. n \in Nat /\ n <= MaxLines /\ MaxLines \in Nat /\ MaxBytes \in Nat
  BY LogAssumption, LogLinesAssumption, BoundsAssumption
<1> HIDE DEF n
<1>3. long \in Logs /\ Len(long) = n
  <2>1. long \in [1..n -> Numbered]
    BY <1>2 DEF Numbered
  <2>2. ASSUME NEW x \in [1..n -> Numbered] PROVE x \in Seq(Numbered) /\ Len(x) = n
    BY <1>2
  <2> HIDE DEF long
  <2>3. QED BY <2>1, <2>2 DEF Logs
<1> HIDE DEF long
<1>4. logged \in Logs /\ logLine <= MaxLines
  <2>1. CASE logged = <<>>
    <3>1. logLine = 0
      BY <1>1, <2>1
    <3>2. QED BY <1>2, <2>1, <3>1, NoneNumbered
  <2>2. CASE logged = long
    BY <1>1, <1>2, <1>3, <2>2
  <2>3. QED BY <1>1, <2>1, <2>2
<1>5. backup \in [1..Backups -> Logs]
  BY <1>1, NoneNumbered
<1>6. /\ logAt \in {"ended", "normalize", "open", "ready", "publish", "truncate", "failed"}
      /\ logAt # "open" /\ logAt # "normalize"
  BY <1>1
<1>7. logOpen \in BOOLEAN /\ logSize <= MaxBytes /\ copy \in Logs
  <2>1. 0 <= MaxBytes
    BY <1>2
  <2>2. logSize <= MaxBytes
    BY <1>1, <2>1
  <2>3. QED BY <1>1, <2>2, NoneNumbered, Zenon
<1>8. QED BY <1>4, <1>5, <1>6, <1>7, Zenon DEF LogBounds

LEMMA NormalizeBounds ==
    ASSUME LInv, LogBounds,
           \/ Logging!NormalizeSet \/ Logging!ReplaceCurrent
           \/ Logging!Open \/ Logging!Reopen \/ Logging!End
    PROVE  LogBounds'
<1> USE NoneNumbered DEF LogBounds, Logging!files, Logging!Missing
<1>1. Len(logged) \in Nat /\ MaxBytes \in Nat
  BY LenProperties, LogAssumption DEF Logs
<1>2. CASE Logging!NormalizeSet
  <2>1. CASE Len(logged) > MaxBytes
    BY <1>2, <2>1, LastNumbered DEF Logging!NormalizeSet, Logging!PrepareTail
  <2>2. CASE ~(Len(logged) > MaxBytes)
    <3>1. logAt' = "open" /\ UNCHANGED copy
      BY <1>2, <2>2 DEF Logging!NormalizeSet
    <3>2. Len(logged) <= MaxBytes
      BY <1>1, <2>2
    <3>3. QED BY <1>2, <3>1, <3>2 DEF Logging!NormalizeSet
  <2>3. QED BY <2>1, <2>2
<1>3. CASE Logging!ReplaceCurrent
  BY <1>3 DEF Logging!ReplaceCurrent
<1>4. CASE Logging!Open
  BY <1>4 DEF Logging!Open
<1>5. CASE Logging!Reopen
  BY <1>5 DEF Logging!Reopen
<1>6. CASE Logging!End
  <2>1. /\ logAt' = "ended" /\ logOpen' = FALSE /\ logSize' = 0 /\ copy' = <<>>
        /\ UNCHANGED <<logged, backup, logLine>>
    BY <1>6 DEF Logging!End
  <2>2. logSize' <= MaxBytes
    BY <1>1, <2>1
  <2>3. QED BY <2>1, <2>2
<1>7. QED BY <1>2, <1>3, <1>4, <1>5, <1>6

LEMMA WritingBounds ==
    ASSUME LInv, LogBounds,
           Logging!Write \/ Logging!Rotate \/ Logging!Publish \/ Logging!Truncate
    PROVE  LogBounds'
<1> USE NoneNumbered DEF LogBounds, Logging!files, Logging!Missing
<1>1. /\ logSize \in Nat /\ logLine \in Nat /\ MaxBytes \in Nat /\ MaxLines \in Nat
      /\ nextSlot \in 1..Backups /\ MaxBytes > 0
  BY LogAssumption, LogLinesAssumption, BoundsAssumption DEF LInv, LogTypes
<1>2. CASE Logging!Write
  <2>1. /\ logLine' = logLine + 1 /\ logLine' \in Nat /\ logLine' <= MaxLines
        /\ logSize + 1 <= MaxBytes /\ logAt' = "ready"
        /\ UNCHANGED <<backup, logOpen, copy>>
    BY <1>1, <1>2 DEF Logging!Write, Logging!Full
  <2>2. logged' \in Logs
    <3>1. \/ logged' = Append(logged, logLine') \/ logged' = Append(logged, 0)
          \/ logged' = logged
      BY <1>2, Zenon DEF Logging!Write, Logging!WriteAll, Logging!Torn
    <3>2. 0 \in Nat /\ 0 <= MaxLines /\ logged \in Logs
      BY <1>1
    <3>3. QED BY <2>1, <3>1, <3>2, LineNumbered
  <2>3. logSize' <= MaxBytes
    BY <1>2, <2>1 DEF Logging!Write, Logging!WriteAll
  <2>4. QED BY <2>1, <2>2, <2>3
<1>3. CASE Logging!Rotate
  <2>1. logLine' <= MaxLines
    BY <1>1, <1>3 DEF Logging!Rotate
  <2>2. QED BY <1>3, <2>1, LastNumbered DEF Logging!Rotate, Logging!PrepareTail
<1>4. CASE Logging!Publish
  BY <1>1, <1>4 DEF Logging!Publish
<1>5. CASE Logging!Truncate
  <2>1. CASE logAt' = "failed" /\ UNCHANGED <<logged, logOpen, logSize>>
    BY <1>5, <2>1 DEF Logging!Truncate
  <2>2. CASE /\ logAt' = "ready" /\ logOpen' = TRUE
             /\ \/ logged' = <<logLine>> /\ logSize' = 1
                \/ logged' = <<Logging!Torn>> /\ logSize' = 0
                \/ logged' = <<>> /\ logSize' = 0
    <3>1. logged' \in Logs
      BY <1>1, <2>2, LineNumbered DEF Logging!Torn
    <3>2. logSize' <= MaxBytes
      BY <1>1, <2>2
    <3>3. QED BY <1>5, <2>2, <3>1, <3>2 DEF Logging!Truncate
  <2>3. QED BY <1>5, <2>1, <2>2 DEF Logging!Truncate
<1>6. QED BY <1>2, <1>3, <1>4, <1>5

LEMMA LogBoundsNext ==
    ASSUME LInv, LogBounds, [Logging!Next]_(Logging!vars)
    PROVE  LogBounds'
<1>1. CASE UNCHANGED Logging!vars
  BY <1>1 DEF Logging!vars, LogBounds
<1>2. QED BY <1>1, NormalizeBounds, WritingBounds DEF Logging!Next

(* The types of LogFiles: a file that is open was cut to its limit when it    *)
(* was opened, and the length that is kept of it never passes the limit       *)
(* (normalize_set, write). *)
THEOREM LogTypesKept == Logging!Spec => []Logging!TypeOK
BY LInvInit, LInvNext, LogBoundsInit, LogBoundsNext, LogTyped, PTL DEF Logging!Spec

----------------------------------------------------------------------------
(* Starting up. Of the processes that go on from the guard there is one, so   *)
(* that one only can have brought the entry in line with a setting; which is  *)
(* said of the setting it had then, since the user may save the other and     *)
(* this one again.                                                            *)

Value == {"none", "ours", "foreign"}
Place == {"ended", "acquire", "resolve", "create", "write", "move", "sync",
          "commit", "running"}
Inline(v) == IF v THEN entry = "ours" ELSE entry # "ours"

StartTypes ==
    /\ startAt \in [Instance -> Place]
    /\ startedFor \in [Instance -> {"none", "validate", "dashboard", "hardware test"}]
    /\ temporary \in [Instance -> {"none", "part", "template"}]
    /\ config \in {"none", "template", "user"}
    /\ wanted \in BOOLEAN /\ entry \in Value
    /\ seen \in [Instance -> Value] /\ synced \in [Instance -> SUBSET BOOLEAN]

Guarded ==
    \A p \in Instance :
        /\ (startedFor[p] # "validate" /\ startAt[p] \notin {"ended", "acquire"}) =>
              guard = p
        /\ startAt[p] \in {"sync", "commit"} => startedFor[p] = "dashboard"
        /\ synced[p] # {} =>
              startedFor[p] = "dashboard" /\ startAt[p] \notin {"ended", "acquire"}

Seeded ==
    /\ \A p \in Instance : startAt[p] = "move" => temporary[p] = "template"
    /\ saved => config = "user"

Registered ==
    /\ foreign => entry = "foreign"
    /\ \A p \in Instance, v \in BOOLEAN : (synced[p] = {v} /\ ~touched) => Inline(v)

SInv == StartTypes /\ Guarded /\ Seeded /\ Registered

LEMMA SInvInit == Starting!Init => SInv
BY DEF Starting!Init, SInv, StartTypes, Guarded, Seeded, Registered, Place, Value

(* A process that ends keeps nothing. *)
LEMMA Ended ==
    ASSUME SInv, NEW p \in Instance, Starting!End(p),
           UNCHANGED <<config, wanted, entry, touched, foreign, saved>>,
           temporary' \in {temporary, [temporary EXCEPT ![p] = "none"]}
    PROVE  SInv'
<1> USE DEF Starting!End, Starting!Goto
<1>1. StartTypes'
  BY Zenon DEF SInv, StartTypes, Place, Value
<1>2. Guarded'
  <2>1. SUFFICES ASSUME NEW q \in Instance
                 PROVE  /\ (startedFor'[q] # "validate"
                               /\ startAt'[q] \notin {"ended", "acquire"}) => guard' = q
                        /\ startAt'[q] \in {"sync", "commit"} =>
                              startedFor'[q] = "dashboard"
                        /\ synced'[q] # {} =>
                              /\ startedFor'[q] = "dashboard"
                              /\ startAt'[q] \notin {"ended", "acquire"}
    BY DEF Guarded
  <2>2. CASE q = p
    BY <2>2, Zenon DEF SInv, StartTypes
  <2>3. CASE q # p
    BY <2>3, Zenon DEF SInv, StartTypes, Guarded
  <2>4. QED BY <2>2, <2>3
<1>3. Seeded'
  BY Zenon DEF SInv, StartTypes, Seeded
<1>4. Registered'
  <2>1. \A q \in Instance : synced'[q] = {} \/ synced'[q] = synced[q]
    BY Zenon DEF SInv, StartTypes
  <2>2. QED BY <2>1 DEF SInv, Registered, Inline
<1>5. QED BY <1>1, <1>2, <1>3, <1>4 DEF SInv

(* A process goes on to a place where it may be. *)
LEMMA MovesOn ==
    ASSUME SInv, NEW p \in Instance, NEW place \in Place,
           Starting!Goto(p, place), UNCHANGED <<guard, startedFor, synced>>,
           startAt[p] \notin {"ended", "acquire"},
           place \notin {"ended", "acquire"},
           place \in {"sync", "commit"} => startedFor[p] = "dashboard"
    PROVE  Guarded' /\ startAt' \in [Instance -> Place]
BY Zenon DEF SInv, StartTypes, Guarded, Starting!Goto

LEMMA SInvMain ==
    ASSUME SInv, NEW p \in Instance, UNCHANGED Starting!history, Starting!Main(p)
    PROVE  SInv'
<1>1. PICK c \in {"validate", "dashboard", "hardware test"} :
          /\ startedFor' = [startedFor EXCEPT ![p] = c]
          /\ startAt' = [startAt EXCEPT ![p] =
                             IF c = "validate" THEN "resolve" ELSE "acquire"]
  BY Zenon DEF Starting!Main, Starting!Goto
<1>2. /\ startAt[p] = "ended"
      /\ UNCHANGED <<guard, temporary, config, wanted, entry, seen, synced, touched,
                     foreign, saved>>
  BY Zenon DEF Starting!Main, Starting!seeding, Starting!registry, Starting!history
<1>3. StartTypes' /\ Seeded'
  BY <1>1, <1>2, Zenon DEF SInv, StartTypes, Seeded, Place
<1>4. Guarded'
  BY <1>1, <1>2, Zenon DEF SInv, StartTypes, Guarded
<1>5. Registered'
  BY <1>2, Zenon DEF SInv, Registered, Inline
<1>6. QED BY <1>3, <1>4, <1>5, Zenon DEF SInv

LEMMA SInvAcquire ==
    ASSUME SInv, NEW p \in Instance, UNCHANGED Starting!history, Starting!Acquire(p)
    PROVE  SInv'
<1>1. /\ startAt[p] = "acquire"
      /\ UNCHANGED <<temporary, config, wanted, entry, touched, foreign, saved>>
  BY DEF Starting!Acquire, Starting!seeding, Starting!history
<1>2. CASE Starting!End(p)
  BY <1>1, <1>2, Ended
<1>3. CASE /\ guard = NoInstance /\ guard' = p /\ Starting!Goto(p, "resolve")
           /\ UNCHANGED <<startedFor, seen, synced>>
  <2>1. \A q \in Instance :
            startedFor[q] = "validate" \/ startAt[q] \in {"ended", "acquire"}
    BY <1>3, InstanceAssumption DEF SInv, Guarded
  <2>2. Guarded'
    BY <1>1, <1>3, <2>1, Zenon DEF SInv, StartTypes, Guarded, Starting!Goto
  <2>3. StartTypes' /\ Seeded'
    BY <1>1, <1>3, Zenon DEF SInv, StartTypes, Seeded, Starting!Goto, Place
  <2>4. Registered'
    BY <1>1, <1>3 DEF SInv, Registered, Inline
  <2>5. QED BY <2>2, <2>3, <2>4 DEF SInv
<1>4. QED BY <1>2, <1>3 DEF Starting!Acquire

(* What resolve_config and seed_config do: the template is whole when it is   *)
(* moved, and takes no place that is taken. *)
LEMMA SInvResolve ==
    ASSUME SInv, NEW p \in Instance, UNCHANGED Starting!history,
           \/ Starting!ResolveConfig(p) \/ Starting!CreateTemporary(p)
           \/ Starting!WriteTemporary(p) \/ Starting!MoveNoReplace(p)
    PROVE  SInv'
<1> DEFINE next == IF startedFor[p] = "dashboard" THEN "sync" ELSE "running"
<1> USE DEF Starting!Resolved
<1>1. /\ startAt[p] \in {"resolve", "create", "write", "move"}
      /\ UNCHANGED <<guard, startedFor, wanted, entry, seen, synced, touched, foreign,
                     saved>>
  BY DEF Starting!ResolveConfig, Starting!CreateTemporary, Starting!WriteTemporary,
         Starting!MoveNoReplace, Starting!seeding, Starting!registry, Starting!history
<1>2. next \in Place /\ next \notin {"ended", "acquire", "move", "commit"}
      /\ (next = "sync" => startedFor[p] = "dashboard")
  BY DEF Place
<1>3. Registered'
  BY <1>1 DEF SInv, Registered, Inline
<1>4. CASE Starting!ResolveConfig(p)
  <2>1. UNCHANGED <<temporary, config>>
    BY <1>4 DEF Starting!ResolveConfig, Starting!seeding
  <2>2. PICK place \in {"create", next} : Starting!Goto(p, place)
    BY <1>4 DEF Starting!ResolveConfig
  <2>3. Guarded' /\ startAt' \in [Instance -> Place]
    BY <1>1, <1>2, <2>2, MovesOn DEF Place
  <2>4. StartTypes' /\ Seeded'
    BY <1>1, <1>2, <2>1, <2>2, <2>3, Zenon DEF SInv, StartTypes, Seeded, Starting!Goto
  <2>5. QED BY <1>3, <2>3, <2>4 DEF SInv
<1>5. CASE Starting!CreateTemporary(p)
  <2>1. /\ temporary' = [temporary EXCEPT ![p] = "part"] /\ config' = config
        /\ Starting!Goto(p, "write")
    BY <1>5 DEF Starting!CreateTemporary
  <2>2. Guarded' /\ startAt' \in [Instance -> Place]
    BY <1>1, <2>1, MovesOn DEF Place
  <2>3. StartTypes' /\ Seeded'
    BY <1>1, <2>1, <2>2, Zenon DEF SInv, StartTypes, Seeded, Starting!Goto
  <2>4. QED BY <1>3, <2>2, <2>3 DEF SInv
<1>6. CASE Starting!WriteTemporary(p)
  <2>1. /\ temporary' = [temporary EXCEPT ![p] = "template"] /\ config' = config
        /\ Starting!Goto(p, "move")
    BY <1>6 DEF Starting!WriteTemporary
  <2>2. Guarded' /\ startAt' \in [Instance -> Place]
    BY <1>1, <2>1, MovesOn DEF Place
  <2>3. StartTypes' /\ Seeded'
    BY <1>1, <2>1, <2>2, Zenon DEF SInv, StartTypes, Seeded, Starting!Goto
  <2>4. QED BY <1>3, <2>2, <2>3 DEF SInv
<1>7. CASE Starting!MoveNoReplace(p)
  <2>1. /\ startAt[p] = "move" /\ Starting!Goto(p, next)
        /\ config' = IF config = "none" THEN temporary[p] ELSE config
        /\ temporary' = [temporary EXCEPT ![p] = "none"]
    BY <1>7 DEF Starting!MoveNoReplace
  <2>2. temporary[p] = "template"
    BY <2>1 DEF SInv, Seeded
  <2>3. Guarded' /\ startAt' \in [Instance -> Place]
    BY <1>1, <1>2, <2>1, MovesOn
  <2>4. StartTypes' /\ Seeded'
    BY <1>1, <1>2, <2>1, <2>2, <2>3, Zenon DEF SInv, StartTypes, Seeded, Starting!Goto
  <2>5. QED BY <1>3, <2>3, <2>4 DEF SInv
<1>8. QED BY <1>4, <1>5, <1>6, <1>7

LEMMA SInvSync ==
    ASSUME SInv, NEW p \in Instance, UNCHANGED Starting!history,
           Starting!SyncStartup(p) \/ Starting!Reload(p)
    PROVE  SInv'
<1>1. /\ startAt[p] \in {"sync", "running"}
      /\ startedFor[p] = "dashboard" /\ seen' \in [Instance -> Value]
      /\ UNCHANGED <<guard, startedFor, temporary, config, wanted, entry, synced, touched,
                     foreign, saved>>
  BY Zenon DEF Starting!SyncStartup, Starting!Reload, Starting!seeding, Starting!registry,
         Starting!history, SInv, StartTypes, Guarded
<1>2. PICK place \in {"sync", "commit", "running"} : Starting!Goto(p, place)
  BY DEF Starting!SyncStartup, Starting!Reload
<1>3. Guarded' /\ startAt' \in [Instance -> Place]
  BY <1>1, <1>2, MovesOn DEF Place
<1>4. StartTypes' /\ Seeded'
  BY <1>1, <1>2, <1>3, Zenon DEF SInv, StartTypes, Seeded, Starting!Goto
<1>5. Registered'
  BY <1>1 DEF SInv, Registered, Inline
<1>6. QED BY <1>3, <1>4, <1>5 DEF SInv

(* The one process that holds the guard commits what it wanted. *)
LEMMA SInvCommit ==
    ASSUME SInv, NEW p \in Instance, UNCHANGED Starting!history, Starting!Commit(p)
    PROVE  SInv'
<1>1. /\ startAt[p] = "commit" /\ Starting!Goto(p, "running")
      /\ seen' = [seen EXCEPT ![p] = "none"]
      /\ UNCHANGED <<guard, startedFor, temporary, config, wanted, foreign, saved>>
  BY DEF Starting!Commit, Starting!seeding, Starting!history
<1>2. startedFor[p] = "dashboard" /\ guard = p
  BY <1>1 DEF SInv, Guarded
<1>3. \A q \in Instance : q # p => synced[q] = {}
  BY <1>2 DEF SInv, Guarded
<1>4. Seeded'
  BY <1>1, Zenon DEF SInv, StartTypes, Seeded, Starting!Goto
<1>5. CASE /\ ~Starting!Refused(seen[p]) /\ entry = seen[p]
           /\ entry' = Starting!Written(entry)
           /\ synced' = [synced EXCEPT ![p] = {wanted}]
           /\ touched' = FALSE
  <2>1. /\ entry' \in Value /\ (entry = "foreign" => entry' = "foreign")
        /\ IF wanted THEN entry' = "ours" ELSE entry' # "ours"
    BY <1>5, Zenon DEF Starting!Refused, Starting!Written, SInv, StartTypes, Value
  <2>2. StartTypes' /\ Guarded'
    BY <1>1, <1>2, <1>3, <1>5, <2>1, Zenon
    DEF SInv, StartTypes, Guarded, Starting!Goto, Place, Value
  <2>3. synced'[p] = {wanted} /\ \A q \in Instance : q # p => synced'[q] = {}
    BY <1>3, <1>5, Zenon DEF SInv, StartTypes
  <2>4. Registered'
    BY <1>1, <2>1, <2>3, Zenon DEF SInv, StartTypes, Registered, Inline
  <2>5. QED BY <1>4, <2>2, <2>4 DEF SInv
<1>6. CASE UNCHANGED <<entry, synced, touched>>
  <2>1. StartTypes' /\ Guarded'
    BY <1>1, <1>2, <1>6, Zenon DEF SInv, StartTypes, Guarded, Starting!Goto, Place, Value
  <2>2. Registered'
    BY <1>1, <1>6 DEF SInv, Registered, Inline
  <2>3. QED BY <1>4, <2>1, <2>2 DEF SInv
<1>7. QED BY <1>5, <1>6 DEF Starting!Commit

LEMMA SInvOthers ==
    ASSUME SInv, Starting!Save \/ Starting!Register
    PROVE  SInv'
<1>1. UNCHANGED <<guard, startedFor, startAt, temporary, seen, synced>>
  BY DEF Starting!Save, Starting!Register, Starting!seeding, Starting!registry
<1>2. CASE Starting!Save
  <2>1. /\ config' = "user" /\ wanted' \in BOOLEAN
        /\ UNCHANGED <<entry, touched, foreign>>
    BY <1>2, Zenon DEF Starting!Save, Starting!registry, SInv, StartTypes
  <2>2. QED
    BY <1>1, <2>1, Zenon DEF SInv, StartTypes, Guarded, Seeded, Registered, Inline
<1>3. CASE Starting!Register
  <2>1. /\ entry' \in Value /\ touched' = TRUE /\ foreign' = (entry' = "foreign")
        /\ UNCHANGED <<config, wanted, saved>>
    BY <1>3 DEF Starting!Register, Starting!seeding, Value
  <2>2. QED
    BY <1>1, <2>1, Zenon DEF SInv, StartTypes, Guarded, Seeded, Registered, Inline
<1>4. QED BY <1>2, <1>3

LEMMA SInvNext ==
    ASSUME SInv, [Starting!Next]_(Starting!vars)
    PROVE  SInv'
<1>1. ASSUME NEW p \in Instance, UNCHANGED Starting!history,
             Starting!ResolveFails(p) \/ Starting!Exit(p)
      PROVE  SInv'
  <2>1. /\ Starting!End(p)
        /\ temporary' \in {temporary, [temporary EXCEPT ![p] = "none"]}
        /\ UNCHANGED <<config, wanted, entry, touched, foreign, saved>>
    BY <1>1 DEF Starting!ResolveFails, Starting!Exit, Starting!seeding, Starting!history
  <2>2. QED BY <2>1, Ended
<1>2. CASE Starting!ProgramStep
  BY <1>1, <1>2, SInvMain, SInvAcquire, SInvResolve, SInvSync, SInvCommit
  DEF Starting!ProgramStep
<1>3. CASE UNCHANGED Starting!vars
  <2>1. UNCHANGED <<guard, startedFor, startAt, temporary, config, wanted, entry, seen,
                    synced, touched, foreign, saved>>
    BY <1>3 DEF Starting!vars, Starting!seeding, Starting!registry, Starting!history
  <2>2. QED
    BY <2>1, Zenon DEF SInv, StartTypes, Guarded, Seeded, Registered, Inline
<1>4. QED BY <1>2, <1>3, SInvOthers DEF Starting!Next

(* However many processes start, end half-way and seed the settings at once:  *)
(* the file is whole, what the user saved stays, the entry of another program *)
(* stays, and what the dashboard takes for the entry's state is its state     *)
(* (seed_config, move_no_replace, sync_startup). *)
THEOREM StartsWhole == Starting!Spec => []Starting!KeptWhole
<1>1. SInv => Starting!KeptWhole
  BY Zenon DEF SInv, StartTypes, Seeded, Registered, Inline, Starting!KeptWhole,
    Starting!Agrees
<1>2. QED
  BY SInvInit, SInvNext, <1>1, PTL DEF Starting!Spec

StartFlags ==
    /\ installed \in BOOLEAN /\ guard \in Instance \cup {NoInstance}
    /\ touched \in BOOLEAN /\ foreign \in BOOLEAN /\ saved \in BOOLEAN

LEMMA StartTyped ==
    ASSUME SInv, StartFlags
    PROVE  Starting!TypeOK
<1>1. {touched, foreign, saved} \subseteq BOOLEAN
  BY Zenon DEF StartFlags
<1>2. config \in {"none", "part", "template", "user"}
  BY Zenon DEF SInv, StartTypes
<1>3. QED BY <1>1, <1>2, Zenon DEF SInv, StartTypes, StartFlags, Place, Value, Starting!TypeOK

LEMMA StartFlagsInit == Starting!Init => StartFlags
BY Zenon DEF Starting!Init, StartFlags

LEMMA StartFlagsNext ==
    ASSUME StartFlags, [Starting!Next]_(Starting!vars)
    PROVE  StartFlags'
<1> USE DEF Starting!registry, Starting!history, Starting!End
<1>1. ASSUME NEW p \in Instance, UNCHANGED Starting!history,
             \/ Starting!Main(p) \/ Starting!Acquire(p) \/ Starting!ResolveConfig(p)
             \/ Starting!CreateTemporary(p) \/ Starting!WriteTemporary(p)
             \/ Starting!MoveNoReplace(p) \/ Starting!ResolveFails(p)
             \/ Starting!SyncStartup(p) \/ Starting!Commit(p) \/ Starting!Reload(p)
             \/ Starting!Exit(p)
      PROVE  StartFlags'
  <2>1. /\ installed' = installed /\ foreign' = foreign /\ saved' = saved
        /\ touched' = touched \/ touched' = FALSE
    BY <1>1, Zenon DEF Starting!Main, Starting!Acquire, Starting!ResolveConfig,
      Starting!CreateTemporary, Starting!WriteTemporary, Starting!MoveNoReplace,
      Starting!ResolveFails, Starting!SyncStartup, Starting!Commit, Starting!Reload,
      Starting!Exit
  <2>2. guard' \in {guard, p, NoInstance}
    BY <1>1, Zenon DEF Starting!Main, Starting!Acquire, Starting!ResolveConfig,
      Starting!CreateTemporary, Starting!WriteTemporary, Starting!MoveNoReplace,
      Starting!ResolveFails, Starting!SyncStartup, Starting!Commit, Starting!Reload,
      Starting!Exit
  <2>3. QED BY <2>1, <2>2, Zenon DEF StartFlags
<1>2. CASE Starting!ProgramStep
  BY <1>1, <1>2, Zenon DEF Starting!ProgramStep
<1>3. CASE Starting!Save \/ Starting!Register
  BY <1>3, Zenon DEF Starting!Save, Starting!Register, StartFlags
<1>4. CASE UNCHANGED Starting!vars
  BY <1>4, Zenon DEF Starting!vars, StartFlags
<1>5. QED BY <1>2, <1>3, <1>4 DEF Starting!Next


(* The types of Startup: whoever holds the guard is a process, and a file     *)
(* that is seeded is never there in part (main, seed_config). *)
THEOREM StartTypesKept == Starting!Spec => []Starting!TypeOK
BY SInvInit, SInvNext, StartFlagsInit, StartFlagsNext, StartTyped, PTL DEF Starting!Spec

----------------------------------------------------------------------------
(* The inductive invariant. A version of the file is named by its index and   *)
(* the time of its last change, which are never used again; so metadata that  *)
(* was read at any time belongs to one text only. *)

GamesText == [document : SUBSET Games!Application, whole : BOOLEAN]
GamesVersion == [index : Nat, modified : Nat, text : GamesText]
Meta == [index : Nat, modified : Nat, whole : BOOLEAN]

Dated ==
    /\ clock \in Nat
    /\ gamesFile \in GamesVersion
    /\ handle \in GamesVersion
    /\ gamesRead \in GamesText /\ before \in Meta /\ metadata \in Meta
    /\ gamesFile.modified <= clock
    /\ gamesFile # Games!NoFile => gamesFile.index > 0
    /\ before.modified <= clock /\ metadata.modified <= clock

Attempt ==
    /\ gamesAt \in {"read", "compare"} =>
          handle.index = before.index /\ before.index > 0
    /\ (/\ gamesAt = "compare" /\ gamesFile # Games!NoFile
        /\ before = Games!Metadata(gamesFile)) =>
          gamesRead = gamesFile.text

(* A file that is being written is there. *)
Begun == unfinished => gamesFile # Games!NoFile

GInv == Dated /\ Attempt /\ Games!WholeReadings

(* What the owner may write is a set of applications. *)
LEMMA Listed == Games!Document \subseteq SUBSET Games!Application
<1>1. \A p \in Path \cup {NoPath} :
          /\ Games!Game(p) \in Games!Application
          /\ [Games!Game(p) EXCEPT !.manual = TRUE] \in Games!Application
          /\ [Games!Game(p) EXCEPT !.recognized = FALSE] \in Games!Application
  BY DEF Games!Game, Games!Application
<1>2. SUFFICES ASSUME NEW d \in Games!Document,
    NEW a \in d PROVE a \in Games!Application
  OBVIOUS
<1>3. PICK p \in Path :
          \A b \in d : b \in {Games!Game(p), Games!Game(NoPath),
              [Games!Game(p) EXCEPT !.manual = TRUE],
                            [Games!Game(p) EXCEPT !.recognized = FALSE]}
  BY DEF Games!Document
<1>4. QED BY <1>1, <1>2, <1>3

(* Nothing is a version as well. *)
LEMMA Nothing ==
    /\ Games!NoFile \in GamesVersion /\ Games!NoText \in GamesText
    /\ Games!NoMetadata \in Meta
    /\ Games!NoFile.modified = 0
    /\ Games!NoMetadata.modified = 0 /\ Games!NoMetadata.index = 0
<1>1. Games!NoText \in GamesText
  BY DEF Games!NoText, GamesText
<1>2. QED
  BY <1>1 DEF Games!NoFile, Games!NoMetadata, Games!Metadata, GamesVersion, Meta,
      GamesText, Games!NoText

(* The metadata of a version. *)
LEMMA OfVersion ==
    ASSUME NEW f \in GamesVersion
    PROVE  /\ Games!Metadata(f) \in Meta
           /\ Games!Metadata(f).modified = f.modified /\ Games!Metadata(f).index = f.index
BY DEF GamesVersion, Games!Metadata, Meta, GamesText

LEMMA GInvInit == Games!Init => GInv
BY Nothing DEF Games!Init, GInv, Dated, Attempt, Games!WholeReadings

(* The end of an attempt that found nothing to keep. *)
LEMMA KeptNothing ==
    ASSUME GInv, Games!Keep(Games!Unavailable, Games!NoMetadata),
        UNCHANGED Games!outside
    PROVE  GInv'
<1>1. Dated' /\ Attempt'
  BY Nothing DEF GInv, Dated, Attempt, Games!Keep, Games!outside
<1>2. gamesFile # Games!NoFile => Games!Metadata(gamesFile) # Games!NoMetadata
  BY Nothing, OfVersion DEF GInv, Dated
<1>3. Games!WholeReadings'
  BY <1>2 DEF Games!WholeReadings, Games!Keep, Games!outside, Games!Metadata
<1>4. QED BY <1>1, <1>3 DEF GInv

(* A change of the file gives it metadata that nobody has seen. *)
LEMMA Changed ==
    ASSUME GInv, NEW f \in GamesVersion,
           clock' = clock + 1, gamesFile' = f, UNCHANGED <<gamesAt, Games!attempt,
               Games!cache>>,
           f.modified = clock + 1, f.index > 0
    PROVE  GInv'
<1>1. Dated'
  BY Nothing DEF GInv, Dated, Games!attempt, Games!cache, GamesVersion, Meta
<1>2. f # Games!NoFile => Games!Metadata(f) # before /\ Games!Metadata(f) # metadata
  BY OfVersion DEF GInv, Dated
<1>3. Attempt' /\ Games!WholeReadings'
  BY <1>2 DEF GInv, Attempt, Games!WholeReadings, Games!attempt, Games!cache,
      Games!Metadata
<1>4. QED BY <1>1, <1>3 DEF GInv

LEMMA GInvNext ==
    ASSUME GInv, Begun, [Games!Next]_(Games!vars)
    PROVE  GInv'
<1>1. CASE Games!Refresh
  BY <1>1 DEF Games!Refresh, GInv, Dated, Attempt, Games!WholeReadings,
      Games!outside, Games!attempt, Games!cache
<1>2. CASE Games!Unreadable
  BY <1>2, KeptNothing DEF Games!Unreadable
<1>3. CASE Games!Open
  <2>1. QED
    BY <1>3, OfVersion DEF Games!Open, GInv, Dated, Attempt, Games!WholeReadings,
        Games!outside, Games!cache
<1>4. CASE Games!Read
  <2> DEFINE got == IF gamesFile.index = handle.index THEN gamesFile.text ELSE handle.text
  <2>1. CASE got.whole = before.whole
    <3>1. /\ gamesRead' = got /\ gamesAt' = "compare" /\ gamesAt = "read"
          /\ UNCHANGED <<handle, before, retried, Games!cache, Games!outside>>
      BY <1>4, <2>1 DEF Games!Read
    <3>2. before = Games!Metadata(gamesFile) => gamesRead' = gamesFile.text
      BY <3>1 DEF GInv, Attempt, Games!Metadata
    <3>3. Dated'
      BY <3>1 DEF GInv, Dated, Games!outside, Games!cache, GamesVersion
    <3>4. Attempt' /\ Games!WholeReadings'
      BY <3>1, <3>2 DEF GInv, Attempt, Games!WholeReadings, Games!outside,
          Games!cache
    <3>5. QED BY <3>3, <3>4 DEF GInv
  <2>2. CASE got.whole # before.whole
    BY <1>4, <2>2, KeptNothing DEF Games!Read
  <2>3. QED BY <2>1, <2>2
<1>5. CASE Games!Compare
  <2>1. CASE before = Games!Metadata(gamesFile)
    <3>1. Games!Keep(Games!ParseCatalog(gamesFile.text),
        Games!Metadata(gamesFile)) /\ UNCHANGED Games!outside
      BY <1>5, <2>1 DEF Games!Compare, GInv, Attempt
    <3>2. Dated'
      BY <3>1, OfVersion, Nothing DEF Games!Keep, GInv, Dated, Games!outside
    <3>3. Attempt' /\ Games!WholeReadings'
      BY <3>1 DEF Games!Keep, Attempt, Games!WholeReadings, Games!outside,
          Games!Metadata
    <3>4. QED BY <3>2, <3>3 DEF GInv
  <2>2. CASE before # Games!Metadata(gamesFile) /\ retried
    BY <1>5, <2>2, KeptNothing DEF Games!Compare
  <2>3. CASE before # Games!Metadata(gamesFile) /\ ~retried
    BY <1>5, <2>3 DEF Games!Compare, GInv, Dated, Attempt, Games!WholeReadings,
        Games!outside, Games!cache
  <2>4. QED BY <2>1, <2>2, <2>3
<1>6. CASE Games!Remove
  <2>1. Dated'
    BY <1>6, Nothing DEF Games!Remove, Games!Change, GInv, Dated, Games!attempt,
        Games!cache, GamesVersion, Meta
  <2>2. Attempt' /\ Games!WholeReadings'
    BY <1>6 DEF Games!Remove, Games!Change, GInv, Attempt, Games!WholeReadings,
        Games!attempt, Games!cache
  <2>3. QED BY <2>1, <2>2 DEF GInv
<1>7. CASE Games!EndWrite
  <2> DEFINE f == [gamesFile EXCEPT !.modified = clock + 1,
                               !.text = [gamesFile.text EXCEPT !.whole = TRUE]]
  <2>1. gamesFile # Games!NoFile
    BY <1>7 DEF Games!EndWrite, Begun
  <2>2. gamesFile \in GamesVersion /\ clock + 1 \in Nat /\ gamesFile.index > 0
    BY <2>1 DEF GInv, Dated
  <2>3. [gamesFile.text EXCEPT !.whole = TRUE] \in GamesText
    BY <2>2 DEF GamesVersion, GamesText
  <2>4. f \in GamesVersion /\ f.modified = clock + 1 /\ f.index > 0
    BY <2>2, <2>3 DEF GamesVersion
  <2>5. clock' = clock + 1 /\ gamesFile' = f /\ UNCHANGED <<gamesAt, Games!attempt,
      Games!cache>>
    BY <1>7 DEF Games!Change, Games!EndWrite
  <2> HIDE DEF f
  <2>6. QED BY <2>4, <2>5, Changed
<1>8. ASSUME NEW d \in Games!Document, Games!Replace(d) PROVE GInv'
  <2> DEFINE f == [index |-> clock + 1, modified |-> clock + 1,
                   text |-> [document |-> d, whole |-> TRUE]]
  <2>1. clock \in Nat
    BY DEF GInv, Dated
  <2>2. f \in GamesVersion /\ f.modified = clock + 1 /\ f.index > 0
    BY <2>1, Listed DEF GamesVersion, GamesText
  <2>3. clock' = clock + 1 /\ gamesFile' = f /\ UNCHANGED <<gamesAt, Games!attempt,
      Games!cache>>
    BY <1>8 DEF Games!Change, Games!Replace
  <2> HIDE DEF f
  <2>4. QED BY <2>2, <2>3, Changed
<1>9. ASSUME NEW d \in Games!Document, Games!BeginWrite(d) PROVE GInv'
  <2> DEFINE f == [gamesFile EXCEPT !.modified = clock + 1,
                               !.text = [document |-> d, whole |-> FALSE]]
  <2>1. gamesFile \in GamesVersion /\ clock + 1 \in Nat /\ gamesFile.index > 0
    BY <1>9 DEF Games!BeginWrite, GInv, Dated
  <2>2. [document |-> d, whole |-> FALSE] \in GamesText
    BY Listed DEF GamesText
  <2>3. f \in GamesVersion /\ f.modified = clock + 1 /\ f.index > 0
    BY <2>1, <2>2 DEF GamesVersion
  <2>4. clock' = clock + 1 /\ gamesFile' = f /\ UNCHANGED <<gamesAt, Games!attempt,
      Games!cache>>
    BY <1>9 DEF Games!Change, Games!BeginWrite
  <2> HIDE DEF f
  <2>5. QED BY <2>3, <2>4, Changed
<1>10. CASE UNCHANGED Games!vars
  BY <1>10 DEF Games!vars, GInv, Dated, Attempt, Games!WholeReadings,
      Games!outside, Games!attempt, Games!cache
<1>11. QED
  BY <1>1, <1>2, <1>3, <1>4, <1>5, <1>6, <1>7, <1>8, <1>9, <1>10 DEF Games!Next

(* What is begun is there: nothing has the index of no file. *)
LEMMA BegunNext ==
    ASSUME GInv, Begun, [Games!Next]_(Games!vars)
    PROVE  Begun'
<1> USE DEF Begun, Games!outside, Games!Change
<1>1. CASE Games!Refresh \/ Games!Unreadable \/ Games!Open \/ Games!Read
    \/ Games!Compare
  BY <1>1, Zenon DEF Games!Refresh, Games!Unreadable, Games!Open, Games!Read,
      Games!Compare
<1>2. CASE Games!Remove \/ Games!EndWrite
  BY <1>2, Zenon DEF Games!Remove, Games!EndWrite
<1>3. ASSUME NEW d \in Games!Document, Games!Replace(d) PROVE Begun'
  BY <1>3, Zenon DEF Games!Replace
<1>4. ASSUME NEW d \in Games!Document, Games!BeginWrite(d) PROVE Begun'
  <2> DEFINE f == [gamesFile EXCEPT !.modified = clock + 1,
                               !.text = [document |-> d, whole |-> FALSE]]
  <2>1. gamesFile \in GamesVersion /\ clock + 1 \in Nat /\ gamesFile.index > 0
    BY <1>4 DEF Games!BeginWrite, GInv, Dated
  <2>2. f.index = gamesFile.index /\ Games!NoFile.index = 0
    BY <2>1 DEF GamesVersion, Games!NoFile
  <2>3. gamesFile' = f
    BY <1>4 DEF Games!BeginWrite
  <2> HIDE DEF f
  <2>4. f # Games!NoFile
    BY <2>1, <2>2
  <2>5. QED BY <2>3, <2>4, Zenon
<1>5. CASE UNCHANGED Games!vars
  BY <1>5, Zenon DEF Games!vars
<1>6. QED
  BY <1>1, <1>2, <1>3, <1>4, <1>5, Zenon DEF Games!Next


(* The list that is kept is all of what the file said when it had the         *)
(* metadata that is kept with it, however its owner changes and replaces it   *)
(* meanwhile (load_catalog_with, CatalogCache::refresh). *)
THEOREM ReadsWhole == Games!Spec => []Games!WholeReadings
<1>1. Games!Init => GInv /\ Begun
  BY GInvInit DEF Games!Init, Begun
<1>2. GInv /\ Begun /\ [Games!Next]_(Games!vars) => GInv' /\ Begun'
  BY GInvNext, BegunNext
<1>3. GInv => Games!WholeReadings
  BY DEF GInv
<1>4. QED
  BY <1>1, <1>2, <1>3, PTL DEF Games!Spec

GameTypes ==
    /\ unfinished \in BOOLEAN /\ retried \in BOOLEAN
    /\ clock \in 0..Changes
    /\ gamesAt \in {"rest", "open", "read", "compare"}
    /\ list.available \in BOOLEAN /\ list.paths \subseteq Path

LEMMA GamesTyped == GInv /\ GameTypes => Games!TypeOK
BY DEF GInv, Dated, GameTypes, Games!TypeOK, GamesText, GamesVersion

LEMMA ListTyped ==
    ASSUME NEW t \in GamesText
    PROVE  /\ Games!ParseCatalog(t).available \in BOOLEAN
           /\ Games!ParseCatalog(t).paths \subseteq Path
<1>1. \A a \in Games!Application : a.path # NoPath => a.path \in Path
  BY DEF Games!Application
<1>2. t.document \subseteq Games!Application
  BY DEF GamesText
<1>3. CASE Games!ParseCatalog(t) = Games!Unavailable
  BY <1>3 DEF Games!Unavailable
<1>4. CASE Games!ParseCatalog(t) # Games!Unavailable
  <2> DEFINE Q == {a \in {b \in t.document : b.recognized} :
                      ~a.creative /\ a.ops /\ ~a.manual /\ a.path # NoPath}
             P == {a.path : a \in Q}
  <2>1. Games!ParseCatalog(t) = Games!Available(P)
    BY <1>4, Zenon DEF Games!ParseCatalog
  <2>2. \A a \in Q : a \in t.document /\ a.path # NoPath
    OBVIOUS
  <2>3. P \subseteq Path
    BY <1>1, <1>2, <2>2, Zenon
  <2> HIDE DEF P
  <2>4. QED BY <2>1, <2>3 DEF Games!Available
<1>5. QED BY <1>3, <1>4

LEMMA GameTypesInit == Games!Init => GameTypes
<1> SUFFICES ASSUME Games!Init PROVE GameTypes
  OBVIOUS
<1>1. unfinished = FALSE /\ retried = FALSE /\ clock = 0 /\ gamesAt = "rest"
  BY DEF Games!Init
<1>2. list = [available |-> FALSE, paths |-> {}]
  BY DEF Games!Init, Games!Unavailable
<1>3. list.available \in BOOLEAN /\ list.paths \subseteq Path
  BY <1>2
<1>4. clock \in 0..Changes
  BY <1>1, BoundsAssumption
<1>5. QED BY <1>1, <1>3, <1>4 DEF GameTypes

LEMMA GameTypesNext ==
    ASSUME GInv, Begun, GameTypes, [Games!Next]_(Games!vars)
    PROVE  GameTypes'
<1>1. ASSUME NEW l, NEW m, Games!Keep(l, m), UNCHANGED Games!outside,
             l.available \in BOOLEAN, l.paths \subseteq Path
      PROVE  GameTypes'
  BY <1>1 DEF GameTypes, Games!Keep, Games!outside
<1>2. Games!Unavailable.available \in BOOLEAN /\ Games!Unavailable.paths \subseteq Path
  BY DEF Games!Unavailable
<1>3. ASSUME NEW f, NEW cut \in BOOLEAN, Games!Change(f, cut) PROVE GameTypes'
  BY <1>3, BoundsAssumption DEF GameTypes, Games!Change, Games!attempt, Games!cache
<1>4. CASE Games!Refresh
  BY <1>4 DEF Games!Refresh, GameTypes, Games!outside, Games!attempt, Games!cache
<1>5. CASE Games!Unreadable
  BY <1>1, <1>2, <1>5 DEF Games!Unreadable
<1>6. CASE Games!Open
  BY <1>6 DEF Games!Open, GameTypes, Games!outside, Games!cache
<1>7. CASE Games!Read
  <2>1. CASE Games!Keep(Games!Unavailable, Games!NoMetadata)
    BY <1>1, <1>2, <1>7, <2>1 DEF Games!Read
  <2>2. CASE gamesAt' = "compare" /\ UNCHANGED <<retried, Games!cache, Games!outside>>
    BY <2>2 DEF GameTypes, Games!outside, Games!cache
  <2>3. QED BY <1>7, <2>1, <2>2 DEF Games!Read
<1>8. CASE Games!Compare
  <2>1. UNCHANGED Games!outside
    BY <1>8 DEF Games!Compare
  <2>2. CASE Games!Keep(Games!Unavailable, Games!NoMetadata)
    BY <1>1, <1>2, <2>1, <2>2
  <2>3. CASE Games!Keep(Games!ParseCatalog(gamesRead), Games!Metadata(gamesFile))
    <3>1. gamesRead \in GamesText
      BY DEF GInv, Dated
    <3>2. QED BY <1>1, <2>1, <2>3, <3>1, ListTyped
  <2>4. CASE retried' = TRUE /\ gamesAt' = "open" /\ UNCHANGED <<Games!cache, Games!outside>>
    BY <2>4 DEF GameTypes, Games!outside, Games!cache
  <2>5. QED BY <1>8, <2>2, <2>3, <2>4, Zenon DEF Games!Compare
<1>9. CASE Games!EndWrite \/ Games!Remove
  BY <1>3, <1>9 DEF Games!EndWrite, Games!Remove
<1>10. ASSUME NEW d \in Games!Document, Games!Replace(d) \/ Games!BeginWrite(d)
       PROVE  GameTypes'
  BY <1>3, <1>10 DEF Games!Replace, Games!BeginWrite
<1>11. CASE UNCHANGED Games!vars
  BY <1>11 DEF Games!vars, GameTypes, Games!outside, Games!attempt, Games!cache
<1>12. QED
  BY <1>4, <1>5, <1>6, <1>7, <1>8, <1>9, <1>10, <1>11, Zenon DEF Games!Next

(* The types of GameList: what is kept are paths, and the path of no          *)
(* application that lacks one (parse_catalog). *)
THEOREM GamesTypes == Games!Spec => []Games!TypeOK
<1>1. Games!Init => GInv /\ Begun
  BY GInvInit DEF Games!Init, Begun
<1>2. QED
  BY <1>1, GInvNext, BegunNext, GameTypesInit, GameTypesNext, GamesTyped, PTL
     DEF Games!Spec

----------------------------------------------------------------------------
(* A word in quotes is one word, of any length.                               *)

(* A fold from the left goes through the line from state to state. *)
Goes(a, line, b) ==
    \E st : /\ st[0] = a /\ st[Len(line)] = b
            /\ \A i \in 1..Len(line) : st[i] = Loading!Rune(st[i - 1], line[i])

IsFold(it, k, a, line) ==
    it = [s \in SUBSET (1..k) |->
            IF s = {} THEN a
            ELSE Loading!Rune(it[s \ {Loading!Max(s)}], line[Loading!Max(s)])]

LEMMA GreatestOf ==
    ASSUME NEW k \in Nat, NEW s \in SUBSET (1..k), s # {}
    PROVE  Loading!Max(s) \in s /\ \A y \in s : Loading!Max(s) >= y
<1>1. s \subseteq Nat /\ \A y \in s : y <= k
  OBVIOUS
<1>2. PICK x \in s : \A y \in s : y <= x
  BY <1>1, Greatest
<1>3. \A y \in s : x >= y
  BY <1>1, <1>2
<1>4. \E m \in s : \A y \in s : m >= y
  BY <1>3
<1>5. QED BY <1>4, Zenon DEF Loading!Max

(* Folds over the sets of the first positions of a line exist. *)
LEMMA FoldsExist ==
    ASSUME NEW n \in Nat, NEW line, NEW a
    PROVE  \E it : IsFold(it, n, a, line)
<1> DEFINE Fold(it, k) == IsFold(it, k, a, line)
           S == {k \in Nat : ~\E it : Fold(it, k)}
<1> USE DEF IsFold
<1>1. SUFFICES ASSUME S # {} PROVE FALSE
  <2>1. n \notin S => \E it : Fold(it, n)
    BY DEF S
  <2>2. QED BY <2>1
<1>2. PICK k \in S : \A j \in S : k <= j
  <2>1. S \subseteq Nat
    OBVIOUS
  <2> HIDE DEF S
  <2>2. QED BY <1>1, <2>1, Least
<1>3. k # 0
  <2>1. \A s \in SUBSET (1..0) : s = {}
    OBVIOUS
  <2>2. Fold([s \in SUBSET (1..0) |-> a], 0)
    BY <2>1
  <2> HIDE DEF Fold
  <2>3. QED BY <1>2, <2>2
<1>4. k \in Nat /\ k - 1 \in Nat /\ k - 1 \notin S
  <2>1. k \in Nat
    OBVIOUS
  <2>2. k - 1 \in Nat /\ ~(k <= k - 1)
    BY <1>3, <2>1
  <2> HIDE DEF S
  <2>3. QED BY <1>2, <2>1, <2>2
<1>5. PICK it : Fold(it, k - 1)
  BY <1>4
<1> DEFINE next == [s \in SUBSET (1..k) |->
                      IF k \in s THEN Loading!Rune(it[s \ {k}], line[k]) ELSE it[s]]
<1>6. ASSUME NEW s \in SUBSET (1..k), s # {}
      PROVE  next[s] = Loading!Rune(next[s \ {Loading!Max(s)}], line[Loading!Max(s)])
  <2>1. Loading!Max(s) \in s /\ \A y \in s : Loading!Max(s) >= y
    BY <1>4, <1>6, GreatestOf
  <2>2. CASE k \in s
    <3>1. Loading!Max(s) = k
      <4>1. Loading!Max(s) \in 1..k /\ Loading!Max(s) >= k
        BY <1>6, <2>1, <2>2
      <4>2. \A m \in 1..k : m >= k => m = k
        BY <1>4
      <4> HIDE DEF next
      <4>3. QED BY <4>1, <4>2
    <3>2. k \notin s \ {k} /\ s \ {k} \in SUBSET (1..k)
      OBVIOUS
    <3>3. next[s \ {k}] = it[s \ {k}]
      BY <3>2
    <3>4. next[s] = Loading!Rune(it[s \ {k}], line[k])
      BY <2>2
    <3>5. QED BY <3>1, <3>3, <3>4
  <2>3. CASE k \notin s
    <3>1. s \in SUBSET (1..(k - 1))
      BY <1>4, <2>3
    <3>2. next[s] = it[s]
      BY <2>3
    <3>3. it[s] = Loading!Rune(it[s \ {Loading!Max(s)}], line[Loading!Max(s)])
      BY <1>5, <1>6, <3>1
    <3>4. k \notin s \ {Loading!Max(s)} /\ s \ {Loading!Max(s)} \in SUBSET (1..k)
      BY <2>3
    <3>5. next[s \ {Loading!Max(s)}] = it[s \ {Loading!Max(s)}]
      BY <3>4
    <3>6. QED BY <3>2, <3>3, <3>5
  <2>4. QED BY <2>2, <2>3
<1>7. next[{}] = a
  <2>1. {} \in SUBSET (1..k) /\ {} \in SUBSET (1..(k - 1)) /\ k \notin {}
    OBVIOUS
  <2>2. next[{}] = it[{}]
    BY <2>1
  <2>3. it[{}] = a
    BY <1>5, <2>1
  <2>4. QED BY <2>2, <2>3
<1>8. Fold(next, k)
  <2>1. next = [s \in SUBSET (1..k) |-> next[s]]
    OBVIOUS
  <2>2. \A s \in SUBSET (1..k) :
           next[s] = IF s = {} THEN a
                     ELSE Loading!Rune(next[s \ {Loading!Max(s)}], line[Loading!Max(s)])
    BY <1>6, <1>7
  <2> HIDE DEF next
  <2>3. QED BY <2>1, <2>2
<1> HIDE DEF Fold, next
<1>9. QED BY <1>2, <1>8

LEMMA FoldGoes ==
    ASSUME NEW n \in Nat, NEW line, DOMAIN line = 1..n, Len(line) = n, NEW a
    PROVE  Goes(a, line, Loading!FoldLeft(Loading!Rune, a, line))
<1> DEFINE it == CHOOSE iter : IsFold(iter, n, a, line)
<1>1. it = [s \in SUBSET (1..n) |->
              IF s = {} THEN a
              ELSE Loading!Rune(it[s \ {Loading!Max(s)}], line[Loading!Max(s)])]
  <2>1. \E iter : IsFold(iter, n, a, line)
    BY FoldsExist
  <2>2. IsFold(it, n, a, line)
    BY <2>1, Zenon
  <2>3. QED BY <2>2, Zenon DEF IsFold
<1>2. Loading!FoldLeft(Loading!Rune, a, line) = it[1..n]
  BY DEF IsFold, Loading!FoldLeft, Loading!MapThenFoldSet
<1> HIDE DEF it
<1> DEFINE st == [i \in 0..n |-> it[1..i]]
<1>3. st[0] = a
  <2>1. 1..0 = {} /\ {} \in SUBSET (1..n) /\ 0 \in 0..n
    OBVIOUS
  <2>2. it[{}] = a
    BY <1>1, <2>1
  <2>3. QED BY <2>1, <2>2
<1>4. ASSUME NEW i \in 1..n PROVE st[i] = Loading!Rune(st[i - 1], line[i])
  <2>0. /\ i \in Nat /\ i \in 1..i /\ i \in 0..n /\ i - 1 \in 0..n
        /\ \A y \in 1..i : y >= i => y = i
    OBVIOUS
  <2>1. 1..i \in SUBSET (1..n) /\ 1..i # {} /\ (1..i) \ {i} = 1..(i - 1)
    <3>1. 1..i \subseteq 1..n /\ 1..i # {}
      OBVIOUS
    <3>2. \A y \in (1..i) \ {i} : y \in 1..(i - 1)
      OBVIOUS
    <3>3. \A y \in 1..(i - 1) : y \in (1..i) \ {i}
      OBVIOUS
    <3>4. QED BY <3>1, <3>2, <3>3, Zenon
  <2> HIDE DEF st, it
  <2>2. Loading!Max(1..i) = i
    <3>1. Loading!Max(1..i) \in 1..i /\ Loading!Max(1..i) >= i
      BY <2>0, <2>1, GreatestOf
    <3>2. QED BY <2>0, <3>1
  <2>3. it[1..i] = Loading!Rune(it[(1..i) \ {i}], line[i])
    BY <1>1, <2>1, <2>2
  <2>4. st[i] = it[1..i] /\ st[i - 1] = it[1..(i - 1)]
    BY <2>0 DEF st
  <2>5. QED BY <2>1, <2>3, <2>4
<1>5. st[n] = it[1..n]
  OBVIOUS
<1> HIDE DEF st
<1>6. QED BY <1>2, <1>3, <1>4, <1>5 DEF Goes

(* Lines one after the other. *)
LEMMA GoesOn ==
    ASSUME NEW S, NEW a, NEW b, NEW c, NEW s \in Seq(S), NEW t \in Seq(S),
           Goes(a, s, b), Goes(b, t, c)
    PROVE  Goes(a, s \o t, c)
<1>1. PICK p : /\ p[0] = a /\ p[Len(s)] = b
               /\ \A i \in 1..Len(s) : p[i] = Loading!Rune(p[i - 1], s[i])
  BY DEF Goes
<1>2. PICK q : /\ q[0] = b /\ q[Len(t)] = c
               /\ \A i \in 1..Len(t) : q[i] = Loading!Rune(q[i - 1], t[i])
  BY DEF Goes
<1> DEFINE l == Len(s)
           m == Len(t)
           st == [i \in 0..(l + m) |-> IF i <= l THEN p[i] ELSE q[i - l]]
<1>3. /\ l \in Nat /\ m \in Nat /\ Len(s \o t) = l + m
      /\ \A i \in 1..(l + m) : (s \o t)[i] = IF i <= l THEN s[i] ELSE t[i - l]
  BY ConcatProperties
<1>4. \A i \in 1..l : p[i] = Loading!Rune(p[i - 1], s[i])
  BY <1>1
<1>5. \A i \in 1..m : q[i] = Loading!Rune(q[i - 1], t[i])
  BY <1>2
<1>6. p[0] = a /\ p[l] = b /\ q[0] = b /\ q[m] = c
  BY <1>1, <1>2
<1>7. l \in Nat /\ m \in Nat
  BY <1>3
<1> HIDE DEF l, m
<1>8. st[0] = a
  BY <1>6, <1>7
<1>9. st[l + m] = c
  <2>1. CASE m = 0
    <3>1. l + m = l /\ l \in 0..(l + m) /\ l <= l
      BY <1>7, <2>1
    <3>2. QED BY <1>6, <2>1, <3>1
  <2>2. CASE m # 0
    <3>1. l + m \in 0..(l + m) /\ ~(l + m <= l) /\ (l + m) - l = m
      BY <1>7, <2>2
    <3>2. QED BY <1>6, <3>1
  <2>3. QED BY <2>1, <2>2
<1>10. ASSUME NEW i \in 1..(l + m)
       PROVE  st[i] = Loading!Rune(st[i - 1], (s \o t)[i])
  <2>1. i \in 0..(l + m) /\ i - 1 \in 0..(l + m)
    BY <1>7
  <2>2. CASE i <= l
    <3>1. i \in 1..l /\ i - 1 <= l
      BY <1>7, <2>2
    <3>2. st[i] = p[i] /\ st[i - 1] = p[i - 1]
      BY <2>1, <2>2, <3>1
    <3>3. (s \o t)[i] = s[i]
      BY <1>3, <2>2 DEF l, m
    <3> HIDE DEF st
    <3>4. QED BY <1>4, <3>1, <3>2, <3>3
  <2>3. CASE ~(i <= l)
    <3>1. i - l \in 1..m
      BY <1>7, <2>3
    <3>2. st[i] = q[i - l]
      BY <2>1, <2>3
    <3>3. (s \o t)[i] = t[i - l]
      BY <1>3, <2>3 DEF l, m
    <3>4. st[i - 1] = q[(i - l) - 1]
      <4>1. CASE i - 1 <= l
        <5>1. i - 1 = l /\ (i - l) - 1 = 0
          BY <1>7, <2>3, <4>1
        <5>2. st[i - 1] = p[l]
          BY <2>1, <4>1, <5>1
        <5> HIDE DEF st
        <5>3. QED BY <1>6, <5>1, <5>2
      <4>2. CASE ~(i - 1 <= l)
        <5>1. (i - 1) - l = (i - l) - 1
          BY <1>7
        <5>2. QED BY <2>1, <4>2, <5>1
      <4>3. QED BY <4>1, <4>2
    <3> HIDE DEF st
    <3>5. q[i - l] = Loading!Rune(q[(i - l) - 1], t[i - l])
      BY <1>5, <3>1
    <3>6. QED BY <3>2, <3>3, <3>4, <3>5
  <2>4. QED BY <2>2, <2>3
<1> HIDE DEF st
<1>11. Len(s \o t) = l + m
  BY <1>3 DEF l, m
<1>12. QED BY <1>8, <1>9, <1>10, <1>11 DEF Goes

(* A letter, *)
LEMMA GoesLetter ==
    ASSUME NEW a, NEW r
    PROVE  Goes(a, <<r>>, Loading!Rune(a, r))
<1> DEFINE st == [i \in 0..1 |-> IF i = 0 THEN a ELSE Loading!Rune(a, r)]
<1>1. st[0] = a /\ st[1] = Loading!Rune(a, r) /\ Len(<<r>>) = 1 /\ <<r>>[1] = r
  OBVIOUS
<1> HIDE DEF st
<1>2. \A i \in 1..1 : i = 1
  OBVIOUS
<1>3. \A i \in 1..1 : st[i] = Loading!Rune(st[i - 1], <<r>>[i])
  <2>1. 1 - 1 = 0
    OBVIOUS
  <2>2. QED BY <1>1, <1>2, <2>1
<1>4. QED BY <1>1, <1>3 DEF Goes

(* and there is one way. *)
LEMMA GoesOneWay ==
    ASSUME NEW S, NEW s \in Seq(S), NEW a, NEW b, NEW c, Goes(a, s, b), Goes(a, s, c)
    PROVE  b = c
<1>1. PICK p : /\ p[0] = a /\ p[Len(s)] = b
               /\ \A i \in 1..Len(s) : p[i] = Loading!Rune(p[i - 1], s[i])
  BY DEF Goes
<1>2. PICK q : /\ q[0] = a /\ q[Len(s)] = c
               /\ \A i \in 1..Len(s) : q[i] = Loading!Rune(q[i - 1], s[i])
  BY DEF Goes
<1> DEFINE D == {i \in 0..Len(s) : p[i] # q[i]}
<1>3. Len(s) \in Nat
  OBVIOUS
<1>4. D = {}
  <2>1. SUFFICES ASSUME D # {} PROVE FALSE
    OBVIOUS
  <2>2. PICK m \in D : \A n \in D : m <= n
    <3>1. D \subseteq Nat
      BY <1>3
    <3> HIDE DEF D
    <3>2. QED BY <2>1, <3>1, Least
  <2>3. m # 0
    BY <1>1, <1>2
  <2>4. m \in 1..Len(s) /\ m - 1 \in 0..Len(s) /\ ~(m <= m - 1)
    <3>1. m \in 0..Len(s)
      OBVIOUS
    <3>2. QED BY <1>3, <2>3, <3>1
  <2>5. m - 1 \notin D
    <3> HIDE DEF D
    <3>1. QED BY <2>2, <2>4
  <2>6. p[m - 1] = q[m - 1]
    BY <2>4, <2>5
  <2>7. p[m] = q[m]
    BY <1>1, <1>2, <2>4, <2>6
  <2>8. QED BY <2>7
<1>5. Len(s) \in 0..Len(s)
  BY <1>3
<1>6. p[Len(s)] = q[Len(s)]
  BY <1>4, <1>5
<1>7. QED BY <1>1, <1>2, <1>6

IsFlat(f, n, parts) ==
    f = [i \in 1..n |-> IF i = 1 THEN parts[i] ELSE f[i - 1] \o parts[i]]

LEMMA FlatsExist ==
    ASSUME NEW n \in Nat, NEW parts
    PROVE  \E f : IsFlat(f, n, parts)
<1> DEFINE S == {k \in Nat : ~\E f : IsFlat(f, k, parts)}
<1>1. SUFFICES ASSUME S # {} PROVE FALSE
  <2>1. n \notin S => \E f : IsFlat(f, n, parts)
    BY DEF S
  <2>2. QED BY <2>1
<1>2. PICK k \in S : \A j \in S : k <= j
  <2>1. S \subseteq Nat
    OBVIOUS
  <2> HIDE DEF S
  <2>2. QED BY <1>1, <2>1, Least
<1>3. k # 0
  <2> DEFINE none == [i \in 1..0 |-> <<>>]
  <2>1. IsFlat(none, 0, parts)
    BY DEF IsFlat
  <2> HIDE DEF none
  <2>2. QED BY <1>2, <2>1
<1>4. k \in Nat /\ k - 1 \in Nat /\ k - 1 \notin S
  <2>1. k \in Nat
    OBVIOUS
  <2>2. k - 1 \in Nat /\ ~(k <= k - 1)
    BY <1>3, <2>1
  <2> HIDE DEF S
  <2>3. QED BY <1>2, <2>1, <2>2
<1>5. PICK f : IsFlat(f, k - 1, parts)
  BY <1>4
<1> DEFINE next == [i \in 1..k |-> IF i < k THEN f[i]
                                   ELSE IF i = 1 THEN parts[i] ELSE f[i - 1] \o parts[i]]
<1>6. \A i \in 1..(k - 1) : f[i] = IF i = 1 THEN parts[i] ELSE f[i - 1] \o parts[i]
  BY <1>5 DEF IsFlat
<1>7. ASSUME NEW i \in 1..k
      PROVE  next[i] = IF i = 1 THEN parts[i] ELSE next[i - 1] \o parts[i]
  <2>1. CASE i = 1
    <3>1. i < k => i \in 1..(k - 1)
      BY <1>4
    <3>2. i < k => f[i] = parts[i]
      BY <1>6, <2>1, <3>1
    <3>3. QED BY <2>1, <3>2
  <2>2. CASE i # 1
    <3>1. i - 1 \in 1..k /\ i - 1 < k
      BY <1>4, <2>2
    <3>2. next[i - 1] = f[i - 1]
      BY <3>1
    <3>3. i < k => i \in 1..(k - 1)
      BY <1>4
    <3>4. i < k => f[i] = f[i - 1] \o parts[i]
      BY <1>6, <2>2, <3>3
    <3>5. next[i] = f[i - 1] \o parts[i]
      BY <2>2, <3>4
    <3> HIDE DEF next
    <3>6. QED BY <2>2, <3>2, <3>5
  <2>3. QED BY <2>1, <2>2
<1>8. next = [i \in 1..k |-> next[i]]
  OBVIOUS
<1> HIDE DEF next
<1>9. IsFlat(next, k, parts)
  BY <1>7, <1>8 DEF IsFlat
<1>10. QED BY <1>2, <1>9

(* Inside the quotes, after t. *)
InQuote(t) == [out |-> <<>>, token |-> t, quote |-> "double", ended |-> FALSE,
               escaped |-> FALSE, started |-> TRUE]
Escaped(x) == IF x \in {"double", "backslash"} THEN <<"backslash", x>> ELSE <<x>>

LEMMA EscapedIsRead ==
    ASSUME NEW t, NEW x \in Loading!Letter
    PROVE  /\ Escaped(x) \in Seq(Loading!Letter)
           /\ Goes(InQuote(t), Escaped(x), InQuote(t \o <<x>>))
<1>1. "backslash" \in Loading!Letter
  BY DEF Loading!Letter
<1>2. <<x>> \in Seq(Loading!Letter) /\ <<"backslash">> \in Seq(Loading!Letter)
  BY <1>1
<1>3. CASE x \in {"double", "backslash"}
  <2> DEFINE half == [InQuote(t) EXCEPT !.escaped = TRUE, !.started = TRUE]
  <2>1. Escaped(x) = <<"backslash">> \o <<x>> /\ Escaped(x) \in Seq(Loading!Letter)
    BY <1>1, <1>3 DEF Escaped
  <2>2. Loading!Rune(InQuote(t), "backslash") = half
    BY DEF InQuote, Loading!Rune, Loading!None
  <2>3. Loading!Rune(half, x) = InQuote(t \o <<x>>)
    BY <1>3 DEF InQuote, Loading!Rune, Loading!None, Loading!Put
  <2> HIDE DEF half
  <2>4. Goes(InQuote(t), <<"backslash">>, half) /\ Goes(half, <<x>>, InQuote(t \o <<x>>))
    BY <2>2, <2>3, GoesLetter
  <2>5. Goes(InQuote(t), <<"backslash">> \o <<x>>, InQuote(t \o <<x>>))
    BY <1>2, <2>4, GoesOn
  <2>6. QED BY <2>1, <2>5
<1>4. CASE x \notin {"double", "backslash"}
  <2>1. Escaped(x) = <<x>>
    BY <1>4 DEF Escaped
  <2>2. Loading!Rune(InQuote(t), x) = InQuote(t \o <<x>>)
    BY <1>4 DEF InQuote, Loading!Rune, Loading!None, Loading!Put
  <2>3. Goes(InQuote(t), <<x>>, InQuote(t \o <<x>>))
    BY <2>2, GoesLetter
  <2>4. QED BY <1>2, <2>1, <2>3
<1>5. QED BY <1>3, <1>4

(* One after the other, *)
LEMMA WordIsRead ==
    ASSUME NEW word \in Seq(Loading!Letter), NEW f,
           IsFlat(f, Len(word), [i \in DOMAIN word |-> Escaped(word[i])]),
           NEW n \in 1..Len(word)
    PROVE  /\ f[n] \in Seq(Loading!Letter)
           /\ Goes(InQuote(<<>>), f[n], InQuote(SubSeq(word, 1, n)))
<1> DEFINE Read(k) == /\ f[k] \in Seq(Loading!Letter)
                      /\ Goes(InQuote(<<>>), f[k], InQuote(SubSeq(word, 1, k)))
           S == {k \in 1..Len(word) : ~Read(k)}
<1>1. Len(word) \in Nat /\ \A i \in 1..Len(word) : word[i] \in Loading!Letter
  OBVIOUS
<1>2. \A i \in 1..Len(word) :
         f[i] = IF i = 1 THEN Escaped(word[i]) ELSE f[i - 1] \o Escaped(word[i])
  <2> DEFINE parts == [i \in DOMAIN word |-> Escaped(word[i])]
  <2>1. DOMAIN word = 1..Len(word) /\ \A i \in 1..Len(word) : parts[i] = Escaped(word[i])
    OBVIOUS
  <2>2. IsFlat(f, Len(word), parts)
    OBVIOUS
  <2> HIDE DEF parts
  <2>3. \A i \in 1..Len(word) : f[i] = IF i = 1 THEN parts[i] ELSE f[i - 1] \o parts[i]
    BY <2>2 DEF IsFlat
  <2>4. QED BY <2>1, <2>3
<1>3. SUFFICES ASSUME S # {} PROVE FALSE
  <2>1. n \notin S => Read(n)
    OBVIOUS
  <2>2. QED BY <2>1
<1>4. PICK k \in S : \A j \in S : k <= j
  <2>1. S \subseteq Nat
    BY <1>1
  <2> HIDE DEF S
  <2>2. QED BY <1>3, <2>1, Least
<1>5. k \in 1..Len(word) /\ ~Read(k)
  OBVIOUS
<1>6. word[k] \in Loading!Letter
  BY <1>1, <1>5
<1> HIDE DEF Read
<1>7. Read(k)
  <2>1. CASE k = 1
    <3>1. f[1] = Escaped(word[1])
      BY <1>2, <1>5, <2>1
    <3>2. <<>> \o <<word[1]>> = SubSeq(word, 1, 1)
      BY <1>5, <2>1
    <3>3. QED BY <1>6, <2>1, <3>1, <3>2, EscapedIsRead DEF Read
  <2>2. CASE k # 1
    <3>1. k - 1 \in 1..Len(word) /\ ~(k <= k - 1)
      BY <1>1, <1>5, <2>2
    <3>2. Read(k - 1)
      BY <1>4, <3>1
    <3>3. f[k] = f[k - 1] \o Escaped(word[k])
      BY <1>2, <1>5, <2>2
    <3>4. SubSeq(word, 1, k - 1) \o <<word[k]>> = SubSeq(word, 1, k)
      BY <1>1, <1>5, <3>1
    <3>5. /\ Escaped(word[k]) \in Seq(Loading!Letter)
          /\ Goes(InQuote(SubSeq(word, 1, k - 1)), Escaped(word[k]),
                  InQuote(SubSeq(word, 1, k)))
      BY <1>6, <3>4, EscapedIsRead
    <3>6. /\ f[k - 1] \in Seq(Loading!Letter)
          /\ Goes(InQuote(<<>>), f[k - 1], InQuote(SubSeq(word, 1, k - 1)))
      BY <3>2 DEF Read
    <3>7. Goes(InQuote(<<>>), f[k - 1] \o Escaped(word[k]), InQuote(SubSeq(word, 1, k)))
      BY <3>5, <3>6, GoesOn
    <3>8. f[k] \in Seq(Loading!Letter)
      BY <3>3, <3>5, <3>6
    <3>9. QED BY <3>3, <3>7, <3>8 DEF Read
  <2>3. QED BY <2>1, <2>2
<1>8. QED BY <1>5, <1>7

(* so that a word in quotes is one word, and that word, of any length. *)
LEMMA QuotedIsRead ==
    ASSUME NEW word \in Seq(Loading!Letter)
    PROVE  Loading!Tokenize(Loading!Quoted(word)) = <<word>>
<1> DEFINE parts == [i \in DOMAIN word |-> Escaped(word[i])]
           inner == Loading!FlattenSeq(parts)
           start == [out |-> <<>>, token |-> <<>>, quote |-> Loading!None, ended |-> FALSE,
                     escaped |-> FALSE, started |-> FALSE]
           end == [InQuote(word) EXCEPT !.quote = Loading!None, !.started = TRUE]
<1>1. Loading!Quoted(word) = <<"double">> \o inner \o <<"double">>
  BY DEF Loading!Quoted, Escaped
<1>2. inner \in Seq(Loading!Letter) /\ Goes(InQuote(<<>>), inner, InQuote(word))
  <2>0. Len(word) \in Nat /\ DOMAIN word = 1..Len(word) /\ Len(parts) = Len(word)
    OBVIOUS
  <2>1. CASE Len(word) = 0
    <3>1. word = <<>>
      BY <2>1
    <3>2. parts = <<>>
      BY <2>0, <2>1
    <3>3. inner = <<>>
      BY <2>0, <2>1, <3>2 DEF Loading!FlattenSeq
    <3> DEFINE st == [i \in 0..0 |-> InQuote(<<>>)]
    <3>4. st[0] = InQuote(<<>>) /\ Len(<<>>) = 0 /\ 1..0 = {}
      OBVIOUS
    <3> HIDE DEF st
    <3>5. Goes(InQuote(<<>>), <<>>, InQuote(<<>>))
      BY <3>4 DEF Goes
    <3>6. QED BY <3>1, <3>3, <3>5
  <2>2. CASE Len(word) # 0
    <3> DEFINE f == CHOOSE g : IsFlat(g, Len(word), parts)
    <3>1. \E g : IsFlat(g, Len(word), parts)
      BY <2>0, FlatsExist
    <3>2. IsFlat(f, Len(word), parts)
      BY <3>1, Zenon
    <3>3. inner = f[Len(word)]
      BY <2>0, <2>2 DEF Loading!FlattenSeq, IsFlat
    <3>4. Len(word) \in 1..Len(word) /\ SubSeq(word, 1, Len(word)) = word
      BY <2>0, <2>2
    <3> HIDE DEF f, inner
    <3>5. QED BY <3>2, <3>3, <3>4, WordIsRead
  <2>3. QED BY <2>1, <2>2
<1> HIDE DEF parts, inner
<1>3. "double" \in Loading!Letter /\ <<"double">> \in Seq(Loading!Letter)
  BY DEF Loading!Letter
<1>4. Goes(start, <<"double">>, InQuote(<<>>))
  <2>1. Loading!Rune(start, "double") = InQuote(<<>>)
    BY DEF Loading!Rune, Loading!None, Loading!Quotes, InQuote
  <2> HIDE DEF start
  <2>2. QED BY <2>1, GoesLetter
<1>5. Goes(InQuote(word), <<"double">>, end)
  <2>1. Loading!Rune(InQuote(word), "double") = end
    BY DEF Loading!Rune, Loading!None, InQuote
  <2> HIDE DEF end
  <2>2. QED BY <2>1, GoesLetter
<1> HIDE DEF start, end
<1>6. /\ <<"double">> \o inner \in Seq(Loading!Letter)
      /\ Goes(start, <<"double">> \o inner, InQuote(word))
  <2>1. <<"double">> \o inner \in Seq(Loading!Letter)
    BY <1>2, <1>3, ConcatProperties
  <2>2. Goes(start, <<"double">> \o inner, InQuote(word))
    BY <1>2, <1>3, <1>4, GoesOn
  <2>3. QED BY <2>1, <2>2
<1>7. /\ Loading!Quoted(word) \in Seq(Loading!Letter)
      /\ Goes(start, Loading!Quoted(word), end)
  <2>1. <<"double">> \o inner \o <<"double">> \in Seq(Loading!Letter)
    BY <1>3, <1>6, ConcatProperties
  <2>2. Goes(start, <<"double">> \o inner \o <<"double">>, end)
    BY <1>3, <1>5, <1>6, GoesOn
  <2>3. QED BY <1>1, <2>1, <2>2
<1>8. Loading!FoldLeft(Loading!Rune, start, Loading!Quoted(word)) = end
  <2>1. /\ Len(Loading!Quoted(word)) \in Nat
        /\ DOMAIN Loading!Quoted(word) = 1..Len(Loading!Quoted(word))
    BY <1>7
  <2>2. Goes(start, Loading!Quoted(word),
             Loading!FoldLeft(Loading!Rune, start, Loading!Quoted(word)))
    BY <2>1, FoldGoes
  <2>3. QED BY <1>7, <2>2, GoesOneWay
<1>9. end.quote = Loading!None /\ Loading!Flush(end).out = <<word>>
  BY DEF end, InQuote, Loading!Flush
<1>10. QED BY <1>8, <1>9 DEF Loading!Tokenize, start

LEMMA QuotedWords == Loading!QuotedIsOneWord
<1>1. ASSUME NEW word \in Loading!SeqOf(Loading!Letter, 3)
      PROVE  word \in Seq(Loading!Letter)
  <2>1. PICK m \in 0..3 : word \in [1..m -> Loading!Letter]
    BY DEF Loading!SeqOf
  <2>2. m \in Nat
    OBVIOUS
  <2>3. QED BY <2>1, <2>2, SeqDef
<1>2. QED BY <1>1, QuotedIsRead DEF Loading!QuotedIsOneWord

----------------------------------------------------------------------------
(* Loading: the settings.                                                     *)

(* Lines of the file of a level of the stack that were taken, and whether a   *)
(* line of a file was. *)
Gone(i) == Len(text[fileStack[i].file]) - Len(fileStack[i].rest)
LineRead(f, n) ==
    /\ n \in 1..Len(text[f])
    /\ \/ f \in completed
       \/ \E i \in 1..Len(fileStack) : fileStack[i].file = f /\ n <= Gone(i)

Level == [file : File, rest : Seq(Loading!Line), seen : SUBSET Loading!Key]

LoadTypes ==
    /\ loadAt \in {"idle", "line", "validate", "accepted", "refused"}
    /\ fileStack \in Seq(Level) /\ completed \subseteq File /\ files \in Seq(File)
    /\ cfg \in [Loading!Key -> File \cup {Loading!Unset}]
    /\ directives \in 0..MaxDirectives
    /\ text \in [File -> Seq(Loading!Line)]

(* What is left of a file is its end. A level that waits for another took an  *)
(* include line last, and no file is on two levels. *)
LevelsOK ==
    /\ fileStack # <<>> => fileStack[1].file = Primary
    /\ \A i \in 1..Len(fileStack) :
          /\ fileStack[i].file \notin completed
          /\ Gone(i) \in Nat
          /\ \A n \in 1..Len(fileStack[i].rest) :
                fileStack[i].rest[n] = text[fileStack[i].file][Gone(i) + n]
          /\ i < Len(fileStack) =>
                Gone(i) > 0 /\ text[fileStack[i].file][Gone(i)].what = "include"
    /\ \A i, j \in 1..Len(fileStack) : fileStack[i].file = fileStack[j].file => i = j

(* The files that are reported are those that were opened, each once and each *)
(* because a reported file names it. *)
FilesOK ==
    /\ \A f \in File :
          (\E n \in 1..Len(files) : files[n] = f)
            <=> \/ f \in completed
                \/ \E i \in 1..Len(fileStack) : fileStack[i].file = f
    /\ \A n, m \in 1..Len(files) : files[n] = files[m] => n = m
    /\ \A n \in 1..Len(files) : files[n] # Primary =>
          \E m \in 1..Len(files) : \E p \in 1..Len(text[files[m]]) :
             text[files[m]][p] = [what |-> "include", file |-> files[n]]

(* The settings are what the lines that were taken say. *)
LinesOK ==
    /\ \A f \in File, n \in Nat :
          LineRead(f, n) /\ text[f][n].what = "include" =>
             \E m \in 1..Len(files) : files[m] = text[f][n].file
    /\ \A f \in File, n, m \in Nat :
          /\ LineRead(f, n) /\ LineRead(f, m) /\ n # m
          /\ text[f][n].what = text[f][m].what
          => text[f][n].what \notin Loading!Key
    /\ \A i \in 1..Len(fileStack), k \in Loading!Key :
          k \in fileStack[i].seen
            <=> \E n \in 1..Gone(i) : text[fileStack[i].file][n].what = k
    /\ \A k \in Loading!Key :
          cfg[k] = Loading!Unset
            <=> \A f \in File, n \in Nat : LineRead(f, n) => text[f][n].what # k
    /\ \A k \in Loading!Key, n \in Nat :
          /\ LineRead(Primary, n) /\ text[Primary][n].what = k
          /\ \A m \in Nat : LineRead(Primary, m) /\ m > n
               => text[Primary][m].what # "include"
          => cfg[k] = Primary

LoadInv ==
    /\ LoadTypes
    /\ loadAt \in {"validate", "accepted"} => Primary \in completed
    /\ loadAt = "line" <=> fileStack # <<>>
    /\ loadAt = "idle" => completed = {} /\ files = <<>> /\ cfg = Loading!Default
                          /\ directives = 0
    /\ loadAt \in {"line", "validate", "accepted"} => LevelsOK /\ FilesOK /\ LinesOK
    /\ loadAt = "accepted" => Loading!Related

(* What FilesOK and LinesOK say of one file and of one level. *)
LEMMA FilesRead ==
    ASSUME FilesOK
    PROVE  /\ \A f \in File :
                 (\E n \in 1..Len(files) : files[n] = f)
                   <=> \/ f \in completed
                       \/ \E i \in 1..Len(fileStack) : fileStack[i].file = f
           /\ \A n, m \in 1..Len(files) : files[n] = files[m] => n = m
BY Zenon DEF FilesOK

LEMMA LevelAt ==
    ASSUME LevelsOK, NEW i \in 1..Len(fileStack)
    PROVE  /\ fileStack[i].file \notin completed
           /\ Gone(i) \in Nat
           /\ \A n \in 1..Len(fileStack[i].rest) :
                 fileStack[i].rest[n] = text[fileStack[i].file][Gone(i) + n]
           /\ i < Len(fileStack) =>
                 Gone(i) > 0 /\ text[fileStack[i].file][Gone(i)].what = "include"
BY Zenon DEF LevelsOK

LEMMA EndLevels ==
    ASSUME LevelsOK
    PROVE  /\ fileStack # <<>> => fileStack[1].file = Primary
           /\ \A i, j \in 1..Len(fileStack) :
                 fileStack[i].file = fileStack[j].file => i = j
BY Zenon DEF LevelsOK

LEMMA IncludeListed ==
    ASSUME LinesOK, NEW f \in File, NEW n \in Nat, LineRead(f, n),
           text[f][n].what = "include"
    PROVE  \E m \in 1..Len(files) : files[m] = text[f][n].file
BY Zenon DEF LinesOK

LEMMA KeysSeen ==
    ASSUME LinesOK, NEW i \in 1..Len(fileStack), NEW k \in Loading!Key
    PROVE  k \in fileStack[i].seen
             <=> \E n \in 1..Gone(i) : text[fileStack[i].file][n].what = k
BY Zenon DEF LinesOK

(* They are about what the parser has read, not about where it is. *)
LEMMA SameFiles ==
    ASSUME fileStack' = fileStack, completed' = completed, files' = files, cfg' = cfg,
           text' = text
    PROVE  /\ LevelsOK' <=> LevelsOK
           /\ FilesOK' <=> FilesOK
           /\ LinesOK' <=> LinesOK
           /\ Loading!Related' <=> Loading!Related
<1>1. \A i : Gone(i)' = Gone(i)
  BY DEF Gone
<1>2. \A x, n : LineRead(x, n)' <=> LineRead(x, n)
  BY <1>1 DEF LineRead
<1>3. LevelsOK' <=> LevelsOK
  BY <1>1 DEF LevelsOK
<1>4. FilesOK' <=> FilesOK
  BY DEF FilesOK
<1>5. LinesOK' <=> LinesOK
  BY <1>1, <1>2 DEF LinesOK
<1>6. Loading!Related' <=> Loading!Related
  BY DEF Loading!Related
<1>7. QED BY <1>3, <1>4, <1>5, <1>6

LEMMA LineKinds ==
    /\ "include" \notin Loading!Key
    /\ \A l \in Loading!Line :
          /\ l.what \in Loading!Key \cup {"include"}
          /\ l.what = "include"
               => l.file \in File /\ l = [what |-> "include", file |-> l.file]
BY DEF Loading!Line, Loading!Key

(* A sequence without its last element, and with one more. *)
LEMMA Shortened ==
    ASSUME NEW S, NEW s \in Seq(S), s # <<>>
    PROVE  /\ Loading!Front(s) \in Seq(S) /\ Len(Loading!Front(s)) = Len(s) - 1
           /\ \A i \in 1..(Len(s) - 1) : Loading!Front(s)[i] = s[i]
<1>1. Loading!Front(s) = SubSeq(s, 1, Len(s) - 1)
  BY DEF Loading!Front
<1>2. Len(s) \in Nat \ {0} /\ \A i \in 1..(Len(s) - 1) : s[i] \in S
  OBVIOUS
<1> DEFINE n == Len(s) - 1
<1>3. n \in Nat /\ n \in Int /\ \A i \in 1..n : s[i] \in S
  BY <1>2
<1> HIDE DEF n
<1>4. SubSeq(s, 1, n) \in Seq(S) /\ Len(SubSeq(s, 1, n)) = n
      /\ \A i \in 1..n : SubSeq(s, 1, n)[i] = s[i]
  BY <1>3, SubSeqProperties
<1>5. n = Len(s) - 1
  BY DEF n
<1>6. QED BY <1>1, <1>4, <1>5

(* The uppermost level, and its next line. *)
LEMMA Uppermost ==
    ASSUME LoadInv, fileStack # <<>>
    PROVE  /\ Loading!Top = fileStack[Len(fileStack)] /\ Loading!Top \in Level
           /\ Len(fileStack) \in Nat \ {0} /\ Loading!Depth = Len(fileStack) - 1
           /\ Loading!Top.rest # <<>> =>
                /\ Loading!Line1 = Loading!Top.rest[1] /\ Loading!Line1 \in Loading!Line
                /\ Loading!Advanced \in Level
                /\ Loading!Advanced.file = Loading!Top.file
                /\ Loading!Advanced.seen = Loading!Top.seen
                /\ Len(Loading!Advanced.rest) = Len(Loading!Top.rest) - 1
                /\ \A n \in 1..Len(Loading!Advanced.rest) :
                      Loading!Advanced.rest[n] = Loading!Top.rest[n + 1]
<1>1. fileStack \in Seq(Level)
  BY DEF LoadInv, LoadTypes
<1>2. Loading!Top = fileStack[Len(fileStack)] /\ Loading!Top \in Level
      /\ Len(fileStack) \in Nat \ {0} /\ Loading!Depth = Len(fileStack) - 1
  BY <1>1 DEF Loading!Top, Loading!Last, Loading!Depth
<1>3. ASSUME Loading!Top.rest # <<>>
      PROVE  /\ Loading!Line1 = Loading!Top.rest[1] /\ Loading!Line1 \in Loading!Line
             /\ Loading!Advanced \in Level
             /\ Loading!Advanced.file = Loading!Top.file
             /\ Loading!Advanced.seen = Loading!Top.seen
             /\ Len(Loading!Advanced.rest) = Len(Loading!Top.rest) - 1
             /\ \A n \in 1..Len(Loading!Advanced.rest) :
                   Loading!Advanced.rest[n] = Loading!Top.rest[n + 1]
  <2> DEFINE r == Loading!Top.rest
  <2>1. r \in Seq(Loading!Line) /\ r # <<>> /\ Loading!Top.file \in File
        /\ Loading!Top.seen \subseteq Loading!Key
    BY <1>2, <1>3 DEF Level
  <2>2. Loading!Advanced = [file |-> Loading!Top.file, rest |-> Tail(r),
                            seen |-> Loading!Top.seen]
    <3>1. Loading!Top = [file |-> Loading!Top.file, rest |-> r, seen |-> Loading!Top.seen]
      BY <1>2 DEF Level
    <3>2. Loading!Advanced = [Loading!Top EXCEPT !.rest = Tail(r)]
      BY DEF Loading!Advanced
    <3>3. QED BY <3>1, <3>2
  <2>3. Loading!Line1 = Head(r)
    BY DEF Loading!Line1
  <2> HIDE DEF r
  <2>4. Tail(r) \in Seq(Loading!Line) /\ Len(Tail(r)) = Len(r) - 1
        /\ \A n \in 1..Len(Tail(r)) : Tail(r)[n] = r[n + 1]
    BY <2>1
  <2>5. Loading!Line1 = r[1] /\ r[1] \in Loading!Line
    BY <2>1, <2>3
  <2>6. Loading!Advanced \in Level
    BY <2>1, <2>2, <2>4 DEF Level
  <2>7. Loading!Advanced.file = Loading!Top.file /\ Loading!Advanced.seen = Loading!Top.seen
        /\ Loading!Advanced.rest = Tail(r)
    BY <2>2
  <2>8. r = Loading!Top.rest
    BY DEF r
  <2>9. QED BY <2>4, <2>5, <2>6, <2>7, <2>8
<1>4. QED BY <1>2, <1>3

LEMMA LoadInvInit == Loading!Init => LoadInv
<1> SUFFICES ASSUME Loading!Init PROVE LoadInv
  OBVIOUS
<1>1. [f \in File |-> <<>>] \in [File -> Seq(Loading!Line)]
  OBVIOUS
<1>2. Loading!Default \in [Loading!Key -> File \cup {Loading!Unset}]
  BY DEF Loading!Default
<1>3. LoadTypes
  BY <1>1, <1>2, SettingsAssumption DEF LoadTypes, Loading!Init
<1>4. loadAt = "idle" /\ fileStack = <<>> /\ completed = {} /\ files = <<>>
      /\ cfg = Loading!Default /\ directives = 0
  BY DEF Loading!Init
<1>5. QED BY <1>3, <1>4 DEF LoadInv

(* The next line of the uppermost file was not taken before. *)
LEMMA NextLine ==
    ASSUME LoadInv, Loading!HasLine,
           NEW m, m = Len(fileStack), NEW f, f = Loading!Top.file,
           NEW c, c = Gone(m) + 1
    PROVE  /\ m \in Nat \ {0} /\ fileStack[m] = Loading!Top /\ f \in File
           /\ c \in 1..Len(text[f]) /\ text[f][c] = Loading!Line1
           /\ f \notin completed /\ Gone(m) \in Nat
           /\ Len(Loading!Top.rest) \in Nat \ {0} /\ Len(text[f]) \in Nat
           /\ \A n \in Nat : LineRead(f, n) <=> n \in 1..Gone(m)
           /\ ~LineRead(f, c)
<1>1. fileStack # <<>> /\ LevelsOK /\ Loading!Top.rest # <<>>
  BY DEF LoadInv, Loading!HasLine
<1>2. m \in Nat \ {0} /\ fileStack[m] = Loading!Top /\ Loading!Top \in Level /\ m \in 1..m
      /\ Loading!Line1 = Loading!Top.rest[1]
  BY <1>1, Uppermost
<1> DEFINE r == Loading!Top.rest
<1>3. r \in Seq(Loading!Line) /\ r # <<>> /\ f \in File /\ r = fileStack[m].rest
      /\ f = fileStack[m].file
  BY <1>1, <1>2 DEF Level
<1> HIDE DEF r
<1>4. text[f] \in Seq(Loading!Line)
  BY <1>3 DEF LoadInv, LoadTypes
<1>5. /\ f \notin completed
      /\ Gone(m) \in Nat
      /\ \A n \in 1..Len(r) : r[n] = text[f][Gone(m) + n]
      /\ \A i \in 1..m : fileStack[i].file = f => i = m
  BY <1>1, <1>2, <1>3 DEF LevelsOK
<1>6. Gone(m) = Len(text[f]) - Len(r)
  BY <1>3 DEF Gone
<1>7. Len(r) \in Nat \ {0} /\ Len(text[f]) \in Nat
  BY <1>3, <1>4
<1>8. c \in 1..Len(text[f]) /\ 1 \in 1..Len(r)
  BY <1>5, <1>6, <1>7
<1>9. text[f][c] = Loading!Line1
  BY <1>2, <1>5, <1>8 DEF r
<1>10. ASSUME NEW n \in Nat PROVE LineRead(f, n) <=> n \in 1..Gone(m)
  <2>1. ASSUME LineRead(f, n) PROVE n \in 1..Gone(m)
    <3>1. n \in 1..Len(text[f]) /\ \E i \in 1..m : fileStack[i].file = f /\ n <= Gone(i)
      BY <1>5, <2>1 DEF LineRead
    <3>2. QED BY <1>5, <3>1
  <2>2. ASSUME n \in 1..Gone(m) PROVE LineRead(f, n)
    <3>1. n \in 1..Len(text[f]) /\ n <= Gone(m)
      BY <1>5, <1>6, <1>7, <2>2
    <3>2. QED BY <1>2, <1>3, <3>1 DEF LineRead
  <2>3. QED BY <2>1, <2>2
<1>11. ~LineRead(f, c)
  BY <1>5, <1>8, <1>10
<1>12. Len(Loading!Top.rest) \in Nat \ {0}
  BY <1>7 DEF r
<1>13. QED BY <1>2, <1>3, <1>5, <1>7, <1>8, <1>9, <1>10, <1>11, <1>12

(* The stack after a line of the uppermost file. *)
Advance(sn) == Append(Loading!Front(fileStack), [Loading!Advanced EXCEPT !.seen = sn])

LEMMA Advances ==
    ASSUME LoadInv, Loading!HasLine, NEW sn \in SUBSET Loading!Key
    PROVE  /\ Advance(sn) \in Seq(Level)
           /\ Len(Advance(sn)) = Len(fileStack) /\ Len(fileStack) \in Nat \ {0}
           /\ \A i \in 1..Len(fileStack) : i # Len(fileStack)
                => Advance(sn)[i] = fileStack[i]
           /\ Advance(sn)[Len(fileStack)].file = Loading!Top.file
           /\ Advance(sn)[Len(fileStack)].seen = sn
           /\ Advance(sn)[Len(fileStack)].rest = Loading!Advanced.rest
           /\ Len(Loading!Advanced.rest) = Len(Loading!Top.rest) - 1
           /\ \A n \in 1..Len(Loading!Advanced.rest) :
                 Loading!Advanced.rest[n] = Loading!Top.rest[n + 1]
<1>1. fileStack # <<>> /\ Loading!Top.rest # <<>> /\ fileStack \in Seq(Level)
  BY DEF LoadInv, Loading!HasLine, LoadTypes
<1> DEFINE e == [Loading!Advanced EXCEPT !.seen = sn]
           u == Loading!Front(fileStack)
<1>2. /\ Loading!Advanced \in Level /\ Loading!Advanced.file = Loading!Top.file
      /\ Len(Loading!Advanced.rest) = Len(Loading!Top.rest) - 1
      /\ \A n \in 1..Len(Loading!Advanced.rest) :
            Loading!Advanced.rest[n] = Loading!Top.rest[n + 1]
      /\ Len(fileStack) \in Nat \ {0}
  BY <1>1, Uppermost
<1>3. e \in Level /\ e.file = Loading!Top.file /\ e.rest = Loading!Advanced.rest
      /\ e.seen = sn
  BY <1>2 DEF Level
<1>4. u \in Seq(Level) /\ Len(u) = Len(fileStack) - 1
      /\ \A i \in 1..(Len(fileStack) - 1) : u[i] = fileStack[i]
  BY <1>1, Shortened
<1>5. Advance(sn) = Append(u, e)
  BY DEF Advance
<1> HIDE DEF e, u
<1>6. /\ Append(u, e) \in Seq(Level) /\ Len(Append(u, e)) = Len(u) + 1
      /\ \A i \in 1..Len(u) : Append(u, e)[i] = u[i]
      /\ Append(u, e)[Len(u) + 1] = e
  BY <1>3, <1>4, AppendProperties
<1>7. /\ Append(u, e) \in Seq(Level) /\ Len(Append(u, e)) = Len(fileStack)
      /\ \A i \in 1..Len(fileStack) : i # Len(fileStack) => Append(u, e)[i] = fileStack[i]
      /\ Append(u, e)[Len(fileStack)] = e
  BY <1>2, <1>4, <1>6
<1>8. QED BY <1>2, <1>3, <1>5, <1>7

(* One more line is taken, in a step that opens no file. *)
OneTaken(m, f, c, sn) ==
    /\ m = Len(fileStack) /\ f = Loading!Top.file /\ c = Gone(m) + 1
    /\ Len(fileStack') = m /\ fileStack' # <<>>
    /\ \A i \in 1..m : i # m => fileStack'[i] = fileStack[i] /\ Gone(i)' = Gone(i)
    /\ \A i \in 1..m : fileStack'[i].file = fileStack[i].file
    /\ fileStack'[m].file = f /\ fileStack'[m].seen = sn /\ Gone(m)' = c
    /\ \A x \in File, n \in Nat :
          LineRead(x, n)' <=> LineRead(x, n) \/ (x = f /\ n = c)
    /\ LevelsOK'

LEMMA OneMore ==
    ASSUME LoadInv, Loading!HasLine, NEW sn \in SUBSET Loading!Key,
           fileStack' = Advance(sn), text' = text, completed' = completed
    PROVE  \E m, f, c : OneTaken(m, f, c, sn)
<1>0. PICK m, f, c : m = Len(fileStack) /\ f = Loading!Top.file /\ c = Gone(m) + 1
  OBVIOUS
<1>1. m \in Nat \ {0} /\ fileStack[m] = Loading!Top /\ f \in File /\ f = fileStack[m].file
      /\ c \in 1..Len(text[f]) /\ text[f][c] = Loading!Line1 /\ f \notin completed
      /\ Gone(m) \in Nat /\ Len(Loading!Top.rest) \in Nat \ {0} /\ Len(text[f]) \in Nat
      /\ \A n \in Nat : LineRead(f, n) <=> n \in 1..Gone(m)
  BY <1>0, NextLine
<1>2. /\ Len(fileStack') = m
      /\ \A i \in 1..m : i # m => fileStack'[i] = fileStack[i]
      /\ fileStack'[m].file = f /\ fileStack'[m].seen = sn
      /\ fileStack'[m].rest = Loading!Advanced.rest
      /\ Len(Loading!Advanced.rest) = Len(Loading!Top.rest) - 1
      /\ \A n \in 1..Len(Loading!Advanced.rest) :
            Loading!Advanced.rest[n] = Loading!Top.rest[n + 1]
  BY <1>0, Advances
<1>3. LevelsOK /\ text \in [File -> Seq(Loading!Line)] /\ fileStack \in Seq(Level)
  BY <1>0 DEF LoadInv, Loading!HasLine, LoadTypes
<1>4. text' = text /\ completed' = completed
  OBVIOUS
<1>5. \A i \in 1..m : i # m => Gone(i)' = Gone(i)
  BY <1>0, <1>2, <1>4 DEF Gone
<1>6. Gone(m) \in Nat /\ c \in Nat /\ Gone(m) = Len(text[f]) - Len(Loading!Top.rest)
  BY <1>0, <1>1, <1>3 DEF LevelsOK, Gone
<1>7. Gone(m)' = c
  <2>1. Gone(m)' = Len(text[f]) - Len(Loading!Advanced.rest)
    BY <1>0, <1>2, <1>4 DEF Gone
  <2>2. QED BY <1>0, <1>1, <1>2, <1>6, <2>1
<1>8. \A i \in 1..m : fileStack'[i].file = fileStack[i].file
  BY <1>0, <1>1, <1>2
<1>9. ASSUME NEW x \in File, NEW n \in Nat
      PROVE  LineRead(x, n)' <=> LineRead(x, n) \/ (x = f /\ n = c)
  <2>1. LineRead(x, n)' <=> /\ n \in 1..Len(text[x])
                            /\ \/ x \in completed
                               \/ \E i \in 1..m : fileStack'[i].file = x /\ n <= Gone(i)'
    BY <1>0, <1>2, <1>4 DEF LineRead
  <2>2. LineRead(x, n) <=> /\ n \in 1..Len(text[x])
                           /\ \/ x \in completed
                              \/ \E i \in 1..m : fileStack[i].file = x /\ n <= Gone(i)
    BY <1>0 DEF LineRead
  <2>3. ASSUME NEW i \in 1..m
        PROVE  fileStack'[i].file = x /\ n <= Gone(i)'
                 <=> \/ fileStack[i].file = x /\ n <= Gone(i)
                     \/ i = m /\ x = f /\ n = c
    <3>1. CASE i = m
      <4>1. n <= c <=> (n <= Gone(m) \/ n = c)
        BY <1>0, <1>6
      <4>2. QED BY <1>0, <1>1, <1>2, <1>7, <3>1, <4>1
    <3>2. CASE i # m
      BY <1>0, <1>2, <1>5, <3>2
    <3>3. QED BY <1>0, <3>1, <3>2
  <2>4. m \in 1..m /\ (x = f /\ n = c => n \in 1..Len(text[x]))
    BY <1>0, <1>1
  <2>5. QED BY <1>0, <2>1, <2>2, <2>3, <2>4
<1>10. LevelsOK'
  <2>1. fileStack'[1].file = Primary
    <3>1. fileStack[1].file = Primary /\ 1 \in 1..m
      BY <1>0, <1>1, <1>3 DEF LevelsOK
    <3>2. QED BY <1>0, <1>8, <3>1
  <2>2. \A i, j \in 1..m : fileStack'[i].file = fileStack'[j].file => i = j
    BY <1>0, <1>3, <1>8 DEF LevelsOK
  <2>3. ASSUME NEW i \in 1..m
        PROVE  /\ fileStack'[i].file \notin completed
               /\ Gone(i)' \in Nat
               /\ \A n \in 1..Len(fileStack'[i].rest) :
                     fileStack'[i].rest[n] = text[fileStack'[i].file][Gone(i)' + n]
               /\ i < m => Gone(i)' > 0
                  /\ text[fileStack'[i].file][Gone(i)'].what = "include"
    <3>1. CASE i # m
      <4>1. fileStack'[i] = fileStack[i] /\ Gone(i)' = Gone(i)
        BY <1>0, <1>2, <1>5, <3>1
      <4>2. QED BY <1>0, <1>3, <4>1 DEF LevelsOK
    <3>2. CASE i = m
      <4> DEFINE r == Loading!Top.rest
                 q == Loading!Advanced.rest
      <4>1. Len(q) = Len(r) - 1 /\ \A n \in 1..Len(q) : q[n] = r[n + 1]
        BY <1>0, <1>2
      <4>2. \A n \in 1..Len(r) : r[n] = text[f][Gone(m) + n]
        <5>1. m \in 1..Len(fileStack) /\ fileStack[m].rest = r /\ fileStack[m].file = f
          BY <1>0, <1>1
        <5>2. QED BY <1>3, <5>1, LevelAt
      <4>3. Len(r) \in Nat
        BY <1>0, <1>1
      <4>4. fileStack'[m].rest = q
        BY <1>0, <1>2
      <4> HIDE DEF r, q
      <4>5. ASSUME NEW n \in 1..Len(q) PROVE q[n] = text[f][c + n]
        <5>1. n \in Nat /\ n + 1 \in 1..Len(r)
          BY <1>0, <4>1, <4>3
        <5>3. \A g \in Nat : g + (n + 1) = (g + 1) + n
          BY <1>0, <5>1
        <5>4. Gone(m) + (n + 1) = c + n
          BY <1>0, <1>6, <5>3
        <5>5. QED BY <1>0, <4>1, <4>2, <5>1, <5>4
      <4>6. \A n \in 1..Len(fileStack'[m].rest) :
              fileStack'[m].rest[n] = text[fileStack'[m].file][Gone(m)' + n]
        BY <1>0, <1>2, <1>7, <4>4, <4>5
      <4>7. fileStack'[m].file \notin completed /\ Gone(m)' \in Nat
        BY <1>0, <1>1, <1>2, <1>6, <1>7
      <4>8. ~(m < m)
        BY <1>0, <1>1
      <4>9. QED BY <1>0, <3>2, <4>6, <4>7, <4>8
    <3>3. QED BY <1>0, <3>1, <3>2
  <2>4. QED BY <1>0, <1>2, <1>4, <2>1, <2>2, <2>3 DEF LevelsOK
<1>11. fileStack' # <<>>
  BY <1>0, <1>1, <1>2
<1>12. OneTaken(m, f, c, sn)
  BY <1>0, <1>2, <1>5, <1>7, <1>8, <1>9, <1>10, <1>11 DEF OneTaken
<1>13. QED BY <1>0, <1>12

(* While an included file is read, an include line is the last one that was   *)
(* taken of the primary file. *)
LEMMA Waits ==
    ASSUME LoadTypes, LevelsOK, Len(fileStack) > 1, NEW n \in Nat, LineRead(Primary, n),
           text[Primary][n].what \in Loading!Key
    PROVE  \E m \in Nat : LineRead(Primary, m) /\ m > n /\ text[Primary][m].what = "include"
<1> DEFINE g == Gone(1)
<1>1. fileStack \in Seq(Level) /\ Len(fileStack) \in Nat
  BY DEF LoadTypes
<1>2. 1 \in 1..Len(fileStack) /\ 1 < Len(fileStack) /\ fileStack # <<>>
  BY <1>1
<1>3. fileStack[1].file = Primary /\ Primary \notin completed
      /\ g \in Nat /\ g > 0 /\ text[Primary][g].what = "include"
  BY <1>2 DEF LevelsOK
<1>4. n \in 1..Len(text[Primary])
      /\ \E i \in 1..Len(fileStack) : fileStack[i].file = Primary /\ n <= Gone(i)
  BY <1>3 DEF LineRead
<1>5. n <= g
  BY <1>2, <1>3, <1>4 DEF LevelsOK
<1>6. n # g
  BY <1>3, LineKinds
<1>7. g \in 1..Len(text[Primary])
  <2>1. g = Len(text[Primary]) - Len(fileStack[1].rest)
    BY <1>3 DEF Gone
  <2>2. fileStack[1] \in Level
    BY <1>1, <1>2
  <2>3. fileStack[1].rest \in Seq(Loading!Line)
    BY <2>2 DEF Level
  <2>4. text[Primary] \in Seq(Loading!Line)
    BY SettingsAssumption DEF LoadTypes
  <2>5. Len(fileStack[1].rest) \in Nat
    BY <2>3
  <2>6. Len(text[Primary]) \in Nat
    BY <2>4
  <2> HIDE DEF g
  <2>7. \A a, b, x \in Nat : x > 0 /\ x = a - b => x \in 1..a
    OBVIOUS
  <2>8. QED BY <1>3, <2>1, <2>5, <2>6, <2>7
<1>8. LineRead(Primary, g)
  BY <1>2, <1>3, <1>7 DEF LineRead
<1> HIDE DEF g
<1>9. g \in Nat /\ g > n
  BY <1>3, <1>5, <1>6
<1>10. QED BY <1>3, <1>8, <1>9

LEMMA ApplyKeeps == ASSUME LoadInv, Loading!Apply PROVE LoadInv'
<1>0. PICK w, sn : w = Loading!Line1.what /\ sn = Loading!Top.seen \cup {w}
  OBVIOUS
<1>1. /\ Loading!HasLine /\ w \in Loading!Key /\ w \notin Loading!Top.seen
      /\ cfg' = [cfg EXCEPT ![w] = Loading!Top.file]
      /\ fileStack' = Append(Loading!Front(fileStack),
                             [Loading!Advanced EXCEPT !.seen = @ \cup {w}])
      /\ UNCHANGED <<loadAt, completed, files, directives, text>>
  BY <1>0 DEF Loading!Apply
<1>2. /\ loadAt = "line" /\ LoadTypes /\ LevelsOK /\ FilesOK /\ LinesOK
      /\ fileStack # <<>> /\ Loading!Top.rest # <<>>
  BY <1>1 DEF LoadInv, Loading!HasLine
<1>4. sn \in SUBSET Loading!Key /\ fileStack' = Advance(sn)
  <2>1. Loading!Advanced.seen = Loading!Top.seen /\ Loading!Top.seen \subseteq Loading!Key
    BY <1>2, Uppermost DEF Level
  <2>2. QED BY <1>0, <1>1, <2>1 DEF Advance
<1>20. PICK m, f, c : OneTaken(m, f, c, sn)
  <2>1. Loading!HasLine /\ text' = text /\ completed' = completed
    BY <1>1
  <2>2. QED BY <1>4, <2>1, OneMore
<1>5. /\ m = Len(fileStack) /\ f = Loading!Top.file /\ c = Gone(m) + 1
      /\ Len(fileStack') = m /\ fileStack' # <<>>
      /\ \A i \in 1..m : i # m => fileStack'[i] = fileStack[i] /\ Gone(i)' = Gone(i)
      /\ \A i \in 1..m : fileStack'[i].file = fileStack[i].file
      /\ fileStack'[m].file = f /\ fileStack'[m].seen = sn /\ Gone(m)' = c
      /\ \A x \in File, n \in Nat :
            LineRead(x, n)' <=> LineRead(x, n) \/ (x = f /\ n = c)
      /\ LevelsOK'
  BY <1>20 DEF OneTaken
<1>3. /\ m \in Nat \ {0} /\ fileStack[m] = Loading!Top /\ f \in File
      /\ c \in 1..Len(text[f]) /\ text[f][c].what = w
      /\ f \notin completed /\ Gone(m) \in Nat
      /\ \A n \in Nat : LineRead(f, n) <=> n \in 1..Gone(m)
      /\ ~LineRead(f, c)
  BY <1>0, <1>1, <1>5, NextLine
<1>30. m \in 1..m
  BY <1>3
<1>31. /\ LinesOK /\ m \in 1..Len(fileStack)
       /\ fileStack[m].file = f /\ fileStack[m].seen = Loading!Top.seen
  BY <1>2, <1>3, <1>5, <1>30
<1>6. fileStack' \in Seq(Level)
  BY <1>1, <1>4, Advances
<1>7. sn = Loading!Top.seen \cup {w}
  BY <1>0
<1>8. text' = text /\ completed' = completed /\ files' = files /\ loadAt' = loadAt
      /\ directives' = directives /\ c \in Nat
  BY <1>1, <1>3
<1>9. cfg' \in [Loading!Key -> File \cup {Loading!Unset}]
      /\ cfg'[w] = f /\ \A k \in Loading!Key : k # w => cfg'[k] = cfg[k]
  BY <1>1, <1>2, <1>3, <1>5 DEF LoadTypes
<1>10. LoadTypes'
  BY <1>2, <1>6, <1>8, <1>9 DEF LoadTypes
<1>11. FilesOK'
  <2>1. \A x \in File : (\E i \in 1..Len(fileStack') : fileStack'[i].file = x)
                        <=> \E i \in 1..Len(fileStack) : fileStack[i].file = x
    BY <1>5
  <2>2. QED BY <1>2, <1>8, <2>1 DEF FilesOK
<1>12. LinesOK'
  <2>1. ASSUME NEW x \in File, NEW n \in Nat, LineRead(x, n)', text[x][n].what = "include"
        PROVE  \E p \in 1..Len(files) : files[p] = text[x][n].file
    <3>1. LineRead(x, n)
      BY <1>1, <1>3, <1>5, <2>1, LineKinds
    <3>2. QED BY <1>2, <2>1, <3>1 DEF LinesOK
  <2>2. ASSUME NEW n \in 1..Gone(m) PROVE text[f][n].what # w
    <3>1. w \in Loading!Key /\ w \notin Loading!Top.seen
      BY <1>0, <1>1, <1>2, <1>5
    <3>2. QED BY <1>31, <3>1, KeysSeen
  <2>3. ASSUME NEW x \in File, NEW n \in Nat, NEW p \in Nat,
               LineRead(x, n)', LineRead(x, p)', n # p, text[x][n].what = text[x][p].what
        PROVE  text[x][n].what \notin Loading!Key
    <3>1. CASE LineRead(x, n) /\ LineRead(x, p)
      BY <1>2, <2>3, <3>1 DEF LinesOK
    <3>2. CASE ~LineRead(x, n)
      BY <1>3, <1>5, <2>2, <2>3, <3>2
    <3>3. CASE ~LineRead(x, p)
      BY <1>3, <1>5, <2>2, <2>3, <3>3
    <3>4. QED BY <3>1, <3>2, <3>3
  <2>4. ASSUME NEW i \in 1..m, NEW k \in Loading!Key
        PROVE  k \in fileStack'[i].seen
                 <=> \E n \in 1..Gone(i)' : text[fileStack'[i].file][n].what = k
    <3>1. CASE i # m
      BY <1>0, <1>2, <1>5, <3>1 DEF LinesOK
    <3>2. CASE i = m
      <4>1. k \in Loading!Top.seen <=> \E n \in 1..Gone(m) : text[f][n].what = k
        BY <1>31, KeysSeen
      <4>2. \A n \in 1..c : n \in 1..Gone(m) \/ n = c
        BY <1>5, <1>3
      <4>3. 1..Gone(m) \subseteq 1..c /\ c \in 1..c
        BY <1>5, <1>3, <1>8
      <4>4. (\E n \in 1..c : text[f][n].what = k) <=> k \in sn
        BY <1>3, <1>7, <4>1, <4>2, <4>3
      <4>5. QED BY <1>5, <3>2, <4>4
    <3>3. QED BY <3>1, <3>2
  <2>5. ASSUME NEW k \in Loading!Key
        PROVE  cfg'[k] = Loading!Unset
                 <=> \A x \in File, n \in Nat : LineRead(x, n)' => text[x][n].what # k
    <3>1. CASE k = w
      <4>1. cfg'[k] # Loading!Unset
        BY <1>3, <1>9, <3>1, SettingsAssumption DEF Loading!Unset
      <4>2. QED BY <1>3, <1>5, <1>8, <3>1, <4>1
    <3>2. CASE k # w
      <4>1. \A x \in File, n \in Nat :
               (LineRead(x, n)' => text[x][n].what # k) <=> (LineRead(x, n)
                   => text[x][n].what # k)
        BY <1>3, <1>5, <3>2
      <4>2. cfg'[k] = cfg[k]
        BY <1>9, <3>2
      <4>3. QED BY <1>2, <4>1, <4>2 DEF LinesOK
    <3>3. QED BY <3>1, <3>2
  <2>6. ASSUME NEW k \in Loading!Key, NEW n \in Nat,
               LineRead(Primary, n)', text[Primary][n].what = k,
               \A p \in Nat : LineRead(Primary, p)' /\ p > n
                   => text[Primary][p].what # "include"
        PROVE  cfg'[k] = Primary
    <3>1. CASE f = Primary /\ k = w
      BY <1>9, <3>1
    <3>2. CASE f = Primary /\ k # w
      <4>1. LineRead(Primary, n)
        BY <1>3, <1>5, <2>6, <3>2
      <4>2. \A p \in Nat : LineRead(Primary, p) /\ p > n
              => text[Primary][p].what # "include"
        BY <1>5, <2>6, SettingsAssumption
      <4>3. cfg[k] = Primary
        BY <1>2, <2>6, <4>1, <4>2 DEF LinesOK
      <4>4. QED BY <1>9, <3>2, <4>3
    <3>3. CASE f # Primary
      <4>1. LineRead(Primary, n)
        BY <1>5, <2>6, <3>3, SettingsAssumption
      <4>2. Len(fileStack) > 1
        <5>1. fileStack[1].file = Primary
          BY <1>2 DEF LevelsOK
        <5>2. m # 1
          BY <1>5, <1>3, <3>3, <5>1
        <5>3. QED BY <1>5, <1>3, <5>2
      <4>3. PICK p \in Nat : LineRead(Primary, p) /\ p > n
                 /\ text[Primary][p].what = "include"
        BY <1>2, <2>6, <4>1, <4>2, Waits
      <4>4. LineRead(Primary, p)'
        BY <1>5, <4>3, SettingsAssumption
      <4>5. QED BY <2>6, <4>3, <4>4
    <3>4. QED BY <3>1, <3>2, <3>3
  <2>7. QED BY <1>5, <1>8, <2>1, <2>3, <2>4, <2>5, <2>6 DEF LinesOK
<1>13. loadAt' = "line"
  BY <1>2, <1>8
<1>14. QED BY <1>5, <1>10, <1>11, <1>12, <1>13 DEF LoadInv

(* An include line sets nothing, and what was taken before stays as it was. *)
IncludeTaken(m, f, c) ==
    /\ m = Len(fileStack) /\ f = Loading!Top.file /\ c = Gone(m) + 1
    /\ \A x \in File, n \in Nat :
          LineRead(x, n)' <=> LineRead(x, n) \/ (x = f /\ n = c)
    /\ \A x \in File, n \in Nat : LineRead(x, n)' => text'[x][n] = text[x][n]
    /\ \A p \in 1..Len(files) : \E q \in 1..Len(files') : files'[q] = files[p]
    /\ \E q \in 1..Len(files') : files'[q] = Loading!Line1.file
    /\ \A i \in 1..Len(fileStack'), k \in Loading!Key :
          k \in fileStack'[i].seen
            <=> \E n \in 1..Gone(i)' : text'[fileStack'[i].file][n].what = k

LEMMA IncludeSets ==
    ASSUME LoadInv, Loading!HasLine, Loading!Line1.what = "include", cfg' = cfg,
           NEW m, NEW f, NEW c, IncludeTaken(m, f, c)
    PROVE  LinesOK'
<1> USE DEF IncludeTaken
<1>1. LoadTypes /\ LevelsOK /\ LinesOK
  BY DEF LoadInv, Loading!HasLine
<1>2. /\ m \in Nat \ {0} /\ fileStack[m] = Loading!Top /\ f \in File /\ c \in Nat
      /\ c \in 1..Len(text[f]) /\ text[f][c] = Loading!Line1
      /\ Gone(m) \in Nat /\ \A n \in Nat : LineRead(f, n) <=> n \in 1..Gone(m)
  BY NextLine
<1>3. ASSUME NEW x \in File, NEW n \in Nat, LineRead(x, n)', text'[x][n].what # "include"
      PROVE  LineRead(x, n) /\ text'[x][n] = text[x][n]
  <2>1. LineRead(x, n) \/ (x = f /\ n = c)
    BY <1>3
  <2>2. text'[x][n] = text[x][n]
    BY <1>3
  <2>3. text[x][n].what # "include" /\ text[f][c].what = "include"
    BY <1>2, <1>3, <2>2
  <2>4. QED BY <2>1, <2>2, <2>3
<1>4. ASSUME NEW x \in File, NEW n \in Nat, LineRead(x, n)', text'[x][n].what = "include"
      PROVE  \E q \in 1..Len(files') : files'[q] = text'[x][n].file
  <2>1. CASE LineRead(x, n)
    <3>1. text'[x][n] = text[x][n]
      BY <1>4
    <3>2. \E p \in 1..Len(files) : files[p] = text[x][n].file
      BY <1>1, <1>4, <2>1, <3>1, IncludeListed
    <3>3. QED BY <3>1, <3>2
  <2>2. CASE ~LineRead(x, n)
    <3>1. x = f /\ n = c
      BY <1>4, <2>2
    <3>2. text'[x][n] = Loading!Line1
      BY <1>2, <1>4, <3>1
    <3>3. QED BY <3>2
  <2>3. QED BY <2>1, <2>2
<1>5. ASSUME NEW x \in File, NEW n \in Nat, NEW p \in Nat,
             LineRead(x, n)', LineRead(x, p)', n # p, text'[x][n].what = text'[x][p].what
      PROVE  text'[x][n].what \notin Loading!Key
  <2>1. CASE text'[x][n].what = "include"
    BY <2>1, LineKinds
  <2>2. CASE text'[x][n].what # "include"
    <3>1. LineRead(x, n) /\ LineRead(x, p)
          /\ text'[x][n] = text[x][n] /\ text'[x][p] = text[x][p]
      BY <1>3, <1>5, <2>2
    <3>2. QED BY <1>1, <1>5, <3>1 DEF LinesOK
  <2>3. QED BY <2>1, <2>2
<1>6. ASSUME NEW k \in Loading!Key
      PROVE  cfg'[k] = Loading!Unset
               <=> \A x \in File, n \in Nat : LineRead(x, n)' => text'[x][n].what # k
  <2>1. k # "include"
    BY LineKinds
  <2>2. ASSUME NEW x \in File, NEW n \in Nat
        PROVE  (LineRead(x, n)' => text'[x][n].what # k)
                 <=> (LineRead(x, n) => text[x][n].what # k)
    <3>1. CASE LineRead(x, n)
      BY <3>1
    <3>2. CASE ~LineRead(x, n)
      BY <1>3, <2>1, <3>2
    <3>3. QED BY <3>1, <3>2
  <2>3. QED BY <1>1, <2>2 DEF LinesOK
<1>7. ASSUME NEW k \in Loading!Key, NEW n \in Nat,
             LineRead(Primary, n)', text'[Primary][n].what = k,
             \A p \in Nat : LineRead(Primary, p)' /\ p > n
                 => text'[Primary][p].what # "include"
      PROVE  FALSE
  <2>1. LineRead(Primary, n) /\ text[Primary][n].what = k
    BY <1>3, <1>7, SettingsAssumption, LineKinds
  <2>2. CASE f = Primary
    <3>1. n \in 1..Gone(m)
      BY <1>2, <2>1, <2>2
    <3>2. c > n
      BY <1>2, <3>1
    <3>3. LineRead(Primary, c)' /\ text'[Primary][c] = Loading!Line1
      BY <1>2, <2>2, SettingsAssumption
    <3>4. QED BY <1>2, <1>7, <3>2, <3>3
  <2>3. CASE f # Primary
    <3>1. Len(fileStack) > 1
      <4>1. m # 1 /\ fileStack # <<>>
        <5>1. fileStack # <<>> => fileStack[1].file = Primary
          BY <1>1 DEF LevelsOK
        <5>2. fileStack # <<>>
          BY DEF LoadInv, Loading!HasLine
        <5>3. QED BY <1>2, <2>3, <5>1, <5>2
      <4>2. QED BY <1>2, <4>1
    <3>2. PICK p \in Nat : LineRead(Primary, p) /\ p > n
               /\ text[Primary][p].what = "include"
      BY <1>1, <2>1, <3>1, Waits
    <3>3. LineRead(Primary, p)' /\ text'[Primary][p].what = "include"
      BY <3>2, SettingsAssumption
    <3>4. QED BY <1>7, <3>2, <3>3
  <2>4. QED BY <2>2, <2>3
<1>8. QED BY <1>4, <1>5, <1>6, <1>7 DEF LinesOK

(* A completed file is skipped. *)
LEMMA SkipKeeps ==
    ASSUME LoadInv, Loading!HasLine, Loading!Line1.what = "include",
           Loading!Line1.file \in completed, fileStack' = Advance(Loading!Top.seen),
           directives < MaxDirectives, directives' = directives + 1,
           loadAt' = loadAt, files' = files, text' = text, completed' = completed,
           cfg' = cfg
    PROVE  LoadInv'
<1>1. /\ loadAt = "line" /\ LoadTypes /\ LevelsOK /\ FilesOK /\ LinesOK /\ fileStack # <<>>
  BY DEF LoadInv, Loading!HasLine
<1>2. Loading!Top.seen \in SUBSET Loading!Key
  BY <1>1, Uppermost DEF Level
<1>3. PICK m, f, c : OneTaken(m, f, c, Loading!Top.seen)
  BY <1>2, OneMore
<1>4. /\ m = Len(fileStack) /\ f = Loading!Top.file /\ c = Gone(m) + 1
      /\ Len(fileStack') = m /\ fileStack' # <<>>
      /\ \A i \in 1..m : i # m => fileStack'[i] = fileStack[i] /\ Gone(i)' = Gone(i)
      /\ \A i \in 1..m : fileStack'[i].file = fileStack[i].file
      /\ fileStack'[m].file = f /\ fileStack'[m].seen = Loading!Top.seen /\ Gone(m)' = c
      /\ \A x \in File, n \in Nat :
            LineRead(x, n)' <=> LineRead(x, n) \/ (x = f /\ n = c)
      /\ LevelsOK'
  BY <1>3 DEF OneTaken
<1>5. /\ m \in Nat \ {0} /\ fileStack[m] = Loading!Top /\ f \in File
      /\ text[f][c] = Loading!Line1 /\ Gone(m) \in Nat
  BY <1>4, NextLine
<1>6. FilesOK'
  <2>1. \A x \in File : (\E i \in 1..Len(fileStack') : fileStack'[i].file = x)
                        <=> \E i \in 1..Len(fileStack) : fileStack[i].file = x
    BY <1>4
  <2>2. QED BY <1>1, <2>1 DEF FilesOK
<1>7. \E q \in 1..Len(files') : files'[q] = Loading!Line1.file
  <2>1. Loading!Line1.file \in File
    BY <1>1 DEF LoadTypes
  <2>2. QED BY <1>1, <2>1, FilesRead
<1>8. ASSUME NEW i \in 1..m, NEW k \in Loading!Key
      PROVE  k \in fileStack'[i].seen
               <=> \E n \in 1..Gone(i)' : text'[fileStack'[i].file][n].what = k
  <2>1. CASE i # m
    BY <1>1, <1>4, <2>1 DEF LinesOK
  <2>2. CASE i = m
    <3>1. m \in 1..m
      BY <1>5
    <3>2. k \in Loading!Top.seen <=> \E n \in 1..Gone(m) : text[f][n].what = k
      <4>1. m \in 1..Len(fileStack) /\ fileStack[m].file = f
            /\ fileStack[m].seen = Loading!Top.seen
        BY <1>4, <1>5, <3>1
      <4>2. QED BY <1>1, <4>1, KeysSeen
    <3>3. \A n \in 1..c : n \in 1..Gone(m) \/ n = c
      BY <1>4, <1>5
    <3>4. 1..Gone(m) \subseteq 1..c
      BY <1>4, <1>5
    <3>5. text[f][c].what # k
      BY <1>5, LineKinds
    <3>6. (\E n \in 1..c : text[f][n].what = k)
            <=> \E n \in 1..Gone(m) : text[f][n].what = k
      BY <3>3, <3>4, <3>5
    <3>7. QED BY <1>4, <2>2, <3>2, <3>6
  <2>3. QED BY <2>1, <2>2
<1>9. LinesOK'
  <2>1. \A p \in 1..Len(files) : \E q \in 1..Len(files') : files'[q] = files[p]
    OBVIOUS
  <2>2. \A x \in File, n \in Nat : LineRead(x, n)' => text'[x][n] = text[x][n]
    OBVIOUS
  <2>3. \A i \in 1..Len(fileStack'), k \in Loading!Key :
           k \in fileStack'[i].seen
             <=> \E n \in 1..Gone(i)' : text'[fileStack'[i].file][n].what = k
    <3>1. Len(fileStack') = m
      BY <1>4
    <3>2. QED BY <1>8, <3>1, Zenon
  <2>4. /\ m = Len(fileStack) /\ f = Loading!Top.file /\ c = Gone(m) + 1
        /\ \A x \in File, n \in Nat :
              LineRead(x, n)' <=> LineRead(x, n) \/ (x = f /\ n = c)
    BY <1>4, Zenon
  <2>5. IncludeTaken(m, f, c)
    BY <1>7, <2>1, <2>2, <2>3, <2>4, Zenon DEF IncludeTaken
  <2>6. QED BY <2>5, IncludeSets
<1>10. LoadTypes'
  <2>1. fileStack' \in Seq(Level)
    BY <1>2, Advances
  <2>2. directives' \in 0..MaxDirectives
    BY <1>1, SettingsAssumption DEF LoadTypes
  <2>3. QED BY <1>1, <2>1, <2>2 DEF LoadTypes
<1>11. QED BY <1>1, <1>4, <1>6, <1>9, <1>10 DEF LoadInv

(* What is read of a file is lines. *)
LEMMA TextsAreLines == \A f \in File : Loading!Text(f) \subseteq Seq(Loading!Line)
<1> SUFFICES ASSUME NEW f \in File, NEW t \in Loading!Text(f) PROVE t \in Seq(Loading!Line)
  OBVIOUS
<1> DEFINE b == IF f = Primary THEN MaxLength ELSE MaxPart
<1>1. PICK n \in 0..b : t \in [1..n -> Loading!Line]
  BY DEF Loading!Text, Loading!SeqOf
<1>2. n \in Nat
  OBVIOUS
<1>3. QED BY <1>1, <1>2

(* Another file is opened above its include line. *)
Opened(g, t) ==
    /\ g = Loading!Line1.file /\ ~Loading!IsOpen(g) /\ g \notin completed
    /\ t \in Loading!Text(g)
    /\ text' = [text EXCEPT ![g] = t] /\ files' = Append(files, g)
    /\ fileStack' = Append(Advance(Loading!Top.seen), [file |-> g, rest |-> t, seen |-> {}])
    /\ directives < MaxDirectives /\ directives' = directives + 1
    /\ loadAt' = "line" /\ completed' = completed /\ cfg' = cfg

LEMMA OpenKeeps ==
    ASSUME LoadInv, Loading!HasLine, Loading!Line1.what = "include",
           NEW g, NEW t, Opened(g, t)
    PROVE  LoadInv'
<1>0. /\ g = Loading!Line1.file /\ ~Loading!IsOpen(g) /\ g \notin completed
      /\ completed' = completed /\ cfg' = cfg /\ loadAt' = "line"
  BY DEF Opened
<1>1. /\ loadAt = "line" /\ LoadTypes /\ LevelsOK /\ FilesOK /\ LinesOK /\ fileStack # <<>>
      /\ fileStack \in Seq(Level) /\ files \in Seq(File)
         /\ text \in [File -> Seq(Loading!Line)]
  BY <1>0 DEF LoadInv, Loading!HasLine, LoadTypes
<1>2. Loading!Top.seen \in SUBSET Loading!Key /\ Loading!Top.rest # <<>>
  BY <1>0, <1>1, Uppermost DEF Level, Loading!HasLine
<1>3. PICK m, f, c, b, e :
         /\ m = Len(fileStack) /\ f = Loading!Top.file /\ c = Gone(m) + 1
         /\ b = Advance(Loading!Top.seen) /\ e = [file |-> g, rest |-> t, seen |-> {}]
  OBVIOUS
<1>4. /\ m \in Nat \ {0} /\ fileStack[m] = Loading!Top /\ f \in File /\ f \notin completed
      /\ c \in 1..Len(text[f]) /\ text[f][c] = Loading!Line1 /\ Gone(m) \in Nat
      /\ Len(Loading!Top.rest) \in Nat \ {0} /\ Len(text[f]) \in Nat
      /\ \A n \in Nat : LineRead(f, n) <=> n \in 1..Gone(m)
  BY <1>0, <1>3, NextLine
<1>5. g \in File /\ Loading!Line1 = [what |-> "include", file |-> g]
  <2>1. Loading!Line1 \in Loading!Line
    BY <1>0, <1>1, <1>2, Uppermost
  <2>2. QED BY <1>0, <2>1, LineKinds
<1>6. t \in Seq(Loading!Line)
  BY <1>0, <1>5, TextsAreLines DEF Opened
<1>7. e \in Level /\ e.file = g /\ e.rest = t /\ e.seen = {}
  BY <1>0, <1>3, <1>5, <1>6 DEF Level
<1>8. /\ b \in Seq(Level) /\ Len(b) = m
      /\ \A i \in 1..m : i # m => b[i] = fileStack[i]
      /\ b[m].file = f /\ b[m].seen = Loading!Top.seen
      /\ b[m].rest = Loading!Advanced.rest
      /\ Len(Loading!Advanced.rest) = Len(Loading!Top.rest) - 1
      /\ \A n \in 1..Len(Loading!Advanced.rest) :
            Loading!Advanced.rest[n] = Loading!Top.rest[n + 1]
  BY <1>0, <1>2, <1>3, Advances
<1>9. /\ fileStack' \in Seq(Level) /\ Len(fileStack') = m + 1 /\ fileStack' # <<>>
      /\ fileStack'[m + 1] = e
      /\ \A i \in 1..m : fileStack'[i] = b[i]
  <2>1. fileStack' = Append(b, e)
    BY <1>0, <1>3 DEF Opened
  <2>2. /\ Append(b, e) \in Seq(Level) /\ Append(b, e) # <<>>
        /\ Len(Append(b, e)) = Len(b) + 1
        /\ \A i \in 1..Len(b) : Append(b, e)[i] = b[i]
        /\ Append(b, e)[Len(b) + 1] = e
    BY <1>0, <1>7, <1>8, AppendProperties
  <2>3. QED BY <1>0, <1>8, <2>1, <2>2
<1>10. /\ \A i \in 1..m : i # m => fileStack'[i] = fileStack[i]
       /\ \A i \in 1..m : fileStack'[i].file = fileStack[i].file
       /\ fileStack'[m].file = f /\ fileStack'[m].seen = Loading!Top.seen
       /\ fileStack'[m].rest = Loading!Advanced.rest
       /\ m \in 1..m /\ m + 1 \in 1..(m + 1) /\ m + 1 # m
       /\ \A i \in 1..(m + 1) : i \in 1..m \/ i = m + 1
  <2>1. /\ m \in 1..m /\ m + 1 \in 1..(m + 1) /\ m + 1 # m
        /\ \A i \in 1..(m + 1) : i \in 1..m \/ i = m + 1
    BY <1>0, <1>4
  <2>2. \A i \in 1..m : i # m => fileStack'[i] = fileStack[i]
    BY <1>8, <1>9
  <2>3. fileStack'[m] = b[m]
    BY <1>9, <2>1
  <2>4. fileStack'[m].file = f /\ fileStack'[m].seen = Loading!Top.seen
        /\ fileStack'[m].rest = Loading!Advanced.rest
    BY <1>8, <2>3
  <2>5. fileStack[m].file = f
    BY <1>3, <1>4
  <2>6. ASSUME NEW i \in 1..m PROVE fileStack'[i].file = fileStack[i].file
    BY <2>2, <2>4, <2>5
  <2>7. QED BY <2>1, <2>2, <2>4, <2>6
<1>11. /\ text' \in [File -> Seq(Loading!Line)] /\ text'[g] = t
       /\ \A x \in File : x # g => text'[x] = text[x]
  BY <1>0, <1>1, <1>5, <1>6 DEF Opened
<1>12. /\ f # g
       /\ \A i \in 1..m : fileStack[i].file # g
       /\ \A i \in 1..m : fileStack[i].file \in File
  <2>1. \A i \in 1..m : fileStack[i].file # g
    <3>1. DOMAIN fileStack = 1..m
      BY <1>1, <1>3
    <3>2. QED BY <1>0, <3>1, Zenon DEF Loading!IsOpen
  <2>2. \A i \in 1..m : fileStack[i] \in Level
    BY <1>0, <1>1, <1>3
  <2>3. \A i \in 1..m : fileStack[i].file \in File
    BY <1>0, <2>2 DEF Level
  <2>4. fileStack[m].file = f
    BY <1>0, <1>3, <1>4
  <2>5. QED BY <1>0, <1>10, <2>1, <2>3, <2>4
<1>13. \A i \in 1..m : i # m => Gone(i)' = Gone(i)
  BY <1>0, <1>10, <1>11, <1>12 DEF Gone
<1>14. Gone(m)' = c /\ Gone(m + 1)' = 0 /\ c \in Nat
  <2>1. Gone(m)' = Len(text[f]) - Len(Loading!Advanced.rest)
    BY <1>0, <1>4, <1>10, <1>11, <1>12 DEF Gone
  <2>2. Gone(m) = Len(text[f]) - Len(Loading!Top.rest)
    BY <1>0, <1>3, <1>4 DEF Gone
  <2>3. Gone(m + 1)' = Len(t) - Len(t)
    BY <1>0, <1>7, <1>9, <1>11 DEF Gone
  <2>4. Len(t) \in Nat
    BY <1>0, <1>6
  <2>5. QED BY <1>0, <1>3, <1>4, <1>8, <2>1, <2>2, <2>3, <2>4
<1>15. ASSUME NEW x \in File, NEW n \in Nat
       PROVE  LineRead(x, n)' <=> LineRead(x, n) \/ (x = f /\ n = c)
  <2>1. LineRead(x, n)' <=> /\ n \in 1..Len(text'[x])
                            /\ \/ x \in completed
                               \/ \E i \in 1..(m + 1) : fileStack'[i].file = x
                                                        /\ n <= Gone(i)'
    BY <1>0, <1>9 DEF LineRead
  <2>2. LineRead(x, n) <=> /\ n \in 1..Len(text[x])
                           /\ \/ x \in completed
                              \/ \E i \in 1..m : fileStack[i].file = x /\ n <= Gone(i)
    BY <1>0, <1>3 DEF LineRead
  <2>3. CASE x = g
    <3>1. ~LineRead(x, n)
      BY <1>0, <1>12, <2>2, <2>3
    <3>2. ASSUME NEW i \in 1..(m + 1), fileStack'[i].file = x, n <= Gone(i)' PROVE n = 0
      <4>1. i = m + 1
        BY <1>0, <1>10, <1>12, <2>3, <3>2
      <4>2. QED BY <1>0, <1>14, <3>2, <4>1
    <3>3. QED BY <1>0, <1>12, <2>1, <2>3, <3>1, <3>2
  <2>4. CASE x # g
    <3>1. text'[x] = text[x]
      BY <1>0, <1>11, <2>4
    <3>2. fileStack'[m + 1].file # x
      BY <1>0, <1>7, <1>9, <2>4
    <3>3. ASSUME NEW i \in 1..m
          PROVE  fileStack'[i].file = x /\ n <= Gone(i)'
                   <=> \/ fileStack[i].file = x /\ n <= Gone(i)
                       \/ i = m /\ x = f /\ n = c
      <4>1. CASE i = m
        <5>1. n <= c <=> (n <= Gone(m) \/ n = c)
          BY <1>0, <1>3, <1>4
        <5>2. fileStack[m].file = f
          BY <1>0, <1>3, <1>4
        <5>3. QED BY <1>0, <1>10, <1>14, <4>1, <5>1, <5>2
      <4>2. CASE i # m
        BY <1>0, <1>10, <1>13, <4>2
      <4>3. QED BY <1>0, <4>1, <4>2
    <3>4. x = f /\ n = c => n \in 1..Len(text[x])
      BY <1>0, <1>4
    <3>5. (\E i \in 1..(m + 1) : fileStack'[i].file = x /\ n <= Gone(i)')
            <=> (\E i \in 1..m : fileStack[i].file = x /\ n <= Gone(i)) \/ (x = f /\ n = c)
      <4>1. 1..m \subseteq 1..(m + 1)
        BY <1>0, <1>4
      <4>2. QED BY <1>0, <1>10, <3>2, <3>3, <4>1
    <3>6. QED BY <1>0, <2>1, <2>2, <3>1, <3>4, <3>5
  <2>5. QED BY <1>0, <2>3, <2>4
<1>16. LevelsOK'
  <2>1. fileStack'[1].file = Primary
    <3>1. fileStack[1].file = Primary /\ 1 \in 1..m
      BY <1>0, <1>1, <1>4 DEF LevelsOK
    <3>2. QED BY <1>0, <1>10, <3>1
  <2>2. ASSUME NEW i \in 1..(m + 1), NEW j \in 1..(m + 1),
               fileStack'[i].file = fileStack'[j].file
        PROVE  i = j
    <3>1. CASE i \in 1..m /\ j \in 1..m
      BY <1>1, <1>3, <1>10, <2>2, <3>1, EndLevels
    <3>2. CASE i = m + 1 /\ j \in 1..m
      BY <1>0, <1>7, <1>9, <1>10, <1>12, <2>2, <3>2
    <3>3. CASE j = m + 1 /\ i \in 1..m
      BY <1>0, <1>7, <1>9, <1>10, <1>12, <2>2, <3>3
    <3>4. QED BY <1>0, <1>10, <3>1, <3>2, <3>3
  <2>3. ASSUME NEW i \in 1..(m + 1)
        PROVE  /\ fileStack'[i].file \notin completed
               /\ Gone(i)' \in Nat
               /\ \A n \in 1..Len(fileStack'[i].rest) :
                     fileStack'[i].rest[n] = text'[fileStack'[i].file][Gone(i)' + n]
               /\ i < m + 1 =>
                     Gone(i)' > 0 /\ text'[fileStack'[i].file][Gone(i)'].what = "include"
    <3>1. CASE i \in 1..m /\ i # m
      <4>1. fileStack'[i] = fileStack[i] /\ Gone(i)' = Gone(i)
            /\ text'[fileStack[i].file] = text[fileStack[i].file] /\ i < Len(fileStack)
        BY <1>0, <1>3, <1>4, <1>10, <1>11, <1>12, <1>13, <3>1
      <4>2. i \in 1..Len(fileStack)
        BY <1>3, <3>1
      <4>3. QED BY <1>0, <1>1, <1>3, <4>1, <4>2, LevelAt
    <3>2. CASE i = m
      <4> DEFINE r == Loading!Top.rest
                 q == Loading!Advanced.rest
      <4>1. Len(q) = Len(r) - 1 /\ Len(r) \in Nat /\ \A n \in 1..Len(q) : q[n] = r[n + 1]
        BY <1>0, <1>4, <1>8
      <4>2. \A n \in 1..Len(r) : r[n] = text[f][Gone(m) + n]
        <5>1. fileStack[m].file = f /\ fileStack[m].rest = r
          BY <1>0, <1>3, <1>4
        <5>2. m \in 1..Len(fileStack)
          BY <1>3, <1>10
        <5>3. QED BY <1>1, <5>1, <5>2, LevelAt
      <4>3. fileStack'[m].rest = q
        BY <1>0, <1>10
      <4> HIDE DEF r, q
      <4>4. ASSUME NEW n \in 1..Len(q) PROVE q[n] = text[f][c + n]
        <5>1. n \in Nat /\ n + 1 \in 1..Len(r)
          BY <1>0, <4>1
        <5>2. \A x \in Nat : x + (n + 1) = (x + 1) + n
          BY <1>0, <5>1
        <5>3. Gone(m) + (n + 1) = c + n
          BY <1>0, <1>3, <1>4, <5>2
        <5>4. QED BY <1>0, <4>1, <4>2, <5>1, <5>3
      <4>5. text'[f] = text[f]
        BY <1>0, <1>4, <1>11, <1>12
      <4>6. \A n \in 1..Len(fileStack'[m].rest) :
              fileStack'[m].rest[n] = text'[fileStack'[m].file][Gone(m)' + n]
        BY <1>0, <1>10, <1>14, <4>3, <4>4, <4>5
      <4>7. Gone(m)' > 0 /\ text'[fileStack'[m].file][Gone(m)'].what = "include"
        BY <1>0, <1>4, <1>10, <1>14, <4>5
      <4>8. fileStack'[m].file \notin completed /\ Gone(m)' \in Nat
        BY <1>0, <1>4, <1>10, <1>14
      <4>9. QED BY <1>0, <3>2, <4>6, <4>7, <4>8
    <3>3. CASE i = m + 1
      <4>1. ~(m + 1 < m + 1)
        BY <1>0, <1>4
      <4>2. fileStack'[m + 1].file = g /\ fileStack'[m + 1].rest = t /\ text'[g] = t
        BY <1>0, <1>7, <1>9, <1>11
      <4>3. ASSUME NEW n \in 1..Len(t) PROVE 0 + n = n
        OBVIOUS
      <4>4. QED BY <1>0, <1>14, <3>3, <4>1, <4>2, <4>3
    <3>4. QED BY <1>0, <1>10, <3>1, <3>2, <3>3
  <2>4. QED BY <1>0, <1>9, <2>1, <2>2, <2>3 DEF LevelsOK
<1>17. /\ files' \in Seq(File) /\ Len(files') = Len(files) + 1 /\ Len(files) \in Nat
       /\ \A p \in 1..Len(files) : files'[p] = files[p]
       /\ files'[Len(files) + 1] = g
  BY <1>0, <1>1, <1>5, AppendProperties DEF Opened
<1>18. /\ \A p \in 1..Len(files) : p \in 1..Len(files') /\ p # Len(files) + 1
       /\ Len(files) + 1 \in 1..Len(files')
       /\ \A p \in 1..Len(files') : p \in 1..Len(files) \/ p = Len(files) + 1
  BY <1>0, <1>17

<1>19. ASSUME NEW p \in 1..Len(files) PROVE files[p] # g /\ files[p] \in File
  <2>1. ~\E i \in 1..Len(fileStack) : fileStack[i].file = g
    BY <1>0, <1>3, <1>12
  <2>2. files[p] \in File
    BY <1>1
  <2>3. ~\E n \in 1..Len(files) : files[n] = g
    BY <1>0, <1>1, <1>5, <2>1, FilesRead
  <2>4. QED BY <2>2, <2>3
<1>20. \E q \in 1..Len(files) : files[q] = f
  BY <1>0, <1>1, <1>3, <1>4, <1>10, FilesRead
<1>21. FilesOK'
  <2>1. ASSUME NEW x \in File
        PROVE  (\E n \in 1..Len(files') : files'[n] = x)
                 <=> \/ x \in completed
                     \/ \E i \in 1..(m + 1) : fileStack'[i].file = x
    <3>1. (\E n \in 1..Len(files') : files'[n] = x)
            <=> (\E n \in 1..Len(files) : files[n] = x) \/ x = g
      BY <1>0, <1>17, <1>18
    <3>2. (\E i \in 1..(m + 1) : fileStack'[i].file = x)
            <=> (\E i \in 1..m : fileStack[i].file = x) \/ x = g
      <4>1. 1..m \subseteq 1..(m + 1) /\ fileStack'[m + 1].file = g
        BY <1>0, <1>4, <1>7, <1>9
      <4>2. QED BY <1>0, <1>10, <4>1
    <3>3. (\E n \in 1..Len(files) : files[n] = x)
            <=> \/ x \in completed
                \/ \E i \in 1..m : fileStack[i].file = x
      BY <1>0, <1>1, <1>3, FilesRead
    <3>4. QED BY <1>0, <3>1, <3>2, <3>3
  <2>2. ASSUME NEW n \in 1..Len(files'), NEW p \in 1..Len(files'), files'[n] = files'[p]
        PROVE  n = p
    <3>1. CASE n \in 1..Len(files) /\ p \in 1..Len(files)
      BY <1>0, <1>1, <1>17, <2>2, <3>1, FilesRead
    <3>2. CASE n = Len(files) + 1 /\ p \in 1..Len(files)
      BY <1>0, <1>17, <1>19, <2>2, <3>2
    <3>3. CASE p = Len(files) + 1 /\ n \in 1..Len(files)
      BY <1>0, <1>17, <1>19, <2>2, <3>3
    <3>4. QED BY <1>0, <1>18, <3>1, <3>2, <3>3
  <2>3. ASSUME NEW n \in 1..Len(files'), files'[n] # Primary
        PROVE  \E q \in 1..Len(files') : \E p \in 1..Len(text'[files'[q]]) :
                  text'[files'[q]][p] = [what |-> "include", file |-> files'[n]]
    <3>1. CASE n \in 1..Len(files)
      <4>1. files'[n] = files[n] /\ files[n] # Primary
        BY <1>0, <1>17, <2>3, <3>1
      <4>2. PICK q \in 1..Len(files) : \E p \in 1..Len(text[files[q]]) :
               text[files[q]][p] = [what |-> "include", file |-> files[n]]
        BY <1>0, <1>1, <3>1, <4>1 DEF FilesOK
      <4>3. files'[q] = files[q] /\ text'[files[q]] = text[files[q]] /\ q \in 1..Len(files')
        BY <1>0, <1>11, <1>17, <1>18, <1>19, <4>2
      <4>4. QED BY <1>0, <4>1, <4>2, <4>3
    <3>2. CASE n = Len(files) + 1
      <4>1. PICK q \in 1..Len(files) : files[q] = f
        BY <1>0, <1>20
      <4>2. files'[q] = f /\ q \in 1..Len(files') /\ text'[f] = text[f]
        BY <1>0, <1>4, <1>11, <1>12, <1>17, <1>18, <4>1
      <4>3. text'[files'[q]][c] = [what |-> "include", file |-> files'[n]]
        BY <1>0, <1>4, <1>5, <1>17, <3>2, <4>2
      <4>4. c \in 1..Len(text'[files'[q]])
        BY <1>0, <1>4, <4>2
      <4>5. QED BY <1>0, <4>2, <4>3, <4>4
    <3>3. QED BY <1>0, <1>18, <3>1, <3>2
  <2>4. QED BY <1>0, <1>9, <2>1, <2>2, <2>3 DEF FilesOK
<1>22. LinesOK'
  <2>1. \A x \in File, n \in Nat : LineRead(x, n)' => text'[x][n] = text[x][n]
    <3>1. ASSUME NEW n \in Nat PROVE ~LineRead(g, n)
      BY <1>0, <1>3, <1>12 DEF LineRead
    <3>2. QED BY <1>0, <1>5, <1>11, <1>12, <1>15, <3>1
  <2>2. \A p \in 1..Len(files) : \E q \in 1..Len(files') : files'[q] = files[p]
    BY <1>0, <1>17, <1>18
  <2>3. \E q \in 1..Len(files') : files'[q] = Loading!Line1.file
    BY <1>0, <1>17, <1>18
  <2>7. \A i \in 1..m, k \in Loading!Key :
           k \in fileStack[i].seen
               <=> \E n \in 1..Gone(i) : text[fileStack[i].file][n].what = k
    BY <1>1, <1>3, KeysSeen
  <2>4. ASSUME NEW i \in 1..(m + 1), NEW k \in Loading!Key
        PROVE  k \in fileStack'[i].seen
                 <=> \E n \in 1..Gone(i)' : text'[fileStack'[i].file][n].what = k
    <3>1. CASE i \in 1..m /\ i # m
      <4>1. fileStack'[i] = fileStack[i] /\ Gone(i)' = Gone(i)
            /\ text'[fileStack[i].file] = text[fileStack[i].file]
        BY <1>0, <1>10, <1>11, <1>12, <1>13, <3>1
      <4>2. QED BY <2>7, <3>1, <4>1
    <3>2. CASE i = m
      <4>1. k \in Loading!Top.seen <=> \E n \in 1..Gone(m) : text[f][n].what = k
        <5>1. fileStack[m].file = f /\ fileStack[m].seen = Loading!Top.seen
          BY <1>3, <1>4
        <5>2. QED BY <1>10, <2>7, <5>1
      <4>2. \A n \in 1..c : n \in 1..Gone(m) \/ n = c
        BY <1>0, <1>3, <1>4
      <4>3. 1..Gone(m) \subseteq 1..c
        BY <1>0, <1>3, <1>4
      <4>4. text[f][c].what # k
        BY <1>0, <1>4, <1>5, LineKinds
      <4>5. (\E n \in 1..c : text[f][n].what = k)
              <=> \E n \in 1..Gone(m) : text[f][n].what = k
        BY <1>0, <4>2, <4>3, <4>4
      <4>6. text'[f] = text[f]
        BY <1>0, <1>4, <1>11, <1>12
      <4>7. QED BY <1>0, <1>10, <1>14, <3>2, <4>1, <4>5, <4>6
    <3>3. CASE i = m + 1
      <4>1. fileStack'[m + 1].seen = {}
        BY <1>0, <1>7, <1>9
      <4>2. \A n \in 1..0 : FALSE
        OBVIOUS
      <4>3. QED BY <1>0, <1>14, <3>3, <4>1, <4>2
    <3>4. QED BY <1>0, <1>10, <3>1, <3>2, <3>3
  <2>5. \A i \in 1..Len(fileStack'), k \in Loading!Key :
           k \in fileStack'[i].seen
             <=> \E n \in 1..Gone(i)' : text'[fileStack'[i].file][n].what = k
    BY <1>0, <1>9, <2>4
  <2>6. /\ m = Len(fileStack) /\ f = Loading!Top.file /\ c = Gone(m) + 1
        /\ \A x \in File, n \in Nat :
              LineRead(x, n)' <=> LineRead(x, n) \/ (x = f /\ n = c)
    BY <1>3, <1>15, Zenon
  <2>8. cfg' = cfg
    BY <1>0
  <2>9. IncludeTaken(m, f, c)
    BY <2>1, <2>2, <2>3, <2>5, <2>6, Zenon DEF IncludeTaken
  <2>10. QED BY <2>8, <2>9, IncludeSets
<1>23. LoadTypes'
  <2>1. directives' \in 0..MaxDirectives
    BY <1>0, <1>1, SettingsAssumption DEF LoadTypes, Opened
  <2>2. QED BY <1>0, <1>1, <1>9, <1>11, <1>17, <2>1 DEF LoadTypes
<1>24. QED BY <1>0, <1>9, <1>16, <1>21, <1>22, <1>23 DEF LoadInv

(* The primary file is opened. *)
LEMMA LoadKeeps == ASSUME LoadInv, Loading!Load PROVE LoadInv'
<1>1. loadAt = "idle" /\ fileStack = <<>> /\ LoadTypes /\ completed = {} /\ files = <<>>
      /\ cfg = Loading!Default /\ directives = 0
  BY DEF LoadInv, Loading!Load
<1>2. CASE Loading!Refuse
  <2>1. /\ loadAt' = "refused" /\ fileStack' = <<>>
        /\ completed' = completed /\ files' = files /\ cfg' = cfg
        /\ directives' = directives /\ text' = text
    BY <1>2 DEF Loading!Refuse
  <2>2. LoadTypes'
    BY <1>1, <2>1 DEF LoadTypes
  <2>3. QED BY <2>1, <2>2 DEF LoadInv
<1>3. ASSUME Loading!ReadFile(Primary, <<>>), UNCHANGED <<completed, cfg, directives>>
      PROVE  LoadInv'
  <2>1. PICK t \in Loading!Text(Primary) :
           /\ text' = [text EXCEPT ![Primary] = t]
           /\ files' = Append(files, Primary)
           /\ fileStack' = Append(<<>>, [file |-> Primary, rest |-> t, seen |-> {}])
           /\ loadAt' = "line"
    BY <1>3 DEF Loading!ReadFile
  <2>2. t \in Seq(Loading!Line) /\ Primary \in File
    BY TextsAreLines, SettingsAssumption
  <2>3. PICK e : e = [file |-> Primary, rest |-> t, seen |-> {}]
    OBVIOUS
  <2>4. e \in Level /\ e.file = Primary /\ e.rest = t /\ e.seen = {}
    BY <2>2, <2>3 DEF Level
  <2>5. fileStack' = <<e>> /\ files' = <<Primary>>
    <3>1. \A x : Append(<<>>, x) = <<x>>
      OBVIOUS
    <3>2. QED BY <1>1, <2>1, <2>3, <3>1
  <2>6. fileStack' \in Seq(Level) /\ Len(fileStack') = 1 /\ fileStack'[1] = e
        /\ fileStack' # <<>>
    BY <2>4, <2>5
  <2>7. files' \in Seq(File) /\ Len(files') = 1 /\ files'[1] = Primary
    BY <2>2, <2>5
  <2>8. text' \in [File -> Seq(Loading!Line)] /\ text'[Primary] = t
    BY <1>1, <2>1, <2>2 DEF LoadTypes
  <2>9. completed' = {} /\ cfg' = Loading!Default /\ directives' = 0 /\ loadAt' = "line"
    BY <1>1, <1>3, <2>1
  <2>10. Gone(1)' = 0
    <3>1. Gone(1)' = Len(t) - Len(t)
      BY <2>4, <2>6, <2>8 DEF Gone
    <3>2. Len(t) \in Nat
      BY <2>2
    <3>3. QED BY <3>1, <3>2
  <2>11. 1 \in 1..1 /\ \A i \in 1..1 : i = 1
    OBVIOUS
  <2>12. LevelsOK'
    <3>1. ASSUME NEW n \in 1..Len(t) PROVE 0 + n = n
      OBVIOUS
    <3>2. \A i \in 1..1 :
             /\ fileStack'[i].file \notin {}
             /\ Gone(i)' \in Nat
             /\ \A n \in 1..Len(fileStack'[i].rest) :
                   fileStack'[i].rest[n] = text'[fileStack'[i].file][Gone(i)' + n]
             /\ ~(i < 1)
      BY <2>4, <2>6, <2>8, <2>10, <2>11, <3>1
    <3>3. QED BY <2>4, <2>6, <2>9, <2>11, <3>2 DEF LevelsOK
  <2>13. FilesOK'
    <3>1. \A f \in File : (\E n \in 1..1 : files'[n] = f)
             <=> f \in {} \/ \E i \in 1..1 : fileStack'[i].file = f
      BY <2>4, <2>6, <2>7, <2>11
    <3>2. \A n \in 1..1 : files'[n] = Primary
      BY <2>7, <2>11
    <3>3. \A n, p \in 1..1 : n = p
      BY <2>11
    <3>4. QED BY <2>6, <2>7, <2>9, <3>1, <3>2, <3>3 DEF FilesOK
  <2>14. ASSUME NEW x \in File, NEW n \in Nat PROVE ~LineRead(x, n)'
    <3>1. ASSUME LineRead(x, n)' PROVE n \in 1..0
      <4>1. n \in Nat \ {0} /\ \E i \in 1..1 : n <= Gone(i)'
        BY <2>6, <2>9, <3>1 DEF LineRead
      <4>2. QED BY <2>10, <2>11, <4>1
    <3>2. QED BY <3>1
  <2>15. LinesOK'
    <3>1. ASSUME NEW i \in 1..1, NEW k \in Loading!Key
          PROVE  k \in fileStack'[i].seen
                   <=> \E n \in 1..Gone(i)' : text'[fileStack'[i].file][n].what = k
      <4>1. \A n \in 1..0 : FALSE
        OBVIOUS
      <4>2. QED BY <2>4, <2>6, <2>10, <2>11, <4>1
    <3>2. \A k \in Loading!Key : cfg'[k] = Loading!Unset
      BY <2>9 DEF Loading!Default
    <3>3. QED BY <2>2, <2>6, <2>14, <3>1, <3>2 DEF LinesOK
  <2>16. LoadTypes'
    <3>1. cfg' \in [Loading!Key -> File \cup {Loading!Unset}]
          /\ directives' \in 0..MaxDirectives
      BY <1>1, <1>3 DEF LoadTypes
    <3>2. QED BY <2>6, <2>7, <2>8, <2>9, <3>1 DEF LoadTypes
  <2>17. QED BY <2>6, <2>9, <2>12, <2>13, <2>15, <2>16 DEF LoadInv
<1>4. QED BY <1>2, <1>3 DEF Loading!Load

(* A file is parsed to its end. *)
LEMMA CompleteKeeps == ASSUME LoadInv, Loading!Complete PROVE LoadInv'
<1>1. /\ loadAt = "line" /\ LoadTypes /\ LevelsOK /\ FilesOK /\ LinesOK /\ fileStack # <<>>
      /\ fileStack \in Seq(Level)
  BY DEF LoadInv, Loading!Complete, LoadTypes
<1>2. PICK m, f : m = Len(fileStack) /\ f = Loading!Top.file
  OBVIOUS
<1>3. /\ Loading!Top.rest = <<>> /\ completed' = completed \cup {f}
      /\ fileStack' = Loading!Front(fileStack)
      /\ loadAt' = IF Loading!Depth = 0 THEN "validate" ELSE "line"
      /\ files' = files /\ cfg' = cfg /\ directives' = directives /\ text' = text
  BY <1>2 DEF Loading!Complete
<1>4. /\ m \in Nat \ {0} /\ fileStack[m] = Loading!Top /\ Loading!Top \in Level
      /\ Loading!Depth = m - 1 /\ fileStack[m].file = f
  BY <1>1, <1>2, Uppermost
<1>5. /\ fileStack' \in Seq(Level) /\ Len(fileStack') = m - 1
      /\ \A i \in 1..(m - 1) : fileStack'[i] = fileStack[i]
  BY <1>1, <1>2, <1>3, Shortened
<1>6. /\ m \in 1..m /\ m - 1 \in Nat /\ \A i \in 1..m : i \in 1..(m - 1) \/ i = m
      /\ \A i \in 1..(m - 1) : i \in 1..m /\ i # m /\ i < m
  BY <1>4
<1>7. f \in File
  BY <1>4 DEF Level
<1>8. \A i \in 1..(m - 1) : Gone(i)' = Gone(i)
  BY <1>3, <1>5 DEF Gone
<1>9. Gone(m) = Len(text[f]) /\ Len(text[f]) \in Nat
  <2>1. text[f] \in Seq(Loading!Line)
    BY <1>1, <1>7 DEF LoadTypes
  <2>2. Gone(m) = Len(text[f]) - Len(<<>>)
    BY <1>3, <1>4 DEF Gone
  <2>3. Len(text[f]) \in Nat
    BY <2>1
  <2>4. QED BY <2>2, <2>3
<1>10. ASSUME NEW x \in File, NEW n \in Nat PROVE LineRead(x, n)' <=> LineRead(x, n)
  <2>1. LineRead(x, n)' <=> /\ n \in 1..Len(text[x])
                            /\ \/ x \in completed \/ x = f
                               \/ \E i \in 1..(m - 1) : fileStack[i].file = x
                                                        /\ n <= Gone(i)
    BY <1>3, <1>5, <1>8 DEF LineRead
  <2>2. LineRead(x, n) <=> /\ n \in 1..Len(text[x])
                           /\ \/ x \in completed
                              \/ \E i \in 1..m : fileStack[i].file = x /\ n <= Gone(i)
    BY <1>2 DEF LineRead
  <2>3. n \in 1..Len(text[f]) => n <= Gone(m)
    BY <1>9
  <2>4. ASSUME n \in 1..Len(text[x])
        PROVE  (\E i \in 1..m : fileStack[i].file = x /\ n <= Gone(i))
                 <=> \/ x = f
                     \/ \E i \in 1..(m - 1) : fileStack[i].file = x /\ n <= Gone(i)
    BY <1>4, <1>6, <2>3, <2>4
  <2>5. QED BY <2>1, <2>2, <2>4
<1>11. LevelsOK'
  <2>1. fileStack' # <<>> => fileStack'[1].file = Primary
    <3>1. SUFFICES ASSUME fileStack' # <<>> PROVE fileStack'[1].file = Primary
      OBVIOUS
    <3>2. 1 \in 1..(m - 1)
      BY <1>5, <1>6, <3>1
    <3>3. QED BY <1>1, <1>5, <3>2 DEF LevelsOK
  <2>2. \A i, j \in 1..(m - 1) : fileStack'[i].file = fileStack'[j].file => i = j
    <3>1. \A i, j \in 1..m : fileStack[i].file = fileStack[j].file => i = j
      BY <1>1, <1>2, Zenon DEF LevelsOK
    <3>2. ASSUME NEW i \in 1..(m - 1), NEW j \in 1..(m - 1),
                 fileStack'[i].file = fileStack'[j].file
          PROVE  i = j
      <4>1. fileStack'[i] = fileStack[i] /\ fileStack'[j] = fileStack[j]
        BY <1>5, Zenon
      <4>2. i \in 1..m /\ j \in 1..m
        BY <1>6, Zenon
      <4>3. fileStack[i].file = fileStack[j].file
        BY <3>2, <4>1, Zenon
      <4>4. QED BY <3>1, <4>2, <4>3, Zenon
    <3>3. QED BY <3>2, Zenon
  <2>3. ASSUME NEW i \in 1..(m - 1)
        PROVE  /\ fileStack'[i].file \notin completed \cup {f}
               /\ Gone(i)' \in Nat
               /\ \A n \in 1..Len(fileStack'[i].rest) :
                     fileStack'[i].rest[n] = text[fileStack'[i].file][Gone(i)' + n]
               /\ Gone(i)' > 0 /\ text[fileStack'[i].file][Gone(i)'].what = "include"
    <3>1. fileStack'[i] = fileStack[i] /\ Gone(i)' = Gone(i) /\ i \in 1..m /\ i # m /\ i < m
      BY <1>5, <1>6, <1>8
    <3>2. fileStack[i].file # f
      BY <1>1, <1>2, <1>4, <1>6, <3>1 DEF LevelsOK
    <3>3. QED BY <1>1, <1>2, <3>1, <3>2 DEF LevelsOK
  <2>4. QED BY <1>3, <1>5, <2>1, <2>2, <2>3 DEF LevelsOK
<1>12. FilesOK'
  <2>1. ASSUME NEW x \in File
        PROVE  x \in completed \cup {f} \/ (\E i \in 1..(m - 1) : fileStack'[i].file = x)
                 <=> x \in completed \/ \E i \in 1..m : fileStack[i].file = x
    BY <1>4, <1>5, <1>6
  <2>2. Len(fileStack) = m /\ Len(fileStack') = m - 1
    BY <1>2, <1>5
  <2>3. ASSUME NEW x \in File
        PROVE  (\E n \in 1..Len(files) : files[n] = x)
                 <=> x \in completed' \/ \E i \in 1..Len(fileStack') : fileStack'[i].file = x
    <3>1. (\E n \in 1..Len(files) : files[n] = x)
            <=> x \in completed \/ \E i \in 1..m : fileStack[i].file = x
      BY <1>1, <2>2, Zenon DEF FilesOK
    <3>2. QED BY <1>3, <2>1, <2>2, <3>1, Zenon
  <2>4. /\ \A n, k \in 1..Len(files) : files[n] = files[k] => n = k
        /\ \A n \in 1..Len(files) : files[n] # Primary =>
              \E k \in 1..Len(files) : \E p \in 1..Len(text[files[k]]) :
                 text[files[k]][p] = [what |-> "include", file |-> files[n]]
    BY <1>1, Zenon DEF FilesOK
  <2>5. files' = files /\ text' = text
    BY <1>3
  <2>6. ASSUME NEW x \in File
        PROVE  (\E n \in 1..Len(files') : files'[n] = x)
                 <=> x \in completed' \/ \E i \in 1..Len(fileStack') : fileStack'[i].file = x
    BY <2>3, <2>5, Zenon
  <2>7. /\ \A n, k \in 1..Len(files') : files'[n] = files'[k] => n = k
        /\ \A n \in 1..Len(files') : files'[n] # Primary =>
              \E k \in 1..Len(files') : \E p \in 1..Len(text'[files'[k]]) :
                 text'[files'[k]][p] = [what |-> "include", file |-> files'[n]]
    BY <2>4, <2>5, Zenon
  <2>8. QED BY <2>6, <2>7, Zenon DEF FilesOK
<1>13. LinesOK'
  <2>1. \A i \in 1..(m - 1), k \in Loading!Key :
           k \in fileStack'[i].seen
             <=> \E n \in 1..Gone(i)' : text[fileStack'[i].file][n].what = k
    <3>1. \A i \in 1..m, k \in Loading!Key :
             k \in fileStack[i].seen
               <=> \E n \in 1..Gone(i) : text[fileStack[i].file][n].what = k
      BY <1>1, <1>2, KeysSeen
    <3>2. QED BY <1>5, <1>6, <1>8, <3>1
  <2>2. Primary \in File
    BY SettingsAssumption
  <2>3. QED BY <1>1, <1>3, <1>5, <1>10, <2>1, <2>2 DEF LinesOK
<1>14. LoadTypes'
  <2>1. loadAt' \in {"line", "validate"}
    BY <1>3
  <2>2. QED BY <1>1, <1>3, <1>5, <1>7, <2>1 DEF LoadTypes
<1>15. CASE m = 1
  <2>1. loadAt' = "validate" /\ fileStack' = <<>>
    BY <1>3, <1>4, <1>5, <1>15
  <2>2. f = Primary
    BY <1>1, <1>4, <1>15 DEF LevelsOK
  <2>3. QED BY <1>3, <1>11, <1>12, <1>13, <1>14, <2>1, <2>2 DEF LoadInv
<1>16. CASE m # 1
  <2>1. loadAt' = "line" /\ fileStack' # <<>>
    BY <1>3, <1>4, <1>5, <1>16
  <2>2. QED BY <1>11, <1>12, <1>13, <1>14, <2>1 DEF LoadInv
<1>17. QED BY <1>15, <1>16

LEMMA LoadInvNext == LoadInv /\ [Loading!Next]_(Loading!vars) => LoadInv'
<1> SUFFICES ASSUME LoadInv, [Loading!Next]_(Loading!vars) PROVE LoadInv'
  OBVIOUS
<1>1. ASSUME Loading!Refuse PROVE LoadInv'
  <2>1. /\ loadAt' = "refused" /\ fileStack' = <<>>
        /\ completed' = completed /\ files' = files /\ cfg' = cfg
        /\ directives' = directives /\ text' = text
    BY <1>1 DEF Loading!Refuse
  <2>2. LoadTypes'
    BY <2>1 DEF LoadTypes, LoadInv
  <2>3. QED BY <2>1, <2>2 DEF LoadInv
<1>2. ASSUME Loading!ParseInclude PROVE LoadInv'
  <2>1. /\ Loading!HasLine /\ Loading!Line1.what = "include" /\ directives < MaxDirectives
        /\ ~Loading!IsOpen(Loading!Line1.file) /\ directives' = directives + 1
        /\ completed' = completed /\ cfg' = cfg
    BY <1>2 DEF Loading!ParseInclude
  <2>2. Append(Loading!Front(fileStack), Loading!Advanced) = Advance(Loading!Top.seen)
    <3>1. /\ Loading!Advanced \in Level /\ Loading!Advanced.seen = Loading!Top.seen
      BY <2>1, Uppermost DEF LoadInv, Loading!HasLine
    <3>2. \A a \in Level : [a EXCEPT !.seen = a.seen] = a
      BY DEF Level
    <3>3. QED BY <3>1, <3>2 DEF Advance
  <2>3. CASE /\ Loading!Line1.file \in completed
             /\ fileStack' = Append(Loading!Front(fileStack), Loading!Advanced)
             /\ UNCHANGED <<loadAt, files, text>>
    BY <2>1, <2>2, <2>3, SkipKeeps
  <2>4. CASE /\ Loading!Line1.file \notin completed
             /\ Loading!ReadFile(Loading!Line1.file,
                                 Append(Loading!Front(fileStack), Loading!Advanced))
    <3>1. PICK t \in Loading!Text(Loading!Line1.file) :
             /\ text' = [text EXCEPT ![Loading!Line1.file] = t]
             /\ files' = Append(files, Loading!Line1.file)
             /\ fileStack' = Append(Append(Loading!Front(fileStack), Loading!Advanced),
                                    [file |-> Loading!Line1.file, rest |-> t, seen |-> {}])
             /\ loadAt' = "line"
      BY <2>4 DEF Loading!ReadFile
    <3>2. Opened(Loading!Line1.file, t)
      BY <2>1, <2>2, <2>4, <3>1 DEF Opened
    <3>3. QED BY <2>1, <3>2, OpenKeeps
  <2>5. QED BY <1>2, <2>3, <2>4 DEF Loading!ParseInclude
<1>3. ASSUME Loading!Validate PROVE LoadInv'
  <2>1. CASE Loading!Related /\ loadAt' = "accepted"
             /\ UNCHANGED <<fileStack, completed, files, cfg, directives, text>>
    <3>1. /\ loadAt = "validate" /\ fileStack = <<>> /\ LoadTypes
          /\ Primary \in completed /\ LevelsOK /\ FilesOK /\ LinesOK
      BY <1>3 DEF Loading!Validate, LoadInv
    <3>2. /\ loadAt' = "accepted" /\ fileStack' = fileStack /\ completed' = completed
          /\ files' = files /\ cfg' = cfg /\ directives' = directives /\ text' = text
      BY <2>1
    <3>3. LoadTypes'
      BY <3>1, <3>2 DEF LoadTypes
    <3>4. LevelsOK' /\ FilesOK' /\ LinesOK' /\ Loading!Related'
      BY <2>1, <3>1, <3>2, SameFiles
    <3>5. QED BY <3>1, <3>2, <3>3, <3>4 DEF LoadInv
  <2>2. QED BY <1>1, <1>3, <2>1 DEF Loading!Validate
<1>4. ASSUME Loading!Again PROVE LoadInv'
  <2>1. (Loading!Init)'
    BY <1>4 DEF Loading!Again, Loading!Init
  <2>2. (Loading!Init => LoadInv)'
    BY LoadInvInit, PTL
  <2>3. QED BY <2>1, <2>2
<1>5. ASSUME UNCHANGED Loading!vars PROVE LoadInv'
  <2>1. /\ loadAt' = loadAt /\ fileStack' = fileStack /\ completed' = completed
        /\ files' = files /\ cfg' = cfg /\ directives' = directives /\ text' = text
    BY <1>5 DEF Loading!vars
  <2>2. LoadTypes' <=> LoadTypes
    BY <2>1 DEF LoadTypes
  <2>3. QED BY <2>1, <2>2, SameFiles DEF LoadInv
<1>6. ASSUME Loading!RefuseLine \/ Loading!BadLine \/ Loading!OutOfRange PROVE LoadInv'
  BY <1>1, <1>6 DEF Loading!RefuseLine, Loading!BadLine, Loading!OutOfRange
<1>7. QED
  BY <1>2, <1>3, <1>4, <1>5, <1>6, LoadKeeps, CompleteKeeps, ApplyKeeps DEF Loading!Next

(* So what is accepted is what was written. *)
LEMMA AcceptedAsWritten ==
    ASSUME LoadInv, loadAt = "accepted"
    PROVE  /\ Loading!IsInjective(files)
           /\ \A f \in File \ {Primary} :
                 f \in Loading!ToSet(files)
                   <=> \E g \in Loading!ToSet(files) : Loading!IncludedBy(f, g)
           /\ \A f \in Loading!ToSet(files), k \in Loading!Key : ~Loading!Twice(f, k)
           /\ \A k \in Loading!Key :
                 /\ cfg[k] = Loading!Unset
                      <=> \A f \in Loading!ToSet(files) : ~Loading!Sets(f, k)
                 /\ Loading!SetsLast(Primary, k) => cfg[k] = Primary
           /\ Loading!Related
<1>1. /\ LoadTypes /\ LevelsOK /\ FilesOK /\ LinesOK /\ fileStack = <<>>
      /\ Primary \in completed /\ Loading!Related
      /\ files \in Seq(File) /\ text \in [File -> Seq(Loading!Line)]
  BY DEF LoadInv, LoadTypes
<1>2. DOMAIN files = 1..Len(files) /\ Len(files) \in Nat
  BY <1>1
<1>3. ASSUME NEW f \in File
      PROVE  DOMAIN text[f] = 1..Len(text[f]) /\ Len(text[f]) \in Nat
             /\ \A n \in DOMAIN text[f] : n \in Nat /\ text[f][n] \in Loading!Line
  <2>1. text[f] \in Seq(Loading!Line)
    BY <1>1
  <2>2. QED BY <2>1
<1>4. Len(fileStack) = 0 /\ \A i \in 1..0 : FALSE
  BY <1>1
<1>5. ASSUME NEW f
      PROVE  f \in Loading!ToSet(files) <=> \E n \in 1..Len(files) : files[n] = f
  BY <1>2 DEF Loading!ToSet
<1>6. ASSUME NEW f \in File PROVE f \in Loading!ToSet(files) <=> f \in completed
  BY <1>1, <1>4, <1>5, FilesRead
<1>7. Loading!ToSet(files) \subseteq File
  BY <1>1, <1>5
<1>8. ASSUME NEW f \in File, NEW n \in Nat
      PROVE  LineRead(f, n) <=> f \in Loading!ToSet(files) /\ n \in DOMAIN text[f]
  BY <1>3, <1>4, <1>6 DEF LineRead
<1>9. Loading!IsInjective(files)
  BY <1>1, <1>2 DEF Loading!IsInjective, FilesOK
<1>10. ASSUME NEW f \in File \ {Primary}
       PROVE  f \in Loading!ToSet(files)
                <=> \E g \in Loading!ToSet(files) : Loading!IncludedBy(f, g)
  <2>1. ASSUME f \in Loading!ToSet(files)
        PROVE  \E g \in Loading!ToSet(files) : Loading!IncludedBy(f, g)
    <3>1. PICK n \in 1..Len(files) : files[n] = f
      BY <1>5, <2>1
    <3>2. PICK q \in 1..Len(files) : \E p \in 1..Len(text[files[q]]) :
             text[files[q]][p] = [what |-> "include", file |-> f]
      <4>1. \A m \in 1..Len(files) : files[m] # Primary =>
              \E q \in 1..Len(files) : \E p \in 1..Len(text[files[q]]) :
                 text[files[q]][p] = [what |-> "include", file |-> files[m]]
        BY <1>1, Zenon DEF FilesOK
      <4>2. f # Primary
        OBVIOUS
      <4>3. \E q \in 1..Len(files) : \E p \in 1..Len(text[files[q]]) :
               text[files[q]][p] = [what |-> "include", file |-> files[n]]
        BY <3>1, <4>1, <4>2, Zenon
      <4>4. QED BY <3>1, <4>3, Zenon
    <3>3. files[q] \in Loading!ToSet(files) /\ files[q] \in File
      BY <1>1, <1>5
    <3>4. PICK p \in DOMAIN text[files[q]] :
             text[files[q]][p] = [what |-> "include", file |-> f]
      BY <1>3, <3>2, <3>3
    <3>5. Loading!IncludedBy(f, files[q])
      BY <3>4 DEF Loading!IncludedBy, Loading!ToSet
    <3>6. QED BY <3>3, <3>5
  <2>2. ASSUME NEW g \in Loading!ToSet(files), Loading!IncludedBy(f, g)
        PROVE  f \in Loading!ToSet(files)
    <3>1. PICK n \in DOMAIN text[g] : text[g][n] = [what |-> "include", file |-> f]
      BY <2>2 DEF Loading!IncludedBy, Loading!ToSet
    <3>2. g \in File /\ n \in Nat /\ LineRead(g, n)
      BY <1>3, <1>7, <1>8, <3>1
    <3>3. text[g][n].what = "include" /\ text[g][n].file = f
      BY <3>1
    <3>4. \E m \in 1..Len(files) : files[m] = text[g][n].file
      BY <1>1, <3>2, <3>3, IncludeListed
    <3>5. QED BY <1>5, <3>3, <3>4
  <2>3. QED BY <2>1, <2>2
<1>11. ASSUME NEW f \in Loading!ToSet(files), NEW k \in Loading!Key, Loading!Twice(f, k)
       PROVE  FALSE
  <2>1. PICK i \in DOMAIN text[f], j \in DOMAIN text[f] :
           i # j /\ {text[f][i].what, text[f][j].what} = {k}
    BY <1>11 DEF Loading!Twice
  <2>2. text[f][i].what = k /\ text[f][j].what = k
    BY <2>1
  <2>3. f \in File /\ i \in Nat /\ j \in Nat /\ LineRead(f, i) /\ LineRead(f, j)
    BY <1>3, <1>7, <1>8, <2>1
  <2>4. QED BY <1>1, <2>1, <2>2, <2>3 DEF LinesOK
<1>12. ASSUME NEW k \in Loading!Key
       PROVE  cfg[k] = Loading!Unset
                <=> \A f \in Loading!ToSet(files) : ~Loading!Sets(f, k)
  <2>1. (\A f \in File, n \in Nat : LineRead(f, n) => text[f][n].what # k)
          <=> \A f \in Loading!ToSet(files) : ~Loading!Sets(f, k)
    BY <1>3, <1>7, <1>8 DEF Loading!Sets
  <2>2. QED BY <1>1, <2>1 DEF LinesOK
<1>13. ASSUME NEW k \in Loading!Key, Loading!SetsLast(Primary, k) PROVE cfg[k] = Primary
  <2>1. PICK i \in DOMAIN text[Primary] :
           /\ text[Primary][i].what = k
           /\ \A j \in i + 1..Len(text[Primary]) : text[Primary][j].what # "include"
    BY <1>13 DEF Loading!SetsLast
  <2>2. Primary \in File /\ Primary \in Loading!ToSet(files)
    BY <1>1, <1>6, SettingsAssumption
  <2>3. i \in Nat /\ LineRead(Primary, i)
    BY <1>3, <1>8, <2>1, <2>2
  <2>4. ASSUME NEW p \in Nat, LineRead(Primary, p), p > i
        PROVE  text[Primary][p].what # "include"
    <3>1. p \in 1..Len(text[Primary]) /\ Len(text[Primary]) \in Nat
      BY <1>3, <1>8, <2>2, <2>4
    <3>2. p \in i + 1..Len(text[Primary])
      BY <2>3, <2>4, <3>1
    <3>3. QED BY <2>1, <3>2
  <2>5. QED BY <1>1, <2>1, <2>3, <2>4 DEF LinesOK
<1>14. QED BY <1>1, <1>9, <1>10, <1>11, <1>12, <1>13

(* What is made of the settings is what was written in them, for any files,   *)
(* any lines in them, any depth of the includes and any number of directives: *)
(* every file that is included is reported once, a key is taken once in a     *)
(* file, and the including file is right about what it sets below its         *)
(* includes (parse_lines, parse_file, validate); a quoted word is that word   *)
(* (tokenize). *)
THEOREM LoadsAsWritten == Loading!Spec => []Loading!LoadedAsWritten
<1>1. LoadInv => Loading!LoadedAsWritten
  BY AcceptedAsWritten, QuotedWords DEF Loading!LoadedAsWritten
<1>2. QED
  BY <1>1, LoadInvInit, LoadInvNext, PTL DEF Loading!Spec

(* The types of SettingsFile: what is parsed is a file of the settings, and   *)
(* there are no more includes than there may be (parse_file). *)
THEOREM LoadTypesKept == Loading!Spec => []Loading!TypeOK
<1>1. LoadInv => Loading!TypeOK
  <2> SUFFICES ASSUME LoadTypes PROVE Loading!TypeOK
    BY Zenon DEF LoadInv
  <2>1. ASSUME NEW i \in DOMAIN fileStack
        PROVE  fileStack[i].file \in File /\ fileStack[i].seen \subseteq Loading!Key
    <3>1. fileStack \in Seq(Level)
      BY DEF LoadTypes
    <3>2. DOMAIN fileStack = 1..Len(fileStack)
      BY <3>1, LenProperties
    <3>3. fileStack[i] \in Level
      BY <3>1, <3>2, ElementOfSeq
    <3>4. QED BY <3>3 DEF Level
  <2>2. /\ loadAt \in {"idle", "line", "validate", "accepted", "refused"}
        /\ completed \subseteq File /\ files \in Seq(File)
        /\ cfg \in [Loading!Key -> File \cup {Loading!Unset}]
        /\ directives \in 0..MaxDirectives
    BY Zenon DEF LoadTypes
  <2>3. QED BY <2>1, <2>2, Zenon DEF Loading!TypeOK
<1>2. QED
  BY LoadInvInit, LoadInvNext, <1>1, PTL DEF Loading!Spec

----------------------------------------------------------------------------
(* The parts together.                                                        *)

(* A file is whole, and what it is to keep is in it, wherever the program     *)
(* ends: the log and its backups, and the configuration of a first start.     *)
THEOREM KeepsWhole == Logging!Spec /\ Starting!Spec => []KeptWhole
BY LogsWhole, StartsWhole, PTL DEF KeptWhole
=============================================================================
