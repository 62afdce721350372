--------------------------- MODULE ReadingsProofs ----------------------------
(* Proofs about the parts of MCDecisions that take what other programs write, *)
(* and what the run has of all its parts together: each is for every value of *)
(* the constants that the assumptions admit.                                  *)
EXTENDS DecisionsProofs, FilesProofs

----------------------------------------------------------------------------
(* The shared memory. While it is written HWiNFO owns the mutex; so whoever   *)
(* owns it reads a whole poll, unless HWiNFO ended with it. And the age of a  *)
(* sample exceeds the time since it was taken by no more than the limit that  *)
(* it passed then.                                                            *)

Readings == [fields : SUBSET Field, age : Nat, torn : BOOLEAN, left : BOOLEAN]
Memory == [first : Shared!Label, second : Shared!Label, torn : BOOLEAN,
           understood : BOOLEAN]

MemoryTypes ==
    /\ writer \in {"off", "idle", "updating"} /\ third \in BOOLEAN /\ halved \in BOOLEAN
    /\ pollAge \in Nat /\ success \in Nat
    /\ kept \in Readings /\ sample \in Readings
    /\ memory # NoMemory => memory \in Memory

Owned ==
    /\ writer = "updating" => mutex = "hwinfo" /\ memory \in Memory
    /\ sampleAt = "copy" => mutex = "reader"

(* What is in pieces is being written, or was left so. *)
Pieces ==
    /\ (memory # NoMemory /\ memory.torn) => (writer = "updating" \/ halved)
    /\ sample.torn => sample.left
    /\ kept.torn => kept.left

Aged ==
    /\ sample # Shared!Nothing => sample.age <= StaleAfter
    /\ sampleAt = "idle" => sample = Shared!Nothing
    /\ success <= StaleAfter => kept.age <= success + StaleAfter

MemoryInv == MemoryTypes /\ Owned /\ Pieces /\ Aged

LEMMA NothingRead ==
    /\ Shared!Nothing \in Readings /\ ~Shared!Nothing.torn
    /\ Shared!None \in Nat /\ Shared!Old \in Nat /\ Shared!None > StaleAfter
    /\ \A n \in Nat : /\ Shared!Older(n) \in Nat
                      /\ Shared!Older(n) <= StaleAfter => Shared!Older(n) = n + 1
                      /\ Shared!Older(n) <= n + 1
BY MemoryAssumption
DEF Shared!Nothing, Readings, Shared!None, Shared!Old, Shared!Older

LEMMA MemoryInvInit == Shared!Init => MemoryInv
<1> SUFFICES ASSUME Shared!Init PROVE MemoryInv
  OBVIOUS
<1>1. /\ writer = "off" /\ third = FALSE /\ memory = NoMemory /\ halved = FALSE
      /\ pollAge = Shared!Old /\ sampleAt = "idle" /\ sample = Shared!Nothing
      /\ kept = Shared!Nothing /\ success = Shared!None
  BY DEF Shared!Init
<1>2. MemoryTypes /\ Owned /\ Pieces
  BY <1>1, NothingRead DEF MemoryTypes, Owned, Pieces
<1>3. ~(success <= StaleAfter)
  BY <1>1, NothingRead, MemoryAssumption
<1>4. Aged
  BY <1>1, <1>3 DEF Aged
<1>5. QED BY <1>2, <1>4 DEF MemoryInv

LEMMA MemoryInvNext ==
    ASSUME MemoryInv, [Shared!Next]_(Shared!vars)
    PROVE  MemoryInv'
<1> USE DEF Shared!reader
<1>1. CASE Shared!HwinfoStarts
  <2>1. /\ writer = "off" /\ writer' = "idle"
        /\ mutex # "none" => mutex' = mutex
        /\ sampleAt' = sampleAt
        /\ UNCHANGED <<third, memory, pollAge, halved, sample, kept, success>>
    BY <1>1 DEF Shared!HwinfoStarts
  <2>2. MemoryTypes' /\ Aged'
    BY <2>1 DEF MemoryInv, MemoryTypes, Aged
  <2>3. Owned' /\ Pieces'
    BY <2>1 DEF MemoryInv, Owned, Pieces
  <2>4. QED BY <2>2, <2>3 DEF MemoryInv
<1>2. CASE Shared!BeginUpdate
  <2>1. PICK f \in Shared!Label, ok \in BOOLEAN :
            memory' = [first |-> f,
                       second |-> IF memory = NoMemory THEN f ELSE memory.second,
                       torn |-> TRUE, understood |-> ok]
    BY <1>2 DEF Shared!BeginUpdate
  <2>2. /\ mutex # "reader" /\ mutex' = "hwinfo" /\ writer' = "updating"
        /\ pollAge' = 0 /\ UNCHANGED <<third, sampleAt, sample, kept, success>>
        /\ halved' = FALSE
    BY <1>2 DEF Shared!BeginUpdate
  <2>3. memory' \in Memory
    BY <2>1 DEF MemoryInv, MemoryTypes, Memory
  <2>4. MemoryTypes' /\ Aged'
    BY <2>2, <2>3 DEF MemoryInv, MemoryTypes, Aged
  <2>5. Owned' /\ Pieces'
    BY <2>2, <2>3 DEF MemoryInv, Owned, Pieces
  <2>6. QED BY <2>4, <2>5 DEF MemoryInv
<1>3. CASE Shared!EndUpdate
  <2>1. PICK f \in Shared!Label : memory' = [memory EXCEPT !.second = f, !.torn = FALSE]
    BY <1>3, Zenon DEF Shared!EndUpdate
  <2>2. /\ writer = "updating" /\ writer' = "idle" /\ mutex' = "free"
        /\ UNCHANGED <<third, pollAge, halved, sampleAt, sample, kept, success>>
    BY <1>3 DEF Shared!EndUpdate
  <2>3. memory \in Memory /\ mutex = "hwinfo"
    BY <2>2 DEF MemoryInv, Owned
  <2>4. memory' \in Memory /\ ~memory'.torn
    BY <2>1, <2>3 DEF Memory
  <2>5. MemoryTypes' /\ Aged'
    BY <2>2, <2>4 DEF MemoryInv, MemoryTypes, Aged
  <2>6. Owned' /\ Pieces'
    BY <2>2, <2>3, <2>4 DEF MemoryInv, Owned, Pieces
  <2>7. QED BY <2>5, <2>6 DEF MemoryInv
<1>4. CASE Shared!HwinfoEnds
  <2>1. /\ writer' = "off"
        /\ memory' = IF third THEN memory ELSE NoMemory
        /\ mutex = "reader" => mutex' = mutex
        /\ UNCHANGED <<third, pollAge, sampleAt, sample, kept, success>>
    BY <1>4 DEF Shared!HwinfoEnds
  <2>2. halved' \in BOOLEAN /\ (halved' <=> (third /\ (writer = "updating" \/ halved)))
    BY <1>4 DEF Shared!HwinfoEnds, MemoryInv, MemoryTypes
  <2>3. MemoryTypes' /\ Aged'
    BY <2>1, <2>2 DEF MemoryInv, MemoryTypes, Aged
  <2>4. Owned' /\ Pieces'
    BY <2>1, <2>2 DEF MemoryInv, MemoryTypes, Owned, Pieces
  <2>5. QED BY <2>3, <2>4 DEF MemoryInv
<1>5. CASE Shared!ThirdProgram
  <2>1. /\ third' = ~third
        /\ memory' = IF writer = "off" THEN NoMemory ELSE memory
        /\ (writer # "off" \/ sampleAt # "idle") => mutex' = mutex
        /\ UNCHANGED <<writer, pollAge, halved, sampleAt, sample, kept, success>>
    BY <1>5 DEF Shared!ThirdProgram
  <2>2. third' \in BOOLEAN
    BY <2>1
  <2>3. MemoryTypes' /\ Aged'
    BY <2>1, <2>2 DEF MemoryInv, MemoryTypes, Aged
  <2>4. Owned' /\ Pieces'
    BY <2>1 DEF MemoryInv, Owned, Pieces
  <2>5. QED BY <2>3, <2>4 DEF MemoryInv
<1>6. CASE Shared!OpenMutex \/ Shared!WaitTimesOut
  <2>1. /\ sampleAt' \in {"wait", "apply"} /\ sample' \in {sample, Shared!Nothing}
        /\ UNCHANGED <<writer, third, mutex, memory, pollAge, halved, kept, success>>
    BY <1>6 DEF Shared!OpenMutex, Shared!WaitTimesOut, Shared!world
  <2>2. MemoryTypes' /\ Aged' /\ Owned' /\ Pieces'
    BY <2>1, NothingRead DEF MemoryInv, MemoryTypes, Aged, Owned, Pieces
  <2>3. QED BY <2>2 DEF MemoryInv
<1>7. CASE Shared!TakeMutex
  <2>1. /\ mutex # "hwinfo" /\ sampleAt' = "copy" /\ mutex' = "reader"
        /\ UNCHANGED <<writer, third, memory, pollAge, halved, sample, kept, success>>
    BY <1>7 DEF Shared!TakeMutex
  <2>2. MemoryTypes' /\ Aged' /\ Owned' /\ Pieces'
    BY <2>1 DEF MemoryInv, MemoryTypes, Aged, Owned, Pieces
  <2>3. QED BY <2>2 DEF MemoryInv
<1>8. CASE Shared!CopyMapping
  <2>1. /\ sampleAt = "copy" /\ sampleAt' = "apply" /\ mutex = "reader"
        /\ sample' = IF Shared!Refused THEN Shared!Nothing ELSE Shared!Sample
        /\ UNCHANGED <<writer, third, memory, pollAge, halved, kept, success>>
    BY <1>8 DEF Shared!CopyMapping, MemoryInv, Owned
  <2>2. writer # "updating"
    BY <2>1 DEF MemoryInv, Owned
  <2>3. sample' \in Readings /\ (sample'.torn => sample'.left)
        /\ (sample' # Shared!Nothing => sample'.age <= StaleAfter)
    <3>1. CASE Shared!Refused
      BY <2>1, <3>1, NothingRead
    <3>2. CASE ~Shared!Refused
      <4>1. memory \in Memory /\ memory # NoMemory /\ pollAge <= StaleAfter
        BY <3>2, MemoryAssumption DEF Shared!Refused, MemoryInv, MemoryTypes
      <4>2. memory.torn => halved
        BY <2>2, <4>1 DEF MemoryInv, Pieces
      <4>3. /\ sample'.fields \subseteq Field /\ sample'.age = pollAge
            /\ sample'.torn = memory.torn /\ sample'.left = halved
            /\ sample' = [fields |-> Shared!Selected, age |-> pollAge,
                          torn |-> memory.torn, left |-> halved]
        BY <2>1, <3>2 DEF Shared!Sample, Shared!Selected
      <4>4. sample' \in Readings
        BY <4>1, <4>3 DEF Readings, Memory, MemoryInv, MemoryTypes
      <4>5. QED BY <4>1, <4>2, <4>3, <4>4
    <3>3. QED BY <3>1, <3>2
  <2>4. MemoryTypes' /\ Aged' /\ Owned' /\ Pieces'
    BY <2>1, <2>2, <2>3 DEF MemoryInv, MemoryTypes, Aged, Owned, Pieces
  <2>5. QED BY <2>4 DEF MemoryInv
<1>9. CASE Shared!ApplyHwinfo
  <2>1. /\ sampleAt = "apply" /\ sampleAt' = "idle" /\ sample' = Shared!Nothing
        /\ UNCHANGED <<writer, third, mutex, memory, pollAge, halved>>
    BY <1>9 DEF Shared!ApplyHwinfo, Shared!world
  <2>2. \/ UNCHANGED <<kept, success>>
        \/ sample # Shared!Nothing /\ kept' = sample /\ success' = 0
    BY <1>9 DEF Shared!ApplyHwinfo
  <2>3. MemoryTypes' /\ Owned' /\ Pieces'
    BY <2>1, <2>2, NothingRead DEF MemoryInv, MemoryTypes, Owned, Pieces
  <2>4. Aged'
    BY <2>1, <2>2, MemoryAssumption DEF MemoryInv, MemoryTypes, Aged
  <2>5. QED BY <2>3, <2>4 DEF MemoryInv
<1>10. CASE Shared!ResetState
  <2>1. /\ kept' = Shared!Nothing /\ success' = Shared!None
        /\ UNCHANGED <<writer, third, mutex, memory, pollAge, halved, sampleAt, sample>>
    BY <1>10 DEF Shared!ResetState, Shared!world
  <2>2. MemoryTypes' /\ Owned' /\ Pieces'
    BY <2>1, NothingRead DEF MemoryInv, MemoryTypes, Owned, Pieces
  <2>3. Aged'
    BY <2>1, NothingRead, MemoryAssumption DEF MemoryInv, Aged
  <2>4. QED BY <2>2, <2>3 DEF MemoryInv
<1>11. CASE Shared!Tick
  <2>1. /\ pollAge' = Shared!Older(pollAge) /\ success' = Shared!Older(success)
        /\ kept' = [kept EXCEPT !.age = Shared!Older(kept.age)]
        /\ UNCHANGED <<writer, third, mutex, memory, halved, sampleAt, sample>>
    BY <1>11 DEF Shared!Tick
  <2>2. kept \in Readings /\ kept.age \in Nat /\ success \in Nat /\ pollAge \in Nat
    BY DEF MemoryInv, MemoryTypes, Readings
  <2>3. /\ kept' \in Readings /\ kept'.age = Shared!Older(kept.age)
        /\ kept'.torn = kept.torn /\ kept'.left = kept.left
    BY <2>1, <2>2, NothingRead DEF Readings
  <2>4. MemoryTypes' /\ Owned' /\ Pieces'
    BY <2>1, <2>2, <2>3, NothingRead DEF MemoryInv, MemoryTypes, Owned, Pieces
  <2>5. success' <= StaleAfter => kept'.age <= success' + StaleAfter
    BY <2>1, <2>2, <2>3, NothingRead, MemoryAssumption DEF MemoryInv, Aged
  <2>6. Aged'
    BY <2>1, <2>5 DEF MemoryInv, Aged
  <2>7. QED BY <2>4, <2>6 DEF MemoryInv
<1>12. CASE UNCHANGED Shared!vars
  BY <1>12 DEF Shared!vars, Shared!world, MemoryInv, MemoryTypes, Owned, Pieces, Aged
<1>13. QED
  BY <1>1, <1>2, <1>3, <1>4, <1>5, <1>6, <1>7, <1>8, <1>9, <1>10, <1>11, <1>12
  DEF Shared!Next

(* What is shown as current of HWiNFO is no older than twice the limit, and   *)
(* is of one poll unless HWiNFO ended within an update, whenever it starts    *)
(* and ends and whoever keeps its memory open (copy_mapping, apply_hwinfo). *)
THEOREM SamplesWhole == Shared!Spec => []Shared!WholeReadings
<1>1. MemoryInv => Shared!WholeReadings
  BY MemoryAssumption
  DEF MemoryInv, MemoryTypes, Pieces, Aged, Readings, Shared!WholeReadings, Shared!Current
<1>2. QED
  BY MemoryInvInit, MemoryInvNext, <1>1, PTL DEF Shared!Spec

MemoryBounds ==
    /\ mutex \in {"none", "free", "hwinfo", "reader", "abandoned"}
    /\ sampleAt \in {"idle", "wait", "copy", "apply"}
    /\ pollAge <= Shared!Old /\ success <= Shared!None
    /\ kept.age <= Shared!None

LEMMA MemoryTyped ==
    ASSUME MemoryInv, MemoryBounds
    PROVE  Shared!TypeOK
<1>1. {third, halved} \subseteq BOOLEAN
  BY Zenon DEF MemoryInv, MemoryTypes
<1>2. pollAge \in 0..Shared!Old /\ success \in 0..Shared!None /\ kept.age \in 0..Shared!None
  BY NothingRead DEF MemoryInv, MemoryTypes, MemoryBounds, Readings
<1>3. kept.fields \subseteq Field /\ writer \in {"off", "idle", "updating"}
  BY DEF MemoryInv, MemoryTypes, Readings
<1>4. QED BY <1>1, <1>2, <1>3, Zenon DEF MemoryBounds, Shared!TypeOK

(* An age is counted up to the one that stands for all. *)
LEMMA AgesBounded ==
    /\ Shared!Nothing.age = Shared!None /\ Shared!Old <= Shared!None /\ StaleAfter <= Shared!None
    /\ \A n \in Nat : n <= Shared!None => Shared!Older(n) <= Shared!None
    /\ \A n \in Nat : n <= Shared!Old => Shared!Older(n) <= Shared!Old
BY MemoryAssumption DEF Shared!Nothing, Shared!None, Shared!Old, Shared!Older

LEMMA MemoryBoundsInit == Shared!Init => MemoryBounds
<1>1. Shared!Old <= Shared!Old /\ Shared!None <= Shared!None
  BY NothingRead
<1>2. QED BY <1>1, AgesBounded DEF Shared!Init, MemoryBounds

LEMMA MemoryBoundsNext ==
    ASSUME MemoryInv, MemoryBounds, [Shared!Next]_(Shared!vars)
    PROVE  MemoryBounds'
<1> USE DEF MemoryBounds, Shared!reader, Shared!world
<1>1. CASE Shared!HwinfoStarts \/ Shared!EndUpdate
           \/ Shared!HwinfoEnds \/ Shared!ThirdProgram \/ Shared!OpenMutex
           \/ Shared!TakeMutex \/ Shared!WaitTimesOut \/ Shared!CopyMapping
           \/ UNCHANGED Shared!vars
  <2>1. UNCHANGED <<pollAge, success, kept>>
    BY <1>1, Zenon DEF Shared!HwinfoStarts, Shared!EndUpdate, Shared!HwinfoEnds,
      Shared!ThirdProgram, Shared!OpenMutex, Shared!TakeMutex, Shared!WaitTimesOut,
      Shared!CopyMapping, Shared!vars
  <2>2. mutex' \in {mutex, "none", "free", "abandoned", "reader"}
    BY <1>1, Zenon DEF Shared!HwinfoStarts, Shared!EndUpdate, Shared!HwinfoEnds,
      Shared!ThirdProgram, Shared!OpenMutex, Shared!TakeMutex, Shared!WaitTimesOut,
      Shared!CopyMapping, Shared!vars
  <2>3. sampleAt' \in {sampleAt, "apply", "wait", "copy"}
    BY <1>1, Zenon DEF Shared!HwinfoStarts, Shared!EndUpdate, Shared!HwinfoEnds,
      Shared!ThirdProgram, Shared!OpenMutex, Shared!TakeMutex, Shared!WaitTimesOut,
      Shared!CopyMapping, Shared!vars
  <2>4. QED BY <2>1, <2>2, <2>3
<1>2. CASE Shared!BeginUpdate
  <2>1. pollAge' = 0 /\ mutex' = "hwinfo" /\ UNCHANGED <<sampleAt, success, kept>>
    BY <1>2 DEF Shared!BeginUpdate
  <2>2. QED BY <2>1, NothingRead
<1>3. CASE Shared!ApplyHwinfo
  <2>1. /\ sampleAt' = "idle" /\ UNCHANGED <<mutex, pollAge>>
        /\ \/ UNCHANGED <<kept, success>>
           \/ sample # Shared!Nothing /\ kept' = sample /\ success' = 0
    BY <1>3 DEF Shared!ApplyHwinfo
  <2>2. sample # Shared!Nothing => sample.age <= Shared!None
    BY NothingRead, MemoryAssumption DEF MemoryInv, Aged, MemoryTypes, Readings
  <2>3. 0 <= Shared!None
    BY NothingRead
  <2>4. QED BY <2>1, <2>2, <2>3
<1>4. CASE Shared!ResetState
  <2>1. Shared!None <= Shared!None
    BY NothingRead
  <2>2. QED BY <1>4, <2>1, AgesBounded DEF Shared!ResetState
<1>5. CASE Shared!Tick
  <2>1. /\ pollAge' = Shared!Older(pollAge) /\ success' = Shared!Older(success)
        /\ kept' = [kept EXCEPT !.age = Shared!Older(kept.age)]
        /\ UNCHANGED <<mutex, sampleAt>>
    BY <1>5 DEF Shared!Tick
  <2>2. kept.age \in Nat /\ kept'.age = Shared!Older(kept.age)
        /\ pollAge \in Nat /\ success \in Nat
    BY <2>1 DEF MemoryInv, MemoryTypes, Readings
  <2>3. QED BY <2>1, <2>2, AgesBounded
<1>6. QED BY <1>1, <1>2, <1>3, <1>4, <1>5, Zenon DEF Shared!Next

(* The types of SharedMemory: an age is counted no further than matters       *)
(* (apply_freshness). *)
THEOREM MemoryTypesKept == Shared!Spec => []Shared!TypeOK
BY MemoryInvInit, MemoryInvNext, MemoryBoundsInit, MemoryBoundsNext, MemoryTyped, PTL
   DEF Shared!Spec

----------------------------------------------------------------------------
(* The lines of PresentMon. They are numbered as they are written, and pass   *)
(* from the pipe through the queue to those that are counted in this order.   *)
(* What is finished after one that is counted or queued is so itself, or is   *)
(* in the pipe, as long as nothing is known to be lost.                       *)

Piece == [n : Nat, kind : Lines!Kind, end : BOOLEAN]
QueuedLine == [n : Nat, kind : Lines!Kind]
Queued == {lines[i].n : i \in DOMAIN lines}
QueuedFrames == {lines[i].n : i \in {k \in DOMAIN lines : lines[k].kind = "frame"}}
Passed == counted \cup countedSent \cup Queued

LineTypes ==
    /\ writing \in [n : Nat, kind : Lines!Kind, pieces : Nat]
    /\ lineBegun \in [n : Nat, kind : Lines!Kind, pieces : Nat]
    /\ lines \in Seq(QueuedLine)
    /\ pipe = <<>> \/ (Head(pipe) \in Piece /\ pipe = <<Head(pipe)>>)
    /\ linesOfFrames \subseteq Nat /\ counted \subseteq Nat /\ countedSent \subseteq Nat

(* What is written comes after what has passed, and so does what is read.     *)
InTurn ==
    /\ writing.n > 0 =>
          /\ \A j \in linesOfFrames : j < writing.n
          /\ \A m \in Passed : m < writing.n
          /\ pipe # <<>> => IF Head(pipe).end THEN Head(pipe).n < writing.n
                            ELSE Head(pipe).n = writing.n
    /\ pipe # <<>> =>
          /\ \A j \in linesOfFrames :
                j < Head(pipe).n \/ (j = Head(pipe).n /\ Head(pipe).end)
          /\ \A m \in Passed : m < Head(pipe).n
    /\ (reader = "reads" /\ lineBegun # Lines!NoLine /\ ~overflow) =>
          /\ pipe = <<>> => \A j \in linesOfFrames : j < lineBegun.n
          /\ \A m \in Passed : m < lineBegun.n

Ascending ==
    /\ \A i, k \in DOMAIN lines : i < k => lines[i].n < lines[k].n
    /\ \A c \in counted, m \in Queued : c < m

NoGap ==
    ~dropped =>
        \A m \in counted \cup Queued, j \in linesOfFrames :
            j > m => \/ j \in counted \cup QueuedFrames
                     \/ pipe # <<>> /\ Head(pipe).n = j /\ Head(pipe).kind = "frame"

LineInv ==
    /\ LineTypes /\ InTurn /\ Ascending /\ NoGap
    /\ ~header => counted = {}
    /\ Lines!WholeReadings

LEMMA NoLines ==
    /\ <<>> \in Seq(QueuedLine) /\ DOMAIN <<>> = {} /\ Len(<<>>) = 0
    /\ \A x \in Nat : /\ Lines!NewLine(x) \in [n : Nat, kind : Lines!Kind, pieces : Nat]
                      /\ Lines!NewLine(x).n = x
BY EmptySeq DEF Lines!NewLine, Lines!Kind

(* A new capture, and the first. *)
LEMMA LineInvBegins ==
    ASSUME writing = Lines!NewLine(1), linesOfFrames = {}, pipe = <<>>,
           lineBegun = Lines!NoLine, lines = <<>>,
           counted = {}, countedSent = {}
    PROVE  LineInv
<1>1. Queued = {} /\ QueuedFrames = {} /\ Passed = {}
  BY NoLines DEF Queued, QueuedFrames, Passed
<1>2. lineBegun \in [n : Nat, kind : Lines!Kind, pieces : Nat]
  BY NoLines DEF Lines!NoLine
<1>3. LineTypes
  BY <1>2, NoLines DEF LineTypes
<1>4. InTurn /\ Ascending /\ NoGap /\ Lines!WholeReadings
  BY <1>1, NoLines DEF InTurn, Ascending, NoGap, Lines!WholeReadings
<1>5. QED BY <1>3, <1>4 DEF LineInv

LEMMA LineInvBegun ==
    ASSUME writing' = Lines!NewLine(1), linesOfFrames' = {}, pipe' = <<>>,
           lineBegun' = Lines!NoLine, lines' = <<>>,
           counted' = {}, countedSent' = {}
    PROVE  LineInv'
<1>1. Queued' = {} /\ QueuedFrames' = {} /\ Passed' = {}
  BY NoLines DEF Queued, QueuedFrames, Passed
<1>2. lineBegun' \in [n : Nat, kind : Lines!Kind, pieces : Nat]
  BY NoLines DEF Lines!NoLine
<1>3. LineTypes'
  BY <1>2, NoLines DEF LineTypes
<1>4. InTurn' /\ Ascending' /\ NoGap' /\ Lines!WholeReadings'
  BY <1>1, NoLines DEF InTurn, Ascending, NoGap, Lines!WholeReadings
<1>5. QED BY <1>3, <1>4 DEF LineInv

LEMMA Numbers ==
    ASSUME LineTypes
    PROVE  /\ Len(lines) \in Nat /\ DOMAIN lines = 1..Len(lines)
           /\ \A i \in DOMAIN lines :
                 /\ lines[i] \in QueuedLine
                 /\ lines[i].n \in Nat /\ lines[i].kind \in Lines!Kind
           /\ Passed \subseteq Nat /\ Queued \subseteq Nat
           /\ linesOfFrames \subseteq Nat
<1>1. Len(lines) \in Nat /\ DOMAIN lines = 1..Len(lines)
  BY LenProperties DEF LineTypes
<1>2. \A i \in DOMAIN lines : lines[i] \in QueuedLine
  BY <1>1, ElementOfSeq DEF LineTypes
<1>3. \A i \in DOMAIN lines : lines[i].n \in Nat /\ lines[i].kind \in Lines!Kind
  BY <1>2 DEF QueuedLine
<1>4. Queued \subseteq Nat
  BY <1>3 DEF Queued
<1>5. QED BY <1>1, <1>2, <1>3, <1>4 DEF LineTypes, Passed

(* PresentMon writes. *)
LEMMA LineInvWritten ==
    ASSUME LineInv, Lines!WritePiece
    PROVE  LineInv'
<1>1. PICK k \in Lines!Kind, end \in BOOLEAN :
          /\ pipe' = <<[n |-> writing.n, kind |-> k, end |-> end]>>
          /\ writing' = IF end THEN Lines!NewLine(writing.n + 1)
                        ELSE [writing EXCEPT !.kind = k, !.pieces = @ + 1]
          /\ linesOfFrames' = IF end /\ k = "frame" THEN linesOfFrames \cup {writing.n}
                              ELSE linesOfFrames
  <2>1. writing.kind \in Lines!Kind
    BY DEF LineInv, LineTypes
  <2>2. QED BY <2>1, Zenon DEF Lines!WritePiece
<1>2. /\ pipe = <<>> /\ writing.n > 0 /\ writing.n \in Nat
      /\ UNCHANGED <<reader, lineBegun, overflow, lines, dropped, header, counted,
                     countedSent>>
  BY DEF Lines!WritePiece, Lines!thread, Lines!capture, LineInv, LineTypes
<1>3. UNCHANGED <<Queued, QueuedFrames, Passed>>
  BY <1>2 DEF Queued, QueuedFrames, Passed
<1> DEFINE p == [n |-> writing.n, kind |-> k, end |-> end]
<1>4. /\ p \in Piece /\ p.n = writing.n /\ p.kind = k /\ p.end = end
      /\ Head(pipe') = p /\ pipe' = <<p>> /\ pipe' # <<>>
  BY <1>1, <1>2 DEF Piece
<1> HIDE DEF p
<1>5. /\ writing' \in [n : Nat, kind : Lines!Kind, pieces : Nat]
      /\ writing'.n = IF end THEN writing.n + 1 ELSE writing.n
  <2>1. CASE end
    BY <1>1, <1>2, <2>1, NoLines
  <2>2. CASE ~end
    <3>1. writing' = [writing EXCEPT !.kind = k, !.pieces = writing.pieces + 1]
      BY <1>1, <2>2
    <3>2. writing \in [n : Nat, kind : Lines!Kind, pieces : Nat]
      BY DEF LineInv, LineTypes
    <3>3. k \in Lines!Kind
      BY <1>1
    <3>4. writing.n \in Nat /\ writing.pieces + 1 \in Nat
      BY <3>2
    <3>5. writing' = [n |-> writing.n, kind |-> k, pieces |-> writing.pieces + 1]
      BY <3>1, <3>2
    <3>6. QED BY <2>2, <3>3, <3>4, <3>5
  <2>3. QED BY <2>1, <2>2
<1>6. /\ \A j \in linesOfFrames : j < writing.n
      /\ \A m \in Passed : m < writing.n
  BY <1>2 DEF LineInv, InTurn
<1>7. LineTypes'
  <2>1. linesOfFrames' \subseteq Nat
    BY <1>1, <1>2 DEF LineInv, LineTypes
  <2>2. QED BY <1>2, <1>4, <1>5, <2>1 DEF LineInv, LineTypes
<1>8. InTurn'
  <2>1. \A j \in linesOfFrames' :
            j < writing.n \/ (j = writing.n /\ end /\ k = "frame")
    BY <1>1, <1>6
  <2>2. linesOfFrames \subseteq Nat /\ Passed \subseteq Nat
    BY Numbers DEF LineInv
  <2>3. /\ \A j \in linesOfFrames' : j < writing'.n
        /\ \A m \in Passed' : m < writing'.n
    <3>1. linesOfFrames' \subseteq Nat
      BY <1>7 DEF LineTypes
    <3>2. \A m \in Passed : m < writing.n
      BY <1>6
    <3>3. CASE end
      BY <1>2, <1>3, <1>5, <2>1, <2>2, <3>1, <3>2, <3>3
    <3>4. CASE ~end
      BY <1>3, <1>5, <2>1, <3>2, <3>4
    <3>5. QED BY <3>3, <3>4
  <2>4. IF p.end THEN p.n < writing'.n ELSE p.n = writing'.n
    BY <1>2, <1>4, <1>5
  <2>5. (reader' = "reads" /\ lineBegun' # Lines!NoLine /\ ~overflow') =>
            \A m \in Passed' : m < lineBegun'.n
    BY <1>2, <1>3 DEF LineInv, InTurn
  <2>6. QED BY <1>3, <1>4, <1>6, <2>1, <2>3, <2>4, <2>5 DEF InTurn
<1>9. Ascending'
  BY <1>2, <1>3 DEF LineInv, Ascending
<1>10. NoGap'
  <2>1. SUFFICES ASSUME ~dropped, NEW m \in counted \cup Queued, NEW j \in linesOfFrames',
                        j > m
                 PROVE  \/ j \in counted \cup QueuedFrames
                        \/ p.n = j /\ p.kind = "frame"
    BY <1>2, <1>3, <1>4 DEF NoGap
  <2>2. CASE j \in linesOfFrames
    BY <1>2, <2>1, <2>2 DEF LineInv, NoGap
  <2>3. CASE j \notin linesOfFrames
    BY <1>1, <1>4, <2>1, <2>3
  <2>4. QED BY <2>2, <2>3
<1>11. Lines!WholeReadings'
  <2>1. SUFFICES ASSUME NEW m \in countedSent, NEW l \in countedSent,
                        NEW j \in linesOfFrames', m <= j, j <= l
                 PROVE  j \in countedSent
    BY <1>2 DEF Lines!WholeReadings
  <2>2. l < writing.n /\ l \in Nat
    BY <1>6 DEF Passed, LineInv, LineTypes
  <2>3. j # writing.n
    BY <1>2, <2>1, <2>2
  <2>4. j \in linesOfFrames
    BY <1>1, <2>3
  <2>5. QED BY <2>1, <2>4 DEF LineInv, Lines!WholeReadings
<1>12. QED BY <1>2, <1>7, <1>8, <1>9, <1>10, <1>11 DEF LineInv

(* PresentMon ends, or nothing moves but the worker. *)
LEMMA LineInvStill ==
    ASSUME LineInv, writing' \in {writing, Lines!NoLine},
           UNCHANGED <<linesOfFrames, pipe, lineBegun, lines, counted>>,
           overflow' = overflow, reader' \in {reader, "gone"},
           dropped' = dropped \/ dropped' = TRUE,
           countedSent' \subseteq countedSent \cup counted, Lines!WholeReadings',
           header => header'
    PROVE  LineInv'
<1>1. UNCHANGED <<Queued, QueuedFrames>> /\ Passed' \subseteq Passed
  BY DEF Queued, QueuedFrames, Passed
<1>2. LineTypes'
  BY NoLines DEF LineInv, LineTypes, Lines!NoLine
<1>3. writing' = writing \/ writing'.n = 0
  BY NoLines DEF Lines!NoLine
<1>4. InTurn'
  BY <1>1, <1>3 DEF LineInv, InTurn
<1>5. Ascending' /\ NoGap'
  BY <1>1 DEF LineInv, Ascending, NoGap
<1>6. QED BY <1>2, <1>4, <1>5 DEF LineInv

(* A line comes after all that are queued, or is lost and said to be. *)
LEMMA LineSent ==
    ASSUME LineInv, NEW l \in QueuedLine, \A m \in Passed : m < l.n,
           UNCHANGED <<counted, countedSent>>,
           \/ lines' = Append(lines, l) /\ dropped' = dropped
           \/ lines' = lines /\ dropped' = TRUE
    PROVE  /\ lines' \in Seq(QueuedLine) /\ Ascending'
           /\ Passed' \subseteq Passed \cup {l.n} /\ Queued' \subseteq Queued \cup {l.n}
           /\ ~dropped' => /\ ~dropped
                           /\ QueuedFrames \subseteq QueuedFrames'
                           /\ l.kind = "frame" => l.n \in QueuedFrames'
<1>1. /\ lines \in Seq(QueuedLine) /\ Len(lines) \in Nat /\ DOMAIN lines = 1..Len(lines)
      /\ Ascending /\ Queued \subseteq Nat /\ l.n \in Nat
  BY Numbers DEF LineInv, LineTypes, QueuedLine
<1>2. CASE lines' = lines /\ dropped' = TRUE
  BY <1>1, <1>2 DEF Ascending, Passed, Queued
<1>3. CASE lines' = Append(lines, l) /\ dropped' = dropped
  <2>1. /\ lines' \in Seq(QueuedLine) /\ Len(lines') = Len(lines) + 1
        /\ \A i \in 1..Len(lines) : lines'[i] = lines[i]
        /\ lines'[Len(lines) + 1] = l
    BY <1>1, <1>3, AppendProperties
  <2>2. DOMAIN lines' = 1..(Len(lines) + 1)
    BY <2>1, LenProperties
  <2>3. \A i \in DOMAIN lines' : (i \in DOMAIN lines /\ lines'[i] = lines[i])
                                 \/ (i = Len(lines) + 1 /\ lines'[i] = l)
    BY <1>1, <2>1, <2>2
  <2>4. Queued' \subseteq Queued \cup {l.n}
    BY <2>3 DEF Queued
  <2>5. Passed' \subseteq Passed \cup {l.n}
    BY <2>4 DEF Passed
  <2>6. \A i \in DOMAIN lines : i \in DOMAIN lines' /\ lines'[i] = lines[i]
    BY <1>1, <2>1, <2>2
  <2>7. QueuedFrames \subseteq QueuedFrames'
    BY <2>6 DEF QueuedFrames
  <2>8. l.kind = "frame" => l.n \in QueuedFrames'
    <3>1. Len(lines) + 1 \in DOMAIN lines' /\ lines'[Len(lines) + 1] = l
      BY <1>1, <2>1, <2>2
    <3>2. QED BY <3>1 DEF QueuedFrames
  <2>9. Ascending'
    <3>1. \A c \in counted, m \in Queued' : c < m
      BY <1>1, <2>4 DEF Ascending, Passed
    <3>2. ASSUME NEW i \in DOMAIN lines', NEW k \in DOMAIN lines', i < k
          PROVE  lines'[i].n < lines'[k].n
      <4>1. i \in DOMAIN lines /\ lines'[i] = lines[i]
        BY <1>1, <2>2, <2>3, <3>2
      <4>2. lines[i].n \in Passed
        BY <4>1 DEF Passed, Queued
      <4>3. CASE k = Len(lines) + 1
        BY <2>1, <4>1, <4>2, <4>3
      <4>4. CASE k \in DOMAIN lines /\ lines'[k] = lines[k]
        BY <1>1, <3>2, <4>1, <4>4 DEF Ascending
      <4>5. QED BY <2>3, <4>3, <4>4
    <3>3. QED BY <3>1, <3>2 DEF Ascending
  <2>10. QED BY <1>3, <2>1, <2>4, <2>5, <2>7, <2>8, <2>9
<1>4. QED BY <1>2, <1>3

(* The thread reads. *)
LEMMA LineInvRead ==
    ASSUME LineInv, Lines!ReadOutput
    PROVE  LineInv'
<1> DEFINE p == Head(pipe)
           fits == ~overflow /\ lineBegun.pieces < MaxLine
           longer == [n |-> p.n, kind |-> p.kind, pieces |-> lineBegun.pieces + 1]
           l == [n |-> p.n, kind |-> p.kind]
<1>1. /\ reader = "reads" /\ pipe # <<>> /\ pipe' = <<>>
      /\ UNCHANGED <<writing, linesOfFrames, reader, header, counted, countedSent>>
      /\ lineBegun' = IF p.end THEN Lines!NoLine ELSE IF fits THEN longer ELSE lineBegun
      /\ overflow' = (~fits /\ ~p.end)
  BY DEF Lines!ReadOutput, Lines!Read, Lines!capture
<1>2. \/ /\ p.end
         /\ \/ lines' = Append(lines, l) /\ dropped' = dropped
            \/ lines' = lines /\ dropped' = TRUE
      \/ ~p.end /\ lines' = lines /\ (dropped' = dropped \/ dropped' = TRUE)
  BY DEF Lines!ReadOutput, Lines!Read, Lines!SendLine, LineInv, LineTypes, Piece
<1>3. /\ p \in Piece /\ p.n \in Nat /\ p.end \in BOOLEAN /\ l \in QueuedLine
      /\ l.n = p.n /\ l.kind = p.kind
  <2>1. p \in Piece
    BY <1>1 DEF LineInv, LineTypes
  <2>2. QED BY <2>1 DEF Piece, QueuedLine
<1>4. /\ \A j \in linesOfFrames : j < p.n \/ (j = p.n /\ p.end)
      /\ \A m \in Passed : m < p.n
  BY <1>1 DEF LineInv, InTurn
<1>5. lineBegun' \in [n : Nat, kind : Lines!Kind, pieces : Nat]
  <2>1. longer \in [n : Nat, kind : Lines!Kind, pieces : Nat]
    BY <1>3 DEF LineInv, LineTypes, Piece
  <2>2. Lines!NoLine \in [n : Nat, kind : Lines!Kind, pieces : Nat]
    BY NoLines DEF Lines!NoLine
  <2>3. lineBegun \in [n : Nat, kind : Lines!Kind, pieces : Nat]
    BY DEF LineInv, LineTypes
  <2> HIDE DEF longer
  <2>4. QED BY <1>1, <2>1, <2>2, <2>3
<1>6. (lineBegun' # Lines!NoLine /\ ~overflow') => (~p.end /\ lineBegun'.n = p.n)
  <2>1. longer.n = p.n
    OBVIOUS
  <2> HIDE DEF longer
  <2>2. QED BY <1>1, <2>1
<1> HIDE DEF p, fits, longer, l
<1>7. Lines!WholeReadings' /\ (~header' => counted' = {})
  BY <1>1 DEF LineInv, Lines!WholeReadings
<1>8. CASE ~p.end /\ lines' = lines
  <2>1. UNCHANGED <<Queued, QueuedFrames, Passed>>
    BY <1>1, <1>8 DEF Queued, QueuedFrames, Passed
  <2>2. LineTypes'
    BY <1>1, <1>5, <1>8 DEF LineInv, LineTypes
  <2>3. InTurn'
    BY <1>1, <1>4, <1>6, <1>8, <2>1 DEF LineInv, InTurn
  <2>4. Ascending'
    BY <1>1, <1>8, <2>1 DEF LineInv, Ascending
  <2>5. \A j \in linesOfFrames : j # p.n
    BY <1>3, <1>4, <1>8, Numbers DEF LineInv
  <2>6. NoGap'
    BY <1>1, <1>2, <1>8, <2>1, <2>5 DEF LineInv, NoGap, p
  <2>7. QED BY <1>7, <2>2, <2>3, <2>4, <2>6 DEF LineInv
<1>9. CASE /\ p.end
           /\ \/ lines' = Append(lines, l) /\ dropped' = dropped
              \/ lines' = lines /\ dropped' = TRUE
  <2>1. /\ lines' \in Seq(QueuedLine) /\ Ascending'
        /\ Passed' \subseteq Passed \cup {p.n} /\ Queued' \subseteq Queued \cup {p.n}
        /\ ~dropped' => /\ ~dropped
                        /\ QueuedFrames \subseteq QueuedFrames'
                        /\ p.kind = "frame" => p.n \in QueuedFrames'
    BY <1>1, <1>3, <1>4, <1>9, LineSent
  <2>2. LineTypes'
    BY <1>1, <1>5, <2>1 DEF LineInv, LineTypes
  <2>3. InTurn'
    <3>1. writing.n > 0 => \A m \in Passed' : m < writing.n
      BY <1>1, <1>9, <2>1 DEF LineInv, InTurn, p
    <3>2. lineBegun' = Lines!NoLine
      BY <1>1, <1>9
    <3>3. QED BY <1>1, <3>1, <3>2 DEF LineInv, InTurn
  <2>4. NoGap'
    <3>1. SUFFICES ASSUME ~dropped', NEW m \in counted \cup Queued',
                          NEW j \in linesOfFrames, j > m
                   PROVE  j \in counted \cup QueuedFrames'
      BY <1>1 DEF NoGap
    <3>2. m \in counted \cup Queued
      <4>1. j \in Nat /\ (j < p.n \/ j = p.n)
        BY <1>4, Numbers DEF LineInv
      <4>2. m # p.n
        BY <1>3, <3>1, <4>1
      <4>3. QED BY <2>1, <3>1, <4>2
    <3>3. \/ j \in counted \cup QueuedFrames
          \/ p.n = j /\ p.kind = "frame"
      BY <2>1, <3>1, <3>2 DEF LineInv, NoGap, p
    <3>4. QED BY <2>1, <3>1, <3>3
  <2>5. QED BY <1>7, <2>1, <2>2, <2>3, <2>4 DEF LineInv
<1>10. QED BY <1>2, <1>8, <1>9

(* The rest of a line is a line that PresentMon did not finish. *)
LEMMA LineInvReadEnd ==
    ASSUME LineInv, Lines!ReadEnd
    PROVE  LineInv'
<1>1. /\ reader = "reads" /\ pipe = <<>> /\ writing = Lines!NoLine /\ reader' = "gone"
      /\ UNCHANGED <<writing, linesOfFrames, pipe, lineBegun, overflow, header, counted,
                     countedSent>>
  BY DEF Lines!ReadEnd, Lines!source, Lines!capture
<1>2. Lines!WholeReadings'
  BY <1>1 DEF LineInv, Lines!WholeReadings
<1>3. CASE UNCHANGED <<lines, dropped>>
  BY <1>1, <1>2, <1>3, LineInvStill
<1>4. ASSUME lineBegun # Lines!NoLine, ~overflow, NEW k \in {lineBegun.kind, "bad"},
             Lines!SendLine([n |-> lineBegun.n, kind |-> k])
      PROVE  LineInv'
  <2> DEFINE l == [n |-> lineBegun.n, kind |-> k]
  <2>1. l \in QueuedLine /\ l.n = lineBegun.n /\ l.n \in Nat
    BY DEF LineInv, LineTypes, QueuedLine, Lines!Kind
  <2>2. /\ \A j \in linesOfFrames : j < l.n
        /\ \A m \in Passed : m < l.n
    BY <1>1, <1>4, <2>1 DEF LineInv, InTurn
  <2>3. \/ lines' = Append(lines, l) /\ dropped' = dropped
        \/ lines' = lines /\ dropped' = TRUE
    BY <1>4 DEF Lines!SendLine
  <2> HIDE DEF l
  <2>4. /\ lines' \in Seq(QueuedLine) /\ Ascending'
        /\ Queued' \subseteq Queued \cup {l.n}
        /\ ~dropped' => ~dropped /\ QueuedFrames \subseteq QueuedFrames'
    BY <1>1, <2>1, <2>2, <2>3, LineSent, Zenon
  <2>5. writing.n = 0
    BY <1>1, NoLines DEF Lines!NoLine
  <2>6. LineTypes'
    BY <1>1, <2>4 DEF LineInv, LineTypes
  <2>7. InTurn'
    BY <1>1, <2>5 DEF InTurn
  <2>8. NoGap'
    <3>1. SUFFICES ASSUME ~dropped', NEW m \in counted \cup Queued',
                          NEW j \in linesOfFrames, j > m
                   PROVE  j \in counted \cup QueuedFrames'
      BY <1>1 DEF NoGap
    <3>2. m \in counted \cup Queued
      <4>1. j \in Nat /\ j < l.n
        BY <2>2, Numbers DEF LineInv
      <4>2. m # l.n
        BY <2>1, <3>1, <4>1
      <4>3. QED BY <2>4, <3>1, <4>2
    <3>3. j \in counted \cup QueuedFrames
      BY <1>1, <2>4, <3>1, <3>2 DEF LineInv, NoGap
    <3>4. QED BY <2>4, <3>1, <3>3
  <2>9. QED BY <1>1, <1>2, <2>4, <2>6, <2>7, <2>8 DEF LineInv
<1>5. QED BY <1>3, <1>4 DEF Lines!ReadEnd

(* The worker. What is taken from the queue is its first line. *)
LEMMA Shorter ==
    ASSUME LineInv, lines # <<>>, lines' = Tail(lines)
    PROVE  /\ lines' \in Seq(QueuedLine)
           /\ Head(lines) \in QueuedLine /\ Head(lines).n \in Queued
           /\ Queued = Queued' \cup {Head(lines).n}
           /\ \A m \in Queued' : Head(lines).n < m
           /\ \A i, k \in DOMAIN lines' : i < k => lines'[i].n < lines'[k].n
           /\ QueuedFrames \subseteq QueuedFrames' \cup {Head(lines).n}
           /\ Head(lines).kind # "frame" => QueuedFrames \subseteq QueuedFrames'
<1>1. /\ lines \in Seq(QueuedLine) /\ Len(lines) \in Nat /\ DOMAIN lines = 1..Len(lines)
      /\ \A i, k \in DOMAIN lines : i < k => lines[i].n < lines[k].n
  BY Numbers DEF LineInv, LineTypes, Ascending
<1>2. /\ Len(lines) > 0 /\ Head(lines) = lines[1] /\ 1 \in DOMAIN lines
      /\ Head(lines) \in QueuedLine
      /\ lines' \in Seq(QueuedLine) /\ Len(lines') = Len(lines) - 1
      /\ \A i \in 1..Len(lines') : lines'[i] = lines[i + 1]
  BY <1>1, HeadTailProperties, EmptySeq
<1>3. DOMAIN lines' = 1..(Len(lines) - 1)
  BY <1>1, <1>2, LenProperties
<1>4. \A i \in DOMAIN lines' :
          i + 1 \in DOMAIN lines /\ lines'[i] = lines[i + 1] /\ 1 < i + 1
  BY <1>1, <1>2, <1>3
<1>5. \A i \in DOMAIN lines :
          i = 1 \/ (i - 1 \in DOMAIN lines' /\ lines'[i - 1] = lines[i])
  <2>1. SUFFICES ASSUME NEW i \in DOMAIN lines, i # 1
                 PROVE  i - 1 \in DOMAIN lines' /\ lines'[i - 1] = lines[i]
    OBVIOUS
  <2>2. i - 1 \in 1..Len(lines') /\ (i - 1) + 1 = i
    BY <1>1, <1>2, <2>1
  <2>3. QED BY <1>2, <1>3, <2>2
<1>6. Queued = Queued' \cup {Head(lines).n}
  <2>1. Queued' \cup {Head(lines).n} \subseteq Queued
    BY <1>2, <1>4 DEF Queued
  <2>2. Queued \subseteq Queued' \cup {Head(lines).n}
    BY <1>2, <1>5 DEF Queued
  <2>3. QED BY <2>1, <2>2
<1>7. \A m \in Queued' : Head(lines).n < m
  BY <1>1, <1>2, <1>4 DEF Queued
<1>8. ASSUME NEW i \in DOMAIN lines', NEW k \in DOMAIN lines', i < k
      PROVE  lines'[i].n < lines'[k].n
  <2>1. i + 1 < k + 1
    BY <1>3, <1>8
  <2>2. QED BY <1>1, <1>4, <2>1
<1>9. /\ QueuedFrames \subseteq QueuedFrames' \cup {Head(lines).n}
      /\ Head(lines).kind # "frame" => QueuedFrames \subseteq QueuedFrames'
  <2>1. ASSUME NEW j \in QueuedFrames
        PROVE  j \in QueuedFrames' \/ (j = Head(lines).n /\ Head(lines).kind = "frame")
    <3>1. PICK i \in DOMAIN lines : lines[i].kind = "frame" /\ j = lines[i].n
      BY DEF QueuedFrames
    <3>2. CASE i = 1
      BY <1>2, <3>1, <3>2
    <3>3. CASE i - 1 \in DOMAIN lines' /\ lines'[i - 1] = lines[i]
      BY <3>1, <3>3 DEF QueuedFrames
    <3>4. QED BY <1>5, <3>2, <3>3
  <2>2. QED BY <2>1
<1>10. QED BY <1>2, <1>6, <1>7, <1>8, <1>9

LEMMA LineInvSkip ==
    ASSUME LineInv, Lines!Skip
    PROVE  LineInv'
<1>1. /\ lines # <<>> /\ lines' = Tail(lines)
      /\ header' = (header \/ Head(lines).kind = "header")
      /\ UNCHANGED <<writing, linesOfFrames, pipe, reader, lineBegun, overflow, dropped,
                     counted, countedSent>>
      /\ Head(lines).kind # "frame" \/ ~header
  BY DEF Lines!Skip, Lines!TakeLine, Lines!source, Lines!thread
<1>2. /\ lines' \in Seq(QueuedLine) /\ Queued = Queued' \cup {Head(lines).n}
      /\ \A i, k \in DOMAIN lines' : i < k => lines'[i].n < lines'[k].n
      /\ \A m \in Queued' : Head(lines).n < m
      /\ QueuedFrames \subseteq QueuedFrames' \cup {Head(lines).n}
      /\ Head(lines).kind # "frame" => QueuedFrames \subseteq QueuedFrames'
      /\ Head(lines).n \in Nat
  BY <1>1, Shorter DEF QueuedLine
<1>3. Passed' \subseteq Passed
  BY <1>1, <1>2 DEF Passed
<1>4. LineTypes' /\ InTurn'
  BY <1>1, <1>2, <1>3 DEF LineInv, LineTypes, InTurn
<1>5. Ascending'
  BY <1>1, <1>2 DEF LineInv, Ascending
<1>6. NoGap'
  <2>1. SUFFICES ASSUME ~dropped, NEW m \in counted \cup Queued',
                        NEW j \in linesOfFrames, j > m
                 PROVE  \/ j \in counted \cup QueuedFrames'
                        \/ pipe # <<>> /\ Head(pipe).n = j /\ Head(pipe).kind = "frame"
    BY <1>1 DEF NoGap
  <2>2. \/ j \in counted \cup QueuedFrames
        \/ pipe # <<>> /\ Head(pipe).n = j /\ Head(pipe).kind = "frame"
    BY <1>2, <2>1 DEF LineInv, NoGap
  <2>3. CASE Head(lines).kind # "frame"
    BY <1>2, <2>2, <2>3
  <2>4. CASE ~header
    <3>1. m \in Queued' /\ m \in Queued
      BY <1>2, <2>1, <2>4 DEF LineInv
    <3>2. Head(lines).n < m
      BY <1>2, <3>1
    <3>3. m \in Nat /\ j \in Nat
      BY <3>1, Numbers DEF LineInv
    <3>4. j # Head(lines).n
      BY <1>2, <2>1, <3>2, <3>3
    <3>5. QED BY <1>2, <2>2, <3>4
  <2>5. QED BY <1>1, <2>3, <2>4
<1>7. /\ Lines!WholeReadings' /\ (~header' => counted' = {})
  BY <1>1 DEF LineInv, Lines!WholeReadings
<1>8. QED BY <1>4, <1>5, <1>6, <1>7 DEF LineInv

LEMMA LineInvCount ==
    ASSUME LineInv, Lines!Count
    PROVE  LineInv'
<1>1. /\ header /\ lines # <<>> /\ Head(lines).kind = "frame" /\ lines' = Tail(lines)
      /\ UNCHANGED <<writing, linesOfFrames, pipe, reader, lineBegun, overflow, dropped,
                     header, countedSent>>
  BY DEF Lines!Count, Lines!TakeLine, Lines!source, Lines!thread
<1>2. PICK x \in 1..LastLine + 1 : counted' = {m \in counted : m >= x} \cup {Head(lines).n}
  BY DEF Lines!Count, Lines!Remaining
<1> DEFINE h == Head(lines).n
<1>3. /\ lines' \in Seq(QueuedLine) /\ Queued = Queued' \cup {h} /\ h \in Queued
      /\ \A i, k \in DOMAIN lines' : i < k => lines'[i].n < lines'[k].n
      /\ \A m \in Queued' : h < m
      /\ QueuedFrames \subseteq QueuedFrames' \cup {h}
      /\ h \in Nat
  BY <1>1, Shorter DEF QueuedLine
<1> HIDE DEF h
<1>4. counted' = {m \in counted : m >= x} \cup {h}
  BY <1>2 DEF h
<1>5. counted \subseteq Nat /\ linesOfFrames \subseteq Nat /\ Queued \subseteq Nat
  BY Numbers DEF LineInv, LineTypes
<1>6. Passed' \subseteq Passed
  BY <1>1, <1>3, <1>4 DEF Passed
<1>7. LineTypes' /\ InTurn'
  <2>1. counted' \subseteq Nat
    BY <1>3, <1>4, <1>5
  <2>2. QED BY <1>1, <1>3, <1>6, <2>1 DEF LineInv, LineTypes, InTurn
<1>8. Ascending'
  BY <1>1, <1>3, <1>4 DEF LineInv, Ascending
<1>9. NoGap'
  <2>1. SUFFICES ASSUME ~dropped, NEW m \in counted' \cup Queued', NEW j \in linesOfFrames,
                        j > m
                 PROVE  \/ j \in counted' \cup QueuedFrames'
                        \/ pipe # <<>> /\ Head(pipe).n = j /\ Head(pipe).kind = "frame"
    BY <1>1 DEF NoGap
  <2>2. m \in counted \cup Queued
    BY <1>3, <1>4, <2>1
  <2>3. \/ j \in counted \cup QueuedFrames
        \/ pipe # <<>> /\ Head(pipe).n = j /\ Head(pipe).kind = "frame"
    BY <2>1, <2>2 DEF LineInv, NoGap
  <2>4. CASE j \in counted
    <3>1. \A q \in Queued : j < q
      BY <2>4 DEF LineInv, Ascending
    <3>2. m \in counted /\ m >= x /\ m # h
      BY <1>3, <1>4, <1>5, <2>1, <2>2, <2>4, <3>1
    <3>3. j >= x
      BY <1>5, <2>1, <2>4, <3>2
    <3>4. QED BY <1>4, <2>4, <3>3
  <2>5. CASE j \in QueuedFrames
    BY <1>3, <1>4, <2>5
  <2>6. QED BY <2>3, <2>4, <2>5
<1>10. Lines!WholeReadings' /\ (~header' => counted' = {})
  BY <1>1 DEF LineInv, Lines!WholeReadings
<1>11. QED BY <1>7, <1>8, <1>9, <1>10 DEF LineInv

(* What is sent is all that is counted from some line on; and nothing is lost *)
(* that would have come between. *)
LEMMA LineInvJudge ==
    ASSUME LineInv, Lines!Judge
    PROVE  LineInv'
<1>1. /\ ~dropped
      /\ UNCHANGED <<writing, linesOfFrames, pipe, reader, lineBegun, overflow, lines,
                     dropped, header, counted>>
      /\ countedSent' \in Lines!Remaining \/ countedSent' = countedSent
  BY DEF Lines!Judge, Lines!source, Lines!thread
<1>2. Lines!WholeReadings' /\ countedSent' \subseteq countedSent \cup counted
  <2>1. CASE countedSent' = countedSent
    BY <1>1, <2>1 DEF LineInv, Lines!WholeReadings
  <2>2. CASE countedSent' \in Lines!Remaining
    <3>1. PICK x \in 1..LastLine + 1 : countedSent' = {m \in counted : m >= x}
      BY <2>2 DEF Lines!Remaining
    <3>2. counted \subseteq Nat /\ linesOfFrames \subseteq Nat
      BY Numbers DEF LineInv, LineTypes
    <3>3. ASSUME NEW m \in countedSent', NEW l \in countedSent', NEW j \in linesOfFrames,
                 m <= j, j <= l
          PROVE  j \in countedSent'
      <4>1. m \in counted /\ l \in counted /\ m >= x /\ m \in Nat /\ l \in Nat /\ j \in Nat
        BY <3>1, <3>2
      <4>2. j >= x
        BY <3>3, <4>1
      <4>3. j \in counted
        <5>1. SUFFICES ASSUME j > m, j \notin counted PROVE FALSE
          BY <3>3, <4>1
        <5>2. \/ j \in QueuedFrames
              \/ pipe # <<>> /\ Head(pipe).n = j
          BY <1>1, <4>1, <5>1 DEF LineInv, NoGap
        <5>3. QueuedFrames \subseteq Queued
          BY DEF QueuedFrames, Queued
        <5>4. l \in Passed
          BY <4>1 DEF Passed
        <5>5. l < j
          BY <4>1, <5>2, <5>3, <5>4 DEF LineInv, Ascending, InTurn
        <5>6. QED BY <3>3, <4>1, <5>5
      <4>4. QED BY <3>1, <4>2, <4>3
    <3>4. QED BY <1>1, <3>1, <3>3 DEF Lines!WholeReadings
  <2>3. QED BY <1>1, <2>1, <2>2
<1>3. QED BY <1>1, <1>2, LineInvStill

LEMMA LineInvNext ==
    ASSUME LineInv, [Lines!Next]_(Lines!vars)
    PROVE  LineInv'
<1> USE DEF Lines!source, Lines!thread, Lines!capture
<1>1. CASE Lines!Ends \/ Lines!ReadFails \/ Lines!Tick \/ UNCHANGED Lines!vars
  <2>1. /\ writing' \in {writing, Lines!NoLine} /\ reader' \in {reader, "gone"}
        /\ dropped' = dropped \/ dropped' = TRUE
        /\ UNCHANGED <<linesOfFrames, pipe, lineBegun, lines, counted, overflow, header,
                       countedSent>>
    BY <1>1 DEF Lines!Ends, Lines!ReadFails, Lines!Tick, Lines!vars
  <2>2. Lines!WholeReadings'
    BY <2>1 DEF LineInv, Lines!WholeReadings
  <2>3. QED BY <2>1, <2>2, LineInvStill
<1>2. CASE Lines!Fail
  <2>1. /\ writing' = Lines!NewLine(1) /\ linesOfFrames' = {} /\ pipe' = <<>>
        /\ lineBegun' = Lines!NoLine /\ lines' = <<>>
        /\ counted' = {} /\ countedSent' = {}
    BY <1>2 DEF Lines!Fail, Lines!Begin
  <2>2. QED BY <2>1, LineInvBegun
<1>3. QED
  BY <1>1, <1>2, LineInvWritten, LineInvRead, LineInvReadEnd, LineInvSkip, LineInvCount,
     LineInvJudge
  DEF Lines!Next

(* The frames of which statistics are shown have none missing between them,   *)
(* for every length of a line, of the queue and of the window, and wherever a *)
(* line is lost (read_output, send_line, drain, Stats::add). *)
THEOREM FramesWhole == Lines!Spec => []Lines!WholeReadings
<1>1. Lines!Init => LineInv
  BY LineInvBegins DEF Lines!Init
<1>2. LineInv => Lines!WholeReadings
  BY DEF LineInv
<1>3. QED
  BY <1>1, LineInvNext, <1>2, PTL DEF Lines!Spec

LineNumbers == 1..LastLine

LineBounds ==
    /\ writing.n <= LastLine + 1 /\ linesOfFrames \subseteq LineNumbers
    /\ reader \in {"reads", "gone"} /\ linesAt \in {"rest", "drain"}
    /\ overflow \in BOOLEAN /\ dropped \in BOOLEAN /\ header \in BOOLEAN
    /\ countedUnsent \in BOOLEAN
    /\ pipe # <<>> => Head(pipe).n \in LineNumbers
    /\ lineBegun.pieces <= MaxLine
    /\ lineBegun # Lines!NoLine => lineBegun.n \in LineNumbers
    /\ Len(lines) <= LineQueue /\ Queued \subseteq LineNumbers
    /\ counted \subseteq LineNumbers /\ Cardinality(counted) <= MaxFrames
    /\ countedSent \subseteq LineNumbers

LEMMA LinesCardinality ==
    ASSUME NEW S
    PROVE  Lines!Cardinality(S) = Cardinality(S)
BY DEF Lines!Cardinality, Cardinality

LEMMA LinesTyped ==
    ASSUME LineInv, LineBounds
    PROVE  Lines!TypeOK
<1>1. {overflow, dropped, header, countedUnsent} \subseteq BOOLEAN
  BY Zenon DEF LineBounds
<1>2. writing.n \in 0..LastLine + 1 /\ lineBegun.pieces \in 0..MaxLine
  BY BoundsAssumption DEF LineInv, LineTypes, LineBounds
<1>3. Len(pipe) <= 1
  <2>1. CASE pipe = <<>>
    <3>1. Len(pipe) = 0
      BY <2>1
    <3>2. QED BY ONLY <3>1
  <2>2. CASE pipe = <<Head(pipe)>>
    <3> DEFINE h == Head(pipe)
    <3>1. pipe = <<h>>
      BY <2>2
    <3> HIDE DEF h
    <3>2. Len(pipe) = 1
      BY <3>1
    <3>3. QED BY ONLY <3>2
  <2>3. QED BY <2>1, <2>2 DEF LineInv, LineTypes
<1>4. Lines!Cardinality(counted) <= MaxFrames
  BY LinesCardinality DEF LineBounds
<1>5. QED
  BY <1>1, <1>2, <1>3, <1>4, Zenon DEF LineBounds, LineNumbers, Lines!TypeOK

(* A new capture, and the first. *)
LEMMA LineBoundsBegin ==
    ASSUME Lines!Init
    PROVE  LineBounds
<1>1. /\ writing = Lines!NewLine(1) /\ linesOfFrames = {} /\ pipe = <<>> /\ reader = "reads"
      /\ lineBegun = Lines!NoLine /\ overflow = FALSE /\ lines = <<>> /\ dropped = FALSE
      /\ linesAt = "rest" /\ header = FALSE /\ counted = {} /\ countedUnsent = FALSE
      /\ countedSent = {}
  BY DEF Lines!Init
<1>2. writing.n <= LastLine + 1 /\ lineBegun.pieces <= MaxLine
  BY <1>1, BoundsAssumption DEF Lines!NewLine, Lines!NoLine
<1>3. Len(lines) <= LineQueue /\ Queued = {}
  <2>1. Len(lines) = 0 /\ Queued = {}
    BY <1>1, NoLines DEF Queued
  <2>2. QED BY <2>1, BoundsAssumption
<1>4. Cardinality(counted) <= MaxFrames
  BY <1>1, FS_EmptySet, BoundsAssumption
<1>5. QED BY <1>1, <1>2, <1>3, <1>4 DEF LineBounds

LEMMA LineBoundsBegun ==
    ASSUME Lines!Begin
    PROVE  LineBounds'
<1>1. /\ writing' = Lines!NewLine(1) /\ linesOfFrames' = {} /\ pipe' = <<>>
      /\ reader' = "reads" /\ lineBegun' = Lines!NoLine /\ overflow' = FALSE
      /\ lines' = <<>> /\ dropped' = FALSE /\ linesAt' = "rest" /\ header' = FALSE
      /\ counted' = {} /\ countedUnsent' = FALSE /\ countedSent' = {}
  BY DEF Lines!Begin
<1>2. writing'.n <= LastLine + 1 /\ lineBegun'.pieces <= MaxLine
  BY <1>1, BoundsAssumption DEF Lines!NewLine, Lines!NoLine
<1>3. Len(lines') <= LineQueue /\ Queued' = {}
  <2>1. Len(lines') = 0 /\ Queued' = {}
    BY <1>1, NoLines DEF Queued
  <2>2. QED BY <2>1, BoundsAssumption
<1>4. Cardinality(counted') <= MaxFrames
  BY <1>1, FS_EmptySet, BoundsAssumption
<1>5. QED BY <1>1, <1>2, <1>3, <1>4 DEF LineBounds

LEMMA WriteBounds ==
    ASSUME LineInv, LineBounds, Lines!WritePiece
    PROVE  LineBounds'
<1> USE DEF Lines!thread, Lines!capture
<1>1. PICK k \in Lines!Kind, end \in BOOLEAN :
          /\ pipe' = <<[n |-> writing.n, kind |-> k, end |-> end]>>
          /\ writing' = IF end THEN Lines!NewLine(writing.n + 1)
                        ELSE [writing EXCEPT !.kind = k, !.pieces = @ + 1]
          /\ linesOfFrames' = IF end /\ k = "frame" THEN linesOfFrames \cup {writing.n}
                              ELSE linesOfFrames
  <2>1. writing.kind \in Lines!Kind
    BY DEF LineInv, LineTypes
  <2>2. QED BY <2>1, Zenon DEF Lines!WritePiece
<1>2. writing.n \in LineNumbers
  BY DEF Lines!WritePiece, LineNumbers
<1>3. writing'.n <= LastLine + 1
  <2>1. CASE end
    <3>1. writing'.n = writing.n + 1
      BY <1>1, <2>1 DEF Lines!NewLine
    <3>2. QED BY <1>2, <3>1, BoundsAssumption DEF LineNumbers
  <2>2. CASE ~end
    <3>1. writing'.n = writing.n
      BY <1>1, <2>2 DEF LineInv, LineTypes
    <3>2. QED BY <3>1 DEF LineBounds
  <2>3. QED BY <2>1, <2>2
<1>4. linesOfFrames' \subseteq LineNumbers
  BY <1>1, <1>2 DEF LineBounds
<1>5. Head(pipe').n \in LineNumbers
  BY <1>1, <1>2
<1>6. UNCHANGED <<reader, lineBegun, overflow, lines, dropped, linesAt, header, counted,
                  countedUnsent, countedSent>>
  BY DEF Lines!WritePiece
<1>7. QED BY <1>3, <1>4, <1>5, <1>6 DEF LineBounds, Queued

(* What is sent is put behind the others if there is room. *)
LEMMA SendBounds ==
    ASSUME LineInv, LineBounds, NEW l \in QueuedLine, l.n \in LineNumbers, Lines!SendLine(l)
    PROVE  Len(lines') <= LineQueue /\ Queued' \subseteq LineNumbers /\ dropped' \in BOOLEAN
<1>1. CASE UNCHANGED lines /\ dropped' = TRUE
  BY <1>1 DEF LineBounds, Queued
<1>2. CASE Len(lines) < LineQueue /\ lines' = Append(lines, l) /\ UNCHANGED dropped
  <2>1. /\ Len(lines') = Len(lines) + 1 /\ Len(lines) \in Nat
        /\ DOMAIN lines = 1..Len(lines) /\ DOMAIN lines' = 1..(Len(lines) + 1)
        /\ \A i \in 1..Len(lines) : lines'[i] = lines[i]
        /\ lines'[Len(lines) + 1] = l
    BY <1>2, AppendProperties, LenProperties DEF LineInv, LineTypes
  <2>2. Len(lines') <= LineQueue
    BY <1>2, <2>1, BoundsAssumption
  <2>3. ASSUME NEW i \in DOMAIN lines' PROVE lines'[i].n \in LineNumbers
    <3>1. CASE i = Len(lines) + 1
      BY <2>1, <3>1
    <3>2. CASE i # Len(lines) + 1
      <4>1. i \in 1..Len(lines)
        BY <2>1, <3>2
      <4>2. QED BY <2>1, <4>1 DEF LineBounds, Queued
    <3>3. QED BY <3>1, <3>2
  <2>4. Queued' \subseteq LineNumbers
    BY <2>3 DEF Queued
  <2>5. QED BY <1>2, <2>2, <2>4 DEF LineBounds
<1>3. QED BY <1>1, <1>2 DEF Lines!SendLine

LEMMA ReadBounds ==
    ASSUME LineInv, LineBounds, Lines!ReadOutput
    PROVE  LineBounds'
<1> USE DEF Lines!capture
<1>1. /\ Lines!Read(Head(pipe)) /\ pipe # <<>> /\ pipe' = <<>>
      /\ UNCHANGED <<writing, linesOfFrames, reader, linesAt, header, counted,
                     countedUnsent, countedSent>>
  BY DEF Lines!ReadOutput
<1> DEFINE p == Head(pipe)
           fits == ~overflow /\ lineBegun.pieces < MaxLine
<1>2. p \in Piece /\ p.n \in LineNumbers
  BY <1>1 DEF LineInv, LineTypes, LineBounds
<1> HIDE DEF p
<1>3. Lines!Read(p)
  BY <1>1 DEF p
<1>4. lineBegun'.pieces <= MaxLine /\ (lineBegun' # Lines!NoLine => lineBegun'.n \in LineNumbers)
  <2>1. CASE lineBegun' = Lines!NoLine
    BY <2>1, BoundsAssumption DEF Lines!NoLine, Lines!NewLine
  <2>2. CASE lineBegun' = lineBegun
    BY <2>2 DEF LineBounds
  <2>3. CASE fits /\ lineBegun' = [n |-> p.n, kind |-> p.kind, pieces |-> lineBegun.pieces + 1]
    <3>1. lineBegun'.n = p.n /\ lineBegun'.pieces = lineBegun.pieces + 1
      BY <2>3
    <3>2. QED BY <1>2, <2>3, <3>1, BoundsAssumption DEF LineInv, LineTypes
  <2>4. QED BY <1>3, <2>1, <2>2, <2>3 DEF Lines!Read
<1>5. overflow' \in BOOLEAN
  BY <1>3, Zenon DEF Lines!Read
<1>6. Len(lines') <= LineQueue /\ Queued' \subseteq LineNumbers /\ dropped' \in BOOLEAN
  <2>1. CASE Lines!SendLine([n |-> p.n, kind |-> p.kind])
    <3> DEFINE l == [n |-> p.n, kind |-> p.kind]
    <3>1. l \in QueuedLine /\ l.n \in LineNumbers
      BY <1>2 DEF Piece, QueuedLine
    <3> HIDE DEF l
    <3>2. Lines!SendLine(l)
      BY <2>1 DEF l
    <3>3. QED BY <3>1, <3>2, SendBounds
  <2>2. CASE (dropped' = TRUE \/ UNCHANGED dropped) /\ UNCHANGED lines
    BY <2>2 DEF LineBounds, Queued
  <2>3. QED BY <1>3, <2>1, <2>2, Zenon DEF Lines!Read
<1>7. QED BY <1>1, <1>4, <1>5, <1>6 DEF LineBounds

LEMMA ReadEndBounds ==
    ASSUME LineInv, LineBounds, Lines!ReadEnd
    PROVE  LineBounds'
<1> USE DEF Lines!capture, Lines!source
<1>1. /\ reader' = "gone"
      /\ UNCHANGED <<writing, linesOfFrames, pipe, lineBegun, overflow, linesAt, header,
                     counted, countedUnsent, countedSent>>
  BY DEF Lines!ReadEnd
<1>2. Len(lines') <= LineQueue /\ Queued' \subseteq LineNumbers /\ dropped' \in BOOLEAN
  <2>1. CASE UNCHANGED <<lines, dropped>>
    BY <2>1 DEF LineBounds, Queued
  <2>2. CASE lineBegun # Lines!NoLine /\ \E k \in {lineBegun.kind, "bad"} :
                Lines!SendLine([n |-> lineBegun.n, kind |-> k])
    <3>1. PICK k \in {lineBegun.kind, "bad"} : Lines!SendLine([n |-> lineBegun.n, kind |-> k])
      BY <2>2
    <3> DEFINE l == [n |-> lineBegun.n, kind |-> k]
    <3>2. l \in QueuedLine /\ l.n \in LineNumbers
      BY <2>2 DEF LineInv, LineTypes, LineBounds, QueuedLine, Lines!Kind
    <3> HIDE DEF l
    <3>3. Lines!SendLine(l)
      BY <3>1 DEF l
    <3>4. QED BY <3>2, <3>3, SendBounds
  <2>3. QED BY <2>1, <2>2 DEF Lines!ReadEnd
<1>3. QED BY <1>1, <1>2 DEF LineBounds

(* The first of the queue is taken. *)
LEMMA TakeBounds ==
    ASSUME LineInv, LineBounds, NEW kinds, Lines!TakeLine(kinds)
    PROVE  /\ Head(lines).n \in LineNumbers
           /\ Len(lines') <= LineQueue /\ Queued' \subseteq LineNumbers
           /\ UNCHANGED <<writing, linesOfFrames, pipe, reader, lineBegun, overflow, dropped,
                          linesAt, countedSent>>
<1>1. /\ lines # <<>> /\ lines' = Tail(lines)
      /\ UNCHANGED <<writing, linesOfFrames, pipe, reader, lineBegun, overflow, dropped,
                     linesAt, countedSent>>
  BY DEF Lines!TakeLine, Lines!source, Lines!thread
<1>2. /\ Len(lines) \in Nat /\ Len(lines) > 0 /\ Head(lines) = lines[1]
      /\ Len(lines') = Len(lines) - 1 /\ DOMAIN lines = 1..Len(lines)
      /\ DOMAIN lines' = 1..(Len(lines) - 1)
      /\ \A i \in 1..(Len(lines) - 1) : lines'[i] = lines[i + 1]
  BY <1>1, HeadTailProperties, LenProperties, EmptySeq DEF LineInv, LineTypes
<1>3. \A i \in 1..Len(lines) : lines[i].n \in LineNumbers
  BY <1>2 DEF LineBounds, Queued
<1>4. Head(lines).n \in LineNumbers
  BY <1>2, <1>3
<1>5. ASSUME NEW i \in DOMAIN lines' PROVE lines'[i].n \in LineNumbers
  <2>1. i + 1 \in 1..Len(lines) /\ lines'[i] = lines[i + 1]
    BY <1>2
  <2>2. QED BY <1>3, <2>1
<1>6. Queued' \subseteq LineNumbers
  BY <1>5 DEF Queued
<1>7. Len(lines') <= LineQueue
  BY <1>2, BoundsAssumption DEF LineBounds
<1>8. QED BY <1>1, <1>4, <1>6, <1>7

LEMMA CountBounds ==
    ASSUME LineInv, LineBounds, Lines!Count
    PROVE  LineBounds'
<1>1. /\ Lines!TakeLine({"frame"}) /\ countedUnsent' = TRUE /\ UNCHANGED header
      /\ \E left \in Lines!Remaining :
            Lines!Cardinality(left) < MaxFrames /\ counted' = left \cup {Head(lines).n}
  BY DEF Lines!Count
<1>2. PICK left \in Lines!Remaining :
          Lines!Cardinality(left) < MaxFrames /\ counted' = left \cup {Head(lines).n}
  BY <1>1
<1>3. left \subseteq LineNumbers
  BY <1>2 DEF Lines!Remaining, LineBounds
<1>4. IsFiniteSet(left)
  <2>1. IsFiniteSet(LineNumbers)
    BY FS_Interval, BoundsAssumption DEF LineNumbers
  <2>2. QED BY <1>3, <2>1, FS_Subset
<1>5. Cardinality(left) < MaxFrames
  BY <1>2, LinesCardinality
<1>6. Cardinality(counted') <= MaxFrames
  <2> DEFINE h == Head(lines).n
  <2>1. Cardinality(left) \in Nat
    BY <1>4, FS_CardinalityType
  <2>2. Cardinality(left \cup {h}) \in {Cardinality(left), Cardinality(left) + 1}
    BY <1>4, FS_AddElement
  <2>3. QED BY <1>2, <1>5, <2>1, <2>2, BoundsAssumption
<1>7. QED BY <1>1, <1>2, <1>3, <1>6, TakeBounds DEF LineBounds

LEMMA LineBoundsNext ==
    ASSUME LineInv, LineBounds, [Lines!Next]_(Lines!vars)
    PROVE  LineBounds'
<1> USE DEF Lines!source, Lines!thread, Lines!capture
<1>1. CASE Lines!Ends
  <2>1. /\ writing'.n = 0
        /\ UNCHANGED <<linesOfFrames, pipe, reader, lineBegun, overflow, lines, dropped,
                       linesAt, header, counted, countedUnsent, countedSent>>
    BY <1>1 DEF Lines!Ends, Lines!NoLine, Lines!NewLine
  <2>2. writing'.n <= LastLine + 1
    BY <2>1, BoundsAssumption
  <2>3. QED BY <2>1, <2>2 DEF LineBounds, Queued
<1>2. CASE Lines!ReadFails
  BY <1>2 DEF Lines!ReadFails, LineBounds, Queued
<1>3. CASE Lines!Tick
  BY <1>3 DEF Lines!Tick, LineBounds, Queued
<1>4. CASE UNCHANGED Lines!vars
  BY <1>4 DEF Lines!vars, LineBounds, Queued
<1>5. CASE Lines!Skip
  <2>1. PICK kinds : Lines!TakeLine(kinds)
    BY <1>5, Zenon DEF Lines!Skip
  <2>2. header' \in BOOLEAN /\ UNCHANGED <<counted, countedUnsent>>
    BY <1>5, Zenon DEF Lines!Skip
  <2>3. QED BY <2>1, <2>2, TakeBounds DEF LineBounds
<1>6. CASE Lines!Judge
  <2>1. /\ linesAt' = "rest" /\ countedSent' \in Lines!Remaining \cup {countedSent}
        /\ UNCHANGED <<writing, linesOfFrames, pipe, reader, lineBegun, overflow, lines,
                       dropped, header, counted>>
    BY <1>6, Zenon DEF Lines!Judge
  <2>2. countedUnsent' = FALSE \/ UNCHANGED countedUnsent
    BY <1>6, Zenon DEF Lines!Judge
  <2>3. countedSent' \subseteq LineNumbers
    BY <2>1 DEF Lines!Remaining, LineBounds
  <2>4. QED BY <2>1, <2>2, <2>3 DEF LineBounds, Queued
<1>7. CASE Lines!Fail
  BY <1>7, LineBoundsBegun DEF Lines!Fail
<1>8. QED
  BY <1>1, <1>2, <1>3, <1>4, <1>5, <1>6, <1>7, WriteBounds, ReadBounds, ReadEndBounds,
     CountBounds, Zenon
  DEF Lines!Next

(* The types of FrameLines: a line, the queue and the window never hold more  *)
(* than they may (read_output, send_line, Stats::add). *)
THEOREM LinesTypes == Lines!Spec => []Lines!TypeOK
<1>1. Lines!Init => LineInv
  BY LineInvBegins DEF Lines!Init
<1>2. QED
  BY <1>1, LineInvNext, LineBoundsBegin, LineBoundsNext, LinesTyped, PTL DEF Lines!Spec

----------------------------------------------------------------------------
(* What a text is read as: there is a function that the equations of Parse    *)
(* define. What is read at a place comes from later places, or from a value   *)
(* at the place of an element. *)

Reads(F, t, a) ==
    IF a[1] = "value" THEN Web!Value(F, t, a[2], a[3])
    ELSE Web!Elements(F, t, a[1], a[2], a[3])

IsRead(F, t) == F = [a \in Web!Place(t) |-> Reads(F, t, a)]

(* What is read ends behind its place. *)
Lands(v, n, p) == v = 0 \/ v \in p + 1..n + 1

Agree(F, G, n, k, p, d) ==
    F[<<k, p, d>>] = G[<<k, p, d>>] /\ Lands(F[<<k, p, d>>], n, p)
AgreeOnOpened(F, G, n, p, d) ==
    \A k \in {"endArray", "endObject"} : p < n + 1 => Agree(F, G, n, k, p + 1, d)
AgreeOnValues(F, G, n, p, d) ==
    \A q \in p..n : q # 0 /\ d <= MaxDepth => Agree(F, G, n, "value", q, d + 1)
AgreeOnRest(F, G, n, k, p, d) ==
    \A q \in p + 1..n + 1 : Agree(F, G, n, k, q, d)

LEMMA EndsLater ==
    ASSUME NEW n \in Nat, NEW p \in 0..(n + 1), NEW q \in p..(n + 1), NEW v, Lands(v, n, q)
    PROVE  Lands(v, n, p)
  BY DEF Lands

LEMMA TokenThere ==
    ASSUME NEW t, NEW n \in Nat, Len(t) = n, NEW p, Web!Token(t, p) # "eof"
    PROVE  p \in 1..n
  BY DEF Web!Token

LEMMA ValueComesFromLater ==
    ASSUME NEW t, NEW n \in Nat, Len(t) = n, NEW F, NEW G,
           NEW p \in 0..(n + 1), NEW d \in 0..(MaxDepth + 1), AgreeOnOpened(F, G, n, p, d)
    PROVE  /\ Web!Value(F, t, p, d) = Web!Value(G, t, p, d)
           /\ Lands(Web!Value(F, t, p, d), n, p)
<1>1. ASSUME NEW k \in {"endArray", "endObject"}, p \in 1..n
      PROVE  /\ Web!Opened(F, t, k, p, d) = Web!Opened(G, t, k, p, d)
             /\ Lands(Web!Opened(F, t, k, p, d), n, p)
  <2>1. p < n + 1 /\ p + 1 \in p..(n + 1)
    BY <1>1
  <2>2. Agree(F, G, n, k, p + 1, d)
    BY <1>1, <2>1 DEF AgreeOnOpened
  <2>3. CASE Web!Token(t, p + 1) = k
    <3>1. p + 1 \in 1..n
      BY <1>1, <2>3, TokenThere
    <3>2. Lands(p + 2, n, p)
      BY <1>1, <3>1 DEF Lands
    <3>3. QED BY <2>3, <3>2 DEF Web!Opened
  <2>4. CASE Web!Token(t, p + 1) # k
    <3>1. Lands(F[<<k, p + 1, d>>], n, p)
      BY <2>1, <2>2, EndsLater DEF Agree
    <3>2. QED BY <2>2, <2>4, <3>1 DEF Web!Opened, Agree
  <2>5. QED BY <2>3, <2>4
<1>2. Lands(0, n, p)
  BY DEF Lands
<1>3. CASE p \notin 1..n \/ d > MaxDepth
  <2>1. d > MaxDepth \/ Web!Token(t, p) = "eof"
    BY <1>3, TokenThere
  <2>2. Web!Value(F, t, p, d) = 0 /\ Web!Value(G, t, p, d) = 0
    BY <2>1 DEF Web!Value
  <2>3. QED BY <1>2, <2>2
<1>4. CASE p \in 1..n /\ ~(d > MaxDepth)
  <2>1. Lands(p + 1, n, p)
    BY <1>4 DEF Lands
  <2>2. CASE Web!Token(t, p) \in {"string", "number"}
    <3>1. Web!Value(F, t, p, d) = p + 1 /\ Web!Value(G, t, p, d) = p + 1
      BY <1>4, <2>2 DEF Web!Value
    <3>2. QED BY <2>1, <3>1
  <2>3. CASE Web!Token(t, p) = "array"
    <3>1. /\ Web!Value(F, t, p, d) = Web!Opened(F, t, "endArray", p, d)
          /\ Web!Value(G, t, p, d) = Web!Opened(G, t, "endArray", p, d)
      BY <1>4, <2>3 DEF Web!Value
    <3>2. QED BY <1>1, <1>4, <3>1
  <2>4. CASE Web!Token(t, p) = "object"
    <3>1. /\ Web!Value(F, t, p, d) = Web!Opened(F, t, "endObject", p, d)
          /\ Web!Value(G, t, p, d) = Web!Opened(G, t, "endObject", p, d)
      BY <1>4, <2>4 DEF Web!Value
    <3>2. QED BY <1>1, <1>4, <3>1
  <2>5. CASE Web!Token(t, p) \notin {"string", "number", "array", "object"}
    <3>1. Web!Value(F, t, p, d) = 0 /\ Web!Value(G, t, p, d) = 0
      BY <1>4, <2>5 DEF Web!Value
    <3>2. QED BY <1>2, <3>1
  <2>6. QED BY <2>2, <2>3, <2>4, <2>5
<1>5. QED BY <1>3, <1>4

(* Where an element ends, and how it goes on. *)
ElementEnd(F, t, k, p, d) ==
    IF Web!Member(t, k, p) \in 1..Len(t) /\ d <= MaxDepth
    THEN F[<<"value", Web!Member(t, k, p), d + 1>>] ELSE 0
After(F, t, k, end, d) ==
    CASE Web!Token(t, end) = "comma" -> F[<<k, end + 1, d>>]
      [] Web!Token(t, end) = k -> end + 1
      [] OTHER -> 0

LEMMA AfterEnd ==
    ASSUME NEW F, NEW t, NEW k, NEW p, NEW d
    PROVE  Web!Elements(F, t, k, p, d) = After(F, t, k, ElementEnd(F, t, k, p, d), d)
  BY DEF Web!Elements, After, ElementEnd

LEMMA ElementsComeFromLater ==
    ASSUME NEW t, NEW n \in Nat, Len(t) = n, NEW F, NEW G, NEW k \in {"endArray",
           "endObject"},
           NEW p \in 0..(n + 1), NEW d \in 0..(MaxDepth + 1),
           AgreeOnValues(F, G, n, p, d), AgreeOnRest(F, G, n, k, p, d)
    PROVE  /\ Web!Elements(F, t, k, p, d) = Web!Elements(G, t, k, p, d)
           /\ Lands(Web!Elements(F, t, k, p, d), n, p)
<1>1. PICK member : member = Web!Member(t, k, p)
  OBVIOUS
<1>2. member \in 1..n => member \in p..n
  BY <1>1 DEF Web!Member
<1>3. PICK end : end = ElementEnd(F, t, k, p, d)
  OBVIOUS
<1>4. end = ElementEnd(G, t, k, p, d) /\ Lands(end, n, p)
  <2>1. CASE member \in 1..n /\ d <= MaxDepth
    <3>1. member \in p..n /\ member # 0 /\ member \in p..(n + 1)
      BY <1>2, <2>1
    <3>2. Agree(F, G, n, "value", member, d + 1)
      BY <2>1, <3>1 DEF AgreeOnValues
    <3>3. Lands(F[<<"value", member, d + 1>>], n, p)
      BY <3>1, <3>2, EndsLater DEF Agree
    <3>4. /\ end = F[<<"value", member, d + 1>>]
          /\ ElementEnd(G, t, k, p, d) = G[<<"value", member, d + 1>>]
      BY <1>1, <1>3, <2>1 DEF ElementEnd
    <3>5. QED BY <3>2, <3>3, <3>4 DEF Agree
  <2>2. CASE ~(member \in 1..n /\ d <= MaxDepth)
    <3>1. end = 0 /\ ElementEnd(G, t, k, p, d) = 0
      BY <1>1, <1>3, <2>2 DEF ElementEnd
    <3>2. QED BY <3>1 DEF Lands
  <2>3. QED BY <2>1, <2>2
<1>5. /\ After(F, t, k, end, d) = After(G, t, k, end, d)
      /\ Lands(After(F, t, k, end, d), n, p)
  <2>1. CASE Web!Token(t, end) = "comma"
    <3>1. end \in 1..n
      BY <2>1, TokenThere
    <3>2. end + 1 \in p + 1..n + 1 /\ end + 1 \in p..(n + 1)
      BY <1>4, <3>1 DEF Lands
    <3>3. Agree(F, G, n, k, end + 1, d)
      BY <3>2 DEF AgreeOnRest
    <3>4. Lands(F[<<k, end + 1, d>>], n, p)
      BY <3>2, <3>3, EndsLater DEF Agree
    <3>5. /\ After(F, t, k, end, d) = F[<<k, end + 1, d>>]
          /\ After(G, t, k, end, d) = G[<<k, end + 1, d>>]
      BY <2>1 DEF After
    <3>6. QED BY <3>3, <3>4, <3>5 DEF Agree
  <2>2. CASE Web!Token(t, end) = k
    <3>1. end \in 1..n /\ Web!Token(t, end) # "comma"
      BY <2>2, TokenThere
    <3>2. Lands(end + 1, n, p)
      BY <1>4, <3>1 DEF Lands
    <3>3. After(F, t, k, end, d) = end + 1 /\ After(G, t, k, end, d) = end + 1
      BY <2>2, <3>1 DEF After
    <3>4. QED BY <3>2, <3>3
  <2>3. CASE Web!Token(t, end) \notin {"comma", k}
    <3>1. After(F, t, k, end, d) = 0 /\ After(G, t, k, end, d) = 0
      BY <2>3 DEF After
    <3>2. QED BY <3>1 DEF Lands
  <2>4. QED BY <2>1, <2>2, <2>3
<1>6. QED BY <1>3, <1>4, <1>5, AfterEnd

Rank(a, n) == 2 * ((n + 1) - a[2]) + (IF a[1] = "value" THEN 0 ELSE 1)
Earlier(F, G, t, n, a) ==
    \A b \in Web!Place(t) : Rank(b, n) < Rank(a, n) => F[b] = G[b] /\ Lands(F[b], n, b[2])

LEMMA ReadsFromLater ==
    ASSUME NEW t, NEW n \in Nat, Len(t) = n, NEW F, NEW G, NEW a \in Web!Place(t),
           Earlier(F, G, t, n, a)
    PROVE  Reads(F, t, a) = Reads(G, t, a) /\ Lands(Reads(F, t, a), n, a[2])
<1>1. PICK k \in {"value", "endArray", "endObject"}, p \in 0..(n + 1),
           d \in 0..(MaxDepth + 1) : a = <<k, p, d>>
  BY DEF Web!Place
<1>2. a[1] = k /\ a[2] = p /\ a[3] = d /\ MaxDepth \in Nat
  BY <1>1, WebAssumption
<1>3. ASSUME NEW c \in {"value", "endArray", "endObject"}, NEW q \in 0..(n + 1),
             NEW e \in 0..(MaxDepth + 1), Rank(<<c, q, e>>, n) < Rank(a, n)
      PROVE  Agree(F, G, n, c, q, e)
  <2>1. <<c, q, e>> \in Web!Place(t) /\ <<c, q, e>>[2] = q
    BY DEF Web!Place
  <2>2. F[<<c, q, e>>] = G[<<c, q, e>>] /\ Lands(F[<<c, q, e>>], n, q)
    BY <1>3, <2>1 DEF Earlier
  <2>3. QED BY <2>2 DEF Agree
<1>4. \A c, q, e : Rank(<<c, q, e>>, n) = 2 * ((n + 1) - q) + (IF c = "value" THEN 0 ELSE 1)
  BY DEF Rank
<1>5. Rank(a, n) = 2 * ((n + 1) - p) + (IF k = "value" THEN 0 ELSE 1)
  BY <1>2 DEF Rank
<1>6. CASE k = "value"
  <2>1. ASSUME NEW c \in {"endArray", "endObject"}, p < n + 1
        PROVE  Agree(F, G, n, c, p + 1, d)
    <3>1. p + 1 \in 0..(n + 1) /\ 2 * ((n + 1) - (p + 1)) + 1 < 2 * ((n + 1) - p) + 0
      BY <2>1
    <3>2. Rank(<<c, p + 1, d>>, n) < Rank(a, n)
      BY <1>4, <1>5, <1>6, <3>1
    <3>3. QED BY <1>3, <3>1, <3>2
  <2>2. AgreeOnOpened(F, G, n, p, d)
    BY <2>1 DEF AgreeOnOpened
  <2>3. Reads(F, t, a) = Web!Value(F, t, p, d) /\ Reads(G, t, a) = Web!Value(G, t, p, d)
    BY <1>2, <1>6 DEF Reads
  <2>4. QED BY <1>2, <2>2, <2>3, ValueComesFromLater
<1>7. CASE k # "value"
  <2>1. k \in {"endArray", "endObject"}
    BY <1>7
  <2>2. ASSUME NEW q \in p..n, d <= MaxDepth
        PROVE  Agree(F, G, n, "value", q, d + 1)
    <3>1. q \in 0..(n + 1) /\ 2 * ((n + 1) - q) + 0 < 2 * ((n + 1) - p) + 1
      OBVIOUS
    <3>2. d + 1 \in 0..(MaxDepth + 1)
      BY <1>2, <2>2
    <3>3. Rank(<<"value", q, d + 1>>, n) < Rank(a, n)
      BY <1>4, <1>5, <1>7, <3>1
    <3>4. QED BY <1>3, <3>1, <3>2, <3>3
  <2>3. AgreeOnValues(F, G, n, p, d)
    BY <2>2 DEF AgreeOnValues
  <2>4. ASSUME NEW q \in p + 1..n + 1
        PROVE  Agree(F, G, n, k, q, d)
    <3>1. q \in 0..(n + 1) /\ 2 * ((n + 1) - q) + 1 < 2 * ((n + 1) - p) + 1
      OBVIOUS
    <3>2. Rank(<<k, q, d>>, n) < Rank(a, n)
      BY <1>4, <1>5, <1>7, <3>1
    <3>3. QED BY <1>3, <3>1, <3>2
  <2>5. AgreeOnRest(F, G, n, k, p, d)
    BY <2>4 DEF AgreeOnRest
  <2>6. Reads(F, t, a) = Web!Elements(F, t, k, p, d)
        /\ Reads(G, t, a) = Web!Elements(G, t, k, p, d)
    BY <1>2, <1>7 DEF Reads
  <2>7. QED BY <1>2, <2>1, <2>3, <2>5, <2>6, ElementsComeFromLater
<1>8. QED BY <1>6, <1>7

ReadUpTo(F, t, n, r) ==
    /\ F = [a \in Web!Place(t) |-> F[a]]
    /\ \A a \in Web!Place(t) :
          Rank(a, n) < r => F[a] = Reads(F, t, a) /\ Lands(F[a], n, a[2])

LEMMA ReadingsExist ==
    ASSUME NEW t, NEW n \in Nat, Len(t) = n
    PROVE  \E F : IsRead(F, t)
<1> DEFINE S == {r \in Nat : ~\E F : ReadUpTo(F, t, n, r)}
<1>0. \A a \in Web!Place(t) : Rank(a, n) \in Nat /\ Rank(a, n) < 2 * (n + 1) + 2
  <2>1. TAKE a \in Web!Place(t)
  <2>2. a[2] \in 0..(n + 1)
    BY DEF Web!Place
  <2>3. QED BY <2>2 DEF Rank
<1>1. S = {}
  <2>1. SUFFICES ASSUME S # {} PROVE FALSE
    OBVIOUS
  <2>2. PICK r \in S : \A j \in S : r <= j
    <3>1. S \subseteq Nat
      OBVIOUS
    <3> HIDE DEF S
    <3>2. QED BY <2>1, <3>1, Least
  <2>3. r # 0
    <3> DEFINE F == [a \in Web!Place(t) |-> 0]
    <3>1. F = [a \in Web!Place(t) |-> F[a]]
      OBVIOUS
    <3>2. \A a \in Web!Place(t) : ~(Rank(a, n) < 0)
      BY <1>0
    <3> HIDE DEF F
    <3>3. ReadUpTo(F, t, n, 0)
      BY <3>1, <3>2 DEF ReadUpTo
    <3>4. QED BY <2>2, <3>3
  <2>4. r \in Nat /\ r - 1 \in Nat /\ r - 1 \notin S
    <3>1. r \in Nat
      OBVIOUS
    <3>2. r - 1 \in Nat /\ ~(r <= r - 1)
      BY <2>3, <3>1
    <3> HIDE DEF S
    <3>3. QED BY <2>2, <3>1, <3>2
  <2>5. PICK F : ReadUpTo(F, t, n, r - 1)
    BY <2>4
  <2> DEFINE G == [a \in Web!Place(t) |->
                    IF Rank(a, n) < r - 1 THEN F[a] ELSE Reads(F, t, a)]
  <2>6. G = [a \in Web!Place(t) |-> G[a]]
    OBVIOUS
  <2>7. ASSUME NEW a \in Web!Place(t), Rank(a, n) < r
        PROVE  G[a] = Reads(G, t, a) /\ Lands(G[a], n, a[2])
    <3>1. G[a] = Reads(F, t, a)
      BY <2>5 DEF ReadUpTo
    <3>2. ASSUME NEW b \in Web!Place(t), Rank(b, n) < Rank(a, n)
          PROVE  F[b] = G[b] /\ Lands(F[b], n, b[2])
      <4>1. Rank(b, n) < r - 1
        <5>1. Rank(a, n) \in Nat /\ Rank(b, n) \in Nat
          BY <1>0
        <5>2. QED BY <2>4, <2>7, <3>2, <5>1
      <4>2. QED BY <2>5, <4>1 DEF ReadUpTo
    <3> HIDE DEF G
    <3>3. Earlier(F, G, t, n, a)
      BY <3>2 DEF Earlier
    <3>4. QED BY <3>1, <3>3, ReadsFromLater
  <2> HIDE DEF G
  <2>8. ReadUpTo(G, t, n, r)
    BY <2>6, <2>7 DEF ReadUpTo
  <2>9. QED BY <2>2, <2>8
<1>2. 2 * (n + 1) + 2 \in Nat
  OBVIOUS
<1>3. PICK F : ReadUpTo(F, t, n, 2 * (n + 1) + 2)
  BY <1>1, <1>2
<1>4. F = [a \in Web!Place(t) |-> F[a]] /\ \A a \in Web!Place(t) : F[a] = Reads(F, t, a)
  BY <1>0, <1>3 DEF ReadUpTo
<1>5. IsRead(F, t)
  BY <1>4 DEF IsRead
<1>6. QED BY <1>5

(* What Parse says of a text. *)
LEMMA ParseReads ==
    ASSUME NEW t, NEW n \in Nat, Len(t) = n, Web!Parse(t)
    PROVE  \E F : IsRead(F, t) /\ F[<<"value", 1, 0>>] = n + 1 /\ t # <<>>
<1> DEFINE F == CHOOSE G : IsRead(G, t)
<1>1. IsRead(F, t)
  <2>1. \E G : IsRead(G, t)
    BY ReadingsExist
  <2>2. QED BY <2>1, Zenon
<1>2. F = CHOOSE G : G = [a \in Web!Place(t) |->
                            IF a[1] = "value" THEN Web!Value(G, t, a[2], a[3])
                            ELSE Web!Elements(G, t, a[1], a[2], a[3])]
  BY DEF IsRead, Reads
<1> HIDE DEF F
<1>3. t # <<>> /\ F[<<"value", 1, 0>>] = n + 1
  BY <1>2 DEF Web!Parse
<1>4. QED BY <1>1, <1>3

(* A place is read as nothing, or ends at v. *)
At(F, t, k, p, d, v) == <<k, p, d>> \in Web!Place(t) => F[<<k, p, d>>] \in {0, v}

LEMMA ReadAt ==
    ASSUME NEW t, NEW n \in Nat, Len(t) = n, NEW F, IsRead(F, t), NEW k, NEW p, NEW d,
           <<k, p, d>> \in Web!Place(t)
    PROVE  /\ k \in {"value", "endArray", "endObject"} /\ p \in 0..(n + 1)
           /\ d \in 0..(MaxDepth + 1) /\ MaxDepth \in Nat
           /\ k = "value" => F[<<k, p, d>>] = Web!Value(F, t, p, d)
           /\ k # "value" => F[<<k, p, d>>] = Web!Elements(F, t, k, p, d)
<1>1. /\ k \in {"value", "endArray", "endObject"} /\ p \in 0..(n + 1)
      /\ d \in 0..(MaxDepth + 1) /\ MaxDepth \in Nat
  BY WebAssumption DEF Web!Place
<1>2. F[<<k, p, d>>] = Reads(F, t, <<k, p, d>>)
  BY DEF IsRead
<1>3. QED BY <1>1, <1>2 DEF Reads

LEMMA NumberAt ==
    ASSUME NEW t, NEW n \in Nat, Len(t) = n, NEW F, IsRead(F, t), NEW p, NEW d,
           NEW v, v = p + 1, Web!Token(t, p) \in {"number", "eof"}
    PROVE  At(F, t, "value", p, d, v)
<1>1. SUFFICES ASSUME <<"value", p, d>> \in Web!Place(t)
               PROVE  F[<<"value", p, d>>] \in {0, v}
  BY DEF At
<1>2. F[<<"value", p, d>>] = Web!Value(F, t, p, d)
  BY <1>1, ReadAt
<1>3. QED BY <1>2 DEF Web!Value

LEMMA OpenAt ==
    ASSUME NEW t, NEW n \in Nat, Len(t) = n, NEW F, IsRead(F, t), NEW p, NEW d, NEW k,
           NEW v,
           NEW q, q = p + 1,
           \/ k = "endArray" /\ Web!Token(t, p) \in {"array", "eof"}
           \/ k = "endObject" /\ Web!Token(t, p) \in {"object", "eof"},
           Web!Token(t, q) # k, At(F, t, k, q, d, v)
    PROVE  At(F, t, "value", p, d, v)
<1>1. SUFFICES ASSUME <<"value", p, d>> \in Web!Place(t)
               PROVE  F[<<"value", p, d>>] \in {0, v}
  BY DEF At
<1>2. F[<<"value", p, d>>] = Web!Value(F, t, p, d) /\ d \in 0..(MaxDepth + 1)
  BY <1>1, ReadAt
<1>3. CASE Web!Token(t, p) = "eof" \/ d > MaxDepth
  BY <1>2, <1>3 DEF Web!Value
<1>4. CASE Web!Token(t, p) # "eof" /\ ~(d > MaxDepth)
  <2>1. p + 1 \in 0..(n + 1) /\ k \in {"value", "endArray", "endObject"}
    <3>1. p \in 1..n
      BY <1>4, TokenThere
    <3>2. QED BY <3>1
  <2>2. <<k, p + 1, d>> \in Web!Place(t)
    BY <1>2, <2>1 DEF Web!Place
  <2>3. Web!Opened(F, t, k, p, d) \in {0, v}
    BY <2>2 DEF At, Web!Opened
  <2>4. Web!Value(F, t, p, d) = Web!Opened(F, t, k, p, d)
    BY <1>4 DEF Web!Value
  <2>5. QED BY <1>2, <2>3, <2>4
<1>5. QED BY <1>3, <1>4

(* An element, and what follows it. *)
ElementUpTo(F, t, n, k, p, d, m, l, e) ==
    /\ n \in Nat /\ Len(t) = n /\ IsRead(F, t) /\ k \in {"endArray", "endObject"}
    /\ l = d + 1 /\ Web!Member(t, k, p) \in {0, m} /\ At(F, t, "value", m, l, e)

LEMMA ElementAt ==
    ASSUME NEW t, NEW n, NEW F, NEW k, NEW p, NEW d, NEW m, NEW l, NEW e,
           ElementUpTo(F, t, n, k, p, d, m, l, e),
           <<k, p, d>> \in Web!Place(t), F[<<k, p, d>>] # 0
    PROVE  F[<<k, p, d>>] = After(F, t, k, e, d)
<1> USE DEF ElementUpTo
<1>1. F[<<k, p, d>>] = Web!Elements(F, t, k, p, d) /\ d \in 0..(MaxDepth + 1)
      /\ MaxDepth \in Nat
  BY ReadAt
<1>2. PICK end : end = ElementEnd(F, t, k, p, d)
  OBVIOUS
<1>3. F[<<k, p, d>>] = After(F, t, k, end, d)
  BY <1>1, <1>2, AfterEnd
<1>4. end \in {0, e}
  <2>1. CASE Web!Member(t, k, p) \in 1..n /\ d <= MaxDepth
    <3>1. Web!Member(t, k, p) = m /\ m \in 1..n
      BY <2>1
    <3>2. m \in 0..(n + 1) /\ d + 1 \in 0..(MaxDepth + 1)
      BY <1>1, <2>1, <3>1
    <3>3. <<"value", m, d + 1>> \in Web!Place(t)
      BY <3>2 DEF Web!Place
    <3>4. end = F[<<"value", m, d + 1>>]
      BY <1>2, <2>1, <3>1 DEF ElementEnd
    <3>5. QED BY <3>3, <3>4 DEF At
  <2>2. CASE ~(Web!Member(t, k, p) \in 1..n /\ d <= MaxDepth)
    BY <1>2, <2>2 DEF ElementEnd
  <2>3. QED BY <2>1, <2>2
<1>5. end # 0
  <2>1. SUFFICES ASSUME end = 0 PROVE FALSE
    OBVIOUS
  <2>2. Web!Token(t, 0) = "eof"
    BY DEF Web!Token
  <2>3. After(F, t, k, 0, d) = 0
    BY <2>2 DEF After
  <2>4. QED BY <1>3, <2>1, <2>3
<1>6. QED BY <1>3, <1>4, <1>5

LEMMA LastAt ==
    ASSUME NEW t, NEW n, NEW F, NEW k, NEW p, NEW d, NEW m, NEW l, NEW e,
           ElementUpTo(F, t, n, k, p, d, m, l, e),
           Web!Token(t, e) \in {k, "eof"}, NEW v, v = e + 1
    PROVE  At(F, t, k, p, d, v)
<1>1. SUFFICES ASSUME <<k, p, d>> \in Web!Place(t), F[<<k, p, d>>] # 0
               PROVE  F[<<k, p, d>>] = v
  BY DEF At
<1>2. F[<<k, p, d>>] = After(F, t, k, e, d)
  BY <1>1, ElementAt
<1>3. QED BY <1>1, <1>2 DEF After, ElementUpTo

LEMMA MoreAt ==
    ASSUME NEW t, NEW n, NEW F, NEW k, NEW p, NEW d, NEW m, NEW l, NEW e, NEW v,
           ElementUpTo(F, t, n, k, p, d, m, l, e),
           Web!Token(t, e) \in {"comma", "eof"}, NEW q, q = e + 1, At(F, t, k, q, d, v)
    PROVE  At(F, t, k, p, d, v)
<1>1. SUFFICES ASSUME <<k, p, d>> \in Web!Place(t), F[<<k, p, d>>] # 0
               PROVE  F[<<k, p, d>>] = v
  BY DEF At
<1>2. F[<<k, p, d>>] = After(F, t, k, e, d)
  BY <1>1, ElementAt
<1>3. Web!Token(t, e) = "comma" /\ F[<<k, p, d>>] = F[<<k, e + 1, d>>]
  BY <1>1, <1>2 DEF After, ElementUpTo
<1>4. e + 1 \in 0..(n + 1) /\ d \in 0..(MaxDepth + 1)
  <2>1. e \in 1..n
    BY <1>3, TokenThere DEF ElementUpTo
  <2>2. QED BY <1>1, <2>1, ReadAt DEF ElementUpTo
<1>5. <<k, e + 1, d>> \in Web!Place(t)
  BY <1>4 DEF Web!Place, ElementUpTo
<1>6. QED BY <1>1, <1>3, <1>5 DEF At

(* A text that begins as a document. *)
Begins(t, doc) == \A i \in 1..Len(doc) : Web!Token(t, i) \in {doc[i], "eof"}

LEMMA OnlyTheWhole ==
    ASSUME NEW t, NEW n \in Nat, Len(t) = n, NEW doc \in Documents, Begins(t, doc),
           Web!Parse(t)
    PROVE  n = Len(doc)
<1>1. PICK F : IsRead(F, t) /\ F[<<"value", 1, 0>>] = n + 1 /\ t # <<>>
  BY ParseReads
<1>2. /\ <<"value", 1, 0>> \in Web!Place(t) /\ n + 1 # 0
      /\ 1 = 0 + 1 /\ 2 = 1 + 1 /\ 3 = 2 + 1 /\ 4 = 3 + 1 /\ 5 = 4 + 1 /\ 6 = 5 + 1
      /\ 7 = 6 + 1 /\ 8 = 7 + 1 /\ 9 = 8 + 1 /\ 10 = 9 + 1
      /\ "endArray" \in {"endArray", "endObject"}
         /\ "endObject" \in {"endArray", "endObject"}
  BY WebAssumption DEF Web!Place
<1>3. CASE doc = <<"object", "string", "colon", "array", "number", "comma", "number",
                  "endArray", "endObject">>
  <2>0. Len(doc) = 9
    BY <1>3
  <2>1. /\ Web!Token(t, 1) \in {"object", "eof"} /\ Web!Token(t, 2) \in {"string", "eof"}
        /\ Web!Token(t, 3) \in {"colon", "eof"} /\ Web!Token(t, 4) \in {"array", "eof"}
        /\ Web!Token(t, 5) \in {"number", "eof"} /\ Web!Token(t, 6) \in {"comma", "eof"}
        /\ Web!Token(t, 7) \in {"number", "eof"} /\ Web!Token(t, 8) \in {"endArray", "eof"}
        /\ Web!Token(t, 9) \in {"endObject", "eof"}
    BY <1>3, <2>0 DEF Begins
  <2>2. /\ \A p : Web!Member(t, "endArray", p) = p
        /\ Web!Member(t, "endObject", 2) \in {0, 4}
    BY DEF Web!Member
  <2>3. At(F, t, "value", 7, 2, 8)
    BY <1>1, <1>2, <2>1, NumberAt
  <2>4. At(F, t, "endArray", 7, 1, 9)
    <3>1. ElementUpTo(F, t, n, "endArray", 7, 1, 7, 2, 8)
      BY <1>1, <1>2, <2>2, <2>3 DEF ElementUpTo
    <3>2. QED BY <1>2, <2>1, <3>1, LastAt
  <2>5. At(F, t, "value", 5, 2, 6)
    BY <1>1, <1>2, <2>1, NumberAt
  <2>6. At(F, t, "endArray", 5, 1, 9)
    <3>1. ElementUpTo(F, t, n, "endArray", 5, 1, 5, 2, 6)
      BY <1>1, <1>2, <2>2, <2>5 DEF ElementUpTo
    <3>2. QED BY <1>2, <2>1, <2>4, <3>1, MoreAt
  <2>7. At(F, t, "value", 4, 1, 9)
    BY <1>1, <1>2, <2>1, <2>6, OpenAt
  <2>8. At(F, t, "endObject", 2, 0, 10)
    <3>1. ElementUpTo(F, t, n, "endObject", 2, 0, 4, 1, 9)
      BY <1>1, <1>2, <2>2, <2>7 DEF ElementUpTo
    <3>2. QED BY <1>2, <2>1, <3>1, LastAt
  <2>9. At(F, t, "value", 1, 0, 10)
    BY <1>1, <1>2, <2>1, <2>8, OpenAt
  <2>10. n + 1 = 10
    BY <1>1, <1>2, <2>9 DEF At
  <2>11. QED BY <2>0, <2>10
<1>4. CASE doc = <<"object", "endObject">>
  <2>0. Len(doc) = 2
    BY <1>4
  <2>1. Web!Token(t, 1) \in {"object", "eof"} /\ Web!Token(t, 2) \in {"endObject", "eof"}
    BY <1>4, <2>0 DEF Begins
  <2>2. F[<<"value", 1, 0>>] = Web!Value(F, t, 1, 0)
    BY <1>1, <1>2, ReadAt
  <2>3. CASE Web!Token(t, 2) = "endObject"
    <3>1. Web!Value(F, t, 1, 0) \in {0, 3}
      BY <2>1, <2>3 DEF Web!Value, Web!Opened
    <3>2. n + 1 = 3
      BY <1>1, <1>2, <2>2, <3>1
    <3>3. QED BY <2>0, <3>2
  <2>4. CASE Web!Token(t, 2) = "eof"
    <3>1. Web!Member(t, "endObject", 2) = 0
      BY <2>4 DEF Web!Member
    <3>2. Web!Token(t, 3) \in {Web!Token(t, 3)}
      OBVIOUS
    <3>3. At(F, t, "value", 0, 1, 0)
      <4>1. Web!Token(t, 0) = "eof"
        BY DEF Web!Token
      <4>2. QED BY <1>1, <4>1, ReadAt DEF At, Web!Value
    <3>4. At(F, t, "endObject", 2, 0, 1)
      <4>1. Web!Token(t, 0) = "eof"
        BY DEF Web!Token
      <4>2. QED BY <1>1, <1>2, <3>1, <3>3, <4>1, LastAt DEF ElementUpTo
    <3>5. At(F, t, "value", 1, 0, 1)
      BY <1>1, <1>2, <2>1, <2>4, <3>4, OpenAt
    <3>6. n + 1 = 1
      BY <1>1, <1>2, <3>5 DEF At
    <3>7. n # 0
      BY <1>1
    <3>8. QED BY <3>6, <3>7
  <2>5. QED BY <2>1, <2>3, <2>4
<1>5. CASE doc = <<"array", "array", "array", "number", "endArray", "endArray", "endArray">>
  <2>0. Len(doc) = 7
    BY <1>5
  <2>1. /\ Web!Token(t, 1) \in {"array", "eof"} /\ Web!Token(t, 2) \in {"array", "eof"}
        /\ Web!Token(t, 3) \in {"array", "eof"} /\ Web!Token(t, 4) \in {"number", "eof"}
        /\ Web!Token(t, 5) \in {"endArray", "eof"}
           /\ Web!Token(t, 6) \in {"endArray", "eof"}
        /\ Web!Token(t, 7) \in {"endArray", "eof"}
    BY <1>5, <2>0 DEF Begins
  <2>2. \A p : Web!Member(t, "endArray", p) = p
    BY DEF Web!Member
  <2>3. At(F, t, "value", 4, 3, 5)
    BY <1>1, <1>2, <2>1, NumberAt
  <2>4. At(F, t, "endArray", 4, 2, 6)
    <3>1. ElementUpTo(F, t, n, "endArray", 4, 2, 4, 3, 5)
      BY <1>1, <1>2, <2>2, <2>3 DEF ElementUpTo
    <3>2. QED BY <1>2, <2>1, <3>1, LastAt
  <2>5. At(F, t, "value", 3, 2, 6)
    BY <1>1, <1>2, <2>1, <2>4, OpenAt
  <2>6. At(F, t, "endArray", 3, 1, 7)
    <3>1. ElementUpTo(F, t, n, "endArray", 3, 1, 3, 2, 6)
      BY <1>1, <1>2, <2>2, <2>5 DEF ElementUpTo
    <3>2. QED BY <1>2, <2>1, <3>1, LastAt
  <2>7. At(F, t, "value", 2, 1, 7)
    BY <1>1, <1>2, <2>1, <2>6, OpenAt
  <2>8. At(F, t, "endArray", 2, 0, 8)
    <3>1. ElementUpTo(F, t, n, "endArray", 2, 0, 2, 1, 7)
      BY <1>1, <1>2, <2>2, <2>7 DEF ElementUpTo
    <3>2. QED BY <1>2, <2>1, <3>1, LastAt
  <2>9. At(F, t, "value", 1, 0, 8)
    BY <1>1, <1>2, <2>1, <2>8, OpenAt
  <2>10. n + 1 = 8
    BY <1>1, <1>2, <2>9 DEF At
  <2>11. QED BY <2>0, <2>10
<1>6. QED BY <1>3, <1>4, <1>5 DEF Documents

LEMMA ReadEnds ==
    ASSUME NEW t, NEW n \in Nat, Len(t) = n, NEW F, IsRead(F, t), NEW a \in Web!Place(t)
    PROVE  Lands(F[a], n, a[2])
<1> DEFINE Bad(r) == \E b \in Web!Place(t) : Rank(b, n) = r /\ ~Lands(F[b], n, b[2])
           S == {r \in Nat : Bad(r)}
<1>1. \A b \in Web!Place(t) : Rank(b, n) \in Nat
  <2>1. TAKE b \in Web!Place(t)
  <2>2. b[2] \in 0..(n + 1)
    BY DEF Web!Place
  <2>3. QED BY <2>2 DEF Rank
<1>2. SUFFICES ASSUME S # {} PROVE FALSE
  <2>1. Rank(a, n) \in Nat
    BY <1>1
  <2>2. ~Bad(Rank(a, n))
    BY <2>1
  <2>3. QED BY <2>2
<1>3. PICK r \in S : \A j \in S : r <= j
  <2>1. S \subseteq Nat
    OBVIOUS
  <2> HIDE DEF S
  <2>2. QED BY <1>2, <2>1, Least
<1>4. PICK b \in Web!Place(t) : Rank(b, n) = r /\ ~Lands(F[b], n, b[2])
  OBVIOUS
<1>5. ASSUME NEW c \in Web!Place(t), Rank(c, n) < Rank(b, n)
      PROVE  F[c] = F[c] /\ Lands(F[c], n, c[2])
  <2>1. Rank(c, n) \in Nat /\ Rank(b, n) \in Nat
    BY <1>1
  <2>2. ~(r <= Rank(c, n))
    BY <1>4, <1>5, <2>1
  <2>3. Rank(c, n) \notin S
    <3> HIDE DEF S
    <3>1. QED BY <1>3, <2>2
  <2>4. ~Bad(Rank(c, n))
    BY <2>1, <2>3
  <2>5. QED BY <2>4
<1>6. Earlier(F, F, t, n, b)
  BY <1>5 DEF Earlier
<1>7. F[b] = Reads(F, t, b)
  BY DEF IsRead
<1>8. Lands(Reads(F, t, b), n, b[2])
  BY <1>6, ReadsFromLater
<1>9. QED BY <1>4, <1>7, <1>8

LEMMA ElementEnds ==
    ASSUME NEW t, NEW n \in Nat, Len(t) = n, NEW F, IsRead(F, t),
           NEW k \in {"endArray", "endObject"}, NEW p \in 0..(n + 1),
           NEW d \in 0..(MaxDepth + 1)
    PROVE  Lands(ElementEnd(F, t, k, p, d), n, p)
<1>1. PICK q : q = Web!Member(t, k, p)
  OBVIOUS
<1>2. CASE q \in 1..n /\ d <= MaxDepth
  <2>1. q \in p..(n + 1)
    BY <1>1, <1>2 DEF Web!Member
  <2>2. q \in 0..(n + 1) /\ d + 1 \in 0..(MaxDepth + 1)
    BY <1>2, WebAssumption
  <2>3. <<"value", q, d + 1>> \in Web!Place(t) /\ <<"value", q, d + 1>>[2] = q
    BY <2>2 DEF Web!Place
  <2>4. Lands(F[<<"value", q, d + 1>>], n, q)
    BY <2>3, ReadEnds
  <2>5. Lands(F[<<"value", q, d + 1>>], n, p)
    BY <2>1, <2>4, EndsLater
  <2>6. QED BY <1>1, <1>2, <2>5 DEF ElementEnd
<1>3. CASE ~(q \in 1..n /\ d <= MaxDepth)
  <2>1. ElementEnd(F, t, k, p, d) = 0
    BY <1>1, <1>3 DEF ElementEnd
  <2>2. QED BY <2>1 DEF Lands
<1>4. QED BY <1>2, <1>3

(* What is read of a part of a text is read of the text as well. *)
IsPart(s, n, t, m) ==
    /\ n \in Nat /\ m \in Nat /\ n <= m /\ Len(s) = n /\ Len(t) = m
    /\ \A i \in 1..n : s[i] = t[i]
Same(F, G, k, p, d) == F[<<k, p, d>>] # 0 => G[<<k, p, d>>] = F[<<k, p, d>>]

LEMMA TokenOfPart ==
    ASSUME NEW s, NEW n, NEW t, NEW m, IsPart(s, n, t, m), NEW p, Web!Token(s, p) # "eof"
    PROVE  p \in 1..n /\ Web!Token(t, p) = Web!Token(s, p)
  BY DEF IsPart, Web!Token

LEMMA NothingAtEnd ==
    ASSUME NEW s, NEW n \in Nat, Len(s) = n, NEW F, IsRead(F, s), NEW d,
           NEW k \in {"endArray", "endObject"}, <<k, n + 1, d>> \in Web!Place(s)
    PROVE  F[<<k, n + 1, d>>] = 0
<1>1. F[<<k, n + 1, d>>] = Web!Elements(F, s, k, n + 1, d)
  BY ReadAt
<1>2. n + 1 \notin 1..n /\ 0 \notin 1..n
  OBVIOUS
<1>3. Web!Token(s, n + 1) = "eof" /\ Web!Token(s, 0) = "eof"
  BY <1>2 DEF Web!Token
<1>4. Web!Member(s, k, n + 1) \notin 1..n
  BY <1>2, <1>3 DEF Web!Member
<1>5. ElementEnd(F, s, k, n + 1, d) = 0
  BY <1>4 DEF ElementEnd
<1>6. QED BY <1>1, <1>3, <1>5, AfterEnd DEF After

LEMMA ValueOfPart ==
    ASSUME NEW s, NEW n, NEW t, NEW m, IsPart(s, n, t, m), NEW F, NEW G, IsRead(F, s),
           NEW p, NEW d \in 0..(MaxDepth + 1), Web!Value(F, s, p, d) # 0,
           \A k \in {"endArray", "endObject"} : p \in 1..n => Same(F, G, k, p + 1, d)
    PROVE  Web!Value(G, t, p, d) = Web!Value(F, s, p, d)
<1>1. ~(d > MaxDepth) /\ Web!Token(s, p) # "eof"
  BY DEF Web!Value
<1>2. p \in 1..n /\ Web!Token(t, p) = Web!Token(s, p)
  BY <1>1, TokenOfPart
<1>3. n \in Nat /\ Len(s) = n
  BY DEF IsPart
<1>4. ASSUME NEW k \in {"endArray", "endObject"}, Web!Opened(F, s, k, p, d) # 0
      PROVE  Web!Opened(G, t, k, p, d) = Web!Opened(F, s, k, p, d)
  <2>1. CASE Web!Token(s, p + 1) = k
    <3>1. Web!Token(t, p + 1) = k
      BY <2>1, TokenOfPart
    <3>2. QED BY <2>1, <3>1 DEF Web!Opened
  <2>2. CASE Web!Token(s, p + 1) # k
    <3>1. F[<<k, p + 1, d>>] # 0
      BY <1>4, <2>2 DEF Web!Opened
    <3>2. p + 1 # n + 1
      <4>1. SUFFICES ASSUME p + 1 = n + 1 PROVE FALSE
        OBVIOUS
      <4>2. <<k, n + 1, d>> \in Web!Place(s)
        BY <1>3 DEF Web!Place
      <4>3. F[<<k, n + 1, d>>] = 0
        BY <1>3, <4>2, NothingAtEnd
      <4>4. <<k, p + 1, d>> = <<k, n + 1, d>>
        BY <4>1
      <4>5. QED BY <3>1, <4>3, <4>4
    <3>3. p + 1 \in 1..n
      BY <1>2, <1>3, <3>2
    <3>4. Web!Token(t, p + 1) = Web!Token(s, p + 1)
      BY <1>3, <3>3 DEF IsPart, Web!Token
    <3>5. G[<<k, p + 1, d>>] = F[<<k, p + 1, d>>]
      BY <1>2, <3>1 DEF Same
    <3>6. QED BY <2>2, <3>4, <3>5 DEF Web!Opened
  <2>3. QED BY <2>1, <2>2
<1>5. CASE Web!Token(s, p) \in {"string", "number"}
  BY <1>1, <1>2, <1>5 DEF Web!Value
<1>6. CASE Web!Token(s, p) = "array"
  <2>1. /\ Web!Value(F, s, p, d) = Web!Opened(F, s, "endArray", p, d)
        /\ Web!Value(G, t, p, d) = Web!Opened(G, t, "endArray", p, d)
    BY <1>1, <1>2, <1>6 DEF Web!Value
  <2>2. QED BY <1>4, <2>1
<1>7. CASE Web!Token(s, p) = "object"
  <2>1. /\ Web!Value(F, s, p, d) = Web!Opened(F, s, "endObject", p, d)
        /\ Web!Value(G, t, p, d) = Web!Opened(G, t, "endObject", p, d)
    BY <1>1, <1>2, <1>7 DEF Web!Value
  <2>2. QED BY <1>4, <2>1
<1>8. Web!Token(s, p) \in {"string", "number", "array", "object"}
  BY DEF Web!Value
<1>9. QED BY <1>5, <1>6, <1>7, <1>8

LEMMA ElementsOfPart ==
    ASSUME NEW s, NEW n, NEW t, NEW m, IsPart(s, n, t, m), NEW F, NEW G,
           NEW k \in {"endArray", "endObject"}, NEW p \in Nat, NEW d,
           Web!Elements(F, s, k, p, d) # 0,
           \A q \in p..n : d <= MaxDepth => Same(F, G, "value", q, d + 1),
           \A end \in 1..n : end = ElementEnd(F, s, k, p, d) => Same(F, G, k, end + 1, d)
    PROVE  Web!Elements(G, t, k, p, d) = Web!Elements(F, s, k, p, d)
<1>1. PICK end : end = ElementEnd(F, s, k, p, d)
  OBVIOUS
<1>2. Web!Elements(F, s, k, p, d) = After(F, s, k, end, d)
  BY <1>1, AfterEnd
<1>3. Web!Token(s, end) \in {"comma", k}
  BY <1>2 DEF After
<1>4. end \in 1..n /\ Web!Token(t, end) = Web!Token(s, end)
  BY <1>3, TokenOfPart
<1>5. PICK member : member = Web!Member(s, k, p)
  OBVIOUS
<1>6. n \in Nat /\ m \in Nat /\ n <= m /\ Len(s) = n /\ Len(t) = m
  BY DEF IsPart
<1>7. member \in 1..n /\ d <= MaxDepth /\ end = F[<<"value", member, d + 1>>]
  <2>1. end # 0
    BY <1>4
  <2>2. QED BY <1>1, <1>5, <1>6, <2>1 DEF ElementEnd
<1>8. Web!Member(t, k, p) = member
  <2>1. CASE k = "endArray"
    BY <1>5, <2>1 DEF Web!Member
  <2>2. CASE k # "endArray"
    <3>1. Web!Token(s, p) = "string" /\ Web!Token(s, p + 1) = "colon" /\ member = p + 2
      BY <1>5, <1>7, <2>2 DEF Web!Member
    <3>2. Web!Token(t, p) = "string" /\ Web!Token(t, p + 1) = "colon"
      BY <3>1, TokenOfPart
    <3>3. QED BY <2>2, <3>1, <3>2 DEF Web!Member
  <2>3. QED BY <2>1, <2>2
<1>9. ElementEnd(G, t, k, p, d) = end
  <2>1. member \in p..n /\ member \in 1..m
    BY <1>5, <1>6, <1>7 DEF Web!Member
  <2>2. Same(F, G, "value", member, d + 1)
    BY <1>7, <2>1
  <2>3. G[<<"value", member, d + 1>>] = end
    BY <1>4, <1>7, <2>2 DEF Same
  <2>4. QED BY <1>6, <1>7, <1>8, <2>1, <2>3 DEF ElementEnd
<1>10. After(G, t, k, end, d) = After(F, s, k, end, d)
  <2>1. CASE Web!Token(s, end) = "comma"
    <3>1. After(F, s, k, end, d) = F[<<k, end + 1, d>>]
      BY <2>1 DEF After
    <3>2. G[<<k, end + 1, d>>] = F[<<k, end + 1, d>>]
      BY <1>1, <1>2, <1>4, <3>1 DEF Same
    <3>3. QED BY <1>4, <2>1, <3>1, <3>2 DEF After
  <2>2. CASE Web!Token(s, end) = k /\ k # "comma"
    BY <1>4, <2>2 DEF After
  <2>3. QED BY <1>3, <2>1, <2>2
<1>11. QED BY <1>2, <1>9, <1>10, AfterEnd

LEMMA ReadOfPart ==
    ASSUME NEW s, NEW n, NEW t, NEW m, IsPart(s, n, t, m), NEW F, NEW G,
           IsRead(F, s), IsRead(G, t), NEW a \in Web!Place(s), F[a] # 0
    PROVE  G[a] = F[a]
<1> DEFINE Bad(r) == \E b \in Web!Place(s) : Rank(b, n) = r /\ F[b] # 0 /\ G[b] # F[b]
           S == {r \in Nat : Bad(r)}
<1>0. n \in Nat /\ m \in Nat /\ n <= m /\ Len(s) = n /\ Len(t) = m /\ MaxDepth \in Nat
  BY WebAssumption DEF IsPart
<1>1. \A b \in Web!Place(s) : Rank(b, n) \in Nat /\ b \in Web!Place(t)
  <2>1. TAKE b \in Web!Place(s)
  <2>2. PICK k \in {"value", "endArray", "endObject"}, p \in 0..(n + 1),
             d \in 0..(MaxDepth + 1) : b = <<k, p, d>>
    BY <1>0 DEF Web!Place
  <2>3. p \in 0..(m + 1)
    BY <1>0
  <2>4. b \in Web!Place(t)
    BY <1>0, <2>2, <2>3 DEF Web!Place
  <2>5. b[2] = p /\ b[1] = k
    BY <2>2
  <2>6. QED BY <1>0, <2>4, <2>5 DEF Rank
<1>2. SUFFICES ASSUME S # {} PROVE FALSE
  <2>1. Rank(a, n) \in Nat
    BY <1>1
  <2>2. Rank(a, n) \notin S => ~Bad(Rank(a, n))
    BY <2>1
  <2>3. QED BY <2>2
<1>3. PICK r \in S : \A j \in S : r <= j
  <2>1. S \subseteq Nat
    OBVIOUS
  <2> HIDE DEF S
  <2>2. QED BY <1>2, <2>1, Least
<1>4. PICK b \in Web!Place(s) : Rank(b, n) = r /\ F[b] # 0 /\ G[b] # F[b]
  OBVIOUS
<1>5. PICK k \in {"value", "endArray", "endObject"}, p \in 0..(n + 1),
           d \in 0..(MaxDepth + 1) : b = <<k, p, d>>
  BY <1>0 DEF Web!Place
<1>6. r \in Nat /\ r = 2 * ((n + 1) - p) + (IF k = "value" THEN 0 ELSE 1)
  BY <1>4, <1>5 DEF Rank
<1>7. ASSUME NEW c \in {"value", "endArray", "endObject"}, NEW q \in 0..(n + 1),
             NEW e \in 0..(MaxDepth + 1),
             2 * ((n + 1) - q) + (IF c = "value" THEN 0 ELSE 1) < r
      PROVE  Same(F, G, c, q, e)
  <2>1. <<c, q, e>> \in Web!Place(s)
    BY <1>0 DEF Web!Place
  <2>2. Rank(<<c, q, e>>, n) = 2 * ((n + 1) - q) + (IF c = "value" THEN 0 ELSE 1)
    BY DEF Rank
  <2>3. Rank(<<c, q, e>>, n) \in Nat /\ ~(r <= Rank(<<c, q, e>>, n))
    <3>1. \A x, y \in Nat : x < y => ~(y <= x)
      OBVIOUS
    <3>2. QED BY <1>1, <1>6, <1>7, <2>1, <2>2, <3>1
  <2>4. Rank(<<c, q, e>>, n) \notin S
    BY <1>3, <2>3
  <2>5. ~Bad(Rank(<<c, q, e>>, n))
    BY <2>3, <2>4
  <2>6. QED BY <2>1, <2>5 DEF Same
<1>8. b \in Web!Place(t)
  BY <1>1
<1>9. /\ k = "value" => F[b] = Web!Value(F, s, p, d) /\ G[b] = Web!Value(G, t, p, d)
      /\ k # "value" => F[b] = Web!Elements(F, s, k, p, d)
         /\ G[b] = Web!Elements(G, t, k, p, d)
  BY <1>0, <1>4, <1>5, <1>8, ReadAt
<1> HIDE DEF Bad, S
<1>10. CASE k = "value"
  <2>1. ASSUME NEW c \in {"endArray", "endObject"}, p \in 1..n
        PROVE  Same(F, G, c, p + 1, d)
    <3>1. p + 1 \in 0..(n + 1) /\ 2 * ((n + 1) - (p + 1)) + 1 < 2 * ((n + 1) - p) + 0
      BY <1>0, <2>1
    <3>2. QED BY <1>6, <1>7, <1>10, <3>1
  <2>2. Web!Value(F, s, p, d) # 0
    BY <1>4, <1>9, <1>10
  <2>3. Web!Value(G, t, p, d) = Web!Value(F, s, p, d)
    BY <2>1, <2>2, ValueOfPart
  <2>4. QED BY <1>4, <1>9, <1>10, <2>3
<1>11. CASE k # "value"
  <2>1. ASSUME NEW q \in p..n, d <= MaxDepth
        PROVE  Same(F, G, "value", q, d + 1)
    <3>1. q \in 0..(n + 1) /\ 2 * ((n + 1) - q) + 0 < 2 * ((n + 1) - p) + 1
      BY <1>0
    <3>2. d + 1 \in 0..(MaxDepth + 1)
      BY <1>0, <2>1
    <3>3. QED BY <1>6, <1>7, <1>11, <3>1, <3>2
  <2>2. k \in {"endArray", "endObject"} /\ p \in Nat
    BY <1>0, <1>11
  <2>3. ASSUME NEW end \in 1..n, end = ElementEnd(F, s, k, p, d)
        PROVE  Same(F, G, k, end + 1, d)
    <3>1. end \in p..n
      <4>1. Lands(end, n, p)
        BY <1>0, <2>2, <2>3, ElementEnds
      <4>2. QED BY <1>0, <4>1 DEF Lands
    <3>2. end + 1 \in 0..(n + 1) /\ 2 * ((n + 1) - (end + 1)) + 1 < 2 * ((n + 1) - p) + 1
      BY <1>0, <3>1
    <3>3. QED BY <1>6, <1>7, <1>11, <3>2
  <2>4. Web!Elements(F, s, k, p, d) # 0
    BY <1>4, <1>9, <1>11
  <2>5. Web!Elements(G, t, k, p, d) = Web!Elements(F, s, k, p, d)
    BY <2>1, <2>2, <2>3, <2>4, ElementsOfPart
  <2>6. QED BY <1>4, <1>9, <1>11, <2>5
<1>12. QED BY <1>10, <1>11

(* A part of a text that is a document is none. *)
THEOREM NoPartParses ==
    ASSUME NEW s, NEW n, NEW t, NEW m, IsPart(s, n, t, m), n # m, Web!Parse(t)
    PROVE  ~Web!Parse(s)
<1>0. n \in Nat /\ m \in Nat /\ Len(s) = n /\ Len(t) = m
  BY DEF IsPart
<1>1. SUFFICES ASSUME Web!Parse(s) PROVE FALSE
  OBVIOUS
<1>2. PICK F : IsRead(F, s) /\ F[<<"value", 1, 0>>] = n + 1
  BY <1>0, <1>1, ParseReads
<1>3. PICK G : IsRead(G, t) /\ G[<<"value", 1, 0>>] = m + 1
  BY <1>0, ParseReads
<1>4. <<"value", 1, 0>> \in Web!Place(s)
  BY <1>0, WebAssumption DEF Web!Place
<1>5. n + 1 # 0 /\ n + 1 # m + 1
  BY <1>0
<1>6. G[<<"value", 1, 0>>] = F[<<"value", 1, 0>>]
  BY <1>2, <1>3, <1>4, <1>5, ReadOfPart
<1>7. QED BY <1>2, <1>3, <1>5, <1>6

----------------------------------------------------------------------------
(* The best of two sensors is the same in either order. *)

FirstBest(s) == Web!Better(Web!Better(Web!NoSensor, s[1]), s[2])
IsBestFold(it, s) ==
    it = [q \in SUBSET (1..2) |->
            IF q = {} THEN Web!NoSensor
            ELSE Web!Better(it[q \ {Web!Max(q)}], s[Web!Max(q)])]

LEMMA MaxOf ==
    ASSUME NEW k \in Nat, NEW q \in SUBSET (1..k), k \in q
    PROVE  Web!Max(q) = k
<1>1. \A y \in q : k >= y
  OBVIOUS
<1>2. \E m \in q : \A y \in q : m >= y
  BY <1>1
<1>3. Web!Max(q) \in q /\ \A y \in q : Web!Max(q) >= y
  BY <1>2, Zenon DEF Web!Max
<1>4. Web!Max(q) \in 1..k /\ Web!Max(q) >= k
  BY <1>3
<1>5. QED BY <1>4

LEMMA BestOfTwo ==
    ASSUME NEW s, Len(s) = 2
    PROVE  Web!Best(s) = FirstBest(s)
<1> DEFINE it == CHOOSE f : IsBestFold(f, s)
           F == [q \in SUBSET (1..2) |->
                   IF q = {} THEN Web!NoSensor
                   ELSE IF 2 \notin q THEN Web!Better(Web!NoSensor, s[1])
                   ELSE IF 1 \notin q THEN Web!Better(Web!NoSensor, s[2])
                   ELSE FirstBest(s)]
<1>1. 1 \in Nat /\ 2 \in Nat /\ 1..1 = {1} /\ 1..2 = {1, 2}
  OBVIOUS
<1>2. Web!Max({1}) = 1 /\ Web!Max({2}) = 2 /\ Web!Max({1, 2}) = 2
  <2>1. {1} \in SUBSET (1..1) /\ {2} \in SUBSET (1..2) /\ {1, 2} \in SUBSET (1..2)
    BY <1>1
  <2>2. QED BY <1>1, <2>1, MaxOf
<1>3. {1} \ {1} = {} /\ {2} \ {2} = {} /\ {1, 2} \ {2} = {1}
  OBVIOUS
<1>4. ASSUME NEW q \in SUBSET (1..2)
      PROVE  F[q] = IF q = {} THEN Web!NoSensor
                    ELSE Web!Better(F[q \ {Web!Max(q)}], s[Web!Max(q)])
  <2>1. /\ F[{}] = Web!NoSensor /\ F[{1}] = Web!Better(Web!NoSensor, s[1])
        /\ F[{2}] = Web!Better(Web!NoSensor, s[2]) /\ F[{1, 2}] = FirstBest(s)
    BY <1>1
  <2>2. q = {} \/ q = {1} \/ q = {2} \/ q = {1, 2}
    <3>1. \A x \in q : x = 1 \/ x = 2
      BY <1>1
    <3>2. QED BY <3>1
  <2> HIDE DEF F
  <2>3. QED BY <1>2, <1>3, <2>1, <2>2 DEF FirstBest
<1>5. F = [q \in SUBSET (1..2) |-> F[q]]
  OBVIOUS
<1> HIDE DEF F
<1>6. IsBestFold(F, s)
  BY <1>4, <1>5 DEF IsBestFold
<1>7. IsBestFold(it, s)
  BY <1>6, Zenon
<1>8. Web!Best(s) = it[1..2]
  BY DEF IsBestFold, Web!Best, Web!FoldLeft, Web!MapThenFoldSet
<1> HIDE DEF it
<1>9. ASSUME NEW q \in SUBSET (1..2)
      PROVE  it[q] = IF q = {} THEN Web!NoSensor
                     ELSE Web!Better(it[q \ {Web!Max(q)}], s[Web!Max(q)])
  BY <1>7 DEF IsBestFold
<1>10. it[{}] = Web!NoSensor
  BY <1>9
<1>11. it[{1}] = Web!Better(it[{}], s[1])
  <2>1. {1} \in SUBSET (1..2) /\ {1} # {}
    OBVIOUS
  <2>2. it[{1}] = Web!Better(it[{1} \ {Web!Max({1})}], s[Web!Max({1})])
    BY <1>9, <2>1
  <2>3. QED BY <1>2, <1>3, <2>2
<1>12. it[{1, 2}] = Web!Better(it[{1}], s[2])
  <2>1. {1, 2} \in SUBSET (1..2) /\ {1, 2} # {}
    OBVIOUS
  <2>2. it[{1, 2}] = Web!Better(it[{1, 2} \ {Web!Max({1, 2})}], s[Web!Max({1, 2})])
    BY <1>9, <2>1
  <2>3. QED BY <1>2, <1>3, <2>2
<1>13. QED BY <1>1, <1>8, <1>10, <1>11, <1>12 DEF FirstBest

LEMMA BestIsBest == Web!OrderIsIrrelevant
<1>1. SUFFICES ASSUME NEW sensors \in Web!Sensors
               PROVE  Web!Best(sensors).id = Web!Best(Web!Reverse(sensors)).id
  BY DEF Web!OrderIsIrrelevant
<1>2. PICK x, y : x = sensors[1] /\ y = sensors[2]
  OBVIOUS
<1>3. x \in Web!Sensor /\ y \in Web!Sensor /\ Len(sensors) = 2
  BY <1>2 DEF Web!Sensors
<1>4. /\ Len(Web!Reverse(sensors)) = 2
      /\ Web!Reverse(sensors)[1] = y /\ Web!Reverse(sensors)[2] = x
  BY <1>2, <1>3 DEF Web!Reverse
<1>5. /\ Web!Best(sensors) = Web!Better(Web!Better(Web!NoSensor, x), y)
      /\ Web!Best(Web!Reverse(sensors)) = Web!Better(Web!Better(Web!NoSensor, y), x)
  BY <1>2, <1>3, <1>4, BestOfTwo DEF FirstBest
<1>6. x # Web!NoSensor /\ y # Web!NoSensor /\ x.score \in Int /\ y.score \in Int
      /\ x.id \in Int /\ y.id \in Int
  BY <1>3 DEF Web!Sensor, Web!NoSensor
<1>7. CASE Web!ValidTemperature(x) /\ Web!ValidTemperature(y)
  <2>1. /\ Web!Best(sensors) = IF Web!Before(y, x) THEN y ELSE x
        /\ Web!Best(Web!Reverse(sensors)) = IF Web!Before(x, y) THEN x ELSE y
    BY <1>5, <1>6, <1>7 DEF Web!Better
  <2>2. ~(Web!Before(x, y) /\ Web!Before(y, x))
    BY <1>6 DEF Web!Before
  <2>3. ~Web!Before(x, y) /\ ~Web!Before(y, x) => x.id = y.id
    BY <1>6 DEF Web!Before
  <2>4. QED BY <2>1, <2>2, <2>3
<1>8. CASE ~(Web!ValidTemperature(x) /\ Web!ValidTemperature(y))
  BY <1>5, <1>6, <1>8 DEF Web!Better
<1>9. QED BY <1>7, <1>8

----------------------------------------------------------------------------
(* What is taken is a document. *)

Taking(r) == r = Web!NoResult \/ r.body \in Documents
WebInv ==
    /\ answer \in Web!Answer
    /\ lhmAt \in {"idle", "send", "read", "apply"}
    /\ raw \in 0..Web!Wire /\ lhmLeft \in 0..Deadline
    /\ Taking(lhmResult) /\ Taking(taken)

(* A byte of a document, and one after it. *)
Symbol ==
    {"object", "endObject", "array", "endArray", "string", "colon", "number", "comma", "x"}

LEMMA OneElement ==
    ASSUME NEW S, NEW x \in S
    PROVE  <<x>> \in Seq(S) /\ Len(<<x>>) = 1
OBVIOUS

LEMMA ElementsOf ==
    ASSUME NEW S, NEW a \in S, NEW b \in S, NEW c \in S
    PROVE  /\ <<a, b>> \in Seq(S) /\ Len(<<a, b>>) \in Nat
           /\ <<a, a, a, b, c, c, c>> \in Seq(S) /\ Len(<<a, a, a, b, c, c, c>>) \in Nat
OBVIOUS

LEMMA NineOf ==
    ASSUME NEW S, NEW a \in S, NEW b \in S, NEW c \in S, NEW d \in S, NEW e \in S,
           NEW f \in S, NEW g \in S, NEW h \in S
    PROVE  /\ <<a, b, c, d, e, f, e, g, h>> \in Seq(S)
           /\ Len(<<a, b, c, d, e, f, e, g, h>>) \in Nat
OBVIOUS

LEMMA DocumentTexts ==
    ASSUME NEW doc \in Documents
    PROVE  doc \in Seq(Symbol) /\ Len(doc) \in Nat
<1>1. /\ "object" \in Symbol /\ "endObject" \in Symbol /\ "array" \in Symbol
      /\ "endArray" \in Symbol /\ "string" \in Symbol /\ "colon" \in Symbol
      /\ "number" \in Symbol /\ "comma" \in Symbol
  BY DEF Symbol
<1>2. CASE doc = <<"object", "string", "colon", "array", "number", "comma", "number",
                   "endArray", "endObject">>
  BY <1>1, <1>2, NineOf, Zenon
<1>3. CASE doc = <<"object", "endObject">>
  BY <1>1, <1>3, ElementsOf, Zenon
<1>4. CASE doc = <<"array", "array", "array", "number", "endArray", "endArray", "endArray">>
  BY <1>1, <1>4, ElementsOf, Zenon
<1>5. QED BY <1>2, <1>3, <1>4, Zenon DEF Documents

LEMMA BodyBegins ==
    ASSUME answer \in Web!Answer
    PROVE  /\ Web!Body \in Seq(Symbol) /\ Len(Web!Body) \in Nat
           /\ answer.document \in Documents /\ Len(answer.document) <= Len(Web!Body)
           /\ \A i \in 1..Len(answer.document) : Web!Body[i] = answer.document[i]
<1>1. PICK doc \in Documents : doc = answer.document
  BY DEF Web!Answer
<1>2. doc \in Seq(Symbol) /\ Len(doc) \in Nat
  BY DocumentTexts
<1>3. CASE answer.extra
  <2>1. Web!Body = doc \o <<"x">>
    BY <1>1, <1>3 DEF Web!Body
  <2>2. <<"x">> \in Seq(Symbol) /\ Len(<<"x">>) = 1
    <3>1. "x" \in Symbol
      BY DEF Symbol
    <3>2. QED BY <3>1, OneElement, Zenon
  <2>3. /\ doc \o <<"x">> \in Seq(Symbol) /\ Len(doc \o <<"x">>) = Len(doc) + 1
        /\ \A i \in 1..Len(doc) : (doc \o <<"x">>)[i] = doc[i]
    BY <1>2, <2>2, ConcatProperties
  <2>4. QED BY <1>1, <1>2, <2>1, <2>3
<1>4. CASE ~answer.extra
  <2>1. Web!Body = doc
    BY <1>1, <1>4 DEF Web!Body
  <2>2. QED BY <1>1, <1>2, <2>1
<1>5. QED BY <1>3, <1>4

LEMMA WireLength ==
    ASSUME answer \in Web!Answer
    PROVE  /\ Web!Wire \in Nat /\ Web!Wire >= 1 + Len(Web!Body)
           /\ Web!Wire <= 2 + Len(Web!Body)
  BY BodyBegins DEF Web!Wire, Web!Header

(* What was received when the answer is done is the document, or no text of   *)
(* a document. *)
LEMMA ReceivedDocument ==
    ASSUME answer \in Web!Answer, NEW n \in 1..Web!Wire, Web!Parse(Web!Received(n))
    PROVE  Web!Received(n) \in Documents
<1>1. PICK body, doc : /\ body = Web!Body /\ doc = answer.document
  OBVIOUS
<1>2. /\ body \in Seq(Symbol) /\ Len(body) \in Nat /\ doc \in Documents
      /\ Len(doc) <= Len(body) /\ \A i \in 1..Len(doc) : body[i] = doc[i]
  BY <1>1, BodyBegins
<1>3. doc \in Seq(Symbol) /\ Len(doc) \in Nat
  BY <1>2, DocumentTexts
<1>4. PICK t : t = Web!Received(n)
  OBVIOUS
<1>5. /\ t \in Seq(Symbol) /\ Len(t) \in Nat /\ Len(t) <= Len(body)
      /\ \A i \in 1..Len(t) : t[i] = body[i]
  <2>1. CASE n = Web!Wire
    BY <1>1, <1>2, <1>4, <2>1 DEF Web!Received
  <2>2. CASE n # Web!Wire
    <3>1. t = SubSeq(body, 1, n - 1)
      BY <1>1, <1>4, <2>2 DEF Web!Received, Web!Header
    <3>2. n - 1 \in 0..Len(body) /\ n - 1 \in Nat
      <4>1. /\ Web!Wire \in Nat /\ Web!Wire >= 1 + Len(body)
            /\ Web!Wire <= 2 + Len(body)
        BY <1>1, WireLength
      <4>2. QED BY <1>2, <2>2, <4>1
    <3>3. /\ SubSeq(body, 1, n - 1) \in Seq(Symbol) /\ Len(SubSeq(body, 1, n - 1)) = n - 1
          /\ \A i \in 1..(n - 1) : SubSeq(body, 1, n - 1)[i] = body[i]
      BY <1>2, <3>2, SubSeqProperties
    <3>4. QED BY <1>2, <3>1, <3>2, <3>3
  <2>3. QED BY <2>1, <2>2
<1>6. Begins(t, doc)
  <2>1. ASSUME NEW i \in 1..Len(doc) PROVE Web!Token(t, i) \in {doc[i], "eof"}
    <3>1. CASE i \in 1..Len(t)
      <4>1. t[i] = doc[i]
        BY <1>2, <1>5, <3>1
      <4>2. QED BY <3>1, <4>1 DEF Web!Token
    <3>2. CASE i \notin 1..Len(t)
      BY <3>2 DEF Web!Token
    <3>3. QED BY <3>1, <3>2
  <2>2. QED BY <2>1 DEF Begins
<1>7. Len(t) = Len(doc)
  BY <1>2, <1>4, <1>5, <1>6, OnlyTheWhole
<1>8. \A i \in 1..Len(t) : t[i] = doc[i]
  BY <1>2, <1>5, <1>7
<1>9. t = doc
  BY <1>3, <1>5, <1>7, <1>8, SeqEqual
<1>10. QED BY <1>2, <1>4, <1>9

LEMMA WebInvInit == Web!Init => WebInv
<1>1. ASSUME Web!Init PROVE WebInv
  <2>1. answer \in Web!Answer /\ lhmAt = "idle" /\ raw = 0 /\ lhmLeft = 0
        /\ lhmResult = Web!NoResult /\ taken = Web!NoResult
    BY <1>1 DEF Web!Init
  <2>2. Web!Wire \in Nat /\ Deadline \in Nat
    BY <2>1, WireLength, WebAssumption
  <2>3. 0 \in 0..Web!Wire /\ 0 \in 0..Deadline
    BY <2>2
  <2>4. QED BY <2>1, <2>3 DEF WebInv, Taking
<1>2. QED BY <1>1

LEMMA WebStep ==
    ASSUME WebInv, answer' = answer, raw' \in 0..Web!Wire, lhmLeft' \in 0..Deadline,
           lhmAt' \in {"idle", "send", "read", "apply"}, Taking(lhmResult)', Taking(taken)'
    PROVE  WebInv'
<1>1. Web!Wire' = Web!Wire /\ (answer \in Web!Answer)'
  BY DEF WebInv, Web!Wire, Web!Body, Web!Answer
<1>2. (raw \in 0..Web!Wire)'
  BY <1>1
<1>3. QED BY <1>1, <1>2, Zenon DEF WebInv

LEMMA FailedKeeps ==
    ASSUME Web!Failed
    PROVE  lhmAt' \in {"idle", "send", "read", "apply"} /\ Taking(lhmResult)'
  BY DEF Web!Failed, Web!Return, Taking

LEMMA JudgeKeeps ==
    ASSUME WebInv, NEW n \in 0..Web!Wire, NEW eof \in BOOLEAN, lhmAt = "read",
           Web!Judge(n, eof)
    PROVE  lhmAt' \in {"idle", "send", "read", "apply"} /\ Taking(lhmResult)'
<1>1. CASE Web!TryParseResponse(n, eof) = "more"
  BY <1>1 DEF Web!Judge, WebInv, Taking
<1>2. CASE Web!TryParseResponse(n, eof) = "error"
  <2>1. Web!Failed
    BY <1>2 DEF Web!Judge
  <2>2. QED BY <2>1, FailedKeeps
<1>3. CASE Web!TryParseResponse(n, eof) = "done"
  <2>1. Web!Taken(Web!Received(n))
    BY <1>3 DEF Web!Judge
  <2>2. n \in 1..Web!Wire
    <3>1. ~(n < 1)
      BY <1>3 DEF Web!TryParseResponse, Web!More, Web!Header
    <3>2. Web!Wire \in Nat
      BY WireLength DEF WebInv
    <3>3. QED BY <3>1, <3>2
  <2>3. CASE Web!Parse(Web!Received(n)) /\ Web!Collects(Web!Received(n))
    <3>1. Web!Received(n) \in Documents
      BY <2>2, <2>3, ReceivedDocument DEF WebInv
    <3>2. PICK cpu : Web!Return([body |-> Web!Received(n), cpu |-> cpu])
      BY <2>1, <2>3 DEF Web!Taken
    <3>3. lhmAt' = "apply" /\ lhmResult' = [body |-> Web!Received(n), cpu |-> cpu]
      BY <3>2 DEF Web!Return
    <3>4. lhmResult'.body \in Documents
      BY <3>1, <3>3
    <3>5. QED BY <3>3, <3>4 DEF Taking, Documents
  <2>4. CASE ~(Web!Parse(Web!Received(n)) /\ Web!Collects(Web!Received(n)))
    <3>1. Web!Failed
      BY <2>1, <2>4 DEF Web!Taken
    <3>2. QED BY <3>1, FailedKeeps
  <2>5. QED BY <2>3, <2>4
<1>4. Web!TryParseResponse(n, eof) \in {"more", "error", "done"}
  <2>1. \A v \in {"more", "error"} : TRUE
    OBVIOUS
  <2>2. Web!More(eof) \in {"more", "error", "done"}
    BY DEF Web!More
  <2>3. Web!TryDecodeChunked(n, eof) \in {"more", "error", "done"}
    BY <2>2 DEF Web!TryDecodeChunked
  <2>4. Web!OfLength(n, eof) \in {"more", "error", "done"}
    BY <2>2 DEF Web!OfLength
  <2>5. answer.framing \in {"length", "chunked", "close"}
    BY DEF WebInv, Web!Answer, Web!Framing
  <2>6. QED BY <2>2, <2>3, <2>4, <2>5 DEF Web!TryParseResponse
<1>5. QED BY <1>1, <1>2, <1>3, <1>4

LEMMA WebInvNext ==
    ASSUME WebInv, Web!Next
    PROVE  WebInv'
<1>0. Web!Wire \in Nat /\ Deadline \in Nat
  BY WireLength, WebAssumption DEF WebInv
<1>1. /\ raw \in 0..Web!Wire /\ lhmLeft \in 0..Deadline
      /\ lhmAt \in {"idle", "send", "read", "apply"} /\ Taking(lhmResult) /\ Taking(taken)
      /\ Taking(Web!NoResult)
  BY DEF WebInv, Taking
<1>2. /\ lhmResult' = lhmResult => Taking(lhmResult)'
      /\ taken' = taken => Taking(taken)'
  BY <1>1 DEF Taking
<1>3. CASE Web!Connect
  <2>1. /\ answer' = answer /\ taken' = taken /\ lhmLeft' = Deadline /\ raw' = 0
        /\ (lhmAt' = "send" /\ lhmResult' = lhmResult) \/ Web!Failed
    BY <1>3 DEF Web!Connect
  <2>2. lhmAt' \in {"idle", "send", "read", "apply"} /\ Taking(lhmResult)'
    BY <1>2, <2>1, FailedKeeps
  <2>3. 0 \in 0..Web!Wire /\ Deadline \in 0..Deadline
    BY <1>0
  <2>4. QED BY <1>2, <2>1, <2>2, <2>3, WebStep
<1>4. CASE Web!Send
  <2>1. /\ answer' = answer /\ taken' = taken /\ lhmLeft' = lhmLeft /\ raw' = raw
        /\ (lhmAt' = "read" /\ lhmResult' = lhmResult) \/ Web!Failed
    BY <1>4 DEF Web!Send
  <2>2. lhmAt' \in {"idle", "send", "read", "apply"} /\ Taking(lhmResult)'
    BY <1>2, <2>1, FailedKeeps
  <2>3. QED BY <1>1, <1>2, <2>1, <2>2, WebStep
<1>5. CASE Web!ReadSome
  <2>1. answer' = answer /\ taken' = taken /\ lhmLeft' = lhmLeft /\ lhmAt = "read"
    BY <1>5 DEF Web!ReadSome
  <2>2. /\ raw' \in 0..Web!Wire
        /\ lhmAt' \in {"idle", "send", "read", "apply"} /\ Taking(lhmResult)'
    <3>1. CASE \E n \in raw + 1..Web!Wire :
                  raw' = n /\ IF n > MaxResponse THEN Web!Failed ELSE Web!Judge(n, FALSE)
      <4>1. PICK n \in raw + 1..Web!Wire :
                  raw' = n /\ IF n > MaxResponse THEN Web!Failed ELSE Web!Judge(n, FALSE)
        BY <3>1
      <4>2. n \in 0..Web!Wire
        BY <1>0, <1>1
      <4>3. Web!Failed \/ Web!Judge(n, FALSE)
        BY <4>1
      <4>4. QED BY <2>1, <4>1, <4>2, <4>3, FailedKeeps, JudgeKeeps
    <3>2. CASE raw' = raw /\ Web!Judge(raw, TRUE)
      BY <1>1, <2>1, <3>2, JudgeKeeps
    <3>3. CASE raw' = raw /\ Web!Failed
      BY <1>1, <3>3, FailedKeeps
    <3>4. QED BY <1>5, <3>1, <3>2, <3>3 DEF Web!ReadSome
  <2>3. QED BY <1>1, <1>2, <2>1, <2>2, WebStep
<1>6. CASE Web!TimedOut
  <2>1. /\ answer' = answer /\ taken' = taken /\ lhmLeft' = lhmLeft /\ raw' = raw
        /\ Web!Failed
    BY <1>6 DEF Web!TimedOut
  <2>2. QED BY <1>1, <1>2, <2>1, FailedKeeps, WebStep
<1>7. CASE Web!Tick
  <2>1. /\ answer' = answer /\ taken' = taken /\ raw' = raw /\ lhmResult' = lhmResult
        /\ lhmAt' = lhmAt /\ lhmLeft > 0 /\ lhmLeft' = lhmLeft - 1
    BY <1>7 DEF Web!Tick
  <2>2. lhmLeft' \in 0..Deadline
    BY <1>0, <1>1, <2>1
  <2>3. QED BY <1>1, <1>2, <2>1, <2>2, WebStep
<1>8. CASE Web!ApplyLhm
  <2>1. /\ answer' = answer /\ raw' = raw /\ lhmLeft' = lhmLeft /\ lhmAt' = "idle"
        /\ lhmResult' = Web!NoResult
        /\ taken' = IF lhmResult = Web!NoResult THEN taken ELSE lhmResult
    BY <1>8 DEF Web!ApplyLhm
  <2>2. Taking(lhmResult)' /\ Taking(taken)'
    BY <1>1, <2>1 DEF Taking
  <2>3. QED BY <1>1, <2>1, <2>2, WebStep
<1>9. CASE Web!ResetState
  <2>1. /\ answer' = answer /\ raw' = raw /\ lhmLeft' = lhmLeft /\ lhmAt' = lhmAt
        /\ lhmResult' = lhmResult /\ taken' = Web!NoResult
    BY <1>9 DEF Web!ResetState
  <2>2. Taking(taken)'
    BY <2>1 DEF Taking
  <2>3. QED BY <1>1, <1>2, <2>1, <2>2, WebStep
<1>10. QED BY <1>3, <1>4, <1>5, <1>6, <1>7, <1>8, <1>9 DEF Web!Next

LEMMA WebInvStutter ==
    ASSUME WebInv, UNCHANGED Web!vars
    PROVE  WebInv'
  BY WebStep DEF WebInv, Web!vars, Taking

LEMMA WebHolds == WebInv => Web!WholeReadings /\ Web!TypeOK
  BY BestIsBest DEF WebInv, Taking, Web!WholeReadings, Web!TypeOK

----------------------------------------------------------------------------
(* The parts together.                                                        *)

(* What is read of another program is never a part of it: a copy of the       *)
(* shared memory, the list of games, a line of the capture. *)
THEOREM ReadingsWhole == Shared!Spec /\ Games!Spec /\ Lines!Spec => []WholeReadings
<1>1. Shared!WholeReadings /\ Games!WholeReadings /\ Lines!WholeReadings => WholeReadings
  BY DEF WholeReadings
<1>2. QED
  BY <1>1, SamplesWhole, ReadsWhole, FramesWhole, PTL

----------------------------------------------------------------------------
(* Readings are taken from a document of LibreHardwareMonitor only as a       *)
(* whole, wherever the connection ends, and the sensor that is chosen does    *)
(* not depend on their order (try_parse_response, Json::parse, best). *)
THEOREM DocumentsWhole == Web!Spec => []Web!WholeReadings
<1>1. WebInv /\ [Web!Next]_(Web!vars) => WebInv'
  BY WebInvNext, WebInvStutter
<1>2. WebInv => Web!WholeReadings
  BY WebHolds
<1>3. QED
  BY <1>1, <1>2, WebInvInit, PTL DEF Web!Spec

(* What is made of a text, the settings or the answer of another program, is  *)
(* what was written in it. *)
THEOREM TakenAsWritten == Loading!Spec /\ Web!Spec => []LoadedAsWritten
<1>1. Loading!LoadedAsWritten /\ Web!WholeReadings => LoadedAsWritten
  BY DEF LoadedAsWritten
<1>2. QED
  BY <1>1, LoadsAsWritten, DocumentsWhole, PTL

(* A step of one of the parts is none of another. *)
LEMMA OnePart ==
    [Next]_vars =>
        /\ Presenting!Next \/ UNCHANGED presenterVars
        /\ Framing!Next \/ UNCHANGED framesVars
        /\ Voice!Next \/ UNCHANGED discordVars
        /\ Channels!Next \/ UNCHANGED channelVars
        /\ Network!Next \/ UNCHANGED networkVars
        /\ Alarms!Next \/ UNCHANGED alertsVars
        /\ Ending!Next \/ UNCHANGED terminationVars
        /\ Logging!Next \/ UNCHANGED logVars
        /\ Starting!Next \/ UNCHANGED startupVars
        /\ Loading!Next \/ UNCHANGED settingsVars
        /\ Shared!Next \/ UNCHANGED memoryVars
        /\ Web!Next \/ UNCHANGED lhmVars
        /\ Games!Next \/ UNCHANGED gamesVars
        /\ Lines!Next \/ UNCHANGED linesVars
        /\ Testing!Next \/ UNCHANGED testVars
        /\ Merging!Next \/ UNCHANGED coordinatorVars
BY Zenon DEF Next, vars

(* Every behaviour of the run is one of each part. *)
THEOREM Projects ==
    Spec => /\ Presenting!Spec /\ Framing!Spec /\ Voice!Spec /\ Channels!Spec
            /\ Network!Spec /\ Alarms!Spec /\ Ending!Spec /\ Logging!Spec
            /\ Starting!Spec /\ Loading!Spec /\ Shared!Spec /\ Web!Spec
            /\ Games!Spec /\ Lines!Spec /\ Testing!Spec /\ Merging!Spec
<1>1. Init => /\ Presenting!Init /\ Framing!Init /\ Voice!Init /\ Channels!Init
              /\ Network!Init /\ Alarms!Init /\ Ending!Init /\ Logging!Init
              /\ Starting!Init /\ Loading!Init /\ Shared!Init /\ Web!Init
              /\ Games!Init /\ Lines!Init /\ Testing!Init /\ Merging!Init
  BY Zenon DEF Init
<1>2. [Next]_vars => [Presenting!Next]_(Presenting!vars)
  BY OnePart DEF presenterVars, Presenting!vars, Presenting!tracker, Presenting!choice
<1>3. [Next]_vars => [Framing!Next]_(Framing!vars)
  BY OnePart DEF framesVars, Framing!vars, Framing!target
<1>4. [Next]_vars => [Voice!Next]_(Voice!vars)
  BY OnePart DEF discordVars, Voice!vars, Voice!world, Voice!worker, Voice!command
<1>5. [Next]_vars => [Channels!Next]_(Channels!vars)
  BY OnePart DEF channelVars, Channels!vars, Channels!discord, Channels!pipe, Channels!rpc,
    Channels!tracker
<1>6. [Next]_vars => [Network!Next]_(Network!vars)
  BY OnePart DEF networkVars, Network!vars, Network!settings, Network!state
<1>7. [Next]_vars => [Alarms!Next]_(Alarms!vars)
  BY OnePart DEF alertsVars, Alarms!vars
<1>8. [Next]_vars => [Ending!Next]_(Ending!vars)
  BY OnePart DEF terminationVars, Ending!vars, Ending!windows, Ending!work
<1>9. [Next]_vars => [Logging!Next]_(Logging!vars)
  BY OnePart DEF logVars, Logging!vars
<1>10. [Next]_vars => [Starting!Next]_(Starting!vars)
  BY OnePart DEF startupVars, Starting!vars, Starting!seeding, Starting!registry,
    Starting!history
<1>11. [Next]_vars => [Loading!Next]_(Loading!vars)
  BY OnePart DEF settingsVars, Loading!vars
<1>12. [Next]_vars => [Shared!Next]_(Shared!vars)
  BY OnePart DEF memoryVars, Shared!vars, Shared!world, Shared!reader
<1>13. [Next]_vars => [Web!Next]_(Web!vars)
  BY OnePart DEF lhmVars, Web!vars
<1>14. [Next]_vars => [Games!Next]_(Games!vars)
  BY OnePart DEF gamesVars, Games!vars, Games!outside, Games!attempt, Games!cache
<1>15. [Next]_vars => [Lines!Next]_(Lines!vars)
  BY OnePart DEF linesVars, Lines!vars, Lines!source, Lines!thread, Lines!capture
<1>16. [Next]_vars => [Testing!Next]_(Testing!vars)
  BY OnePart DEF testVars, Testing!vars, Testing!screen, Testing!buttons
<1>17. [Next]_vars => [Merging!Next]_(Merging!vars)
  BY OnePart DEF coordinatorVars, Merging!vars, Merging!worker
<1>18. QED
  BY <1>1, <1>2, <1>3, <1>4, <1>5, <1>6, <1>7, <1>8, <1>9, <1>10, <1>11, <1>12, <1>13,
     <1>14, <1>15, <1>16, <1>17, PTL
  DEF Spec, Presenting!Spec, Framing!Spec, Voice!Spec, Channels!Spec, Network!Spec,
      Alarms!Spec, Ending!Spec, Logging!Spec, Starting!Spec, Loading!Spec, Shared!Spec,
      Web!Spec, Games!Spec, Lines!Spec, Testing!Spec, Merging!Spec

(* The types of the run: those of each of its parts, of the documents of       *)
(* LibreHardwareMonitor by what is known of them. *)
THEOREM TypesKept == Spec => []TypeOK
<1>1. Web!Spec => []Web!TypeOK
  <2>1. WebInv /\ [Web!Next]_(Web!vars) => WebInv'
    BY WebInvNext, WebInvStutter
  <2>2. WebInv => Web!TypeOK
    BY WebHolds
  <2>3. QED
    BY <2>1, <2>2, WebInvInit, PTL DEF Web!Spec
<1>2. /\ Presenting!TypeOK /\ Framing!TypeOK /\ Voice!TypeOK /\ Channels!TypeOK
      /\ Alarms!TypeOK /\ Ending!TypeOK /\ Network!TypeOK /\ Merging!TypeOK
      /\ Logging!TypeOK /\ Starting!TypeOK /\ Loading!TypeOK
      /\ Shared!TypeOK /\ Web!TypeOK /\ Games!TypeOK /\ Lines!TypeOK /\ Testing!TypeOK
      => TypeOK
  BY Zenon DEF TypeOK
<1>3. QED
  BY <1>1, <1>2, Projects, PresenterTypes, FramesTypes, VoiceTypes, ChannelTypes,
     AlertsTypes, TerminationTypes, NetworkTypes, CoordinatorTypes, LogTypesKept,
     StartTypesKept, LoadTypesKept, MemoryTypesKept, GamesTypes, LinesTypes,
     TestTypesKept, PTL

(* So the run has all of it; what is stale is shown as such when the interval *)
(* of the statistics is not longer than a value stays fresh. *)
THEOREM Together ==
    Spec => /\ []TypeOK /\ []TokenKept /\ []ChannelFollowed /\ KeptUnlessBeaten /\ EpisodeEnds
            /\ EndsOnlyTheHung /\ OwnGeneration /\ []KeptWhole /\ []WholeReadings
            /\ []LoadedAsWritten /\ []HonestReport
BY TypesKept, Projects, KeepsToken, FollowsChannel, KeptInPlace, EpisodesEnd, EndsHung,
  OfItsGeneration, KeepsWhole, ReadingsWhole, TakenAsWritten, ReportsHonestly, PTL
=============================================================================
