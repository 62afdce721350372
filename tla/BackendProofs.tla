---------------------------- MODULE BackendProofs ----------------------------
(* Proofs about the LCD backend, for every value of its constants: no older   *)
(* frame is shown, no health of a device that is to be replaced is believed,  *)
(* and the ends of presses follow their beginnings.                           *)
EXTENDS MCBackend, SequenceTheorems, TLAPS

----------------------------------------------------------------------------
(* The frames. What waits to be shown, or shown again, is not older than what *)
(* the display has shown.                                                     *)

InOrder ==
    /\ written <= submitted
    /\ latest # 0 => latest = submitted /\ written <= latest
    /\ replay # 0 => written <= replay /\ replay <= submitted
    /\ current # 0 => current = written

----------------------------------------------------------------------------
(* The requests. While a device that was opened before the request is open,   *)
(* the request is not taken; its health is read before the answer to the      *)
(* request, and until then the dashboard waits for that.                      *)

Opened == dev = None <=> pc \in {"top", "open", "sleep", "done"}

Answers(m) == m.tag = "reconnectStarted"
Outdated(m) == m.tag = "healthy" /\ m.opened # requests

Unasked ==
    requests = 0 => ~reconnect /\ \A i \in 1..Len(msgs) : ~Answers(msgs[i])

Asked ==
    /\ reconnect => awaiting /\ \A i \in 1..Len(msgs) : ~Answers(msgs[i])
    /\ dev # None /\ opened # requests => reconnect
    /\ \A i \in 1..Len(msgs) : Outdated(msgs[i]) =>
          awaiting /\ \A j \in 1..i : ~Answers(msgs[j])

----------------------------------------------------------------------------
(* The buttons. What is emitted is what the dashboard will believe once it    *)
(* has read the messages: of two of them about one button that follow each    *)
(* other one begins a press and the other ends it.                            *)

Begins(b) ==
    {i \in 1..Len(msgs) : msgs[i].tag = "buttons" /\ b \in msgs[i].down}
Ends(b) ==
    {i \in 1..Len(msgs) : msgs[i].tag = "buttons" /\ b \in msgs[i].up \cup msgs[i].cancel}

(* Begins B and ends E of presses of b lead from the buttons X to Y. *)
Alternating(B, E, b, X, Y) ==
    /\ B \cap E = {}
    /\ \A i, j \in B \cup E :
          i < j /\ (\A k \in B \cup E : k <= i \/ j <= k) => (i \in B <=> j \in E)
    /\ \A i \in B \cup E :
          /\ (\A k \in B \cup E : i <= k) => (i \in B <=> b \notin X)
          /\ (\A k \in B \cup E : k <= i) => (i \in B <=> b \in Y)
    /\ B \cup E = {} => (b \in X <=> b \in Y)

Debounced ==
    /\ emitted \subseteq stable
    /\ ~initialized => emitted = {}

Alternate ==
    \A b \in Buttons : Alternating(Begins(b), Ends(b), b, believed, emitted)

----------------------------------------------------------------------------
(* What the worker says in one step: tidings, which are of no button, and at  *)
(* most one message of buttons, at the end.                                   *)

Tidings(p) ==
    /\ p \in Seq(Message)
    /\ \A i \in 1..Len(p) :
          /\ p[i].tag # "buttons"
          /\ p[i].tag = "healthy" => dev # None /\ p[i].opened = opened
          /\ Answers(p[i]) => reconnect /\ ~reconnect'

Edge(d, u, c, source) ==
    IF d \cup u \cup c = {} THEN <<>> ELSE <<Edges(d, u, c, source)>>

Tells(p, d, u, c, source) ==
    /\ Tidings(p)
    /\ d \subseteq Buttons /\ u \subseteq Buttons /\ c \subseteq Buttons
    /\ source \in {"sdk", "hid"}
    /\ d \cap emitted = {} /\ u \cup c \subseteq emitted
    /\ emitted' = (emitted \cup d) \ (u \cup c)
    /\ msgs' = (msgs \o p) \o Edge(d, u, c, source)

Told ==
    \E p \in Seq(Message) : \E d, u, c \in SUBSET Buttons, source \in {"sdk", "hid"} :
        Tells(p, d, u, c, source)

Kinds == {"sdk", "hid"}

(* A message is one of four kinds. *)
LEMMA Messages ==
    /\ \A x \in {"discovering", "connected", "disconnected", "shutDown"} :
          State(x) \in Message /\ State(x).tag = "state"
    /\ \A n \in 0..MaxRequests :
          Healthy(n) \in Message /\ Healthy(n).tag = "healthy" /\ Healthy(n).opened = n
    /\ Started \in Message /\ Started.tag = "reconnectStarted"
    /\ \A d, u, c \in SUBSET Buttons, source \in Kinds :
          /\ Edges(d, u, c, source) \in Message
          /\ Edges(d, u, c, source).tag = "buttons"
          /\ Edges(d, u, c, source).down = d /\ Edges(d, u, c, source).up = u
          /\ Edges(d, u, c, source).cancel = c
BY DEF Message, State, Healthy, Started, Edges, Kinds

(* Tidings of a state or two, of nothing, of health and of a new start. *)
LEMMA StateTidings ==
    ASSUME NEW x \in {"discovering", "connected", "disconnected", "shutDown"}
    PROVE  Tidings(<<State(x)>>)
BY Messages DEF Tidings, Answers

LEMMA StatesTidings ==
    ASSUME NEW x \in {"discovering", "connected", "disconnected", "shutDown"},
           NEW y \in {"discovering", "connected", "disconnected", "shutDown"}
    PROVE  Tidings(<<State(x), State(y)>>)
BY Messages DEF Tidings, Answers

LEMMA NoTidings == Tidings(<<>>)
BY DEF Tidings

LEMMA HealthTidings ==
    ASSUME TypeOK, dev # None
    PROVE  Tidings(HealthMessages)
<1>1. opened \in 0..MaxRequests
  BY RequestAssumption DEF TypeOK
<1>2. QED BY <1>1, NoTidings, Messages DEF Tidings, Answers, HealthMessages

LEMMA StartTidings ==
    ASSUME reconnect, ~reconnect'
    PROVE  Tidings(<<Started>>)
BY Messages DEF Tidings, Answers

(* A step that says nothing of buttons. *)
LEMMA SaysTidings ==
    ASSUME TypeOK, NEW p, Tidings(p), msgs' = msgs \o p, emitted' = emitted
    PROVE  Told
<1>1. msgs' = (msgs \o p) \o Edge({}, {}, {}, "sdk")
  BY DEF Edge, Tidings, TypeOK
<1>2. Tells(p, {}, {}, {}, "sdk")
  BY <1>1 DEF Tells, TypeOK
<1>3. QED BY <1>2 DEF Told, Tidings

LEMMA SaysNothing ==
    ASSUME TypeOK, msgs' = msgs, emitted' = emitted
    PROVE  Told
<1>1. msgs' = msgs \o <<>>
  BY DEF TypeOK
<1>2. QED BY <1>1, NoTidings, SaysTidings

(* A step that ends all presses. *)
LEMMA SaysCancels ==
    ASSUME TypeOK, NEW x \in {"discovering", "connected", "disconnected", "shutDown"},
           NEW source \in Kinds,
           msgs' = msgs \o (<<State(x)>> \o Cancels(source)), emitted' = {}
    PROVE  Told
<1>1. Cancels(source) = Edge({}, {}, emitted, source)
  BY DEF Cancels, Edge
<1>2. /\ Cancels(source) \in Seq(Message) /\ <<State(x)>> \in Seq(Message)
      /\ msgs \in Seq(Message)
  BY Messages DEF Cancels, TypeOK
<1>3. msgs' = (msgs \o <<State(x)>>) \o Edge({}, {}, emitted, source)
  BY <1>1, <1>2
<1>4. Tells(<<State(x)>>, {}, {}, emitted, source)
  BY <1>3, StateTidings DEF Tells, TypeOK, Kinds
<1>5. QED BY <1>2, <1>4 DEF Told, TypeOK, Kinds

LEMMA WorkerTells ==
    ASSUME TypeOK, Opened, Debounced, Worker
    PROVE  Told
<1>1. CASE Top
  <2>1. ~reconnect' /\ emitted' = emitted
    BY <1>1 DEF Top, tracker
  <2>2. CASE reconnect
    BY <1>1, <2>1, <2>2, StartTidings, SaysTidings DEF Top, Send
  <2>3. CASE ~reconnect
    BY <1>1, <2>1, <2>3, SaysNothing DEF Top
  <2>4. QED BY <2>2, <2>3
<1>2. CASE OpenFails
  BY <1>2, StateTidings, SaysTidings DEF OpenFails, Send, tracker
<1>3. CASE OpenSucceeds
  BY <1>3, SaysCancels DEF OpenSucceeds, Send, ResetTracker, Kinds, SelectPhysicalKind, None
<1>4. CASE Sleep
  <2>1. emitted' = emitted
    BY <1>4 DEF Sleep, tracker
  <2>2. CASE shutdown
    BY <1>4, <2>1, <2>2, StateTidings, SaysTidings DEF Sleep, Send
  <2>3. CASE ~shutdown
    BY <1>4, <2>1, <2>3, SaysNothing DEF Sleep
  <2>4. QED BY <2>2, <2>3
<1>5. CASE InspectShutdown
  <2>1. emitted' = emitted
    BY <1>5 DEF InspectShutdown, tracker
  <2>2. CASE Send(<<State("shutDown")>>)
    BY <2>1, <2>2, StateTidings, SaysTidings DEF Send
  <2>3. CASE Send(<<State("disconnected"), State("shutDown")>>)
    BY <2>1, <2>3, StatesTidings, SaysTidings DEF Send
  <2>4. QED BY <1>5, <2>2, <2>3 DEF InspectShutdown
<1>6. CASE InspectStartOver
  BY <1>6, SaysCancels DEF InspectStartOver, Send, ResetTracker, Kinds, TypeOK, Opened
<1>7. CASE InspectFails
  BY <1>7, StateTidings, SaysTidings DEF InspectFails, Send, tracker
<1>8. CASE InspectPasses
  BY <1>8, SaysNothing DEF InspectPasses, tracker
<1>9. CASE NoFrame
  BY <1>9, SaysNothing DEF NoFrame, tracker
<1>10. CASE WriteFrame
  BY <1>10, SaysNothing DEF WriteFrame, tracker
<1>11. CASE WriteFails
  BY <1>11, SaysCancels DEF WriteFails, Send, ResetTracker, Kinds, TypeOK, Opened
<1>12. CASE PollNothing
  BY <1>12, HealthTidings, SaysTidings DEF PollNothing, Send, tracker, None
<1>13. CASE PollButtons
  <2>1. PICK D \in SUBSET Buttons : PollReport(D)
    BY <1>13 DEF PollButtons
  <2>2. dev \in Kinds
    BY <2>1 DEF PollReport, TypeOK, Opened, Kinds
  <2>3. Tidings(HealthMessages)
    BY <2>2, HealthTidings DEF Kinds, None
  <2>4. CASE ~initialized
    BY <2>1, <2>3, <2>4, SaysTidings DEF PollReport, Send
  <2>5. CASE initialized
    <3> DEFINE downs == D \cap raw
               ups == (D \ raw) \cap emitted
    <3>1. /\ emitted' = (emitted \cup downs) \ ups
          /\ msgs' = msgs \o (HealthMessages \o
                 IF downs \cup ups = {} THEN <<>> ELSE <<Edges(downs, ups, {}, dev)>>)
      BY <2>1, <2>5 DEF PollReport, Send
    <3>2. downs \cap emitted = {}
      BY <2>1 DEF PollReport, Unstable, Changed, Debounced
    <3>3. downs \in SUBSET Buttons /\ ups \in SUBSET Buttons /\ {} \in SUBSET Buttons
      BY DEF TypeOK
    <3> HIDE DEF downs, ups
    <3>4. Edge(downs, ups, {}, dev) =
              IF downs \cup ups = {} THEN <<>> ELSE <<Edges(downs, ups, {}, dev)>>
      BY DEF Edge
    <3>5. Edges(downs, ups, {}, dev) \in Message
      BY <2>2, <3>3, Messages
    <3>6. Edge(downs, ups, {}, dev) \in Seq(Message)
      <4>1. <<>> \in Seq(Message) /\ <<Edges(downs, ups, {}, dev)>> \in Seq(Message)
        BY <3>5
      <4>2. QED BY <3>4, <4>1, Zenon
    <3>7. msgs' = (msgs \o HealthMessages) \o Edge(downs, ups, {}, dev)
      <4>1. msgs' = msgs \o (HealthMessages \o Edge(downs, ups, {}, dev))
        BY <3>1, <3>4, Zenon
      <4>2. msgs \in Seq(Message) /\ HealthMessages \in Seq(Message)
        BY <2>3 DEF Tidings, TypeOK
      <4>3. \A x, y, z \in Seq(Message) : x \o (y \o z) = (x \o y) \o z
        OBVIOUS
      <4>4. QED BY <3>6, <4>1, <4>2, <4>3, Zenon
    <3>8. ups \subseteq emitted
      BY DEF ups
    <3>9. Tells(HealthMessages, downs, ups, {}, dev)
      BY <2>2, <2>3, <3>1, <3>2, <3>3, <3>7, <3>8 DEF Tells, Kinds
    <3>10. QED BY <2>2, <2>3, <3>3, <3>9 DEF Told, Tidings, Kinds
  <2>6. QED BY <2>4, <2>5 DEF TypeOK
<1>14. CASE PollFails
  BY <1>14, SaysCancels DEF PollFails, Send, ResetTracker, Kinds, TypeOK, Opened
<1>15. QED
  BY <1>1, <1>2, <1>3, <1>4, <1>5, <1>6, <1>7, <1>8, <1>9, <1>10, <1>11, <1>12, <1>13, <1>14
     DEF Worker, Poll

(* The other steps say nothing, or are a reading or a new worker. *)
LEMMA Others ==
    ASSUME TypeOK, [Next]_vars, ~Worker, ~ReadMessage, ~Respawn
    PROVE  msgs' = msgs /\ emitted' = emitted /\ believed' = believed
<1>1. CASE Submit
  BY <1>1 DEF Submit, tracker
<1>2. CASE RequestReconnect
  BY <1>2 DEF RequestReconnect, tracker
<1>3. CASE Stop
  BY <1>3 DEF Stop, tracker, app
<1>4. CASE LcoreChanges
  BY <1>4 DEF LcoreChanges, tracker, app
<1>5. ASSUME NEW b \in Buttons, MoveButton(b)
      PROVE  msgs' = msgs /\ emitted' = emitted /\ believed' = believed
  BY <1>5 DEF MoveButton, tracker, app
<1>6. CASE UNCHANGED vars
  BY <1>6 DEF vars, tracker, app
<1>7. QED
  BY <1>1, <1>2, <1>3, <1>4, <1>5, <1>6 DEF Next, Dashboard

(* What the channel holds after a step in which the worker spoke. *)
LEMMA Channel ==
    ASSUME TypeOK, NEW p, NEW d, NEW u, NEW c, NEW source, Tells(p, d, u, c, source)
    PROVE  LET n == Len(msgs) + Len(p) IN
           /\ Len(p) \in Nat /\ Len(msgs) \in Nat /\ Len(msgs') \in Nat
           /\ msgs' \in Seq(Message)
           /\ \A i \in 1..Len(msgs) : msgs'[i] = msgs[i]
           /\ \A i \in 1..Len(p) : msgs'[Len(msgs) + i] = p[i]
           /\ d \cup u \cup c = {} => Len(msgs') = n
           /\ d \cup u \cup c # {} =>
                 Len(msgs') = n + 1 /\ msgs'[n + 1] = Edges(d, u, c, source)
<1> DEFINE e == Edge(d, u, c, source)
           m == Edges(d, u, c, source)
<1>1. msgs \in Seq(Message) /\ p \in Seq(Message)
  BY DEF Tells, Tidings, TypeOK
<1>2. m \in Message
  BY Messages DEF Tells, Kinds
<1>3. msgs' = (msgs \o p) \o e
  BY DEF Tells
<1>4. /\ d \cup u \cup c = {} => e = <<>>
      /\ d \cup u \cup c # {} => e = <<m>>
  BY DEF Edge
<1> HIDE DEF e, m
<1>5. CASE d \cup u \cup c = {}
  <2>1. (msgs \o p) \o <<>> = msgs \o p
    BY <1>1
  <2>2. msgs' = msgs \o p
    BY <1>3, <1>4, <1>5, <2>1, Zenon
  <2>3. /\ msgs' \in Seq(Message) /\ Len(msgs') = Len(msgs) + Len(p)
        /\ \A i \in 1..Len(msgs) : msgs'[i] = msgs[i]
        /\ \A i \in 1..Len(p) : msgs'[Len(msgs) + i] = p[i]
    BY <1>1, <2>2
  <2>4. QED BY <1>1, <1>5, <2>3
<1>6. CASE d \cup u \cup c # {}
  <2>1. msgs' = (msgs \o p) \o <<m>>
    BY <1>3, <1>4, <1>6
  <2>2. /\ msgs' \in Seq(Message) /\ Len(msgs') = Len(msgs) + Len(p) + 1
        /\ msgs'[Len(msgs) + Len(p) + 1] = m
        /\ \A i \in 1..Len(msgs) : msgs'[i] = msgs[i]
        /\ \A i \in 1..Len(p) : msgs'[Len(msgs) + i] = p[i]
    BY <1>1, <1>2, <2>1
  <2>3. QED BY <1>1, <1>6, <2>2 DEF m
<1>7. QED BY <1>5, <1>6

(* Every step keeps the channel one of messages. *)
LEMMA ChannelTyped ==
    ASSUME TypeOK, Opened, Debounced, [Next]_vars
    PROVE  msgs' \in Seq(Message)
<1>1. CASE Worker
  BY <1>1, WorkerTells, Channel DEF Told
<1>2. CASE ReadMessage
  BY <1>2 DEF ReadMessage, TypeOK
<1>3. CASE Respawn
  BY <1>3, Messages DEF Respawn
<1>4. CASE ~Worker /\ ~ReadMessage /\ ~Respawn
  BY <1>4, Others DEF TypeOK
<1>5. QED BY <1>1, <1>2, <1>3, <1>4

LEMMA TypesInit == Init => TypeOK /\ Opened /\ Debounced
<1>1. <<State("discovering")>> \in Seq(Message)
  BY Messages
<1>2. MaxFrame \in Nat /\ MaxFaults \in Nat /\ MaxPresses \in Nat /\ MaxRequests \in Nat
  BY BoundsAssumption, RequestAssumption
<1>3. Init => TypeOK
  <2>1. SUFFICES ASSUME Init PROVE TypeOK
    OBVIOUS
  <2>2. /\ latest \in Frame /\ replay \in Frame /\ current \in Frame
        /\ submitted \in Frame /\ written \in Frame
        /\ faults \in 0..MaxFaults /\ presses \in 0..MaxPresses
        /\ requests \in 0..MaxRequests /\ spawns \in Nat /\ opened \in 0..requests
    BY <1>2, <2>1 DEF Init, Frame
  <2>3. /\ shutdown \in BOOLEAN /\ reconnect \in BOOLEAN /\ reported \in BOOLEAN
        /\ initialized \in BOOLEAN /\ lcore \in BOOLEAN /\ awaiting \in BOOLEAN
    BY <2>1 DEF Init
  <2>4. /\ raw \subseteq Buttons /\ stable \subseteq Buttons /\ emitted \subseteq Buttons
        /\ pressed \subseteq Buttons /\ believed \subseteq Buttons
    BY <2>1 DEF Init
  <2>5. /\ pc \in {"top", "open", "sleep", "inspect", "frame", "poll", "done"}
        /\ dev \in {None, "sdk", "hid"}
        /\ lastSent \in Pictures \cup {NoPicture} /\ panel \in Pictures \cup {Blank}
        /\ msgs \in Seq(Message)
    BY <1>1, <2>1 DEF Init
  <2>6. QED BY <2>2, <2>3, <2>4, <2>5 DEF TypeOK
<1>4. QED BY <1>3 DEF Init, Opened, Debounced, None

LEMMA PictureTyped == \A f \in 1..MaxFrame : Picture[f] \in Pictures
BY DEF Pictures

LEMMA TypesNext ==
    ASSUME TypeOK, Opened, Debounced, [Next]_vars
    PROVE  TypeOK'
<1> USE DEF TypeOK, Frame
<1>1. msgs' \in Seq(Message)
  BY ChannelTyped
<1>2. MaxFrame \in Nat /\ MaxFaults \in Nat /\ MaxPresses \in Nat /\ MaxRequests \in Nat
  BY BoundsAssumption, RequestAssumption
<1>0. ResetTracker =>
        /\ initialized' \in BOOLEAN
        /\ raw' \subseteq Buttons /\ stable' \subseteq Buttons /\ emitted' \subseteq Buttons
  BY DEF ResetTracker
<1>3. CASE Submit
  BY <1>1, <1>2, <1>3 DEF Submit, frames, tracker, world, counts
<1>4. CASE RequestReconnect
  BY <1>1, <1>2, <1>4 DEF RequestReconnect, frames, tracker, world
<1>5. CASE ReadMessage
  <2>1. Head(msgs) \in Message
    BY <1>5 DEF ReadMessage
  <2>2. Head(msgs).tag = "buttons" => Head(msgs).down \subseteq Buttons
    BY <2>1 DEF Message
  <2>3. believed' \subseteq Buttons
    BY <1>5, <2>2 DEF ReadMessage
  <2>4. awaiting' \in BOOLEAN
    BY <1>5, Zenon DEF ReadMessage
  <2>5. QED BY <1>1, <1>5, <2>3, <2>4 DEF ReadMessage, queue, frames, tracker, world, counts
<1>6. CASE Stop
  BY <1>1, <1>6 DEF Stop, frames, tracker, world, app, counts
<1>7. CASE Respawn
  <2>1. /\ latest' \in Frame /\ replay' \in Frame /\ current' \in Frame
        /\ spawns' \in Nat /\ believed' \subseteq Buttons
    BY <1>2, <1>7 DEF Respawn
  <2>2. QED BY <1>0, <1>1, <1>7, <2>1 DEF Respawn, world
<1>8. CASE Top
  BY <1>1, <1>8 DEF Top, frames, tracker, world, app, counts
<1>9. CASE OpenFails
  BY <1>1, <1>2, <1>9 DEF OpenFails, Fault, queue, frames, tracker, world, app
<1>10. CASE OpenSucceeds
  <2>1. dev' \in {None, "sdk", "hid"} /\ opened' \in 0..requests'
    BY <1>2, <1>10 DEF OpenSucceeds, SelectPhysicalKind, counts
  <2>2. QED
    BY <1>0, <1>1, <1>10, <2>1 DEF OpenSucceeds, queue, world, app, counts
<1>11. CASE Sleep
  BY <1>1, <1>11 DEF Sleep, queue, frames, tracker, world, app, counts
<1>12. CASE InspectShutdown
  BY <1>1, <1>12 DEF InspectShutdown, CloseBlank, queue, frames, tracker, world, app, counts
<1>13. CASE InspectStartOver
  BY <1>1, <1>13
     DEF InspectStartOver, KeepFrame, CloseAsIs, ResetTracker, queue, world, app, counts
<1>14. CASE InspectFails
  BY <1>1, <1>2, <1>14
     DEF InspectFails, Fault, KeepFrame, CloseAsIs, queue, tracker, world, app
<1>15. CASE InspectPasses
  BY <1>1, <1>15 DEF InspectPasses, queue, frames, tracker, world, app, counts
<1>16. CASE NoFrame
  BY <1>1, <1>16 DEF NoFrame, queue, frames, tracker, world, app, counts
<1>17. Next_frame # 0 => Next_frame \in Frame /\ Picture[Next_frame] \in Pictures
  BY <1>2, PictureTyped DEF Next_frame
<1>18. CASE WriteFrame
  BY <1>1, <1>2, <1>17, <1>18 DEF WriteFrame, tracker, world, app, counts
<1>19. CASE WriteFails
  BY <1>0, <1>1, <1>2, <1>17, <1>19 DEF WriteFails, Fault, CloseBlank, world, app
<1>20. CASE PollNothing
  <2>1. reported' \in BOOLEAN
    BY <1>20, Zenon DEF PollNothing, ReportHealth
  <2>2. QED BY <1>1, <1>20, <2>1 DEF PollNothing, queue, frames, tracker, world, app, counts
<1>21. CASE PollButtons
  <2>1. PICK D \in SUBSET Buttons : PollReport(D)
    BY <1>21 DEF PollButtons
  <2>2. reported' \in BOOLEAN
    BY <2>1, Zenon DEF PollReport, ReportHealth
  <2>3. stable' \subseteq Buttons /\ emitted' \subseteq Buttons
    BY <2>1 DEF PollReport
  <2>4. QED BY <1>1, <2>1, <2>2, <2>3 DEF PollReport, queue, frames, world, app, counts
<1>22. CASE PollFails
  BY <1>0, <1>1, <1>2, <1>22
     DEF PollFails, Fault, KeepFrame, CloseBlank, queue, world, app
<1>23. CASE LcoreChanges
  BY <1>1, <1>2, <1>23 DEF LcoreChanges, Fault, queue, frames, tracker, app
<1>24. ASSUME NEW b \in Buttons, MoveButton(b)
       PROVE  TypeOK'
  BY <1>1, <1>2, <1>24 DEF MoveButton, queue, frames, tracker, app
<1>25. CASE UNCHANGED vars
  BY <1>25 DEF vars, queue, frames, tracker, world, app, counts
<1>26. QED
  BY <1>3, <1>4, <1>5, <1>6, <1>7, <1>8, <1>9, <1>10, <1>11, <1>12, <1>13, <1>14, <1>15,
     <1>16, <1>18, <1>19, <1>20, <1>21, <1>22, <1>23, <1>24, <1>25
     DEF Next, Dashboard, Worker, Poll

----------------------------------------------------------------------------
(* The steps that touch no frame, and those that touch neither the worker's   *)
(* place nor its device.                                                      *)

LEMMA InOrderNext ==
    ASSUME TypeOK, InOrder, [Next]_vars
    PROVE  InOrder' /\ written' >= written
<1> USE DEF InOrder, TypeOK, Frame
<1>1. CASE UNCHANGED <<latest, replay, current, written, submitted>>
  BY <1>1
<1>2. CASE Submit
  BY <1>2 DEF Submit, frames
<1>3. CASE Respawn
  BY <1>3 DEF Respawn
<1>4. CASE UNCHANGED <<latest, written, submitted>> /\ KeepFrame
  BY <1>4 DEF KeepFrame
<1>5. CASE WriteFrame
  BY <1>5 DEF WriteFrame, Next_frame, app
<1>6. CASE WriteFails
  BY <1>6 DEF WriteFails, Next_frame, app
<1>7. CASE RequestReconnect \/ ReadMessage \/ Stop
  BY <1>1, <1>7 DEF RequestReconnect, ReadMessage, Stop, queue, frames, app
<1>8. CASE Top \/ OpenFails \/ OpenSucceeds \/ Sleep
  BY <1>1, <1>8 DEF Top, OpenFails, OpenSucceeds, Sleep, queue, frames, app
<1>9. CASE InspectShutdown \/ InspectPasses \/ NoFrame
  BY <1>1, <1>9 DEF InspectShutdown, InspectPasses, NoFrame, queue, frames, app
<1>10. CASE InspectStartOver \/ InspectFails \/ PollFails
  BY <1>4, <1>10 DEF InspectStartOver, InspectFails, PollFails, queue, app
<1>11. CASE PollNothing \/ PollButtons
  BY <1>1, <1>11 DEF PollNothing, PollButtons, PollReport, queue, frames, app
<1>12. CASE LcoreChanges \/ \E b \in Buttons : MoveButton(b)
  BY <1>1, <1>12 DEF LcoreChanges, MoveButton, queue, frames, app
<1>13. CASE UNCHANGED vars
  BY <1>1, <1>13 DEF vars, queue, frames, app
<1>14. QED
  BY <1>2, <1>3, <1>5, <1>6, <1>7, <1>8, <1>9, <1>10, <1>11, <1>12, <1>13
     DEF Next, Dashboard, Worker, Poll

LEMMA OpenedNext ==
    ASSUME Opened, [Next]_vars
    PROVE  Opened'
<1> USE DEF Opened
<1>1. CASE UNCHANGED <<pc, dev>>
  BY <1>1
<1>2. CASE Dashboard
  BY <1>1, <1>2 DEF Dashboard, Submit, RequestReconnect, ReadMessage, Stop, Respawn
<1>3. CASE Top \/ OpenFails \/ Sleep
  BY <1>3 DEF Top, OpenFails, Sleep
<1>4. CASE OpenSucceeds
  BY <1>4 DEF OpenSucceeds, SelectPhysicalKind, None
<1>5. CASE InspectShutdown \/ InspectStartOver \/ InspectFails
  BY <1>5 DEF InspectShutdown, InspectStartOver, InspectFails, CloseBlank, CloseAsIs
<1>6. CASE InspectPasses \/ NoFrame \/ WriteFrame
  BY <1>6 DEF InspectPasses, NoFrame, WriteFrame
<1>7. CASE WriteFails \/ PollFails
  BY <1>7 DEF WriteFails, PollFails, CloseBlank
<1>8. CASE PollNothing \/ PollButtons
  BY <1>8 DEF PollNothing, PollButtons, PollReport
<1>9. CASE LcoreChanges \/ (\E b \in Buttons : MoveButton(b)) \/ UNCHANGED vars
  BY <1>1, <1>9 DEF LcoreChanges, MoveButton, vars
<1>10. QED
  BY <1>2, <1>3, <1>4, <1>5, <1>6, <1>7, <1>8, <1>9 DEF Next, Worker, Poll

(* A press is emitted for a button that is down, and never before the first   *)
(* reading. *)
LEMMA DebouncedNext ==
    ASSUME Debounced, [Next]_vars
    PROVE  Debounced'
<1> USE DEF Debounced
<1>1. CASE UNCHANGED tracker
  BY <1>1 DEF tracker
<1>2. CASE ResetTracker
  BY <1>2 DEF ResetTracker
<1>3. CASE Dashboard
  BY <1>1, <1>2, <1>3 DEF Dashboard, Submit, RequestReconnect, ReadMessage, Stop, Respawn
<1>4. CASE Top \/ OpenFails \/ OpenSucceeds \/ Sleep
  BY <1>1, <1>2, <1>4 DEF Top, OpenFails, OpenSucceeds, Sleep
<1>5. CASE InspectShutdown \/ InspectStartOver \/ InspectFails \/ InspectPasses
  BY <1>1, <1>2, <1>5
     DEF InspectShutdown, InspectStartOver, InspectFails, InspectPasses
<1>6. CASE NoFrame \/ WriteFrame \/ WriteFails \/ PollNothing \/ PollFails
  BY <1>1, <1>2, <1>6 DEF NoFrame, WriteFrame, WriteFails, PollNothing, PollFails
<1>7. CASE PollButtons
  BY <1>7 DEF PollButtons, PollReport, Unstable, Changed
<1>8. CASE LcoreChanges \/ (\E b \in Buttons : MoveButton(b)) \/ UNCHANGED vars
  BY <1>1, <1>8 DEF LcoreChanges, MoveButton, vars
<1>9. QED
  BY <1>3, <1>4, <1>5, <1>6, <1>7, <1>8 DEF Next, Worker, Poll

----------------------------------------------------------------------------
(* The requests, step by step. *)

(* The worker takes a request when it has no device, and a device that it has *)
(* opened is newer than the requests. *)
LEMMA WorkerTakes ==
    ASSUME Opened, Worker
    PROVE  /\ requests' = requests /\ awaiting' = awaiting
           /\ reconnect' = reconnect \/ (~reconnect' /\ dev = None /\ dev' = None)
           /\ \/ dev' = None
              \/ dev' = dev /\ opened' = opened
              \/ opened' = requests
<1> USE DEF queue, app, counts
<1>1. CASE Top
  BY <1>1 DEF Top, Opened
<1>2. CASE OpenFails \/ OpenSucceeds \/ Sleep
  BY <1>2 DEF OpenFails, OpenSucceeds, Sleep
<1>3. CASE InspectShutdown \/ InspectStartOver \/ InspectFails \/ InspectPasses
  BY <1>3 DEF InspectShutdown, InspectStartOver, InspectFails, InspectPasses, CloseBlank,
      CloseAsIs
<1>4. CASE NoFrame \/ WriteFrame \/ WriteFails
  BY <1>4 DEF NoFrame, WriteFrame, WriteFails, CloseBlank
<1>5. CASE PollNothing \/ PollButtons \/ PollFails
  BY <1>5 DEF PollNothing, PollButtons, PollReport, PollFails, CloseBlank
<1>6. QED BY <1>1, <1>2, <1>3, <1>4, <1>5 DEF Worker, Poll

LEMMA AskedWorker ==
    ASSUME TypeOK, Opened, Debounced, Unasked, Asked, Worker
    PROVE  Unasked' /\ Asked'
<1>1. PICK p \in Seq(Message), d, u, c \in SUBSET Buttons, source \in Kinds :
          Tells(p, d, u, c, source)
  BY WorkerTells DEF Told, Kinds
<1>2. /\ requests' = requests /\ awaiting' = awaiting
      /\ reconnect' = reconnect \/ (~reconnect' /\ dev = None /\ dev' = None)
      /\ \/ dev' = None
         \/ dev' = dev /\ opened' = opened
         \/ opened' = requests
  BY WorkerTakes
<1>3. Edges(d, u, c, source).tag = "buttons"
  BY Messages
<1>4. \A i \in 1..Len(msgs') :
          \/ i \in 1..Len(msgs) /\ msgs'[i] = msgs[i]
          \/ i - Len(msgs) \in 1..Len(p) /\ msgs'[i] = p[i - Len(msgs)]
          \/ msgs'[i].tag = "buttons"
  <2>1. SUFFICES ASSUME NEW i \in 1..Len(msgs')
                 PROVE  \/ i \in 1..Len(msgs) /\ msgs'[i] = msgs[i]
                        \/ i - Len(msgs) \in 1..Len(p) /\ msgs'[i] = p[i - Len(msgs)]
                        \/ msgs'[i].tag = "buttons"
    OBVIOUS
  <2>2. /\ Len(p) \in Nat /\ Len(msgs) \in Nat /\ Len(msgs') \in Nat
        /\ \A k \in 1..Len(msgs) : msgs'[k] = msgs[k]
        /\ \A k \in 1..Len(p) : msgs'[Len(msgs) + k] = p[k]
        /\ Len(msgs') = Len(msgs) + Len(p)
              \/ (/\ Len(msgs') = Len(msgs) + Len(p) + 1
                  /\ msgs'[Len(msgs) + Len(p) + 1] = Edges(d, u, c, source))
    BY <1>1, Channel
  <2>3. CASE i <= Len(msgs)
    BY <2>1, <2>2, <2>3
  <2>4. CASE i > Len(msgs) /\ i <= Len(msgs) + Len(p)
    <3>1. i - Len(msgs) \in 1..Len(p) /\ Len(msgs) + (i - Len(msgs)) = i
      BY <2>1, <2>2, <2>4
    <3>2. QED BY <2>2, <3>1
  <2>5. CASE i > Len(msgs) + Len(p)
    <3>1. i = Len(msgs) + Len(p) + 1
      BY <2>1, <2>2, <2>5
    <3>2. QED BY <1>3, <2>1, <2>2, <2>5, <3>1
  <2>6. QED BY <2>1, <2>2, <2>3, <2>4, <2>5
<1>5. \A i \in 1..Len(p) :
          /\ p[i].tag = "healthy" => dev # None /\ p[i].opened = opened
          /\ Answers(p[i]) => reconnect /\ ~reconnect'
  BY <1>1 DEF Tells, Tidings
<1>6. \A i \in 1..Len(msgs') : Answers(msgs'[i]) =>
          \/ i \in 1..Len(msgs) /\ Answers(msgs[i])
          \/ i > Len(msgs) /\ reconnect /\ ~reconnect' /\ dev = None
  BY <1>2, <1>4, <1>5 DEF Answers
<1>7. \A i \in 1..Len(msgs') : Outdated(msgs'[i]) =>
          \/ i \in 1..Len(msgs) /\ Outdated(msgs[i])
          \/ dev # None /\ opened # requests
  BY <1>4, <1>5 DEF Outdated
<1>8. Unasked'
  BY <1>2, <1>6 DEF Unasked, Answers
<1>9. /\ reconnect' => awaiting' /\ \A i \in 1..Len(msgs') : ~Answers(msgs'[i])
      /\ dev' # None /\ opened' # requests' => reconnect'
  BY <1>2, <1>6 DEF Asked
<1>10. ASSUME NEW i \in 1..Len(msgs'), Outdated(msgs'[i]), NEW j \in 1..i
       PROVE  awaiting' /\ ~Answers(msgs'[j])
  <2>1. j \in 1..Len(msgs') /\ Len(msgs) \in Nat
    BY <1>10 DEF TypeOK
  <2>2. CASE i \in 1..Len(msgs) /\ Outdated(msgs[i])
    <3>1. j \in 1..i /\ ~(j > Len(msgs))
      BY <1>10, <2>1, <2>2
    <3>2. QED BY <1>2, <1>6, <2>1, <2>2, <3>1 DEF Asked
  <2>3. CASE dev # None /\ opened # requests
    BY <1>2, <1>6, <2>1, <2>3 DEF Asked
  <2>4. QED BY <1>7, <1>10, <2>2, <2>3
<1>11. ASSUME NEW i \in 1..Len(msgs'),
              msgs'[i].tag = "healthy" /\ msgs'[i].opened # requests'
       PROVE  awaiting' /\ \A j \in 1..i : ~Answers(msgs'[j])
  <2>1. Outdated(msgs'[i])
    BY <1>2, <1>11 DEF Outdated
  <2>2. 1 \in 1..i
    BY DEF TypeOK
  <2>3. QED BY <1>10, <2>1, <2>2
<1>12. Asked'
  BY <1>9, <1>11 DEF Asked, Outdated, Answers
<1>13. QED BY <1>8, <1>12

LEMMA AskedNext ==
    ASSUME TypeOK, Opened, Debounced, Unasked, Asked, [Next]_vars
    PROVE  Unasked' /\ Asked'
<1> USE DEF Unasked, Asked, Outdated, Answers
<1>1. CASE UNCHANGED <<msgs, requests, reconnect, awaiting, dev, opened>>
  BY <1>1
<1>2. CASE Worker
  BY <1>2, AskedWorker
<1>3. CASE RequestReconnect
  <2>1. requests = 0 /\ requests' = 1
    BY <1>3, RequestAssumption DEF RequestReconnect, TypeOK
  <2>2. awaiting' /\ reconnect' /\ msgs' = msgs
    BY <1>3 DEF RequestReconnect
  <2>3. \A i \in 1..Len(msgs) : ~Answers(msgs[i])
    BY <2>1
  <2>4. \A i \in 1..Len(msgs) : \A j \in 1..i : j \in 1..Len(msgs)
    BY DEF TypeOK
  <2>5. QED BY <2>1, <2>2, <2>3, <2>4
<1>4. CASE ReadMessage
  <2>1. /\ msgs \in Seq(Message) /\ msgs # <<>> /\ msgs' = Tail(msgs)
        /\ awaiting' = (awaiting /\ Head(msgs).tag # "reconnectStarted")
        /\ UNCHANGED <<requests, reconnect, dev, opened>>
    BY <1>4 DEF ReadMessage, TypeOK, queue, counts
  <2>2. /\ Len(msgs) \in Nat /\ Len(msgs) > 0 /\ Len(msgs') = Len(msgs) - 1
        /\ Head(msgs) = msgs[1]
        /\ \A i \in 1..Len(msgs') : i + 1 \in 1..Len(msgs) /\ msgs'[i] = msgs[i + 1]
    BY <2>1
  <2>3. Unasked'
    <3>1. SUFFICES ASSUME requests' = 0
                   PROVE  /\ ~reconnect'
                          /\ \A i \in 1..Len(msgs') : msgs'[i].tag # "reconnectStarted"
      OBVIOUS
    <3>2. ~reconnect /\ \A i \in 1..Len(msgs) : msgs[i].tag # "reconnectStarted"
      BY <2>1, <3>1
    <3>3. QED BY <2>1, <2>2, <3>2
  <2>4. ASSUME reconnect'
        PROVE  awaiting' /\ \A i \in 1..Len(msgs') : msgs'[i].tag # "reconnectStarted"
    <3>1. awaiting /\ \A i \in 1..Len(msgs) : msgs[i].tag # "reconnectStarted"
      BY <2>1, <2>4
    <3>2. 1 \in 1..Len(msgs)
      BY <2>2
    <3>3. QED BY <2>1, <2>2, <3>1, <3>2
  <2>5. dev' # None /\ opened' # requests' => reconnect'
    BY <2>1
  <2>6. ASSUME NEW i \in 1..Len(msgs'),
               msgs'[i].tag = "healthy" /\ msgs'[i].opened # requests'
        PROVE  awaiting' /\ \A j \in 1..i : ~Answers(msgs'[j])
    <3>1. awaiting /\ \A j \in 1..(i + 1) : ~Answers(msgs[j])
      BY <2>1, <2>2, <2>6
    <3>2. 1 \in 1..(i + 1) /\ \A j \in 1..i : j + 1 \in 1..(i + 1) /\ j \in 1..Len(msgs')
      BY <2>2
    <3>3. awaiting'
      BY <2>1, <2>2, <3>1, <3>2
    <3>4. QED BY <2>2, <3>1, <3>2, <3>3
  <2>7. QED BY <2>3, <2>4, <2>5, <2>6
<1>5. CASE Respawn
  <2>1. /\ msgs' = <<State("discovering")>> /\ ~reconnect' /\ dev' = dev /\ dev = None
    BY <1>5 DEF Respawn, Opened
  <2>2. Len(msgs') = 1 /\ msgs'[1].tag = "state"
    BY <2>1, Messages
  <2>3. QED BY <2>1, <2>2
<1>6. CASE \/ Submit \/ Stop \/ LcoreChanges
           \/ (\E b \in Buttons : MoveButton(b)) \/ UNCHANGED vars
  BY <1>1, <1>6
     DEF Submit, Stop, LcoreChanges, MoveButton, vars, queue, app, counts
<1>7. QED BY <1>2, <1>3, <1>4, <1>5, <1>6 DEF Next, Dashboard

----------------------------------------------------------------------------
(* The buttons, message by message. *)

(* One more beginning or end, at the end. *)
LEMMA OneMore ==
    ASSUME NEW B \in SUBSET Nat, NEW E \in SUBSET Nat, NEW b, NEW X, NEW Y, NEW Z,
           Alternating(B, E, b, X, Y),
           NEW n \in Nat, \A i \in B \cup E : i < n
    PROVE  /\ b \notin Y /\ b \in Z => Alternating(B \cup {n}, E, b, X, Z)
           /\ b \in Y /\ b \notin Z => Alternating(B, E \cup {n}, b, X, Z)
<1>1. n \notin B \cup E
  OBVIOUS
<1>2. ASSUME NEW C \in SUBSET Nat, NEW F \in SUBSET Nat,
             \/ b \notin Y /\ b \in Z /\ C = B \cup {n} /\ F = E
             \/ b \in Y /\ b \notin Z /\ C = B /\ F = E \cup {n}
      PROVE  Alternating(C, F, b, X, Z)
  <2>1. C \cup F = (B \cup E) \cup {n} /\ C \cap F = {}
    BY <1>1, <1>2 DEF Alternating
  <2>2. \A i \in B \cup E : (i \in C <=> i \in B) /\ (i \in F <=> i \in E)
    BY <1>1, <1>2
  <2>3. n \in C <=> b \notin Y
    BY <1>1, <1>2
  <2>4. n \in F <=> b \in Y
    BY <1>1, <1>2
  <2>5. n \in C <=> b \in Z
    BY <1>1, <1>2
  <2>6. ASSUME NEW i \in C \cup F, NEW j \in C \cup F, i < j,
               \A k \in C \cup F : k <= i \/ j <= k
        PROVE  i \in C <=> j \in F
    <3>1. CASE j = n
      <4>1. i \in B \cup E /\ \A k \in B \cup E : k <= i
        BY <2>1, <2>6, <3>1
      <4>2. i \in B <=> b \in Y
        BY <4>1 DEF Alternating
      <4>3. QED BY <2>2, <2>4, <3>1, <4>1, <4>2
    <3>2. CASE j # n
      <4>1. i \in B \cup E /\ j \in B \cup E /\ \A k \in B \cup E : k <= i \/ j <= k
        BY <2>1, <2>6, <3>2
      <4>2. i \in B <=> j \in E
        BY <2>6, <4>1 DEF Alternating
      <4>3. QED BY <2>2, <4>1, <4>2
    <3>3. QED BY <3>1, <3>2
  <2>7. ASSUME NEW i \in C \cup F, \A k \in C \cup F : i <= k
        PROVE  i \in C <=> b \notin X
    <3>1. CASE i = n
      <4>1. B \cup E = {}
        BY <2>1, <2>7, <3>1
      <4>2. QED BY <2>3, <3>1, <4>1 DEF Alternating
    <3>2. CASE i # n
      <4>1. i \in B \cup E /\ \A k \in B \cup E : i <= k
        BY <2>1, <2>7, <3>2
      <4>2. i \in B <=> b \notin X
        BY <4>1 DEF Alternating
      <4>3. QED BY <2>2, <4>1, <4>2
    <3>3. QED BY <3>1, <3>2
  <2>8. ASSUME NEW i \in C \cup F, \A k \in C \cup F : k <= i
        PROVE  i \in C <=> b \in Z
    <3>1. i = n
      BY <2>1, <2>8
    <3>2. QED BY <2>5, <3>1
  <2>9. C \cup F # {}
    BY <2>1
  <2>10. QED BY <2>1, <2>6, <2>7, <2>8, <2>9 DEF Alternating
<1>3. QED BY <1>2

(* One less, at the beginning; and nothing at the beginning. *)
LEMMA OneLess ==
    ASSUME NEW B \in SUBSET (Nat \ {0}), NEW E \in SUBSET (Nat \ {0}),
           NEW b, NEW X, NEW Y, NEW Z, Alternating(B, E, b, X, Y),
           NEW C \in SUBSET (Nat \ {0}), NEW F \in SUBSET (Nat \ {0}),
           \A i \in Nat \ {0} : (i \in C <=> i + 1 \in B) /\ (i \in F <=> i + 1 \in E)
    PROVE  /\ 1 \in B => b \notin X
           /\ 1 \in E => b \in X
           /\ (\/ 1 \in B /\ b \in Z
               \/ 1 \in E /\ b \notin Z
               \/ 1 \notin B \cup E /\ (b \in X <=> b \in Z)) =>
                 Alternating(C, F, b, Z, Y)
<1>1. \A k \in B \cup E : 1 <= k
  OBVIOUS
<1>2. \A i \in C \cup F : i \in Nat \ {0} /\ i + 1 \in B \cup E
  OBVIOUS
<1>3. \A k \in B \cup E : k = 1 \/ (k - 1 \in C \cup F /\ k - 1 \in Nat \ {0})
  OBVIOUS
<1>4. (1 \in B => b \notin X) /\ (1 \in E => b \in X)
  BY <1>1 DEF Alternating
<1>5. ASSUME \/ 1 \in B /\ b \in Z
             \/ 1 \in E /\ b \notin Z
             \/ 1 \notin B \cup E /\ (b \in X <=> b \in Z)
      PROVE  Alternating(C, F, b, Z, Y)
  <2>1. C \cap F = {}
    BY <1>2 DEF Alternating
  <2>2. ASSUME NEW i \in C \cup F, NEW j \in C \cup F, i < j,
               \A k \in C \cup F : k <= i \/ j <= k
        PROVE  i \in C <=> j \in F
    <3>1. \A k \in B \cup E : k <= i + 1 \/ j + 1 <= k
      BY <1>2, <1>3, <2>2
    <3>2. i + 1 \in B <=> j + 1 \in E
      BY <1>2, <2>2, <3>1 DEF Alternating
    <3>3. QED BY <1>2, <2>2, <3>2
  <2>3. ASSUME NEW i \in C \cup F, \A k \in C \cup F : i <= k
        PROVE  i \in C <=> b \notin Z
    <3>1. CASE 1 \in B \cup E
      <4>1. \A k \in B \cup E : k <= 1 \/ i + 1 <= k
        BY <1>2, <1>3, <2>3
      <4>2. 1 \in B <=> i + 1 \in E
        BY <1>2, <2>3, <3>1, <4>1 DEF Alternating
      <4>3. B \cap E = {} /\ i + 1 \in B \cup E
        BY <1>2, <2>3 DEF Alternating
      <4>4. 1 \in B <=> b \in Z
        BY <1>5, <3>1, <4>3
      <4>5. i \in C <=> i + 1 \in B
        BY <1>2, <2>3
      <4>6. QED BY <4>2, <4>3, <4>4, <4>5
    <3>2. CASE 1 \notin B \cup E
      <4>1. \A k \in B \cup E : i + 1 <= k
        BY <1>2, <1>3, <2>3, <3>2
      <4>2. i + 1 \in B <=> b \notin X
        BY <1>2, <2>3, <4>1 DEF Alternating
      <4>3. QED BY <1>2, <1>5, <2>3, <3>2, <4>2
    <3>3. QED BY <3>1, <3>2
  <2>4. ASSUME NEW i \in C \cup F, \A k \in C \cup F : k <= i
        PROVE  i \in C <=> b \in Y
    <3>1. \A k \in B \cup E : k <= i + 1
      BY <1>2, <1>3, <2>4
    <3>2. i + 1 \in B <=> b \in Y
      BY <1>2, <2>4, <3>1 DEF Alternating
    <3>3. QED BY <1>2, <2>4, <3>2
  <2>5. ASSUME C \cup F = {}
        PROVE  b \in Z <=> b \in Y
    <3>1. B \cup E \subseteq {1}
      BY <1>3, <2>5
    <3>2. CASE 1 \in B \cup E
      <4>1. \A k \in B \cup E : k <= 1
        BY <3>1
      <4>2. 1 \in B <=> b \in Y
        BY <3>2, <4>1 DEF Alternating
      <4>3. B \cap E = {}
        BY DEF Alternating
      <4>4. QED BY <1>5, <3>2, <4>2, <4>3
    <3>3. CASE 1 \notin B \cup E
      BY <1>5, <3>1, <3>3 DEF Alternating
    <3>4. QED BY <3>2, <3>3
  <2>6. QED BY <2>1, <2>2, <2>3, <2>4, <2>5 DEF Alternating
<1>6. QED BY <1>4, <1>5

LEMMA WorkerBelieves == ASSUME Worker PROVE believed' = believed
<1> USE DEF app
<1>1. CASE Top \/ OpenFails \/ OpenSucceeds \/ Sleep
  BY <1>1 DEF Top, OpenFails, OpenSucceeds, Sleep
<1>2. CASE InspectShutdown \/ InspectStartOver \/ InspectFails \/ InspectPasses
  BY <1>2 DEF InspectShutdown, InspectStartOver, InspectFails, InspectPasses
<1>3. CASE NoFrame \/ WriteFrame \/ WriteFails
  BY <1>3 DEF NoFrame, WriteFrame, WriteFails
<1>4. CASE PollNothing \/ PollButtons \/ PollFails
  BY <1>4 DEF PollNothing, PollButtons, PollReport, PollFails
<1>5. QED BY <1>1, <1>2, <1>3, <1>4 DEF Worker, Poll

LEMMA AlternateWorker ==
    ASSUME TypeOK, Opened, Debounced, Alternate, Worker
    PROVE  Alternate'
<1>1. PICK p \in Seq(Message), d, u, c \in SUBSET Buttons, source \in Kinds :
          Tells(p, d, u, c, source)
  BY WorkerTells DEF Told, Kinds
<1> DEFINE n == Len(msgs) + Len(p) + 1
<1>2. /\ Len(p) \in Nat /\ Len(msgs) \in Nat /\ Len(msgs') \in Nat
      /\ \A i \in 1..Len(msgs) : msgs'[i] = msgs[i]
      /\ \A i \in 1..Len(p) : msgs'[Len(msgs) + i] = p[i]
      /\ d \cup u \cup c = {} => Len(msgs') = Len(msgs) + Len(p)
      /\ d \cup u \cup c # {} =>
            Len(msgs') = Len(msgs) + Len(p) + 1 /\ msgs'[n] = Edges(d, u, c, source)
  BY <1>1, Channel
<1>3. /\ \A i \in 1..Len(p) : p[i].tag # "buttons"
      /\ d \cap emitted = {} /\ u \cup c \subseteq emitted
      /\ emitted' = (emitted \cup d) \ (u \cup c)
  BY <1>1 DEF Tells, Tidings
<1>4. /\ Edges(d, u, c, source).tag = "buttons" /\ Edges(d, u, c, source).down = d
      /\ Edges(d, u, c, source).up = u /\ Edges(d, u, c, source).cancel = c
  BY Messages
<1>5. n \in Nat /\ \A i \in 1..Len(msgs) : i \in Nat /\ i < n
  BY <1>2
<1>6. \A i \in 1..Len(msgs') :
          \/ i \in 1..Len(msgs)
          \/ i \notin 1..Len(msgs) /\ i # n /\ msgs'[i].tag # "buttons"
          \/ i = n /\ d \cup u \cup c # {}
  <2>1. ASSUME NEW i \in 1..Len(msgs'), i > Len(msgs), i <= Len(msgs) + Len(p)
        PROVE  msgs'[i].tag # "buttons"
    <3>1. i - Len(msgs) \in 1..Len(p) /\ Len(msgs) + (i - Len(msgs)) = i
      BY <1>2, <2>1
    <3>2. QED BY <1>2, <1>3, <3>1
  <2>2. QED BY <1>2, <2>1
<1>7. 1..Len(msgs) \subseteq 1..Len(msgs') /\ (d \cup u \cup c # {} => n \in 1..Len(msgs'))
  BY <1>2
<1>8. believed' = believed
  BY WorkerBelieves
<1> HIDE DEF n
<1>9. SUFFICES ASSUME NEW b \in Buttons
               PROVE  Alternating(Begins(b)', Ends(b)', b, believed', emitted')
  BY DEF Alternate
<1> DEFINE B == Begins(b)
           E == Ends(b)
<1>10. /\ B \in SUBSET Nat /\ E \in SUBSET Nat /\ \A i \in B \cup E : i < n
       /\ Alternating(B, E, b, believed, emitted)
  BY <1>5 DEF Alternate, Begins, Ends
<1>11. Begins(b)' = IF b \in d THEN B \cup {n} ELSE B
  <2>1. \A i : i \in Begins(b)' <=> i \in B \/ (i = n /\ b \in d)
    BY <1>2, <1>4, <1>5, <1>6, <1>7 DEF Begins
  <2>2. QED BY <2>1
<1>12. Ends(b)' = IF b \in u \cup c THEN E \cup {n} ELSE E
  <2>1. \A i : i \in Ends(b)' <=> i \in E \/ (i = n /\ b \in u \cup c)
    BY <1>2, <1>4, <1>5, <1>6, <1>7 DEF Ends
  <2>2. QED BY <2>1
<1> HIDE DEF B, E
<1>13. CASE b \in d
  <2>1. b \notin emitted /\ b \in emitted' /\ b \notin u \cup c
    BY <1>3, <1>13
  <2>2. Alternating(B \cup {n}, E, b, believed, emitted')
    BY <1>5, <1>10, <2>1, OneMore
  <2>3. QED BY <1>8, <1>11, <1>12, <1>13, <2>1, <2>2
<1>14. CASE b \in u \cup c
  <2>1. b \in emitted /\ b \notin emitted' /\ b \notin d
    BY <1>3, <1>14
  <2>2. Alternating(B, E \cup {n}, b, believed, emitted')
    BY <1>5, <1>10, <2>1, OneMore
  <2>3. QED BY <1>8, <1>11, <1>12, <1>14, <2>1, <2>2
<1>15. CASE b \notin d /\ b \notin u \cup c
  <2>1. b \in emitted <=> b \in emitted'
    BY <1>3, <1>15
  <2>2. Alternating(B, E, b, believed, emitted')
    BY <1>10, <2>1 DEF Alternating
  <2>3. QED BY <1>8, <1>11, <1>12, <1>15, <2>2
<1>16. QED BY <1>13, <1>14, <1>15

LEMMA AlternateRead ==
    ASSUME TypeOK, Alternate, ReadMessage
    PROVE  Alternate'
<1>1. /\ msgs \in Seq(Message) /\ msgs # <<>> /\ msgs' = Tail(msgs) /\ emitted' = emitted
      /\ believed' = IF Head(msgs).tag = "buttons"
                     THEN (believed \cup Head(msgs).down)
                             \ (Head(msgs).up \cup Head(msgs).cancel)
                     ELSE believed
  BY DEF ReadMessage, TypeOK, tracker
<1>2. /\ Len(msgs) \in Nat /\ Len(msgs) > 0 /\ Len(msgs') = Len(msgs) - 1
      /\ Head(msgs) = msgs[1]
      /\ \A i \in 1..Len(msgs') : msgs'[i] = msgs[i + 1]
  BY <1>1
<1>3. SUFFICES ASSUME NEW b \in Buttons
               PROVE  Alternating(Begins(b)', Ends(b)', b, believed', emitted')
  BY DEF Alternate
<1> DEFINE B == Begins(b)
           E == Ends(b)
           C == Begins(b)'
           F == Ends(b)'
<1>4. /\ B \in SUBSET (Nat \ {0}) /\ E \in SUBSET (Nat \ {0})
      /\ C \in SUBSET (Nat \ {0}) /\ F \in SUBSET (Nat \ {0})
  BY <1>2 DEF Begins, Ends
<1>5. \A i \in Nat \ {0} : (i \in C <=> i + 1 \in B) /\ (i \in F <=> i + 1 \in E)
  BY <1>2 DEF Begins, Ends
<1>6. Alternating(B, E, b, believed, emitted)
  BY DEF Alternate
<1>7. 1 \in B <=> Head(msgs).tag = "buttons" /\ b \in Head(msgs).down
  BY <1>2 DEF Begins
<1>8. 1 \in E <=>
          Head(msgs).tag = "buttons" /\ b \in Head(msgs).up \cup Head(msgs).cancel
  BY <1>2 DEF Ends
<1>9. B \cap E = {}
  BY <1>6 DEF Alternating
<1> HIDE DEF B, E, C, F
<1>10. \/ 1 \in B /\ b \in believed'
       \/ 1 \in E /\ b \notin believed'
       \/ 1 \notin B \cup E /\ (b \in believed <=> b \in believed')
  BY <1>1, <1>7, <1>8, <1>9
<1>11. Alternating(C, F, b, believed', emitted)
  BY <1>4, <1>5, <1>6, <1>10, OneLess
<1>12. QED BY <1>1, <1>11 DEF C, F

LEMMA AlternateNext ==
    ASSUME TypeOK, Opened, Debounced, Alternate, [Next]_vars
    PROVE  Alternate'
<1>1. CASE Worker
  BY <1>1, AlternateWorker
<1>2. CASE ReadMessage
  BY <1>2, AlternateRead
<1>3. CASE Respawn
  <2>1. /\ msgs' = <<State("discovering")>> /\ believed' = {} /\ emitted' = {}
    BY <1>3 DEF Respawn, ResetTracker
  <2>2. Len(msgs') = 1 /\ msgs'[1].tag = "state"
    BY <2>1, Messages
  <2>3. ASSUME NEW b \in Buttons
        PROVE  Begins(b)' = {} /\ Ends(b)' = {}
    BY <2>2 DEF Begins, Ends
  <2>4. QED BY <2>1, <2>3 DEF Alternate, Alternating
<1>4. CASE ~Worker /\ ~ReadMessage /\ ~Respawn
  BY <1>4, Others DEF Alternate, Alternating, Begins, Ends
<1>5. QED BY <1>1, <1>2, <1>3, <1>4

----------------------------------------------------------------------------
(* The invariant, and what follows. *)

Inv == TypeOK /\ InOrder /\ Opened /\ Unasked /\ Asked /\ Debounced /\ Alternate

LEMMA InvInit == Init => Inv
<1>1. SUFFICES ASSUME Init PROVE Inv
  OBVIOUS
<1>2. msgs = <<State("discovering")>> /\ believed = {} /\ emitted = {}
  BY <1>1 DEF Init
<1>3. Len(msgs) = 1 /\ msgs[1].tag = "state"
  BY <1>2, Messages
<1>4. InOrder /\ Unasked /\ Asked
  BY <1>1, <1>3 DEF Init, InOrder, Unasked, Asked, Answers, Outdated, None
<1>5. \A b \in Buttons : Begins(b) = {} /\ Ends(b) = {}
  BY <1>3 DEF Begins, Ends
<1>6. Alternate
  BY <1>2, <1>5 DEF Alternate, Alternating
<1>7. QED BY <1>1, <1>4, <1>6, TypesInit DEF Inv

LEMMA InvNext == ASSUME Inv, [Next]_vars PROVE Inv' /\ written' >= written
BY TypesNext, InOrderNext, OpenedNext, DebouncedNext, AskedNext, AlternateNext DEF Inv

(* The types of the backend, of its worker and its messages. *)
THEOREM TypeCorrect == Spec => []TypeOK
<1>1. Inv => TypeOK
  BY DEF Inv
<1>2. QED BY <1>1, InvInit, InvNext, PTL DEF Spec

(* The display never goes back to an older frame, whatever is replayed on     *)
(* which device. *)
THEOREM ShowsNoOlder == Spec => NeverOlder
<1>1. Inv /\ [Next]_vars => [written' >= written]_vars
  BY InvNext
<1>2. Inv /\ [Next]_vars => Inv'
  BY InvNext
<1>3. QED BY <1>1, <1>2, InvInit, PTL DEF Spec, NeverOlder

(* The dashboard never takes the health of a device that was opened before    *)
(* the reconnection it asked for as the success of it. *)
THEOREM BelievesFreshHealth == Spec => HealthIsFresh
<1>1. Inv /\ [Next]_vars =>
        [(msgs # <<>> /\ msgs' = Tail(msgs) /\ Head(msgs).tag = "healthy")
          => awaiting \/ Head(msgs).opened = requests]_vars
  <2>1. SUFFICES ASSUME Inv, msgs # <<>>, Head(msgs).tag = "healthy",
                        Head(msgs).opened # requests
                 PROVE  awaiting
    OBVIOUS
  <2>2. Head(msgs) = msgs[1] /\ 1 \in 1..Len(msgs)
    BY <2>1 DEF Inv, TypeOK
  <2>3. QED BY <2>1, <2>2 DEF Inv, Asked, Outdated
<1>2. Inv /\ [Next]_vars => Inv'
  BY InvNext
<1>3. QED BY <1>1, <1>2, InvInit, PTL DEF Spec, HealthIsFresh

(* Every press the dashboard is told of is new to it, and every end is that   *)
(* of a press it was told of. *)
THEOREM TellsInTurn == Spec => EdgesAlternate
<1>1. Inv /\ [Next]_vars =>
        [(msgs # <<>> /\ msgs' = Tail(msgs) /\ Head(msgs).tag = "buttons")
          => /\ Head(msgs).down \cap believed = {}
             /\ Head(msgs).up \cup Head(msgs).cancel \subseteq believed]_vars
  <2>1. SUFFICES ASSUME Inv, msgs # <<>>, Head(msgs).tag = "buttons"
                 PROVE  /\ Head(msgs).down \cap believed = {}
                        /\ Head(msgs).up \cup Head(msgs).cancel \subseteq believed
    OBVIOUS
  <2>2. /\ Head(msgs) = msgs[1] /\ Head(msgs) \in Message /\ Len(msgs) \in Nat
        /\ 1 \in 1..Len(msgs)
    BY <2>1 DEF Inv, TypeOK
  <2>3. Head(msgs).down \cup Head(msgs).up \cup Head(msgs).cancel \subseteq Buttons
    BY <2>1, <2>2 DEF Message
  <2>4. ASSUME NEW b \in Buttons
        PROVE  /\ b \in Head(msgs).down => b \notin believed
               /\ b \in Head(msgs).up \cup Head(msgs).cancel => b \in believed
    <3>1. Alternating(Begins(b), Ends(b), b, believed, emitted)
      BY <2>1 DEF Inv, Alternate
    <3>2. \A k \in Begins(b) \cup Ends(b) : 1 <= k
      BY <2>2 DEF Begins, Ends
    <3>3. /\ b \in Head(msgs).down => 1 \in Begins(b)
          /\ b \in Head(msgs).up \cup Head(msgs).cancel => 1 \in Ends(b)
      BY <2>1, <2>2 DEF Begins, Ends
    <3>4. QED BY <3>1, <3>2, <3>3 DEF Alternating
  <2>5. QED BY <2>3, <2>4
<1>2. Inv /\ [Next]_vars => Inv'
  BY InvNext
<1>3. QED BY <1>1, <1>2, InvInit, PTL DEF Spec, EdgesAlternate
=============================================================================
