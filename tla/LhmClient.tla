----------------------------- MODULE LhmClient -----------------------------
(* The readings of LibreHardwareMonitor: one GET of its web server at a time  *)
(* (http.rs), the JSON document it answers with (json.rs), the CPU            *)
(* temperature that is chosen from it (providers/lhm.rs) and its merge        *)
(* (apply_lhm in telemetry.rs). The connection may break, stall or end at     *)
(* any byte. A call that returns with the deadline is as one before it.        *)
(*                                                                            *)
(* A byte of a document is a token. Of a chunked body a byte is a chunk with  *)
(* its size, or the mark of the end.                                          *)
EXTENDS Integers, Sequences, SequencesExt

CONSTANTS
    Document,   \* the documents that the server has: sequences of tokens
    MaxDepth,   \* MAX_DEPTH of json.rs
    MaxResponse,\* MAX_RESPONSE_BYTES of http.rs
    Deadline    \* the timeout of a request, in ticks

VARIABLES
    answer,     \* what the server answers with
    at,         \* where sample_extended is
    raw,        \* bytes of the answer that were received
    left,       \* time until the deadline
    result,     \* what it returns
    taken       \* what the telemetry has taken in last

vars == <<answer, at, raw, left, result, taken>>

(* Sensors of the kind of the CPU temperature. One whose text is no number is  *)
(* invalid and has the value 0.0, which is in range; "odd" is out of range.   *)
Sensor == [id : {1, 2}, score : {-1, 300}, value : {"valid", "invalid", "odd"}]
Sensors == [1..2 -> Sensor]
NoSensor == [id |-> 0, score |-> 0, value |-> "invalid"]

Framing == {"length", "chunked", "close"}
Answer == [status : {200, 500}, framing : Framing, document : Document,
           extra : BOOLEAN]
NoBody == <<>>
NoResult == [body |-> NoBody, cpu |-> NoSensor]

Init ==
    /\ answer \in Answer
    /\ at = "idle" /\ raw = 0 /\ left = 0
    /\ result = NoResult /\ taken = NoResult

----------------------------------------------------------------------------
(* try_parse_response. The header is the first byte.                         *)

Header == 1
Body == IF answer.extra THEN answer.document \o <<"x">> ELSE answer.document
Wire == Header + Len(Body) + (IF answer.framing = "chunked" THEN 1 ELSE 0)
Received(n) == IF n = Wire THEN Body ELSE SubSeq(Body, 1, n - Header)

More(eof) == IF eof THEN "error" ELSE "more"

(* The chunks end with the document; nothing may follow them. *)
TryDecodeChunked(n, eof) ==
    IF n = Wire THEN (IF answer.extra THEN "error" ELSE "done") ELSE More(eof)

OfLength(n, eof) ==
    IF n - Header < Len(answer.document) THEN More(eof)
    ELSE IF n - Header > Len(answer.document) THEN "error"
    ELSE "done"

TryParseResponse(n, eof) ==
    IF n < Header THEN More(eof)
    ELSE IF answer.status # 200 THEN "error"
    ELSE CASE answer.framing = "chunked" -> TryDecodeChunked(n, eof)
           [] answer.framing = "length" -> OfLength(n, eof)
           [] answer.framing = "close" -> IF eof THEN "done" ELSE "more"

----------------------------------------------------------------------------
(* Json::parse. F[<<k, p, d>>] is the position after the value at p, or after *)
(* the elements of an array or object from p up to its closing bracket k, at  *)
(* depth d; 0 when there is none.                                             *)

Token(text, p) == IF p \in 1..Len(text) THEN text[p] ELSE "eof"
Place(text) == {"value", "endArray", "endObject"} \X (0..(Len(text) + 1)) \X (0..(MaxDepth + 1))

Opened(F, text, k, p, d) == IF Token(text, p + 1) = k THEN p + 2 ELSE F[<<k, p + 1, d>>]
Value(F, text, p, d) ==
    IF d > MaxDepth THEN 0
    ELSE CASE Token(text, p) \in {"string", "number"} -> p + 1
           [] Token(text, p) = "array" -> Opened(F, text, "endArray", p, d)
           [] Token(text, p) = "object" -> Opened(F, text, "endObject", p, d)
           [] OTHER -> 0

(* array and object, whose members have a key. *)
Member(text, k, p) ==
    IF k = "endArray" THEN p
    ELSE IF Token(text, p) = "string" /\ Token(text, p + 1) = "colon" THEN p + 2 ELSE 0
Elements(F, text, k, p, d) ==
    LET member == Member(text, k, p)
        end == IF member \in 1..Len(text) /\ d <= MaxDepth
               THEN F[<<"value", member, d + 1>>] ELSE 0
    IN  CASE Token(text, end) = "comma" -> F[<<k, end + 1, d>>]
          [] Token(text, end) = k -> end + 1
          [] OTHER -> 0

Parse(text) ==
    LET F[a \in Place(text)] == IF a[1] = "value" THEN Value(F, text, a[2], a[3])
                                ELSE Elements(F, text, a[1], a[2], a[3])
    IN  text # <<>> /\ F[<<"value", 1, 0>>] = Len(text) + 1

----------------------------------------------------------------------------
(* best: the first of the usable sensors in their order, in which the better  *)
(* name comes first, and among equals the lower id. *)

ValidTemperature(s) == s.value # "odd"
Before(a, b) == a.score > b.score \/ (a.score = b.score /\ a.id < b.id)
Better(first, s) ==
    IF ValidTemperature(s) /\ (first = NoSensor \/ Before(s, first)) THEN s ELSE first
Best(sensors) == FoldLeft(Better, NoSensor, sensors)

(* collect: a document with no sensor is an error. *)
Collects(text) == "number" \in ToSet(text)

----------------------------------------------------------------------------
(* get.                                                                      *)

Return(r) == result' = r /\ at' = "apply"
Failed == Return(NoResult)

Connect ==
    /\ at = "idle"
    /\ left' = Deadline /\ raw' = 0
    /\ \/ at' = "send" /\ UNCHANGED result
       \/ Failed
    /\ UNCHANGED <<answer, taken>>

(* remaining is asked for before every call. *)
Send ==
    /\ at = "send"
    /\ \/ left > 0 /\ at' = "read" /\ UNCHANGED result
       \/ Failed
    /\ UNCHANGED <<answer, raw, left, taken>>

Taken(text) ==
    IF Parse(text) /\ Collects(text)
    THEN \E sensors \in Sensors : Return([body |-> text, cpu |-> Best(sensors)])
    ELSE Failed

Judge(n, eof) ==
    LET verdict == TryParseResponse(n, eof)
    IN  CASE verdict = "more" -> UNCHANGED <<at, result>>
          [] verdict = "done" -> Taken(Received(n))
          [] verdict = "error" -> Failed

(* Mutant: the end of the connection is the end of the document. *)
ReadLoosely ==
    /\ at = "read" /\ left > 0
    /\ \/ \E n \in raw + 1..Wire :
             /\ raw' = n
             /\ IF n > MaxResponse THEN Failed ELSE Judge(n, FALSE)
       \/ raw > Header /\ UNCHANGED raw /\ Return([body |-> Received(raw), cpu |-> NoSensor])
    /\ UNCHANGED <<answer, left, taken>>

ReadSome ==
    /\ at = "read" /\ left > 0
    /\ \/ \E n \in raw + 1..Wire :
             /\ raw' = n
             /\ IF n > MaxResponse THEN Failed ELSE Judge(n, FALSE)
       \/ UNCHANGED raw /\ Judge(raw, TRUE)   \* the connection ended
       \/ UNCHANGED raw /\ Failed            \* or broke
    /\ UNCHANGED <<answer, left, taken>>

TimedOut ==
    /\ at \in {"send", "read"} /\ left = 0
    /\ Failed
    /\ UNCHANGED <<answer, raw, left, taken>>

Tick ==
    /\ at \in {"send", "read"} /\ left > 0
    /\ left' = left - 1
    /\ UNCHANGED <<answer, at, raw, result, taken>>

----------------------------------------------------------------------------

(* An error leaves the last values, which become stale. *)
ApplyLhm ==
    /\ at = "apply"
    /\ at' = "idle"
    /\ taken' = IF result = NoResult THEN taken ELSE result
    /\ result' = NoResult
    /\ UNCHANGED <<answer, raw, left>>

(* reset_state, when the settings are reloaded. *)
ResetState ==
    /\ taken' = NoResult
    /\ UNCHANGED <<answer, at, raw, left, result>>

Next ==
    \/ Connect \/ Send \/ ReadSome \/ TimedOut \/ Tick \/ ApplyLhm \/ ResetState

Spec == Init /\ [][Next]_vars

----------------------------------------------------------------------------
(* Properties.                                                               *)

TypeOK ==
    /\ answer \in Answer
    /\ at \in {"idle", "send", "read", "apply"}
    /\ raw \in 0..Wire /\ left \in 0..Deadline

OrderIsIrrelevant ==
    \A sensors \in Sensors : Best(sensors).id = Best(Reverse(sensors)).id

(* Readings are taken from a document only as a whole: wherever the           *)
(* connection ends, and also when only its end marks the end of the body, a   *)
(* part of a document is never taken for one (try_parse_response,             *)
(* Json::parse). And the CPU temperature does not depend on the order in      *)
(* which LibreHardwareMonitor lists its sensors (best).                       *)
WholeReadings ==
    /\ taken # NoResult => taken.body \in Document
    /\ at = "idle" => OrderIsIrrelevant
=============================================================================
