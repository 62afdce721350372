------------------------------ MODULE FrameLines ------------------------------
(* From the lines that PresentMon writes to the frame rates that are shown    *)
(* (providers/presentmon.rs). A thread reads them into a queue that it never  *)
(* waits for; the worker takes some of them each tick. A line that is lost    *)
(* would be a frame that was never slow, so that the capture begins anew.     *)
EXTENDS Integers, Sequences, FiniteSets

CONSTANTS
    MaxLine,    \* MAX_LINE_BYTES, in pieces of a line
    LineQueue,  \* capacity of the queue
    MaxFrames,  \* MAX_WINDOW_FRAMES
    LastLine    \* bound: lines that PresentMon writes

VARIABLES
    writing,    \* PresentMon: the line that it writes, and pieces of it written
    frames,     \* lines that it finished and that are frames of the target
    pipe,       \* pieces on their way
    reader,     \* the thread that reads: reads or gone
    line,       \* the line it has begun
    overflow,   \* which is too long
    lines,      \* the queue
    dropped,    \* line_overflow
    at,         \* where the worker's tick is
    header,     \* Parser::header
    counted,    \* Stats::frames
    unsent,     \* last_frame > last_publish
    sent        \* the frames that the last statistics are of

source == <<writing, frames, pipe>>
thread == <<reader, line, overflow>>
capture == <<at, header, counted, unsent, sent>>
vars == <<source, thread, lines, dropped, capture>>

Kind == {"header", "frame", "other", "bad"}
NewLine(n) == [n |-> n, kind |-> "header", pieces |-> 0]
NoLine == NewLine(0)

Init ==
    /\ writing = NewLine(1) /\ frames = {} /\ pipe = <<>>
    /\ reader = "reads" /\ line = NoLine /\ overflow = FALSE
    /\ lines = <<>> /\ dropped = FALSE
    /\ at = "rest" /\ header = FALSE /\ counted = {} /\ unsent = FALSE /\ sent = {}

----------------------------------------------------------------------------
(* PresentMon writes to the pipe what fits, which need not be a line.        *)

WritePiece ==
    /\ writing.n \in 1..LastLine /\ pipe = <<>>
    /\ \E kind \in IF writing.pieces = 0 THEN Kind ELSE {writing.kind}, end \in BOOLEAN :
          /\ writing.pieces < MaxLine \/ end
          /\ pipe' = <<[n |-> writing.n, kind |-> kind, end |-> end]>>
          /\ writing' = IF end THEN NewLine(writing.n + 1)
                        ELSE [writing EXCEPT !.kind = kind, !.pieces = @ + 1]
          /\ frames' = IF end /\ kind = "frame" THEN frames \cup {writing.n} ELSE frames
    /\ UNCHANGED <<thread, lines, dropped, capture>>

(* It ends, perhaps in the middle of a line. *)
Ends ==
    /\ writing' = NoLine
    /\ writing # NoLine
    /\ UNCHANGED <<frames, pipe, thread, lines, dropped, capture>>

----------------------------------------------------------------------------
(* read_output.                                                              *)

SendLine(l) ==
    IF Len(lines) < LineQueue
    THEN lines' = Append(lines, l) /\ UNCHANGED dropped
    ELSE dropped' = TRUE /\ UNCHANGED lines

(* What a line cut short says is not what the line would have said. *)
Read(piece) ==
    LET fits == ~overflow /\ line.pieces < MaxLine
        longer == [n |-> piece.n, kind |-> piece.kind, pieces |-> line.pieces + 1]
    IN  /\ line' = IF piece.end THEN NoLine ELSE IF fits THEN longer ELSE line
        /\ overflow' = (~fits /\ ~piece.end)
        /\ \/ fits /\ piece.end /\ SendLine([n |-> piece.n, kind |-> piece.kind])
           \/ fits /\ piece.end /\ dropped' = TRUE /\ UNCHANGED lines  \* not UTF-8
           \/ fits /\ ~piece.end /\ UNCHANGED <<lines, dropped>>
           \/ ~fits /\ dropped' = TRUE /\ UNCHANGED lines

ReadOutput ==
    /\ reader = "reads" /\ pipe # <<>>
    /\ Read(Head(pipe)) /\ pipe' = <<>>
    /\ UNCHANGED <<writing, frames, reader, capture>>

(* The rest of a line is sent as one. *)
ReadEnd ==
    /\ reader = "reads" /\ pipe = <<>> /\ writing = NoLine
    /\ reader' = "gone"
    /\ IF line # NoLine /\ ~overflow
       THEN \E kind \in {line.kind, "bad"} : SendLine([n |-> line.n, kind |-> kind])
       ELSE UNCHANGED <<lines, dropped>>
    /\ UNCHANGED <<source, line, overflow, capture>>

ReadFails ==
    /\ reader = "reads"
    /\ reader' = "gone" /\ dropped' = TRUE
    /\ UNCHANGED <<source, line, overflow, lines, capture>>

----------------------------------------------------------------------------
(* drain.                                                                    *)

(* After MAX_LINES_PER_TICK lines, or when none is left, see Judge. *)
Tick ==
    /\ at = "rest" /\ at' = "drain"
    /\ UNCHANGED <<source, thread, lines, dropped, header, counted, unsent, sent>>

TakeLine(kinds) ==
    /\ at = "drain" /\ lines # <<>> /\ Head(lines).kind \in kinds
    /\ lines' = Tail(lines)
    /\ UNCHANGED <<source, thread, dropped, at, sent>>

(* parse_line: nothing is understood before the header. *)
Skip ==
    /\ \/ TakeLine({"header", "other"})
       \/ ~header /\ TakeLine({"frame"})
    /\ header' = (header \/ Head(lines).kind = "header")
    /\ UNCHANGED <<counted, unsent>>

(* What is left of the window when the oldest leave it. *)
Remaining == {{m \in counted : m >= n} : n \in 1..LastLine + 1}

(* Stats::add. *)
Count ==
    /\ header /\ TakeLine({"frame"})
    /\ \E left \in Remaining :
          /\ Cardinality(left) < MaxFrames
          /\ counted' = left \cup {Head(lines).n}
    /\ unsent' = TRUE /\ UNCHANGED header

(* Mutant: a tick that took a line does not ask whether one was lost. *)
JudgeUnasked ==
    /\ at = "drain" /\ (dropped => unsent)
    /\ lines # <<>> \/ reader = "reads"
    /\ at' = "rest"
    /\ \/ unsent /\ sent' \in Remaining \ {{}} /\ unsent' = FALSE
       \/ UNCHANGED <<unsent, sent>>
    /\ UNCHANGED <<source, thread, lines, dropped, header, counted>>

(* The frames are sent when the interval is over, unless a line was lost.     *)
Judge ==
    /\ at = "drain" /\ ~dropped
    /\ lines # <<>> \/ reader = "reads"
    /\ at' = "rest"
    /\ \/ unsent /\ sent' \in Remaining \ {{}} /\ unsent' = FALSE
       \/ UNCHANGED <<unsent, sent>>
    /\ UNCHANGED <<source, thread, lines, dropped, header, counted>>

(* A new capture. *)
Begin ==
    /\ writing' = NewLine(1) /\ frames' = {} /\ pipe' = <<>>
    /\ reader' = "reads" /\ line' = NoLine /\ overflow' = FALSE
    /\ lines' = <<>> /\ dropped' = FALSE
    /\ at' = "rest" /\ header' = FALSE /\ counted' = {} /\ unsent' = FALSE /\ sent' = {}

(* A line that is not understood, a full window, a lost line, the end of the  *)
(* thread: the capture is stopped and started again. *)
Fail ==
    /\ at = "drain"
    /\ \/ lines # <<>> /\ Head(lines).kind = "bad"
       \/ lines # <<>> /\ Cardinality(counted) >= MaxFrames
       \/ lines = <<>> /\ reader = "gone"
       \/ dropped
    /\ Begin

Next ==
    \/ WritePiece \/ Ends
    \/ ReadOutput \/ ReadEnd \/ ReadFails
    \/ Tick \/ Skip \/ Count \/ Judge \/ Fail

Spec == Init /\ [][Next]_vars

----------------------------------------------------------------------------
(* Properties.                                                               *)

TypeOK ==
    /\ writing.n \in 0..LastLine + 1 /\ frames \subseteq 1..LastLine
    /\ Len(pipe) <= 1 /\ reader \in {"reads", "gone"}
    /\ line.pieces \in 0..MaxLine /\ Len(lines) <= LineQueue
    /\ {overflow, dropped, header, unsent} \subseteq BOOLEAN
    /\ at \in {"rest", "drain"}
    /\ counted \subseteq 1..LastLine /\ Cardinality(counted) <= MaxFrames
    /\ sent \subseteq 1..LastLine

(* The statistics that are sent are of every frame between the first and the  *)
(* last of them: a line that is lost between the pipe, the thread and the     *)
(* queue is found out before anything that came after it is shown             *)
(* (send_line, drain). The last may be one that PresentMon did not finish. *)
WholeReadings ==
    \A m, n \in sent : {k \in frames : m <= k /\ k <= n} \subseteq sent
=============================================================================
