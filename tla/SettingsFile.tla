---------------------------- MODULE SettingsFile ----------------------------
(* Loading the settings (parser.rs, validate in config.rs): a file and those  *)
(* it includes, line by line. Files may be saved at any moment, so that what  *)
(* is read of one is any text. Two settings are enough: an interval, which    *)
(* may not exceed the age limit, so that who raises the one raises the other. *)
EXTENDS Integers, Sequences, SequencesExt, Functions

CONSTANTS
    File,           \* settings files
    Primary,        \* the one that is loaded
    MaxIncludes,    \* MAX_INCLUDES
    MaxFiles,       \* MAX_CONFIG_FILES
    MaxDirectives,  \* MAX_CONFIG_INCLUDE_DIRECTIVES
    MaxLength,      \* bound on the lines of the primary file
    MaxPart         \* and on those of an included one

VARIABLES
    at,         \* where load is
    stack,      \* the files that are being parsed: the lines that are left of
                \* each, and the keys that were seen in it
    completed,  \* files that were parsed to their end
    files,      \* what the loader reports as the files of the settings
    cfg,        \* the settings
    directives, \* include lines so far
    text        \* what was read of each file

vars == <<at, stack, completed, files, cfg, directives, text>>

(* A line sets a key or names a file to include. *)
Key == {"interval", "stale"}
Line == [what : Key] \cup [what : {"include"}, file : File]
Text(f) == SeqOf(Line, IF f = Primary THEN MaxLength ELSE MaxPart)

(* A setting is the file that set it. *)
Unset == "default"
Default == [k \in Key |-> Unset]

Init ==
    /\ at = "idle" /\ stack = <<>> /\ completed = {} /\ files = <<>>
    /\ cfg = Default /\ directives = 0 /\ text = [f \in File |-> <<>>]

----------------------------------------------------------------------------
(* tokenize, over letters: a blank, the mark of a comment, two quotes, the    *)
(* backslash, and any other.                                                  *)

Quotes == {"double", "single"}
None == "none"

Flush(s) == IF s.started THEN [s EXCEPT !.out = Append(@, s.token), !.token = <<>>,
                                        !.started = FALSE]
            ELSE s

Put(s, letters) == [s EXCEPT !.token = @ \o letters, !.started = TRUE]

Rune(s, r) ==
    CASE s.ended -> s
      [] s.escaped ->
            [Put(s, IF r \in {s.quote, "backslash"} THEN <<r>> ELSE <<"backslash", r>>)
             EXCEPT !.escaped = FALSE]
      [] ~s.escaped /\ s.quote = None ->
            CASE r = "blank" -> Flush(s)
              [] r = "comment" /\ ~s.started -> [s EXCEPT !.ended = TRUE]
              [] r \in Quotes -> [s EXCEPT !.quote = r, !.started = TRUE]
              [] OTHER -> Put(s, <<r>>)
      [] ~s.escaped /\ s.quote # None ->
            CASE r = "backslash" -> [s EXCEPT !.escaped = TRUE, !.started = TRUE]
              [] r = s.quote -> [s EXCEPT !.quote = None, !.started = TRUE]
              [] OTHER -> Put(s, <<r>>)

(* An unterminated quote is an error. *)
Tokenize(line) ==
    LET end == FoldLeft(Rune, [out |-> <<>>, token |-> <<>>, quote |-> None, ended |-> FALSE,
                               escaped |-> FALSE, started |-> FALSE], line)
    IN  IF end.quote # None THEN <<"error">> ELSE Flush(end).out

----------------------------------------------------------------------------
(* ParseContext.                                                             *)

Refuse ==
    /\ at' = "refused"
    /\ stack' = <<>>
    /\ UNCHANGED <<completed, files, cfg, directives, text>>

Top == Last(stack)
Depth == Len(stack) - 1
IsOpen(f) == \E i \in DOMAIN stack : stack[i].file = f

(* The text is read at once. It has at most MaxLength lines; what is too much *)
(* for the limits of a file, of the bytes or the lines is refused. *)
ReadFile(f, below) ==
    \E t \in Text(f) :
       /\ text' = [text EXCEPT ![f] = t]
       /\ files' = Append(files, f)
       /\ stack' = Append(below, [file |-> f, rest |-> t, seen |-> {}])
       /\ at' = "line"

(* load: the file cannot be resolved, or is parsed. *)
Load ==
    /\ at = "idle"
    /\ \/ ReadFile(Primary, <<>>) /\ UNCHANGED <<completed, cfg, directives>>
       \/ Refuse

Advanced == [Top EXCEPT !.rest = Tail(@)]
Line1 == Head(Top.rest)
HasLine == at = "line" /\ Top.rest # <<>>

(* parse_file for an include line. A file that was completed is skipped. *)
ParseInclude ==
    /\ HasLine /\ Line1.what = "include" /\ directives < MaxDirectives
    /\ LET f == Line1.file
           below == Append(Front(stack), Advanced)
       IN  /\ Depth + 1 <= MaxIncludes /\ ~IsOpen(f)
           /\ directives' = directives + 1
           /\ \/ /\ f \in completed
                 /\ stack' = below /\ UNCHANGED <<at, files, text>>
              \/ /\ f \notin completed /\ Len(files) < MaxFiles
                 /\ ReadFile(f, below)
    /\ UNCHANGED <<completed, cfg>>

(* Mutant: the including file forgets the keys that were seen in it. *)
CompleteForgetting ==
    /\ at = "line" /\ Top.rest = <<>>
    /\ completed' = completed \cup {Top.file}
    /\ stack' = IF Depth = 0 THEN <<>>
                ELSE [i \in 1..Depth |-> IF i = Depth THEN [stack[i] EXCEPT !.seen = {}]
                                         ELSE stack[i]]
    /\ at' = IF Depth = 0 THEN "validate" ELSE "line"
    /\ UNCHANGED <<files, cfg, directives, text>>

(* The end of the file: the including file goes on with its own keys. *)
Complete ==
    /\ at = "line" /\ Top.rest = <<>>
    /\ completed' = completed \cup {Top.file}
    /\ stack' = Front(stack)
    /\ at' = IF Depth = 0 THEN "validate" ELSE "line"
    /\ UNCHANGED <<files, cfg, directives, text>>

(* apply: the value is converted and stored. *)
Apply ==
    /\ HasLine /\ Line1.what \in Key \ Top.seen
    /\ cfg' = [cfg EXCEPT ![Line1.what] = Top.file]
    /\ stack' = Append(Front(stack), [Advanced EXCEPT !.seen = @ \cup {Line1.what}])
    /\ UNCHANGED <<at, completed, files, directives, text>>

(* Anything else is refused, at its line: a duplicate key, a cycle, and more  *)
(* files, includes or levels than there may be. *)
RefuseLine ==
    /\ HasLine
    /\ \/ Line1.what \in Top.seen
       \/ /\ Line1.what = "include"
          /\ \/ directives = MaxDirectives
             \/ Depth + 1 > MaxIncludes
             \/ IsOpen(Line1.file)
             \/ Line1.file \notin completed /\ Len(files) = MaxFiles
    /\ Refuse

(* So is a line that is no line or has a value the key cannot take, and a     *)
(* file that cannot be read, is too long, or is not UTF-8. *)
BadLine == HasLine /\ Refuse

Related == cfg["interval"] # Unset => cfg["stale"] # Unset

(* validate: a setting has its limits, whichever file set it, *)
OutOfRange == at = "validate" /\ Refuse

(* and two settings may have to do with each other. *)
Validate ==
    /\ at = "validate"
    /\ IF Related
       THEN at' = "accepted" /\ UNCHANGED <<stack, completed, files, cfg, directives, text>>
       ELSE Refuse

(* The next save is loaded into a new context. *)
Again ==
    /\ at \in {"accepted", "refused"}
    /\ at' = "idle" /\ stack' = <<>> /\ completed' = {} /\ files' = <<>>
    /\ cfg' = Default /\ directives' = 0 /\ text' = [f \in File |-> <<>>]

Next ==
    \/ Load \/ ParseInclude \/ Complete \/ Apply \/ RefuseLine \/ BadLine
    \/ OutOfRange \/ Validate \/ Again

Spec == Init /\ [][Next]_vars

----------------------------------------------------------------------------
(* Properties.                                                               *)

TypeOK ==
    /\ at \in {"idle", "line", "validate", "accepted", "refused"}
    /\ \A i \in DOMAIN stack : stack[i].file \in File /\ stack[i].seen \subseteq Key
    /\ completed \subseteq File /\ files \in Seq(File)
    /\ cfg \in [Key -> File \cup {Unset}] /\ directives \in 0..MaxDirectives

Letter == {"blank", "comment", "double", "single", "backslash", "other"}
Quoted(word) ==
    <<"double">>
    \o FlattenSeq([i \in DOMAIN word |->
         IF word[i] \in {"double", "backslash"} THEN <<"backslash", word[i]>> ELSE <<word[i]>>])
    \o <<"double">>
QuotedIsOneWord == \A word \in SeqOf(Letter, 3) : Tokenize(Quoted(word)) = <<word>>

Sets(f, k) == \E i \in DOMAIN text[f] : text[f][i].what = k
Twice(f, k) ==
    \E i, j \in DOMAIN text[f] : i # j /\ {text[f][i].what, text[f][j].what} = {k}
SetsLast(f, k) ==
    \E i \in DOMAIN text[f] :
       /\ text[f][i].what = k
       /\ \A j \in i + 1..Len(text[f]) : text[f][j].what # "include"
IncludedBy(f, g) == [what |-> "include", file |-> f] \in ToSet(text[g])

(* What is accepted is what was written: the files that are reported, which   *)
(* are watched for saves, are those that are included, each once; no file     *)
(* sets a key twice, also not around an include; a key that some file sets is *)
(* set, by the including file when it sets it below its includes; and the     *)
(* relation between two keys holds wherever each was set (parse_lines,        *)
(* parse_file, validate). A word in quotes is one word, and that word,        *)
(* whatever is in it (tokenize).                                              *)
LoadedAsWritten ==
    /\ at = "accepted" =>
          /\ IsInjective(files)
          /\ \A f \in File \ {Primary} :
                f \in ToSet(files) <=> \E g \in ToSet(files) : IncludedBy(f, g)
          /\ \A f \in ToSet(files), k \in Key : ~Twice(f, k)
          /\ \A k \in Key :
                /\ cfg[k] = Unset <=> \A f \in ToSet(files) : ~Sets(f, k)
                /\ SetsLast(Primary, k) => cfg[k] = Primary
          /\ Related
    /\ at = "idle" => QuotedIsOneWord
=============================================================================
