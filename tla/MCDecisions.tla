---------------------------- MODULE MCDecisions ----------------------------
(* What is shown, kept and ended: the parts that choose by what they have     *)
(* read or been told. Each is a machine of its own that shares no variable with the   *)
(* others, so that one run looks at one of them at a time. `part` says which; *)
(* the others rest in an initial state.                                       *)
EXTENDS Naturals

CONSTANTS
    \* Presenter
    Process, NoProcess, MaxCandidates, Workload, Margin, SwitchWindows,
    Seconds,
    \* Frames
    LongInterval,
    \* Discord
    Account, NoAccount,
    \* DiscordChannel
    Channel, NoChannel, MaxInbox,
    \* NetworkProbe
    Window, MaxGeneration,
    \* Alerts
    Id, CriticalId,
    \* Termination
    Program, NoProgram, Title,
    \* LogFiles
    MaxBytes, Backups, Excess, MaxLines,
    \* Startup
    Instance, NoInstance,
    \* SettingsFile
    File, Primary, MaxIncludes, MaxFiles, MaxDirectives, MaxLength,
    MaxPart,
    \* SharedMemory
    Field, StaleAfter, NoMemory,
    \* LhmClient
    MaxDepth, MaxResponse, Deadline,
    \* GameList
    Path, NoPath, MaxApplications, Changes,
    \* FrameLines
    MaxLine, LineQueue, MaxFrames, LastLine,
    \* HardwareTest
    Steps, TestButton, MaxTicks,
    \* Coordinator
    Slow, First, Kept, Dropped, MaxQueue

(* Another presenter must have been ahead for more than one second. *)
ASSUME PresenterAssumption ==
    /\ NoProcess \notin Process
    /\ SwitchWindows \in Nat \ {0, 1}

(* The names of the alerts are in an order. *)
ASSUME AlertsAssumption == Id \subseteq Nat

(* The bounds of the model are numbers. *)
ASSUME BoundsAssumption ==
    /\ MaxCandidates \in Nat /\ Seconds \in Nat /\ MaxInbox \in Nat
    /\ MaxGeneration \in Nat \ {0} /\ MaxLines \in Nat /\ Changes \in Nat
    /\ MaxLine \in Nat /\ LineQueue \in Nat /\ MaxFrames \in Nat
    /\ LastLine \in Nat /\ Steps \in Nat \ {0} /\ MaxTicks \in Nat
    /\ MaxQueue \in Nat

(* A window has a length, zero when the probe is disabled. *)
ASSUME NetworkAssumption == Window \subseteq Nat

(* There is a program that may hang, and its window has a title. *)
ASSUME TerminationAssumption == Program # {} /\ Title # {}

(* The settings allow a log file of some length and at least one backup. *)
ASSUME LogAssumption ==
    MaxBytes \in Nat /\ Excess \in Nat /\ Backups \in Nat \ {0}

(* A file has room for a line, and the lines of one that is found are counted. *)
ASSUME LogLinesAssumption == MaxBytes > 0 /\ MaxBytes + Excess <= MaxLines

(* Nobody holding the guard is told apart from an instance that holds it. *)
ASSUME InstanceAssumption == NoInstance \notin Instance

(* A default is told apart from what a file sets. *)
ASSUME SettingsAssumption ==
    /\ Primary \in File /\ "default" \notin File
    /\ MaxDirectives \in Nat

(* A document has a depth, and a request a time. *)
ASSUME WebAssumption == MaxDepth \in Nat /\ Deadline \in Nat

(* hwinfo_stale_ms, in ticks. *)
ASSUME MemoryAssumption == StaleAfter \in Nat

VARIABLES
    part,
    fit, idle, presenterAt, known, window, target, challenger, ahead,
    presenting, frameAt, selected, listed, sampled, age, unsent, said,
    frameShown,
    discordOn, discordChanged, discordShutdown, user, stored, discordAt,
    readyUser, own, voiceShown, authorizing, asker, owner,
    same, selectedChannel, feeds, missed, commands, inbox, channelAt, first,
    round, channel, channelSubscribed, globalSubscribed, pendingRefresh,
    accountChanged, refreshFailed, channelShown,
    generation, policy, networkShutdown, probeAt, probing, trials, readings,
    available, off, sent,
    alarmOn, episodes, episodeOrder, lastKnown,
    unborn, alive, pid, windowOf, had, hung, todo, bound, isBound, process,
    probed, killed,
    logged, backup, modified, logAt, logOpen, logSize, nextSlot, copy,
    logLine, written,
    installed, guard, startedFor, startAt, temporary, config, wanted, entry,
    seen, synced, touched, foreign, saved,
    loadAt, fileStack, completed, files, cfg, directives, text,
    writer, third, mutex, memory, pollAge, halved, sampleAt, sample, kept,
    success,
    answer, lhmAt, raw, lhmLeft, lhmResult, taken,
    gamesFile, unfinished, clock, gamesAt, handle, before, gamesRead, retried,
    list, metadata,
    writing, linesOfFrames, pipe, reader, lineBegun, overflow, lines, dropped,
    linesAt, header, counted, countedUnsent, countedSent,
    lcore, kind, testAt, testResults, stepTick, lastReport, prior, buttonEnds,
    exitCode, accepted, callFailed,
    settings, questions, slowQueue, mergeAt, tick, merged, safe, merging,
    mergedFrom

(* What LibreHardwareMonitor may answer: a document with readings, one with    *)
(* none, and one that is nested too deeply. *)
Documents ==
    {<<"object", "string", "colon", "array", "number", "comma", "number", "endArray",
       "endObject">>,
     <<"object", "endObject">>,
     <<"array", "array", "array", "number", "endArray", "endArray", "endArray">>}

Presenting == INSTANCE Presenter WITH at <- presenterAt
Framing == INSTANCE Frames WITH at <- frameAt, shown <- frameShown
Voice ==
    INSTANCE Discord WITH at <- discordAt, enabled <- discordOn, changed <-
        discordChanged, shutdown <- discordShutdown, ready <- readyUser,
        shown <- voiceShown, step <- authorizing
Channels ==
    INSTANCE DiscordChannel WITH at <- channelAt, asked <- commands,
        selected <- selectedChannel, failed <- refreshFailed, shown <-
        channelShown
Network ==
    INSTANCE NetworkProbe WITH at <- probeAt, current <- probing, shutdown
        <- networkShutdown
Alarms ==
    INSTANCE Alerts WITH enabled <- alarmOn, seen <- episodes, older <-
        episodeOrder, known <- lastKnown
Ending ==
    INSTANCE Termination WITH window <- windowOf, target <- bound, listed <-
        isBound
Logging ==
    INSTANCE LogFiles WITH current <- logged, at <- logAt, open <- logOpen,
        size <- logSize, slot <- nextSlot, line <- logLine
Starting == INSTANCE Startup WITH at <- startAt, command <- startedFor
Loading == INSTANCE SettingsFile WITH at <- loadAt, stack <- fileStack
Shared ==
    INSTANCE SharedMemory WITH hwinfo <- writer, at <- sampleAt, result <-
        sample
Web ==
    INSTANCE LhmClient WITH Document <- Documents, at <- lhmAt, left <-
        lhmLeft, result <- lhmResult
Games ==
    INSTANCE GameList WITH file <- gamesFile, at <- gamesAt, read <-
        gamesRead
Lines ==
    INSTANCE FrameLines WITH frames <- linesOfFrames, line <- lineBegun, at
        <- linesAt, unsent <- countedUnsent, sent <- countedSent
Testing ==
    INSTANCE HardwareTest WITH at <- testAt, tick <- stepTick, ends <-
        buttonEnds, failed <- callFailed, code <- exitCode, results <-
        testResults
Merging ==
    INSTANCE Coordinator WITH asked <- questions, queue <- slowQueue, at <-
        mergeAt, reading <- merging, from <- mergedFrom

presenterVars == <<fit, idle, presenterAt, known, window, target, challenger,
                   ahead>>
framesVars == <<presenting, frameAt, selected, listed, sampled, age, unsent,
                said, frameShown>>
discordVars == <<discordOn, discordChanged, discordShutdown, user, stored,
                 discordAt, readyUser, own, voiceShown, authorizing, asker,
                 owner>>
channelVars == <<same, selectedChannel, feeds, missed, commands, inbox,
                 channelAt, first, round, channel, channelSubscribed,
                 globalSubscribed, pendingRefresh, accountChanged,
                 refreshFailed, channelShown>>
networkVars == <<generation, policy, networkShutdown, probeAt, probing,
                 trials, readings, available, off, sent>>
alertsVars == <<alarmOn, episodes, episodeOrder, lastKnown>>
terminationVars == <<unborn, alive, pid, windowOf, had, hung, todo, bound,
                     isBound, process, probed, killed>>
logVars == <<logged, backup, modified, logAt, logOpen, logSize, nextSlot,
             copy, logLine, written>>
startupVars == <<installed, guard, startedFor, startAt, temporary, config,
                 wanted, entry, seen, synced, touched, foreign, saved>>
settingsVars == <<loadAt, fileStack, completed, files, cfg, directives, text>>
memoryVars == <<writer, third, mutex, memory, pollAge, halved, sampleAt,
                sample, kept, success>>
lhmVars == <<answer, lhmAt, raw, lhmLeft, lhmResult, taken>>
gamesVars == <<gamesFile, unfinished, clock, gamesAt, handle, before,
               gamesRead, retried, list, metadata>>
linesVars == <<writing, linesOfFrames, pipe, reader, lineBegun, overflow,
               lines, dropped, linesAt, header, counted, countedUnsent,
               countedSent>>
testVars == <<lcore, kind, testAt, testResults, stepTick, lastReport, prior,
              buttonEnds, exitCode, accepted, callFailed>>
coordinatorVars == <<settings, questions, slowQueue, mergeAt, tick, merged,
                     safe, merging, mergedFrom>>
vars == <<part, presenterVars, framesVars, discordVars, channelVars,
         networkVars, alertsVars, terminationVars, logVars, startupVars,
         settingsVars, memoryVars, lhmVars, gamesVars, linesVars, testVars,
         coordinatorVars>>

Init ==
    /\ part \in {"presenter", "frames", "discord", "channel", "network",
                 "alerts", "termination", "log", "startup",
                 "settings", "memory", "lhm", "games",
                 "lines", "test", "coordinator"}
    /\ Presenting!Init
    /\ Framing!Init
    /\ part # "frames" => presenting
    /\ Voice!Init
    /\ part # "discord" => discordOn /\ user = CHOOSE a \in Account : TRUE
    /\ Channels!Init
    /\ part # "channel" => selectedChannel = NoChannel
    /\ Network!Init
    /\ part # "network" => policy = 0
    /\ Alarms!Init
    /\ Ending!Init
    /\ Logging!Init
    /\ part # "log" => logged = <<>>
    /\ Starting!Init
    /\ part # "startup" => ~installed /\ ~wanted /\ entry = "none"
    /\ Loading!Init
    /\ Shared!Init
    /\ Web!Init
    /\ part # "lhm" => answer = CHOOSE a \in Web!Answer : TRUE
    /\ Games!Init
    /\ Lines!Init
    /\ Testing!Init
    /\ part # "test" => ~lcore /\ kind = "auto"
    /\ Merging!Init
    /\ part # "coordinator" => settings[1].safe

Next ==
    /\ UNCHANGED part
    /\ \/ /\ part = "presenter" /\ Presenting!Next
          /\ UNCHANGED <<framesVars, discordVars, channelVars, networkVars,
                         alertsVars, terminationVars, logVars, startupVars,
                         settingsVars, memoryVars, lhmVars, gamesVars,
                         linesVars, testVars, coordinatorVars>>
       \/ /\ part = "frames" /\ Framing!Next
          /\ UNCHANGED <<presenterVars, discordVars, channelVars, networkVars,
                         alertsVars, terminationVars, logVars, startupVars,
                         settingsVars, memoryVars, lhmVars, gamesVars,
                         linesVars, testVars, coordinatorVars>>
       \/ /\ part = "discord" /\ Voice!Next
          /\ UNCHANGED <<presenterVars, framesVars, channelVars, networkVars,
                         alertsVars, terminationVars, logVars, startupVars,
                         settingsVars, memoryVars, lhmVars, gamesVars,
                         linesVars, testVars, coordinatorVars>>
       \/ /\ part = "channel" /\ Channels!Next
          /\ UNCHANGED <<presenterVars, framesVars, discordVars, networkVars,
                         alertsVars, terminationVars, logVars, startupVars,
                         settingsVars, memoryVars, lhmVars, gamesVars,
                         linesVars, testVars, coordinatorVars>>
       \/ /\ part = "network" /\ Network!Next
          /\ UNCHANGED <<presenterVars, framesVars, discordVars, channelVars,
                         alertsVars, terminationVars, logVars, startupVars,
                         settingsVars, memoryVars, lhmVars, gamesVars,
                         linesVars, testVars, coordinatorVars>>
       \/ /\ part = "alerts" /\ Alarms!Next
          /\ UNCHANGED <<presenterVars, framesVars, discordVars, channelVars,
                         networkVars, terminationVars, logVars, startupVars,
                         settingsVars, memoryVars, lhmVars, gamesVars,
                         linesVars, testVars, coordinatorVars>>
       \/ /\ part = "termination" /\ Ending!Next
          /\ UNCHANGED <<presenterVars, framesVars, discordVars, channelVars,
                         networkVars, alertsVars, logVars, startupVars,
                         settingsVars, memoryVars, lhmVars, gamesVars,
                         linesVars, testVars, coordinatorVars>>
       \/ /\ part = "log" /\ Logging!Next
          /\ UNCHANGED <<presenterVars, framesVars, discordVars, channelVars,
                         networkVars, alertsVars, terminationVars,
                         startupVars, settingsVars, memoryVars, lhmVars,
                         gamesVars, linesVars, testVars, coordinatorVars>>
       \/ /\ part = "startup" /\ Starting!Next
          /\ UNCHANGED <<presenterVars, framesVars, discordVars, channelVars,
                         networkVars, alertsVars, terminationVars, logVars,
                         settingsVars, memoryVars, lhmVars, gamesVars,
                         linesVars, testVars, coordinatorVars>>
       \/ /\ part = "settings" /\ Loading!Next
          /\ UNCHANGED <<presenterVars, framesVars, discordVars, channelVars,
                         networkVars, alertsVars, terminationVars, logVars,
                         startupVars, memoryVars, lhmVars, gamesVars,
                         linesVars, testVars, coordinatorVars>>
       \/ /\ part = "memory" /\ Shared!Next
          /\ UNCHANGED <<presenterVars, framesVars, discordVars, channelVars,
                         networkVars, alertsVars, terminationVars, logVars,
                         startupVars, settingsVars, lhmVars, gamesVars,
                         linesVars, testVars, coordinatorVars>>
       \/ /\ part = "lhm" /\ Web!Next
          /\ UNCHANGED <<presenterVars, framesVars, discordVars, channelVars,
                         networkVars, alertsVars, terminationVars, logVars,
                         startupVars, settingsVars, memoryVars, gamesVars,
                         linesVars, testVars, coordinatorVars>>
       \/ /\ part = "games" /\ Games!Next
          /\ UNCHANGED <<presenterVars, framesVars, discordVars, channelVars,
                         networkVars, alertsVars, terminationVars, logVars,
                         startupVars, settingsVars, memoryVars, lhmVars,
                         linesVars, testVars, coordinatorVars>>
       \/ /\ part = "lines" /\ Lines!Next
          /\ UNCHANGED <<presenterVars, framesVars, discordVars, channelVars,
                         networkVars, alertsVars, terminationVars, logVars,
                         startupVars, settingsVars, memoryVars, lhmVars,
                         gamesVars, testVars, coordinatorVars>>
       \/ /\ part = "test" /\ Testing!Next
          /\ UNCHANGED <<presenterVars, framesVars, discordVars, channelVars,
                         networkVars, alertsVars, terminationVars, logVars,
                         startupVars, settingsVars, memoryVars, lhmVars,
                         gamesVars, linesVars, coordinatorVars>>
       \/ /\ part = "coordinator" /\ Merging!Next
          /\ UNCHANGED <<presenterVars, framesVars, discordVars, channelVars,
                         networkVars, alertsVars, terminationVars, logVars,
                         startupVars, settingsVars, memoryVars, lhmVars,
                         gamesVars, linesVars, testVars>>

Spec == Init /\ [][Next]_vars

----------------------------------------------------------------------------
(* The properties of the parts, each stated and explained in its module.      *)

TypeOK ==
    /\ Presenting!TypeOK /\ Framing!TypeOK /\ Voice!TypeOK /\ Channels!TypeOK
    /\ Alarms!TypeOK /\ Ending!TypeOK /\ Network!TypeOK /\ Merging!TypeOK
    /\ Logging!TypeOK /\ Starting!TypeOK /\ Loading!TypeOK
    /\ Shared!TypeOK /\ Web!TypeOK /\ Games!TypeOK /\ Lines!TypeOK /\ Testing!TypeOK

KeptUnlessBeaten == Presenting!KeptUnlessBeaten
StaleIsShown == Framing!StaleIsShown
TokenKept == Voice!TokenKept
ChannelFollowed == Channels!ChannelFollowed
EpisodeEnds == Alarms!EpisodeEnds
EndsOnlyTheHung == Ending!EndsOnlyTheHung

(* What a worker sends with a generation of the settings was made under them, *)
(* and what is published with it was sent with it. *)
OwnGeneration ==
    []Network!OwnTrials /\ Merging!OwnGeneration

(* What is made of a text, the settings or the answer of another program, is  *)
(* what was written in it. The text does not change, so it is looked at while *)
(* its part runs only, like the copy of the shared memory below. *)
LoadedAsWritten ==
    /\ part = "settings" => Loading!LoadedAsWritten
    /\ part = "lhm" => Web!WholeReadings

(* A file is whole, and what it is to keep is in it, wherever the program ends. *)
KeptWhole == Logging!KeptWhole /\ Starting!KeptWhole

(* What is read of another program is never a part of it. *)
WholeReadings ==
    /\ part = "memory" => Shared!WholeReadings
    /\ Games!WholeReadings /\ Lines!WholeReadings

HonestReport == Testing!HonestReport
=============================================================================
