---------------------------- MODULE MCProviders ----------------------------
(* The workers that may wait for the world outside for ever: each is a        *)
(* machine of its own that shares no variable with the others, so that one    *)
(* run looks at one of them at a time. `part` says which; the others rest in  *)
(* an initial state.                                                          *)
CONSTANTS
    \* SdkOwner
    Thread, NoThread,
    \* HeadsetQuery
    Io, NoIo, Candidates, ReadAttempts,
    \* Capture
    Child, NoChild, Target, NoTarget,
    \* HidDevice
    MaxInterfaces,
    \* DiscordPipe
    MaxPipe, MaxFrame,
    \* PinnedFile
    Levels

(* A handle that is not there is not one of a process. *)
ASSUME NoChildAssumption == NoChild \notin Child

VARIABLES
    part,
    circuit, active, blocked, thread, answer, queue, serving, pinned, loaded,
    caller, device, call, reply, connectLate, dll,
    gate, queryAt, left, step, reads, queryLate, current, io, holder,
    mode, changed, shutdown, want, running, traced, captureAt, asked, pick,
    stops, child, session, ours, key, lines, seen, cooling, reported,
    competitor, deviceAt, interfacesLeft, handles, report,
    pipeAt, pipeIndex, server, refreshing, swallowed, verifier, transfer,
    moved, sent, incoming, got, length,
    pinnedKind, pinAt, pathEntry, pathTarget, heldLevels, heldFile,
    fileAttached, codeRunning

Sdk == INSTANCE SdkOwner WITH late <- connectLate
Headset == INSTANCE HeadsetQuery WITH at <- queryAt, late <- queryLate
Capturing == INSTANCE Capture WITH at <- captureAt
Device ==
    INSTANCE HidDevice WITH at <- deviceAt, left <- interfacesLeft, io <-
        report
Piping ==
    INSTANCE DiscordPipe WITH at <- pipeAt, index <- pipeIndex, io <-
        transfer
Pinning ==
    INSTANCE PinnedFile WITH kind <- pinnedKind, at <- pinAt, entry <-
        pathEntry, target <- pathTarget, held <- heldLevels, file <-
        heldFile, running <- codeRunning, attached <- fileAttached

sdkVars == <<circuit, active, blocked, thread, answer, queue, serving, pinned,
             loaded, caller, device, call, reply, connectLate, dll>>
headsetVars == <<gate, queryAt, left, step, reads, queryLate, current, io,
                 holder>>
captureVars == <<mode, changed, shutdown, want, running, traced, captureAt,
                 asked, pick, stops, child, session, ours, key, lines, seen,
                 cooling, reported>>
deviceVars == <<competitor, deviceAt, interfacesLeft, handles, report>>
pipeVars == <<pipeAt, pipeIndex, server, refreshing, swallowed, verifier,
              transfer, moved, sent, incoming, got, length>>
pinnedVars == <<pinnedKind, pinAt, pathEntry, pathTarget, heldLevels,
                heldFile, fileAttached, codeRunning>>
vars == <<part, sdkVars, headsetVars, captureVars, deviceVars, pipeVars,
         pinnedVars>>

Init ==
    /\ part \in {"sdk", "headset", "capture", "device", "pipe", "pinned"}
    /\ Sdk!Init
    /\ part # "sdk" => dll = "accepted"
    /\ Headset!Init
    /\ Capturing!Init
    /\ Device!Init
    /\ part # "device" => ~competitor
    /\ Piping!Init
    /\ Pinning!Init
    /\ part # "pinned" => pinnedKind = "SDK"

Next ==
    /\ UNCHANGED part
    /\ \/ /\ part = "sdk" /\ Sdk!Next
          /\ UNCHANGED <<headsetVars, captureVars, deviceVars, pipeVars,
                         pinnedVars>>
       \/ /\ part = "headset" /\ Headset!Next
          /\ UNCHANGED <<sdkVars, captureVars, deviceVars, pipeVars,
                         pinnedVars>>
       \/ /\ part = "capture" /\ Capturing!Next
          /\ UNCHANGED <<sdkVars, headsetVars, deviceVars, pipeVars,
                         pinnedVars>>
       \/ /\ part = "device" /\ Device!Next
          /\ UNCHANGED <<sdkVars, headsetVars, captureVars, pipeVars,
                         pinnedVars>>
       \/ /\ part = "pipe" /\ Piping!Next
          /\ UNCHANGED <<sdkVars, headsetVars, captureVars, deviceVars,
                         pinnedVars>>
       \/ /\ part = "pinned" /\ Pinning!Next
          /\ UNCHANGED <<sdkVars, headsetVars, captureVars, deviceVars,
                         pipeVars>>

(* The capture is not at rest in its initial state: it is to be fair in its   *)
(* own runs only. *)
CaptureFairness ==
    /\ WF_captureVars(part = "capture" /\ Capturing!Worker)
    /\ WF_captureVars(part = "capture" /\ Capturing!CooldownEnds)
    /\ SF_captureVars(part = "capture" /\ Capturing!LetsGoOfChild)
    /\ SF_captureVars(part = "capture" /\ Capturing!LetsGoOfSession)

Spec ==
    /\ Init /\ [][Next]_vars
    /\ Sdk!Fairness /\ Headset!Fairness /\ CaptureFairness

----------------------------------------------------------------------------
(* The properties of the parts, each stated and explained in its module.      *)

OnlyVerifiedRuns == Sdk!OnlyVerifiedRuns /\ Pinning!OnlyVerifiedRuns
OneOwner == Sdk!OneOwner
CallerReturns == Sdk!CallerReturns
OneIoAtATime == Headset!OneIoAtATime
GateReopens == Headset!GateReopens
OneCapture == Capturing!OneCapture
StopsWhenOff == part = "capture" => Capturing!StopsWhenOff

(* The drivers keep nothing of a caller that has gone on. *)
InStep == Device!DriverDrained /\ Piping!InStep
=============================================================================
