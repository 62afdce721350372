# LCDSirPlus: a verification development

LCDSirPlus is a Windows program that shows system readings on the LCD of a
Logitech G13. This directory holds TLA+ models of its stateful parts, the TLC
runs that check them on small instances, and TLAPS proofs of the properties
that matter most. Paths below are relative to the repository's root; everything
the models translate is under `src/` there.

## 1. Inventory

The program is one process with a main loop (`app.rs`), one thread that owns the
device (`backends/mod.rs`), one that owns the Logitech DLL (`backends/sdk.rs`),
a window thread (`ui.rs`) and a handful of workers that sample the system
(`telemetry.rs`, `providers/`). When the LCD is lost, the program replaces itself
by a second process and, as a last resort, restarts Logitech's (`recovery.rs`).

| Component | State | Operations | Talks to | What is hard | What makes it correct |
|---|---|---|---|---|---|
| Recovery (`recovery.rs`, hand-over in `main.rs`, mutex in `runtime.rs`, `restart_lcore` in `sdk.rs`) | append-only journal, stage in memory, restart permit, worker thread, readiness event, instance mutex | start, load, healthy, disconnected, suspend, tick, drop; launch and wait for a replacement | main loop, a child or parent process, LCore.exe | crash between line and deed, two processes waiting for each other, a connection racing the restart, a late worker | each restart is journalled before it happens; one of each at most; only while the LCD is away; recovery ends |
| Backend worker (`backends/mod.rs`) | latest frame, shutdown and reconnect flags, open device, replayed and current frame, last report | submit, reconnect, stop, reconfigure; open, check ownership, write, poll, back off | main loop by queue and channel, the device | frames across device loss, ownership changing between checks, stale messages | the display never goes back and ends with the newest frame; the worker can always be stopped |
| Button tracker (`input.rs`) | raw, stable and emitted buttons | observe, disconnect | backend worker | debounce meets device loss | presses and their ends alternate |
| Hold of a hung program (`HoldState` in `providers/hang.rs`) | a press per button, owner, shown index | event, tick, reconcile, set_owner, cancel | main loop, slots, list of hung windows | owner, list, settings and device change during a press | only an unbroken hold of the time asked ends a program, once |
| Slots (`slots.rs`) | selection of each slot | cycle, apply | main loop | — | the first slot that selects PROC_HANG owns it |
| Main loop (`app.rs`) | settings, snapshot, timers | drain, reload, render, tick | everything | order of stages in an iteration | each stage sees what the ones before it left |
| Configuration reload (`ConfigWatcher` in `app.rs`) | signatures of the files, running settings | changed, load, replace | file system, all workers | a file saved while it is loaded | the settings saved last come to run |
| Settings parser (`parser.rs`, `validate` in `config.rs`) | stack of files, files reported, settings | load, parse_file, parse_lines, apply, validate | file system | includes that repeat, loop or end early; keys set around an include | what is accepted is what the files say |
| Telemetry coordinator (`telemetry.rs`) | generation, merged update, freshness | update_config, tick, apply_* | workers by channels, main loop | results of old settings arriving late, updates sent once | what is published belongs to the settings in force |
| Hung-window worker (`providers/hang.rs`) | tracker of windows, cadence | worker, update, terminate_bound_target | telemetry | confirmation over scans, an identity reused before the termination | only a confirmed window is published; only the bound one is ended |
| Alerts (`alerts.rs`) | episodes with acknowledgement, linger | evaluate, acknowledge_highest, clear_disabled | main loop | escalation, re-arming, unknown samples | an episode ends by a reading below its limit only; an acknowledgement lasts its episode |
| SDK owner (`backends/sdk.rs`) | claim, circuit, pinned library, request channel | open, call, close, owner_loop | backend worker, Logitech's DLL | native calls that never return, a library replaced while it is checked | one owner at a time; nothing starts after a time-out; only the verified library is called |
| Direct HID (`backends/hid.rs`, `g13.rs`) | handles, a transfer in flight | open, write_report, read_input_timeout, close | backend worker, HID driver | a transfer that ends between its time-out and its cancellation | the driver keeps nothing of a call that has returned |
| PresentMon capture (`providers/presentmon.rs`) | child process, trace session, pinned executable, lines, presenter, list of games, backoff | reconcile, start, drain, stop, refresh | telemetry, PresentMon.exe, the NVIDIA app's file | a child that will not stop, change of target, lost lines, a list replaced while it is read | one child at a time, cleaned up; its statistics miss no frame; the shown process does not flap |
| Discord session (`providers/discord.rs`) | token records, pipe, account, channel and its subscriptions | connect_and_serve, refresh_channel, authorize, clear-token | main loop, Discord, the token server | rotated tokens, events between command and answer, partial transfers, a change of account | a token is never lost unsaved; the selected channel is followed; packets stay in step |
| Headset (`providers/headset.rs`) | query gate, operation, reaper | enter, quarantine, reap | telemetry | an operation that does not return | one operation at a time, its buffer kept |
| Network probe (`providers/network.rs`) | policy, window of trials | probe | telemetry | settings changing in a probe | what is sent was measured under its settings |
| HWiNFO, LibreHardwareMonitor (`hwinfo.rs`, `lhm.rs`, `http.rs`, `json.rs`) | a sample, a connection | sample, sample_extended | telemetry, shared memory, a web server | the writer ends in the middle; a connection ends at any byte | a reading comes from a whole document or poll, and says when it is old |
| Logging (`logging.rs`) | file, backups, next slot | init, log, rotate | file system | a rotation that fails or ends half way | the last lines are on disk |
| Instance guard, first start, start-up entry (`runtime.rs`, `main.rs`) | mutex, settings file, registry value | acquire, seed_config, sync_startup | registry, file system, other instances | two first starts; another program's entry | the settings file is whole and the user's own; a foreign entry stays |
| Hardware test (`hardware_test.rs`, `app.rs`) | steps, last report, buttons | run, close, report | both devices | a failure after the last step | the exit code tells success from failure |
| Other readers, model, history, renderer, diagnostics, sha256 | caches and rings | pure or one-shot | main loop | boundaries | values as documented |

## 2. Modules

| Module | Models | Proofs |
|---|---|---|
| `RestartBudget` | the abstract promise of recovery: at most one replacement, then at most one restart of Logitech's program | |
| `Recovery` | journal, processes, hand-over, worker | `RecoveryProofs` |
| `Backend` | command queue, worker thread, button tracker, the display, the messages as the main loop reads them | `BackendProofs` |
| `Hold` | `HoldState` and the stages of the main loop that call it | `HoldProofs` |
| `Publication` | settings reload, generations, the detector of hung windows and the telemetry coordinator | `PublicationProofs` |
| `Exclusive` | the abstract promise of who owns a native resource: nobody enters while somebody is inside | |
| `SdkOwner` | the thread that owns Logitech's library, and its caller | `ProvidersProofs` |
| `HeadsetQuery` | query gate, candidates, overlapped operations and the reaper | `ProvidersProofs` |
| `Capture` | PresentMon's child and trace session, started, drained, stopped, tried again | `ProvidersProofs` |
| `HidDevice` | discovery, open, overlapped reports and close of the raw device | `ProvidersProofs` |
| `DiscordPipe` | choice and verification of the pipe, packets over partial transfers | `ProvidersProofs` |
| `PinnedFile` | what is held open between the check of PresentMon.exe or the DLL and its start | `ProvidersProofs` |
| `Discord` | token records of accounts, the worker, authorize and clear-token | `DecisionsProofs` |
| `DiscordChannel` | a session: account, channel, subscriptions, events and answers | `DecisionsProofs` |
| `Presenter` | which process's frames are shown | `DecisionsProofs` |
| `Frames` | how old the shown frame rates may be | `DecisionsProofs` |
| `FrameLines` | lines of PresentMon on their way to statistics | `ReadingsProofs` |
| `GameList` | the NVIDIA app's list, read while it changes | `FilesProofs` |
| `NetworkProbe` | trials and the settings they were begun under | `DecisionsProofs` |
| `Alerts` | episodes, acknowledgement, linger | `DecisionsProofs` |
| `Termination` | from a hung window to the end of its program | `DecisionsProofs` |
| `Coordinator` | merge of the slow and the polled readings, freshness, preference | `DecisionsProofs` |
| `SharedMemory` | HWiNFO's memory, mutex and the age of a sample | `ReadingsProofs` |
| `LhmClient` | an HTTP request, its JSON answer and the CPU temperature in it | `ReadingsProofs` |
| `SettingsFile` | loading a settings file with its includes | `FilesProofs` |
| `LogFiles` | the log, its rotation and its backups | `FilesProofs` |
| `Startup` | instance guard, first settings file, start-up entry | `FilesProofs` |
| `HardwareTest` | the hardware test of either device | `DecisionsProofs` |
| `MCBackend`, `MCHold` | values of constants and the symmetry set | |
| `MCProviders`, `MCDecisions` | several components in one run | `ProvidersProofs`, `ReadingsProofs` |

The components of `MCProviders` (SdkOwner, HeadsetQuery, Capture, HidDevice,
DiscordPipe, PinnedFile) and of `MCDecisions` (the rest from Presenter to
HardwareTest) share no state in the code, so their product would check nothing
that each alone does not. The MC modules instantiate each and select one by the
variable `part`, chosen in the initial state and never changed; the others rest in one
initial state. A property that has the same name in several components
(`LoadedAsWritten`, `WholeReadings`, `KeptWhole`, `InStep`, `OnlyVerifiedRuns`,
`OwnGeneration`) is the
conjunction of theirs.

### Recovery

`disk` is what replaying the journal gives (`Journal::load`), `mem[p]` the stage a
process holds. `Recorded` and `NotRecorded` are the two ends of
`Journal::record`: the line and its flush succeed, or recovery is over in this
process, with the line on disk, not on disk, or torn. `status[p]` is where the
process is: the hand-over of `main.rs`, the loop of `app.rs`, the steps of
`Recovery::drop`. The worker thread of `restart_lcore` is `worker`, its permit
`permit`; the main loop's ticks and the worker interleave. Every other process
may boot, crash, or run into a limit at any moment.

Abstracted: a torn line makes the journal unreadable for good; releasing the
mutex and the end of the process are one step; a process identifier is used
once (the code compares creation times); durations are nondeterministic choices
(`Timeouts` enables those of the hand-over); a full journal is one of the
`Faults`.

### Backend

A frame is its number; `Picture` says what it looks like, since the worker
suppresses a report equal to the last one. The pixel transform is not modelled.
`latest`, `replay`, `current` and `lastSent` are the worker's variables; `panel`
is the picture this program last put on the display. `pc` goes through the
loop of `physical_worker`: open, inspect (shutdown, reconnect, ownership),
frame, poll, sleep. `PollReport(D)` is `ButtonTracker::observe` with the set
`D` of buttons whose debounce time is over. Message order is kept;
`believed` folds the button messages on the dashboard's side and begins anew
with each worker, because a replaced worker does not end the presses it reported
(see the findings).

Abstracted: durations of backoff and debounce; the wake-up token of the queue
(a wait may end at any time). A health message carries, as history, how many
reconnects had been requested when its device was opened (`opened`). The
recovery of a process asks for one at most (`RequestAssumption`): it does so
after the one restart of Logitech's program that `RestartBudget` allows.

### Hold

All of `HoldState` runs on the main thread, so an action is one stage of an
iteration with everything it calls: draining a publication and `reconcile`, a
reload with `cancel_reload` and `set_owner`, a render, one button event with the
slot change it causes, a tick. The age of a press is "short" of the hold time,
"due", or "late", past `maximum_press_duration`. Publications are arbitrary
lists without repetition. `Open` and `Lose` are what the backend worker does
to the events, including a loss without cancellation (`CheckFails`).
`broken` and `fired` are history.

Abstracted: what ends the program (`terminate_bound_target`) and what a slot
shows besides PROC_HANG; an acknowledged alert on the last button is a choice.

### Publication

`Reload` and `Raise` are `update_config` under its lock with what the main loop
does around it; `Ask` is one of the three reads of `current_request`, by the
detector or the coordinator; `Turn`, `Scan`, `Discard` and `Publish` are the
detector's loop; `Merge` is `Worker::tick`, which stores the update and notifies;
`TryRecv` and `Take` are `LatestUpdates::try_recv`. A result carries its
generation and, as history, the generations of the scans that confirmed the
window. `signature` stands for the watcher's file signatures.

Abstracted: one window, one settings file; settings count by whether the
detector is on; `hang_minimum` is no longer than the scans; a scan that is not
due is a slow `Ask`. Freshness and the other providers are not merged.

### SdkOwner, Exclusive, PinnedFile

`active` is the claim of `SDK_OWNER_ACTIVE`, `circuit` is `CIRCUIT_OPEN`, `blocked`
is `RECOVERY_BLOCKED`. `thread[t]` is where an owner thread is in
`owner_loop`: verifying, loading, connecting, serving, shutting down; `Hang` leaves it
in a native call for good. `caller` is the
backend worker in `open`, `call_timeout` or `close`; its time-outs may come at
any moment of a wait. Requests and answers go through channels of their own, as
each `Envelope` has. `Exclusive` is implemented with the threads that are alive
as its users, by `HeadsetQuery` with the operations of the driver, and by
`Capture` with the children and their trace sessions.

`PinnedFile` has the same steps for both programs that are run by their path:
the directories of the path are held one by one (`pin_parent_chain`) or are found not
writable, the file is opened without sharing writes, verified, compared with what
the path leads to, and started or loaded. Other programs rename directories and
replace the file whenever nothing that is held prevents it. Trust is one
predicate over a file: signature, product, digest and image of the code.

### HeadsetQuery, HidDevice, DiscordPipe

Overlapped I/O in three dialects. `io` is what the driver has: nothing, a
pending transfer, one that has ended, one that is cancelled. In `HidDevice` and
`DiscordPipe` the caller waits for the end of a cancelled transfer, because its buffer
is on the stack; in `HeadsetQuery` it waits a while and leaves buffer and handle
to a reaper, with the gate quarantined. Transfers of the pipe may be short
and may end between a time-out and the cancellation; a header is one byte and a
body its length. An error closes the pipe unless it is one that `refresh_channel` or its
caller drops (`Error`, `refreshing`): then the session goes on with the pipe as the
transfer left it, and `swallowed` says, as history, that this has happened. `InStep`
promises whole packets only until then; that no transfer outlives its call and
that the server was verified hold always. The verifier of signatures is a thread with a limit whose late end
clears `AUTHENTICODE_ACTIVE`.

### Capture, FrameLines, Presenter, Frames, GameList

One tick of the PresentMon worker goes through `at`: take up settings, choose a
target, stop what is to be stopped (with as many attempts as the code makes),
start, drain, judge. `running` and `traced` are what Windows has,
`child` and `session` what the code believes; `ours` says, as history, whether the
child was started under the generation the worker has now. `FrameLines` has the reader
thread,
its bounded queue and the overflow flag, `Presenter` the candidates and the challenger
by full seconds, `Frames` the messages about age with `sampled`, whether a frame of the
target was counted, and `listed`, whether it is still a candidate (a change of presenter
resets the first and sends nothing), `GameList` the cache, its
metadata and the two attempts of `load_catalog_with`. The owner of the list is
assumed to truncate or replace its file and to leave a time of its own at each change.

### Discord, DiscordChannel

`stored[a]` says what the record of account `a` is worth: fresh, spent, lost (its
successor was never saved), foreign. Exchange, save and authentication are
separate steps and any may fail; `authorize` and `clear-token` are processes with
the same files. In a session Discord answers commands in order and sends events
in between, which the worker handles while it waits for an answer; `failed`
and `missed` name the two cases in which the code is known not to follow. Its packets are
whole: that an error which a refresh swallowed may leave one cut is in `DiscordPipe`.

### Alerts, Termination, NetworkProbe, Coordinator

`Alerts` is one `evaluate` per turn with the readings and settings of that turn; `older`
is the order by `first_seen` and name that the sort of `evaluate` leaves between ongoing
episodes of one severity, as a relation.
`Termination` is the scan (`enumerate_and_probe`) and the eight checks of
`terminate_bound_target_with`; between any two a program may end or recover, its
id and its window's handle may go to another. `Coordinator` asks slow sources by
generation and drains a bounded queue; `NetworkProbe` keeps with each trial the
generation it was begun under.

### SharedMemory, LhmClient, SettingsFile, LogFiles, Startup, HardwareTest

`SharedMemory` counts ages in ticks up to where they no longer matter. `LhmClient`
has a document of tokens, three framings, and a connection that ends anywhere.
`TryParseResponse` is an operator; `Parse` has `Json::value`, `array` and `object` as one
recursive function of the place, the closing bracket that is looked for and the depth;
`Best` is the fold of `best` over the sensors in the order of the document.
`SettingsFile` reads each file as any text up to a bound and keeps the stack of
`parse_file`; `Tokenize` is a fold over characters of four kinds. `LogFiles` lets
each file operation fail or the program end after it. `Startup` has several
processes, each of which seeds, syncs and ends. `HardwareTest` has the steps of `run_step`
with every call of the device failing.

## 3. Runs

| Run | Checks | Instance |
|---|---|---|
| `recovery` | `WriteAhead`, the inductive invariant `IInv` (types included), `CommitOnlyWhenNeeded`, `ResumedAfterParent`, refinement of `RestartBudget` | 3 processes, faults, crashes, limits |
| `recovery_live` | `RecoveryEnds`, `DashboardReturns` | 3 processes, no faults |
| `backend_display` | `NeverOlder`, `NewestShown`, `HealthIsFresh` | 3 frames of different pictures, 3 faults, 1 request |
| `backend_buttons` | `EdgesAlternate`, `NoStuckButton`, `StopEnds` | 1 button moved 3 times, 2 faults, 1 request, 2 workers |
| `hold` | `FiresOnce`, `TerminateUnbroken` | 2 buttons, 2 targets |
| `hold_ends` | `OneBoundPress`, `PressEnds` | 2 buttons, 1 target, failing ownership checks |
| `publication` | `RequestConsistent`, `ConfirmedUnderCurrent`, `Settles` | 2 scans confirm, 1 save, 1 change of the window or failing scan, 2 results in the channel |
| `providers` | `OneOwner`, `CallerReturns`, `OnlyVerifiedRuns` (SdkOwner, PinnedFile), `OneIoAtATime`, `GateReopens`, `OneCapture`, `StopsWhenOff`, `InStep` (DiscordPipe, HidDevice) | 2 owner threads; 2 operations, 2 candidates, 3 reads; 2 children, 2 targets; 2 pipes; 2 directory levels |
| `decisions` | types, `TokenKept`, `ChannelFollowed`, `LoadedAsWritten` (SettingsFile, LhmClient), `KeptWhole` (LogFiles, Startup), `WholeReadings` (SharedMemory, GameList, FrameLines), `HonestReport`, `KeptUnlessBeaten`, `StaleIsShown`, `EpisodeEnds`, `EndsOnlyTheHung`, `OwnGeneration` (NetworkProbe, Coordinator) | per component, see below |
| `hold_device_loss`, `publication_reload`, `discord_account` | one violated property each, see Findings | as `hold`, `publication`; 2 channels |

The types of every module of `recovery`, `hold`, `publication`, `backend_*` and
`decisions` are proved; of these only `decisions` has them among its invariants as well.

Why the bounds are enough. Three processes are a dashboard, its replacement and
one more that the user starts; the journal allows no second replacement, so a
fourth process repeats the third. Three frames are the newest, the one to be
replayed and the one on the display; three faults let a device be lost, lost again
while the frame is replayed, and change its owner. The tracker treats buttons apart,
so one is enough there; the hold relates buttons to each other in pairs, so two. Two
targets let a list shrink, swap and wrap. One save gives an old and a new generation, of
which every worker holds one or the other, and two confirming scans may lie on
either side of it; two results are the most the detector sends in one turn.

In `providers` a second owner thread, operation or child is the one that must
wait for the first; a third would wait as the second does. Two directory levels are
the one that holds the file and one above it, and the theorem has any number.
A packet of at most two bytes may be transferred short in every way and be too
long by one.

In `decisions`: three processes present with a table of two, so that one is
evicted; two seconds are the window a challenger needs. Two accounts are the
one with a session and the one that replaces it. Of two channels one is selected
while the other is asked about. Two alerts, one of them with a critical limit, are in every
order. Two programs may have one process id after each other. A log of two bytes
with two backups and six lines rotates through all of its slots. Three files with
at most two includes each include each other, twice, in a cycle and not at all; the
limits of includes, files and directives are met. Ages go one past twice the limit. An
answer of twelve bytes is one too long for its limit. Three changes of the list of games are
one for each attempt and one after. Four lines fill a queue of one and a window of two.

Deadlock is an error in the hold and publication runs. In the others a component
really may stop: all processes have ended, a session or a command is over, or a
bound on what the surroundings do is used up.

## 4. Fairness

- `Recovery`: weak fairness of the ticks, of a process's own steps and of the
  worker: threads that can run do run, and the loop ticks every 10 ms.
  Nothing is assumed of the user, the device or a crash.
- `Backend`: weak fairness of the worker, of rendering (a timer) and of reading
  messages (drained in every iteration). Strong fairness of a report after the
  debounce: `PollReport(Unstable)` is one of several results of a poll, and the
  SDK is polled every few milliseconds. For a direct HID device this is an
  assumption about the device: `Ok(None)` leaves the tracker as it is, so the last
  edge is confirmed only by a further report.
- `Publication`: weak fairness of the main loop, the detector and the
  coordinator, three threads that never stop turning.
- `Hold`: weak fairness of `Tick` and of time.
- `SdkOwner`: weak fairness of the caller, whose waits all have limits, of the
  limit to connect, and of the steps of an owner thread that does not hang. A native
  call may hang (`Hang`): `CallerReturns` holds although it does.
- `HeadsetQuery`: weak fairness of the query, its deadline and the reapers, and of
  the end of a cancelled operation: without it, a quarantine may rightly be for ever.
- `Capture`: weak fairness of the worker and of the end of a cool-down. Strong fairness of
  the two steps by which Windows lets go of a child and of a trace session: an
  attempt to stop one may fail any number of times, not every time.

## 5. Proofs

Each theorem is for all values of the constants, under the named assumptions of its
module. The theorems about the components of `MCProviders` and `MCDecisions` are about the
instances there: first those of each component, from the component's own specification,
then `Projects`, that every behaviour of the run's specification is one of each component,
and with it that the run's specification has the properties (`WorkersTogether` in
`ProvidersProofs`, `TypesKept` and `Together` in `ReadingsProofs`, which extends
`DecisionsProofs` and `FilesProofs`).

Assumptions. A value that stands for nobody is not one of the values it is told apart from
(`NoChildAssumption`, `PresenterAssumption`, `InstanceAssumption`, `ConstantsAssumption`,
the default of `SettingsAssumption`); bounds and limits are numbers, and positive where
the code or the settings reject zero (`BoundsAssumption`, `HoldAssumption`,
`PublicationAssumption`, `NetworkAssumption`, `MemoryAssumption`, `WebAssumption`,
`LogAssumption`: one backup at least, by `log_backups` in `config.rs`); a log file has
room for a line (`log_max_bytes`), and the lines of one that is found at the start are
counted by the model (`LogLinesAssumption`); there is a program that may hang
(`TerminationAssumption`); the file that is loaded is a file (`SettingsAssumption`); the
names of alerts are in an order (`AlertsAssumption`); a challenger must win more than one
second (`PresenterAssumption`); one reconnect request (`RequestAssumption`). TLC evaluates
all of them in the runs. `StaleShown` has `~LongInterval` as a hypothesis, because the
code does not enforce it (see the findings), and `EndsUnbroken` has `~CheckFails`; in
`Together` nothing is said of `StaleIsShown` for the same reason.

- `RecoveryProofs`: `TypeCorrect`, `Inductive`, `WriteAheadHolds`, `BudgetKept`
  (refinement of `RestartBudget`), `CommitsOnlyWhenNeeded`, `ResumesAfterParent`.
  `WriteAhead` is not inductive: whether a restart is still in the budget depends on which
  process holds the mutex (`MutexInv`), on there being one replacement whose hand-over has
  seen its parent end (`ChildInv`), on what the journal says is spent (`SpendingInv`), on
  the memory of the owner agreeing with the disk while it acts (`CoherenceInv`), and on
  the worker working only on an attempt that is on disk, with its permit open only while
  the attempt is wanted (`WorkerInv`). `IInv` is the conjunction. `AfterStage`,
  `RecordEffect` and `FinishEffect` say once what the journal operations do.
- `BackendProofs`: `TypeCorrect`, `ShowsNoOlder`, `BelievesFreshHealth`, `TellsInTurn`.
  `InOrder`: what waits to be shown or shown again is not older than what was shown.
  `Asked`: while an outdated device is open the request is still to be taken, and an
  outdated health message is read before the answer to the request; with a second request
  this would be false, as the answer to the first would be taken for that to the second.
  `Alternate`: for each button the begins and ends of presses in the channel, by their
  places, alternate from what the dashboard believes to what the tracker has emitted. It
  relates both ends of a channel of any length without recursion; `OneMore` and `OneLess`
  say what a message more at the end and one less at the beginning do to it. `Debounced`
  is what makes a press new.
- `HoldProofs`: `TypeCorrect`, `OneIsBound`, `FiresOnceOnly`, `EndsUnbroken`. `HInv` adds
  to the types that one press is bound and that a press that has fired is over; the latter
  gives `FiresOnce`. `TerminateUnbroken` needs `BInv` as well: a broken press is over, and
  a bound press has its button down. With the ownership check that closes a device without
  cancellation it is false (`hold_device_loss`).
- `PublicationProofs`: `TypeCorrect`, `RequestsConsistent`, `ConfirmsUnderCurrent`.
  `RInv`: outside of the lock the settings are those of the generation, and what a worker
  has read between two equal generations is theirs; it holds because a generation is never
  used again. `VInv`: whatever lists the window on its way to the main loop (channel,
  merged update, latest update, update in use) was confirmed under the one generation it
  is named by, and the tracker knows only scans of the current one.
- `ProvidersProofs`: `OwnsAlone`, that `SdkOwner` implements `Exclusive` for any set of
  threads, starts nothing after a time-out and gives each request its own answer. `CInv`:
  one thread is alive and has the claim, a thread that was given up on before it started
  never does, only a close is asked for once the circuit is open. `LInv`: at most one live
  request is in a channel, and it is the caller's. `OnlyVerified` (`TInv`: from the moment
  a file is held every directory above it is, so that the path leads to it, and from the
  moment it is examined it is what may run), `DriversInStep` (`HInv`: a transfer of the
  device is out only while its caller waits; `PInv`: between packets of the pipe nothing
  is half transferred unless an error was swallowed, the server is verified, and no transfer is with the driver outside
  of a transfer's own steps), `OneQuery` (`QInv`: an operation in the driver is the
  query's, which then has the gate, or was given up on, and then the gate is quarantined
  and somebody keeps its buffer) and `CapturesAlone` (`CapInv`: while a child or a session
  that could not be stopped remains, it is the one the worker still names, and nothing is
  started).
- `DecisionsProofs`: `KeptInPlace` (`PInv`: a challenger with a win was ahead in the
  second it was counted for last), `StaleShown` (`FInv`: what is not sent yet is new and
  of a target whose frames are counted, so what is stale has been said or is judged before
  the tick ends, and what is left as current belongs to the presenter before), `EndsHung` (`EInv`: what
  is left of the plan of checks says what was checked of the process that is held,
  whatever became of its id), `KeepsToken` (`DInv`: who holds a token it has not saved),
  `FollowsChannel` (`CInv`: which commands and messages are on their way when the worker
  is at each of its waits, so that a selection it has not taken up is still to be read),
  `OfItsGeneration` (`NInv` of the probe; `MInv`: questions, answers in the queue and
  merged readings are of sources that the generation they name has enabled), `EpisodesEnd`
  (`AInv`: an episode that waits for its end was last known to be fine) and
  `ReportsHonestly` (`TInv`: what each step of the hardware test has submitted and noted).
- `FilesProofs`: `KeepsWhole` and `LoadsAsWritten`, and `ReadsWhole` of the list of games.
  For the log `LInv` says that the last lines are a suffix of a backup and the log
  wherever a rotation is; for the first start `SInv` who holds the guard and a temporary
  file, and how far the entry was brought; for the list of games `GInv` that every version
  has its own time. For the settings `LoadInv`: of each level of `fileStack`, what is left
  of the file is its end, and every level below the last took its include line last
  (`LevelsOK`); the files that are reported are those that were opened, each because a
  reported file names it (`FilesOK`); a key was seen in a level iff a line that is gone
  set it, a setting that is set was set by a reported file, and one that the primary file
  sets after its last include is its own (`LinesOK`). That a word in quotes is one word is
  shown letter by letter along the fold of `Tokenize`, whose equations are `FoldsExist`
  and `FoldGoes`.
- `ReadingsProofs`: `ReadingsWhole`, `NoPartParses`, `DocumentsWhole`, `TakenAsWritten`.
  For HWiNFO's memory `MemoryInv` has whose labels a half-made copy has while the mutex is
  held; for the lines `LineInv` the order of all numbers from the pipe to the statistics
  and that an overflow is known before a gap is counted. `NoPartParses`: where a text is a
  value to its end, none of its proper prefixes is, for every sequence of tokens and every
  depth. The parser's function is shown to exist, as every call is for a later place or,
  at the same place, for the value of an element; then what it says of a prefix is what it
  says of the whole, or nothing. `DocumentsWhole` is about the documents of the run, of
  which one is nested more deeply than some limits allow: a part that an end of the
  connection leaves of one, or one with something behind it, is refused, which is shown
  token by token (`OnlyTheWhole`), for any limits of depth, length and time. `BestIsBest`:
  the choice between two sensors does not depend on their order.
- Types. Every component of `MCDecisions` has a theorem that its specification has its
  types (`PresenterTypes`, ..., `TestTypesKept`), and `TypesKept` is their conjunction.
  Where the types bound a size, they need an invariant of their own: the candidates stay
  within their table because the one that is evicted or forgotten leaves it in the step
  that takes another in (`PTypes`); a log file that is open was cut to its limit when it
  was opened (`LogBounds`); the queue, the window and a line never hold more than they may
  (`LineBounds`); `older` orders the ongoing episodes strictly, whichever begin and end.

Induction over data. The library's theorems for it take an operator, which the provers
here cannot instantiate. What is proved of recursive functions and folds goes through
`Least`, that a set of numbers has a least element (from the well-foundedness of `<`,
whose theorem has a set), applied to the set of places or lengths at which the claim
fails.

Left to TLC: liveness under fairness (the provers have no ENABLED): `RecoveryEnds`,
`DashboardReturns`, `NewestShown`, `NoStuckButton`, `StopEnds`, `PressEnds`, `Settles`,
`CallerReturns`, `GateReopens`, `StopsWhenOff`. Every safety property of a passing run is
a theorem, `StaleIsShown` and `TerminateUnbroken` under the hypotheses named above. Lists
of more than two sensors and quoted words of more than three letters are outside of what
the modules state, and so of what is proved.

## 6. Findings

Shown by a run:

- A device lost through a failed ownership check (`backends/mod.rs:441`) is
  closed without the canceled releases every other loss sends. A bound press
  goes on ageing and asks for the end of its program while there is no device
  (`hold_device_loss`).
- The watcher takes the signatures of the settings files after they were
  loaded. A save in between, most likely during start-up, is believed loaded
  and stays without effect until the next one (`publication_reload`).
- An UNSUBSCRIBE that brings the news of another account has its error dropped
  (`discord.rs:1972`): the state of the old account is published once more and
  served until the next event (`discord_account`).

Known from modelling, not shown by a run; the properties say where they leave them out:

- A press is bound to the current publication, which may be newer than the
  frame on the display (`hang.rs:240`), where `docs/ARCHITECTURE.md:184` says "the
  exact displayed identity".
- A press that is never ended (lost as above, or its worker replaced by a reload)
  keeps its button, or all others, dead on the next device (`hang.rs:226`).
- With `presentmon_interval_ms` above the age limit the frames may be shown as
  current longer than five seconds (`presentmon.rs:2118`; constant `LongInterval`).
- A change of presenter forgets the last frame and sends nothing
  (`presentmon.rs:1968-1979`): the values of the presenter before stay shown as current
  while the new one is silent, up to ten seconds, when it is dropped, and longer if others
  are picked in turn and are silent as well. `docs/CONFIGURATION.md:255` says "Frame values
  become stale after five seconds without frames". `StaleIsShown` names the case
  (`Handover`) and says how it is bounded; without that disjunct TLC refutes it.
- A refresh of the voice channel drops the error of an UNSUBSCRIBE (`discord.rs:1972`), and
  the session goes on after any other failed refresh that is not a change of account
  (`discord.rs:2089-2094`, 2110-2115), in both cases with the same pipe. After a write that
  timed out in the middle, or the header of a packet that is too long, the next packet
  begins within the last one. No document promises otherwise; `InStep` holds of a pipe
  until then (`swallowed`), and is refuted by TLC without that condition.
- The recovery counts on asking for one reconnect: were there a second request before
  the answer to the first is read, health of an outdated device would be believed
  (`recovery.rs:316`, where the answer carries no number). Nothing asks twice today.
- A session that is being refreshed saves a record after `clear-token` removed it
  (`discord.rs:998` against 870), and a process that ends in a save leaves its
  temporary file (`discord.rs:971`).
- A channel selected between the first query and the subscription to selections is
  not reported, and a refresh that failed is not repeated by itself (`missed`, `failed` in
  `DiscordChannel`).
- A reading of HWiNFO may be two limits old, one when it is sampled and one since
  (`telemetry.rs:926`), and mixed of two polls when HWiNFO ends within an update while a
  third
  program keeps its memory.
- `best` of `lhm.rs` does not look at `valid`; a limit equal to the interval lets
  readings flicker (`config.rs:533`).
- A signature check that never returns keeps `AUTHENTICODE_ACTIVE` set, and Discord
  stays unavailable (`discord.rs:1420`).
- A line that PresentMon's end cuts off may count as a whole one for a tick
  (`presentmon.rs:2217`).

## 7. Plan

Done: the modules and proofs above.

What could come next: types of the components of `MCProviders`; the slots' substitution of
unavailable values; the history ring; polling cadence of the coordinator; the composition of
`Coordinator` and `Publication` with the alerts that read from them.

## 8. Not modelled

Sensor readers other than HWiNFO and LibreHardwareMonitor, device protocols of headsets,
window handling and the installer are calls of the operating system and byte layouts with
little state. The renderer is a pure function of the snapshot, pinned by golden images;
so is
the text of the diagnostics. `sha256.rs` is opaque. Snapshot and history are data. Packaging
scripts and third-party code are not part of the running program. What other programs
draw on
the LCD and a process identifier reused inside one hand-over are outside the source.
Durations are choices of when a limit elapses; only ages that are compared with each other
(Frames, SharedMemory, Presenter) are counted.
