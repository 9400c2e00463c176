# cc-idle: verification project

cc-idle turns the life of Claude Code sessions into an idle game. Hook scripts log
every lifecycle event of a session to a file; a daemon tails the files, runs a state
machine per session, moves the user's tmux cursor between the sessions and the game
pane, and feeds a deterministic economy that it saves and pushes to a terminal UI. A
second delivery of the same game, the mod, runs inside Claude Code and shares one
economy among all sessions through a key-value store.

This directory holds TLA+ models of that code, the TLC configurations that check them
on small instances, and theorems about them that TLAPS proves for every instance.
`PROJECT.json` maps each definition to the source lines it stands for.

## 1. Inventory

| Component | State it keeps | Operations | Interacts with |
|---|---|---|---|
| Hook shims (`hooks/`) | none; an open descriptor while it runs | append one line to `{session}.jsonl` | the watcher, through the file |
| `Watcher` | byte offset per file | `consume`, `poke`, `drainRotated` | emits `event`, `truncated` to the daemon |
| `Rotator` | none in memory; `.rotating` and archive files | `checkAndRotate` | renames under the watcher, tells the game host |
| `TranscriptReader` | offset and seen keys per transcript | `poll`, `resume`, `finishReplay` | appends `TokenUsage` lines to the event file |
| `GameHost` and save | the economy, cursors per file, ordinals, dirty flag | `handleEnvelope`, `handleFileReset`, `handleStateChange`, `handleAction`, `persist` | engine, save file, broadcast |
| Daemon main loop | sessions map, `replaying`, timers | event handler, stale timer, rotation timer, start, stop | everything above, focus engine, IPC |
| Session state machine | none (pure) | `reduce`, `checkStale` | daemon |
| `FocusEngine` | needs-you queue, grace timers, cooldown, dwell, last target | `onTransition`, `executeGraceSwitch`, `focusSession`, pause and resume | tmux (awaits), alerts to the TUI |
| `RegistrationStore` | panes by session and directory | `registerCc`, `setGamePane`, lookups | focus engine |
| `IpcServer`, `DaemonClient` | sockets, line buffers, back-off | connect, reconnect, commands, broadcasts | daemon and TUI |
| TUI store and app | last known sessions, queue, banner, game | `applyMessage` | client |
| Game engine | none (pure reducer over `GameState`) | telemetry, session states, player actions | game host, mod |
| Mod: `GameSync` | base, view, queue, chain per session; one store | `push`, `flush`, `refresh` | `$.store`, other sessions |
| Mod: board, pane | in-flight request, lines, explained concepts | `askBoard`, `speakUp` | model, store |
| CLI | manifest, settings file | import, install, daemon control, reports | files, daemon |

Hard behaviours, and what makes each component correct:

* **Event pipeline.** Hooks write while the daemon reads, rotates, crashes and replays.
  Correct: each logged line reaches the economy exactly once over any number of
  daemon processes, no process emits a line twice, rotation loses no line.
* **Focus.** Every handler awaits tmux several times and is not awaited by its caller.
  Correct: queue and session states agree, first come first served, the cursor moves
  only from the pane it may be taken from, a waiting session gets its user back.
* **Regions.** The same sessions are told to the game twice, by their events and by
  the daemon's changes of state. Correct: both pictures agree, and no token is paid twice.
* **Shared economy.** get-then-set on one store from many processes. Correct: no input is
  lost but by the overlap the comment concedes, none applied twice, all views converge.
* **Economy.** Many rules that spend and reset shared resources. Correct: nothing goes
  negative (the save schema would reject it), prerequisites and caps hold, totals balance.
* **Transcripts.** Usage is polled from files that grow, shrink and outlive the daemon, and
  recorded in a log that rotates. Correct: each response's usage is logged once.
* **Operations.** Two starters, a pidfile and a socket that are not claimed atomically, panes
  kept over restarts, hooks in a file the user edits. Correct: one daemon serves, a session is
  found where it was last registered, installs leave each hook once.
* **Channel.** A stream cut anywhere, reconnections, throttled pushes. Correct: a UI with nothing
  under way shows what the daemon holds, and comes to that.
* **Board.** Requests that cut one another, checks made before an await and used after it.
  Correct: answers keep the order of the questions, no banner outlives its reason.
* **Corpus.** Imports that die, rules that change, files that grow while they are read.
  Correct: what is passed over as unchanged is up to date, and a report says what the transcripts say.

`PROJECT.json` lists the hazards line by line, with the property that would catch each
or the reason why none does.

## 2. Modules

| Module | Models | Composes |
|---|---|---|
| `EventPipeline` | hooks, `Watcher`, `Rotator`, `GameHost`, the daemon's start and stop | |
| `EventLedger` | abstract: what the log and the saved economy promise together | |
| `EventPipelineInv` | the inductive invariants of the watcher, the rotation and the counting | `EventPipeline` |
| `EventPipelineProofs` | theorems: types, all five safety properties, the refinement of `EventLedger` | `EventPipelineInv` |
| `TranscriptReader` | usage polling, its resumption after a restart, the log it is recorded in | |
| `TranscriptReaderProofs` | theorems: types and its two safety properties, with the inductive invariant `ReaderInv` | `TranscriptReader`, `SumFacts` |
| `SessionState` | the pure state machine of a session | |
| `FocusEngine` | the focus engine, its awaits, the banner of the TUI, with its inductive invariant `QueueInv` | `SessionState` |
| `FocusEngineProofs` | theorems: types, the queue, its order, the moves of the cursor | `FocusEngine`, `SumFacts` |
| `GameSync` | the mod's synchronisation, with its inductive invariants `FlushInv` and `OrderInv` | |
| `Regions` | the engine's regions, session status and turn accrual (pure) | |
| `RegionLife` | daemon and game about the same sessions, with its inductive invariant `LifeInv` | `Regions`, `SessionState` |
| `GameEconomy` | the rules of the engine: resources, infrastructure, lab, incidents, prestige | |
| `EngineProofs` | theorems: types, gates, books, regions and levels of `GameEconomy`; types and the three safety properties of `RegionLife` | `GameEconomy`, `RegionLife`, `SumFacts` |
| `SumFacts` | lemmas: sums over finite sets, the least element of a set of naturals | |
| `Channel` | `IpcServer`, the throttle of game pushes, `DaemonClient`, the TUI's store and keys | |
| `ChannelProofs` | theorems: types and that the UI is in step, with the inductive invariant `ChannelInv` | `Channel` |
| `Board` | one session of the mod: its hooks, banner, screens and board member, with its inductive invariant `BoardInv` | |
| `ModProofs` | theorems: types and the safety properties of `Board` and of `GameSync` | `Board`, `GameSync`, `SumFacts` |
| `SessionSynthesis` | transcript to event stream, with what a faithful stream is (pure) | |
| `Corpus` | import, raw snapshot and backtest over transcripts that grow | `SessionSynthesis` |
| `Settings` | installer and uninstaller on Claude Code's settings | |
| `Operations` | the daemon's process, registrations, the launcher's commands, with its inductive invariants | `Settings` |
| `CliProofs` | theorems: types, one daemon, panes found and hooks tidy of `Operations`; types and nothing stale of `Corpus`, with the inductive invariant `CorpusInv` | `Operations`, `Corpus`, `SumFacts` |
| `MC*` | the module TLC runs, with symmetry where it is sound | |

Definitions named in a comment as *Mutant* or *a plausible slip* are plausible mistakes in the
definition that follows. They are in no specification: each is there to show that a property
can fail.

### EventPipeline

One session is one event file. A line is its number within its session; what the economy
did with it is a count. `live`, `aside`, `archive`, `fd` and `saveFile` are the disk;
`offsets`, `pending`, `seen`, `save` and the rest the daemon's memory. Offsets count lines,
since `readNewLines` never stops inside one.

The daemon is one thread, so a handler is one action unless a hook or a crash can come
between two of its file-system calls: `rotateOne` is split at each of them (`rot` names
the next), and so is the emission of a batch (`Emit` takes one line of `pending`), since a
Stop among them polls the transcript, appends to the event file and pokes the watcher
before the rest (`poking`, `Poke`). A hook opens (`HookOpen`) and writes (`HookWrite`)
in two steps; a rename moves its descriptor to the renamed file, an unlink orphans it.
A crash loses memory, and a save that is older than the last rename is remembered
(`stale`).

Where exactly-once counting cannot hold, the history variable `excuse` says why, and only
four things set it: a crash with a save older than the last rename, a poke nested in a
drain, a renamed file that could not be read, a truncation by somebody else. Lines
written through a descriptor older than a rename are in `late`. The properties exempt
these; section 4 says how the first two come about.

### FocusEngine

A call of `onTransition`, of the grace timer or of `focusSession` is a record with a
program counter. Asking tmux (`Answer`) samples the cursor; resuming
(`ResumeDetected`, `ResumeSampled`, ...) uses the sample later, when the user, another
call or an event may have changed everything. A session is identified with its pane;
resolving a pane may fail (`Unresolved`). Pane resolution is merged with the resumption
that uses it, because it reads nothing the model changes. Time is abstract: a grace
timer, the manual cooldown and the dwell time may end at any moment, which covers all
their lengths. `serviced`, `overlapped`, `overtaken`, `asked` and `left` are history.

### GameSync

A game state is the sequence of inputs that led to it, because the engine is
deterministic: two views are equal when the inputs and their order are. `chain` is the promise
chain of `serial`; `step`, `batch`, `next` and `readStamp` are the locals of the work at its
head. A flush is three steps: read and replay, `kv.set` taking effect (`Land`), and its
resolution (`Finish`). `kv.set` may reject before or after having stored the record. A session may
end at any point and another take its place with an empty memory (`Exit`).

### Regions and RegionLife

`Regions` translates the part of `engine.ts` that decides where a session works and what
its region looks like, as operators on a record. Rates and multipliers are abstracted: a
unit of tokens earns a unit of Compute, and a unit of accrual a unit of bonus.
`RegionLife` is the daemon around it: the event handler (with the poll that follows a
Stop), the stale timer, shipping a generation, and the replay after a restart with its
hand-over. The transcript of a session is the number of tokens no poll has read.
A restart finds every session's events in its file; the case of a file that was
rotated away belongs to `EventPipeline`. What a region should look like is said by the daemon's own
state machine, not by the game's copy of it: `woken` remembers the sessions an activity woke for the
game while the state machine passed over it, and `moved` the regions a session has left for another directory
that nothing has refreshed since. Both are history.

### TranscriptReader

One session and its transcript, in which each complete line is a response (a response may
have several lines: they share its usage key). `BeginLine` and `EndLine` are Claude Code
writing it, so a poll may find a line half written. `log` is the live event file, whose
`TokenUsage` lines carry what `resume` needs: the transcript, an offset, keys. A poll reads, appends
and advances in one step unless the append fails (`AppendFails`), which must leave offset and
keys as they were. `Start` is a new process; the replay of the log calls `setTranscriptPath` and
`resume`, `FinishReplay` skips a transcript whose usage was logged before offsets existed. The exemptions are
history: `skipped` (passed over by `finishReplay` or by a truncation nobody saw), `truncated`, `forgot` (a rotation
took the lines a restart resumes from; run `Transcripts_rotation`).

### GameEconomy

What `Regions` leaves out of the engine: how much is earned, spent and reset. One action per
telemetry event and per player action, `PlayerAction` gathers the latter. Prices, caps and rates are a record
`Balance` of small numbers (assumption `EconomyAssumption`), under which everything is near: a
first rack, a second researcher, diminishing returns, a cap of incidents, a generation.
Multipliers are percentages and amounts are integers, rounded where the code rounds
to floats; the bonus of a turn is therefore a part of its accrual but not a
precise one. Each earning and spending goes through `Books`, which keeps the statistics the code keeps;
`writtenOff` is history.
The mod's pane has a copy of the rules (`view.ts`): which buttons are bright (`InfraReady`, `LabReady`,
`BreakthroughReady`) and which move it names next (`NextStep`). `PaneAgrees` compares it with the actions by
ENABLED; it leaves a rack bright whose GPUs are missing, as the code does.

### Channel

Socket, server, throttle, client, store and keys, for one UI. A game is a number and whether its
generation can ship; the sessions are one session whose state is a number. `toClient` and `toServer` are what
is under way on the connection. The client cuts the stream into lines: a chunk may end within one
(`DeliverPart`), and what the buffer holds when a connection closes is still there on the next
(`lineBuffer = "stale"`). `missedAlert`, `otherPaused` and `greeted` are history: alerts are not repeated to a UI
that was away, a pause by another UI is not announced, and a hello may be swallowed with a torn line.

### Board

Each handler of `register.tsx` is one action per stretch between awaits that matter: `askBoard`'s request and its
continuation (`Settles`, `Answered`), the clock and the panes `speakUp` asks (`SpeakClock`, `SpeakPanes`), the
banner a finished tool call reads and then clears (`ToolReadsBanner`, `ToolClearsBanner`). The economy is the
set of concepts the player has met, which any event may change. `remarks` is history: of each unasked
call, the clock's reading that `speakUp` decided by and the time at which it was made, which differ by the wait for the panes (section 4).

### SessionSynthesis and Corpus

`SessionSynthesis` is `synthesizeSessionEvents` as operators over lines that are records (kind, chain, usage key,
tool, time); `Faithful` is the reference: opened and closed once, in time, each usage key counted once, each answered turn
stopped before the next. `Corpus` runs it inside imports: a stat of the files, a read, a rename of the
output, and the manifest at the end, with Claude Code appending (`AppendChunk`), times changing
(`Touch`), rules changing (`SetRules`) and the process dying in between. Snapshots are a stat and a copy per file.
Backtest is an operator, from the corpus to the summary it prints: the counters of sessions and
projects, labels, totals, top sessions, and the cost of what models with a price have produced. `Reference` computes the same from the transcripts.
`settled`, `archived` and `lost` are history. An output file that is not there has no events (`NoOutput`).

### Settings and Operations

A command in the settings is a checkout's wrapper or a user's script with a wrapper's name. The rule that
decides whose it is (`IsOwnCommand`) looks at the disk, where checkouts come and go. `Operations` adds the
processes: a daemon checks the pidfile, writes it, replays, unlinks the socket, listens, stops and exits in separate steps,
each of which a crash, a signal or another daemon may precede. A launcher's command is a sequence of steps too. `raced` remembers
that two claims overlapped; `told` and `saved` are history: for each session the last registration that gave it a place and that no later one
took from it, as the running daemon was told and as the file was last written. They know nothing of the list of entries the code searches. A
process identifier is not used twice, so `PidAlive` has neither reuse nor the different reading of EPERM in
`daemon.ts:31-38` and `daemon-control.ts:12-19`: what the doctor says holds under that condition. A registration is taken by the daemon that listens or it is lost (`Lost`), whether nobody listens, the launcher's 500 ms
pass (`register.ts:43`) or the daemon dies with the line unread.
An install or uninstall reads and writes the settings in one step (`installer.ts:35-37`, `56-58`): an edit that falls in between is overwritten, and not modelled.

## 3. Runs

| Run | Bounds | Checks | Shows |
|---|---|---|---|
| `EventPipeline_restarts` | 1 session, 1 hook, 3 lines, 2 restarts, 1 truncation, rotation from 1 line | `TypeOK`, `EmittedOncePerRun`, `ExactlyOnce`, `KeepsLedger` | exactly-once counting over restarts and rotations; the pipeline implements `EventLedger` |
| `EventPipeline_live` | 2 lines, 2 restarts, 1 truncation, calls may fail, fairness | `DoubleCountNeedsNestedDrain`, `NothingLostOnDisk`, `EveryLineCounted` | no failed call loses a line; every line is counted once the daemon stays up |
| `Transcripts` | 3 responses, 3 lines, 3 events, 2 restarts, 1 truncation, 1 rotation | `CountedOnce`, `NothingPassedOver` | usage is logged once and none is passed over |
| `Transcripts_rotation` | the same | `NothingTwice` | **violated**: the finding of section 4 |
| `FocusEngine` | 2 sessions, 2 events, 2 calls, 1 act of the user, fairness | `QueueTracksState`, `QueueIsFifo`, `AutoFocusFromSource`, `BackToSession` | the queue, the moves of the cursor, the return to a waiting session |
| `GameSync` | 2 sessions, 3 inputs, chains of 2, 1 rejected write or ended session, fairness | `SyncTypeOK`, `ViewIsBasePlusQueue`, `AppliedInOrder`, `EveryInputAccounted`, `LossNeedsOverlap`, `Converges` | what is lost, what is not, and convergence |
| `RegionLife` | 2 sessions, 2 directories and "unassigned", 2 units of tokens, any number of events and restarts | `RegionTypeOK`, `StatusTracksSessions`, `HotWhileWorking`, `BonusAtMostOnce` | a region is as the daemon has its sessions, and never dark over a live one; no token is paid twice |
| `Economy` | 2 regions, 3 events, 2 moments, 4 breakthrough nodes | `TypeOK`, `GatesHold`, `BooksBalance`, `RegionsAddUp`, `LevelsArePaid`, `PaneAgrees` | no number goes negative, no unit stands on missing ones, the books balance; the mod's pane offers and advises what the engine accepts |
| `Channel` | 3 changes or keys, 2 starts of the daemon, fairness | `InStep`, `Converges` | the UI shows the daemon, and comes to it after any number of losses |
| `Board` | 1 concept, 2 tool calls, 4 events or acts, 2 reactions at once, a cooldown of 1 and a clock of 1 tick, 3 lines | `AnswersInOrder`, `UnaskedWaitsItsTurn`, `BannerEnds` | order of answers, the board's manners, banners |
| `Corpus` | 120 transcripts of up to two chunks; for those of at most 2 lines, 2 changes and 3 commands; 2 projects, 2 sets of rules, 2 windows | `StreamsFaithful`, `NothingStale`, `ReportMatches` | streams, caching and reports |
| `Operations` | 3 daemons, 1 shell, 2 panes, 2 sessions, 1 directory, 2 hook events, 2 checkouts, 1 script, 4 commands | `OneDaemon`, `RegistrationHolds`, `HooksTidy` | one daemon, panes found, hooks tidy |

Why the bounds are enough. *Pipeline*: files of different sessions share nothing but the
save and the order of handlers, so one session shows every race on its file; the shortest
interesting runs need a line before a rename, one after it and one after the restart, and
a second restart to count what the first one saved. The liveness run
has fewer lines because its graph is searched for cycles. *Transcripts*: two lines of one response and one of another show
a key across polls; the second restart resumes from what the first one logged. *Focus*: two sessions are the
least for which a queue has an order and two calls race; a call has at most three awaits,
all of which occur. *GameSync*: an overlap
needs two writers, and the third input is pushed while the first two are in flight. *RegionLife*:
its state is finite but for the tokens; two sessions can share a directory or move between two, and two units can be
earned by one session or by both. *Economy*: the balance is chosen so that each rule applies within three events from a
lab that has just been founded; two regions are the least for which totals are a sum. *Channel*: a change before the loss of
a connection, one during it and one after it. *Board*: two tool calls overlap in every way; two reactions are the
least that can race for the minute, and one tick is a minute gone by. *Corpus*: every pair of chunks is a transcript; a change that falls between a stat and a read needs one
command, its discovery a second, a change of rules a third. *Operations*: the third daemon starts after one
has crashed and another was started beside it; a start, a registration, a crash and the next start use up four commands, and so do a start and three registrations.
*Deadlock* is checked for `GameSync` and `RegionLife`, where no bound may stop everybody; the bounds of the other
models let them run out of steps, as the system does when nobody does anything.

**Fairness.** `EventPipeline`: weak for handlers that have begun, because Node runs them to
their end, and strong for a queued file notification, because the event loop delivers it
however many timers come first. Nothing makes hooks write, timers find work, or a person
restart the daemon. `FocusEngine`: weak for the calls as a whole, because tmux answers or
`execFile` times out after two seconds. `GameSync`: weak for the work at the head of a
chain, and strong for `Refresh`, which the code's interval fires for ever; strong only because
the model's chain is bounded and other flushes may fill it. `Channel`: weak for the throttle's and the
reconnection's timers, for a socket's deliveries and its closing, and for the focus engine's call that
tells of a change; nothing makes a key be pressed or a daemon start.

## 4. Findings

One, a disagreement between the code and a sentence of the repository, shown by a run:

* **Usage counted twice after a rotation** (`transcripts.ts:122`, run `Transcripts_rotation`). `resume` is called for the `TokenUsage` lines of the live
  event file. A rotation moves them to the archive, so the next start finds none, reads the transcript from its
  beginning and logs everything again; `transcripts.ts:119` promises "counted once and nothing twice".

Met while modelling and not claimed by a run. Where a property exempts a case, its history variable is named.

* *Pipeline* (`excuse`). A Stop drained from a rotated file polls the transcript, which recreates the live file, and pokes the
  watcher into it before the rotation resets the cursor; a restart counts those lines again (`daemon.ts:228`; ARCHITECTURE.md:145 says nothing
  double-counts). A crash between the rename and the save of the reset cursor leaves the old cursor, which skips events of the
  new file (`rotation.ts:70`, against `game-host.ts:36`).
* *Transcripts* (`skipped`). A response that is being written where `finishReplay` skips to is counted again when its line ends.
* *Focus*. The grace switch tests the queue before its awaits and not after, and may leave a session that has come to
  wait meanwhile (`focus.ts:223`, ARCHITECTURE.md:73). The transition that empties the queue clears the banner of its own session only
  (`focus.ts:155`, `store.ts:101`). First come, first served fails for a session that changes state again before its last change was handled:
  when a session asks, the user jumps to it, another asks, and only then its own announcement is handled, it is queued again behind the
  other. `QueueIsFifo` speaks of sessions in line (`InLine`: waiting, not serviced, no two of its changes under way at once); an earlier statement of it
  held on the run's instance, failed to be inductive, and has this counterexample with three events and four calls. A user who changes pane between the engine's look at tmux and its move is moved all the same (`left`).
* *Regions* (`moved`). The last tokens of a turn are polled after the Stop has been paid, and the next prompt erases their accrual
  (`daemon.ts:226`, PRD-MECHANICS.md:55). An event after SessionEnd wakes the game's mirror of the session but not the daemon's state
  machine (`engine.ts:244`, PRD-MECHANICS.md:50). A region whose last session has moved away keeps its status, "hot" included, until something refreshes it
  (`state.ts:23` has it hot while a session works). A session that ends leaves its region idle: `engine.ts:269-275` forgets the session and refreshes the
  region before the daemon tells the game that it is dead, and then it is in no region. PRD-MECHANICS.md:50 and `state.ts:23` have the region of a dead session
  dark, and `engine.test.ts:133-140` sees it dark because it tells the engine of the state without the event. `StatusTracksSessions` says what the code does:
  a session that has ended is in no region.
* *GameSync* (`ambiguous`). A write that took effect and was reported as failed is applied twice.
* *Channel*. P pressed while the game the UI shows is older than the daemon's ships without asking (`App.tsx:164`). The line buffer is not
  cleared on a reconnection, so a torn message swallows the next hello (`client.ts:117`; `greeted`). Another UI's pause is
  not announced (`otherPaused`), and alerts missed while away leave the banner as it was (`missedAlert`).
* *Board*. A parallel call that finishes takes down the "permission" banner while a prompt still waits; a late clear can erase a newer
  banner. The time a reaction is judged by is read before the panes are asked (`register.tsx:172-183`), so two unasked calls whose readings are a cooldown apart may be made
  closer to each other, by as long as the first one waited, where `board.ts:13` and the plugin's README (line 80) promise at most one a minute; `UnaskedWaitsItsTurn` says of the readings that they are a
  cooldown apart, and of the calls how much closer they can be. Two sessions may each explain a concept, and the later one overwrites the list in the store. The ship button decides by the game
  as it was drawn (`register.tsx:575`).
* *Corpus*. An import that removed an excluded output and died before the manifest was written, with the exclusion then cleared, is
  "unchanged" though its output is missing (`lost`). A touched file with a newly excluded directory keeps its output for one import (`import.ts:299`).
  Two transcripts with one session id overwrite each other's output (assumption `OneSourcePerSession`).
* *Operations* (`raced`). Two claims of the pidfile that overlap let two daemons serve (PRD.md:90); the second takes the first one's socket away.
  `ccidle up` while a daemon is stopping finds it running, and none is left. During a replay `up` takes a socket that a crashed daemon left for
  the new one's, and its registrations are lost without a word; the doctor calls such a daemon "ok". A registration that leaves fields out erases them:
  `onRegister` hands on every field, undefined ones too (`daemon.ts:171`), and the entry replaces all of what it matches (`registrations.ts:72`), so a registration of a pane
  without a session takes that pane from the session that had it, though the spread in `registrations.ts:72` reads as a merge. `RegistrationHolds` counts that as being taken over. A
  user's own script with a wrapper's name counts as ccidle's while it is missing from the disk (`settings.ts:43`).

Where a module is coarser than the code:

* *EventPipeline*. A stat that fails while a renamed file is drained (`watcher.ts:31-35`, the offset then starts at 0) is one of the failures of `DrainRotated`.
* *FocusEngine*. `focusPane` is three tmux commands (`tmux.ts:78-83`); the model has them succeed or fail together.
* *TranscriptReader*. One transcript, so `resume` never finds the saved path to be another (`transcripts.ts:129`).
* *Channel*. A daemon that crashed comes back with the game and the session it had: that the save and the replay give them back (`game-host.ts:81`, `daemon.ts:241-249`) is
  the matter of `EventPipeline` and `RegionLife`. A player's action changes the game or does not, and the alerts of several transitions that come together are one (`Alert`).
* *Corpus*. The two files of a transcript are stat'ed in one step (`import.ts:163-174`), as no property depends on the order, and no stat fails (`import.ts:343`); they are read in one step, as the code reads them
  synchronously (`import.ts:290-296`). A pattern has whole segments only (`glob.ts:18-45` has `*` and `?` within one). Times are equal or not, without the tolerance below a millisecond of
  `corpus.ts:79`, and rows of equal weight are in any order.

## 5. Proofs

Every theorem is about the specification itself, `Spec => []P`, for every value of the constants that
satisfies the named assumptions of its modules. The assumptions say that bounds are natural numbers,
that `None`, panes and identities are told apart (`FocusAssumption`, `OperationsAssumption`, `RegionsAssumption`, `BoardAssumption`,
`SettingsAssumption`, `ReaderAssumption`, `ChannelAssumption`, `NullAssumption`), that the sets of sessions of the focus engine, of directories and of transcripts are finite (a queue, a
sum and a list of files range over them), that transcripts are sequences of lines and each names a session of its own (`TranscriptsAssumption`, `OneSourcePerSession`), that the board's concepts are numbered and its cooldown is positive, and that the game's balance is made of
naturals with positive prices (`EconomyAssumption`), as `balance.ts` is. Sets of sessions, hooks, writers, daemons, shells, scripts, checkouts,
tool calls and breakthrough nodes are otherwise arbitrary; nothing is assumed about the order of steps.

An invariant is proved as `Init => I`, `I /\ [Next]_vars => I'` and `I => P`, one step per action. The strengthened
invariants are defined beside the models, or at the head of their proof, and were checked by TLC on the
instances of section 3 before they were proved.

**EventPipelineProofs.**

* `TypeCorrect`, then `EmittedOnce`. That no line is emitted twice depends
  on where the line still is. `WatcherInv` adds that a rotation makes no call while a batch is
  being emitted (`RotationIsQuiet`), that line numbers occur only where they were written
  (`LinesAreLogged`), that no file repeats a line and the live and the renamed file share
  none (`FilesAreDistinct`), and that a line is unread, pending or emitted and only one of these
  (`ReadOnce`). `UnreadLines` makes the offset's change of file at a rename explicit.
* `RotationLosesNothing`. `ArchiveInv` adds that where `rotateOne` is about to drop the renamed file the archive
  has its lines (`Archived`) and that a file which does not exist has none.
* `CountedTwiceOnlyWhenNested` and `CountedExactlyOnce`. Both need the whole chain of numbers between the file and the
  economy: the offset of the watcher, the lines pending, the ordinals the daemon has seen, the cursor of the economy in
  memory and the one on the disk. `CountInv` states it per session: `PhaseInv` (what a stopped, a replaying and a rotating daemon rule
  out), `LagInv` (the save on the disk is behind the one in memory), `AtMostOnce` (a counted line lies below a cursor, so
  nothing offers it again) and `Exactly` (a line below a cursor has been counted, so nothing skips it). The two halves have
  different exemptions and so are separate: a nested drain breaks the first, any excuse the second.
* `ImplementsLedger`: `Spec => Ledger!Spec`. Initial states map to an initial state, and every step maps to a logged line, to a save that
  settles any number of lines, or to a stutter: counting in memory and losing that memory are not seen by the ledger.

**FocusEngineProofs.** `FocusTypeCorrect`; `QueueTracks` and `FirstComeFirstServed`. Calls that are not awaited by their caller
are handled in the order in which tmux answers. `QueueInv` says of each session, for as long as no call has
overtaken another of its own: the last call under way tells its state (`LastCallTells`), one that tells of an older wait is followed by
one that takes it out (`LeavesAgain`), who is queued waits or is about to be taken out (`QueuedWaits`), who waits is queued (`WaitsQueued`). Each of
the actions is one of five kinds of step as far as the queue sees (`Quiet`, `Appears`, `Announces`, `Jumps`, `Handles`), and the
invariant is proved for the kinds. `CursorTakenFromSource`: `CursorInv` says what a call has been told of the cursor is still
so, or the cursor has moved since (`left`).

**ModProofs, GameSync.** `SyncTypeCorrect`; `ViewIsSynced`, which with typing is inductive. `LossIsOverlap` rests on `FlushInv`: stamps
are fresh (`StampsAreFresh`), so an unchanged stamp means an unchanged store, and what a flush read it writes (`ReadIsKept`).
`NothingDisappears` follows a flush's batch from the queue into the store (`BatchIsWritten`). `InputsInOrder`: `OrderInv` says that
a queue holds its session's latest inputs in turn (`QueueIsLatest`), that until the store has a record nobody has synced with one (`NothingAdopted`), and that in no game, stored or on its way to the store, an input of a session comes
after a later one or is one still to be brought (`GamesOrdered`), except after a write that took effect and was reported as failed.

**EngineProofs, RegionLife.** `LifeTypeCorrect`, `StatusAlwaysTracksSessions`, `AlwaysHotWhileWorking`. That the region
of a working session is hot is not inductive: the event that keeps a session working takes the mirror's
word for it, and a restart takes the region's. `LifeInv` says of every session that the game's copy is what the daemon's
state machine has, or awake (`Mirrors`), that one which the daemon holds working works in a hot region (`Agrees`), that the fold of its events names
the sessions which have a region (`Resumable`), and of every region that its status is derived from the copies unless a session has left it (`Explained`), and that a dark one has no live session even then (`DarkIsDark`). Each handler is shown to touch one session and the regions it refreshes (`Touches`), two
handlers in a row touch the union, and what is touched that way keeps the invariant. `BonusPaidOnce`: bonuses paid and accruals of all regions
together are at most what the tokens earned, step by step (`Solvent`); one region's accrual changes at a time, so its sum does (`TotalChange`).

**EngineProofs, GameEconomy.** `EconomyTypeCorrect`: no number goes negative, which the guard of each purchase has to show for each resource it
spends. `BooksAlwaysBalance`: every step either trades (`Trades`) or settles at once (`Settles`). `PurchasesStaySupported`: units rest on each other (`Rests`),
and each action only adds supported units or resets (`Grows`). `RegionsAlwaysAddUp`: what a step earns it allots to one region, to the
regions of a turn's end, or to none (`Allots`), so sums over the regions follow the statistics. `LevelsStayPaid`: the breakthroughs spent are the sum over
the nodes of the sums of their levels' prices (`Worth`).

**ModProofs, Board.** `BoardTypeCorrect`; `AnswersStayInOrder` from `FloorIsNewest` (only the newest call can have the floor);
`BoardWaitsItsTurn` from `ReactionsAreSpaced`: no unasked call was decided by a reading later than the one the cooldown is counted from, nor made before it, and a
`speakUp` that waits carries a reading of a moment that has been. So each new reading is a cooldown after all earlier ones. `BannerAlwaysEnds` from `BannerHasCause`: a banner that no throw has orphaned has a call in progress that
will take it down.

**TranscriptReaderProofs.** `ReaderTypeCorrect`, `NothingCountedTwice`, `OffsetPassesNothing`. What a position in the transcript (offset, keys seen) has to satisfy
for the next poll to be right is `Covered` (what lies before it is counted or was skipped, what it has seen is counted and lies before it) and `Safe`
(what is still to be read is not counted, or it has been seen). Neither is inductive for the tracked position alone, because a start takes
its position from the log: `ForReplay` asks the same of the position that a replay of the log as it stands would end with. A poll
appends the line that records where it got to, so it sets both; a failed append moves neither; a hook's line keeps both. `Replayed` is
a recursive function, of which `ReplayedAppend` says that a log longer by a line is replayed by one step more. `Recorded` says when the live log may have lost the lines that
tell (after a rotation), and the exemption `forgot` is exactly the start that finds them gone.

**ChannelProofs.** `ChannelTypeCorrect`, `UiStaysInStep`. The UI lags behind the daemon, so what is in step is not the store but the store after all that is under
way: of every field, the last message under way that carries it carries the daemon's value, and if none does the store has it already
(`SessionTold`, `PauseTold`, `GameTold`, `AlertTold`). A push moves the value and the last message together, a delivery takes the first message, which is either not the last or is
the store's new value. A pending throttled push is the game itself (`Connection`). A piece of an old connection's message that is still in the line buffer swallows the
first message of the next connection, which is its hello (`HelloFirst`): that is why the session and the pause are claimed of a UI that has been greeted only.

**CliProofs, Operations.** `OperationsTypeCorrect`; `SingleInstance` from `ClaimInv`, which says where the pidfile, the socket and every process stand to
each other while no two claims have overlapped; `RegistrationsRemembered` from `MemoryInv`: the list of every daemon past its claim keeps what it was told, and the file what was told when
it was written (`Keeps`). A list keeps a promise to a session if the first entry that names the session is the one promised. A registration replaces the first entry it matches or is
appended (`RegisteredAt`), and keeps every promise but those it takes over (`RegisteredKeeps`). `HooksStayTidy`: the hooks of an event, flattened, are the user's scripts as put in and one hook of ccidle or none
(`Holds`). It rests on lemmas about sequences of any length: keeping the elements of a set distributes over concatenation (`KeptConcat`), keeping twice is
keeping the intersection (`KeptTwice`), and stripping group by group is stripping the flattened hooks (`FlatKept`).

**CliProofs, Corpus.** `CorpusTypeCorrect`, `NothingGoesStale`. Transcripts only grow, and sizes are taken before the content is read: an entry `Fits` its
transcript if its sizes are at most those of the content it hashed and the transcript begins with that content. Equal sizes then mean equal content, whatever
was appended between the stat and the read, and whatever the times say (`SameSizeSameContent`). That the corpus shows the content of an entry is not inductive:
an import may rename an output and die before it writes the manifest. `CorpusInv` says of each entry, on the disk and of the import under way, that the output
shows it, or the transcript has outgrown it (so it will be read again), or the import that removed the output died (`UpToDate`); one that
has a new output for a source has read more than the entry on the disk (`SameOrOutgrown`). Of a snapshot: a raw copy is what its file begins with, and while
nothing is written every file is copied or still to be. The synthesis itself (`Timeline`), the globs and the date filter are not expanded.

**SumFacts** proves of the library's sums over a finite set what the others cite: they are independent of the order in which the set is gone through, so a summand can be
taken out, added or changed.

The library's induction rules take an operator as an argument, which the provers cannot instantiate. Where a proof needs induction it is in
first-order form, by a least counterexample: over the naturals (`LeastNatural`), over the subsets of a finite set (`MinimalSubset`), or over sequences
(`ShortestSequence`). `StripOwnHooks` and `Dequeued` are written as recursive functions for that reason, because `SelectSeq` cannot be expanded in a proof.

**Only model-checked.**

* The liveness properties `EveryLineCounted`, `BackToSession` and both `Converges`, and `PaneAgrees`, which compares the pane with the actions by
  ENABLED: liveness under fairness and ENABLED are out of the prover's reach.
* `StreamsFaithful` and `ReportMatches` of `Corpus`: what the folds of `SessionSynthesis` and of the backtest compute for every transcript is a claim
  about data of any length, which would first need an invariant of each fold, the existence of what the library's sorting chooses, and conditions on
  the transcripts that the instance satisfies by construction (a key has one number of tokens, a result follows its call in time).

No module declares a RECURSIVE operator, which the prover cannot treat.

## 6. Plan

The components of section 1 are modelled, but for what section 7 leaves out, and every safety invariant the runs check is proved but for
three, all over data of any length or ENABLED (section 5). What could be proved yet is of `Corpus`: an invariant of each fold of `SessionSynthesis`, for `StreamsFaithful`.

## 7. Not modelled

* The bundled plugin (`src/plugins/cc-idle/hooks/register.js`, 5,713 lines, more than a third of the implementation): generated from `packages/mod` and
  `packages/game`, which are modelled from their sources.
* Drawing: the TUI's components and its height budget, the lines of the mod's pane, the demo video. They keep no state beyond the screen and the cursor in a menu.
* Texts: narration, prompts to the board, reports, Markdown, JSON output, the parsing of command lines. They decide nothing.
* Redaction, truncation of payloads and schema validation where it only rejects; a hook's line is an identity.
* Configuration files and environment overrides, which are read once; the models take what they say as constants.
* A save that is migrated or set aside because it cannot be read: what is written satisfies the schema (`TypeOK` of `GameEconomy`), so
  this happens only to files of other versions or from outside.
* The doctor's checks of tools, permissions and disk, the reading of the price table and the economy pass of the backtest, and tmux itself.
