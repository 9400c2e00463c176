--------------------------- MODULE EventPipeline ---------------------------
(***************************************************************************)
(* The path of one Claude Code lifecycle event from the hook script that   *)
(* logs it to the saved economy that pays for it:                          *)
(*                                                                         *)
(*   ccidle-hook.sh --append--> {session}.jsonl --Watcher--> GameHost      *)
(*                                   |                          |          *)
(*                                Rotator                    game save     *)
(*                                   v                                     *)
(*              {session}.jsonl.rotating --> {session}.archive.jsonl       *)
(*                                                                         *)
(* The daemon is one thread: its handlers are atomic with respect to each  *)
(* other.  Hooks are other processes and a crash may fall between any two  *)
(* file-system calls, so a handler is split at the calls a hook or a crash *)
(* can come between.  A byte offset always lies on a line boundary         *)
(* (readNewLines leaves a partial line unread), so offsets count lines.    *)
(***************************************************************************)
EXTENDS Naturals, Sequences

CONSTANTS
  Sessions,      \* session ids; each has one event file
  Hooks,         \* hook processes of a session that may run at the same time
  MaxLines,      \* bound: lines ever logged per session
  MaxRestarts,   \* bound: crashes and shutdowns of the daemon
  MaxTruncations,\* bound: times somebody empties a live event file
  RotateAbove,   \* config.log.maxFileMB, in lines
  FsErrors       \* whether the daemon's own file-system calls may fail

ASSUME BoundsAssumption ==
  /\ MaxLines \in Nat
  /\ MaxRestarts \in Nat
  /\ MaxTruncations \in Nat
  /\ RotateAbove \in Nat
  /\ FsErrors \in BOOLEAN

VARIABLES
  \* The events directory
  live,        \* live[s]: lines of {s}.jsonl, in file order
  liveFiles,   \* sessions whose live file exists
  aside,       \* aside[s]: lines of {s}.jsonl.rotating
  asideFiles,  \* sessions whose .rotating file exists
  archive,     \* archive[s]: the set of lines of {s}.archive.jsonl (order and repeats dropped)
  fd,          \* fd[s][h]: the file hook h of session s holds open for append
  saveFile,    \* the game save on disk
  \* The daemon's memory
  phase,       \* "down", "replay" (startDaemon's replaying flag) or "running"
  scan,        \* existing event files chokidar has not reported yet
  offsets,     \* Watcher.offsets
  pending,     \* lines read but not emitted yet, next one first
  poking,      \* TRUE between TranscriptReader.poll's append and Watcher.poke
  current,     \* the session whose lines are being emitted or rotated
  rot,         \* the next file-system call of Rotator.rotateOne
  seen,        \* GameHost.seen
  save,        \* GameHost.save: the economy and its per-file cursors
  dirty,       \* GameHost.dirty
  \* History, read by the properties only
  written,     \* lines logged so far: line l is the l-th one of its session
  event,       \* event[s][l]: the event that line l records
  emits,       \* times this daemon process has emitted a line
  late,        \* lines written through a descriptor opened before a rename
  cut,         \* lines removed from disk on purpose: truncated or expired
  stale,       \* the save on disk was written before the last rename
  excuse,      \* what went wrong with a session's file, see Excuses
  restarts,
  truncations

diskVars == <<live, liveFiles, aside, asideFiles, archive, fd>>
logVars == <<written, event, late, cut>>
hostVars == <<seen, save, dirty, saveFile, stale>>
watcherVars == <<offsets, pending, poking, current>>
processVars == <<phase, scan, restarts>>
vars == <<diskVars, logVars, hostVars, watcherVars, processVars,
          rot, emits, excuse, truncations>>

LineId == 1..MaxLines
Events == {"Stop", "TokenUsage", "Other"}
HookEvents == Events \ {"TokenUsage"}
FdStates == {"closed", "live", "aside", "unlinked"}
Phases == {"down", "replay", "running"}
RotationSteps == {"none", "leftover", "cleanup", "rename", "read", "drain", "archive", "unlink"}

(***************************************************************************)
(* The ways a session's file can leave the path on which exactly-once      *)
(* counting holds.                                                         *)
(*   staleSave    the process died with a save older than the last rename  *)
(*   nestedDrain  a poke read the new live file inside a rotation's drain  *)
(*   drainFailed  the renamed file could not be read                       *)
(*   truncated    somebody other than the daemon emptied the live file     *)
(***************************************************************************)
Excuses == {"staleSave", "nestedDrain", "drainFailed", "truncated"}

\* GameSaveData: how often the economy absorbed each line, and the cursors.
Saves == [applied : [Sessions -> [LineId -> Nat]], cursors : [Sessions -> Nat]]

LinesOf(lines) == {lines[i] : i \in 1..Len(lines)}
LinesFrom(lines, offset) == {lines[i] : i \in (offset + 1)..Len(lines)}

\* readNewLines: everything past the offset, or the whole file if it shrank.
NewLines(file, offset) ==
  IF offset > Len(file) THEN file ELSE SubSeq(file, offset + 1, Len(file))

FreshSave == [applied |-> [s \in Sessions |-> [l \in LineId |-> 0]],
              cursors |-> [s \in Sessions |-> 0]]

Init ==
  /\ live = [s \in Sessions |-> <<>>]
  /\ liveFiles = {}
  /\ aside = [s \in Sessions |-> <<>>]
  /\ asideFiles = {}
  /\ archive = [s \in Sessions |-> {}]
  /\ fd = [s \in Sessions |-> [h \in Hooks |-> "closed"]]
  /\ saveFile = FreshSave
  /\ phase = "down"
  /\ scan = {}
  /\ offsets = [s \in Sessions |-> 0]
  /\ pending = <<>>
  /\ poking = FALSE
  /\ current \in Sessions
  /\ rot = "none"
  /\ seen = [s \in Sessions |-> 0]
  /\ save = FreshSave
  /\ dirty = FALSE
  /\ written = [s \in Sessions |-> 0]
  /\ event = [s \in Sessions |-> [l \in LineId |-> "Other"]]
  /\ emits = [s \in Sessions |-> [l \in LineId |-> 0]]
  /\ late = [s \in Sessions |-> {}]
  /\ cut = [s \in Sessions |-> {}]
  /\ stale = [s \in Sessions |-> FALSE]
  /\ excuse = [s \in Sessions |-> {}]
  /\ restarts = 0
  /\ truncations = 0

-----------------------------------------------------------------------------
(* The environment: hooks, and a person with a shell                       *)

\* `>> {s}.jsonl` opens the path for append, creating it, before printf writes.
HookOpen(s, h) ==
  /\ fd[s][h] = "closed"
  /\ written[s] < MaxLines
  /\ fd' = [fd EXCEPT ![s][h] = "live"]
  /\ liveFiles' = liveFiles \cup {s}
  /\ UNCHANGED <<live, aside, asideFiles, archive, logVars, hostVars, watcherVars,
                 processVars, rot, emits, excuse, truncations>>

\* A new line of session s enters the log as event e.
Log(s, e) ==
  /\ written[s] < MaxLines
  /\ written' = [written EXCEPT ![s] = @ + 1]
  /\ event' = [event EXCEPT ![s][written[s] + 1] = e]

\* The line lands in whatever file the descriptor names by now.
HookWrite(s, h, e) ==
  /\ fd[s][h] # "closed"
  /\ Log(s, e)
  /\ fd' = [fd EXCEPT ![s][h] = "closed"]
  /\ \/ /\ fd[s][h] = "live"
        /\ live' = [live EXCEPT ![s] = Append(@, written[s] + 1)]
        /\ UNCHANGED <<aside, late>>
     \/ /\ fd[s][h] = "aside"
        /\ aside' = [aside EXCEPT ![s] = Append(@, written[s] + 1)]
        /\ late' = [late EXCEPT ![s] = @ \cup {written[s] + 1}]
        /\ UNCHANGED live
     \/ /\ fd[s][h] = "unlinked"
        /\ late' = [late EXCEPT ![s] = @ \cup {written[s] + 1}]
        /\ UNCHANGED <<live, aside>>
  /\ UNCHANGED <<liveFiles, asideFiles, archive, cut, hostVars, watcherVars,
                 processVars, rot, emits, excuse, truncations>>

\* `: > {s}.jsonl`, the external truncation the watcher's 'truncated' event is for.
Truncate(s) ==
  /\ truncations < MaxTruncations
  /\ s \in liveFiles
  /\ live' = [live EXCEPT ![s] = <<>>]
  /\ cut' = [cut EXCEPT ![s] = @ \cup LinesOf(live[s])]
  /\ excuse' = [excuse EXCEPT ![s] = @ \cup {"truncated"}]
  /\ truncations' = truncations + 1
  /\ UNCHANGED <<liveFiles, aside, asideFiles, archive, fd, written, event, late,
                 hostVars, watcherVars, processVars, rot, emits>>

-----------------------------------------------------------------------------
(* GameHost                                                                *)

\* No handler is on the stack of the daemon's thread.
Idle == phase # "down" /\ pending = <<>> /\ ~poking /\ rot = "none"

\* writeGameSave replaces the save atomically; on an error it is left as it was.
WriteSave ==
  \/ saveFile' = save' /\ dirty' = FALSE /\ stale' = [s \in Sessions |-> FALSE]
  \/ FsErrors /\ UNCHANGED <<saveFile, dirty, stale>>

\* Mutant: the cursor survives a rotation.
FileResetKeepsCursor(s) ==
  /\ seen' = [seen EXCEPT ![s] = 0]
  /\ UNCHANGED save
  /\ WriteSave

\* GameHost.handleFileReset(s): ordinals restart from zero, saved at once.
FileReset(s) ==
  /\ seen' = [seen EXCEPT ![s] = 0]
  /\ save' = [save EXCEPT !.cursors[s] = 0]
  /\ WriteSave

\* Mutants, each a bug one could write in the definition it precedes.  Here: the
\* comparison with the cursor is strict, so the last absorbed line counts again.
HandleEnvelopeStrict(s, l) ==
  LET ordinal == seen[s] + 1 IN
  /\ seen' = [seen EXCEPT ![s] = ordinal]
  /\ IF ordinal < save.cursors[s]
       THEN UNCHANGED save
       ELSE save' = [save EXCEPT !.cursors[s] = ordinal, !.applied[s][l] = @ + 1]
  /\ UNCHANGED <<saveFile, stale>>

\* Mutant: the line is absorbed but the cursor stays where it was.
HandleEnvelopeNoCursor(s, l) ==
  /\ seen' = [seen EXCEPT ![s] = @ + 1]
  /\ IF seen[s] + 1 <= save.cursors[s]
       THEN UNCHANGED save
       ELSE save' = [save EXCEPT !.applied[s][l] = @ + 1]
  /\ UNCHANGED <<saveFile, stale>>

\* GameHost.handleEnvelope for line l of session s.
HandleEnvelope(s, l) ==
  LET ordinal == seen[s] + 1 IN
  /\ seen' = [seen EXCEPT ![s] = ordinal]
  /\ IF ordinal <= save.cursors[s]
       THEN UNCHANGED save
       ELSE save' = [save EXCEPT !.cursors[s] = ordinal, !.applied[s][l] = @ + 1]
  /\ UNCHANGED <<saveFile, stale>>

HostFrame == <<diskVars, logVars, watcherVars, processVars, rot, emits, excuse, truncations>>

\* The autosave timer: persist(false).
Autosave ==
  /\ Idle
  /\ dirty
  /\ UNCHANGED <<seen, save>>
  /\ WriteSave
  /\ UNCHANGED HostFrame

\* handleAction: a player action changes the economy, then persist(false).
PlayerAction ==
  /\ Idle
  /\ phase = "running"
  /\ UNCHANGED <<seen, save>>
  /\ \/ saveFile' = save /\ dirty' = FALSE /\ stale' = [s \in Sessions |-> FALSE]
     \/ FsErrors /\ dirty' = TRUE /\ UNCHANGED <<saveFile, stale>>
  /\ UNCHANGED HostFrame

-----------------------------------------------------------------------------
(* Watcher                                                                 *)

\* Mutant: the offset is how far this read got, not where the next one starts.
ConsumeRelative(s) ==
  /\ offsets' = [offsets EXCEPT ![s] = Len(live[s]) - offsets[s]]
  /\ pending' = NewLines(live[s], offsets[s]) \o pending
  /\ current' = s
  /\ IF s \in liveFiles /\ Len(live[s]) < offsets[s]
       THEN FileReset(s)
       ELSE UNCHANGED hostVars

\* Watcher.consume(s): the offset moves first, then 'truncated', then the lines.
\* Emission is synchronous, so lines read by a nested call come out before the
\* rest of the batch that caused it: they go in front of what is pending.
Consume(s) ==
  /\ offsets' = [offsets EXCEPT ![s] = Len(live[s])]
  /\ pending' = NewLines(live[s], offsets[s]) \o pending
  /\ current' = s
  /\ IF s \in liveFiles /\ Len(live[s]) < offsets[s]
       THEN FileReset(s)
       ELSE UNCHANGED hostVars

\* chokidar reports s as added or changed, or drainRotated's recheck comes due.
Notify(s) ==
  /\ Idle
  /\ s \in liveFiles
  /\ Consume(s)
  /\ scan' = scan \ {s}
  /\ UNCHANGED <<diskVars, logVars, phase, restarts, poking, rot, emits, excuse, truncations>>

\* TranscriptReader.poll found new usage: it logs a TokenUsage line itself.
PollAppends(s) ==
  /\ Log(s, "TokenUsage")
  /\ live' = [live EXCEPT ![s] = Append(@, written[s] + 1)]
  /\ liveFiles' = liveFiles \cup {s}
  /\ poking' = TRUE

\* The daemon's 'event' handler for the next pending line.  An absorbed line and
\* a change of the session's state mark the economy dirty.  A Stop polls the
\* session's transcript at once, which may log a line and poke the watcher.
Emit ==
  LET l == Head(pending) IN
  /\ pending # <<>>
  /\ ~poking
  /\ pending' = Tail(pending)
  /\ emits' = [emits EXCEPT ![current][l] = @ + 1]
  /\ HandleEnvelope(current, l)
  /\ \/ dirty' = (dirty \/ save' # save)
     \/ phase = "running" /\ dirty' = TRUE
  /\ \/ UNCHANGED <<live, liveFiles, written, event, poking>>
     \/ /\ phase = "running"
        /\ event[current][l] = "Stop"
        /\ PollAppends(current)
  /\ UNCHANGED <<aside, asideFiles, archive, fd, late, cut, offsets, current,
                 processVars, rot, excuse, truncations>>

\* staleTimer, for a session this process has seen events of: it may find the
\* session stale, a state change, and poll the transcript of a working one.
StaleTimer(s) ==
  /\ Idle
  /\ phase = "running"
  /\ \E l \in LineId : emits[s][l] > 0
  /\ dirty' \in {dirty, TRUE}
  /\ \/ PollAppends(s) /\ current' = s
     \/ UNCHANGED <<live, liveFiles, written, event, poking, current>>
  /\ UNCHANGED <<aside, asideFiles, archive, fd, late, cut, seen, save, saveFile, stale,
                 offsets, pending, processVars, rot, emits, excuse, truncations>>

\* Watcher.poke, from whatever handler appended the TokenUsage line.
Poke ==
  /\ poking
  /\ poking' = FALSE
  /\ Consume(current)
  /\ excuse' = [excuse EXCEPT ![current] =
                  IF rot = "drain" THEN @ \cup {"nestedDrain"} ELSE @]
  /\ UNCHANGED <<diskVars, logVars, processVars, rot, emits, truncations>>

-----------------------------------------------------------------------------
(* Rotator                                                                 *)

RotationFrame == <<logVars, processVars, poking, truncations, emits>>

\* A descriptor follows its file through a rename or an unlink.
Redirect(s, from, to) ==
  fd' = [fd EXCEPT ![s] = [h \in Hooks |-> IF fd[s][h] = from THEN to ELSE fd[s][h]]]

\* Mutant: a .rotating file left by a crash is renamed over.
RotateCheckOverwrites(s) ==
  /\ Idle
  /\ phase = "running"
  /\ s \in liveFiles
  /\ Len(live[s]) > RotateAbove
  /\ current' = s
  /\ rot' = "rename"
  /\ UNCHANGED <<diskVars, hostVars, offsets, pending, excuse, RotationFrame>>

\* checkAndRotate picks a live file over the limit.
RotateCheck(s) ==
  /\ Idle
  /\ phase = "running"
  /\ s \in liveFiles
  /\ Len(live[s]) > RotateAbove
  /\ current' = s
  /\ rot' = IF s \in asideFiles THEN "leftover" ELSE "rename"
  /\ UNCHANGED <<diskVars, hostVars, offsets, pending, excuse, RotationFrame>>

\* appendFileSync(archive, readFileSync(rotating)): of a crash's leftover, or of
\* the file just drained.
AppendToArchive(from, to) ==
  /\ rot = from
  /\ archive' = [archive EXCEPT ![current] = @ \cup LinesOf(aside[current])]
  /\ rot' = to
  /\ UNCHANGED <<live, liveFiles, aside, asideFiles, fd, hostVars, offsets, pending,
                 current, excuse, RotationFrame>>

UnlinkAside(from, to) ==
  /\ rot = from
  /\ aside' = [aside EXCEPT ![current] = <<>>]
  /\ asideFiles' = asideFiles \ {current}
  /\ Redirect(current, "aside", "unlinked")
  /\ rot' = to
  /\ UNCHANGED <<live, liveFiles, archive, hostVars, offsets, pending, current, excuse,
                 RotationFrame>>

ArchiveLeftover == AppendToArchive("leftover", "cleanup")
UnlinkLeftover == UnlinkAside("cleanup", "rename")

Rename ==
  /\ rot = "rename"
  /\ aside' = [aside EXCEPT ![current] = live[current]]
  /\ asideFiles' = asideFiles \cup {current}
  /\ live' = [live EXCEPT ![current] = <<>>]
  /\ liveFiles' = liveFiles \ {current}
  /\ Redirect(current, "live", "aside")
  /\ stale' = [stale EXCEPT ![current] = TRUE]
  /\ rot' = "read"
  /\ UNCHANGED <<archive, seen, save, dirty, saveFile, offsets, pending, current, excuse,
                 RotationFrame>>

\* Mutant: the renamed file is read from its start.
DrainRotatedWhole ==
  /\ rot = "read"
  /\ offsets' = [offsets EXCEPT ![current] = 0]
  /\ pending' = aside[current]
  /\ rot' = "drain"
  /\ UNCHANGED <<diskVars, hostVars, current, excuse, RotationFrame>>

\* Mutant: the live path keeps the renamed file's offset.
DrainRotatedKeepsOffset ==
  /\ rot = "read"
  /\ pending' = NewLines(aside[current], offsets[current])
  /\ rot' = "drain"
  /\ UNCHANGED <<diskVars, hostVars, offsets, current, excuse, RotationFrame>>

\* drainRotated: the unread lines are emitted as if they came from the live path.
DrainRotated ==
  /\ rot = "read"
  /\ offsets' = [offsets EXCEPT ![current] = 0]
  /\ pending' = NewLines(aside[current], offsets[current])
  /\ rot' = "drain"
  /\ UNCHANGED <<diskVars, hostVars, current, excuse, RotationFrame>>

\* onRotated, once every drained line and every nested one has been emitted.
OnRotated ==
  /\ rot = "drain"
  /\ pending = <<>>
  /\ ~poking
  /\ FileReset(current)
  /\ rot' = "archive"
  /\ UNCHANGED <<diskVars, offsets, pending, current, excuse, RotationFrame>>

ArchiveRotated == AppendToArchive("archive", "unlink")
UnlinkRotated == UnlinkAside("unlink", "none")

\* Any of rotateOne's file-system calls throws: logged, and the rest is skipped.
RotationFails ==
  /\ FsErrors
  /\ rot \notin {"none", "drain"}
  /\ excuse' = [excuse EXCEPT ![current] =
                  IF rot = "read" THEN @ \cup {"drainFailed"} ELSE @]
  /\ rot' = "none"
  /\ UNCHANGED <<diskVars, hostVars, offsets, pending, current, RotationFrame>>

\* pruneOldArchives: an archive past config.log.retentionDays is deleted.
PruneArchive(s) ==
  /\ Idle
  /\ phase = "running"
  /\ archive[s] # {}
  /\ archive' = [archive EXCEPT ![s] = {}]
  /\ cut' = [cut EXCEPT ![s] = @ \cup archive[s]]
  /\ UNCHANGED <<live, liveFiles, aside, asideFiles, fd, written, event, late, hostVars,
                 watcherVars, processVars, rot, emits, excuse, truncations>>

-----------------------------------------------------------------------------
(* The daemon process                                                      *)

\* Memory is gone.  A session whose save predates its last rename is excused.
Die ==
  /\ restarts < MaxRestarts
  /\ restarts' = restarts + 1
  /\ phase' = "down"
  /\ scan' = {}
  /\ offsets' = [s \in Sessions |-> 0]
  /\ seen' = [s \in Sessions |-> 0]
  /\ pending' = <<>>
  /\ poking' = FALSE
  /\ rot' = "none"
  /\ UNCHANGED <<diskVars, logVars, current, emits, truncations>>

Crash ==
  /\ phase # "down"
  /\ Die
  /\ excuse' = [s \in Sessions |->
                  IF stale[s] THEN excuse[s] \cup {"staleSave"} ELSE excuse[s]]
  /\ UNCHANGED <<save, dirty, saveFile, stale>>

\* stop(): the economy is saved, then the process exits.
Shutdown ==
  /\ Idle
  /\ Die
  /\ IF dirty THEN UNCHANGED save /\ WriteSave ELSE UNCHANGED <<save, dirty, saveFile, stale>>
  /\ excuse' = [s \in Sessions |->
                  IF stale'[s] THEN excuse[s] \cup {"staleSave"} ELSE excuse[s]]

\* Mutant: the cursors are not loaded with the economy.
StartWithoutCursors ==
  /\ phase = "down"
  /\ phase' = "replay"
  /\ scan' = liveFiles
  /\ save' = [saveFile EXCEPT !.cursors = [s \in Sessions |-> 0]]
  /\ dirty' = FALSE
  /\ emits' = [s \in Sessions |-> [l \in LineId |-> 0]]
  /\ UNCHANGED <<diskVars, logVars, seen, saveFile, stale, watcherVars, restarts, rot,
                 excuse, truncations>>

\* GameHost's constructor loads the save and drops the cursors of missing files;
\* chokidar is about to report every event file that exists.
Start ==
  /\ phase = "down"
  /\ phase' = "replay"
  /\ scan' = liveFiles
  /\ save' = [saveFile EXCEPT !.cursors =
                [s \in Sessions |-> IF s \in liveFiles THEN saveFile.cursors[s] ELSE 0]]
  /\ dirty' = FALSE
  /\ emits' = [s \in Sessions |-> [l \in LineId |-> 0]]
  /\ UNCHANGED <<diskVars, logVars, seen, saveFile, stale, watcherVars, restarts, rot,
                 excuse, truncations>>

\* watcher.start() resolves: replaying = false.  Seeding the session states also
\* marks the economy dirty.
Ready ==
  /\ phase = "replay"
  /\ Idle
  /\ scan = {}
  /\ phase' = "running"
  /\ dirty' = (dirty \/ \E s \in Sessions, l \in LineId : emits[s][l] > 0)
  /\ UNCHANGED <<diskVars, logVars, seen, save, saveFile, stale, watcherVars, scan,
                 restarts, rot, emits, excuse, truncations>>

-----------------------------------------------------------------------------

HookStep(s) == \E h \in Hooks : HookOpen(s, h) \/ \E e \in HookEvents : HookWrite(s, h, e)

RotationStep == ArchiveLeftover \/ UnlinkLeftover \/ Rename \/ DrainRotated \/ OnRotated
                \/ ArchiveRotated \/ UnlinkRotated \/ RotationFails

Next ==
  \/ \E s \in Sessions : \/ HookStep(s) \/ Truncate(s) \/ Notify(s) \/ StaleTimer(s)
                         \/ RotateCheck(s) \/ PruneArchive(s)
  \/ Emit \/ Poke \/ Autosave \/ PlayerAction \/ RotationStep
  \/ Crash \/ Shutdown \/ Start \/ Ready

Spec == Init /\ [][Next]_vars

(***************************************************************************)
(* A handler that has begun runs on, and a queued file event is delivered  *)
(* however often timers come first: Node's event loop starves no callback. *)
(* Nothing makes a hook write, a timer find something to do, or a person   *)
(* restart a dead daemon.                                                  *)
(***************************************************************************)
Fairness ==
  /\ WF_vars(Emit) /\ WF_vars(Poke) /\ WF_vars(RotationStep) /\ WF_vars(Ready)
  /\ \A s \in Sessions : SF_vars(Notify(s))

FairSpec == Spec /\ Fairness

-----------------------------------------------------------------------------
(* Properties                                                              *)

TypeOK ==
  /\ live \in [Sessions -> Seq(LineId)] /\ liveFiles \subseteq Sessions
  /\ aside \in [Sessions -> Seq(LineId)] /\ asideFiles \subseteq Sessions
  /\ archive \in [Sessions -> SUBSET LineId]
  /\ fd \in [Sessions -> [Hooks -> FdStates]]
  /\ saveFile \in Saves /\ save \in Saves /\ dirty \in BOOLEAN
  /\ phase \in Phases /\ scan \subseteq Sessions /\ rot \in RotationSteps
  /\ offsets \in [Sessions -> Nat] /\ seen \in [Sessions -> Nat]
  /\ pending \in Seq(LineId) /\ poking \in BOOLEAN /\ current \in Sessions
  /\ written \in [Sessions -> 0..MaxLines]
  /\ event \in [Sessions -> [LineId -> Events]]
  /\ emits \in [Sessions -> [LineId -> Nat]]
  /\ late \in [Sessions -> SUBSET LineId] /\ cut \in [Sessions -> SUBSET LineId]
  /\ stale \in [Sessions -> BOOLEAN] /\ excuse \in [Sessions -> SUBSET Excuses]
  /\ restarts \in 0..MaxRestarts /\ truncations \in 0..MaxTruncations

\* Lines on disk that this process has yet to emit.
Unread(s) ==
  IF rot = "read" /\ current = s
    THEN LinesFrom(aside[s], offsets[s]) \cup LinesOf(live[s])
    ELSE LinesFrom(live[s], offsets[s])
           \cup (IF current = s THEN LinesOf(pending) ELSE {})

(***************************************************************************)
(* A daemon process emits no line twice, whatever is rotated, truncated,   *)
(* nested or written late meanwhile: the watcher's offsets and the file    *)
(* they are offsets into never disagree (watcher.ts, "consume() is         *)
(* idempotent").                                                           *)
(***************************************************************************)
EmittedOncePerRun == \A s \in Sessions, l \in LineId : emits[s][l] <= 1

(***************************************************************************)
(* After the startup replay the economy has absorbed every line it has     *)
(* read exactly once and no other, however many crashes, replays and       *)
(* rotations lie behind it, for every session nothing excuses              *)
(* (GameHost: "restarts skip exactly that prefix").                        *)
(***************************************************************************)
ExactlyOnce ==
  phase = "running" =>
    \A s \in Sessions : excuse[s] = {} =>
      \A l \in (1..written[s]) \ late[s] :
        save.applied[s][l] = IF l \in Unread(s) THEN 0 ELSE 1

(***************************************************************************)
(* A line is counted twice only where a poke re-entered the watcher in the *)
(* middle of a rotation's drain: no crash, lost save, failed call or       *)
(* truncation double-counts.                                               *)
(***************************************************************************)
DoubleCountNeedsNestedDrain ==
  \A s \in Sessions, l \in LineId :
    save.applied[s][l] > 1 => "nestedDrain" \in excuse[s]

(***************************************************************************)
(* Rotation moves lines and loses none: a line that was written to the     *)
(* live file is in the live, the renamed or the archive file, wherever in  *)
(* rotateOne the daemon failed or died (rotation.ts, "Left by a crash      *)
(* mid-rotation").                                                         *)
(***************************************************************************)
NothingLostOnDisk ==
  \A s \in Sessions :
    (1..written[s]) \ (late[s] \cup cut[s])
      \subseteq LinesOf(live[s]) \cup LinesOf(aside[s]) \cup archive[s]

\* The promise of EventLedger, kept by what the events directory and the save hold.
Ledger == INSTANCE EventLedger WITH
  logged <- [s \in Sessions |-> 1..written[s]],
  credited <- saveFile.applied,
  void <- {s \in Sessions : excuse[s] # {}}

(***************************************************************************)
(* The saved economy is a ledger of the logged lines: what it holds is     *)
(* never taken back and, for a session nothing excuses, never holds a line *)
(* twice or a line nobody logged.                                          *)
(***************************************************************************)
KeepsLedger == Ledger!Spec

(***************************************************************************)
(* Once the daemon stays up, every logged line is in the economy: no read, *)
(* drain or poke is left waiting for ever.                                 *)
(***************************************************************************)
EveryLineCounted ==
  <>[](phase # "down") =>
    \A s \in Sessions, l \in LineId :
      <>[](l <= written[s] =>
             l \in late[s] \/ excuse[s] # {} \/ save.applied[s][l] = 1)
=============================================================================
