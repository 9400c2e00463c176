-------------------------- MODULE EventPipelineInv --------------------------
(***************************************************************************)
(* The inductive invariants behind the safety properties of EventPipeline: *)
(* where a line can be, and that no line is in two of the places the       *)
(* watcher reads from (WatcherInv); what a rotation may take off the disk  *)
(* (ArchiveInv); and how far the economy and its cursor are behind what    *)
(* was read (CountInv), for at most once and for exactly once.             *)
(***************************************************************************)
EXTENDS EventPipeline

Injective(lines) == \A i, j \in 1..Len(lines) : lines[i] = lines[j] => i = j

\* What the next read of s's live file returns.
UnreadLive(s) == LinesOf(NewLines(live[s], offsets[s]))

\* Between the rename and the drain, offsets[s] is an offset into the renamed file.
UnreadLines(s) ==
  IF rot = "read" /\ current = s
    THEN LinesOf(live[s]) \cup LinesOf(NewLines(aside[s], offsets[s]))
    ELSE UnreadLive(s)

\* rotateOne makes no file-system call while lines wait to be emitted.
RotationIsQuiet ==
  /\ phase = "down" => pending = <<>> /\ ~poking /\ rot = "none"
  /\ rot \notin {"none", "drain"} => pending = <<>> /\ ~poking

\* Line ids are handed out in order and found only where they were written.
LinesAreLogged ==
  /\ \A s \in Sessions :
       /\ LinesOf(live[s]) \subseteq 1..written[s]
       /\ LinesOf(aside[s]) \subseteq 1..written[s]
       /\ \A l \in LineId : emits[s][l] > 0 => l <= written[s]
  /\ LinesOf(pending) \subseteq 1..written[current]

\* No file repeats a line, and no line is in both the live and the renamed file.
FilesAreDistinct ==
  /\ \A s \in Sessions :
       /\ Injective(live[s]) /\ Injective(aside[s])
       /\ LinesOf(live[s]) \cap LinesOf(aside[s]) = {}
  /\ Injective(pending)

\* A line is unread, pending or emitted, and only one of the three.
ReadOnce ==
  phase # "down" =>
    /\ \A s \in Sessions : \A l \in UnreadLines(s) : emits[s][l] = 0
    /\ \A l \in LinesOf(pending) : emits[current][l] = 0 /\ l \notin UnreadLines(current)

WatcherInv ==
  /\ TypeOK
  /\ RotationIsQuiet
  /\ LinesAreLogged
  /\ FilesAreDistinct
  /\ ReadOnce
  /\ EmittedOncePerRun

-----------------------------------------------------------------------------
(* NothingLostOnDisk *)

\* Where rotateOne is about to lose the renamed file, the archive has its lines.
Archived ==
  rot \in {"cleanup", "rename", "unlink"} =>
    LinesOf(aside[current]) \subseteq archive[current] \cup late[current] \cup cut[current]

\* A file that does not exist holds nothing, and no descriptor names it.
NoFileNoLines ==
  \A s \in Sessions :
    /\ s \notin liveFiles => live[s] = <<>> /\ \A h \in Hooks : fd[s][h] # "live"
    /\ s \notin asideFiles => aside[s] = <<>> /\ \A h \in Hooks : fd[s][h] # "aside"

ArchiveInv == NothingLostOnDisk /\ Archived /\ NoFileNoLines

-----------------------------------------------------------------------------
(* DoubleCountNeedsNestedDrain, KeepsLedger and ExactlyOnce *)

\* Lines of s that were read and wait to be emitted.
PendingOf(s) == IF current = s THEN pending ELSE <<>>

Reading(s) == rot = "read" /\ current = s
Draining(s) == rot = "drain" /\ current = s

\* What each phase of the daemon rules out; no late line is in the live file.
PhaseInv ==
  /\ phase = "down" => \A s \in Sessions : offsets[s] = 0 /\ seen[s] = 0
  /\ phase # "replay" => scan = {}
  /\ poking \/ rot # "none" => phase = "running"
  /\ \A s \in scan : offsets[s] = 0 /\ seen[s] = 0 /\ PendingOf(s) = <<>>
  /\ \A s \in Sessions : LinesOf(live[s]) \cap late[s] = {} /\ late[s] \subseteq 1..written[s]

\* The economy absorbs logged lines only, and the save lags behind it.
LagInv ==
  \A s \in Sessions, l \in LineId :
    /\ saveFile.applied[s][l] <= save.applied[s][l]
    /\ save.applied[s][l] > 0 => l <= written[s]

AppliedOnce(economy, s) == \A l \in LineId : economy.applied[s][l] <= 1

\* The cursor of a save covers every live line the economy has counted ...
SavedAtMostOnce(economy, s) ==
  /\ AppliedOnce(economy, s)
  /\ \A p \in 1..Len(live[s]) :
       economy.applied[s][live[s][p]] > 0 => p <= economy.cursors[s]

\* ... and a process that reads them again gives each its old ordinal, except that a
\* poke may bring lines forward: by the time all that was read is emitted, the cursor
\* is past them too.
CountedAtMostOnce(s) ==
  /\ seen[s] <= save.cursors[s]
  /\ offsets[s] <= seen[s] + Len(PendingOf(s))
  /\ Draining(s) => offsets[s] = 0
  /\ \A p \in 1..Len(live[s]) :
       save.applied[s][live[s][p]] > 0 =>
         p <= save.cursors[s] \/ p <= seen[s] + Len(PendingOf(s))
  /\ \A l \in UnreadLines(s) : save.applied[s][l] > 0 => s \in scan
  /\ \A k \in 1..Len(PendingOf(s)) : save.applied[s][PendingOf(s)[k]] > 0 =>
       phase = "replay" /\ seen[s] + k <= save.cursors[s]

AtMostOnce(s) ==
  "nestedDrain" \notin excuse[s] =>
    /\ SavedAtMostOnce(saveFile, s)
    /\ AppliedOnce(save, s)
    /\ phase # "down" => CountedAtMostOnce(s)

\* The lines of s that should be counted and are not, in this economy.
Uncounted(economy, s) == {l \in (1..written[s]) \ late[s] : economy.applied[s][l] = 0}

\* A save that a restart may trust misses only lines past its cursor.
SavedExactly(economy, s) ==
  /\ economy.cursors[s] <= Len(live[s])
  /\ Uncounted(economy, s) \subseteq LinesFrom(live[s], economy.cursors[s])

\* The economy in memory misses only lines that are still to come, and the cursor
\* skips none of them.
CountedExactly(s) ==
  /\ offsets[s] <= Len(IF Reading(s) THEN aside[s] ELSE live[s])
  /\ ~Draining(s) => seen[s] + Len(PendingOf(s)) <= offsets[s]
  /\ Uncounted(save, s) \subseteq UnreadLines(s) \cup LinesOf(PendingOf(s))
  /\ s \in scan => /\ save.cursors[s] <= Len(live[s])
                   /\ \A p \in 1..save.cursors[s] : save.applied[s][live[s][p]] > 0
  /\ s \notin scan => save.cursors[s] <= seen[s] + Len(PendingOf(s))
  /\ phase = "running" => save.cursors[s] <= seen[s]
  /\ \A k \in 1..Len(PendingOf(s)) :
       seen[s] + k <= save.cursors[s] => save.applied[s][PendingOf(s)[k]] > 0

Exactly(s) ==
  excuse[s] = {} =>
    /\ ~stale[s] => SavedExactly(saveFile, s)
    /\ phase = "down" => ~stale[s]
    /\ phase # "down" => CountedExactly(s)

CountInv ==
  /\ PhaseInv
  /\ LagInv
  /\ \A s \in Sessions : AtMostOnce(s) /\ Exactly(s)
=============================================================================
