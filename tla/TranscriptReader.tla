-------------------------- MODULE TranscriptReader --------------------------
(***************************************************************************)
(* The daemon's reader of token usage (daemon/transcripts.ts) for one      *)
(* session: it tails the session's transcript and logs what is new as a    *)
(* TokenUsage line of the session's own event file, which also tells a     *)
(* restarted daemon where to go on.                                        *)
(*                                                                         *)
(* A line of the transcript is the response it belongs to, since every     *)
(* line of a response repeats the same usage; offsets count lines.  An     *)
(* event is counted by the economy exactly once (EventPipeline), so what a *)
(* TokenUsage line holds is counted when it is written.                    *)
(***************************************************************************)
EXTENDS Integers, SequencesExt, FiniteSetsExt

CONSTANTS
  None,
  MaxResponses,     \* bound on the API responses of the session
  MaxLines,         \* bound on the lines of its transcript
  MaxEvents,        \* bound on the lines of the live event file
  MaxRestarts, MaxTruncations, MaxRotations

Responses == 1..MaxResponses

TrackedTranscripts == [offset : Nat, seen : SUBSET Responses, lastKey : Responses \cup {None},
                       countedWithoutOffset : BOOLEAN]

ASSUME ReaderAssumption ==
  /\ None \notin Nat /\ None \notin TrackedTranscripts
  /\ \A bound \in {MaxResponses, MaxLines, MaxEvents, MaxRestarts, MaxTruncations, MaxRotations} :
       bound \in Nat

VARIABLES
  responses,    \* how many responses the session has had
  transcript,   \* the complete lines of the transcript, each a response
  partial,      \* the response whose line is being written, or None
  log,          \* the live event file of the session
  emitted,      \* how many lines of it the watcher has emitted
  up,
  tracked,      \* TrackedTranscript, or None
  restarts, truncations, rotations,   \* bounded counters
  counts,       \* history: how often each response was logged as usage
  skipped,      \* history: responses that finishReplay or an unseen truncation has passed over
  archived,     \* history: a rotation has moved TokenUsage lines away
  truncated,    \* history: the transcript was truncated and no usage of the new one is logged yet
  forgot        \* history: a restart after a rotation did not find where to go on

transcriptVars == <<responses, transcript, partial>>
boundVars == <<restarts, truncations, rotations>>
history == <<counts, skipped, archived, truncated, forgot>>
vars == <<transcriptVars, log, emitted, up, tracked, boundVars, history>>

\* The lines of the event file that matter here: any hook's, which names the transcript,
\* a Stop's, which names it too, and TokenUsage with and without an offset.
HookLine == [event |-> "Hook"]
StopLine == [event |-> "Stop"]
OldUsage == [event |-> "OldUsage"]
Usage(offset, lastKey) == [event |-> "Usage", offset |-> offset, lastKey |-> lastKey]

LogLines == {HookLine, StopLine, OldUsage} \cup
            {Usage(offset, key) : offset \in 0..MaxLines, key \in Responses}

Fresh == [offset |-> 0, seen |-> {}, lastKey |-> None, countedWithoutOffset |-> FALSE]

\* setTranscriptPath
SetTranscriptPath(t) == IF t = None THEN Fresh ELSE t

\* Mutant: only the offset is resumed, and a response split across it is counted again.
ResumeOffsetOnly(t, line) ==
  IF t = None THEN None
  ELSE IF line.event = "OldUsage" THEN [t EXCEPT !.countedWithoutOffset = TRUE]
  ELSE [Fresh EXCEPT !.offset = line.offset]

\* resume
Resume(t, line) ==
  IF t = None THEN None
  ELSE IF line.event = "OldUsage" THEN [t EXCEPT !.countedWithoutOffset = TRUE]
  ELSE [offset |-> line.offset, seen |-> {line.lastKey} \ {None}, lastKey |-> line.lastKey,
        countedWithoutOffset |-> FALSE]

\* The event handler of the startup replay.
Replay(line, t) == IF line.event \in {"Hook", "Stop"} THEN SetTranscriptPath(t) ELSE Resume(t, line)

\* The events of the startup replay, one after the other.
Replayed(lines) ==
  LET replayed[n \in 0..Len(lines)] ==
        IF n = 0 THEN None ELSE Replay(lines[n], replayed[n - 1])
  IN  replayed[Len(lines)]

\* Mutant: the last line is left to be read.
FinishReplayBeforeLast(t) ==
  IF t # None /\ t.countedWithoutOffset
  THEN [t EXCEPT !.offset = Len(transcript) - 1, !.countedWithoutOffset = FALSE]
  ELSE t

\* finishReplay
FinishReplay(t) ==
  IF t # None /\ t.countedWithoutOffset
  THEN [t EXCEPT !.offset = Len(transcript) + (IF partial = None THEN 0 ELSE 1),
                 !.countedWithoutOffset = FALSE]
  ELSE t

-----------------------------------------------------------------------------
\* The size of the transcript, in which a line begun weighs like a whole one.
Size == Len(transcript) + (IF partial = None THEN 0 ELSE 1)

\* The session's side: Claude Code writes the lines of its responses, one after the other.
BeginLine(r) ==
  /\ Len(transcript) < MaxLines
  /\ partial = None
  /\ \/ r = responses /\ transcript # <<>>
     \/ r = responses + 1 /\ r <= MaxResponses
  /\ responses' = r
  /\ partial' = r
  /\ UNCHANGED <<transcript, log, emitted, up, tracked, boundVars, history>>

EndLine ==
  /\ partial # None
  /\ transcript' = Append(transcript, partial)
  /\ partial' = None
  /\ UNCHANGED <<responses, log, emitted, up, tracked, boundVars, history>>

Truncate ==
  /\ partial = None
  /\ truncations < MaxTruncations
  /\ truncations' = truncations + 1
  /\ transcript' = <<>>
  /\ truncated' = TRUE
  /\ UNCHANGED <<responses, partial, log, emitted, up, tracked, restarts, rotations,
                 counts, skipped, archived, forgot>>

Hook(line) ==
  /\ Len(log) < MaxEvents
  /\ log' = Append(log, line)
  /\ UNCHANGED <<transcriptVars, emitted, up, tracked, boundVars, history>>

-----------------------------------------------------------------------------
\* The keys of the lines that are new to t and not yet counted: parseUsageDeltas.
NewKeys(t) == {transcript[i] : i \in (t.offset + 1)..Len(transcript)} \ t.seen

Newest(keys) == CHOOSE k \in keys : \A other \in keys : other <= k

\* Mutant: an append that fails leaves the keys but not the offset to the next poll.
AppendFailsAdvances(t) == tracked' = [t EXCEPT !.offset = Len(transcript)] /\ UNCHANGED <<log, counts>>

\* Not recorded: the next poll counts this usage.
AppendFails(t) == tracked' = t /\ UNCHANGED <<log, counts>>

\* poll: what becomes of t, of the event file and of the counts.
Poll(t) ==
  \/ /\ Size < t.offset
     /\ tracked' = [t EXCEPT !.offset = 0, !.seen = {}]
     /\ UNCHANGED <<log, counts, skipped, truncated>>
  \/ /\ Size = t.offset \/ Len(transcript) <= t.offset   \* nothing new, or no whole line
     /\ Size >= t.offset
     /\ tracked' = t
     /\ UNCHANGED <<log, counts, skipped, truncated>>
  \/ /\ Len(transcript) > t.offset
     /\ IF NewKeys(t) = {}
        THEN /\ tracked' = [t EXCEPT !.offset = Len(transcript)]
             /\ UNCHANGED <<log, counts>>
        ELSE \/ LET lastKey == Newest(NewKeys(t)) IN
                /\ log' = Append(log, Usage(Len(transcript), lastKey))
                /\ counts' = [r \in Responses |-> counts[r] + IF r \in NewKeys(t) THEN 1 ELSE 0]
                /\ tracked' = [t EXCEPT !.offset = Len(transcript), !.seen = @ \cup NewKeys(t),
                                        !.lastKey = lastKey]
             \/ AppendFails(t)
     /\ skipped' = IF truncated THEN skipped \cup {transcript[i] : i \in 1..t.offset} ELSE skipped
     /\ truncated' = (truncated /\ counts' = counts)

\* The event handler of a daemon that is up: a Stop polls what its session has written.
Emit ==
  /\ up /\ emitted < Len(log)
  /\ emitted' = emitted + 1
  /\ LET line == log[emitted + 1]
         t == IF line.event \in {"Hook", "Stop"} THEN SetTranscriptPath(tracked) ELSE tracked
     IN IF line.event = "Stop" THEN Poll(t)
        ELSE tracked' = t /\ UNCHANGED <<log, counts, skipped, truncated>>
  /\ UNCHANGED <<transcriptVars, up, boundVars, archived, forgot>>

\* The stale timer polls a session that is working.
TimerPoll ==
  /\ up /\ tracked # None
  /\ Poll(tracked)
  /\ UNCHANGED <<transcriptVars, emitted, up, boundVars, archived, forgot>>

UsageLines == {i \in DOMAIN log : log[i].event \in {"Usage", "OldUsage"}}

\* The replay meets a TokenUsage line after one that names the transcript.
Resumable == \E i \in DOMAIN log, j \in UsageLines : i < j /\ log[i].event \in {"Hook", "Stop"}

\* The rotator drains the live event file and moves it away.
Rotate ==
  /\ up /\ log # <<>> /\ emitted = Len(log)
  /\ rotations < MaxRotations
  /\ rotations' = rotations + 1
  /\ log' = <<>> /\ emitted' = 0
  /\ archived' = (archived \/ UsageLines # {})
  /\ UNCHANGED <<transcriptVars, up, tracked, restarts, truncations, counts, skipped, truncated, forgot>>

Crash ==
  /\ up
  /\ up' = FALSE
  /\ tracked' = None
  /\ UNCHANGED <<transcriptVars, log, emitted, boundVars, history>>

\* startDaemon: the replay of the live event file and its end.
Start ==
  /\ ~up
  /\ restarts < MaxRestarts
  /\ restarts' = restarts + 1
  /\ up' = TRUE
  /\ emitted' = Len(log)
  /\ LET t == Replayed(log) IN
     /\ tracked' = FinishReplay(t)
     /\ skipped' = IF t # None /\ t.countedWithoutOffset THEN skipped \cup 1..responses ELSE skipped
     /\ truncated' = (truncated /\ ~(t # None /\ t.countedWithoutOffset))
  /\ forgot' = (forgot \/ (rotations > 0 /\ (archived \/ UsageLines # {}) /\ ~Resumable))
  /\ UNCHANGED <<transcriptVars, log, truncations, rotations, counts, archived>>

-----------------------------------------------------------------------------
\* An older version may have counted the first n of the responses it left.
Init ==
  /\ \E old \in 0..Min({1, MaxResponses, MaxLines}), n \in 0..1 :
       /\ n <= old
       /\ responses = old
       /\ transcript = [i \in 1..old |-> i]
       /\ counts = [r \in Responses |-> IF r <= n THEN 1 ELSE 0]
       /\ log = IF n = 0 THEN <<>> ELSE <<HookLine, OldUsage>>
  /\ partial = None
  /\ emitted = 0
  /\ up = FALSE /\ tracked = None
  /\ restarts = 0 /\ truncations = 0 /\ rotations = 0
  /\ skipped = {} /\ archived = FALSE /\ truncated = FALSE /\ forgot = FALSE

Next ==
  \/ \E r \in Responses : BeginLine(r)
  \/ EndLine \/ Truncate
  \/ \E line \in {HookLine, StopLine} : Hook(line)
  \/ Emit \/ TimerPoll \/ Rotate \/ Crash \/ Start

Spec == Init /\ [][Next]_vars

-----------------------------------------------------------------------------
TypeOK ==
  /\ responses \in 0..MaxResponses
  /\ transcript \in Seq(Responses) /\ partial \in Responses \cup {None}
  /\ log \in Seq(LogLines)
  /\ emitted \in 0..Len(log)
  /\ up \in BOOLEAN
  /\ tracked \in {None} \cup TrackedTranscripts
  /\ restarts \in 0..MaxRestarts /\ truncations \in 0..MaxTruncations /\ rotations \in 0..MaxRotations
  /\ counts \in [Responses -> Nat]
  /\ skipped \subseteq Responses
  /\ {archived, truncated, forgot} \subseteq BOOLEAN

(* transcripts.ts:119: usage is counted once and nothing twice, whatever   *)
(* restarts, rotations, truncations and failed appends come between the    *)
(* lines of a response and its polls.  Two cases are exempt, and are real: *)
(* a restart after a rotation begins the transcript again when the live    *)
(* event file has no TokenUsage line, or only ones before the first hook   *)
(* that names the transcript; and a response that was being written where  *)
(* finishReplay went on is not among the seen ones.                        *)
CountedOnce == ~forgot => \A r \in Responses \ skipped : counts[r] <= 1

(* The same without the first exemption: what the comment says of a        *)
(* restart.                                                                *)
NothingTwice == \A r \in Responses \ skipped : counts[r] <= 1

(* The offset never passes usage that no TokenUsage line holds, so a       *)
(* failed append, a line that is still being written and a restart lose    *)
(* nothing: every response before the offset is counted, or was passed     *)
(* over by finishReplay or by a truncation no poll could see.              *)
NothingPassedOver ==
  tracked # None /\ ~truncated =>
    \A i \in 1..Len(transcript) :
      i <= tracked.offset => counts[transcript[i]] >= 1 \/ transcript[i] \in skipped
=============================================================================
