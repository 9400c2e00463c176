------------------------ MODULE EventPipelineProofs ------------------------
(***************************************************************************)
(* Theorems about EventPipeline, for any sessions, hooks and bounds: types,*)
(* where lines are (WatcherInv), what stays on the disk (ArchiveInv), and  *)
(* what the economy has counted (CountInv): at most once, exactly once     *)
(* after a replay, and as EventLedger promises.                            *)
(***************************************************************************)
EXTENDS EventPipelineInv, SequenceTheorems, TLAPS

-----------------------------------------------------------------------------
(* Type correctness                                                        *)

\* What a read returns is a sequence of the file's lines.
LEMMA NewLinesType ==
  ASSUME NEW file \in Seq(LineId), NEW offset \in Nat
  PROVE  NewLines(file, offset) \in Seq(LineId)
<1>1. CASE offset > Len(file)
  BY <1>1 DEF NewLines
<1>2. CASE ~(offset > Len(file))
  <2>1. \A i \in (offset + 1)..Len(file) : file[i] \in LineId
    OBVIOUS
  <2>2. SubSeq(file, offset + 1, Len(file)) \in Seq(LineId)
    BY <2>1
  <2> QED BY <1>2, <2>2 DEF NewLines
<1> QED BY <1>1, <1>2

LEMMA LinesOfType ==
  ASSUME NEW lines \in Seq(LineId)
  PROVE  LinesOf(lines) \subseteq LineId
BY DEF LinesOf

LEMMA WriteSaveType ==
  ASSUME TypeOK, WriteSave, save' \in Saves
  PROVE  saveFile' \in Saves /\ dirty' \in BOOLEAN /\ stale' \in [Sessions -> BOOLEAN]
<1>1. CASE saveFile' = save' /\ dirty' = FALSE /\ stale' = [s \in Sessions |-> FALSE]
  BY <1>1
<1>2. CASE UNCHANGED <<saveFile, dirty, stale>>
  BY <1>2 DEF TypeOK
<1> QED BY <1>1, <1>2 DEF WriteSave

LEMMA FileResetType ==
  ASSUME TypeOK, NEW s \in Sessions, FileReset(s)
  PROVE  /\ seen' \in [Sessions -> Nat] /\ save' \in Saves /\ saveFile' \in Saves
         /\ dirty' \in BOOLEAN /\ stale' \in [Sessions -> BOOLEAN]
<1>1. seen' \in [Sessions -> Nat]
  BY DEF TypeOK, FileReset
<1>2. save' \in Saves
  BY DEF TypeOK, FileReset, Saves
<1>3. saveFile' \in Saves /\ dirty' \in BOOLEAN /\ stale' \in [Sessions -> BOOLEAN]
  BY <1>2, WriteSaveType DEF FileReset
<1> QED BY <1>1, <1>2, <1>3

LEMMA ConsumeType ==
  ASSUME TypeOK, NEW s \in Sessions, Consume(s)
  PROVE  /\ offsets' \in [Sessions -> Nat] /\ pending' \in Seq(LineId) /\ current' \in Sessions
         /\ seen' \in [Sessions -> Nat] /\ save' \in Saves /\ saveFile' \in Saves
         /\ dirty' \in BOOLEAN /\ stale' \in [Sessions -> BOOLEAN]
<1>1. live[s] \in Seq(LineId) /\ offsets[s] \in Nat
  BY DEF TypeOK
<1>2. NewLines(live[s], offsets[s]) \in Seq(LineId)
  BY <1>1, NewLinesType
<1>3. Len(live[s]) \in Nat
  BY <1>1
<1>4. pending' \in Seq(LineId)
  BY <1>2 DEF Consume, TypeOK
<1>5. offsets' \in [Sessions -> Nat] /\ current' \in Sessions
  BY <1>3 DEF Consume, TypeOK
<1>6. CASE FileReset(s)
  BY <1>4, <1>5, <1>6, FileResetType
<1>7. CASE UNCHANGED hostVars
  BY <1>4, <1>5, <1>7 DEF hostVars, TypeOK
<1> QED BY <1>6, <1>7 DEF Consume

\* The next line of a session, while it may still log one.
LEMMA LogType ==
  ASSUME TypeOK, NEW s \in Sessions, NEW e \in Events, Log(s, e)
  PROVE  /\ written[s] + 1 \in LineId
         /\ written' \in [Sessions -> 0..MaxLines]
         /\ event' \in [Sessions -> [LineId -> Events]]
<1>1. written[s] \in 0..MaxLines /\ written[s] < MaxLines
  BY DEF TypeOK, Log
<1>2. written[s] + 1 \in LineId /\ written[s] + 1 \in 0..MaxLines
  BY <1>1, BoundsAssumption DEF LineId
<1> QED BY <1>2 DEF TypeOK, Log

LEMMA PollAppendsType ==
  ASSUME TypeOK, NEW s \in Sessions, PollAppends(s)
  PROVE  /\ live' \in [Sessions -> Seq(LineId)] /\ liveFiles' \subseteq Sessions
         /\ written' \in [Sessions -> 0..MaxLines]
         /\ event' \in [Sessions -> [LineId -> Events]]
         /\ poking' \in BOOLEAN
<1>1. "TokenUsage" \in Events
  BY DEF Events
<1>2. /\ written[s] + 1 \in LineId
      /\ written' \in [Sessions -> 0..MaxLines]
      /\ event' \in [Sessions -> [LineId -> Events]]
  BY <1>1, LogType DEF PollAppends
<1>3. Append(live[s], written[s] + 1) \in Seq(LineId)
  BY <1>2 DEF TypeOK
<1>4. live' \in [Sessions -> Seq(LineId)]
  BY <1>3 DEF PollAppends, TypeOK
<1> QED BY <1>2, <1>4 DEF PollAppends, TypeOK

LEMMA HandleEnvelopeType ==
  ASSUME TypeOK, NEW s \in Sessions, NEW l \in LineId, HandleEnvelope(s, l)
  PROVE  /\ seen' \in [Sessions -> Nat] /\ save' \in Saves /\ saveFile' \in Saves
         /\ stale' \in [Sessions -> BOOLEAN]
<1>1. seen[s] + 1 \in Nat
  BY DEF TypeOK
<1>2. seen' \in [Sessions -> Nat]
  BY <1>1 DEF HandleEnvelope, TypeOK
<1>3. CASE UNCHANGED save
  BY <1>2, <1>3 DEF HandleEnvelope, TypeOK
<1>4. CASE save' = [save EXCEPT !.cursors[s] = seen[s] + 1, !.applied[s][l] = @ + 1]
  <2>1. save \in Saves /\ save.applied \in [Sessions -> [LineId -> Nat]]
                       /\ save.cursors \in [Sessions -> Nat]
    BY DEF TypeOK, Saves
  <2>2. save' = [applied |-> [save.applied EXCEPT ![s][l] = @ + 1],
                 cursors |-> [save.cursors EXCEPT ![s] = seen[s] + 1]]
    BY <1>4, <2>1 DEF Saves
  <2>3. save' \in Saves
    BY <1>1, <2>1, <2>2 DEF Saves
  <2> QED BY <1>2, <1>4, <2>3 DEF HandleEnvelope, TypeOK
<1> QED BY <1>3, <1>4 DEF HandleEnvelope

LEMMA TypeInit == Init => TypeOK
<1> SUFFICES ASSUME Init PROVE TypeOK
  OBVIOUS
<1>1. <<>> \in Seq(LineId)
  OBVIOUS
<1>2. FreshSave \in Saves
  BY DEF FreshSave, Saves
<1>3. /\ live \in [Sessions -> Seq(LineId)] /\ liveFiles \subseteq Sessions
      /\ aside \in [Sessions -> Seq(LineId)] /\ asideFiles \subseteq Sessions
      /\ archive \in [Sessions -> SUBSET LineId]
      /\ fd \in [Sessions -> [Hooks -> FdStates]]
  BY <1>1 DEF Init, FdStates
<1>4. /\ saveFile \in Saves /\ save \in Saves /\ dirty \in BOOLEAN
      /\ phase \in Phases /\ scan \subseteq Sessions /\ rot \in RotationSteps
      /\ offsets \in [Sessions -> Nat] /\ seen \in [Sessions -> Nat]
      /\ pending \in Seq(LineId) /\ poking \in BOOLEAN /\ current \in Sessions
  BY <1>1, <1>2 DEF Init, Phases, RotationSteps
<1>5. /\ written \in [Sessions -> 0..MaxLines]
      /\ event \in [Sessions -> [LineId -> Events]]
      /\ emits \in [Sessions -> [LineId -> Nat]]
  BY BoundsAssumption DEF Init, Events
<1>6. /\ late \in [Sessions -> SUBSET LineId] /\ cut \in [Sessions -> SUBSET LineId]
      /\ stale \in [Sessions -> BOOLEAN] /\ excuse \in [Sessions -> SUBSET Excuses]
      /\ restarts \in 0..MaxRestarts /\ truncations \in 0..MaxTruncations
  BY BoundsAssumption DEF Init
<1> QED BY <1>3, <1>4, <1>5, <1>6 DEF TypeOK

LEMMA RotationType == TypeOK /\ RotationStep => TypeOK'
<1> SUFFICES ASSUME TypeOK, RotationStep PROVE TypeOK'
  OBVIOUS
<1> USE DEF TypeOK, RotationFrame, diskVars, hostVars, logVars, processVars, RotationSteps
<1>1. ASSUME NEW from \in RotationSteps, NEW to \in RotationSteps, AppendToArchive(from, to)
      PROVE  TypeOK'
  BY <1>1 DEF AppendToArchive, LinesOf
<1>2. ASSUME NEW from \in RotationSteps, NEW to \in RotationSteps, UnlinkAside(from, to)
      PROVE  TypeOK'
  <2>1. fd' \in [Sessions -> [Hooks -> FdStates]]
    BY <1>2 DEF UnlinkAside, Redirect, FdStates
  <2>2. aside' \in [Sessions -> Seq(LineId)]
    BY <1>2 DEF UnlinkAside
  <2> QED BY <1>2, <2>1, <2>2 DEF UnlinkAside
<1>3. CASE ArchiveLeftover \/ ArchiveRotated
  BY <1>1, <1>3 DEF ArchiveLeftover, ArchiveRotated
<1>4. CASE UnlinkLeftover \/ UnlinkRotated
  BY <1>2, <1>4 DEF UnlinkLeftover, UnlinkRotated
<1>5. CASE Rename
  <2>1. fd' \in [Sessions -> [Hooks -> FdStates]]
    BY <1>5 DEF Rename, Redirect, FdStates
  <2>2. live' \in [Sessions -> Seq(LineId)] /\ aside' \in [Sessions -> Seq(LineId)]
    BY <1>5 DEF Rename
  <2> QED BY <1>5, <2>1, <2>2 DEF Rename
<1>6. CASE DrainRotated
  <2>1. NewLines(aside[current], offsets[current]) \in Seq(LineId)
    BY NewLinesType
  <2> QED BY <1>6, <2>1 DEF DrainRotated
<1>7. CASE OnRotated
  BY <1>7, FileResetType DEF OnRotated
<1>8. CASE RotationFails
  BY <1>8 DEF RotationFails, Excuses
<1> QED BY <1>3, <1>4, <1>5, <1>6, <1>7, <1>8 DEF RotationStep

LEMMA TypeStep == TypeOK /\ [Next]_vars => TypeOK'
<1> SUFFICES ASSUME TypeOK, [Next]_vars PROVE TypeOK'
  OBVIOUS
<1> USE DEF TypeOK
<1>1. ASSUME NEW s \in Sessions, NEW h \in Hooks, HookOpen(s, h) PROVE TypeOK'
  BY <1>1 DEF HookOpen, FdStates, logVars, hostVars, watcherVars, processVars
<1>2. ASSUME NEW s \in Sessions, NEW h \in Hooks, NEW e \in HookEvents, HookWrite(s, h, e)
      PROVE  TypeOK'
  <2>1. e \in Events
    BY DEF HookEvents
  <2>2. /\ written[s] + 1 \in LineId
        /\ written' \in [Sessions -> 0..MaxLines]
        /\ event' \in [Sessions -> [LineId -> Events]]
    BY <1>2, <2>1, LogType DEF HookWrite
  <2>3. fd' \in [Sessions -> [Hooks -> FdStates]]
    BY <1>2 DEF HookWrite, FdStates
  <2>4. /\ Append(live[s], written[s] + 1) \in Seq(LineId)
        /\ Append(aside[s], written[s] + 1) \in Seq(LineId)
    BY <2>2
  <2>5. live' \in [Sessions -> Seq(LineId)]
    BY <1>2, <2>4 DEF HookWrite
  <2>6. aside' \in [Sessions -> Seq(LineId)]
    BY <1>2, <2>4 DEF HookWrite
  <2>7. late' \in [Sessions -> SUBSET LineId]
    <3>1. CASE late' = late
      BY <3>1
    <3>2. CASE late' = [late EXCEPT ![s] = @ \cup {written[s] + 1}]
      BY <2>2, <3>2
    <3> QED BY <1>2, <3>1, <3>2 DEF HookWrite
  <2> QED BY <1>2, <2>2, <2>3, <2>5, <2>6, <2>7 DEF HookWrite, hostVars, watcherVars, processVars
<1>3. ASSUME NEW s \in Sessions, Truncate(s) PROVE TypeOK'
  <2>1. LinesOf(live[s]) \subseteq LineId
    BY LinesOfType
  <2>2. live' \in [Sessions -> Seq(LineId)] /\ cut' \in [Sessions -> SUBSET LineId]
    BY <1>3, <2>1 DEF Truncate
  <2>3. truncations' \in 0..MaxTruncations /\ excuse' \in [Sessions -> SUBSET Excuses]
    BY <1>3, BoundsAssumption DEF Truncate, Excuses
  <2> QED BY <1>3, <2>2, <2>3 DEF Truncate, hostVars, watcherVars, processVars
<1>4. ASSUME NEW s \in Sessions, Notify(s) PROVE TypeOK'
  BY <1>4, ConsumeType DEF Notify, diskVars, logVars
<1>5. ASSUME NEW s \in Sessions, StaleTimer(s) PROVE TypeOK'
  <2>1. dirty' \in BOOLEAN
    BY <1>5 DEF StaleTimer, TypeOK
  <2>2. CASE PollAppends(s) /\ current' = s
    BY <1>5, <2>1, <2>2, PollAppendsType DEF StaleTimer, processVars
  <2>3. CASE UNCHANGED <<live, liveFiles, written, event, poking, current>>
    BY <1>5, <2>1, <2>3 DEF StaleTimer, processVars
  <2> QED BY <1>5, <2>2, <2>3 DEF StaleTimer
<1>6. ASSUME NEW s \in Sessions, RotateCheck(s) PROVE TypeOK'
  BY <1>6 DEF RotateCheck, RotationSteps, RotationFrame, diskVars, hostVars, logVars, processVars
<1>7. ASSUME NEW s \in Sessions, PruneArchive(s) PROVE TypeOK'
  BY <1>7 DEF PruneArchive, hostVars, watcherVars, processVars
<1>8. CASE Emit
  <2>1. Head(pending) \in LineId /\ Tail(pending) \in Seq(LineId)
    BY <1>8 DEF Emit
  <2>2. pending' \in Seq(LineId)
    BY <1>8, <2>1 DEF Emit
  <2>3. emits' \in [Sessions -> [LineId -> Nat]]
    <3>1. emits' = [emits EXCEPT ![current][Head(pending)] = @ + 1]
      BY <1>8 DEF Emit
    <3> QED BY <2>1, <3>1
  <2>4. /\ seen' \in [Sessions -> Nat] /\ save' \in Saves /\ saveFile' \in Saves
        /\ stale' \in [Sessions -> BOOLEAN]
    BY <1>8, <2>1, HandleEnvelopeType DEF Emit
  <2>5. /\ live' \in [Sessions -> Seq(LineId)] /\ liveFiles' \subseteq Sessions
        /\ written' \in [Sessions -> 0..MaxLines]
        /\ event' \in [Sessions -> [LineId -> Events]]
        /\ poking' \in BOOLEAN
    <3>1. CASE UNCHANGED <<live, liveFiles, written, event, poking>>
      BY <3>1
    <3>2. CASE PollAppends(current)
      BY <3>2, PollAppendsType
    <3> QED BY <1>8, <3>1, <3>2 DEF Emit
  <2>6. dirty' \in BOOLEAN
    BY <1>8 DEF Emit
  <2> QED BY <1>8, <2>2, <2>3, <2>4, <2>5, <2>6 DEF Emit, processVars
<1>9. CASE Poke
  BY <1>9, ConsumeType DEF Poke, Excuses, diskVars, logVars, processVars
<1>10. CASE Autosave
  BY <1>10, WriteSaveType DEF Autosave, HostFrame, diskVars, logVars, watcherVars, processVars
<1>11. CASE PlayerAction
  BY <1>11 DEF PlayerAction, HostFrame, diskVars, logVars, watcherVars, processVars
<1>12. CASE RotationStep
  BY <1>12, RotationType
<1>13. CASE Crash
  <2>1. excuse' \in [Sessions -> SUBSET Excuses]
    BY <1>13 DEF Crash, Excuses
  <2>2. restarts' \in 0..MaxRestarts
    BY <1>13, BoundsAssumption DEF Crash, Die
  <2>3. pending' \in Seq(LineId)
    BY <1>13 DEF Crash, Die
  <2> QED BY <1>13, <2>1, <2>2, <2>3
          DEF Crash, Die, Phases, RotationSteps, diskVars, logVars
<1>14. CASE Shutdown
  <2>1. /\ save' \in Saves /\ saveFile' \in Saves
        /\ dirty' \in BOOLEAN /\ stale' \in [Sessions -> BOOLEAN]
    <3>1. CASE dirty
      BY <1>14, <3>1, WriteSaveType DEF Shutdown
    <3>2. CASE ~dirty
      BY <1>14, <3>2 DEF Shutdown
    <3> QED BY <3>1, <3>2
  <2>2. excuse' \in [Sessions -> SUBSET Excuses]
    BY <1>14 DEF Shutdown, Excuses
  <2>3. restarts' \in 0..MaxRestarts
    BY <1>14, BoundsAssumption DEF Shutdown, Die
  <2>4. pending' \in Seq(LineId)
    BY <1>14 DEF Shutdown, Die
  <2> QED BY <1>14, <2>1, <2>2, <2>3, <2>4
          DEF Shutdown, Die, Phases, RotationSteps, diskVars, logVars
<1>15. CASE Start
  BY <1>15 DEF Start, Phases, Saves, diskVars, logVars, watcherVars
<1>16. CASE Ready
  BY <1>16 DEF Ready, Phases, diskVars, logVars, watcherVars
<1>17. CASE UNCHANGED vars
  BY <1>17 DEF vars, diskVars, logVars, hostVars, watcherVars, processVars
<1> QED BY <1>1, <1>2, <1>3, <1>4, <1>5, <1>6, <1>7, <1>8, <1>9, <1>10, <1>11, <1>12,
           <1>13, <1>14, <1>15, <1>16, <1>17 DEF Next, HookStep

\* Every variable keeps its type, for any sessions, hooks and bounds.
THEOREM TypeCorrect == Spec => []TypeOK
BY TypeInit, TypeStep, PTL DEF Spec

-----------------------------------------------------------------------------
(* Sequences of lines                                                      *)

LEMMA LinesOfEmpty == LinesOf(<<>>) = {} /\ Injective(<<>>)
BY DEF LinesOf, Injective

LEMMA AppendLines ==
  ASSUME NEW lines \in Seq(LineId), NEW l \in LineId
  PROVE  /\ LinesOf(Append(lines, l)) = LinesOf(lines) \cup {l}
         /\ Injective(lines) /\ l \notin LinesOf(lines) => Injective(Append(lines, l))
<1>1. /\ Len(Append(lines, l)) = Len(lines) + 1
      /\ \A i \in 1..Len(lines) : Append(lines, l)[i] = lines[i]
      /\ Append(lines, l)[Len(lines) + 1] = l
  OBVIOUS
<1>2. Len(lines) \in Nat
  OBVIOUS
<1>3. \A x : x \in LinesOf(Append(lines, l)) => x \in LinesOf(lines) \cup {l}
  BY <1>1, <1>2 DEF LinesOf
<1>4. \A x : x \in LinesOf(lines) \cup {l} => x \in LinesOf(Append(lines, l))
  BY <1>1, <1>2 DEF LinesOf
<1>5. ASSUME Injective(lines), l \notin LinesOf(lines) PROVE Injective(Append(lines, l))
  BY <1>1, <1>2, <1>5 DEF Injective, LinesOf
<1> QED BY <1>3, <1>4, <1>5

LEMMA ConcatLines ==
  ASSUME NEW a \in Seq(LineId), NEW b \in Seq(LineId)
  PROVE  /\ LinesOf(a \o b) = LinesOf(a) \cup LinesOf(b)
         /\ Injective(a) /\ Injective(b) /\ LinesOf(a) \cap LinesOf(b) = {}
              => Injective(a \o b)
<1>1. /\ a \o b \in Seq(LineId) /\ Len(a \o b) = Len(a) + Len(b)
      /\ \A i \in 1..(Len(a) + Len(b)) :
           (a \o b)[i] = IF i <= Len(a) THEN a[i] ELSE b[i - Len(a)]
  OBVIOUS
<1>2. Len(a) \in Nat /\ Len(b) \in Nat
  OBVIOUS
<1>3. ASSUME NEW x \in LinesOf(a \o b) PROVE x \in LinesOf(a) \cup LinesOf(b)
  <2>1. PICK i \in 1..(Len(a) + Len(b)) : x = (a \o b)[i]
    BY <1>1, <1>3 DEF LinesOf
  <2>2. CASE i <= Len(a)
    BY <1>1, <1>2, <2>1, <2>2 DEF LinesOf
  <2>3. CASE ~(i <= Len(a))
    <3>1. i - Len(a) \in 1..Len(b)
      BY <1>2, <2>3
    <3> QED BY <1>1, <2>1, <2>3, <3>1 DEF LinesOf
  <2> QED BY <2>2, <2>3
<1>4. ASSUME NEW x \in LinesOf(a) PROVE x \in LinesOf(a \o b)
  BY <1>1, <1>2, <1>4 DEF LinesOf
<1>5. ASSUME NEW x \in LinesOf(b) PROVE x \in LinesOf(a \o b)
  <2>1. PICK i \in 1..Len(b) : x = b[i]
    BY <1>5 DEF LinesOf
  <2>2. /\ i + Len(a) \in 1..(Len(a) + Len(b)) /\ ~(i + Len(a) <= Len(a))
        /\ (i + Len(a)) - Len(a) = i
    BY <1>2
  <2>3. (a \o b)[i + Len(a)] = x
    BY <1>1, <2>1, <2>2
  <2> QED BY <1>1, <2>2, <2>3 DEF LinesOf
<1>6. ASSUME Injective(a), Injective(b), LinesOf(a) \cap LinesOf(b) = {},
             NEW i \in 1..Len(a \o b), NEW j \in 1..Len(a \o b), (a \o b)[i] = (a \o b)[j]
      PROVE  i = j
  <2>1. CASE i <= Len(a) /\ j <= Len(a)
    BY <1>1, <1>2, <1>6, <2>1 DEF Injective
  <2>2. CASE ~(i <= Len(a)) /\ ~(j <= Len(a))
    <3>1. i - Len(a) \in 1..Len(b) /\ j - Len(a) \in 1..Len(b)
      BY <1>1, <1>2, <2>2
    <3>2. b[i - Len(a)] = b[j - Len(a)]
      BY <1>1, <1>6, <2>2
    <3>3. i - Len(a) = j - Len(a)
      BY <1>6, <3>1, <3>2 DEF Injective
    <3> QED BY <1>2, <3>3
  <2>3. CASE i <= Len(a) /\ ~(j <= Len(a))
    <3>1. i \in 1..Len(a) /\ j - Len(a) \in 1..Len(b) /\ a[i] = b[j - Len(a)]
      BY <1>1, <1>2, <1>6, <2>3
    <3> QED BY <1>6, <3>1 DEF LinesOf
  <2>4. CASE ~(i <= Len(a)) /\ j <= Len(a)
    <3>1. j \in 1..Len(a) /\ i - Len(a) \in 1..Len(b) /\ a[j] = b[i - Len(a)]
      BY <1>1, <1>2, <1>6, <2>4
    <3> QED BY <1>6, <3>1 DEF LinesOf
  <2> QED BY <2>1, <2>2, <2>3, <2>4
<1> QED BY <1>3, <1>4, <1>5, <1>6 DEF Injective

LEMMA PendingLines ==
  ASSUME NEW lines \in Seq(LineId), lines # <<>>, Injective(lines)
  PROVE  /\ Head(lines) \in LinesOf(lines)
         /\ LinesOf(Tail(lines)) \subseteq LinesOf(lines) \ {Head(lines)}
         /\ Injective(Tail(lines))
<1>1. /\ Len(lines) \in Nat /\ Len(lines) > 0 /\ Head(lines) = lines[1]
      /\ Len(Tail(lines)) = Len(lines) - 1
      /\ \A i \in 1..(Len(lines) - 1) : Tail(lines)[i] = lines[i + 1]
  OBVIOUS
<1> QED BY <1>1 DEF LinesOf, Injective

\* A read returns lines of the file, each of them once.
LEMMA NewLinesOfFile ==
  ASSUME NEW file \in Seq(LineId), NEW offset \in Nat
  PROVE  /\ LinesOf(NewLines(file, offset)) \subseteq LinesOf(file)
         /\ Injective(file) => Injective(NewLines(file, offset))
         /\ offset <= Len(file) => LinesOf(NewLines(file, offset)) = LinesFrom(file, offset)
<1>1. CASE offset > Len(file)
  BY <1>1 DEF NewLines
<1>2. CASE ~(offset > Len(file))
  <2>1. Len(file) \in Nat
    OBVIOUS
  <2>2. /\ Len(SubSeq(file, offset + 1, Len(file))) = Len(file) - offset
        /\ \A i \in 1..(Len(file) - offset) :
             SubSeq(file, offset + 1, Len(file))[i] = file[i + offset]
    BY <1>2, <2>1
  <2>3. \A i \in 1..(Len(file) - offset) : i + offset \in 1..Len(file)
    BY <1>2, <2>1
  <2>4. /\ LinesOf(NewLines(file, offset)) \subseteq LinesOf(file)
        /\ Injective(file) => Injective(NewLines(file, offset))
    BY <1>2, <2>1, <2>2, <2>3 DEF NewLines, LinesOf, Injective
  <2>5. ASSUME NEW x \in LinesOf(NewLines(file, offset)) PROVE x \in LinesFrom(file, offset)
    <3>1. PICK i \in 1..(Len(file) - offset) : x = file[i + offset]
      BY <1>2, <2>2, <2>5 DEF NewLines, LinesOf
    <3>2. i + offset \in (offset + 1)..Len(file)
      BY <2>1, <3>1
    <3> QED BY <3>1, <3>2 DEF LinesFrom
  <2>6. ASSUME NEW x \in LinesFrom(file, offset) PROVE x \in LinesOf(NewLines(file, offset))
    <3>1. PICK i \in (offset + 1)..Len(file) : x = file[i]
      BY <2>6 DEF LinesFrom
    <3>2. i - offset \in 1..(Len(file) - offset) /\ (i - offset) + offset = i
      BY <2>1, <3>1
    <3>3. SubSeq(file, offset + 1, Len(file))[i - offset] = x
      BY <2>2, <3>1, <3>2
    <3> QED BY <1>2, <2>2, <3>2, <3>3 DEF NewLines, LinesOf
  <2> QED BY <2>4, <2>5, <2>6
<1> QED BY <1>1, <1>2

LEMMA NothingNew ==
  ASSUME NEW file \in Seq(LineId)
  PROVE  LinesOf(NewLines(file, Len(file))) = {}
BY DEF NewLines, LinesOf

LEMMA NewLinesOfEmpty ==
  ASSUME NEW offset \in Nat
  PROVE  LinesOf(NewLines(<<>>, offset)) = {}
BY DEF NewLines, LinesOf

\* An append adds at most the appended line to what the next read returns.
LEMMA AppendUnread ==
  ASSUME NEW file \in Seq(LineId), NEW offset \in Nat, NEW l \in LineId
  PROVE  LinesOf(NewLines(Append(file, l), offset))
           \subseteq LinesOf(NewLines(file, offset)) \cup {l}
<1> DEFINE longer == Append(file, l)
<1>1. /\ longer \in Seq(LineId) /\ Len(longer) = Len(file) + 1 /\ Len(file) \in Nat
      /\ \A i \in 1..Len(file) : longer[i] = file[i]
      /\ longer[Len(file) + 1] = l
  OBVIOUS
<1>2. CASE offset > Len(file)
  <2>1. NewLines(file, offset) = file
    BY <1>2 DEF NewLines
  <2>2. LinesOf(NewLines(longer, offset)) \subseteq LinesOf(longer)
    BY <1>1, NewLinesOfFile
  <2> QED BY <2>1, <2>2, AppendLines
<1>3. CASE offset <= Len(file)
  <2> HIDE DEF longer
  <2>0. offset <= Len(longer)
    BY <1>1, <1>3
  <2>1. /\ LinesOf(NewLines(longer, offset)) = LinesFrom(longer, offset)
        /\ LinesOf(NewLines(file, offset)) = LinesFrom(file, offset)
    BY <1>1, <1>3, <2>0, NewLinesOfFile
  <2>2. ASSUME NEW i \in (offset + 1)..Len(longer)
        PROVE  longer[i] \in LinesFrom(file, offset) \cup {l}
    BY <1>1, <2>2 DEF LinesFrom
  <2>3. LinesFrom(longer, offset) \subseteq LinesFrom(file, offset) \cup {l}
    <3> SUFFICES ASSUME NEW x \in LinesFrom(longer, offset)
                 PROVE  x \in LinesFrom(file, offset) \cup {l}
      OBVIOUS
    <3>1. PICK i \in (offset + 1)..Len(longer) : x = longer[i]
      BY DEF LinesFrom
    <3> QED BY <2>2, <3>1
  <2> QED BY <2>1, <2>3 DEF longer
<1> QED BY <1>1, <1>2, <1>3

-----------------------------------------------------------------------------
(* The watcher emits no line twice                                         *)

\* What WatcherInv speaks of.
watched == <<live, aside, offsets, pending, poking, current, rot, phase, emits, written>>

LEMMA WatcherInit == Init => WatcherInv
<1> SUFFICES ASSUME Init PROVE WatcherInv
  OBVIOUS
<1>1. TypeOK
  BY TypeInit
<1> QED BY <1>1, LinesOfEmpty
        DEF Init, WatcherInv, RotationIsQuiet, LinesAreLogged, FilesAreDistinct, ReadOnce,
            EmittedOncePerRun

LEMMA WatcherStutter ==
  ASSUME WatcherInv, TypeOK', UNCHANGED watched
  PROVE  WatcherInv'
BY DEF watched, WatcherInv, RotationIsQuiet, LinesAreLogged, FilesAreDistinct, ReadOnce,
       EmittedOncePerRun, UnreadLines, UnreadLive

\* The next line of s is in no file, not pending and not emitted.
LEMMA NextLineIsNew ==
  ASSUME WatcherInv, NEW s \in Sessions, written[s] + 1 \in LineId
  PROVE  /\ written[s] + 1 \notin LinesOf(live[s]) /\ written[s] + 1 \notin LinesOf(aside[s])
         /\ current = s => written[s] + 1 \notin LinesOf(pending)
         /\ emits[s][written[s] + 1] = 0
<1> DEFINE l == written[s] + 1
<1>1. TypeOK /\ LinesAreLogged /\ l \in LineId
  BY DEF WatcherInv
<1>2. written[s] \in Nat /\ emits[s][l] \in Nat
  BY <1>1, BoundsAssumption DEF TypeOK
<1>3. l \notin 1..written[s] /\ ~(l <= written[s])
  BY <1>2
<1>4. emits[s][l] > 0 => l <= written[s]
  BY <1>1 DEF LinesAreLogged
<1>5. /\ LinesOf(live[s]) \subseteq 1..written[s] /\ LinesOf(aside[s]) \subseteq 1..written[s]
      /\ current = s => LinesOf(pending) \subseteq 1..written[s]
  BY <1>1 DEF LinesAreLogged
<1> QED BY <1>2, <1>3, <1>4, <1>5

\* Logging a line keeps every earlier one logged.
LEMMA WrittenGrows ==
  ASSUME WatcherInv, NEW s \in Sessions, written[s] + 1 \in LineId,
         written' = [written EXCEPT ![s] = @ + 1]
  PROVE  /\ \A t \in Sessions : 1..written[t] \subseteq 1..written'[t]
         /\ \A t \in Sessions, k \in LineId : emits[t][k] > 0 => k <= written'[t]
         /\ written[s] + 1 \in 1..written'[s]
<1>1. TypeOK /\ LinesAreLogged
  BY DEF WatcherInv
<1>2. \A t \in Sessions : written[t] \in Nat
  BY <1>1, BoundsAssumption DEF TypeOK
<1>3. /\ written'[s] = written[s] + 1
      /\ \A t \in Sessions : written'[t] \in Nat /\ written[t] <= written'[t]
  <2>1. /\ written'[s] = written[s] + 1
        /\ \A t \in Sessions : t # s => written'[t] = written[t]
    BY <1>1 DEF TypeOK
  <2> QED BY <1>2, <2>1
<1>4. \A t \in Sessions : 1..written[t] \subseteq 1..written'[t]
  BY <1>2, <1>3
<1>5. ASSUME NEW t \in Sessions, NEW k \in LineId, emits[t][k] > 0 PROVE k <= written'[t]
  <2>1. k <= written[t] /\ k \in Nat
    BY <1>1, <1>5 DEF LinesAreLogged, LineId
  <2> QED BY <1>2, <1>3, <2>1
<1> QED BY <1>2, <1>3, <1>4, <1>5

\* A new line at the end of s's live file, whatever happens to the pending lines.
LEMMA AppendLiveFiles ==
  ASSUME WatcherInv, NEW s \in Sessions, written[s] + 1 \in LineId,
         live' = [live EXCEPT ![s] = Append(@, written[s] + 1)],
         written' = [written EXCEPT ![s] = @ + 1], aside' = aside
  PROVE  \A t \in Sessions : /\ LinesOf(live'[t]) \subseteq 1..written'[t]
                            /\ LinesOf(aside'[t]) \subseteq 1..written'[t]
                            /\ Injective(live'[t]) /\ Injective(aside'[t])
                            /\ LinesOf(live'[t]) \cap LinesOf(aside'[t]) = {}
<1> DEFINE l == written[s] + 1
<1>1. TypeOK /\ LinesAreLogged /\ FilesAreDistinct
  BY DEF WatcherInv
<1>2. live[s] \in Seq(LineId) /\ offsets[s] \in Nat
  BY <1>1 DEF TypeOK
<1>3. /\ live'[s] = Append(live[s], l)
      /\ \A t \in Sessions : t # s => live'[t] = live[t]
  BY <1>1 DEF TypeOK
<1>4. LinesOf(live'[s]) = LinesOf(live[s]) \cup {l} /\ Injective(live'[s])
  BY <1>1, <1>2, <1>3, AppendLines, NextLineIsNew DEF FilesAreDistinct
<1>5. \A t \in Sessions : LinesOf(live'[t]) \subseteq 1..written'[t]
  BY <1>1, <1>3, <1>4, WrittenGrows DEF LinesAreLogged
<1>6. \A t \in Sessions : LinesOf(aside[t]) \subseteq 1..written'[t]
  BY <1>1, WrittenGrows DEF LinesAreLogged
<1>7. \A t \in Sessions : /\ Injective(live'[t]) /\ Injective(aside[t])
                         /\ LinesOf(live'[t]) \cap LinesOf(aside[t]) = {}
  BY <1>1, <1>3, <1>4, NextLineIsNew DEF FilesAreDistinct
<1> QED BY <1>5, <1>6, <1>7

LEMMA AppendLiveUnread ==
  ASSUME WatcherInv, NEW s \in Sessions, written[s] + 1 \in LineId,
         live' = [live EXCEPT ![s] = Append(@, written[s] + 1)],
         aside' = aside, offsets' = offsets, rot' = rot, current' = current \/ rot # "read"
  PROVE  /\ UnreadLines(s)' \subseteq UnreadLines(s) \cup {written[s] + 1}
         /\ \A t \in Sessions : t # s => UnreadLines(t)' = UnreadLines(t)
<1> DEFINE l == written[s] + 1
<1>1. TypeOK
  BY DEF WatcherInv
<1>2. live[s] \in Seq(LineId) /\ offsets[s] \in Nat
  BY <1>1 DEF TypeOK
<1>3. /\ live'[s] = Append(live[s], l)
      /\ \A t \in Sessions : t # s => live'[t] = live[t]
  BY <1>1 DEF TypeOK
<1>4. LinesOf(live'[s]) = LinesOf(live[s]) \cup {l}
  BY <1>2, <1>3, AppendLines
<1>5. LinesOf(NewLines(live'[s], offsets[s])) \subseteq UnreadLive(s) \cup {l}
  BY <1>2, <1>3, AppendUnread DEF UnreadLive
<1> QED BY <1>3, <1>4, <1>5 DEF UnreadLines, UnreadLive

LEMMA WatcherAppendLive ==
  ASSUME WatcherInv, TypeOK', NEW s \in Sessions, written[s] + 1 \in LineId,
         live' = [live EXCEPT ![s] = Append(@, written[s] + 1)],
         written' = [written EXCEPT ![s] = @ + 1],
         UNCHANGED <<aside, offsets, pending, current, rot, phase, emits>>
  PROVE  LinesAreLogged' /\ FilesAreDistinct' /\ ReadOnce'
<1>1. TypeOK /\ LinesAreLogged /\ FilesAreDistinct /\ ReadOnce /\ current \in Sessions
  BY DEF WatcherInv, TypeOK
<1>2. /\ LinesOf(pending) \subseteq 1..written'[current]
      /\ \A t \in Sessions, k \in LineId : emits[t][k] > 0 => k <= written'[t]
      /\ emits[s][written[s] + 1] = 0
      /\ current = s => written[s] + 1 \notin LinesOf(pending)
  BY <1>1, WrittenGrows, NextLineIsNew DEF LinesAreLogged
<1>4. \A t \in Sessions : /\ LinesOf(live'[t]) \subseteq 1..written'[t]
                         /\ LinesOf(aside'[t]) \subseteq 1..written'[t]
                         /\ Injective(live'[t]) /\ Injective(aside'[t])
                         /\ LinesOf(live'[t]) \cap LinesOf(aside'[t]) = {}
  BY AppendLiveFiles
<1>5. aside' = aside /\ offsets' = offsets /\ current' = current /\ rot' = rot
  OBVIOUS
<1>7. /\ UnreadLines(s)' \subseteq UnreadLines(s) \cup {written[s] + 1}
      /\ \A t \in Sessions : t # s => UnreadLines(t)' = UnreadLines(t)
  BY <1>5, AppendLiveUnread
<1>8. LinesAreLogged'
  BY <1>2, <1>4 DEF LinesAreLogged
<1>9. FilesAreDistinct'
  BY <1>1, <1>4 DEF FilesAreDistinct
<1>10. ReadOnce'
  BY <1>1, <1>2, <1>7 DEF ReadOnce
<1> QED BY <1>8, <1>9, <1>10

\* The same at the end of the renamed file, which a late hook writes.
LEMMA WatcherAppendAside ==
  ASSUME WatcherInv, TypeOK', NEW s \in Sessions, written[s] + 1 \in LineId,
         aside' = [aside EXCEPT ![s] = Append(@, written[s] + 1)],
         written' = [written EXCEPT ![s] = @ + 1],
         UNCHANGED <<live, offsets, pending, current, rot, phase, emits>>
  PROVE  LinesAreLogged' /\ FilesAreDistinct' /\ ReadOnce'
<1> DEFINE l == written[s] + 1
<1>1. TypeOK /\ LinesAreLogged /\ FilesAreDistinct /\ ReadOnce
  BY DEF WatcherInv
<1>2. aside[s] \in Seq(LineId) /\ offsets[s] \in Nat /\ current \in Sessions
  BY <1>1 DEF TypeOK
<1>3. /\ aside'[s] = Append(aside[s], l)
      /\ \A t \in Sessions : t # s => aside'[t] = aside[t]
  BY <1>1 DEF TypeOK
<1>4. LinesOf(aside'[s]) = LinesOf(aside[s]) \cup {l} /\ Injective(aside'[s])
  BY <1>1, <1>2, <1>3, AppendLines, NextLineIsNew DEF FilesAreDistinct
<1>5. LinesAreLogged'
  <2>1. \A t \in Sessions : LinesOf(aside'[t]) \subseteq 1..written'[t]
    BY <1>1, <1>3, <1>4, WrittenGrows DEF LinesAreLogged
  <2>2. \A t \in Sessions : LinesOf(live[t]) \subseteq 1..written'[t]
    BY <1>1, WrittenGrows DEF LinesAreLogged
  <2>3. LinesOf(pending) \subseteq 1..written'[current]
    BY <1>1, <1>2, WrittenGrows DEF LinesAreLogged
  <2>4. \A t \in Sessions, k \in LineId : emits[t][k] > 0 => k <= written'[t]
    BY WrittenGrows
  <2> QED BY <2>1, <2>2, <2>3, <2>4 DEF LinesAreLogged
<1>6. FilesAreDistinct'
  BY <1>1, <1>3, <1>4, NextLineIsNew DEF FilesAreDistinct
<1>7. LinesOf(NewLines(aside'[s], offsets[s]))
        \subseteq LinesOf(NewLines(aside[s], offsets[s])) \cup {l}
  BY <1>2, <1>3, AppendUnread
<1>8. /\ UnreadLines(s)' \subseteq UnreadLines(s) \cup {l}
      /\ \A t \in Sessions : t # s => UnreadLines(t)' = UnreadLines(t)
  BY <1>3, <1>7 DEF UnreadLines, UnreadLive
<1>9. ReadOnce'
  BY <1>1, <1>2, <1>8, NextLineIsNew DEF ReadOnce
<1> QED BY <1>5, <1>6, <1>9

\* The same into a file that no longer has a name.
LEMMA WatcherAppendNowhere ==
  ASSUME WatcherInv, TypeOK', NEW s \in Sessions, written[s] + 1 \in LineId,
         written' = [written EXCEPT ![s] = @ + 1],
         UNCHANGED <<live, aside, offsets, pending, current, rot, phase, emits>>
  PROVE  LinesAreLogged' /\ FilesAreDistinct' /\ ReadOnce'
<1>1. TypeOK /\ LinesAreLogged /\ FilesAreDistinct /\ ReadOnce
  BY DEF WatcherInv
<1>2. LinesAreLogged'
  BY <1>1, WrittenGrows DEF LinesAreLogged, TypeOK
<1>3. FilesAreDistinct' /\ ReadOnce'
  BY <1>1 DEF FilesAreDistinct, ReadOnce, UnreadLines, UnreadLive
<1> QED BY <1>2, <1>3

\* A read moves lines from the file to the front of what is pending.
LEMMA WatcherConsume ==
  ASSUME WatcherInv, TypeOK', NEW s \in Sessions, Consume(s),
         phase # "down", rot # "read", pending = <<>> \/ current = s,
         UNCHANGED <<live, aside, rot, phase, emits, written>>
  PROVE  LinesAreLogged' /\ FilesAreDistinct' /\ ReadOnce'
<1> DEFINE fresh == NewLines(live[s], offsets[s])
<1>1. TypeOK /\ LinesAreLogged /\ FilesAreDistinct /\ ReadOnce
  BY DEF WatcherInv
<1>2. /\ live[s] \in Seq(LineId) /\ offsets[s] \in Nat /\ pending \in Seq(LineId)
      /\ current \in Sessions
  BY <1>1 DEF TypeOK
<1>3. /\ fresh \in Seq(LineId) /\ LinesOf(fresh) \subseteq LinesOf(live[s]) /\ Injective(fresh)
  BY <1>1, <1>2, NewLinesType, NewLinesOfFile DEF FilesAreDistinct
<1>4. pending' = fresh \o pending /\ current' = s /\ offsets'[s] = Len(live[s])
      /\ \A t \in Sessions : t # s => offsets'[t] = offsets[t]
  BY <1>1 DEF Consume, TypeOK
<1>5. UnreadLines(s) = LinesOf(fresh)
  BY DEF UnreadLines, UnreadLive
<1>6. LinesOf(pending) \cap LinesOf(fresh) = {}
  <2>1. CASE pending = <<>>
    BY <2>1, LinesOfEmpty
  <2>2. CASE current = s
    BY <1>1, <1>5, <2>2 DEF ReadOnce
  <2> QED BY <2>1, <2>2
<1> HIDE DEF fresh
<1>7. LinesOf(pending') = LinesOf(fresh) \cup LinesOf(pending) /\ Injective(pending')
  BY <1>1, <1>2, <1>3, <1>4, <1>6, ConcatLines DEF FilesAreDistinct
<1>8. LinesOf(pending) = {} \/ current = s
  BY LinesOfEmpty
<1>9. LinesAreLogged'
  BY <1>1, <1>3, <1>4, <1>7, <1>8 DEF LinesAreLogged
<1>10. FilesAreDistinct'
  BY <1>1, <1>7 DEF FilesAreDistinct
<1>11. UnreadLines(s)' = {}
  BY <1>2, <1>4, NothingNew DEF UnreadLines, UnreadLive
<1>12. \A t \in Sessions : t # s => UnreadLines(t)' = UnreadLines(t)
  BY <1>4 DEF UnreadLines, UnreadLive
<1>13. ReadOnce'
  <2>1. \A t \in Sessions : \A l \in UnreadLines(t)' : emits'[t][l] = 0
    BY <1>1, <1>11, <1>12 DEF ReadOnce
  <2>2. \A l \in LinesOf(pending') : emits'[current'][l] = 0
    BY <1>1, <1>4, <1>5, <1>7, <1>8 DEF ReadOnce
  <2>3. \A l \in LinesOf(pending') : l \notin UnreadLines(s)'
    BY <1>11
  <2> QED BY <1>4, <2>1, <2>2, <2>3 DEF ReadOnce
<1> QED BY <1>9, <1>10, <1>13

LEMMA WatcherHook ==
  ASSUME WatcherInv, TypeOK', NEW s \in Sessions, NEW h \in Hooks, NEW e \in HookEvents,
         HookWrite(s, h, e)
  PROVE  WatcherInv'
<1>1. written[s] + 1 \in LineId
  BY LogType DEF WatcherInv, HookWrite, HookEvents
<1>2. /\ UNCHANGED <<offsets, pending, poking, current, rot, phase, emits>>
      /\ written' = [written EXCEPT ![s] = @ + 1]
  BY DEF HookWrite, Log, watcherVars, processVars
<1>3. RotationIsQuiet' /\ EmittedOncePerRun'
  BY <1>2 DEF WatcherInv, RotationIsQuiet, EmittedOncePerRun
<1>4. CASE fd[s][h] = "live"
  <2>1. live' = [live EXCEPT ![s] = Append(@, written[s] + 1)] /\ UNCHANGED aside
    BY <1>4 DEF HookWrite
  <2> QED BY <1>1, <1>2, <1>3, <2>1, WatcherAppendLive DEF WatcherInv
<1>5. CASE fd[s][h] = "aside"
  <2>1. aside' = [aside EXCEPT ![s] = Append(@, written[s] + 1)] /\ UNCHANGED live
    BY <1>5 DEF HookWrite
  <2> QED BY <1>1, <1>2, <1>3, <2>1, WatcherAppendAside DEF WatcherInv
<1>6. CASE fd[s][h] = "unlinked"
  <2>1. UNCHANGED <<live, aside>>
    BY <1>6 DEF HookWrite
  <2> QED BY <1>1, <1>2, <1>3, <2>1, WatcherAppendNowhere DEF WatcherInv
<1> QED BY <1>4, <1>5, <1>6 DEF HookWrite

LEMMA UnreadType ==
  ASSUME TypeOK', NEW s \in Sessions
  PROVE  UnreadLines(s)' \subseteq LineId
<1>1. live'[s] \in Seq(LineId) /\ aside'[s] \in Seq(LineId) /\ offsets'[s] \in Nat
  BY DEF TypeOK
<1>2. /\ LinesOf(live'[s]) \subseteq LineId /\ LinesOf(aside'[s]) \subseteq LineId
      /\ LinesOf(NewLines(live'[s], offsets'[s])) \subseteq LinesOf(live'[s])
      /\ LinesOf(NewLines(aside'[s], offsets'[s])) \subseteq LinesOf(aside'[s])
  BY <1>1, LinesOfType, NewLinesOfFile
<1> QED BY <1>2 DEF UnreadLines, UnreadLive

LEMMA WatcherEmit ==
  ASSUME WatcherInv, TypeOK', Emit
  PROVE  WatcherInv'
<1> DEFINE l == Head(pending)
           n == written[current] + 1
<1>1. /\ TypeOK /\ RotationIsQuiet /\ LinesAreLogged /\ FilesAreDistinct /\ ReadOnce
      /\ EmittedOncePerRun /\ current \in Sessions /\ pending \in Seq(LineId)
  BY DEF WatcherInv, TypeOK
<1>2. /\ pending # <<>> /\ pending' = Tail(pending) /\ l \in LineId
      /\ emits' = [emits EXCEPT ![current][l] = @ + 1]
      /\ UNCHANGED <<aside, offsets, current, phase, rot>>
  BY <1>1 DEF Emit, processVars
<1>3. /\ l \in LinesOf(pending) /\ LinesOf(pending') \subseteq LinesOf(pending) \ {l}
      /\ Injective(pending')
  BY <1>1, <1>2, PendingLines DEF FilesAreDistinct
<1>4. phase # "down" /\ rot \in {"none", "drain"}
  BY <1>1, <1>2 DEF RotationIsQuiet
<1>5. /\ emits[current][l] = 0 /\ emits'[current][l] = 1
      /\ \A t \in Sessions, k \in LineId :
           t # current \/ k # l => emits'[t][k] = emits[t][k]
  BY <1>1, <1>2, <1>3, <1>4 DEF ReadOnce, TypeOK
<1>6. RotationIsQuiet'
  BY <1>2, <1>4 DEF RotationIsQuiet
<1>7. EmittedOncePerRun'
  BY <1>1, <1>5 DEF EmittedOncePerRun
<1> HIDE DEF l
<1>8. l \notin UnreadLines(current) /\ l <= written[current]
  BY <1>1, <1>3, <1>4 DEF ReadOnce, LinesAreLogged
<1>9. CASE UNCHANGED <<live, liveFiles, written, event, poking>>
  <2>1. \A t \in Sessions : UnreadLines(t)' = UnreadLines(t)
    BY <1>2, <1>9 DEF UnreadLines, UnreadLive
  <2>2. LinesAreLogged'
    BY <1>1, <1>2, <1>3, <1>5, <1>8, <1>9 DEF LinesAreLogged
  <2>3. FilesAreDistinct'
    BY <1>1, <1>2, <1>3, <1>9 DEF FilesAreDistinct
  <2>4. ReadOnce'
    BY <1>1, <1>2, <1>3, <1>4, <1>5, <1>8, <2>1 DEF ReadOnce
  <2> QED BY <1>6, <1>7, <2>2, <2>3, <2>4 DEF WatcherInv
<1>10. CASE PollAppends(current)
  <2>1. /\ n \in LineId
        /\ live' = [live EXCEPT ![current] = Append(@, n)]
        /\ written' = [written EXCEPT ![current] = @ + 1]
    BY <1>1, <1>10, LogType DEF PollAppends, Log, Events
  <2>2. l # n
    <3>1. written[current] \in Nat
      BY <1>1, BoundsAssumption DEF TypeOK
    <3> QED BY <1>2, <1>8, <3>1 DEF LineId
  <2>3. /\ emits[current][n] = 0 /\ n \notin LinesOf(pending)
        /\ \A t \in Sessions, k \in LineId : emits[t][k] > 0 => k <= written'[t]
        /\ \A t \in Sessions : 1..written[t] \subseteq 1..written'[t]
    BY <1>1, <2>1, NextLineIsNew, WrittenGrows
  <2>4. \A t \in Sessions : /\ LinesOf(live'[t]) \subseteq 1..written'[t]
                           /\ LinesOf(aside'[t]) \subseteq 1..written'[t]
                           /\ Injective(live'[t]) /\ Injective(aside'[t])
                           /\ LinesOf(live'[t]) \cap LinesOf(aside'[t]) = {}
    BY <1>1, <1>2, <2>1, AppendLiveFiles
  <2>5. \A t \in Sessions :
          UnreadLines(t)' \subseteq UnreadLines(t) \cup (IF t = current THEN {n} ELSE {})
    <3>1. PICK c \in Sessions : c = current
      BY <1>1
    <3>2. /\ UnreadLines(c)' \subseteq UnreadLines(c) \cup {n}
          /\ \A t \in Sessions : t # c => UnreadLines(t)' = UnreadLines(t)
      BY <1>1, <1>2, <2>1, <3>1, AppendLiveUnread
    <3> QED BY <3>1, <3>2
  <2> HIDE DEF n
  <2>6. l \in 1..written'[current]
    BY <1>1, <1>3, <2>3 DEF LinesAreLogged
  <2>7. \A t \in Sessions, k \in LineId : emits'[t][k] > 0 => k <= written'[t]
    BY <1>5, <2>3, <2>6
  <2>8. LinesAreLogged'
    <3>1. LinesOf(pending') \subseteq 1..written'[current']
      BY <1>1, <1>2, <1>3, <2>3 DEF LinesAreLogged
    <3> QED BY <2>4, <2>7, <3>1 DEF LinesAreLogged
  <2>9. FilesAreDistinct'
    <3>1. Injective(pending)'
      BY <1>3 DEF Injective
    <3> QED BY <2>4, <3>1 DEF FilesAreDistinct
  <2>10. ReadOnce'
    <3>1. \A t \in Sessions : \A k \in UnreadLines(t)' : k \in LineId
      BY UnreadType
    <3>2. ASSUME NEW t \in Sessions, NEW k \in UnreadLines(t)' PROVE emits'[t][k] = 0
      <4>1. k \in LineId
        BY <3>1
      <4>2. CASE k \in UnreadLines(t)
        <5>1. emits[t][k] = 0
          BY <1>1, <1>4, <4>2 DEF ReadOnce
        <5>2. t # current \/ k # l
          BY <1>8, <4>2
        <5> QED BY <1>5, <4>1, <5>1, <5>2
      <4>3. CASE k = n /\ t = current
        BY <1>5, <2>1, <2>2, <2>3, <4>3
      <4> QED BY <2>5, <4>2, <4>3
    <3>3. ASSUME NEW k \in LinesOf(pending')
          PROVE  emits'[current][k] = 0 /\ \A t \in Sessions : t = current => k \notin UnreadLines(t)'
      <4>1. k \in LinesOf(pending) /\ k # l /\ k \in LineId
        BY <1>1, <1>3, LinesOfType
      <4>2. emits[current][k] = 0 /\ k \notin UnreadLines(current) /\ k # n
        BY <1>1, <1>4, <2>3, <4>1 DEF ReadOnce
      <4> QED BY <1>1, <1>5, <2>5, <4>1, <4>2
    <3> QED BY <1>1, <1>2, <3>2, <3>3 DEF ReadOnce
  <2> QED BY <1>6, <1>7, <2>8, <2>9, <2>10 DEF WatcherInv
<1> QED BY <1>9, <1>10 DEF Emit

\* Steps on files that are not being read: a line may leave them.
LEMMA WatcherTruncate ==
  ASSUME WatcherInv, TypeOK', NEW s \in Sessions, Truncate(s)
  PROVE  WatcherInv'
<1>1. /\ TypeOK /\ RotationIsQuiet /\ LinesAreLogged /\ FilesAreDistinct /\ ReadOnce
      /\ EmittedOncePerRun
  BY DEF WatcherInv
<1>2. /\ live'[s] = <<>>
      /\ \A t \in Sessions : t # s => live'[t] = live[t]
      /\ UNCHANGED <<aside, offsets, pending, poking, current, rot, phase, emits, written>>
  BY <1>1 DEF Truncate, TypeOK, watcherVars, processVars
<1>3. LinesOf(live'[s]) = {} /\ Injective(live'[s])
  BY <1>2, LinesOfEmpty
<1>4. LinesOf(NewLines(live'[s], offsets[s])) = {}
  BY <1>1, <1>2, NewLinesOfEmpty DEF TypeOK
<1>5. RotationIsQuiet' /\ EmittedOncePerRun'
  BY <1>1, <1>2 DEF RotationIsQuiet, EmittedOncePerRun
<1>6. LinesAreLogged' /\ FilesAreDistinct'
  BY <1>1, <1>2, <1>3 DEF LinesAreLogged, FilesAreDistinct
<1>7. \A t \in Sessions : UnreadLines(t)' \subseteq UnreadLines(t)
  BY <1>2, <1>3, <1>4 DEF UnreadLines, UnreadLive
<1>8. ReadOnce'
  BY <1>1, <1>2, <1>7 DEF ReadOnce, TypeOK
<1> QED BY <1>5, <1>6, <1>8 DEF WatcherInv

LEMMA WatcherRename ==
  ASSUME WatcherInv, TypeOK', Rename
  PROVE  WatcherInv'
<1>1. /\ TypeOK /\ RotationIsQuiet /\ LinesAreLogged /\ FilesAreDistinct /\ ReadOnce
      /\ EmittedOncePerRun
  BY DEF WatcherInv
<1>2. /\ live'[current] = <<>> /\ aside'[current] = live[current]
      /\ \A t \in Sessions : t # current => live'[t] = live[t] /\ aside'[t] = aside[t]
      /\ rot = "rename" /\ rot' = "read"
      /\ UNCHANGED <<offsets, pending, poking, current, phase, emits, written>>
  BY <1>1 DEF Rename, TypeOK, RotationFrame, logVars, processVars
<1>3. pending = <<>> /\ ~poking /\ phase # "down"
  BY <1>1, <1>2 DEF RotationIsQuiet
<1>4. LinesOf(<<>>) = {} /\ Injective(<<>>)
  BY LinesOfEmpty
<1>5. RotationIsQuiet' /\ EmittedOncePerRun'
  BY <1>1, <1>2, <1>3 DEF RotationIsQuiet, EmittedOncePerRun
<1>6. LinesAreLogged' /\ FilesAreDistinct'
  BY <1>1, <1>2, <1>4 DEF LinesAreLogged, FilesAreDistinct
<1>7. \A t \in Sessions : UnreadLines(t)' \subseteq UnreadLines(t)
  BY <1>2, <1>4 DEF UnreadLines, UnreadLive
<1>8. ReadOnce'
  BY <1>1, <1>2, <1>3, <1>4, <1>7 DEF ReadOnce, TypeOK
<1> QED BY <1>5, <1>6, <1>8 DEF WatcherInv

LEMMA WatcherDrain ==
  ASSUME WatcherInv, TypeOK', DrainRotated
  PROVE  WatcherInv'
<1>1. /\ TypeOK /\ RotationIsQuiet /\ LinesAreLogged /\ FilesAreDistinct /\ ReadOnce
      /\ EmittedOncePerRun /\ current \in Sessions
  BY DEF WatcherInv, TypeOK
<1>2. /\ pending' = NewLines(aside[current], offsets[current])
      /\ offsets'[current] = 0
      /\ \A t \in Sessions : t # current => offsets'[t] = offsets[t]
      /\ rot = "read" /\ rot' = "drain"
      /\ UNCHANGED <<live, aside, poking, current, phase, emits, written>>
  BY <1>1 DEF DrainRotated, TypeOK, RotationFrame, diskVars, logVars, processVars
<1>3. phase # "down"
  BY <1>1, <1>2 DEF RotationIsQuiet
<1>4. /\ aside[current] \in Seq(LineId) /\ live[current] \in Seq(LineId)
      /\ offsets[current] \in Nat
  BY <1>1 DEF TypeOK
<1>5. /\ LinesOf(pending') \subseteq LinesOf(aside[current]) /\ Injective(pending')
      /\ LinesOf(NewLines(live[current], 0)) \subseteq LinesOf(live[current])
  BY <1>1, <1>2, <1>4, NewLinesOfFile DEF FilesAreDistinct
<1>6. RotationIsQuiet' /\ EmittedOncePerRun'
  BY <1>1, <1>2, <1>3 DEF RotationIsQuiet, EmittedOncePerRun
<1>7. LinesAreLogged' /\ FilesAreDistinct'
  BY <1>1, <1>2, <1>5 DEF LinesAreLogged, FilesAreDistinct
<1>8. /\ UnreadLines(current) = LinesOf(live[current]) \cup LinesOf(pending')
      /\ \A t \in Sessions : t # current => UnreadLines(t) = UnreadLive(t)
  BY <1>2 DEF UnreadLines
<1>9. \A t \in Sessions : UnreadLines(t)' \subseteq UnreadLines(t)
  BY <1>2, <1>5 DEF UnreadLines, UnreadLive
<1>10. \A t \in Sessions : t = current => UnreadLines(t)' \subseteq LinesOf(live[current])
  BY <1>2, <1>5 DEF UnreadLines, UnreadLive
<1>11. LinesOf(pending') \cap LinesOf(live[current]) = {}
  BY <1>1, <1>5 DEF FilesAreDistinct
<1>12. \A l \in LinesOf(pending') : emits[current][l] = 0
  BY <1>1, <1>3, <1>8 DEF ReadOnce
<1>13. \A l \in LinesOf(pending') : \A t \in Sessions : t = current => l \notin UnreadLines(t)'
  BY <1>10, <1>11
<1>14. \A t \in Sessions : \A l \in UnreadLines(t)' : emits'[t][l] = 0
  BY <1>1, <1>2, <1>3, <1>9 DEF ReadOnce
<1>15. ReadOnce'
  BY <1>1, <1>2, <1>12, <1>13, <1>14 DEF ReadOnce
<1> QED BY <1>6, <1>7, <1>15 DEF WatcherInv

\* The process is gone, and with it all that it had read.
LEMMA WatcherDie ==
  ASSUME WatcherInv, TypeOK', Die
  PROVE  WatcherInv'
<1>1. /\ LinesAreLogged /\ FilesAreDistinct /\ EmittedOncePerRun
      /\ UNCHANGED <<live, aside, written, emits, current>>
      /\ phase' = "down" /\ pending' = <<>> /\ poking' = FALSE /\ rot' = "none"
  BY DEF WatcherInv, Die, diskVars, logVars
<1> QED BY <1>1, LinesOfEmpty
        DEF WatcherInv, RotationIsQuiet, LinesAreLogged, FilesAreDistinct, ReadOnce,
            EmittedOncePerRun

LEMMA WatcherStart ==
  ASSUME WatcherInv, TypeOK', Start
  PROVE  WatcherInv'
<1>1. /\ RotationIsQuiet /\ LinesAreLogged /\ FilesAreDistinct
      /\ UNCHANGED <<live, aside, written, pending, current, poking, rot>>
      /\ emits' = [s \in Sessions |-> [l \in LineId |-> 0]]
      /\ phase = "down" /\ phase' = "replay"
  BY DEF WatcherInv, Start, diskVars, logVars, watcherVars
<1>2. pending = <<>> /\ ~poking /\ rot = "none"
  BY <1>1 DEF RotationIsQuiet
<1>3. RotationIsQuiet' /\ LinesAreLogged' /\ FilesAreDistinct' /\ EmittedOncePerRun'
  BY <1>1, <1>2 DEF RotationIsQuiet, LinesAreLogged, FilesAreDistinct, EmittedOncePerRun
<1>4. \A s \in Sessions : UnreadLines(s)' \subseteq LineId
  BY UnreadType
<1>5. ReadOnce'
  BY <1>1, <1>2, <1>4, LinesOfEmpty DEF ReadOnce
<1> QED BY <1>3, <1>5 DEF WatcherInv

\* A step of rotateOne other than the rename and the drain.
LEMMA WatcherRotate ==
  ASSUME WatcherInv, TypeOK', phase # "down", pending = <<>>, ~poking, rot' # "read",
         \A t \in Sessions : aside'[t] = aside[t] \/ aside'[t] = <<>>,
         UNCHANGED <<live, offsets, pending, poking, phase, emits, written>>
  PROVE  WatcherInv'
<1>1. /\ TypeOK /\ LinesAreLogged /\ FilesAreDistinct /\ ReadOnce /\ EmittedOncePerRun
  BY DEF WatcherInv
<1>2. LinesOf(<<>>) = {} /\ Injective(<<>>)
  BY LinesOfEmpty
<1>3. RotationIsQuiet' /\ EmittedOncePerRun'
  BY <1>1 DEF RotationIsQuiet, EmittedOncePerRun
<1>4. LinesAreLogged' /\ FilesAreDistinct'
  BY <1>1, <1>2 DEF LinesAreLogged, FilesAreDistinct
<1>5. \A t \in Sessions : LinesOf(NewLines(live[t], offsets[t])) \subseteq LinesOf(live[t])
  BY <1>1, NewLinesOfFile DEF TypeOK
<1>6. \A t \in Sessions : UnreadLines(t)' \subseteq UnreadLines(t)
  BY <1>5 DEF UnreadLines, UnreadLive
<1>7. ReadOnce'
  BY <1>1, <1>2, <1>6 DEF ReadOnce
<1> QED BY <1>3, <1>4, <1>7 DEF WatcherInv

LEMMA WatcherRotationStep ==
  ASSUME WatcherInv, TypeOK', RotationStep
  PROVE  WatcherInv'
<1>1. TypeOK /\ RotationIsQuiet
  BY DEF WatcherInv
<1> USE DEF RotationFrame, logVars, processVars, diskVars
<1>2. ASSUME NEW from \in RotationSteps \ {"none", "drain"}, NEW to \in RotationSteps \ {"read"},
             AppendToArchive(from, to)
      PROVE  WatcherInv'
  <2>1. phase # "down" /\ pending = <<>> /\ ~poking
    BY <1>1, <1>2 DEF RotationIsQuiet, AppendToArchive
  <2> QED BY <1>2, <2>1, WatcherRotate DEF AppendToArchive
<1>3. ASSUME NEW from \in RotationSteps \ {"none", "drain"}, NEW to \in RotationSteps \ {"read"},
             UnlinkAside(from, to)
      PROVE  WatcherInv'
  <2>1. phase # "down" /\ pending = <<>> /\ ~poking
    BY <1>1, <1>3 DEF RotationIsQuiet, UnlinkAside
  <2>2. \A t \in Sessions : aside'[t] = aside[t] \/ aside'[t] = <<>>
    BY <1>1, <1>3 DEF UnlinkAside, TypeOK
  <2> QED BY <1>3, <2>1, <2>2, WatcherRotate DEF UnlinkAside
<1>4. CASE ArchiveLeftover \/ ArchiveRotated
  BY <1>2, <1>4 DEF ArchiveLeftover, ArchiveRotated, RotationSteps
<1>5. CASE UnlinkLeftover \/ UnlinkRotated
  BY <1>3, <1>5 DEF UnlinkLeftover, UnlinkRotated, RotationSteps
<1>6. CASE OnRotated
  <2>1. phase # "down" /\ pending = <<>> /\ ~poking
    BY <1>1, <1>6 DEF RotationIsQuiet, OnRotated
  <2> QED BY <1>6, <2>1, WatcherRotate DEF OnRotated
<1>7. CASE RotationFails
  <2>1. phase # "down" /\ pending = <<>> /\ ~poking
    BY <1>1, <1>7 DEF RotationIsQuiet, RotationFails
  <2> QED BY <1>7, <2>1, WatcherRotate DEF RotationFails
<1> QED BY <1>4, <1>5, <1>6, <1>7, WatcherRename, WatcherDrain DEF RotationStep

LEMMA WatcherStep == WatcherInv /\ [Next]_vars => WatcherInv'
<1> SUFFICES ASSUME WatcherInv, [Next]_vars PROVE WatcherInv'
  OBVIOUS
<1>1. TypeOK /\ RotationIsQuiet /\ EmittedOncePerRun
  BY DEF WatcherInv
<1>2. TypeOK'
  BY <1>1, TypeStep
<1> USE DEF diskVars, logVars, hostVars, watcherVars, processVars, HostFrame
<1>3. ASSUME NEW s \in Sessions, HookStep(s) PROVE WatcherInv'
  <2>1. ASSUME NEW h \in Hooks, HookOpen(s, h) PROVE WatcherInv'
    BY <1>2, <2>1, WatcherStutter DEF HookOpen, watched
  <2> QED BY <1>2, <1>3, <2>1, WatcherHook DEF HookStep
<1>4. ASSUME NEW s \in Sessions, Notify(s) PROVE WatcherInv'
  <2>1. /\ Consume(s) /\ phase # "down" /\ rot # "read" /\ pending = <<>> /\ ~poking
        /\ UNCHANGED <<live, aside, rot, phase, emits, written, poking>>
    BY <1>4 DEF Notify, Idle
  <2>2. RotationIsQuiet' /\ EmittedOncePerRun'
    BY <1>1, <1>4, <2>1 DEF RotationIsQuiet, EmittedOncePerRun, Notify, Idle
  <2>3. LinesAreLogged' /\ FilesAreDistinct' /\ ReadOnce'
    BY <1>2, <2>1, WatcherConsume
  <2> QED BY <1>2, <2>2, <2>3 DEF WatcherInv
<1>5. ASSUME NEW s \in Sessions, StaleTimer(s) PROVE WatcherInv'
  <2>1. CASE UNCHANGED <<live, liveFiles, written, event, poking, current>>
    BY <1>2, <1>5, <2>1, WatcherStutter DEF StaleTimer, watched
  <2>2. CASE PollAppends(s) /\ current' = s
    <3>1. /\ phase # "down" /\ pending = <<>> /\ rot = "none" /\ PollAppends(s)
          /\ UNCHANGED <<aside, offsets, pending, phase, rot, emits>>
      BY <1>5, <2>2 DEF StaleTimer, Idle
    <3>2. /\ written[s] + 1 \in LineId
          /\ live' = [live EXCEPT ![s] = Append(@, written[s] + 1)]
          /\ written' = [written EXCEPT ![s] = @ + 1]
      BY <1>1, <3>1, LogType DEF PollAppends, Log, Events
    <3>3. \A t \in Sessions : /\ LinesOf(live'[t]) \subseteq 1..written'[t]
                             /\ LinesOf(aside'[t]) \subseteq 1..written'[t]
                             /\ Injective(live'[t]) /\ Injective(aside'[t])
                             /\ LinesOf(live'[t]) \cap LinesOf(aside'[t]) = {}
      BY <3>1, <3>2, AppendLiveFiles
    <3>4. /\ UnreadLines(s)' \subseteq UnreadLines(s) \cup {written[s] + 1}
          /\ \A t \in Sessions : t # s => UnreadLines(t)' = UnreadLines(t)
      BY <3>1, <3>2, AppendLiveUnread
    <3>5. /\ emits[s][written[s] + 1] = 0
          /\ \A t \in Sessions, k \in LineId : emits[t][k] > 0 => k <= written'[t]
      BY <3>2, NextLineIsNew, WrittenGrows
    <3>6. LinesAreLogged' /\ FilesAreDistinct'
      BY <3>1, <3>3, <3>5, LinesOfEmpty DEF LinesAreLogged, FilesAreDistinct
    <3>7. RotationIsQuiet' /\ EmittedOncePerRun'
      BY <1>1, <3>1 DEF RotationIsQuiet, EmittedOncePerRun
    <3>8. ReadOnce'
      BY <3>1, <3>4, <3>5, LinesOfEmpty DEF WatcherInv, ReadOnce
    <3> QED BY <1>2, <3>6, <3>7, <3>8 DEF WatcherInv
  <2> QED BY <1>5, <2>1, <2>2 DEF StaleTimer
<1>6. ASSUME NEW s \in Sessions, RotateCheck(s) PROVE WatcherInv'
  <2>1. /\ phase # "down" /\ pending = <<>> /\ ~poking /\ rot' # "read"
        /\ UNCHANGED <<live, aside, offsets, pending, poking, phase, emits, written>>
    BY <1>6 DEF RotateCheck, Idle, RotationFrame
  <2> QED BY <1>2, <2>1, WatcherRotate
<1>7. CASE Poke
  <2>1. /\ Consume(current) /\ poking' = FALSE /\ poking
        /\ UNCHANGED <<live, aside, rot, phase, emits, written>>
    BY <1>7 DEF Poke
  <2>2. phase # "down" /\ rot \in {"none", "drain"}
    BY <1>1, <2>1 DEF RotationIsQuiet
  <2>3. RotationIsQuiet' /\ EmittedOncePerRun'
    BY <1>1, <2>1, <2>2 DEF RotationIsQuiet, EmittedOncePerRun
  <2>4. PICK c \in Sessions : c = current
    BY <1>1 DEF TypeOK
  <2>5. Consume(c)
    BY <2>1, <2>4 DEF Consume, FileReset
  <2>6. LinesAreLogged' /\ FilesAreDistinct' /\ ReadOnce'
    BY <1>2, <2>1, <2>2, <2>4, <2>5, WatcherConsume
  <2> QED BY <1>2, <2>3, <2>6 DEF WatcherInv
<1>8. CASE (\E s \in Sessions : PruneArchive(s)) \/ Autosave \/ PlayerAction \/ UNCHANGED vars
  BY <1>2, <1>8, WatcherStutter DEF PruneArchive, Autosave, PlayerAction, vars, watched
<1>9. CASE Crash \/ Shutdown
  BY <1>2, <1>9, WatcherDie DEF Crash, Shutdown
<1>10. CASE Ready
  <2>1. phase = "replay" /\ phase' = "running"
        /\ UNCHANGED <<live, aside, offsets, pending, poking, current, rot, emits, written>>
    BY <1>10 DEF Ready
  <2> QED BY <1>2, <2>1
          DEF WatcherInv, RotationIsQuiet, LinesAreLogged, FilesAreDistinct, ReadOnce,
              EmittedOncePerRun, UnreadLines, UnreadLive
<1> QED BY <1>2, <1>3, <1>4, <1>5, <1>6, <1>7, <1>8, <1>9, <1>10, WatcherTruncate, WatcherEmit,
           WatcherRotationStep, WatcherStart DEF Next

\* Whatever is rotated, truncated, nested or written late, a daemon process
\* emits no line twice: consume() is idempotent.
THEOREM EmittedOnce == Spec => []EmittedOncePerRun
<1>1. WatcherInv => EmittedOncePerRun
  BY DEF WatcherInv
<1> QED BY <1>1, WatcherInit, WatcherStep, PTL DEF Spec

-----------------------------------------------------------------------------
(* Rotation loses no line                                                  *)

\* The lines that a session's files must hold between them.
Kept(s) == (1..written[s]) \ (late[s] \cup cut[s])

LEMMA ArchiveInit == Init => ArchiveInv
<1> SUFFICES ASSUME Init PROVE ArchiveInv
  OBVIOUS
<1>1. \A s \in Sessions : written[s] = 0
  BY DEF Init
<1>2. 1..0 = {}
  OBVIOUS
<1> QED BY <1>1, <1>2 DEF Init, ArchiveInv, NothingLostOnDisk, Archived, NoFileNoLines

LEMMA ArchiveStutter ==
  ASSUME TypeOK, ArchiveInv, rot' \notin {"cleanup", "rename", "unlink"},
         liveFiles \subseteq liveFiles',
         UNCHANGED <<live, aside, asideFiles, archive, fd, written, late, cut>>
  PROVE  ArchiveInv'
BY DEF TypeOK, ArchiveInv, NothingLostOnDisk, Archived, NoFileNoLines

\* A new line in the live file.
LEMMA ArchiveAppend ==
  ASSUME TypeOK, TypeOK', ArchiveInv, NEW s \in Sessions, written[s] + 1 \in LineId,
         live' = [live EXCEPT ![s] = Append(@, written[s] + 1)], s \in liveFiles',
         written' = [written EXCEPT ![s] = @ + 1], liveFiles \subseteq liveFiles',
         \A t \in Sessions, h \in Hooks : fd'[t][h] \in {fd[t][h], "closed"},
         rot' = rot, current' = current \/ rot = "none",
         UNCHANGED <<aside, asideFiles, archive, late, cut>>
  PROVE  ArchiveInv'
<1>1. /\ live'[s] = Append(live[s], written[s] + 1)
      /\ \A t \in Sessions : t # s => live'[t] = live[t] /\ written'[t] = written[t]
      /\ written'[s] = written[s] + 1 /\ written[s] \in Nat
  BY BoundsAssumption DEF TypeOK
<1>2. LinesOf(live'[s]) = LinesOf(live[s]) \cup {written[s] + 1}
  BY <1>1, AppendLines DEF TypeOK
<1>3. 1..written'[s] = (1..written[s]) \cup {written[s] + 1}
  BY <1>1
<1>4. NothingLostOnDisk'
  BY <1>1, <1>2, <1>3 DEF ArchiveInv, NothingLostOnDisk
<1>5. Archived'
  BY DEF ArchiveInv, Archived
<1>6. NoFileNoLines'
  BY <1>1 DEF ArchiveInv, NoFileNoLines
<1> QED BY <1>4, <1>5, <1>6 DEF ArchiveInv

LEMMA ArchiveHook ==
  ASSUME TypeOK, TypeOK', ArchiveInv, NEW s \in Sessions, HookStep(s)
  PROVE  ArchiveInv'
<1>1. ASSUME NEW h \in Hooks, HookOpen(s, h) PROVE ArchiveInv'
  <2>1. \A t \in Sessions, k \in Hooks :
          fd'[t][k] = fd[t][k] \/ (fd'[t][k] = "live" /\ t \in liveFiles')
    BY <1>1 DEF HookOpen, TypeOK
  <2>2. UNCHANGED <<live, aside, asideFiles, archive, written, late, cut, rot, current>>
        /\ liveFiles \subseteq liveFiles'
    BY <1>1 DEF HookOpen, logVars, watcherVars
  <2> QED BY <2>1, <2>2 DEF ArchiveInv, NothingLostOnDisk, Archived, NoFileNoLines
<1>2. ASSUME NEW h \in Hooks, NEW e \in HookEvents, HookWrite(s, h, e) PROVE ArchiveInv'
  <2>1. /\ written[s] + 1 \in LineId /\ written' = [written EXCEPT ![s] = @ + 1]
    BY <1>2, LogType DEF HookWrite, HookEvents, Log
  <2>2. /\ UNCHANGED <<liveFiles, asideFiles, archive, cut, rot, current>>
        /\ \A t \in Sessions, k \in Hooks : fd'[t][k] \in {fd[t][k], "closed"}
    BY <1>2 DEF HookWrite, watcherVars, TypeOK
  <2>3. CASE fd[s][h] = "live"
    <3>1. s \in liveFiles
      BY <2>3 DEF ArchiveInv, NoFileNoLines
    <3>2. live' = [live EXCEPT ![s] = Append(@, written[s] + 1)] /\ UNCHANGED <<aside, late>>
      BY <1>2, <2>3 DEF HookWrite
    <3> QED BY <2>1, <2>2, <3>1, <3>2, ArchiveAppend
  <2>4. CASE fd[s][h] # "live"
    <3>1. /\ late'[s] = late[s] \cup {written[s] + 1} /\ UNCHANGED live
          /\ \A t \in Sessions : t # s => late'[t] = late[t]
      BY <1>2, <2>4 DEF HookWrite, TypeOK
    <3>2. /\ \A t \in Sessions : t # s => aside'[t] = aside[t]
          /\ \/ aside'[s] = aside[s]
             \/ aside'[s] = Append(aside[s], written[s] + 1) /\ s \in asideFiles
      BY <1>2, <2>4 DEF HookWrite, TypeOK, ArchiveInv, NoFileNoLines
    <3>3. LinesOf(aside[s]) \subseteq LinesOf(aside'[s])
          /\ LinesOf(aside'[s]) \subseteq LinesOf(aside[s]) \cup {written[s] + 1}
      <4>1. aside[s] \in Seq(LineId)
        BY DEF TypeOK
      <4>2. LinesOf(Append(aside[s], written[s] + 1)) = LinesOf(aside[s]) \cup {written[s] + 1}
        BY <2>1, <4>1, AppendLines
      <4> QED BY <3>2, <4>2
    <3>4. /\ written'[s] = written[s] + 1 /\ written[s] \in Nat
          /\ \A t \in Sessions : t # s => written'[t] = written[t]
      BY <2>1, BoundsAssumption DEF TypeOK
    <3>5. 1..written'[s] = (1..written[s]) \cup {written[s] + 1}
      BY <3>4
    <3>6. NothingLostOnDisk'
      <4> SUFFICES ASSUME NEW t \in Sessions, NEW l \in Kept(t)'
                   PROVE  l \in (LinesOf(live[t]) \cup LinesOf(aside[t]) \cup archive[t])'
        BY DEF NothingLostOnDisk, Kept
      <4>1. l \in Kept(t)
        BY <2>2, <3>1, <3>4, <3>5 DEF Kept
      <4>2. l \in LinesOf(live[t]) \cup LinesOf(aside[t]) \cup archive[t]
        BY <4>1 DEF ArchiveInv, NothingLostOnDisk, Kept
      <4> QED BY <2>2, <3>1, <3>2, <3>3, <4>2
    <3>7. Archived'
      <4>1. current \in Sessions /\ Archived
        BY DEF TypeOK, ArchiveInv
      <4>2. CASE current = s
        BY <2>2, <3>1, <3>3, <4>1, <4>2 DEF Archived
      <4>3. CASE current # s
        BY <2>2, <3>1, <3>2, <4>1, <4>3 DEF Archived
      <4> QED BY <4>2, <4>3
    <3>8. NoFileNoLines'
      BY <2>2, <3>1, <3>2 DEF ArchiveInv, NoFileNoLines
    <3> QED BY <3>6, <3>7, <3>8 DEF ArchiveInv
  <2> QED BY <2>3, <2>4
<1> QED BY <1>1, <1>2 DEF HookStep

LEMMA ArchiveRotation ==
  ASSUME TypeOK, TypeOK', ArchiveInv, RotationStep
  PROVE  ArchiveInv'
<1>0. NothingLostOnDisk /\ Archived /\ NoFileNoLines /\ current \in Sessions
  BY DEF ArchiveInv, TypeOK
<1> USE DEF RotationFrame, logVars, processVars, diskVars
<1>1. ASSUME NEW from, NEW to, to \in {"cleanup", "unlink"}, AppendToArchive(from, to)
      PROVE  ArchiveInv'
  <2>1. /\ archive'[current] = archive[current] \cup LinesOf(aside[current])
        /\ \A t \in Sessions : archive[t] \subseteq archive'[t]
        /\ UNCHANGED <<live, liveFiles, aside, asideFiles, fd, current, written, late, cut>>
    BY <1>1 DEF AppendToArchive, TypeOK
  <2> QED BY <1>0, <2>1 DEF ArchiveInv, NothingLostOnDisk, Archived, NoFileNoLines
<1>2. ASSUME NEW from \in {"cleanup", "unlink"}, NEW to, UnlinkAside(from, to)
      PROVE  ArchiveInv'
  <2>1. /\ aside'[current] = <<>> /\ asideFiles' = asideFiles \ {current}
        /\ \A t \in Sessions : t # current => aside'[t] = aside[t]
        /\ UNCHANGED <<live, liveFiles, archive, current, written, late, cut>>
    BY <1>2 DEF UnlinkAside, TypeOK
  <2>2. /\ \A h \in Hooks : fd'[current][h] = IF fd[current][h] = "aside" THEN "unlinked"
                                              ELSE fd[current][h]
        /\ \A t \in Sessions : t # current => fd'[t] = fd[t]
    BY <1>2 DEF UnlinkAside, Redirect, TypeOK
  <2>3. LinesOf(aside[current]) \subseteq archive[current] \cup late[current] \cup cut[current]
    BY <1>0, <1>2 DEF Archived, UnlinkAside
  <2>4. NothingLostOnDisk' /\ Archived'
    BY <1>0, <2>1, <2>3, LinesOfEmpty DEF NothingLostOnDisk, Archived
  <2>5. NoFileNoLines'
    BY <1>0, <2>1, <2>2 DEF NoFileNoLines
  <2> QED BY <2>4, <2>5 DEF ArchiveInv
<1>3. CASE ArchiveLeftover \/ ArchiveRotated
  BY <1>1, <1>3 DEF ArchiveLeftover, ArchiveRotated
<1>4. CASE UnlinkLeftover \/ UnlinkRotated
  BY <1>2, <1>4 DEF UnlinkLeftover, UnlinkRotated
<1>5. CASE Rename
  <2>1. /\ aside'[current] = live[current] /\ asideFiles' = asideFiles \cup {current}
        /\ live'[current] = <<>> /\ liveFiles' = liveFiles \ {current}
        /\ \A t \in Sessions : t # current => aside'[t] = aside[t] /\ live'[t] = live[t]
        /\ rot = "rename" /\ rot' = "read"
        /\ UNCHANGED <<archive, current, written, late, cut>>
    BY <1>5 DEF Rename, TypeOK
  <2>2. /\ \A h \in Hooks : fd'[current][h] = IF fd[current][h] = "live" THEN "aside"
                                              ELSE fd[current][h]
        /\ \A t \in Sessions : t # current => fd'[t] = fd[t]
    BY <1>5 DEF Rename, Redirect, TypeOK
  <2>3. LinesOf(aside[current]) \subseteq archive[current] \cup late[current] \cup cut[current]
    BY <1>0, <2>1 DEF Archived
  <2>4. NothingLostOnDisk' /\ Archived'
    BY <1>0, <2>1, <2>3, LinesOfEmpty DEF NothingLostOnDisk, Archived
  <2>5. NoFileNoLines'
    BY <1>0, <2>1, <2>2 DEF NoFileNoLines
  <2> QED BY <2>4, <2>5 DEF ArchiveInv
<1>6. CASE DrainRotated \/ OnRotated \/ RotationFails
  BY <1>6, ArchiveStutter DEF DrainRotated, OnRotated, RotationFails
<1> QED BY <1>3, <1>4, <1>5, <1>6 DEF RotationStep

LEMMA ArchiveStep == TypeOK /\ WatcherInv /\ ArchiveInv /\ [Next]_vars => ArchiveInv'
<1> SUFFICES ASSUME TypeOK, WatcherInv, ArchiveInv, [Next]_vars PROVE ArchiveInv'
  OBVIOUS
<1>0. TypeOK' /\ NothingLostOnDisk /\ Archived /\ NoFileNoLines /\ RotationIsQuiet
  BY TypeStep DEF ArchiveInv, WatcherInv
<1> USE DEF diskVars, logVars, hostVars, watcherVars, processVars, HostFrame
<1>1. ASSUME NEW s \in Sessions, Truncate(s) PROVE ArchiveInv'
  <2>1. /\ live'[s] = <<>> /\ cut'[s] = cut[s] \cup LinesOf(live[s])
        /\ \A t \in Sessions : t # s => live'[t] = live[t] /\ cut'[t] = cut[t]
        /\ UNCHANGED <<liveFiles, aside, asideFiles, archive, fd, written, late, rot, current>>
    BY <1>1 DEF Truncate, TypeOK
  <2>2. NothingLostOnDisk'
    BY <1>0, <2>1 DEF NothingLostOnDisk
  <2>3. current \in Sessions /\ \A t \in Sessions : cut[t] \subseteq cut'[t]
    BY <2>1 DEF TypeOK
  <2>4. Archived' /\ NoFileNoLines'
    BY <1>0, <2>1, <2>3 DEF Archived, NoFileNoLines
  <2> QED BY <2>2, <2>4 DEF ArchiveInv
<1>2. ASSUME NEW s \in Sessions, PollAppends(s), UNCHANGED <<aside, asideFiles, archive, fd,
             late, cut, rot>>, current' = current \/ rot = "none"
      PROVE  ArchiveInv'
  <2>1. /\ written[s] + 1 \in LineId /\ written' = [written EXCEPT ![s] = @ + 1]
        /\ live' = [live EXCEPT ![s] = Append(@, written[s] + 1)]
        /\ liveFiles' = liveFiles \cup {s}
    BY <1>2, LogType DEF PollAppends, Log, Events
  <2> QED BY <1>0, <1>2, <2>1, ArchiveAppend
<1>3. ASSUME UNCHANGED <<diskVars, logVars, rot>>, current' = current \/ rot = "none"
      PROVE  ArchiveInv'
  BY <1>0, <1>3 DEF ArchiveInv, NothingLostOnDisk, Archived, NoFileNoLines
<1>4. ASSUME NEW s \in Sessions, StaleTimer(s) PROVE ArchiveInv'
  BY <1>2, <1>3, <1>4 DEF StaleTimer, Idle
<1>5. CASE Emit
  <2>1. CASE PollAppends(current)
    <3>1. PICK c \in Sessions : c = current
      BY DEF TypeOK
    <3> QED BY <1>2, <1>5, <2>1, <3>1 DEF Emit
  <2>2. CASE UNCHANGED <<live, liveFiles, written, event, poking>>
    BY <1>3, <1>5, <2>2 DEF Emit
  <2> QED BY <1>5, <2>1, <2>2 DEF Emit
<1>6. ASSUME NEW s \in Sessions, Notify(s) PROVE ArchiveInv'
  BY <1>3, <1>6 DEF Notify, Idle
<1>7. ASSUME NEW s \in Sessions, RotateCheck(s) PROVE ArchiveInv'
  <2>1. /\ current' = s /\ rot' \in {"leftover", "rename"}
        /\ rot' = "rename" => aside[s] = <<>>
        /\ UNCHANGED <<diskVars, logVars>>
    BY <1>0, <1>7 DEF RotateCheck, RotationFrame, NoFileNoLines
  <2> QED BY <1>0, <2>1, LinesOfEmpty DEF ArchiveInv, NothingLostOnDisk, Archived, NoFileNoLines
<1>8. ASSUME NEW s \in Sessions, PruneArchive(s) PROVE ArchiveInv'
  <2>1. /\ archive'[s] = {} /\ cut'[s] = cut[s] \cup archive[s] /\ rot = "none"
        /\ \A t \in Sessions : t # s => archive'[t] = archive[t] /\ cut'[t] = cut[t]
        /\ UNCHANGED <<live, liveFiles, aside, asideFiles, fd, written, late, rot>>
    BY <1>8 DEF PruneArchive, Idle, TypeOK
  <2> QED BY <1>0, <2>1 DEF ArchiveInv, NothingLostOnDisk, Archived, NoFileNoLines
<1>9. CASE Poke
  <2>1. current' = current
    BY <1>9 DEF Poke, Consume
  <2> QED BY <1>3, <1>9, <2>1 DEF Poke
<1>10. CASE Crash \/ Shutdown
  BY <1>10, ArchiveStutter DEF Crash, Shutdown, Die
<1>11. CASE Autosave \/ PlayerAction \/ Start \/ Ready \/ UNCHANGED vars
  BY <1>3, <1>11 DEF Autosave, PlayerAction, Start, Ready, vars
<1> QED BY <1>0, <1>1, <1>4, <1>5, <1>6, <1>7, <1>8, <1>9, <1>10, <1>11, ArchiveHook,
           ArchiveRotation DEF Next

LEMMA WatcherHolds == Spec => []WatcherInv
BY WatcherInit, WatcherStep, PTL DEF Spec

\* Wherever a rotation is cut off, by an error or a crash, a line that reached the
\* live file is in the live, the renamed or the archive file.
THEOREM RotationLosesNothing == Spec => []NothingLostOnDisk
<1>1. ArchiveInv => NothingLostOnDisk
  BY DEF ArchiveInv
<1> QED BY <1>1, TypeCorrect, WatcherHolds, ArchiveInit, ArchiveStep, PTL DEF Spec

-----------------------------------------------------------------------------
(* What the economy has counted: one session                               *)

LEMMA SessionTypes ==
  ASSUME TypeOK, NEW s \in Sessions
  PROVE  /\ live[s] \in Seq(LineId) /\ Len(live[s]) \in Nat
         /\ aside[s] \in Seq(LineId) /\ Len(aside[s]) \in Nat
         /\ PendingOf(s) \in Seq(LineId) /\ Len(PendingOf(s)) \in Nat
         /\ seen[s] \in Nat /\ offsets[s] \in Nat /\ written[s] \in Nat
         /\ late[s] \subseteq LineId
BY BoundsAssumption DEF TypeOK, PendingOf

LEMMA EconomyTypes ==
  ASSUME NEW economy \in Saves, NEW s \in Sessions
  PROVE  /\ economy.applied[s] \in [LineId -> Nat] /\ economy.cursors[s] \in Nat
         /\ \A l \in LineId : economy.applied[s][l] \in Nat
BY DEF Saves

\* A read that starts inside the file returns the lines from there on.
LEMMA NewLinesSeq ==
  ASSUME NEW file \in Seq(LineId), NEW offset \in Nat, offset <= Len(file)
  PROVE  /\ Len(NewLines(file, offset)) = Len(file) - offset
         /\ \A k \in 1..(Len(file) - offset) :
              NewLines(file, offset)[k] = file[offset + k] /\ offset + k \in 1..Len(file)
<1>1. Len(file) \in Nat /\ ~(offset > Len(file))
  OBVIOUS
<1>2. /\ Len(SubSeq(file, offset + 1, Len(file))) = Len(file) - offset
      /\ \A k \in 1..(Len(file) - offset) :
           SubSeq(file, offset + 1, Len(file))[k] = file[offset + k]
  BY <1>1
<1>3. \A k \in 1..(Len(file) - offset) : offset + k \in 1..Len(file)
  BY <1>1
<1> QED BY <1>1, <1>2, <1>3 DEF NewLines

\* A shrunk file is read from its start.
LEMMA WholeFile ==
  ASSUME NEW file \in Seq(LineId), NEW offset \in Nat,
         offset = 0 \/ offset > Len(file)
  PROVE  LinesOf(NewLines(file, offset)) = LinesOf(file)
<1>1. CASE offset > Len(file)
  BY <1>1 DEF NewLines
<1>2. CASE offset = 0
  <2>1. Len(file) \in Nat /\ offset <= Len(file)
    BY <1>2
  <2>2. LinesOf(NewLines(file, offset)) = LinesFrom(file, offset)
    BY <2>1, NewLinesOfFile
  <2>3. (offset + 1)..Len(file) = 1..Len(file)
    BY <1>2
  <2>4. LinesFrom(file, offset) = LinesOf(file)
    BY <2>3 DEF LinesFrom, LinesOf
  <2> QED BY <2>2, <2>4
<1> QED BY <1>1, <1>2

LEMMA LineAt ==
  ASSUME NEW file \in Seq(LineId), NEW p \in 1..Len(file)
  PROVE  file[p] \in LineId /\ file[p] \in LinesOf(file)
BY DEF LinesOf

\* With nothing read and not emitted, the economy in memory is fit to be saved.
LEMMA SettledAtMostOnce ==
  ASSUME TypeOK, NEW s \in Sessions, CountedAtMostOnce(s), AppliedOnce(save, s),
         PendingOf(s) = <<>>
  PROVE  SavedAtMostOnce(save, s)
<1>1. seen[s] \in Nat /\ save.cursors[s] \in Nat /\ Len(PendingOf(s)) = 0
  BY SessionTypes, EconomyTypes DEF TypeOK
<1>2. ASSUME NEW p \in 1..Len(live[s]), save.applied[s][live[s][p]] > 0
      PROVE  p <= save.cursors[s]
  BY <1>1, <1>2, SessionTypes DEF CountedAtMostOnce
<1> QED BY <1>2 DEF SavedAtMostOnce

LEMMA SettledExactly ==
  ASSUME TypeOK, PhaseInv, NEW s \in Sessions, CountedExactly(s),
         PendingOf(s) = <<>>, ~Reading(s), ~Draining(s)
  PROVE  SavedExactly(save, s)
<1> DEFINE c == save.cursors[s]
           p0 == offsets[s]
<1>1. /\ live[s] \in Seq(LineId) /\ Len(live[s]) \in Nat /\ seen[s] \in Nat /\ p0 \in Nat
      /\ c \in Nat /\ Len(PendingOf(s)) = 0 /\ LinesOf(PendingOf(s)) = {}
  BY SessionTypes, EconomyTypes, LinesOfEmpty DEF TypeOK
<1>2. p0 <= Len(live[s]) /\ seen[s] <= p0
  BY <1>1 DEF CountedExactly
<1>3. UnreadLines(s) = LinesFrom(live[s], p0)
  BY <1>1, <1>2, NewLinesOfFile DEF UnreadLines, UnreadLive, Reading
<1>4. Uncounted(save, s) \subseteq LinesFrom(live[s], p0)
  BY <1>1, <1>3 DEF CountedExactly
<1>5. CASE s \notin scan
  <2>1. c <= p0
    BY <1>1, <1>2, <1>5 DEF CountedExactly
  <2>2. LinesFrom(live[s], p0) \subseteq LinesFrom(live[s], c)
    BY <1>1, <2>1 DEF LinesFrom
  <2> QED BY <1>1, <1>2, <1>4, <2>1, <2>2 DEF SavedExactly
<1>6. CASE s \in scan
  <2>1. p0 = 0 /\ c <= Len(live[s])
    BY <1>6 DEF PhaseInv, CountedExactly
  <2>2. \A p \in 1..c : save.applied[s][live[s][p]] > 0
    BY <1>6 DEF CountedExactly
  <2>3. ASSUME NEW l \in Uncounted(save, s) PROVE l \in LinesFrom(live[s], c)
    <3>1. PICK p \in 1..Len(live[s]) : l = live[s][p]
      BY <1>4, <2>1, <2>3 DEF LinesFrom
    <3>2. save.applied[s][live[s][p]] = 0
      BY <2>3, <3>1 DEF Uncounted
    <3>3. p \notin 1..c
      BY <2>2, <3>2
    <3> QED BY <1>1, <3>1, <3>3 DEF LinesFrom
  <2> QED BY <2>1, <2>3 DEF SavedExactly
<1> QED BY <1>5, <1>6

-----------------------------------------------------------------------------
(* A session that a step does not read, write or count                     *)

\* What is read stays read, or goes with its file.
LEMMA AtMostOnceKept ==
  ASSUME TypeOK, TypeOK', NEW s \in Sessions, CountedAtMostOnce(s),
         seen'[s] = seen[s], offsets'[s] = offsets[s],
         save'.applied[s] = save.applied[s], save'.cursors[s] = save.cursors[s],
         PendingOf(s)' = PendingOf(s), s \in scan => s \in scan',
         phase' = phase \/ PendingOf(s) = <<>>,
         live'[s] = live[s] \/ live'[s] = <<>>, UnreadLines(s)' \subseteq UnreadLines(s),
         Draining(s)' => Draining(s)
  PROVE  CountedAtMostOnce(s)'
<1>1. \A p \in 1..Len(live'[s]) : p \in 1..Len(live[s]) /\ live'[s][p] = live[s][p]
  OBVIOUS
<1>2. \A k \in 1..Len(PendingOf(s)) : phase' = phase
  BY SessionTypes
<1> QED BY <1>1, <1>2 DEF CountedAtMostOnce

\* What a step leaves alone of session s.
Untouched(s) ==
  /\ live'[s] = live[s] /\ (Reading(s) => aside'[s] = aside[s])
  /\ written'[s] = written[s] /\ late'[s] = late[s]
  /\ seen'[s] = seen[s] /\ offsets'[s] = offsets[s]
  /\ save'.applied[s] = save.applied[s] /\ save'.cursors[s] = save.cursors[s]
  /\ PendingOf(s)' = PendingOf(s) /\ (s \in scan' <=> s \in scan)
  /\ (Reading(s)' <=> Reading(s)) /\ (Draining(s)' <=> Draining(s))
  /\ excuse[s] \subseteq excuse'[s]

\* A step may save the economy of a session it leaves alone, once nothing of it waits.
MaySave(s) ==
  \/ UNCHANGED saveFile /\ stale'[s] = stale[s]
  \/ /\ saveFile' = save' /\ stale'[s] = FALSE
     /\ phase # "down" /\ PendingOf(s) = <<>> /\ ~Reading(s) /\ ~Draining(s)

LEMMA UnreadUntouched ==
  ASSUME NEW s \in Sessions, live'[s] = live[s], offsets'[s] = offsets[s],
         Reading(s)' <=> Reading(s), Reading(s) => aside'[s] = aside[s]
  PROVE  UnreadLines(s)' = UnreadLines(s)
BY DEF UnreadLines, UnreadLive, Reading

LEMMA SessionUntouched ==
  ASSUME TypeOK, TypeOK', PhaseInv, NEW s \in Sessions, AtMostOnce(s), Exactly(s),
         Untouched(s), MaySave(s), phase' = phase
  PROVE  AtMostOnce(s)' /\ Exactly(s)'
<1>1. UnreadLines(s)' = UnreadLines(s)
  BY UnreadUntouched DEF Untouched
<1>2. phase # "down" /\ CountedAtMostOnce(s) => CountedAtMostOnce(s)'
  BY <1>1, AtMostOnceKept DEF Untouched
<1>3. phase # "down" /\ CountedExactly(s) => CountedExactly(s)'
  BY <1>1 DEF Untouched, CountedExactly, Uncounted
<1>4. AppliedOnce(save, s) => AppliedOnce(save, s)'
  BY DEF Untouched, AppliedOnce
<1>5. CASE UNCHANGED saveFile /\ stale'[s] = stale[s]
  <2>1. SavedAtMostOnce(saveFile, s) => SavedAtMostOnce(saveFile, s)'
    BY <1>5 DEF Untouched, SavedAtMostOnce, AppliedOnce
  <2>2. SavedExactly(saveFile, s) => SavedExactly(saveFile, s)'
    BY <1>5 DEF Untouched, SavedExactly, Uncounted
  <2> QED BY <1>2, <1>3, <1>4, <1>5, <2>1, <2>2 DEF Untouched, AtMostOnce, Exactly
<1>6. CASE /\ saveFile' = save' /\ stale'[s] = FALSE
           /\ phase # "down" /\ PendingOf(s) = <<>> /\ ~Reading(s) /\ ~Draining(s)
  <2>1. CountedAtMostOnce(s) /\ AppliedOnce(save, s) => SavedAtMostOnce(saveFile, s)'
    <3>1. SavedAtMostOnce(save, s) => SavedAtMostOnce(saveFile, s)'
      BY <1>6 DEF Untouched, SavedAtMostOnce, AppliedOnce
    <3> QED BY <1>6, <3>1, SettledAtMostOnce
  <2>2. CountedExactly(s) => SavedExactly(saveFile, s)'
    <3>1. SavedExactly(save, s) => SavedExactly(saveFile, s)'
      BY <1>6 DEF Untouched, SavedExactly, Uncounted
    <3> QED BY <1>6, <3>1, SettledExactly
  <2> QED BY <1>2, <1>3, <1>4, <1>6, <2>1, <2>2 DEF Untouched, AtMostOnce, Exactly
<1> QED BY <1>5, <1>6 DEF MaySave

-----------------------------------------------------------------------------
(* A session that logs a line                                              *)

\* The lines a step adds to the log of s: none or one.
New(s) == (1..written'[s]) \ (1..written[s])

\* The next line of s goes to the live file, or elsewhere and is late.
LogsLine(s) ==
  /\ written[s] + 1 \in LineId /\ written'[s] = written[s] + 1
  /\ \/ /\ live'[s] = Append(live[s], written[s] + 1)
        /\ aside'[s] = aside[s] /\ late'[s] = late[s]
     \/ /\ live'[s] = live[s] /\ late'[s] = late[s] \cup {written[s] + 1}
        /\ aside'[s] = aside[s] \/ aside'[s] = Append(aside[s], written[s] + 1)

LogsNothing(s) ==
  /\ written'[s] = written[s] /\ live'[s] = live[s]
  /\ aside'[s] = aside[s] /\ late'[s] = late[s]

LEMMA NewLogged ==
  ASSUME TypeOK, NEW s \in Sessions, LogsLine(s)
  PROVE  New(s) = {written[s] + 1}
<1>1. written[s] \in Nat
  BY SessionTypes
<1> QED BY <1>1 DEF New, LogsLine

LEMMA AppendSeq ==
  ASSUME NEW file \in Seq(LineId), NEW l \in LineId
  PROVE  /\ Len(file) \in Nat /\ Len(Append(file, l)) = Len(file) + 1
         /\ \A p \in 1..Len(file) : Append(file, l)[p] = file[p]
         /\ Append(file, l)[Len(file) + 1] = l
         /\ Append(file, l) \in Seq(LineId)
OBVIOUS

LEMMA AppendFrom ==
  ASSUME NEW file \in Seq(LineId), NEW l \in LineId, NEW c \in Nat, c <= Len(file)
  PROVE  LinesFrom(Append(file, l), c) = LinesFrom(file, c) \cup {l}
<1> DEFINE longer == Append(file, l)
<1>1. /\ Len(file) \in Nat /\ Len(longer) = Len(file) + 1
      /\ \A p \in 1..Len(file) : longer[p] = file[p]
      /\ longer[Len(file) + 1] = l
  BY AppendSeq
<1> HIDE DEF longer
<1>2. (c + 1)..Len(longer) = ((c + 1)..Len(file)) \cup {Len(file) + 1}
  BY <1>1
<1>3. \A p \in (c + 1)..Len(file) : longer[p] = file[p]
  BY <1>1
<1>4. LinesFrom(longer, c) = LinesFrom(file, c) \cup {l}
  BY <1>1, <1>2, <1>3 DEF LinesFrom
<1> QED BY <1>4 DEF longer

\* Where the lines that a step logs can be found, and what stays where it was.
LEMMA Grown ==
  ASSUME WatcherInv, LagInv, NEW s \in Sessions, LogsLine(s) \/ LogsNothing(s),
         offsets'[s] = offsets[s], Reading(s)' <=> Reading(s)
  PROVE  /\ New(s) \subseteq LineId
         /\ \A l \in New(s) : /\ save.applied[s][l] = 0 /\ l \notin LinesOf(PendingOf(s))
                              /\ l \notin UnreadLines(s)
         /\ Len(live[s]) <= Len(live'[s]) /\ Len(live'[s]) \in Nat
         /\ Len(aside[s]) <= Len(aside'[s])
         /\ \A p \in 1..Len(live'[s]) :
              \/ p \in 1..Len(live[s]) /\ live'[s][p] = live[s][p]
              \/ live'[s][p] \in New(s)
         /\ \A p \in 1..Len(live[s]) : live'[s][p] = live[s][p]
         /\ UnreadLines(s)' \subseteq UnreadLines(s) \cup New(s)
         /\ offsets[s] <= Len(IF Reading(s) THEN aside[s] ELSE live[s]) =>
              UnreadLines(s) \cup (New(s) \ late'[s]) \subseteq UnreadLines(s)'
         /\ \A c \in Nat : c <= Len(live[s]) =>
              LinesFrom(live[s], c) \cup (New(s) \ late'[s]) \subseteq LinesFrom(live'[s], c)
         /\ \A l \in (1..written'[s]) \ late'[s] :
              l \in (1..written[s]) \ late[s] \/ l \in New(s) \ late'[s]
<1>1. TypeOK
  BY DEF WatcherInv
<1>2. /\ live[s] \in Seq(LineId) /\ Len(live[s]) \in Nat /\ aside[s] \in Seq(LineId)
      /\ Len(aside[s]) \in Nat /\ offsets[s] \in Nat /\ written[s] \in Nat
  BY <1>1, SessionTypes
<1>3. CASE LogsNothing(s)
  <2>1. New(s) = {}
    BY <1>3 DEF LogsNothing, New
  <2>2. UnreadLines(s)' = UnreadLines(s)
    BY <1>3, UnreadUntouched DEF LogsNothing
  <2> QED BY <1>2, <1>3, <2>1, <2>2 DEF LogsNothing
<1>4. CASE LogsLine(s)
  <2> DEFINE l == written[s] + 1
  <2>1. New(s) = {l} /\ l \in LineId
    BY <1>1, <1>4, NewLogged DEF LogsLine
  <2>2. /\ l \notin LinesOf(live[s]) /\ l \notin LinesOf(aside[s])
        /\ l \notin LinesOf(PendingOf(s))
    BY <2>1, NextLineIsNew, LinesOfEmpty DEF PendingOf
  <2>3. save.applied[s][l] = 0
    <3>1. save.applied[s][l] \in Nat /\ ~(l <= written[s])
      BY <1>1, <1>2, <2>1, EconomyTypes DEF TypeOK
    <3> QED BY <2>1, <3>1 DEF LagInv
  <2>4. l \notin UnreadLines(s)
    <3>1. UnreadLines(s) \subseteq LinesOf(live[s]) \cup LinesOf(aside[s])
      BY <1>2, NewLinesOfFile DEF UnreadLines, UnreadLive
    <3> QED BY <2>2, <3>1
  <2>5. \A x \in (1..written'[s]) \ late'[s] : x \in (1..written[s]) \ late[s] \/ x \in New(s) \ late'[s]
    BY <1>4 DEF LogsLine, New
  <2>6. /\ UnreadLines(s) = IF Reading(s) THEN LinesOf(live[s]) \cup LinesOf(NewLines(aside[s], offsets[s]))
                                          ELSE LinesOf(NewLines(live[s], offsets[s]))
        /\ UnreadLines(s)' = IF Reading(s) THEN LinesOf(live'[s]) \cup LinesOf(NewLines(aside'[s], offsets[s]))
                                           ELSE LinesOf(NewLines(live'[s], offsets[s]))
    BY DEF UnreadLines, UnreadLive, Reading
  <2>7. CASE live'[s] = Append(live[s], l) /\ aside'[s] = aside[s] /\ late'[s] = late[s]
    <3>1. /\ Len(live'[s]) = Len(live[s]) + 1 /\ live'[s] \in Seq(LineId)
          /\ \A p \in 1..Len(live[s]) : live'[s][p] = live[s][p]
          /\ live'[s][Len(live[s]) + 1] = l
      BY <1>2, <2>1, <2>7, AppendSeq
    <3>2. \A p \in 1..Len(live'[s]) :
              \/ p \in 1..Len(live[s]) /\ live'[s][p] = live[s][p]
              \/ live'[s][p] \in New(s)
      BY <1>2, <2>1, <3>1
    <3>3. /\ LinesOf(live'[s]) = LinesOf(live[s]) \cup {l}
          /\ LinesOf(NewLines(live'[s], offsets[s])) \subseteq LinesOf(NewLines(live[s], offsets[s])) \cup {l}
      BY <1>2, <2>1, <2>7, AppendLines, AppendUnread
    <3>4. \A c \in Nat : c <= Len(live[s]) =>
              LinesFrom(live[s], c) \cup {l} = LinesFrom(live'[s], c)
      BY <1>2, <2>1, <2>7, AppendFrom
    <3>5. ASSUME ~Reading(s), offsets[s] <= Len(live[s])
          PROVE  UnreadLines(s) \cup {l} = UnreadLines(s)'
      <4>1. offsets[s] <= Len(live'[s])
        BY <1>2, <3>1, <3>5
      <4>2. /\ LinesOf(NewLines(live[s], offsets[s])) = LinesFrom(live[s], offsets[s])
            /\ LinesOf(NewLines(live'[s], offsets[s])) = LinesFrom(live'[s], offsets[s])
        BY <1>2, <3>1, <3>5, <4>1, NewLinesOfFile
      <4> QED BY <1>2, <2>6, <3>4, <3>5, <4>2
    <3>6. UnreadLines(s)' \subseteq UnreadLines(s) \cup {l}
      BY <2>6, <2>7, <3>3
    <3>7. offsets[s] <= Len(IF Reading(s) THEN aside[s] ELSE live[s]) =>
              UnreadLines(s) \cup {l} \subseteq UnreadLines(s)'
      BY <2>6, <2>7, <3>3, <3>5
    <3> HIDE DEF l
    <3> QED BY <1>2, <2>1, <2>2, <2>3, <2>4, <2>5, <2>7, <3>1, <3>2, <3>4, <3>6, <3>7
  <2>8. CASE /\ live'[s] = live[s] /\ late'[s] = late[s] \cup {l}
             /\ aside'[s] = aside[s] \/ aside'[s] = Append(aside[s], l)
    <3>1. New(s) \ late'[s] = {}
      BY <2>1, <2>8
    <3>2. Len(aside[s]) <= Len(aside'[s])
      BY <1>2, <2>1, <2>8, AppendSeq
    <3>3. LinesOf(NewLines(aside'[s], offsets[s])) \subseteq LinesOf(NewLines(aside[s], offsets[s])) \cup {l}
      BY <1>2, <2>1, <2>8, AppendUnread
    <3>4. offsets[s] <= Len(aside[s]) =>
            LinesOf(NewLines(aside[s], offsets[s])) \subseteq LinesOf(NewLines(aside'[s], offsets[s]))
      <4> SUFFICES ASSUME offsets[s] <= Len(aside[s]), aside'[s] = Append(aside[s], l)
                   PROVE  LinesOf(NewLines(aside[s], offsets[s])) \subseteq LinesOf(NewLines(aside'[s], offsets[s]))
        BY <2>8
      <4>1. offsets[s] <= Len(aside'[s]) /\ aside'[s] \in Seq(LineId)
        BY <1>2, <2>1, AppendSeq
      <4>2. LinesFrom(aside[s], offsets[s]) \subseteq LinesFrom(aside'[s], offsets[s])
        BY <1>2, <2>1, AppendFrom
      <4>3. LinesOf(NewLines(aside[s], offsets[s])) = LinesFrom(aside[s], offsets[s])
        BY <1>2, NewLinesOfFile
      <4>4. LinesOf(NewLines(aside'[s], offsets[s])) = LinesFrom(aside'[s], offsets[s])
        BY <1>2, <4>1, NewLinesOfFile
      <4> QED BY <4>2, <4>3, <4>4
    <3>5. UnreadLines(s)' \subseteq UnreadLines(s) \cup {l}
      BY <2>6, <2>8, <3>3
    <3>6. offsets[s] <= Len(IF Reading(s) THEN aside[s] ELSE live[s]) =>
              UnreadLines(s) \subseteq UnreadLines(s)'
      BY <2>6, <2>8, <3>4
    <3> HIDE DEF l
    <3> QED BY <1>2, <2>1, <2>2, <2>3, <2>4, <2>5, <2>8, <3>1, <3>2, <3>5, <3>6
  <2> QED BY <1>4, <2>7, <2>8 DEF LogsLine
<1> QED BY <1>3, <1>4

\* The save on disk when a line is logged: it has not counted the line.
LEMMA SavedWhenLogged ==
  ASSUME WatcherInv, TypeOK', LagInv, NEW s \in Sessions, LogsLine(s) \/ LogsNothing(s),
         offsets'[s] = offsets[s], Reading(s)' <=> Reading(s),
         UNCHANGED saveFile
  PROVE  /\ SavedAtMostOnce(saveFile, s) => SavedAtMostOnce(saveFile, s)'
         /\ SavedExactly(saveFile, s) => SavedExactly(saveFile, s)'
<1> DEFINE c == saveFile.cursors[s]
<1>1. TypeOK
  BY DEF WatcherInv
<1>2. c \in Nat /\ Len(live[s]) \in Nat /\ \A l \in LineId : saveFile.applied[s][l] \in Nat
  BY <1>1, EconomyTypes, SessionTypes DEF TypeOK
<1>3. \A l \in New(s) : l \in LineId /\ saveFile.applied[s][l] = 0
  <2>1. \A l \in New(s) : l \in LineId /\ save.applied[s][l] = 0
    BY Grown
  <2> QED BY <1>2, <2>1 DEF LagInv
<1>4. ASSUME SavedAtMostOnce(saveFile, s), NEW p \in 1..Len(live'[s]),
             saveFile.applied[s][live'[s][p]] > 0
      PROVE  p <= c
  <2>1. p \in 1..Len(live[s]) /\ live'[s][p] = live[s][p]
    BY <1>3, <1>4, Grown
  <2> QED BY <1>4, <2>1 DEF SavedAtMostOnce
<1>5. SavedAtMostOnce(saveFile, s) => SavedAtMostOnce(saveFile, s)'
  BY <1>4 DEF SavedAtMostOnce, AppliedOnce
<1>6. ASSUME SavedExactly(saveFile, s) PROVE SavedExactly(saveFile, s)'
  <2>1. c <= Len(live[s]) /\ Len(live[s]) <= Len(live'[s]) /\ Len(live'[s]) \in Nat
    BY <1>6, Grown DEF SavedExactly
  <2>2. LinesFrom(live[s], c) \cup (New(s) \ late'[s]) \subseteq LinesFrom(live'[s], c)
    BY <1>2, <2>1, Grown
  <2>3. ASSUME NEW l \in Uncounted(saveFile, s)' PROVE l \in LinesFrom(live'[s], c)
    <3>1. l \in (1..written[s]) \ late[s] \/ l \in New(s) \ late'[s]
      BY <2>3, Grown DEF Uncounted
    <3>2. CASE l \in (1..written[s]) \ late[s]
      BY <1>6, <2>2, <2>3, <3>2 DEF Uncounted, SavedExactly
    <3> QED BY <2>2, <3>1, <3>2
  <2>4. c <= Len(live'[s])
    BY <1>2, <2>1
  <2> QED BY <2>3, <2>4 DEF SavedExactly
<1> QED BY <1>5, <1>6

LEMMA CountedWhenLogged ==
  ASSUME WatcherInv, TypeOK', PhaseInv, LagInv, NEW s \in Sessions, LogsLine(s),
         seen'[s] = seen[s], offsets'[s] = offsets[s], UNCHANGED <<save, phase, scan>>,
         PendingOf(s)' = PendingOf(s), Reading(s)' <=> Reading(s), Draining(s)' <=> Draining(s)
  PROVE  /\ CountedAtMostOnce(s) => CountedAtMostOnce(s)'
         /\ CountedExactly(s) => CountedExactly(s)'
<1>1. TypeOK
  BY DEF WatcherInv
<1>2. /\ Len(live[s]) \in Nat /\ offsets[s] \in Nat /\ save.cursors[s] \in Nat
      /\ Len(aside[s]) \in Nat /\ Len(aside'[s]) \in Nat
  <2>1. aside'[s] \in Seq(LineId)
    BY DEF TypeOK
  <2>2. Len(aside'[s]) \in Nat
    BY <2>1
  <2>3. save \in Saves
    BY <1>1 DEF TypeOK
  <2> QED BY <1>1, <2>2, <2>3, SessionTypes, EconomyTypes
<1>3. ASSUME CountedAtMostOnce(s) PROVE CountedAtMostOnce(s)'
  <2>1. ASSUME NEW p \in 1..Len(live'[s]), save.applied[s][live'[s][p]] > 0
        PROVE  p <= save.cursors[s] \/ p <= seen[s] + Len(PendingOf(s))
    <3>1. p \in 1..Len(live[s]) /\ live'[s][p] = live[s][p]
      BY <2>1, Grown
    <3> QED BY <1>3, <2>1, <3>1 DEF CountedAtMostOnce
  <2>2. ASSUME NEW l \in UnreadLines(s)', save.applied[s][l] > 0 PROVE s \in scan
    <3>1. l \in UnreadLines(s)
      BY <2>2, Grown
    <3> QED BY <1>3, <2>2, <3>1 DEF CountedAtMostOnce
  <2> QED BY <1>3, <2>1, <2>2 DEF CountedAtMostOnce
<1>4. ASSUME CountedExactly(s) PROVE CountedExactly(s)'
  <2>1. /\ Len(live[s]) <= Len(live'[s]) /\ Len(live'[s]) \in Nat
        /\ Len(aside[s]) <= Len(aside'[s])
        /\ \A p \in 1..Len(live[s]) : live'[s][p] = live[s][p]
    BY Grown
  <2>2. offsets[s] <= Len(IF Reading(s) THEN aside[s] ELSE live[s])
    BY <1>4 DEF CountedExactly
  <2>3. UnreadLines(s) \cup (New(s) \ late'[s]) \subseteq UnreadLines(s)'
    BY <2>2, Grown
  <2>4. offsets[s] <= Len(IF Reading(s) THEN aside'[s] ELSE live'[s])
    BY <1>2, <2>1, <2>2
  <2>5. ASSUME NEW l \in Uncounted(save, s)' PROVE l \in UnreadLines(s)' \cup LinesOf(PendingOf(s))
    <3>1. l \in (1..written[s]) \ late[s] \/ l \in New(s) \ late'[s]
      BY <2>5, Grown DEF Uncounted
    <3>2. CASE l \in (1..written[s]) \ late[s]
      BY <1>4, <2>3, <2>5, <3>2 DEF Uncounted, CountedExactly
    <3> QED BY <2>3, <3>1, <3>2
  <2>6. ASSUME s \in scan
        PROVE  /\ save.cursors[s] <= Len(live'[s])
               /\ \A p \in 1..save.cursors[s] : save.applied[s][live'[s][p]] > 0
    <3>1. save.cursors[s] <= Len(live[s]) /\ \A p \in 1..save.cursors[s] : save.applied[s][live[s][p]] > 0
      BY <1>4, <2>6 DEF CountedExactly
    <3>2. \A p \in 1..save.cursors[s] : p \in 1..Len(live[s])
      BY <1>2, <3>1
    <3>3. save.cursors[s] <= Len(live'[s])
      BY <1>2, <2>1, <3>1
    <3> QED BY <2>1, <3>1, <3>2, <3>3
  <2> QED BY <1>4, <2>4, <2>5, <2>6 DEF CountedExactly
<1> QED BY <1>3, <1>4

LEMMA SessionLogs ==
  ASSUME WatcherInv, TypeOK', PhaseInv, LagInv, NEW s \in Sessions, AtMostOnce(s), Exactly(s),
         LogsLine(s),
         seen'[s] = seen[s], offsets'[s] = offsets[s],
         UNCHANGED <<save, saveFile, phase, scan, stale, excuse>>,
         PendingOf(s)' = PendingOf(s), Reading(s)' <=> Reading(s), Draining(s)' <=> Draining(s)
  PROVE  AtMostOnce(s)' /\ Exactly(s)'
<1>1. /\ SavedAtMostOnce(saveFile, s) => SavedAtMostOnce(saveFile, s)'
      /\ SavedExactly(saveFile, s) => SavedExactly(saveFile, s)'
  BY SavedWhenLogged
<1>2. /\ CountedAtMostOnce(s) => CountedAtMostOnce(s)'
      /\ CountedExactly(s) => CountedExactly(s)'
  BY CountedWhenLogged
<1>3. AppliedOnce(save, s) => AppliedOnce(save, s)'
  BY DEF AppliedOnce
<1> QED BY <1>1, <1>2, <1>3 DEF AtMostOnce, Exactly

-----------------------------------------------------------------------------
(* The session whose line is emitted                                       *)

LEMMA HeadAndTail ==
  ASSUME NEW lines \in Seq(LineId), lines # <<>>, Injective(lines)
  PROVE  /\ Len(lines) \in Nat /\ Len(lines) >= 1 /\ lines[1] = Head(lines)
         /\ Len(Tail(lines)) = Len(lines) - 1
         /\ \A k \in 1..Len(Tail(lines)) :
              k + 1 \in 1..Len(lines) /\ Tail(lines)[k] = lines[k + 1] /\ Tail(lines)[k] # Head(lines)
         /\ LinesOf(lines) = {Head(lines)} \cup LinesOf(Tail(lines))
<1>1. /\ Len(lines) \in Nat /\ Len(lines) >= 1 /\ lines[1] = Head(lines)
      /\ Len(Tail(lines)) = Len(lines) - 1
      /\ \A k \in 1..(Len(lines) - 1) : Tail(lines)[k] = lines[k + 1]
  OBVIOUS
<1>2. \A k \in 1..(Len(lines) - 1) : k + 1 \in 1..Len(lines) /\ k + 1 # 1
  BY <1>1
<1>3. \A k \in 1..(Len(lines) - 1) : lines[k + 1] # lines[1]
  BY <1>1, <1>2 DEF Injective
<1>4. ASSUME NEW x \in LinesOf(lines) PROVE x \in {Head(lines)} \cup LinesOf(Tail(lines))
  <2>1. PICK i \in 1..Len(lines) : x = lines[i]
    BY <1>4 DEF LinesOf
  <2>2. CASE i # 1
    <3>1. i - 1 \in 1..(Len(lines) - 1) /\ (i - 1) + 1 = i
      BY <1>1, <2>2
    <3>2. Tail(lines)[i - 1] = x
      BY <1>1, <2>1, <3>1
    <3> QED BY <1>1, <3>1, <3>2 DEF LinesOf
  <2> QED BY <1>1, <2>1, <2>2
<1>5. ASSUME NEW x \in {Head(lines)} \cup LinesOf(Tail(lines)) PROVE x \in LinesOf(lines)
  <2>1. CASE x \in LinesOf(Tail(lines))
    BY <1>1, <1>2, <2>1 DEF LinesOf
  <2>2. CASE x = Head(lines)
    <3>1. 1 \in 1..Len(lines)
      BY <1>1
    <3> QED BY <1>1, <2>2, <3>1 DEF LinesOf
  <2> QED BY <1>5, <2>1, <2>2
<1> QED BY <1>1, <1>2, <1>3, <1>4, <1>5

\* The handler of line l of session s, as far as the counts of s go: the next ordinal is
\* within the cursor and the line is skipped, or it is past it and the line is counted.
Handled(s, l) ==
  /\ seen'[s] = seen[s] + 1
  /\ \/ /\ seen[s] + 1 <= save.cursors[s]
        /\ save'.cursors[s] = save.cursors[s] /\ save'.applied[s] = save.applied[s]
     \/ /\ ~(seen[s] + 1 <= save.cursors[s])
        /\ save'.cursors[s] = seen[s] + 1
        /\ save'.applied[s] = [save.applied[s] EXCEPT ![l] = @ + 1]

LEMMA HandledLine ==
  ASSUME TypeOK, NEW s \in Sessions, NEW l \in LineId, HandleEnvelope(s, l)
  PROVE  /\ Handled(s, l) /\ UNCHANGED <<saveFile, stale>>
         /\ \A t \in Sessions \ {s} :
              /\ seen'[t] = seen[t]
              /\ save'.cursors[t] = save.cursors[t] /\ save'.applied[t] = save.applied[t]
<1>1. seen' = [seen EXCEPT ![s] = seen[s] + 1] /\ UNCHANGED <<saveFile, stale>>
  BY DEF HandleEnvelope
<1>2. /\ seen'[s] = seen[s] + 1
      /\ \A t \in Sessions \ {s} : seen'[t] = seen[t]
  BY <1>1 DEF TypeOK
<1>3. save.applied \in [Sessions -> [LineId -> Nat]] /\ save.cursors \in [Sessions -> Nat]
      /\ save = [applied |-> save.applied, cursors |-> save.cursors]
  BY DEF TypeOK, Saves
<1>4. CASE seen[s] + 1 <= save.cursors[s]
  BY <1>1, <1>2, <1>4 DEF HandleEnvelope, Handled
<1>5. CASE ~(seen[s] + 1 <= save.cursors[s])
  <2>1. save' = [save EXCEPT !.cursors[s] = seen[s] + 1, !.applied[s][l] = @ + 1]
    BY <1>5 DEF HandleEnvelope
  <2>2. /\ save'.cursors = [save.cursors EXCEPT ![s] = seen[s] + 1]
        /\ save'.applied = [save.applied EXCEPT ![s] = [save.applied[s] EXCEPT ![l] = @ + 1]]
    BY <1>3, <2>1
  <2>3. /\ save'.cursors[s] = seen[s] + 1
        /\ save'.applied[s] = [save.applied[s] EXCEPT ![l] = @ + 1]
        /\ \A t \in Sessions \ {s} :
             save'.cursors[t] = save.cursors[t] /\ save'.applied[t] = save.applied[t]
    BY <1>3, <2>2
  <2> QED BY <1>1, <1>2, <1>5, <2>3 DEF Handled
<1> QED BY <1>4, <1>5

LEMMA HandledBounds ==
  ASSUME TypeOK, NEW s \in Sessions, NEW l, Handled(s, l), seen[s] <= save.cursors[s]
  PROVE  /\ seen'[s] = seen[s] + 1 /\ seen'[s] <= save'.cursors[s]
         /\ save.cursors[s] <= save'.cursors[s] /\ save'.cursors[s] \in Nat
         /\ save'.cursors[s] = save.cursors[s] \/ save'.cursors[s] = seen'[s]
         /\ \A k \in Nat \ {0} :
              /\ seen'[s] + k <= save'.cursors[s] => seen[s] + (k + 1) <= save.cursors[s]
              /\ seen[s] + (k + 1) <= save.cursors[s] => seen'[s] + k <= save'.cursors[s]
<1>1. seen[s] \in Nat /\ save.cursors[s] \in Nat
  BY SessionTypes, EconomyTypes DEF TypeOK
<1>2. seen'[s] = seen[s] + 1
  BY DEF Handled
<1>3. CASE seen[s] + 1 <= save.cursors[s]
  <2>1. save'.cursors[s] = save.cursors[s]
    BY <1>3 DEF Handled
  <2> QED BY <1>1, <1>2, <1>3, <2>1
<1>4. CASE ~(seen[s] + 1 <= save.cursors[s])
  <2>1. save'.cursors[s] = seen[s] + 1
    BY <1>4 DEF Handled
  <2>2. seen[s] = save.cursors[s]
    BY <1>1, <1>4
  <2> QED BY <1>1, <1>2, <2>1, <2>2
<1> QED BY <1>3, <1>4

\* A handler that counts a line counts it for the first time.
LEMMA CountedAnew ==
  ASSUME TypeOK, NEW s \in Sessions, CountedAtMostOnce(s), PendingOf(s) # <<>>,
         Injective(PendingOf(s)), Handled(s, Head(PendingOf(s))), AppliedOnce(save, s)
  PROVE  /\ AppliedOnce(save, s)'
         /\ \A l \in LineId : save'.applied[s][l] > 0 =>
              save.applied[s][l] > 0 \/ l = Head(PendingOf(s))
         /\ \A l \in LineId \ {Head(PendingOf(s))} : save'.applied[s][l] = save.applied[s][l]
<1> DEFINE l == Head(PendingOf(s))
<1>1. /\ PendingOf(s) \in Seq(LineId) /\ seen[s] \in Nat /\ save.cursors[s] \in Nat
      /\ save.applied[s] \in [LineId -> Nat]
  BY SessionTypes, EconomyTypes DEF TypeOK
<1>2. l = PendingOf(s)[1] /\ 1 \in 1..Len(PendingOf(s)) /\ l \in LineId
  BY <1>1, HeadAndTail
<1>3. save.applied[s][l] > 0 => seen[s] + 1 <= save.cursors[s]
  BY <1>2 DEF CountedAtMostOnce
<1> HIDE DEF l
<1>4. CASE seen[s] + 1 <= save.cursors[s]
  BY <1>4 DEF Handled, AppliedOnce
<1>5. CASE ~(seen[s] + 1 <= save.cursors[s])
  <2>1. save'.applied[s] = [save.applied[s] EXCEPT ![l] = @ + 1]
    BY <1>5 DEF Handled, l
  <2>2. save.applied[s][l] = 0
    BY <1>1, <1>2, <1>3, <1>5
  <2>3. save'.applied[s][l] = 1 /\ \A x \in LineId \ {l} : save'.applied[s][x] = save.applied[s][x]
    BY <1>1, <1>2, <2>1, <2>2
  <2> QED BY <2>3 DEF AppliedOnce, l
<1> QED BY <1>4, <1>5

LEMMA EmitAtMostOnce ==
  ASSUME WatcherInv, TypeOK', PhaseInv, LagInv, NEW s \in Sessions, s = current,
         LogsLine(s) \/ LogsNothing(s), phase # "down", rot # "read",
         CountedAtMostOnce(s), AppliedOnce(save, s),
         pending # <<>>, PendingOf(s)' = Tail(pending), Handled(s, Head(pending)),
         offsets'[s] = offsets[s], UNCHANGED <<phase, scan>>,
         Reading(s)' <=> Reading(s), Draining(s)' <=> Draining(s)
  PROVE  CountedAtMostOnce(s)'
<1> DEFINE l == Head(pending)
<1>1. TypeOK /\ ReadOnce /\ FilesAreDistinct /\ PendingOf(s) = pending
  BY DEF WatcherInv, PendingOf
<1>2. /\ pending \in Seq(LineId) /\ seen[s] \in Nat /\ save.cursors[s] \in Nat
      /\ save.applied[s] \in [LineId -> Nat] /\ offsets[s] \in Nat
      /\ live[s] \in Seq(LineId) /\ Len(live[s]) \in Nat
  BY <1>1, SessionTypes, EconomyTypes DEF TypeOK
<1>3. /\ Len(pending) \in Nat /\ Len(pending) >= 1 /\ Len(PendingOf(s)') = Len(pending) - 1
      /\ \A k \in 1..Len(PendingOf(s)') :
           k + 1 \in 1..Len(pending) /\ PendingOf(s)'[k] = pending[k + 1] /\ PendingOf(s)'[k] # l
      /\ l \in LinesOf(pending) /\ l \in LineId
  <2>1. Injective(pending)
    BY <1>1 DEF FilesAreDistinct
  <2>2. l \in LinesOf(pending) /\ l \in LineId
    BY <1>2, <2>1, HeadAndTail, LinesOfType
  <2>3. /\ Len(pending) \in Nat /\ Len(pending) >= 1 /\ Len(Tail(pending)) = Len(pending) - 1
        /\ \A k \in 1..Len(Tail(pending)) :
             k + 1 \in 1..Len(pending) /\ Tail(pending)[k] = pending[k + 1] /\ Tail(pending)[k] # l
    BY <1>2, <2>1, HeadAndTail
  <2> QED BY <2>2, <2>3
<1>4. /\ \A x \in LineId : save'.applied[s][x] > 0 => save.applied[s][x] > 0 \/ x = l
      /\ \A x \in LineId \ {l} : save'.applied[s][x] = save.applied[s][x]
  BY <1>1, CountedAnew DEF FilesAreDistinct
<1>5. l \notin UnreadLines(s)
  BY <1>1, <1>3 DEF ReadOnce
<1> HIDE DEF l
<1>6. /\ seen'[s] = seen[s] + 1 /\ seen'[s] <= save'.cursors[s]
      /\ save.cursors[s] <= save'.cursors[s] /\ save'.cursors[s] \in Nat
      /\ seen'[s] + Len(PendingOf(s)') = seen[s] + Len(pending)
  <2>1. seen[s] <= save.cursors[s]
    BY DEF CountedAtMostOnce
  <2>2. /\ seen'[s] = seen[s] + 1 /\ seen'[s] <= save'.cursors[s]
        /\ save.cursors[s] <= save'.cursors[s] /\ save'.cursors[s] \in Nat
    BY <1>1, <2>1, HandledBounds
  <2>3. seen'[s] + Len(PendingOf(s)') = seen[s] + Len(pending)
    BY <1>2, <1>3, <2>2
  <2> QED BY <2>2, <2>3
<1>7. /\ offsets[s] <= seen[s] + Len(pending) /\ (Draining(s) => offsets[s] = 0)
  BY <1>1 DEF CountedAtMostOnce
\* The emitted line, if it is in the live file, is before the offset.
<1>8. ASSUME NEW p \in 1..Len(live[s]), live[s][p] = l PROVE p <= offsets[s]
  <2>1. UnreadLines(s) = LinesOf(NewLines(live[s], offsets[s]))
    BY DEF UnreadLines, UnreadLive
  <2>2. l \in LinesOf(live[s])
    BY <1>8 DEF LinesOf
  <2>3. offsets[s] <= Len(live[s])
    <3>1. CASE offsets[s] > Len(live[s])
      BY <1>2, <1>5, <2>1, <2>2, <3>1, WholeFile
    <3> QED BY <1>2, <3>1
  <2>4. l \notin LinesFrom(live[s], offsets[s])
    BY <1>2, <1>5, <2>1, <2>3, NewLinesOfFile
  <2>5. p \notin (offsets[s] + 1)..Len(live[s])
    BY <1>8, <2>4 DEF LinesFrom
  <2> QED BY <1>2, <2>5
<1>9. ASSUME NEW p \in 1..Len(live'[s]), save'.applied[s][live'[s][p]] > 0
      PROVE  p <= save'.cursors[s] \/ p <= seen'[s] + Len(PendingOf(s)')
  <2>1. live'[s][p] \in LineId
    BY DEF TypeOK
  <2>2. CASE live'[s][p] \in New(s)
    <3>1. save.applied[s][live'[s][p]] = 0 /\ live'[s][p] # l
      BY <1>1, <1>3, <2>2, Grown
    <3> QED BY <1>4, <1>9, <2>1, <3>1
  <2>3. CASE p \in 1..Len(live[s]) /\ live'[s][p] = live[s][p]
    <3>1. CASE live[s][p] = l
      BY <1>2, <1>3, <1>6, <1>7, <1>8, <2>3, <3>1
    <3>2. CASE live[s][p] # l
      <4>1. save.applied[s][live[s][p]] > 0
        BY <1>4, <1>9, <2>1, <2>3, <3>2
      <4>2. p <= save.cursors[s] \/ p <= seen[s] + Len(pending)
        BY <1>1, <2>3, <4>1 DEF CountedAtMostOnce
      <4> QED BY <1>2, <1>6, <4>2
    <3> QED BY <3>1, <3>2
  <2> QED BY <2>2, <2>3, Grown
<1>10. ASSUME NEW x \in UnreadLines(s)', save'.applied[s][x] > 0 PROVE s \in scan
  <2>1. x \in LineId
    BY UnreadType
  <2>2. x \in UnreadLines(s) \/ x \in New(s)
    BY Grown
  <2>3. CASE x \in New(s)
    <3>1. save.applied[s][x] = 0 /\ x # l
      BY <1>1, <1>3, <2>3, Grown
    <3> QED BY <1>4, <1>10, <2>1, <3>1
  <2>4. CASE x \in UnreadLines(s)
    <3>1. save.applied[s][x] > 0
      BY <1>4, <1>5, <1>10, <2>1, <2>4
    <3> QED BY <2>4, <3>1 DEF CountedAtMostOnce
  <2> QED BY <2>2, <2>3, <2>4
<1>11. ASSUME NEW k \in 1..Len(PendingOf(s)'), save'.applied[s][PendingOf(s)'[k]] > 0
       PROVE  phase = "replay" /\ seen'[s] + k <= save'.cursors[s]
  <2>1. k + 1 \in 1..Len(pending) /\ PendingOf(s)'[k] = pending[k + 1] /\ pending[k + 1] # l
    BY <1>3
  <2>2. save.applied[s][pending[k + 1]] > 0
    BY <1>2, <1>4, <1>11, <2>1
  <2>3. phase = "replay" /\ seen[s] + (k + 1) <= save.cursors[s]
    BY <1>1, <2>1, <2>2 DEF CountedAtMostOnce
  <2>4. k \in Nat \ {0} /\ seen[s] <= save.cursors[s]
    BY <1>3 DEF CountedAtMostOnce
  <2> QED BY <1>1, <2>3, <2>4, HandledBounds
<1>12. offsets'[s] <= seen'[s] + Len(PendingOf(s)')
  BY <1>6, <1>7
<1> QED BY <1>6, <1>7, <1>9, <1>10, <1>11, <1>12 DEF CountedAtMostOnce

LEMMA EmitExactly ==
  ASSUME WatcherInv, TypeOK', PhaseInv, LagInv, NEW s \in Sessions, s = current,
         LogsLine(s) \/ LogsNothing(s), phase # "down", rot # "read",
         CountedAtMostOnce(s), AppliedOnce(save, s), CountedExactly(s),
         pending # <<>>, PendingOf(s)' = Tail(pending), Handled(s, Head(pending)),
         offsets'[s] = offsets[s], UNCHANGED <<phase, scan>>,
         Reading(s)' <=> Reading(s), Draining(s)' <=> Draining(s)
  PROVE  CountedExactly(s)'
<1> DEFINE l == Head(pending)
<1>1. TypeOK /\ Injective(pending) /\ PendingOf(s) = pending /\ ~Reading(s)
  BY DEF WatcherInv, PendingOf, FilesAreDistinct, Reading
<1>2. /\ pending \in Seq(LineId) /\ seen[s] \in Nat /\ save.cursors[s] \in Nat
      /\ save.applied[s] \in [LineId -> Nat] /\ offsets[s] \in Nat
      /\ live[s] \in Seq(LineId) /\ Len(live[s]) \in Nat
  BY <1>1, SessionTypes, EconomyTypes DEF TypeOK
<1>3. /\ Len(pending) \in Nat /\ Len(pending) >= 1 /\ Len(PendingOf(s)') = Len(pending) - 1
      /\ \A k \in 1..Len(PendingOf(s)') :
           k + 1 \in 1..Len(pending) /\ PendingOf(s)'[k] = pending[k + 1] /\ PendingOf(s)'[k] # l
      /\ LinesOf(pending) = {l} \cup LinesOf(PendingOf(s)')
      /\ pending[1] = l /\ 1 \in 1..Len(pending) /\ l \in LineId
  <2>1. /\ Len(pending) \in Nat /\ Len(pending) >= 1 /\ Len(Tail(pending)) = Len(pending) - 1
        /\ \A k \in 1..Len(Tail(pending)) :
             k + 1 \in 1..Len(pending) /\ Tail(pending)[k] = pending[k + 1] /\ Tail(pending)[k] # l
        /\ LinesOf(pending) = {l} \cup LinesOf(Tail(pending)) /\ pending[1] = l
    BY <1>1, <1>2, HeadAndTail
  <2>2. 1 \in 1..Len(pending) /\ l \in LineId
    BY <1>2, <2>1
  <2> QED BY <2>1, <2>2
<1>4. /\ \A x \in LineId \ {l} : save'.applied[s][x] = save.applied[s][x]
  BY <1>1, CountedAnew
<1>5. /\ seen[s] + 1 <= save.cursors[s] => save.applied[s][l] > 0
      /\ s \notin scan /\ (phase = "running" => save.cursors[s] <= seen[s])
      /\ save.cursors[s] <= seen[s] + Len(pending)
      /\ offsets[s] <= Len(live[s])
      /\ ~Draining(s) => seen[s] + Len(pending) <= offsets[s]
      /\ Uncounted(save, s) \subseteq UnreadLines(s) \cup LinesOf(pending)
      /\ \A k \in 1..Len(pending) : seen[s] + k <= save.cursors[s] => save.applied[s][pending[k]] > 0
  BY <1>1, <1>3 DEF CountedExactly, PhaseInv
<1> HIDE DEF l
<1>6. save'.applied[s][l] > 0
  <2>1. CASE seen[s] + 1 <= save.cursors[s]
    BY <1>5, <2>1 DEF Handled
  <2>2. CASE ~(seen[s] + 1 <= save.cursors[s])
    <3>1. save'.applied[s] = [save.applied[s] EXCEPT ![l] = @ + 1]
      BY <2>2 DEF Handled, l
    <3>2. save'.applied[s][l] = save.applied[s][l] + 1 /\ save.applied[s][l] \in Nat
      BY <1>2, <1>3, <3>1
    <3> QED BY <3>2
  <2> QED BY <2>1, <2>2
<1>7. seen'[s] = seen[s] + 1 /\ seen'[s] + Len(PendingOf(s)') = seen[s] + Len(pending)
  BY <1>2, <1>3 DEF Handled
<1>8. offsets[s] <= Len(live'[s]) /\ UnreadLines(s) \cup (New(s) \ late'[s]) \subseteq UnreadLines(s)'
  <2>1. Len(live[s]) <= Len(live'[s]) /\ Len(live'[s]) \in Nat
    BY Grown
  <2>2. UnreadLines(s) \cup (New(s) \ late'[s]) \subseteq UnreadLines(s)'
    BY <1>1, <1>5, Grown
  <2> QED BY <1>2, <1>5, <2>1, <2>2
<1>9. ASSUME NEW x \in Uncounted(save, s)' PROVE x \in UnreadLines(s)' \cup LinesOf(PendingOf(s)')
  <2>1. x \in (1..written[s]) \ late[s] \/ x \in New(s) \ late'[s]
    BY <1>9, Grown DEF Uncounted
  <2>2. CASE x \in (1..written[s]) \ late[s]
    <3>0. written[s] \in 0..MaxLines /\ MaxLines \in Nat
      BY <1>1, BoundsAssumption DEF TypeOK
    <3>1. x \in LineId /\ x # l
      BY <1>6, <1>9, <2>2, <3>0 DEF Uncounted, LineId
    <3>2. x \in Uncounted(save, s)
      BY <1>4, <1>9, <2>2, <3>1 DEF Uncounted
    <3> QED BY <1>3, <1>5, <1>8, <3>1, <3>2
  <2> QED BY <1>8, <2>1, <2>2
<1>10. /\ save'.cursors[s] <= seen'[s] + Len(PendingOf(s)')
       /\ phase = "running" => save'.cursors[s] <= seen'[s]
  BY <1>2, <1>3, <1>5, <1>7 DEF Handled
<1>11. ASSUME NEW k \in 1..Len(PendingOf(s)'), seen'[s] + k <= save'.cursors[s]
       PROVE  save'.applied[s][PendingOf(s)'[k]] > 0
  <2>1. k + 1 \in 1..Len(pending) /\ PendingOf(s)'[k] = pending[k + 1] /\ pending[k + 1] # l /\ k \in 1..Len(pending)
    BY <1>3
  <2>2. seen[s] + (k + 1) <= save.cursors[s]
    <3>1. k \in Nat \ {0} /\ seen[s] <= save.cursors[s]
      BY <1>3 DEF CountedAtMostOnce
    <3> QED BY <1>1, <1>11, <3>1, HandledBounds
  <2>3. save.applied[s][pending[k + 1]] > 0
    BY <1>5, <2>1, <2>2
  <2> QED BY <1>2, <1>4, <2>1, <2>3
<1>12. ~Reading(s)' /\ (~Draining(s)' => seen'[s] + Len(PendingOf(s)') <= offsets'[s])
  BY <1>1, <1>5, <1>7
<1> QED BY <1>5, <1>8, <1>9, <1>10, <1>11, <1>12 DEF CountedExactly

LEMMA SessionEmits ==
  ASSUME WatcherInv, TypeOK', PhaseInv, LagInv, NEW s \in Sessions, AtMostOnce(s), Exactly(s),
         s = current, LogsLine(s) \/ LogsNothing(s), phase # "down", rot # "read",
         pending # <<>>, PendingOf(s)' = Tail(pending), Handled(s, Head(pending)),
         offsets'[s] = offsets[s], UNCHANGED <<phase, scan, saveFile, stale, excuse>>,
         Reading(s)' <=> Reading(s), Draining(s)' <=> Draining(s)
  PROVE  AtMostOnce(s)' /\ Exactly(s)'
<1>1. /\ SavedAtMostOnce(saveFile, s) => SavedAtMostOnce(saveFile, s)'
      /\ SavedExactly(saveFile, s) => SavedExactly(saveFile, s)'
  BY SavedWhenLogged
<1>2. CountedAtMostOnce(s) /\ AppliedOnce(save, s) => CountedAtMostOnce(s)' /\ AppliedOnce(save, s)'
  <2>1. TypeOK /\ Injective(pending) /\ PendingOf(s) = pending
    BY DEF WatcherInv, PendingOf, FilesAreDistinct
  <2> QED BY <2>1, EmitAtMostOnce, CountedAnew
<1>3. CountedAtMostOnce(s) /\ AppliedOnce(save, s) /\ CountedExactly(s) => CountedExactly(s)'
  BY EmitExactly
<1>4. excuse[s] = {} => "nestedDrain" \notin excuse[s]
  OBVIOUS
<1> QED BY <1>1, <1>2, <1>3, <1>4 DEF AtMostOnce, Exactly

-----------------------------------------------------------------------------
(* The session whose live file is read                                     *)

\* The lines of a read, in front of those that wait.
LEMMA ReadInFront ==
  ASSUME TypeOK, NEW s \in Sessions, offsets[s] <= Len(live[s]),
         PendingOf(s)' = NewLines(live[s], offsets[s]) \o PendingOf(s)
  PROVE  LET n == Len(live[s]) - offsets[s] IN
         /\ n \in Nat /\ Len(PendingOf(s)') = n + Len(PendingOf(s))
         /\ LinesOf(PendingOf(s)') = LinesOf(NewLines(live[s], offsets[s])) \cup LinesOf(PendingOf(s))
         /\ \A k \in 1..Len(PendingOf(s)') :
              \/ /\ k \in 1..n /\ offsets[s] + k \in 1..Len(live[s])
                 /\ PendingOf(s)'[k] = live[s][offsets[s] + k]
                 /\ PendingOf(s)'[k] \in LinesOf(NewLines(live[s], offsets[s]))
              \/ k - n \in 1..Len(PendingOf(s)) /\ PendingOf(s)'[k] = PendingOf(s)[k - n]
<1> DEFINE fresh == NewLines(live[s], offsets[s])
           n == Len(live[s]) - offsets[s]
<1>1. /\ live[s] \in Seq(LineId) /\ Len(live[s]) \in Nat /\ offsets[s] \in Nat
      /\ PendingOf(s) \in Seq(LineId) /\ Len(PendingOf(s)) \in Nat
  BY SessionTypes
<1>2. fresh \in Seq(LineId)
  BY <1>1, NewLinesType
<1>3. /\ Len(fresh) = n
      /\ \A k \in 1..n : fresh[k] = live[s][offsets[s] + k] /\ offsets[s] + k \in 1..Len(live[s])
  BY <1>1, NewLinesSeq
<1>4. n \in Nat
  BY <1>1
<1> HIDE DEF fresh
<1>5. PendingOf(s)' = fresh \o PendingOf(s)
  BY DEF fresh
<1>6. LinesOf(PendingOf(s)') = LinesOf(fresh) \cup LinesOf(PendingOf(s))
  BY <1>1, <1>2, <1>5, ConcatLines
<1>7. /\ Len(PendingOf(s)') = Len(fresh) + Len(PendingOf(s))
      /\ \A k \in 1..(Len(fresh) + Len(PendingOf(s))) :
           PendingOf(s)'[k] = IF k <= Len(fresh) THEN fresh[k] ELSE PendingOf(s)[k - Len(fresh)]
  BY <1>1, <1>2, <1>5
<1>8. \A k \in 1..n : fresh[k] \in LinesOf(fresh)
  BY <1>3 DEF LinesOf
<1> HIDE DEF n
<1>9. ASSUME NEW k \in 1..Len(PendingOf(s)')
      PROVE  \/ /\ k \in 1..n /\ offsets[s] + k \in 1..Len(live[s])
                /\ PendingOf(s)'[k] = live[s][offsets[s] + k]
                /\ PendingOf(s)'[k] \in LinesOf(fresh)
             \/ k - n \in 1..Len(PendingOf(s)) /\ PendingOf(s)'[k] = PendingOf(s)[k - n]
  <2>1. CASE k <= n
    <3>1. k \in 1..n
      BY <1>4, <2>1
    <3>2. PendingOf(s)'[k] = fresh[k]
      BY <1>3, <1>7, <2>1
    <3> QED BY <1>3, <1>8, <3>1, <3>2
  <2>2. CASE ~(k <= n)
    <3>1. k - n \in 1..Len(PendingOf(s))
      BY <1>1, <1>3, <1>4, <1>7, <2>2
    <3> QED BY <1>3, <1>7, <2>2, <3>1
  <2> QED BY <2>1, <2>2
<1> QED BY <1>3, <1>4, <1>6, <1>7, <1>9 DEF n, fresh

\* What a read of s does, apart from the file having shrunk.
Reads(s) ==
  /\ offsets[s] <= Len(live[s]) /\ offsets'[s] = Len(live[s])
  /\ PendingOf(s)' = NewLines(live[s], offsets[s]) \o PendingOf(s)
  /\ PendingOf(s) # <<>> => phase = "running"
  /\ live'[s] = live[s] /\ seen'[s] = seen[s] /\ save' = save /\ phase' = phase
  /\ s \notin scan'
  /\ ~Reading(s) /\ ~Draining(s) /\ ~Reading(s)' /\ ~Draining(s)'

LEMMA ReadAtMostOnce ==
  ASSUME TypeOK, PhaseInv, NEW s \in Sessions, Reads(s), CountedAtMostOnce(s)
  PROVE  CountedAtMostOnce(s)'
<1> DEFINE n == Len(live[s]) - offsets[s]
<1>1. /\ Len(live[s]) \in Nat /\ live[s] \in Seq(LineId) /\ offsets[s] \in Nat /\ seen[s] \in Nat
      /\ Len(PendingOf(s)) \in Nat /\ save.cursors[s] \in Nat /\ PendingOf(s) \in Seq(LineId)
  BY SessionTypes, EconomyTypes DEF TypeOK
<1>2. /\ n \in Nat /\ Len(PendingOf(s)') = n + Len(PendingOf(s))
      /\ \A k \in 1..Len(PendingOf(s)') :
           \/ /\ k \in 1..n /\ offsets[s] + k \in 1..Len(live[s])
              /\ PendingOf(s)'[k] = live[s][offsets[s] + k]
              /\ PendingOf(s)'[k] \in LinesOf(NewLines(live[s], offsets[s]))
           \/ k - n \in 1..Len(PendingOf(s)) /\ PendingOf(s)'[k] = PendingOf(s)[k - n]
  BY ReadInFront DEF Reads
<1>3. UnreadLines(s) = LinesOf(NewLines(live[s], offsets[s]))
  BY DEF UnreadLines, UnreadLive, Reads, Reading
<1>4. UnreadLines(s)' = {}
  BY <1>1, NothingNew DEF UnreadLines, UnreadLive, Reads, Reading
<1>5. offsets'[s] <= seen'[s] + Len(PendingOf(s)')
  BY <1>1, <1>2 DEF CountedAtMostOnce, Reads
<1>6. ASSUME NEW k \in 1..Len(PendingOf(s)'), save'.applied[s][PendingOf(s)'[k]] > 0
      PROVE  phase' = "replay" /\ seen'[s] + k <= save'.cursors[s]
  <2>1. CASE /\ k \in 1..n /\ offsets[s] + k \in 1..Len(live[s])
             /\ PendingOf(s)'[k] = live[s][offsets[s] + k]
             /\ PendingOf(s)'[k] \in LinesOf(NewLines(live[s], offsets[s]))
    <3>1. s \in scan
      BY <1>3, <1>6, <2>1 DEF CountedAtMostOnce, Reads
    <3>2. offsets[s] = 0 /\ seen[s] = 0 /\ PendingOf(s) = <<>> /\ phase = "replay"
      BY <3>1 DEF PhaseInv
    <3>3. k \in 1..Len(live[s]) /\ save.applied[s][live[s][k]] > 0
      BY <1>1, <1>6, <2>1, <3>2 DEF Reads
    <3>4. k <= save.cursors[s]
      BY <1>1, <3>2, <3>3 DEF CountedAtMostOnce
    <3> QED BY <1>1, <3>2, <3>4 DEF Reads
  <2>2. CASE k - n \in 1..Len(PendingOf(s)) /\ PendingOf(s)'[k] = PendingOf(s)[k - n]
    <3>1. phase = "replay"
      BY <1>6, <2>2 DEF CountedAtMostOnce, Reads
    <3>2. PendingOf(s) # <<>>
      BY <1>1, <2>2
    <3> QED BY <3>1, <3>2 DEF Reads
  <2> QED BY <1>2, <2>1, <2>2
<1>7. ASSUME NEW p \in 1..Len(live'[s]) PROVE p <= seen'[s] + Len(PendingOf(s)')
  BY <1>1, <1>2, <1>5 DEF Reads
<1> QED BY <1>4, <1>5, <1>6, <1>7 DEF CountedAtMostOnce, Reads

LEMMA ReadExactly ==
  ASSUME TypeOK, PhaseInv, NEW s \in Sessions, Reads(s), CountedExactly(s),
         written'[s] = written[s], late'[s] = late[s]
  PROVE  CountedExactly(s)'
<1> DEFINE n == Len(live[s]) - offsets[s]
           c == save.cursors[s]
<1>1. /\ Len(live[s]) \in Nat /\ live[s] \in Seq(LineId) /\ offsets[s] \in Nat /\ seen[s] \in Nat
      /\ Len(PendingOf(s)) \in Nat /\ c \in Nat /\ PendingOf(s) \in Seq(LineId)
  BY SessionTypes, EconomyTypes DEF TypeOK
<1>2. /\ n \in Nat /\ Len(PendingOf(s)') = n + Len(PendingOf(s))
      /\ LinesOf(PendingOf(s)') = LinesOf(NewLines(live[s], offsets[s])) \cup LinesOf(PendingOf(s))
      /\ \A k \in 1..Len(PendingOf(s)') :
           \/ /\ k \in 1..n /\ offsets[s] + k \in 1..Len(live[s])
              /\ PendingOf(s)'[k] = live[s][offsets[s] + k]
           \/ k - n \in 1..Len(PendingOf(s)) /\ PendingOf(s)'[k] = PendingOf(s)[k - n]
  BY ReadInFront DEF Reads
<1>3. UnreadLines(s) = LinesOf(NewLines(live[s], offsets[s]))
  BY DEF UnreadLines, UnreadLive, Reads, Reading
<1>4. offsets'[s] <= Len(live'[s]) /\ seen'[s] + Len(PendingOf(s)') <= offsets'[s]
  BY <1>1, <1>2 DEF CountedExactly, Reads
<1>5. Uncounted(save, s)' \subseteq LinesOf(PendingOf(s)')
  BY <1>2, <1>3 DEF CountedExactly, Reads, Uncounted
<1>6. CASE s \in scan
  <2>1. offsets[s] = 0 /\ seen[s] = 0 /\ Len(PendingOf(s)) = 0
    BY <1>6 DEF PhaseInv
  <2>2. c <= Len(live[s]) /\ \A p \in 1..c : save.applied[s][live[s][p]] > 0
    BY <1>6 DEF CountedExactly
  <2>3. c <= seen'[s] + Len(PendingOf(s)')
    BY <1>1, <1>2, <2>1, <2>2 DEF Reads
  <2>4. ASSUME NEW k \in 1..Len(PendingOf(s)'), seen'[s] + k <= c
        PROVE  save.applied[s][PendingOf(s)'[k]] > 0
    <3>1. k \in 1..c
      BY <1>1, <2>1, <2>4 DEF Reads
    <3>2. PendingOf(s)'[k] = live[s][k]
      BY <1>2, <2>1
    <3> QED BY <2>2, <3>1, <3>2
  <2> QED BY <1>4, <1>5, <2>3, <2>4 DEF CountedExactly, Reads
<1>7. CASE s \notin scan
  <2>1. /\ c <= seen[s] + Len(PendingOf(s)) /\ (PendingOf(s) # <<>> => c <= seen[s])
    BY <1>7 DEF CountedExactly, Reads
  <2>2. c <= seen[s]
    <3>1. PendingOf(s) = <<>> => Len(PendingOf(s)) = 0
      OBVIOUS
    <3> QED BY <1>1, <2>1, <3>1
  <2>3. c <= seen'[s] + Len(PendingOf(s)')
    BY <1>1, <1>2, <2>2 DEF Reads
  <2>4. seen'[s] \in Nat /\ c <= seen'[s]
    BY <1>1, <2>2 DEF Reads
  <2>5. \A k \in 1..Len(PendingOf(s)') : ~(seen'[s] + k <= c)
    BY <1>1, <2>4
  <2> QED BY <1>4, <1>5, <2>2, <2>3, <2>5 DEF CountedExactly, Reads
<1> QED BY <1>6, <1>7

\* handleFileReset(s), as far as counts go.
LEMMA ResetFields ==
  ASSUME TypeOK, NEW s \in Sessions, FileReset(s)
  PROVE  /\ seen'[s] = 0 /\ save'.cursors[s] = 0 /\ save'.applied = save.applied
         /\ \A t \in Sessions \ {s} : seen'[t] = seen[t] /\ save'.cursors[t] = save.cursors[t]
         /\ \/ saveFile' = save' /\ \A t \in Sessions : stale'[t] = FALSE
            \/ UNCHANGED <<saveFile, stale>>
<1>1. save.cursors \in [Sessions -> Nat] /\ save = [applied |-> save.applied, cursors |-> save.cursors]
  BY DEF TypeOK, Saves
<1>2. save' = [save EXCEPT !.cursors[s] = 0] /\ seen' = [seen EXCEPT ![s] = 0]
  BY DEF FileReset
<1>3. save'.applied = save.applied /\ save'.cursors = [save.cursors EXCEPT ![s] = 0]
  BY <1>1, <1>2
<1>4. \/ saveFile' = save' /\ \A t \in Sessions : stale'[t] = FALSE
      \/ UNCHANGED <<saveFile, stale>>
  BY DEF FileReset, WriteSave
<1> QED BY <1>1, <1>2, <1>3, <1>4 DEF TypeOK

\* A file that shrank below the offset is read as new: none of its lines is counted yet.
LEMMA ShrunkIsUncounted ==
  ASSUME TypeOK, PhaseInv, NEW s \in Sessions, CountedAtMostOnce(s), ~Reading(s),
         offsets[s] > Len(live[s])
  PROVE  /\ NewLines(live[s], offsets[s]) = live[s]
         /\ \A p \in 1..Len(live[s]) : save.applied[s][live[s][p]] = 0
<1>1. /\ live[s] \in Seq(LineId) /\ Len(live[s]) \in Nat /\ offsets[s] \in Nat /\ offsets[s] # 0
  BY SessionTypes
<1>2. NewLines(live[s], offsets[s]) = live[s] /\ UnreadLines(s) = LinesOf(live[s])
  BY DEF NewLines, UnreadLines, UnreadLive, Reading
<1>3. s \notin scan
  BY <1>1 DEF PhaseInv
<1>4. ASSUME NEW p \in 1..Len(live[s]) PROVE save.applied[s][live[s][p]] = 0
  <2>1. live[s][p] \in LineId /\ live[s][p] \in UnreadLines(s)
    BY <1>1, <1>2, LineAt
  <2>2. save.applied[s][live[s][p]] \in Nat /\ ~(save.applied[s][live[s][p]] > 0)
    BY <1>3, <2>1, EconomyTypes DEF TypeOK, CountedAtMostOnce
  <2> QED BY <2>2
<1> QED BY <1>2, <1>4

LEMMA ShrunkAtMostOnce ==
  ASSUME TypeOK, PhaseInv, NEW s \in Sessions, CountedAtMostOnce(s),
         offsets[s] > Len(live[s]), offsets'[s] = Len(live[s]),
         PendingOf(s)' = NewLines(live[s], offsets[s]) \o PendingOf(s),
         PendingOf(s) # <<>> => phase = "running",
         live'[s] = live[s], phase' = phase, save'.applied = save.applied,
         ~Reading(s), ~Reading(s)', ~Draining(s)',
         \/ seen'[s] = 0 /\ save'.cursors[s] = 0
         \/ live[s] = <<>> /\ seen'[s] = seen[s] /\ save'.cursors[s] = save.cursors[s]
  PROVE  CountedAtMostOnce(s)'
<1>1. /\ live[s] \in Seq(LineId) /\ Len(live[s]) \in Nat /\ offsets[s] \in Nat /\ seen[s] \in Nat
      /\ PendingOf(s) \in Seq(LineId) /\ Len(PendingOf(s)) \in Nat
  BY SessionTypes
<1>2. /\ PendingOf(s)' = live[s] \o PendingOf(s)
      /\ \A p \in 1..Len(live[s]) : save.applied[s][live[s][p]] = 0
  BY ShrunkIsUncounted
<1>3. /\ Len(PendingOf(s)') = Len(live[s]) + Len(PendingOf(s))
      /\ \A k \in 1..(Len(live[s]) + Len(PendingOf(s))) :
           PendingOf(s)'[k] = IF k <= Len(live[s]) THEN live[s][k] ELSE PendingOf(s)[k - Len(live[s])]
  BY <1>1, <1>2
<1>4. UnreadLines(s)' = {}
  BY <1>1, NothingNew DEF UnreadLines, UnreadLive, Reading
<1>5. seen'[s] <= save'.cursors[s] /\ seen'[s] \in Nat
  BY <1>1 DEF CountedAtMostOnce
<1>6. offsets'[s] <= seen'[s] + Len(PendingOf(s)')
  BY <1>1, <1>3, <1>5
<1>7. ASSUME NEW k \in 1..Len(PendingOf(s)'), save.applied[s][PendingOf(s)'[k]] > 0
      PROVE  FALSE
  <2>1. CASE k <= Len(live[s])
    <3>1. PendingOf(s)'[k] = live[s][k] /\ k \in 1..Len(live[s])
      BY <1>1, <1>3, <2>1
    <3> QED BY <1>2, <1>7, <3>1
  <2>2. CASE ~(k <= Len(live[s]))
    <3>1. k \in 1..(Len(live[s]) + Len(PendingOf(s))) /\ Len(live[s]) \in Nat /\ Len(PendingOf(s)) \in Nat
      BY <1>1, <1>3
    <3>2. k - Len(live[s]) \in 1..Len(PendingOf(s))
      BY <2>2, <3>1
    <3>3. PendingOf(s)'[k] = PendingOf(s)[k - Len(live[s])]
      BY <1>3, <2>2, <3>1
    <3>4. phase = "replay"
      BY <1>7, <3>2, <3>3 DEF CountedAtMostOnce
    <3>5. PendingOf(s) # <<>>
      BY <1>1, <3>2
    <3> QED BY <3>4, <3>5
  <2> QED BY <2>1, <2>2
<1>8. \A p \in 1..Len(live[s]) : ~(save.applied[s][live[s][p]] > 0)
  BY <1>2
<1> QED BY <1>4, <1>5, <1>6, <1>7, <1>8 DEF CountedAtMostOnce

\* consume(s), unless it is nested in a drain of s.
LEMMA SessionConsumes ==
  ASSUME TypeOK, TypeOK', NoFileNoLines, PhaseInv, NEW s \in Sessions, AtMostOnce(s), Exactly(s),
         Consume(s), phase # "down", UNCHANGED <<phase, rot>>, rot \notin {"read", "drain"},
         pending = <<>> \/ (current = s /\ phase = "running"), s \notin scan',
         live'[s] = live[s], written'[s] = written[s], late'[s] = late[s], excuse'[s] = excuse[s]
  PROVE  AtMostOnce(s)' /\ Exactly(s)'
<1>1. /\ offsets'[s] = Len(live[s]) /\ ~Reading(s) /\ ~Draining(s) /\ ~Reading(s)' /\ ~Draining(s)'
      /\ PendingOf(s)' = NewLines(live[s], offsets[s]) \o PendingOf(s)
      /\ PendingOf(s) # <<>> => phase = "running"
  BY DEF Consume, TypeOK, PendingOf, Reading, Draining
<1>2. Len(live[s]) \in Nat /\ offsets[s] \in Nat /\ Len(live'[s]) = Len(live[s])
  BY SessionTypes
<1>3. CASE offsets[s] <= Len(live[s])
  <2>1. UNCHANGED hostVars
    BY <1>2, <1>3 DEF Consume
  <2>2. Reads(s)
    BY <1>1, <1>3, <2>1 DEF Reads, hostVars
  <2>3. /\ CountedAtMostOnce(s) => CountedAtMostOnce(s)'
        /\ CountedExactly(s) => CountedExactly(s)'
    BY <2>2, ReadAtMostOnce, ReadExactly
  <2>4. /\ SavedAtMostOnce(saveFile, s) => SavedAtMostOnce(saveFile, s)'
        /\ SavedExactly(saveFile, s) => SavedExactly(saveFile, s)'
        /\ AppliedOnce(save, s) => AppliedOnce(save, s)'
    BY <2>1 DEF hostVars, SavedAtMostOnce, SavedExactly, AppliedOnce, Uncounted
  <2> QED BY <2>1, <2>3, <2>4 DEF AtMostOnce, Exactly, hostVars
<1>4. CASE offsets[s] > Len(live[s])
  <2>1. excuse[s] # {}
    <3>1. ~CountedExactly(s)
      BY <1>1, <1>2, <1>4 DEF CountedExactly
    <3> QED BY <3>1 DEF Exactly
  <2>2. ASSUME "nestedDrain" \notin excuse[s]
        PROVE  /\ SavedAtMostOnce(saveFile, s)' /\ AppliedOnce(save, s)' /\ CountedAtMostOnce(s)'
    <3>1. SavedAtMostOnce(saveFile, s) /\ AppliedOnce(save, s) /\ CountedAtMostOnce(s)
      BY <2>2 DEF AtMostOnce
    <3>2. CASE s \in liveFiles
      <4>1. FileReset(s)
        BY <1>4, <3>2 DEF Consume
      <4>2. /\ seen'[s] = 0 /\ save'.cursors[s] = 0 /\ save'.applied = save.applied
            /\ saveFile' = save' \/ UNCHANGED saveFile
        BY <4>1, ResetFields
      <4>3. CountedAtMostOnce(s)'
        BY <1>1, <1>4, <3>1, <4>2, ShrunkAtMostOnce
      <4>4. AppliedOnce(save, s)'
        BY <3>1, <4>2 DEF AppliedOnce
      <4>5. \A p \in 1..Len(live[s]) : save.applied[s][live[s][p]] = 0
        BY <1>1, <1>4, <3>1, ShrunkIsUncounted
      <4>6. SavedAtMostOnce(saveFile, s)'
        BY <3>1, <4>2, <4>4, <4>5 DEF SavedAtMostOnce, AppliedOnce
      <4> QED BY <4>3, <4>4, <4>6
    <3>3. CASE s \notin liveFiles
      <4>1. live[s] = <<>> /\ UNCHANGED hostVars
        BY <3>3 DEF NoFileNoLines, Consume
      <4>2. CountedAtMostOnce(s)'
        BY <1>1, <1>4, <3>1, <4>1, ShrunkAtMostOnce DEF hostVars
      <4> QED BY <3>1, <4>1, <4>2 DEF hostVars, SavedAtMostOnce, AppliedOnce
    <3> QED BY <3>2, <3>3
  <2> QED BY <2>1, <2>2 DEF AtMostOnce, Exactly
<1> QED BY <1>2, <1>3, <1>4

-----------------------------------------------------------------------------
(* The session that is truncated or rotated                                *)

LEMMA SessionTruncated ==
  ASSUME TypeOK, TypeOK', NEW s \in Sessions, AtMostOnce(s), Truncate(s)
  PROVE  AtMostOnce(s)' /\ Exactly(s)'
<1>1. /\ live'[s] = <<>> /\ excuse[s] \subseteq excuse'[s] /\ excuse'[s] # {}
      /\ UNCHANGED <<aside, seen, offsets, save, saveFile, pending, current, scan, phase, rot>>
  BY DEF Truncate, TypeOK, hostVars, watcherVars, processVars
<1>2. UnreadLines(s)' \subseteq UnreadLines(s)
  BY <1>1, LinesOfEmpty, NewLinesOfEmpty, SessionTypes DEF UnreadLines, UnreadLive
<1>3. CountedAtMostOnce(s) => CountedAtMostOnce(s)'
  BY <1>1, <1>2, AtMostOnceKept DEF PendingOf, Draining
<1>4. SavedAtMostOnce(saveFile, s) => SavedAtMostOnce(saveFile, s)'
  BY <1>1 DEF SavedAtMostOnce, AppliedOnce
<1>5. AppliedOnce(save, s) => AppliedOnce(save, s)'
  BY <1>1 DEF AppliedOnce
<1> QED BY <1>1, <1>3, <1>4, <1>5 DEF AtMostOnce, Exactly

LEMMA SessionRenamed ==
  ASSUME WatcherInv, TypeOK', PhaseInv, NEW s \in Sessions, s = current, AtMostOnce(s), Exactly(s),
         Rename
  PROVE  AtMostOnce(s)' /\ Exactly(s)'
<1>1. /\ TypeOK /\ rot = "rename" /\ rot' = "read" /\ pending = <<>> /\ phase = "running"
      /\ scan = {}
  BY DEF WatcherInv, Rename, RotationIsQuiet, PhaseInv
<1>2. /\ live'[s] = <<>> /\ aside'[s] = live[s] /\ stale'[s] = TRUE
      /\ UNCHANGED <<written, late, seen, offsets, save, saveFile, pending, current, scan, phase, excuse>>
  BY <1>1 DEF Rename, TypeOK, RotationFrame, logVars, processVars
<1>3. /\ PendingOf(s) = <<>> /\ PendingOf(s)' = <<>> /\ ~Reading(s) /\ ~Draining(s)
      /\ Reading(s)' /\ ~Draining(s)'
  BY <1>1, <1>2 DEF PendingOf, Reading, Draining
<1>4. UnreadLines(s)' = UnreadLines(s)
  BY <1>2, <1>3, LinesOfEmpty DEF UnreadLines, UnreadLive, Reading
<1>5. CountedAtMostOnce(s) => CountedAtMostOnce(s)'
  BY <1>1, <1>2, <1>3, <1>4, AtMostOnceKept
<1>6. CountedExactly(s) => CountedExactly(s)'
  BY <1>1, <1>2, <1>3, <1>4 DEF CountedExactly, Uncounted
<1>7. SavedAtMostOnce(saveFile, s) => SavedAtMostOnce(saveFile, s)'
  BY <1>2 DEF SavedAtMostOnce, AppliedOnce
<1>8. AppliedOnce(save, s) => AppliedOnce(save, s)'
  BY <1>2 DEF AppliedOnce
<1> QED BY <1>1, <1>2, <1>5, <1>6, <1>7, <1>8 DEF AtMostOnce, Exactly

LEMMA SessionDrained ==
  ASSUME WatcherInv, TypeOK', PhaseInv, NEW s \in Sessions, s = current, AtMostOnce(s), Exactly(s),
         DrainRotated
  PROVE  AtMostOnce(s)' /\ Exactly(s)'
<1> DEFINE drained == NewLines(aside[s], offsets[s])
<1>1. /\ TypeOK /\ rot = "read" /\ rot' = "drain" /\ pending = <<>> /\ phase = "running"
      /\ scan = {}
  BY DEF WatcherInv, DrainRotated, RotationIsQuiet, PhaseInv
<1>2. /\ offsets'[s] = 0 /\ pending' = drained
      /\ UNCHANGED <<live, aside, written, late, stale, seen, save, saveFile, current, scan, phase, excuse>>
  BY <1>1 DEF DrainRotated, TypeOK, RotationFrame, diskVars, logVars, hostVars, processVars
<1>3. /\ PendingOf(s) = <<>> /\ PendingOf(s)' = drained /\ Reading(s) /\ ~Draining(s)
      /\ ~Reading(s)' /\ Draining(s)'
  BY <1>1, <1>2 DEF PendingOf, Reading, Draining
<1>4. /\ live[s] \in Seq(LineId) /\ aside[s] \in Seq(LineId) /\ offsets[s] \in Nat /\ seen[s] \in Nat
      /\ Len(live[s]) \in Nat /\ save.cursors[s] \in Nat
  BY <1>1, SessionTypes, EconomyTypes DEF TypeOK
<1>5. drained \in Seq(LineId)
  BY <1>4, NewLinesType
<1>6. Len(drained) \in Nat
  BY <1>5
<1>7. UnreadLines(s)' = LinesOf(live[s]) /\ UnreadLines(s) = LinesOf(live[s]) \cup LinesOf(drained)
  BY <1>2, <1>3, <1>4, WholeFile DEF UnreadLines, UnreadLive, Reading
<1> HIDE DEF drained
<1>8. \A k \in 1..Len(drained) : drained[k] \in LinesOf(drained)
  BY DEF LinesOf
<1>9. ASSUME CountedAtMostOnce(s) PROVE CountedAtMostOnce(s)'
  <2>1. \A k \in 1..Len(drained) : ~(save.applied[s][drained[k]] > 0)
    BY <1>1, <1>7, <1>8, <1>9 DEF CountedAtMostOnce
  <2>2. \A p \in 1..Len(live[s]) : save.applied[s][live[s][p]] > 0 => p <= save.cursors[s] \/ p <= seen[s]
    BY <1>3, <1>4, <1>9 DEF CountedAtMostOnce
  <2>3. \A p \in 1..Len(live[s]) : p <= seen[s] => p <= seen[s] + Len(drained)
    BY <1>4, <1>6
  <2>4. 0 <= seen[s] + Len(drained)
    BY <1>4, <1>6
  <2> QED BY <1>2, <1>3, <1>7, <1>9, <2>1, <2>2, <2>3, <2>4 DEF CountedAtMostOnce
<1>10. ASSUME CountedExactly(s) PROVE CountedExactly(s)'
  <2>1. save.cursors[s] <= seen[s] /\ Uncounted(save, s) \subseteq LinesOf(live[s]) \cup LinesOf(drained)
    BY <1>1, <1>3, <1>7, <1>10, LinesOfEmpty DEF CountedExactly
  <2>2. /\ save.cursors[s] <= seen[s] + Len(drained) /\ 0 <= Len(live[s])
        /\ \A k \in 1..Len(drained) : ~(seen[s] + k <= save.cursors[s])
    BY <1>4, <1>6, <2>1
  <2>3. Uncounted(save, s)' = Uncounted(save, s)
    BY <1>2 DEF Uncounted
  <2> QED BY <1>1, <1>2, <1>3, <1>7, <2>1, <2>2, <2>3 DEF CountedExactly
<1>11. /\ SavedAtMostOnce(saveFile, s) => SavedAtMostOnce(saveFile, s)'
       /\ SavedExactly(saveFile, s) => SavedExactly(saveFile, s)'
       /\ AppliedOnce(save, s) => AppliedOnce(save, s)'
  BY <1>2 DEF SavedAtMostOnce, SavedExactly, AppliedOnce, Uncounted
<1>12. UNCHANGED <<phase, excuse, stale>> /\ phase = "running"
  BY <1>1, <1>2
<1>13. AtMostOnce(s)'
  BY <1>9, <1>11, <1>12 DEF AtMostOnce
<1>14. Exactly(s)'
  BY <1>10, <1>11, <1>12 DEF Exactly
<1> QED BY <1>13, <1>14

LEMMA SessionRotated ==
  ASSUME WatcherInv, TypeOK', PhaseInv, NEW s \in Sessions, s = current, AtMostOnce(s), Exactly(s),
         OnRotated
  PROVE  AtMostOnce(s)' /\ Exactly(s)'
<1>1. /\ TypeOK /\ rot = "drain" /\ rot' = "archive" /\ pending = <<>> /\ phase = "running"
      /\ scan = {}
  BY DEF WatcherInv, OnRotated, PhaseInv
<1>2. /\ UNCHANGED <<live, aside, written, late, offsets, pending, current, scan, phase, excuse>>
      /\ seen'[s] = 0 /\ save'.cursors[s] = 0 /\ save'.applied = save.applied
      /\ \/ saveFile' = save' /\ stale'[s] = FALSE
         \/ UNCHANGED <<saveFile, stale>>
  BY <1>1, ResetFields DEF OnRotated, RotationFrame, diskVars, logVars, processVars
<1>3. /\ PendingOf(s) = <<>> /\ PendingOf(s)' = <<>> /\ ~Reading(s) /\ Draining(s)
      /\ ~Reading(s)' /\ ~Draining(s)'
  BY <1>1, <1>2 DEF PendingOf, Reading, Draining
<1>4. UnreadLines(s)' = UnreadLines(s)
  BY <1>2, <1>3 DEF UnreadLines, UnreadLive, Reading
<1>5. SUFFICES ASSUME "nestedDrain" \notin excuse[s]
               PROVE  AtMostOnce(s)' /\ Exactly(s)'
  BY <1>2 DEF AtMostOnce, Exactly
<1>6. /\ SavedAtMostOnce(saveFile, s) /\ AppliedOnce(save, s) /\ CountedAtMostOnce(s)
      /\ offsets[s] = 0
  BY <1>1, <1>3, <1>5 DEF AtMostOnce, CountedAtMostOnce
<1>7. live[s] \in Seq(LineId) /\ Len(live[s]) \in Nat
  BY <1>1, SessionTypes
<1>8. UnreadLines(s) = LinesOf(live[s])
  BY <1>3, <1>6, <1>7, WholeFile DEF UnreadLines, UnreadLive, Reading
<1>9. \A p \in 1..Len(live[s]) : ~(save.applied[s][live[s][p]] > 0)
  BY <1>1, <1>6, <1>7, <1>8, LineAt DEF CountedAtMostOnce
<1>10. CountedAtMostOnce(s)' /\ AppliedOnce(save, s)'
  BY <1>1, <1>2, <1>3, <1>4, <1>6, <1>9 DEF CountedAtMostOnce, AppliedOnce
<1>11. SavedAtMostOnce(saveFile, s)'
  BY <1>2, <1>6, <1>9 DEF SavedAtMostOnce, AppliedOnce
<1>12. ASSUME CountedExactly(s), ~stale[s] => SavedExactly(saveFile, s)
       PROVE  CountedExactly(s)' /\ (~stale'[s] => SavedExactly(saveFile, s)')
  <2>1. Uncounted(save, s)' = Uncounted(save, s) /\ Uncounted(save, s) \subseteq LinesOf(live[s])
    BY <1>2, <1>3, <1>8, <1>12, LinesOfEmpty DEF CountedExactly, Uncounted
  <2>2. LinesFrom(live[s], 0) = LinesOf(live[s])
    <3>1. 0 + 1 = 1
      OBVIOUS
    <3> QED BY <3>1 DEF LinesFrom, LinesOf
  <2>3. CountedExactly(s)'
    BY <1>1, <1>2, <1>3, <1>4, <1>6, <1>7, <1>8, <2>1 DEF CountedExactly
  <2>4. SavedExactly(save, s)'
    BY <1>2, <1>7, <2>1, <2>2 DEF SavedExactly
  <2>5. saveFile' = save' => SavedExactly(saveFile, s)'
    BY <2>4 DEF SavedExactly, Uncounted
  <2>6. UNCHANGED saveFile /\ SavedExactly(saveFile, s) => SavedExactly(saveFile, s)'
    BY <1>2 DEF SavedExactly, Uncounted
  <2> QED BY <1>2, <1>12, <2>3, <2>5, <2>6
<1> QED BY <1>1, <1>2, <1>10, <1>11, <1>12 DEF AtMostOnce, Exactly

\* The drain threw: the renamed file is never read, and its offset stays.
LEMMA SessionNotDrained ==
  ASSUME WatcherInv, TypeOK', PhaseInv, NEW s \in Sessions, s = current, AtMostOnce(s),
         RotationFails, rot = "read"
  PROVE  AtMostOnce(s)' /\ Exactly(s)'
<1>1. TypeOK /\ pending = <<>>
  BY DEF WatcherInv, RotationIsQuiet
<1>2. /\ excuse[s] \subseteq excuse'[s] /\ excuse'[s] # {} /\ rot' = "none"
      /\ UNCHANGED <<live, aside, seen, offsets, save, saveFile, pending, current, scan, phase>>
  BY <1>1 DEF RotationFails, TypeOK, RotationFrame, diskVars, hostVars, processVars
<1>3. UnreadLines(s)' \subseteq UnreadLines(s)
  <2>1. LinesOf(NewLines(live[s], offsets[s])) \subseteq LinesOf(live[s])
    BY <1>1, SessionTypes, NewLinesOfFile
  <2> QED BY <1>2, <2>1 DEF UnreadLines, UnreadLive
<1>4. CountedAtMostOnce(s) => CountedAtMostOnce(s)'
  BY <1>1, <1>2, <1>3, AtMostOnceKept DEF PendingOf, Draining
<1>5. /\ SavedAtMostOnce(saveFile, s) => SavedAtMostOnce(saveFile, s)'
      /\ AppliedOnce(save, s) => AppliedOnce(save, s)'
  BY <1>2 DEF SavedAtMostOnce, AppliedOnce
<1> QED BY <1>1, <1>2, <1>4, <1>5 DEF AtMostOnce, Exactly

-----------------------------------------------------------------------------
(* Every session when the process dies, starts, and is ready               *)

LEMMA SessionCrashes ==
  ASSUME TypeOK, NEW s \in Sessions, AtMostOnce(s), Exactly(s), Crash
  PROVE  AtMostOnce(s)' /\ Exactly(s)'
<1>1. /\ phase # "down" /\ phase' = "down" /\ UNCHANGED <<live, written, late, save, saveFile, stale>>
      /\ excuse'[s] = IF stale[s] THEN excuse[s] \cup {"staleSave"} ELSE excuse[s]
  BY DEF Crash, Die, diskVars, logVars, TypeOK
<1>2. /\ SavedAtMostOnce(saveFile, s) => SavedAtMostOnce(saveFile, s)'
      /\ SavedExactly(saveFile, s) => SavedExactly(saveFile, s)'
      /\ AppliedOnce(save, s) => AppliedOnce(save, s)'
  BY <1>1 DEF SavedAtMostOnce, SavedExactly, AppliedOnce, Uncounted
<1>3. /\ "nestedDrain" \notin excuse'[s] => "nestedDrain" \notin excuse[s]
      /\ excuse'[s] = {} => excuse[s] = {} /\ ~stale'[s]
  BY <1>1
<1> QED BY <1>1, <1>2, <1>3 DEF AtMostOnce, Exactly

LEMMA SessionShutDown ==
  ASSUME TypeOK, PhaseInv, NEW s \in Sessions, AtMostOnce(s), Exactly(s), Shutdown
  PROVE  AtMostOnce(s)' /\ Exactly(s)'
<1>1. /\ phase # "down" /\ phase' = "down" /\ UNCHANGED <<live, written, late, save>>
      /\ excuse'[s] = IF stale'[s] THEN excuse[s] \cup {"staleSave"} ELSE excuse[s]
      /\ \/ saveFile' = save /\ stale'[s] = FALSE
         \/ UNCHANGED <<saveFile, stale>>
  BY DEF Shutdown, Idle, Die, WriteSave, diskVars, logVars, TypeOK
<1>2. PendingOf(s) = <<>> /\ ~Reading(s) /\ ~Draining(s)
  BY DEF Shutdown, Idle, PendingOf, Reading, Draining
<1>3. /\ "nestedDrain" \notin excuse'[s] => "nestedDrain" \notin excuse[s]
      /\ excuse'[s] = {} => excuse[s] = {} /\ ~stale'[s]
  BY <1>1
<1>4. AppliedOnce(save, s) => AppliedOnce(save, s)'
  BY <1>1 DEF AppliedOnce
<1>5. CASE saveFile' = save /\ stale'[s] = FALSE
  <2>1. "nestedDrain" \notin excuse[s] => SavedAtMostOnce(save, s)
    BY <1>1, <1>2, SettledAtMostOnce DEF AtMostOnce
  <2>2. excuse[s] = {} => SavedExactly(save, s)
    BY <1>1, <1>2, SettledExactly DEF Exactly
  <2>3. /\ SavedAtMostOnce(save, s) => SavedAtMostOnce(saveFile, s)'
        /\ SavedExactly(save, s) => SavedExactly(saveFile, s)'
    BY <1>1, <1>5 DEF SavedAtMostOnce, SavedExactly, AppliedOnce, Uncounted
  <2> QED BY <1>1, <1>3, <1>4, <2>1, <2>2, <2>3 DEF AtMostOnce, Exactly
<1>6. CASE UNCHANGED <<saveFile, stale>>
  <2>1. /\ SavedAtMostOnce(saveFile, s) => SavedAtMostOnce(saveFile, s)'
        /\ SavedExactly(saveFile, s) => SavedExactly(saveFile, s)'
    BY <1>1, <1>6 DEF SavedAtMostOnce, SavedExactly, AppliedOnce, Uncounted
  <2> QED BY <1>1, <1>3, <1>4, <1>6, <2>1 DEF AtMostOnce, Exactly
<1> QED BY <1>1, <1>5, <1>6

\* The economy that a process loads, with the cursors it keeps.
LEMMA StartFields ==
  ASSUME TypeOK, NoFileNoLines, PhaseInv, RotationIsQuiet, NEW s \in Sessions, Start
  PROVE  /\ UNCHANGED <<live, written, late, seen, offsets, saveFile, stale, excuse>>
         /\ phase = "down" /\ phase' = "replay"
         /\ seen[s] = 0 /\ offsets[s] = 0 /\ PendingOf(s)' = <<>> /\ ~Reading(s)' /\ ~Draining(s)'
         /\ save'.applied = saveFile.applied
         /\ s \in scan' => save'.cursors[s] = saveFile.cursors[s]
         /\ s \notin scan' => save'.cursors[s] = 0 /\ live[s] = <<>>
<1>1. /\ UNCHANGED <<live, written, late, seen, offsets, saveFile, stale, excuse>>
      /\ phase = "down" /\ phase' = "replay" /\ scan' = liveFiles
      /\ UNCHANGED <<pending, current, rot>>
  BY DEF Start, diskVars, logVars, watcherVars
<1>2. seen[s] = 0 /\ offsets[s] = 0
  BY <1>1 DEF PhaseInv
<1>3. pending = <<>> /\ rot = "none"
  BY <1>1 DEF RotationIsQuiet
<1>4. /\ saveFile = [applied |-> saveFile.applied, cursors |-> saveFile.cursors]
      /\ save' = [saveFile EXCEPT !.cursors =
                   [t \in Sessions |-> IF t \in liveFiles THEN saveFile.cursors[t] ELSE 0]]
  BY DEF TypeOK, Saves, Start
<1>5. /\ save'.applied = saveFile.applied
      /\ save'.cursors[s] = IF s \in liveFiles THEN saveFile.cursors[s] ELSE 0
  BY <1>4
<1>6. s \notin liveFiles => live[s] = <<>>
  BY DEF NoFileNoLines
<1> QED BY <1>1, <1>2, <1>3, <1>5, <1>6 DEF PendingOf, Reading, Draining

LEMMA SessionStarts ==
  ASSUME WatcherInv, NoFileNoLines, PhaseInv, NEW s \in Sessions, AtMostOnce(s), Exactly(s), Start
  PROVE  AtMostOnce(s)' /\ Exactly(s)'
<1>1. /\ UNCHANGED <<live, written, late, seen, offsets, saveFile, stale, excuse>>
      /\ phase = "down" /\ phase' = "replay"
      /\ seen[s] = 0 /\ offsets[s] = 0 /\ PendingOf(s)' = <<>> /\ ~Reading(s)' /\ ~Draining(s)'
      /\ save'.applied = saveFile.applied
      /\ s \in scan' => save'.cursors[s] = saveFile.cursors[s]
      /\ s \notin scan' => save'.cursors[s] = 0 /\ live[s] = <<>>
  BY StartFields DEF WatcherInv
<1>2. /\ live[s] \in Seq(LineId) /\ Len(live[s]) \in Nat /\ saveFile.cursors[s] \in Nat
      /\ written[s] \in 0..MaxLines /\ MaxLines \in Nat
  BY SessionTypes, EconomyTypes, BoundsAssumption DEF WatcherInv, TypeOK
<1>3. UnreadLines(s)' = LinesOf(live[s])
  BY <1>1, <1>2, WholeFile DEF UnreadLines, UnreadLive, Reading
<1>4. /\ SavedAtMostOnce(saveFile, s) => SavedAtMostOnce(saveFile, s)'
      /\ SavedExactly(saveFile, s) => SavedExactly(saveFile, s)'
  BY <1>1 DEF SavedAtMostOnce, SavedExactly, AppliedOnce, Uncounted
<1>5. Len(PendingOf(s)') = 0 /\ LinesOf(PendingOf(s)') = {} /\ save'.cursors[s] \in Nat
  BY <1>1, <1>2, LinesOfEmpty
<1>6. ASSUME SavedAtMostOnce(saveFile, s)
      PROVE  AppliedOnce(save, s)' /\ CountedAtMostOnce(s)'
  <2>1. AppliedOnce(save, s)'
    BY <1>1, <1>6 DEF SavedAtMostOnce, AppliedOnce
  <2>2. \A p \in 1..Len(live[s]) : s \in scan'
    BY <1>1
  <2>3. \A p \in 1..Len(live'[s]) : save'.applied[s][live'[s][p]] > 0 => p <= save'.cursors[s]
    BY <1>1, <1>6, <2>2 DEF SavedAtMostOnce
  <2>4. \A l \in UnreadLines(s)' : s \in scan'
    BY <1>1, <1>3, LinesOfEmpty
  <2> QED BY <1>1, <1>5, <2>1, <2>3, <2>4 DEF CountedAtMostOnce
<1>7. ASSUME SavedExactly(saveFile, s)
      PROVE  CountedExactly(s)'
  <2> DEFINE c == saveFile.cursors[s]
  <2>1. c <= Len(live[s]) /\ Uncounted(saveFile, s) \subseteq LinesFrom(live[s], c)
    BY <1>7 DEF SavedExactly
  <2>2. Uncounted(save, s)' = Uncounted(saveFile, s)
    BY <1>1 DEF Uncounted
  <2>3. LinesFrom(live[s], c) \subseteq LinesOf(live[s])
    BY <1>2 DEF LinesFrom, LinesOf
  <2>4. ASSUME NEW p \in 1..c PROVE saveFile.applied[s][live[s][p]] > 0
    <3>1. p \in 1..Len(live[s])
      BY <1>2, <2>1
    <3>2. live[s][p] \in LineId /\ live[s][p] \in LinesOf(live[s])
      BY <1>2, <3>1, LineAt
    <3>3. live[s][p] \in (1..written[s]) \ late[s]
      BY <3>2 DEF WatcherInv, LinesAreLogged, PhaseInv
    <3>4. live[s][p] \notin LinesFrom(live[s], c)
      <4>1. Injective(live[s])
        BY DEF WatcherInv, FilesAreDistinct
      <4>2. ASSUME NEW q \in (c + 1)..Len(live[s]), live[s][q] = live[s][p] PROVE FALSE
        <5>1. q \in 1..Len(live[s]) /\ q # p
          BY <1>2
        <5> QED BY <3>1, <4>1, <4>2, <5>1 DEF Injective
      <4> QED BY <4>2 DEF LinesFrom
    <3>5. saveFile.applied[s][live[s][p]] # 0
      BY <2>1, <3>3, <3>4 DEF Uncounted
    <3>6. saveFile.applied[s][live[s][p]] \in Nat
      BY <3>2, EconomyTypes DEF WatcherInv, TypeOK
    <3> QED BY <3>5, <3>6
  <2>5. s \in scan' => /\ save'.cursors[s] <= Len(live'[s])
                       /\ \A p \in 1..save'.cursors[s] : save'.applied[s][live'[s][p]] > 0
    BY <1>1, <2>1, <2>4
  <2>6. seen'[s] + Len(PendingOf(s)') = 0 /\ offsets'[s] = 0
    BY <1>1, <1>5
  <2>7. Uncounted(save, s)' \subseteq UnreadLines(s)'
    BY <1>3, <2>1, <2>2, <2>3
  <2>8. s \notin scan' => save'.cursors[s] <= seen'[s] + Len(PendingOf(s)')
    BY <1>1, <2>6
  <2>9. 0 <= Len(live'[s]) /\ live'[s] = live[s]
    BY <1>1, <1>2
  <2> QED BY <1>1, <1>5, <2>5, <2>6, <2>7, <2>8, <2>9 DEF CountedExactly
<1> QED BY <1>1, <1>4, <1>6, <1>7 DEF AtMostOnce, Exactly

LEMMA SessionReady ==
  ASSUME TypeOK, TypeOK', NEW s \in Sessions, AtMostOnce(s), Exactly(s), Ready
  PROVE  AtMostOnce(s)' /\ Exactly(s)'
<1>1. /\ UNCHANGED <<live, aside, written, late, seen, save, saveFile, stale, offsets, pending,
                     current, scan, rot, excuse>>
      /\ phase = "replay" /\ phase' = "running" /\ scan = {} /\ pending = <<>> /\ rot = "none"
  BY DEF Ready, Idle, diskVars, logVars, watcherVars
<1>2. PendingOf(s) = <<>> /\ PendingOf(s)' = <<>> /\ ~Draining(s) /\ ~Draining(s)'
  BY <1>1 DEF PendingOf, Draining
<1>3. UnreadLines(s)' = UnreadLines(s) /\ (Reading(s)' <=> Reading(s))
  BY <1>1 DEF UnreadLines, UnreadLive, Reading
<1>4. CountedAtMostOnce(s) => CountedAtMostOnce(s)'
  BY <1>1, <1>2, <1>3, AtMostOnceKept
<1>5. ASSUME CountedExactly(s) PROVE CountedExactly(s)'
  <2>1. save.cursors[s] <= seen[s]
    BY <1>1, <1>2, <1>5, SessionTypes DEF CountedExactly
  <2>2. Uncounted(save, s)' = Uncounted(save, s)
    BY <1>1 DEF Uncounted
  <2> QED BY <1>1, <1>2, <1>3, <1>5, <2>1, <2>2 DEF CountedExactly
<1>6. /\ SavedAtMostOnce(saveFile, s) => SavedAtMostOnce(saveFile, s)'
      /\ SavedExactly(saveFile, s) => SavedExactly(saveFile, s)'
      /\ AppliedOnce(save, s) => AppliedOnce(save, s)'
  BY <1>1 DEF SavedAtMostOnce, SavedExactly, AppliedOnce, Uncounted
<1>7. UNCHANGED <<excuse, stale>> /\ phase # "down" /\ phase' # "down"
  BY <1>1
<1> QED BY <1>4, <1>5, <1>6, <1>7 DEF AtMostOnce, Exactly

-----------------------------------------------------------------------------
(* What each phase rules out                                               *)

LEMMA PhaseInit == Init => PhaseInv
<1> SUFFICES ASSUME Init PROVE PhaseInv
  OBVIOUS
<1> QED BY LinesOfEmpty DEF Init, PhaseInv

\* A logged line is in the live file, or late.
LEMMA LateKept ==
  ASSUME WatcherInv, PhaseInv, NEW s \in Sessions,
         LogsLine(s) \/ (/\ live'[s] = live[s] \/ live'[s] = <<>>
                         /\ late'[s] = late[s] /\ written'[s] = written[s])
  PROVE  LinesOf(live'[s]) \cap late'[s] = {} /\ late'[s] \subseteq 1..written'[s]
<1>1. LinesOf(live[s]) \cap late[s] = {} /\ late[s] \subseteq 1..written[s]
  BY DEF PhaseInv
<1>2. TypeOK /\ live[s] \in Seq(LineId) /\ written[s] \in Nat
  BY SessionTypes DEF WatcherInv
<1>3. CASE LogsLine(s)
  <2>1. written[s] + 1 \in LineId /\ 1..written'[s] = 1..written[s] \cup {written[s] + 1}
        /\ written[s] + 1 \notin 1..written[s]
    BY <1>2, <1>3 DEF LogsLine
  <2>2. written[s] + 1 \notin LinesOf(live[s])
    BY <2>1, NextLineIsNew
  <2>3. LinesOf(Append(live[s], written[s] + 1)) = LinesOf(live[s]) \cup {written[s] + 1}
    BY <1>2, <2>1, AppendLines
  <2> QED BY <1>1, <1>3, <2>1, <2>2, <2>3 DEF LogsLine
<1> QED BY <1>1, <1>3, LinesOfEmpty

LEMMA HookLogs ==
  ASSUME TypeOK, NEW s \in Sessions, NEW h \in Hooks, NEW e \in HookEvents, HookWrite(s, h, e)
  PROVE  /\ LogsLine(s) /\ \A t \in Sessions \ {s} : LogsNothing(t)
         /\ written' = [written EXCEPT ![s] = @ + 1]
         /\ UNCHANGED <<hostVars, watcherVars, processVars, rot, excuse>>
<1>1. written[s] + 1 \in LineId /\ written' = [written EXCEPT ![s] = @ + 1]
  BY LogType DEF HookWrite, HookEvents, Log
<1>2. UNCHANGED <<hostVars, watcherVars, processVars, rot, excuse>>
  BY DEF HookWrite
<1>3. LogsLine(s) /\ \A t \in Sessions \ {s} : LogsNothing(t)
  BY <1>1 DEF HookWrite, LogsLine, LogsNothing, TypeOK
<1> QED BY <1>1, <1>2, <1>3

LEMMA PollLogs ==
  ASSUME TypeOK, NEW s \in Sessions, PollAppends(s), UNCHANGED <<aside, late>>
  PROVE  /\ LogsLine(s) /\ \A t \in Sessions \ {s} : LogsNothing(t)
         /\ written' = [written EXCEPT ![s] = @ + 1]
<1>1. /\ written[s] + 1 \in LineId /\ written' = [written EXCEPT ![s] = @ + 1]
      /\ live' = [live EXCEPT ![s] = Append(@, written[s] + 1)]
  BY LogType DEF PollAppends, Events, Log
<1> QED BY <1>1 DEF LogsLine, LogsNothing, TypeOK

\* The log grows by one line of one session, or no line is logged and a file may empty.
LEMMA LogStep ==
  ASSUME TypeOK, [Next]_vars
  PROVE  \/ \E s \in Sessions :
              /\ LogsLine(s) /\ \A t \in Sessions \ {s} : LogsNothing(t)
              /\ written' = [written EXCEPT ![s] = @ + 1]
              /\ UNCHANGED <<saveFile, excuse>>
         \/ /\ UNCHANGED <<written, late>>
            /\ \A t \in Sessions : live'[t] = live[t] \/ live'[t] = <<>>
<1> DEFINE Grows(s) == /\ LogsLine(s) /\ \A t \in Sessions \ {s} : LogsNothing(t)
                       /\ written' = [written EXCEPT ![s] = @ + 1]
                       /\ UNCHANGED <<saveFile, excuse>>
           Keeps == /\ UNCHANGED <<written, late>>
                    /\ \A t \in Sessions : live'[t] = live[t] \/ live'[t] = <<>>
<1> SUFFICES (\E s \in Sessions : Grows(s)) \/ Keeps
  OBVIOUS
<1> USE DEF diskVars, logVars, hostVars, processVars, HostFrame, RotationFrame
<1>1. ASSUME NEW s \in Sessions, HookStep(s) PROVE Grows(s) \/ Keeps
  <2>1. ASSUME NEW h \in Hooks, HookOpen(s, h) PROVE Keeps
    BY <2>1 DEF HookOpen
  <2>2. ASSUME NEW h \in Hooks, NEW e \in HookEvents, HookWrite(s, h, e) PROVE Grows(s)
    BY <2>2, HookLogs
  <2> QED BY <1>1, <2>1, <2>2 DEF HookStep
<1>2. ASSUME NEW s \in Sessions, PollAppends(s), UNCHANGED <<aside, late, saveFile, excuse>>
      PROVE  Grows(s)
  BY <1>2, PollLogs
<1>3. ASSUME NEW s \in Sessions, Truncate(s) PROVE Keeps
  <2>1. live' = [live EXCEPT ![s] = <<>>] /\ UNCHANGED <<written, late>>
    BY <1>3 DEF Truncate
  <2> QED BY <2>1 DEF TypeOK
<1>4. ASSUME NEW s \in Sessions, StaleTimer(s) PROVE Grows(s) \/ Keeps
  <2>1. CASE PollAppends(s)
    BY <1>2, <1>4, <2>1 DEF StaleTimer
  <2>2. CASE UNCHANGED <<live, liveFiles, written, event, poking, current>>
    BY <1>4, <2>2 DEF StaleTimer
  <2> QED BY <1>4, <2>1, <2>2 DEF StaleTimer
<1>5. ASSUME NEW s \in Sessions, Notify(s) \/ RotateCheck(s) \/ PruneArchive(s) PROVE Keeps
  BY <1>5 DEF Notify, RotateCheck, PruneArchive
<1>6. CASE Emit
  <2>1. CASE PollAppends(current)
    <3>1. PICK c \in Sessions : c = current
      BY DEF TypeOK
    <3>2. UNCHANGED <<aside, late, saveFile, excuse>>
      BY <1>6 DEF Emit, HandleEnvelope
    <3> HIDE DEF Grows
    <3> QED BY <1>2, <2>1, <3>1, <3>2
  <2>2. CASE UNCHANGED <<live, liveFiles, written, event, poking>>
    BY <1>6, <2>2 DEF Emit
  <2> QED BY <1>6, <2>1, <2>2 DEF Emit
<1>7. CASE Rename
  <2>1. live' = [live EXCEPT ![current] = <<>>] /\ UNCHANGED <<written, late>>
    BY <1>7 DEF Rename
  <2> QED BY <2>1 DEF TypeOK
<1>8. CASE RotationStep /\ ~Rename
  BY <1>8 DEF RotationStep, ArchiveLeftover, ArchiveRotated, AppendToArchive, UnlinkLeftover,
              UnlinkRotated, UnlinkAside, DrainRotated, OnRotated, RotationFails
<1>9. CASE Poke \/ Autosave \/ PlayerAction
  BY <1>9 DEF Poke, Autosave, PlayerAction
<1>10. CASE Crash \/ Shutdown \/ Start \/ Ready \/ UNCHANGED vars
  BY <1>10 DEF Crash, Shutdown, Die, Start, Ready, vars
<1> HIDE DEF Grows, Keeps
<1> QED BY <1>1, <1>3, <1>4, <1>5, <1>6, <1>7, <1>8, <1>9, <1>10 DEF Next

LEMMA LateStep ==
  ASSUME WatcherInv, PhaseInv, [Next]_vars
  PROVE  \A s \in Sessions : LinesOf(live'[s]) \cap late'[s] = {} /\ late'[s] \subseteq 1..written'[s]
<1>1. TypeOK
  BY DEF WatcherInv
<1>2. ASSUME NEW s \in Sessions, LogsLine(s), \A t \in Sessions \ {s} : LogsNothing(t)
      PROVE  \A t \in Sessions : LinesOf(live'[t]) \cap late'[t] = {} /\ late'[t] \subseteq 1..written'[t]
  BY <1>2, LateKept DEF LogsNothing
<1>3. ASSUME UNCHANGED <<written, late>>, \A t \in Sessions : live'[t] = live[t] \/ live'[t] = <<>>
      PROVE  \A t \in Sessions : LinesOf(live'[t]) \cap late'[t] = {} /\ late'[t] \subseteq 1..written'[t]
  BY <1>3, LateKept
<1> QED BY <1>1, <1>2, <1>3, LogStep

LEMMA PhaseStep ==
  ASSUME WatcherInv, TypeOK', PhaseInv, [Next]_vars
  PROVE  PhaseInv'
<1> DEFINE Now == /\ phase' = "down" => \A s \in Sessions : offsets'[s] = 0 /\ seen'[s] = 0
                  /\ phase' # "replay" => scan' = {}
                  /\ poking' \/ rot' # "none" => phase' = "running"
                  /\ \A s \in scan' : offsets'[s] = 0 /\ seen'[s] = 0 /\ PendingOf(s)' = <<>>
<1>1. TypeOK /\ RotationIsQuiet
  BY DEF WatcherInv
<1>2. SUFFICES Now
  BY LateStep DEF PhaseInv
<1> USE DEF diskVars, logVars, watcherVars, processVars, HostFrame, RotationFrame
\* A step that neither reads nor rotates.
<1>3. ASSUME UNCHANGED <<phase, scan, offsets, seen, poking, rot, pending, current>> PROVE Now
  BY <1>3 DEF PhaseInv, PendingOf
\* A step of the running daemon.
<1>4. ASSUME phase = "running", UNCHANGED <<phase, scan>> PROVE Now
  BY <1>4 DEF PhaseInv
<1> HIDE DEF Now
<1>5. ASSUME NEW s \in Sessions, HookStep(s) \/ Truncate(s) \/ PruneArchive(s) PROVE Now
  BY <1>3, <1>5 DEF HookStep, HookOpen, HookWrite, Truncate, PruneArchive, hostVars
<1>6. CASE Autosave \/ PlayerAction \/ UNCHANGED vars
  BY <1>3, <1>6 DEF Autosave, PlayerAction, vars, hostVars
<1>7. ASSUME NEW s \in Sessions, StaleTimer(s) \/ RotateCheck(s) PROVE Now
  BY <1>4, <1>7 DEF StaleTimer, RotateCheck
<1>8. CASE Poke \/ RotationStep
  <2>1. phase = "running"
    BY <1>8 DEF PhaseInv, Poke, RotationStep, ArchiveLeftover, ArchiveRotated, AppendToArchive,
           UnlinkLeftover, UnlinkRotated, UnlinkAside, Rename, DrainRotated, OnRotated, RotationFails
  <2>2. UNCHANGED <<phase, scan>>
    BY <1>8 DEF Poke, RotationStep, ArchiveLeftover, ArchiveRotated, AppendToArchive,
           UnlinkLeftover, UnlinkRotated, UnlinkAside, Rename, DrainRotated, OnRotated, RotationFails
  <2> QED BY <1>4, <2>1, <2>2
<1>9. ASSUME NEW s \in Sessions, Notify(s) PROVE Now
  <2>1. /\ phase # "down" /\ rot = "none" /\ ~poking /\ pending = <<>> /\ scan' = scan \ {s}
        /\ UNCHANGED <<phase, poking, rot>> /\ current' = s
    BY <1>9 DEF Notify, Idle, Consume
  <2>2. \A t \in Sessions \ {s} : offsets'[t] = offsets[t] /\ seen'[t] = seen[t]
    BY <1>1, <1>9 DEF Notify, Consume, FileReset, hostVars, TypeOK
  <2>3. scan' \subseteq Sessions \ {s}
    BY <1>1, <2>1 DEF TypeOK
  <2> QED BY <2>1, <2>2, <2>3 DEF Now, PhaseInv, PendingOf
<1>10. CASE Emit
  <2>1. /\ pending # <<>> /\ UNCHANGED <<phase, scan, offsets, rot, current>> /\ current \in Sessions
        /\ poking' => phase = "running"
    BY <1>1, <1>10 DEF Emit, PollAppends, TypeOK
  <2>2. \A t \in Sessions \ {current} : seen'[t] = seen[t]
    BY <1>1, <1>10 DEF Emit, HandleEnvelope, TypeOK
  <2>3. current \notin scan /\ phase # "down"
    BY <1>1, <2>1 DEF PhaseInv, PendingOf, RotationIsQuiet
  <2>4. \A t \in scan : t \in Sessions \ {current}
    BY <1>1, <2>3 DEF TypeOK
  <2> QED BY <2>1, <2>2, <2>3, <2>4 DEF Now, PhaseInv, PendingOf
<1>11. CASE Crash \/ Shutdown
  BY <1>11 DEF Crash, Shutdown, Die, Now
<1>12. CASE Start
  BY <1>1, <1>12 DEF Start, Now, PhaseInv, RotationIsQuiet, PendingOf, TypeOK
<1>13. CASE Ready
  BY <1>13 DEF Ready, Now, PhaseInv
<1> QED BY <1>5, <1>6, <1>7, <1>8, <1>9, <1>10, <1>11, <1>12, <1>13 DEF Next

-----------------------------------------------------------------------------
(* What a step does to the economy                                         *)

\* The economy that is counted, and the one that is saved.
LEMMA EconomyStep ==
  ASSUME WatcherInv, [Next]_vars
  PROVE  /\ \/ UNCHANGED saveFile
            \/ saveFile' = save' /\ save'.applied = save.applied /\ UNCHANGED written
         /\ \/ save'.applied = save.applied
            \/ save'.applied = saveFile.applied /\ UNCHANGED <<saveFile, written>>
            \/ /\ current \in Sessions /\ Head(pending) \in 1..written[current] /\ UNCHANGED saveFile
               /\ \A t \in Sessions, l \in LineId :
                    save'.applied[t][l] =
                      IF t = current /\ l = Head(pending) /\ save'.applied[t] # save.applied[t]
                        THEN save.applied[t][l] + 1 ELSE save.applied[t][l]
         /\ \A t \in Sessions : excuse[t] \subseteq excuse'[t]
<1> DEFINE Saved == \/ UNCHANGED saveFile
                    \/ saveFile' = save' /\ save'.applied = save.applied /\ UNCHANGED written
           Applied == \/ save'.applied = save.applied
                      \/ save'.applied = saveFile.applied /\ UNCHANGED <<saveFile, written>>
                      \/ /\ current \in Sessions /\ Head(pending) \in 1..written[current] /\ UNCHANGED saveFile
                         /\ \A t \in Sessions, l \in LineId :
                              save'.applied[t][l] =
                                IF t = current /\ l = Head(pending) /\ save'.applied[t] # save.applied[t]
                                  THEN save.applied[t][l] + 1 ELSE save.applied[t][l]
           Excused == \A t \in Sessions : excuse[t] \subseteq excuse'[t]
<1>1. TypeOK /\ RotationIsQuiet /\ LinesAreLogged
  BY DEF WatcherInv
<1> SUFFICES Saved /\ Applied /\ Excused
  OBVIOUS
<1> USE DEF diskVars, logVars, watcherVars, processVars, HostFrame, RotationFrame
<1>2. ASSUME UNCHANGED <<save, saveFile, excuse>> PROVE Saved /\ Applied /\ Excused
  BY <1>2
<1>3. ASSUME UNCHANGED <<save, excuse, written>>, saveFile' = save \/ UNCHANGED saveFile
      PROVE  Saved /\ Applied /\ Excused
  BY <1>3
<1>4. ASSUME NEW s \in Sessions, FileReset(s), UNCHANGED written
      PROVE  Saved /\ Applied
  <2>1. save'.applied = save.applied /\ (saveFile' = save' \/ UNCHANGED saveFile)
    BY <1>1, <1>4, ResetFields
  <2> QED BY <1>4, <2>1
<1>5. ASSUME NEW s \in Sessions, Consume(s), UNCHANGED written
      PROVE  Saved /\ Applied
  BY <1>4, <1>5 DEF Consume, hostVars
<1>6. CASE Emit
  <2>1. /\ pending # <<>> /\ current \in Sessions /\ HandleEnvelope(current, Head(pending))
        /\ pending \in Seq(LineId) /\ UNCHANGED excuse
    BY <1>1, <1>6 DEF Emit, TypeOK
  <2>2. Head(pending) \in LineId /\ Head(pending) \in LinesOf(pending)
    BY <2>1 DEF LinesOf
  <2>3. /\ Handled(current, Head(pending)) /\ UNCHANGED saveFile
        /\ \A t \in Sessions \ {current} : save'.applied[t] = save.applied[t]
    BY <1>1, <2>1, <2>2, HandledLine
  <2>4. save.applied[current] \in [LineId -> Nat]
    BY <1>1, <2>1, EconomyTypes DEF TypeOK
  <2>5. ASSUME NEW l \in LineId
        PROVE  save'.applied[current][l] =
                 IF l = Head(pending) /\ save'.applied[current] # save.applied[current]
                   THEN save.applied[current][l] + 1 ELSE save.applied[current][l]
    BY <2>3, <2>4 DEF Handled
  <2>6. Head(pending) \in 1..written[current]
    BY <1>1, <2>2 DEF LinesAreLogged
  <2> QED BY <2>1, <2>3, <2>5, <2>6
<1>7. CASE Crash \/ Shutdown
  <2>1. UNCHANGED <<save, written>> /\ (saveFile' = save \/ UNCHANGED saveFile)
    BY <1>7 DEF Crash, Shutdown, Die, WriteSave
  <2>2. \A t \in Sessions : excuse[t] \subseteq excuse'[t]
    BY <1>7 DEF Crash, Shutdown
  <2> QED BY <2>1, <2>2
<1>8. CASE Start
  <2>1. saveFile = [applied |-> saveFile.applied, cursors |-> saveFile.cursors]
    BY <1>1 DEF TypeOK, Saves
  <2>2. save'.applied = saveFile.applied /\ UNCHANGED <<saveFile, written, excuse>>
    BY <1>8, <2>1 DEF Start
  <2> QED BY <2>2
<1> HIDE DEF Saved, Applied
<1>9. ASSUME NEW s \in Sessions, HookStep(s) PROVE Saved /\ Applied /\ Excused
  BY <1>2, <1>9 DEF HookStep, HookOpen, HookWrite, hostVars
<1>10. ASSUME NEW s \in Sessions, Truncate(s) PROVE Saved /\ Applied /\ Excused
  <2>1. excuse' = [excuse EXCEPT ![s] = @ \cup {"truncated"}] /\ UNCHANGED <<save, saveFile, written>>
    BY <1>10 DEF Truncate, hostVars
  <2> QED BY <1>1, <2>1 DEF TypeOK, Saved, Applied
<1>11. ASSUME NEW s \in Sessions, Notify(s) PROVE Saved /\ Applied /\ Excused
  BY <1>5, <1>11 DEF Notify
<1>12. ASSUME NEW s \in Sessions, StaleTimer(s) \/ RotateCheck(s) \/ PruneArchive(s)
       PROVE  Saved /\ Applied /\ Excused
  BY <1>2, <1>12 DEF StaleTimer, RotateCheck, PruneArchive, hostVars
<1>13. CASE Poke
  <2>1. PICK c \in Sessions : c = current
    BY <1>1 DEF TypeOK
  <2>2. Saved /\ Applied
    BY <1>5, <1>13, <2>1 DEF Poke
  <2>3. Excused
    BY <1>1, <1>13 DEF Poke, TypeOK
  <2> QED BY <2>2, <2>3
<1>14. CASE Autosave \/ PlayerAction
  BY <1>3, <1>14 DEF Autosave, PlayerAction, WriteSave
<1>15. CASE OnRotated
  <2>1. PICK c \in Sessions : c = current
    BY <1>1 DEF TypeOK
  <2> QED BY <1>4, <1>15, <2>1 DEF OnRotated
<1>16. CASE RotationFails
  <2>1. /\ excuse' = [excuse EXCEPT ![current] = IF rot = "read" THEN @ \cup {"drainFailed"} ELSE @]
        /\ UNCHANGED <<save, saveFile, written>>
    BY <1>16 DEF RotationFails, hostVars
  <2>2. Excused
    BY <1>1, <2>1 DEF TypeOK
  <2> QED BY <2>1, <2>2 DEF Saved, Applied
<1>17. CASE RotationStep /\ ~OnRotated /\ ~RotationFails
  BY <1>2, <1>17 DEF RotationStep, ArchiveLeftover, ArchiveRotated, AppendToArchive, UnlinkLeftover,
              UnlinkRotated, UnlinkAside, Rename, DrainRotated, hostVars
<1>18. CASE Ready \/ UNCHANGED vars
  BY <1>2, <1>18 DEF Ready, vars, hostVars
<1> QED BY <1>6, <1>7, <1>8, <1>9, <1>10, <1>11, <1>12, <1>13, <1>14, <1>15, <1>16, <1>17, <1>18
        DEF Next

LEMMA LagInit == Init => LagInv
BY DEF Init, LagInv, FreshSave

LEMMA LagStep ==
  ASSUME WatcherInv, TypeOK', LagInv, [Next]_vars
  PROVE  LagInv'
<1>1. TypeOK
  BY DEF WatcherInv
<1>2. \A t \in Sessions : written[t] \in Nat /\ written'[t] \in Nat /\ written[t] <= written'[t]
  <2>1. \A t \in Sessions : written[t] \in Nat /\ written'[t] \in Nat
    BY <1>1, BoundsAssumption DEF TypeOK
  <2>2. ASSUME NEW s \in Sessions, written' = [written EXCEPT ![s] = @ + 1]
        PROVE  \A t \in Sessions : written[t] <= written'[t]
    <3>1. written'[s] = written[s] + 1 /\ \A t \in Sessions \ {s} : written'[t] = written[t]
      BY <1>1, <2>2 DEF TypeOK
    <3> QED BY <2>1, <3>1
  <2>3. (\E s \in Sessions : written' = [written EXCEPT ![s] = @ + 1]) \/ written' = written
    BY <1>1, LogStep
  <2> QED BY <2>1, <2>2, <2>3
<1>3. \A t \in Sessions, l \in LineId :
        save.applied[t][l] \in Nat /\ saveFile.applied[t][l] \in Nat /\ l \in Nat
  BY <1>1, EconomyTypes DEF TypeOK, LineId
<1>4. CASE save'.applied = save.applied
  <2>1. ASSUME NEW t \in Sessions, NEW l \in LineId
        PROVE  saveFile'.applied[t][l] <= save'.applied[t][l]
    BY <1>3, <1>4, EconomyStep DEF LagInv
  <2>2. ASSUME NEW t \in Sessions, NEW l \in LineId, save'.applied[t][l] > 0
        PROVE  l <= written'[t]
    BY <1>2, <1>3, <1>4, <2>2 DEF LagInv
  <2> QED BY <2>1, <2>2 DEF LagInv
<1>5. CASE save'.applied = saveFile.applied /\ UNCHANGED <<saveFile, written>>
  <2>1. ASSUME NEW t \in Sessions, NEW l \in LineId, save'.applied[t][l] > 0
        PROVE  l <= written'[t]
    <3>1. save.applied[t][l] > 0
      BY <1>3, <1>5, <2>1 DEF LagInv
    <3> QED BY <1>5, <3>1 DEF LagInv
  <2> QED BY <1>3, <1>5, <2>1 DEF LagInv
<1>6. CASE /\ current \in Sessions /\ Head(pending) \in 1..written[current] /\ UNCHANGED saveFile
           /\ \A t \in Sessions, l \in LineId :
                save'.applied[t][l] =
                  IF t = current /\ l = Head(pending) /\ save'.applied[t] # save.applied[t]
                    THEN save.applied[t][l] + 1 ELSE save.applied[t][l]
  <2>1. ASSUME NEW t \in Sessions, NEW l \in LineId
        PROVE  saveFile'.applied[t][l] <= save'.applied[t][l]
    BY <1>3, <1>6 DEF LagInv
  <2>2. ASSUME NEW t \in Sessions, NEW l \in LineId, save'.applied[t][l] > 0
        PROVE  l <= written'[t]
    <3>1. CASE t = current /\ l = Head(pending)
      BY <1>2, <1>3, <1>6, <3>1
    <3>2. CASE ~(t = current /\ l = Head(pending))
      BY <1>2, <1>3, <1>6, <2>2, <3>2 DEF LagInv
    <3> QED BY <3>1, <3>2
  <2> QED BY <2>1, <2>2 DEF LagInv
<1> QED BY <1>4, <1>5, <1>6, EconomyStep

-----------------------------------------------------------------------------
(* What a step does to every session                                       *)

Counted == \A s \in Sessions : AtMostOnce(s) /\ Exactly(s)

LEMMA CountInit == Init => Counted
<1> SUFFICES ASSUME Init, NEW s \in Sessions PROVE AtMostOnce(s) /\ Exactly(s)
  BY DEF Counted
<1>1. /\ phase = "down" /\ saveFile = FreshSave /\ save = FreshSave /\ live[s] = <<>>
      /\ written[s] = 0 /\ stale[s] = FALSE
  BY DEF Init
<1>2. \A l \in LineId : FreshSave.applied[s][l] = 0
  BY DEF FreshSave
<1>3. FreshSave.cursors[s] = 0
  BY DEF FreshSave
<1>4. AppliedOnce(save, s) /\ SavedAtMostOnce(saveFile, s)
  BY <1>1, <1>2 DEF AppliedOnce, SavedAtMostOnce
<1>5. SavedExactly(saveFile, s)
  <2>1. 1..0 = {}
    OBVIOUS
  <2> QED BY <1>1, <1>3, <2>1 DEF SavedExactly, Uncounted
<1> QED BY <1>1, <1>4, <1>5 DEF AtMostOnce, Exactly

\* The sessions other than the one a step is about.
LEMMA OthersUntouched ==
  ASSUME TypeOK, TypeOK', PhaseInv, Counted, phase' = phase, NEW s,
         \A t \in Sessions \ {s} : Untouched(t) /\ MaySave(t)
  PROVE  \A t \in Sessions \ {s} : AtMostOnce(t)' /\ Exactly(t)'
BY SessionUntouched DEF Counted

\* A step that counts nothing: at most it saves, when nothing waits.
LEMMA NothingCounted ==
  ASSUME TypeOK, TypeOK', PhaseInv, Counted,
         UNCHANGED <<live, written, late, seen, offsets, save, scan, phase>>,
         \A t \in Sessions : excuse[t] \subseteq excuse'[t],
         \/ UNCHANGED <<saveFile, stale>>
         \/ saveFile' = save /\ (\A t \in Sessions : stale'[t] = FALSE) /\ Idle,
         \/ UNCHANGED <<pending, current, rot>> /\ (rot = "read" => UNCHANGED aside)
         \/ pending = <<>> /\ pending' = <<>> /\ {rot, rot'} \cap {"read", "drain"} = {}
  PROVE  Counted'
<1> SUFFICES ASSUME NEW t \in Sessions PROVE AtMostOnce(t)' /\ Exactly(t)'
  BY DEF Counted
<1>1. Untouched(t)
  BY DEF Untouched, PendingOf, Reading, Draining
<1>2. MaySave(t)
  BY DEF MaySave, Idle, PendingOf, Reading, Draining
<1> QED BY <1>1, <1>2, SessionUntouched DEF Counted

LEMMA CountHook ==
  ASSUME WatcherInv, TypeOK', PhaseInv, LagInv, Counted, NEW s \in Sessions, HookStep(s)
  PROVE  Counted'
<1> USE DEF hostVars, watcherVars, processVars
<1>1. ASSUME NEW h \in Hooks, HookOpen(s, h) PROVE Counted'
  BY <1>1, NothingCounted DEF WatcherInv, HookOpen, logVars
<1>2. ASSUME NEW h \in Hooks, NEW e \in HookEvents, HookWrite(s, h, e) PROVE Counted'
  <2>1. /\ LogsLine(s) /\ \A t \in Sessions \ {s} : LogsNothing(t)
        /\ UNCHANGED <<hostVars, watcherVars, processVars, rot, excuse>>
    BY <1>2, HookLogs DEF WatcherInv
  <2>2. /\ PendingOf(s)' = PendingOf(s) /\ (Reading(s)' <=> Reading(s))
        /\ (Draining(s)' <=> Draining(s))
    BY <2>1 DEF PendingOf, Reading, Draining
  <2>3. AtMostOnce(s)' /\ Exactly(s)'
    BY <2>1, <2>2, SessionLogs DEF Counted
  <2>4. \A t \in Sessions \ {s} : Untouched(t) /\ MaySave(t)
    BY <2>1 DEF Untouched, MaySave, LogsNothing, PendingOf, Reading, Draining
  <2> QED BY <2>1, <2>3, <2>4, OthersUntouched DEF WatcherInv, Counted
<1> QED BY <1>1, <1>2 DEF HookStep

LEMMA CountTruncate ==
  ASSUME WatcherInv, TypeOK', PhaseInv, Counted, NEW s \in Sessions, Truncate(s)
  PROVE  Counted'
<1>1. TypeOK
  BY DEF WatcherInv
<1>2. \A t \in Sessions \ {s} : live'[t] = live[t] /\ excuse'[t] = excuse[t]
  BY <1>1 DEF Truncate, TypeOK
<1>3. UNCHANGED <<aside, written, late, hostVars, watcherVars, processVars, rot>>
  BY DEF Truncate
<1>4. \A t \in Sessions \ {s} : Untouched(t) /\ MaySave(t)
  BY <1>2, <1>3 DEF Untouched, MaySave, PendingOf, Reading, Draining, hostVars, watcherVars, processVars
<1>5. AtMostOnce(s)' /\ Exactly(s)'
  BY <1>1, SessionTruncated DEF Counted
<1> QED BY <1>1, <1>3, <1>4, <1>5, OthersUntouched DEF Counted, processVars

\* consume(s), from the watcher or from a poke.
LEMMA CountConsume ==
  ASSUME WatcherInv, TypeOK', PhaseInv, Counted, NEW s \in Sessions, Consume(s),
         phase # "down", pending = <<>> \/ current = s, rot = "none" \/ current = s,
         UNCHANGED <<live, aside, written, late, phase, rot>>,
         scan' \subseteq scan, \A t \in Sessions \ {s} : t \in scan => t \in scan',
         \A t \in Sessions \ {s} : excuse[t] \subseteq excuse'[t]
  PROVE  \A t \in Sessions \ {s} : AtMostOnce(t)' /\ Exactly(t)'
<1>1. TypeOK
  BY DEF WatcherInv
<1>2. /\ \A t \in Sessions \ {s} :
           /\ offsets'[t] = offsets[t] /\ seen'[t] = seen[t]
           /\ save'.applied[t] = save.applied[t] /\ save'.cursors[t] = save.cursors[t]
      /\ \/ saveFile' = save' /\ \A t \in Sessions : stale'[t] = FALSE
         \/ UNCHANGED <<saveFile, stale>>
  <2>1. \A t \in Sessions \ {s} : offsets'[t] = offsets[t]
    BY <1>1 DEF Consume, TypeOK
  <2>2. CASE FileReset(s)
    BY <2>1, <2>2, <1>1, ResetFields
  <2>3. CASE UNCHANGED hostVars
    BY <2>1, <2>3 DEF hostVars
  <2> QED BY <2>2, <2>3 DEF Consume
<1>3. \A t \in Sessions \ {s} :
        /\ PendingOf(t) = <<>> /\ PendingOf(t)' = <<>> /\ (t \in scan' <=> t \in scan)
        /\ ~Reading(t) /\ ~Reading(t)'
  BY DEF Consume, PendingOf, Reading
<1>4. current' = s
  BY DEF Consume
<1>5. \A t \in Sessions \ {s} : ~Draining(t) /\ ~Draining(t)'
  BY <1>4 DEF Draining
<1>6. \A t \in Sessions \ {s} : Untouched(t)
  BY <1>2, <1>3, <1>5 DEF Untouched
<1>7. \A t \in Sessions \ {s} : MaySave(t)
  BY <1>2, <1>3, <1>5 DEF MaySave
<1> QED BY <1>1, <1>6, <1>7, OthersUntouched

LEMMA CountNotify ==
  ASSUME WatcherInv, TypeOK', NoFileNoLines, PhaseInv, Counted, NEW s \in Sessions, Notify(s)
  PROVE  Counted'
<1>1. /\ Consume(s) /\ phase # "down" /\ pending = <<>> /\ rot = "none" /\ scan' = scan \ {s}
      /\ UNCHANGED <<live, aside, written, late, phase, rot, excuse>>
  BY DEF Notify, Idle, diskVars, logVars
<1>2. AtMostOnce(s)' /\ Exactly(s)'
  BY <1>1, SessionConsumes DEF WatcherInv, Counted
<1>3. \A t \in Sessions \ {s} : AtMostOnce(t)' /\ Exactly(t)'
  BY <1>1, CountConsume
<1> QED BY <1>2, <1>3 DEF Counted

\* A poke nested in a drain voids its session; any other reads it like the watcher.
LEMMA CountPoke ==
  ASSUME WatcherInv, TypeOK', NoFileNoLines, PhaseInv, Counted, Poke
  PROVE  Counted'
<1>1. PICK s \in Sessions : s = current
  BY DEF WatcherInv, TypeOK
<1>2. /\ Consume(s) /\ phase = "running" /\ scan = {} /\ scan' = {} /\ rot \in {"none", "drain"}
      /\ UNCHANGED <<live, aside, written, late, phase, rot>>
  BY <1>1 DEF Poke, PhaseInv, WatcherInv, RotationIsQuiet, diskVars, logVars, processVars
<1>3. /\ \A t \in Sessions \ {s} : excuse'[t] = excuse[t]
      /\ excuse'[s] = IF rot = "drain" THEN excuse[s] \cup {"nestedDrain"} ELSE excuse[s]
  BY <1>1 DEF Poke, WatcherInv, TypeOK
<1>4. AtMostOnce(s)' /\ Exactly(s)'
  <2>1. CASE rot = "drain"
    BY <1>3, <2>1 DEF AtMostOnce, Exactly
  <2>2. CASE rot = "none"
    BY <1>1, <1>2, <1>3, <2>2, SessionConsumes DEF WatcherInv, Counted
  <2> QED BY <1>2, <2>1, <2>2
<1>5. \A t \in Sessions \ {s} : AtMostOnce(t)' /\ Exactly(t)'
  BY <1>1, <1>2, <1>3, CountConsume
<1> QED BY <1>4, <1>5 DEF Counted

LEMMA CountStaleTimer ==
  ASSUME WatcherInv, TypeOK', PhaseInv, LagInv, Counted, NEW s \in Sessions, StaleTimer(s)
  PROVE  Counted'
<1>1. /\ TypeOK /\ pending = <<>> /\ pending' = <<>> /\ rot = "none" /\ rot' = "none"
      /\ UNCHANGED <<aside, late, seen, save, saveFile, stale, offsets, phase, scan, excuse>>
  BY DEF WatcherInv, StaleTimer, Idle, processVars
<1>2. CASE PollAppends(s)
  <2>1. LogsLine(s) /\ \A t \in Sessions \ {s} : LogsNothing(t)
    BY <1>1, <1>2, PollLogs
  <2>2. \A t \in Sessions : /\ PendingOf(t) = <<>> /\ PendingOf(t)' = <<>> /\ ~Reading(t) /\ ~Reading(t)'
                            /\ ~Draining(t) /\ ~Draining(t)'
    BY <1>1 DEF PendingOf, Reading, Draining
  <2>3. AtMostOnce(s)' /\ Exactly(s)'
    BY <1>1, <2>1, <2>2, SessionLogs DEF Counted
  <2>4. \A t \in Sessions \ {s} : Untouched(t) /\ MaySave(t)
    BY <1>1, <2>1, <2>2 DEF Untouched, MaySave, LogsNothing
  <2> QED BY <1>1, <2>3, <2>4, OthersUntouched DEF Counted
<1>3. CASE UNCHANGED <<live, liveFiles, written, event, poking, current>>
  BY <1>1, <1>3, NothingCounted
<1> QED BY <1>2, <1>3 DEF StaleTimer

LEMMA CountEmit ==
  ASSUME WatcherInv, TypeOK', PhaseInv, LagInv, Counted, Emit
  PROVE  Counted'
<1>1. PICK s \in Sessions : s = current
  BY DEF WatcherInv, TypeOK
<1>2. /\ TypeOK /\ pending \in Seq(LineId) /\ pending # <<>> /\ pending' = Tail(pending)
      /\ HandleEnvelope(s, Head(pending)) /\ current' = current /\ phase # "down" /\ rot # "read"
      /\ UNCHANGED <<aside, late, offsets, phase, scan, rot, excuse>>
  BY <1>1 DEF WatcherInv, TypeOK, Emit, RotationIsQuiet, processVars
<1>3. /\ Handled(s, Head(pending)) /\ UNCHANGED <<saveFile, stale>>
      /\ \A t \in Sessions \ {s} :
           /\ seen'[t] = seen[t]
           /\ save'.cursors[t] = save.cursors[t] /\ save'.applied[t] = save.applied[t]
  <2>1. Head(pending) \in LineId
    BY <1>2
  <2> QED BY <1>2, <2>1, HandledLine
<1>4. (LogsLine(s) \/ LogsNothing(s)) /\ \A t \in Sessions \ {s} : LogsNothing(t)
  <2>1. CASE PollAppends(s)
    BY <1>2, <2>1, PollLogs
  <2>2. CASE UNCHANGED <<live, liveFiles, written, event, poking>>
    BY <1>2, <2>2 DEF LogsNothing
  <2> QED BY <1>1, <2>1, <2>2 DEF Emit
<1>5. /\ PendingOf(s)' = Tail(pending) /\ (Reading(s)' <=> Reading(s)) /\ (Draining(s)' <=> Draining(s))
      /\ \A t \in Sessions \ {s} : /\ PendingOf(t) = <<>> /\ PendingOf(t)' = <<>>
                                   /\ ~Reading(t) /\ ~Reading(t)' /\ ~Draining(t) /\ ~Draining(t)'
  BY <1>1, <1>2 DEF PendingOf, Reading, Draining
<1>6. AtMostOnce(s)' /\ Exactly(s)'
  BY <1>1, <1>2, <1>3, <1>4, <1>5, SessionEmits DEF Counted
<1>7. \A t \in Sessions \ {s} : Untouched(t)
  BY <1>2, <1>3, <1>4, <1>5 DEF Untouched, LogsNothing
<1>8. \A t \in Sessions \ {s} : MaySave(t)
  BY <1>3 DEF MaySave
<1> QED BY <1>2, <1>6, <1>7, <1>8, OthersUntouched DEF Counted

LEMMA CountRotation ==
  ASSUME WatcherInv, TypeOK', PhaseInv, Counted, RotationStep
  PROVE  Counted'
<1>1. PICK s \in Sessions : s = current
  BY DEF WatcherInv, TypeOK
<1>2. TypeOK /\ RotationIsQuiet
  BY DEF WatcherInv
<1> USE DEF RotationFrame, diskVars, logVars, hostVars, processVars
<1>3. ASSUME NEW from \in {"leftover", "archive"}, NEW to \in {"cleanup", "unlink"}, AppendToArchive(from, to)
      PROVE  Counted'
  <2>1. pending = <<>> /\ pending' = <<>> /\ rot = from /\ rot' = to
    BY <1>2, <1>3 DEF RotationIsQuiet, AppendToArchive
  <2> QED BY <1>2, <1>3, <2>1, NothingCounted DEF AppendToArchive
<1>4. ASSUME NEW from \in {"cleanup", "unlink"}, NEW to \in {"rename", "none"}, UnlinkAside(from, to)
      PROVE  Counted'
  <2>1. pending = <<>> /\ pending' = <<>> /\ rot = from /\ rot' = to
    BY <1>2, <1>4 DEF RotationIsQuiet, UnlinkAside
  <2> QED BY <1>2, <1>4, <2>1, NothingCounted DEF UnlinkAside
<1>5. ASSUME \A t \in Sessions \ {s} :
               /\ live'[t] = live[t] /\ seen'[t] = seen[t] /\ offsets'[t] = offsets[t]
               /\ save'.applied[t] = save.applied[t] /\ save'.cursors[t] = save.cursors[t]
               /\ (UNCHANGED saveFile /\ stale'[t] = stale[t]) \/ (saveFile' = save' /\ stale'[t] = FALSE)
               /\ excuse[t] \subseteq excuse'[t],
             UNCHANGED <<written, late, current, phase, scan>>, phase # "down"
      PROVE  \A t \in Sessions \ {s} : AtMostOnce(t)' /\ Exactly(t)'
  <2>1. \A t \in Sessions \ {s} :
          /\ PendingOf(t) = <<>> /\ PendingOf(t)' = <<>>
          /\ ~Reading(t) /\ ~Reading(t)' /\ ~Draining(t) /\ ~Draining(t)'
    BY <1>1, <1>5 DEF PendingOf, Reading, Draining
  <2>2. \A t \in Sessions \ {s} : Untouched(t) /\ MaySave(t)
    BY <1>5, <2>1 DEF Untouched, MaySave
  <2> QED BY <1>2, <1>5, <2>2, OthersUntouched
<1>6. rot # "none" => phase # "down"
  BY DEF PhaseInv
<1>7. CASE Rename
  <2>1. AtMostOnce(s)' /\ Exactly(s)'
    BY <1>1, <1>7, SessionRenamed DEF Counted
  <2>2. \A t \in Sessions \ {s} : live'[t] = live[t] /\ stale'[t] = stale[t]
    BY <1>1, <1>2, <1>7 DEF Rename, TypeOK
  <2>3. phase # "down" /\ UNCHANGED <<written, late, seen, offsets, save, saveFile, current, phase, scan, excuse>>
    BY <1>6, <1>7 DEF Rename
  <2>4. \A t \in Sessions \ {s} : AtMostOnce(t)' /\ Exactly(t)'
    BY <1>5, <2>2, <2>3
  <2> QED BY <2>1, <2>4 DEF Counted
<1>8. CASE DrainRotated
  <2>1. AtMostOnce(s)' /\ Exactly(s)'
    BY <1>1, <1>8, SessionDrained DEF Counted
  <2>2. \A t \in Sessions \ {s} : offsets'[t] = offsets[t]
    BY <1>1, <1>2, <1>8 DEF DrainRotated, TypeOK
  <2>3. phase # "down" /\ UNCHANGED <<live, written, late, seen, save, saveFile, stale, current, phase, scan, excuse>>
    BY <1>6, <1>8 DEF DrainRotated
  <2>4. \A t \in Sessions \ {s} : AtMostOnce(t)' /\ Exactly(t)'
    BY <1>5, <2>2, <2>3
  <2> QED BY <2>1, <2>4 DEF Counted
<1>9. CASE OnRotated
  <2>1. AtMostOnce(s)' /\ Exactly(s)'
    BY <1>1, <1>9, SessionRotated DEF Counted
  <2>2. /\ save'.applied = save.applied
        /\ \A t \in Sessions \ {s} : seen'[t] = seen[t] /\ save'.cursors[t] = save.cursors[t]
        /\ \/ saveFile' = save' /\ \A t \in Sessions : stale'[t] = FALSE
           \/ UNCHANGED <<saveFile, stale>>
    BY <1>1, <1>2, <1>9, ResetFields DEF OnRotated
  <2>3. phase # "down" /\ UNCHANGED <<live, written, late, offsets, current, phase, scan, excuse>>
    BY <1>6, <1>9 DEF OnRotated
  <2>4. \A t \in Sessions \ {s} : AtMostOnce(t)' /\ Exactly(t)'
    BY <1>5, <2>2, <2>3
  <2> QED BY <2>1, <2>4 DEF Counted
<1>10. CASE RotationFails
  <2>1. CASE rot = "read"
    <3>1. AtMostOnce(s)' /\ Exactly(s)'
      BY <1>1, <1>10, <2>1, SessionNotDrained DEF Counted
    <3>2. \A t \in Sessions \ {s} : excuse'[t] = excuse[t]
      BY <1>1, <1>2, <1>10 DEF RotationFails, TypeOK
    <3>3. /\ phase # "down"
          /\ UNCHANGED <<live, written, late, seen, offsets, save, saveFile, stale, current, phase, scan>>
      BY <1>6, <1>10, <2>1 DEF RotationFails
    <3>4. \A t \in Sessions \ {s} : AtMostOnce(t)' /\ Exactly(t)'
      BY <1>5, <3>2, <3>3
    <3> QED BY <3>1, <3>4 DEF Counted
  <2>2. CASE rot # "read"
    <3>1. excuse' = [excuse EXCEPT ![current] = @] /\ pending = <<>> /\ rot # "drain" /\ rot' = "none"
      BY <1>2, <1>10, <2>2 DEF RotationFails, RotationIsQuiet
    <3>2. \A t \in Sessions : excuse[t] \subseteq excuse'[t]
      BY <1>2, <3>1 DEF TypeOK
    <3> QED BY <1>2, <1>10, <2>2, <3>1, <3>2, NothingCounted DEF RotationFails
  <2> QED BY <2>1, <2>2
<1>11. CASE ArchiveLeftover \/ ArchiveRotated
  BY <1>3, <1>11 DEF ArchiveLeftover, ArchiveRotated
<1>12. CASE UnlinkLeftover \/ UnlinkRotated
  BY <1>4, <1>12 DEF UnlinkLeftover, UnlinkRotated
<1> QED BY <1>7, <1>8, <1>9, <1>10, <1>11, <1>12 DEF RotationStep

LEMMA CountedStep ==
  ASSUME WatcherInv, TypeOK', NoFileNoLines, PhaseInv, LagInv, Counted, [Next]_vars
  PROVE  Counted'
<1>1. TypeOK
  BY DEF WatcherInv
<1> USE DEF diskVars, logVars, watcherVars, processVars, HostFrame, RotationFrame
<1>2. ASSUME NEW s \in Sessions, RotateCheck(s) PROVE Counted'
  <2>1. /\ pending = <<>> /\ pending' = <<>> /\ rot = "none" /\ rot' \in {"leftover", "rename"}
        /\ UNCHANGED <<live, written, late, seen, offsets, save, saveFile, stale, scan, phase, excuse>>
    BY <1>2 DEF RotateCheck, Idle, hostVars
  <2>2. {rot, rot'} \cap {"read", "drain"} = {}
    BY <2>1
  <2> QED BY <1>1, <2>1, <2>2, NothingCounted
<1>3. ASSUME NEW s \in Sessions, PruneArchive(s) PROVE Counted'
  BY <1>1, <1>3, NothingCounted DEF PruneArchive, hostVars
<1>4. CASE Autosave \/ PlayerAction
  <2>1. /\ UNCHANGED <<live, aside, written, late, seen, offsets, save, scan, phase, excuse, pending, current, rot>>
        /\ \/ UNCHANGED <<saveFile, stale>>
           \/ saveFile' = save /\ (\A t \in Sessions : stale'[t] = FALSE) /\ Idle
    BY <1>4 DEF Autosave, PlayerAction, WriteSave
  <2> QED BY <1>1, <2>1, NothingCounted
<1>5. CASE UNCHANGED vars
  BY <1>1, <1>5, NothingCounted DEF vars, hostVars
<1>6. CASE Crash \/ Shutdown
  BY <1>1, <1>6, SessionCrashes, SessionShutDown DEF Counted
<1>7. CASE Start
  BY <1>7, SessionStarts DEF Counted
<1>8. CASE Ready
  BY <1>1, <1>8, SessionReady DEF Counted
<1> QED BY <1>2, <1>3, <1>4, <1>5, <1>6, <1>7, <1>8, CountHook, CountTruncate, CountNotify,
           CountStaleTimer, CountEmit, CountPoke, CountRotation DEF Next

-----------------------------------------------------------------------------
(* The theorems                                                            *)

LEMMA ArchiveHolds == Spec => []ArchiveInv
BY TypeCorrect, WatcherHolds, ArchiveInit, ArchiveStep, PTL DEF Spec

LEMMA CountStep == WatcherInv /\ WatcherInv' /\ ArchiveInv /\ CountInv /\ [Next]_vars => CountInv'
BY PhaseStep, LagStep, CountedStep DEF CountInv, Counted, ArchiveInv, WatcherInv

LEMMA CountHolds == Spec => []CountInv
<1>1. Init => CountInv
  BY PhaseInit, LagInit, CountInit DEF CountInv, Counted
<1> QED BY <1>1, CountStep, WatcherHolds, ArchiveHolds, PTL DEF Spec

\* No crash, lost save, failed call or truncation makes the economy count a line
\* twice: only a poke that re-enters the watcher in a rotation's drain can.
THEOREM CountedTwiceOnlyWhenNested == Spec => []DoubleCountNeedsNestedDrain
<1>1. WatcherInv /\ CountInv => DoubleCountNeedsNestedDrain
  <2> SUFFICES ASSUME WatcherInv, CountInv, NEW s \in Sessions, NEW l \in LineId,
                      save.applied[s][l] > 1, "nestedDrain" \notin excuse[s]
               PROVE  FALSE
    BY DEF DoubleCountNeedsNestedDrain
  <2>1. save.applied[s][l] <= 1
    BY DEF CountInv, AtMostOnce, AppliedOnce
  <2>2. save.applied[s][l] \in Nat
    BY EconomyTypes DEF WatcherInv, TypeOK
  <2> QED BY <2>1, <2>2
<1> QED BY <1>1, WatcherHolds, CountHolds, PTL

\* What this process has yet to emit is what the next read returns and what waits.
LEMMA UnreadOrPending ==
  ASSUME WatcherInv, NEW s \in Sessions, CountedExactly(s)
  PROVE  Unread(s) = UnreadLines(s) \cup LinesOf(PendingOf(s))
<1>1. /\ live[s] \in Seq(LineId) /\ aside[s] \in Seq(LineId) /\ offsets[s] \in Nat
  BY SessionTypes DEF WatcherInv
<1>2. CASE Reading(s)
  <2>1. PendingOf(s) = <<>>
    BY <1>2 DEF WatcherInv, RotationIsQuiet, Reading, PendingOf
  <2>2. LinesOf(NewLines(aside[s], offsets[s])) = LinesFrom(aside[s], offsets[s])
    BY <1>1, <1>2, NewLinesOfFile DEF CountedExactly
  <2> QED BY <1>2, <2>1, <2>2, LinesOfEmpty DEF Unread, UnreadLines, Reading
<1>3. CASE ~Reading(s)
  <2>1. LinesOf(NewLines(live[s], offsets[s])) = LinesFrom(live[s], offsets[s])
    BY <1>1, <1>3, NewLinesOfFile DEF CountedExactly
  <2>2. LinesOf(PendingOf(s)) = IF current = s THEN LinesOf(pending) ELSE {}
    BY LinesOfEmpty DEF PendingOf
  <2> QED BY <1>3, <2>1, <2>2 DEF Unread, UnreadLines, UnreadLive, Reading
<1> QED BY <1>2, <1>3

\* After the startup replay the economy has absorbed every line it read exactly
\* once and no other, however many crashes, replays and rotations lie behind it.
THEOREM CountedExactlyOnce == Spec => []ExactlyOnce
<1>1. WatcherInv /\ CountInv => ExactlyOnce
  <2> SUFFICES ASSUME WatcherInv, CountInv, phase = "running", NEW s \in Sessions, excuse[s] = {},
                      NEW l \in (1..written[s]) \ late[s]
               PROVE  save.applied[s][l] = IF l \in Unread(s) THEN 0 ELSE 1
    BY DEF ExactlyOnce
  <2>1. CountedExactly(s) /\ CountedAtMostOnce(s) /\ AppliedOnce(save, s)
    BY DEF CountInv, AtMostOnce, Exactly
  <2>2. s \notin scan
    BY DEF CountInv, PhaseInv
  <2>3. l \in LineId
    <3>1. written[s] \in 0..MaxLines /\ MaxLines \in Nat
      BY BoundsAssumption DEF WatcherInv, TypeOK
    <3> QED BY <3>1 DEF LineId
  <2>4. save.applied[s][l] \in Nat
    BY <2>3, EconomyTypes DEF WatcherInv, TypeOK
  <2>5. CASE l \in UnreadLines(s)
    BY <2>1, <2>2, <2>4, <2>5, UnreadOrPending DEF CountedAtMostOnce
  <2>6. CASE l \in LinesOf(PendingOf(s))
    <3>1. PICK k \in 1..Len(PendingOf(s)) : l = PendingOf(s)[k]
      BY <2>6 DEF LinesOf
    <3>2. ~(save.applied[s][l] > 0)
      BY <2>1, <3>1 DEF CountedAtMostOnce
    <3> QED BY <2>1, <2>4, <2>6, <3>2, UnreadOrPending
  <2>7. CASE l \notin UnreadLines(s) \cup LinesOf(PendingOf(s))
    <3>1. l \notin Uncounted(save, s)
      BY <2>1, <2>7 DEF CountedExactly
    <3>2. save.applied[s][l] # 0 /\ save.applied[s][l] <= 1
      BY <2>1, <2>3, <3>1 DEF Uncounted, AppliedOnce
    <3> QED BY <2>1, <2>4, <2>7, <3>2, UnreadOrPending
  <2> QED BY <2>5, <2>6, <2>7
<1> QED BY <1>1, WatcherHolds, CountHolds, PTL

-----------------------------------------------------------------------------
(* EventPipeline implements EventLedger                                    *)

LEMMA LedgerInit == Init => Ledger!Init
<1> SUFFICES ASSUME Init PROVE Ledger!Init
  OBVIOUS
<1>1. 1..0 = {}
  OBVIOUS
<1>2. [s \in Sessions |-> 1..written[s]] = [s \in Sessions |-> {}]
  BY <1>1 DEF Init
<1>3. saveFile.applied = [s \in Sessions |-> [l \in LineId |-> 0]]
  BY DEF Init, FreshSave
<1>4. {s \in Sessions : excuse[s] # {}} = {}
  BY DEF Init
<1> QED BY <1>2, <1>3, <1>4 DEF Ledger!Init

LEMMA LedgerStep ==
  ASSUME WatcherInv, CountInv, WatcherInv', CountInv', [Next]_vars
  PROVE  [Ledger!Next]_(Ledger!vars)
<1>1. TypeOK /\ TypeOK'
  BY DEF WatcherInv
<1>2. CASE \E s \in Sessions :
             /\ LogsLine(s)
             /\ written' = [written EXCEPT ![s] = @ + 1]
             /\ UNCHANGED <<saveFile, excuse>>
  <2>1. PICK s \in Sessions : /\ LogsLine(s)
                              /\ written' = [written EXCEPT ![s] = @ + 1]
                              /\ UNCHANGED <<saveFile, excuse>>
    BY <1>2
  <2>2. /\ written[s] + 1 \in LineId /\ written[s] \in Nat /\ written'[s] = written[s] + 1
        /\ \A t \in Sessions \ {s} : written'[t] = written[t]
    BY <1>1, <2>1, SessionTypes DEF LogsLine, TypeOK
  <2>3. 1..written'[s] = 1..written[s] \cup {written[s] + 1} /\ written[s] + 1 \notin 1..written[s]
    BY <2>2
  <2>4. [t \in Sessions |-> 1..written'[t]]
          = [[t \in Sessions |-> 1..written[t]] EXCEPT ![s] = @ \cup {written[s] + 1}]
    BY <2>2, <2>3
  <2>5. written[s] + 1 \in LineId \ [t \in Sessions |-> 1..written[t]][s]
    BY <2>2, <2>3
  <2>6. Ledger!LogLine(s)
    BY <2>1, <2>4, <2>5 DEF Ledger!LogLine
  <2> QED BY <2>6 DEF Ledger!Next
<1>3. CASE UNCHANGED written
  <2>1. /\ \A t \in Sessions : excuse[t] \subseteq excuse'[t]
        /\ UNCHANGED saveFile \/ (saveFile' = save' /\ save'.applied = save.applied)
    BY EconomyStep
  <2>2. [t \in Sessions |-> 1..written'[t]] = [t \in Sessions |-> 1..written[t]]
    BY <1>3
  <2>3. /\ {t \in Sessions : excuse[t] # {}} \subseteq {t \in Sessions : excuse'[t] # {}}
        /\ {t \in Sessions : excuse'[t] # {}} \subseteq Sessions
    BY <2>1
  <2>4. saveFile'.applied \in [Sessions -> [LineId -> Nat]]
    BY <1>1 DEF TypeOK, Saves
  <2>5. ASSUME NEW t \in Sessions, NEW l \in LineId
        PROVE  /\ saveFile'.applied[t][l] >= saveFile.applied[t][l]
               /\ saveFile'.applied[t][l] > 0 => l \in [r \in Sessions |-> 1..written[r]][t]
               /\ excuse'[t] = {} => saveFile'.applied[t][l] <= 1
    <3>1. /\ saveFile.applied[t][l] \in Nat /\ saveFile'.applied[t][l] \in Nat
          /\ save.applied[t][l] \in Nat /\ save'.applied[t][l] \in Nat /\ l \in Nat /\ l >= 1
      BY <1>1, EconomyTypes DEF TypeOK, LineId
    <3>2. saveFile'.applied[t][l] >= saveFile.applied[t][l]
      BY <2>1, <3>1 DEF CountInv, LagInv
    <3>3. saveFile'.applied[t][l] > 0 => l <= written[t]
      BY <1>3, <3>1 DEF CountInv, LagInv
    <3>4. excuse'[t] = {} => saveFile'.applied[t][l] <= 1
      BY DEF CountInv, AtMostOnce, SavedAtMostOnce, AppliedOnce
    <3>5. written[t] \in Nat
      BY <1>1, SessionTypes
    <3> QED BY <3>1, <3>2, <3>3, <3>4, <3>5
  <2>6. Ledger!Settle
    BY <2>2, <2>3, <2>4, <2>5 DEF Ledger!Settle
  <2> QED BY <2>6 DEF Ledger!Next
<1> QED BY <1>1, <1>2, <1>3, LogStep

\* What the events directory and the save hold implements the ledger: every logged line
\* is credited at most once, only after it was logged, and for good.
THEOREM ImplementsLedger == Spec => KeepsLedger
BY LedgerInit, LedgerStep, WatcherHolds, CountHolds, PTL DEF Spec, KeepsLedger, Ledger!Spec
=============================================================================
