----------------------- MODULE TranscriptReaderProofs -----------------------
(***************************************************************************)
(* Proofs that the reader of token usage counts nothing twice and passes   *)
(* nothing over (TranscriptReader), for any number of responses, lines,    *)
(* restarts, truncations and rotations.                                    *)
(*                                                                         *)
(* The argument: what holds of the position of a daemon that is up holds   *)
(* of the position a restart would take from the live event file as well.  *)
(* Behind a position everything is counted or given up (Covered); what may *)
(* still come and is counted already is among the seen responses (Safe).   *)
(* A restart gives that up only where it does not find its position, and   *)
(* that is what forgot says.                                               *)
(***************************************************************************)
EXTENDS TranscriptReader, SequenceTheorems, SumFacts

-----------------------------------------------------------------------------
(* The replay, line by line *)

\* The recursion of Replayed, one step of it.
Replaying(lines, replayed, n) == IF n = 0 THEN None ELSE Replay(lines[n], replayed[n - 1])

LEMMA ReplayExists ==
  ASSUME NEW lines, Len(lines) \in Nat
  PROVE  \E replayed : replayed = [n \in 0..Len(lines) |-> Replaying(lines, replayed, n)]
<1> DEFINE Defined(m) == \E f : f = [n \in 0..m |-> Replaying(lines, f, n)]
<1>1. Defined(0)
  <2> DEFINE none == [n \in 0..0 |-> None]
  <2>1. none = [n \in 0..0 |-> Replaying(lines, none, n)]
    BY DEF Replaying
  <2> QED BY <2>1
<1>2. ASSUME NEW m \in Nat, Defined(m) PROVE Defined(m + 1)
  <2>1. PICK g : g = [n \in 0..m |-> Replaying(lines, g, n)]
    BY <1>2
  <2> DEFINE h == [n \in 0..(m + 1) |-> Replaying(lines, g, n)]
  <2>2. \A n \in 0..m : h[n] = g[n]
    <3>1. \A n \in 0..m : n \in 0..(m + 1)
      OBVIOUS
    <3>2. \A n \in 0..m : g[n] = Replaying(lines, g, n)
      BY <2>1
    <3> QED BY <3>1, <3>2
  <2> HIDE DEF h
  <2>3. ASSUME NEW n \in 0..(m + 1) PROVE Replaying(lines, g, n) = Replaying(lines, h, n)
    <3>1. n # 0 => n - 1 \in 0..m
      OBVIOUS
    <3> QED BY <2>2, <3>1 DEF Replaying
  <2>4. h = [n \in 0..(m + 1) |-> Replaying(lines, h, n)]
    BY <2>3 DEF h
  <2> QED BY <2>4
<1> HIDE DEF Defined
<1> DEFINE Missing == {m \in Nat : ~Defined(m)}
<1>3. ASSUME Missing # {} PROVE FALSE
  <2>1. Missing \in SUBSET Nat
    OBVIOUS
  <2>2. PICK m \in Missing : \A k \in Missing : m <= k
    <3> HIDE DEF Missing
    <3> QED BY <1>3, <2>1, LeastNatural
  <2>3. m # 0 /\ m \in Nat /\ ~Defined(m)
    BY <1>1
  <2>4. m - 1 \in Nat /\ m - 1 \notin Missing
    BY <2>2, <2>3
  <2>5. Defined((m - 1) + 1)
    BY <1>2, <2>4
  <2> QED BY <2>3, <2>5
<1>4. Defined(Len(lines))
  BY <1>3
<1> QED BY <1>4 DEF Defined

LEMMA ReplayedIs ==
  ASSUME NEW lines, Len(lines) \in Nat
  PROVE  \E f : /\ Replayed(lines) = f[Len(lines)]
                /\ \A n \in 0..Len(lines) : f[n] = Replaying(lines, f, n)
<1> DEFINE Rec(f) == f = [n \in 0..Len(lines) |-> Replaying(lines, f, n)]
           it == CHOOSE f : Rec(f)
<1>1. Replayed(lines) = it[Len(lines)]
  BY DEF Replayed, Replaying
<1>2. Rec(it)
  <2>1. \E f : Rec(f)
    BY ReplayExists
  <2> HIDE DEF Rec
  <2> QED BY <2>1
<1> HIDE DEF it
<1>3. \A n \in 0..Len(lines) : it[n] = Replaying(lines, it, n)
  BY <1>2
<1> QED BY <1>1, <1>3

LEMMA ReplayedNothing == Replayed(<<>>) = None
<1>1. Len(<<>>) = 0
  OBVIOUS
<1>2. PICK f : /\ Replayed(<<>>) = f[Len(<<>>)]
               /\ \A n \in 0..Len(<<>>) : f[n] = Replaying(<<>>, f, n)
  BY <1>1, ReplayedIs
<1> QED BY <1>1, <1>2 DEF Replaying

LEMMA ReplayedAppend ==
  ASSUME NEW S, NEW s \in Seq(S), NEW x \in S
  PROVE  Replayed(Append(s, x)) = Replay(x, Replayed(s))
<1> PICK t : t = Append(s, x)
  OBVIOUS
<1> PICK n : n = Len(s)
  OBVIOUS
<1>1. n \in Nat /\ Len(t) = n + 1 /\ t[n + 1] = x /\ \A i \in 1..n : t[i] = s[i]
  OBVIOUS
<1>2. PICK f : Replayed(s) = f[n] /\ \A i \in 0..n : f[i] = Replaying(s, f, i)
  BY <1>1, ReplayedIs
<1>3. PICK g : Replayed(t) = g[n + 1] /\ \A i \in 0..(n + 1) : g[i] = Replaying(t, g, i)
  <2>1. Len(t) \in Nat
    BY <1>1
  <2>2. PICK g : Replayed(t) = g[Len(t)] /\ \A i \in 0..Len(t) : g[i] = Replaying(t, g, i)
    BY <2>1, ReplayedIs
  <2> QED BY <1>1, <2>2
<1> DEFINE Differ == {i \in Nat : i <= n /\ f[i] # g[i]}
<1>4. ASSUME Differ # {} PROVE FALSE
  <2>1. Differ \in SUBSET Nat
    OBVIOUS
  <2>2. PICK i \in Differ : \A k \in Differ : i <= k
    <3> HIDE DEF Differ
    <3> QED BY <1>4, <2>1, LeastNatural
  <2>3. i \in 0..n /\ i \in 0..(n + 1) /\ f[i] # g[i]
    BY <1>1
  <2>4. CASE i = 0
    BY <1>2, <1>3, <2>3, <2>4 DEF Replaying
  <2>5. CASE i # 0
    <3>1. i - 1 \in Nat /\ i - 1 <= n /\ ~(i <= i - 1) /\ i \in 1..n
      BY <1>1, <2>3, <2>5
    <3>2. f[i - 1] = g[i - 1]
      BY <2>2, <3>1
    <3>3. t[i] = s[i]
      BY <1>1, <3>1
    <3> QED BY <1>2, <1>3, <2>3, <2>5, <3>2, <3>3 DEF Replaying
  <2> QED BY <2>4, <2>5
<1>5. f[n] = g[n]
  BY <1>1, <1>4
<1>6. g[n + 1] = Replay(t[n + 1], g[n])
  <2>1. n + 1 \in 0..(n + 1) /\ n + 1 # 0 /\ (n + 1) - 1 = n
    BY <1>1
  <2> QED BY <1>3, <2>1 DEF Replaying
<1> QED BY <1>1, <1>2, <1>3, <1>5, <1>6
-----------------------------------------------------------------------------
(* The inductive invariant *)

Types ==
  /\ TypeOK
  /\ Len(transcript) <= MaxLines
  /\ partial # None => Len(transcript) < MaxLines
  /\ Replayed(log) \in {None} \cup TrackedTranscripts

Nothing == \A r \in Responses : counts[r] = 0

\* The responses that are in the file or may go on.
Going == ({partial} \ {None}) \cup (IF transcript = <<>> THEN {} ELSE {responses})
Current == {transcript[i] : i \in 1..Len(transcript)} \cup Going
Coming(t) == {transcript[i] : i \in t.offset + 1..Len(transcript)} \cup Going

Written ==
  /\ partial \in {None, responses}
  /\ \A i \in 1..Len(transcript) : transcript[i] <= responses
  /\ \A r \in Responses : r > responses => counts[r] = 0

\* Of a transcript that was truncated nothing is counted yet.
Unread == truncated => \A r \in Current : counts[r] = 0

Covered(t) ==
  /\ \A s \in t.seen : counts[s] >= 1
  /\ ~truncated =>
       /\ t.offset <= Size
       /\ t.offset > Len(transcript) => partial \in skipped
       /\ \A i \in 1..Len(transcript) :
            i <= t.offset => counts[transcript[i]] >= 1 \/ transcript[i] \in skipped
       /\ \A s \in t.seen, i \in t.offset + 1..Len(transcript) : s <= transcript[i]

Safe(t) == \A r \in Coming(t) : counts[r] >= 1 => r \in t.seen \cup skipped

Named == \E i \in DOMAIN log : log[i].event \in {"Hook", "Stop"}

Recorded ==
  /\ ~Nothing => archived \/ UsageLines # {}
  /\ rotations = 0 => ~archived /\ (UsageLines # {} => Resumable) /\ (tracked # None => Named)

ForTracked ==
  /\ tracked # None => Covered(tracked) /\ (forgot \/ Safe(tracked))
  /\ up /\ tracked = None /\ ~forgot => Nothing

ReplayHolds(t) ==
  /\ t # None => \A s \in t.seen : counts[s] >= 1
  /\ t # None /\ ~t.countedWithoutOffset => Covered(t) /\ (forgot \/ ~Resumable \/ Safe(t))
  /\ (t # None <=> Named)

ForReplay == ReplayHolds(Replayed(log))

ReaderInv ==
  /\ Written /\ Unread /\ Recorded
  /\ ForTracked /\ ForReplay
  /\ CountedOnce

-----------------------------------------------------------------------------
(* Lines and positions *)

NamingLine(line) == line.event \in {"Hook", "Stop"}
UsageLine(line) == line.event \in {"Usage", "OldUsage"}

LEMMA LineKinds ==
  ASSUME NEW line \in LogLines
  PROVE  /\ line.event \in {"Hook", "Stop", "Usage", "OldUsage"}
         /\ line.event = "Usage" => line.offset \in Nat /\ line.lastKey \in Responses
  BY DEF LogLines, HookLine, StopLine, OldUsage, Usage

LEMMA NoneApart ==
  /\ None \notin Responses
  /\ \A t \in TrackedTranscripts : t # None
  BY ReaderAssumption DEF Responses

LEMMA FreshType == Fresh \in TrackedTranscripts /\ Fresh.offset = 0 /\ Fresh.seen = {}
  BY DEF Fresh, TrackedTranscripts

LEMMA ReplayType ==
  ASSUME NEW t \in {None} \cup TrackedTranscripts, NEW line \in LogLines
  PROVE  /\ Replay(line, t) \in {None} \cup TrackedTranscripts
         /\ NamingLine(line) => Replay(line, t) = IF t = None THEN Fresh ELSE t
         /\ UsageLine(line) => (Replay(line, t) = None <=> t = None)
         /\ line.event = "Usage" /\ t # None =>
              /\ Replay(line, t).offset = line.offset /\ Replay(line, t).seen = {line.lastKey}
              /\ Replay(line, t).countedWithoutOffset = FALSE
<1>1. CASE NamingLine(line)
  BY <1>1, FreshType DEF NamingLine, UsageLine, Replay, SetTranscriptPath
<1>2. CASE line.event = "OldUsage"
  <2>1. Replay(line, t) = IF t = None THEN None ELSE [t EXCEPT !.countedWithoutOffset = TRUE]
    BY <1>2 DEF Replay, Resume
  <2>2. t # None => [t EXCEPT !.countedWithoutOffset = TRUE] \in TrackedTranscripts
    BY DEF TrackedTranscripts
  <2> QED BY <1>2, <2>1, <2>2, NoneApart DEF NamingLine
<1>3. CASE line.event = "Usage"
  <2>1. Replay(line, t) =
          IF t = None THEN None
          ELSE [offset |-> line.offset, seen |-> {line.lastKey} \ {None}, lastKey |-> line.lastKey,
                countedWithoutOffset |-> FALSE]
    BY <1>3 DEF Replay, Resume
  <2>2. line.offset \in Nat /\ line.lastKey \in Responses /\ {line.lastKey} \ {None} = {line.lastKey}
    BY <1>3, LineKinds, NoneApart
  <2>3. [offset |-> line.offset, seen |-> {line.lastKey}, lastKey |-> line.lastKey,
         countedWithoutOffset |-> FALSE] \in TrackedTranscripts
    BY <2>2 DEF TrackedTranscripts
  <2>4. ~NamingLine(line)
    BY <1>3 DEF NamingLine
  <2>5. CASE t = None
    BY <2>1, <2>4, <2>5
  <2>6. CASE t # None
    <3>1. Replay(line, t) = [offset |-> line.offset, seen |-> {line.lastKey}, lastKey |-> line.lastKey,
                             countedWithoutOffset |-> FALSE]
      BY <2>1, <2>2, <2>6
    <3>2. Replay(line, t) \in TrackedTranscripts
      BY <2>3, <3>1
    <3>3. /\ Replay(line, t).offset = line.offset /\ Replay(line, t).seen = {line.lastKey}
          /\ Replay(line, t).countedWithoutOffset = FALSE
      BY <3>1
    <3> QED BY <2>4, <2>6, <3>2, <3>3, NoneApart
  <2> QED BY <2>5, <2>6
<1> QED BY <1>1, <1>2, <1>3, LineKinds DEF NamingLine, UsageLine

\* What a line at the end of the live event file changes.
LEMMA LogGrows ==
  ASSUME log \in Seq(LogLines), NEW x \in LogLines, log' = Append(log, x)
  PROVE  /\ log' \in Seq(LogLines) /\ Len(log') = Len(log) + 1 /\ Len(log) \in Nat
         /\ Replayed(log') = Replay(x, Replayed(log))
         /\ Named' <=> Named \/ NamingLine(x)
         /\ (UsageLines # {})' <=> UsageLines # {} \/ UsageLine(x)
         /\ Resumable' <=> Resumable \/ (Named /\ UsageLine(x))
<1>1. /\ log' \in Seq(LogLines) /\ Len(log') = Len(log) + 1 /\ Len(log) \in Nat
      /\ DOMAIN log = 1..Len(log) /\ DOMAIN log' = 1..(Len(log) + 1)
      /\ log'[Len(log) + 1] = x /\ \A i \in 1..Len(log) : log'[i] = log[i]
  OBVIOUS
<1>2. Replayed(log') = Replay(x, Replayed(log))
  BY ReplayedAppend
<1>3. Named' <=> Named \/ NamingLine(x)
  BY <1>1 DEF Named, NamingLine
<1>4. (UsageLines # {})' <=> UsageLines # {} \/ UsageLine(x)
  BY <1>1 DEF UsageLines, UsageLine
<1>5. Resumable' => Resumable \/ (Named /\ UsageLine(x))
  <2>1. SUFFICES ASSUME Resumable' PROVE Resumable \/ (Named /\ UsageLine(x))
    OBVIOUS
  <2>2. PICK i \in DOMAIN log', j \in UsageLines' : i < j /\ log'[i].event \in {"Hook", "Stop"}
    BY <2>1 DEF Resumable
  <2>3. i \in 1..Len(log) /\ j \in 1..(Len(log) + 1) /\ log'[j].event \in {"Usage", "OldUsage"}
    BY <1>1, <2>2 DEF UsageLines
  <2>4. CASE j \in 1..Len(log)
    BY <1>1, <2>2, <2>3, <2>4 DEF Resumable, UsageLines
  <2>5. CASE j = Len(log) + 1
    BY <1>1, <2>2, <2>3, <2>5 DEF Named, UsageLine
  <2> QED BY <2>3, <2>4, <2>5, <1>1
<1>6. Resumable => Resumable'
  <2>1. SUFFICES ASSUME Resumable PROVE Resumable'
    OBVIOUS
  <2>2. PICK i \in DOMAIN log, j \in UsageLines : i < j /\ log[i].event \in {"Hook", "Stop"}
    BY <2>1 DEF Resumable
  <2>3. i \in DOMAIN log' /\ j \in DOMAIN log' /\ log'[i] = log[i] /\ log'[j] = log[j]
    BY <1>1, <2>2 DEF UsageLines
  <2> QED BY <2>2, <2>3 DEF Resumable, UsageLines
<1>7. Named /\ UsageLine(x) => Resumable'
  <2>1. SUFFICES ASSUME Named, UsageLine(x) PROVE Resumable'
    OBVIOUS
  <2>2. PICK i \in DOMAIN log : log[i].event \in {"Hook", "Stop"}
    BY <2>1 DEF Named
  <2>3. i \in DOMAIN log' /\ i < Len(log) + 1 /\ Len(log) + 1 \in DOMAIN log' /\ log'[i] = log[i]
    BY <1>1, <2>2
  <2> QED BY <1>1, <2>1, <2>2, <2>3 DEF Resumable, UsageLines, UsageLine
<1> QED BY <1>1, <1>2, <1>3, <1>4, <1>5, <1>6, <1>7

LEMMA NewestIs ==
  ASSUME NEW keys \in SUBSET Responses, keys # {}
  PROVE  Newest(keys) \in keys /\ \A other \in keys : other <= Newest(keys)
<1> DEFINE Gaps == {n \in Nat : \E k \in keys : n = MaxResponses - k}
<1>1. Gaps \in SUBSET Nat /\ Gaps # {}
  <2>1. PICK k \in keys : TRUE
    OBVIOUS
  <2>2. MaxResponses - k \in Nat
    BY ReaderAssumption DEF Responses
  <2> QED BY <2>1, <2>2
<1>2. PICK gap \in Gaps : \A g \in Gaps : gap <= g
  <2> HIDE DEF Gaps
  <2> QED BY <1>1, LeastNatural
<1>3. PICK k \in keys : gap = MaxResponses - k
  BY <1>2
<1>4. \A other \in keys : other <= k
  <2>1. TAKE other \in keys
  <2>2. MaxResponses - other \in Gaps /\ MaxResponses \in Nat /\ other \in Nat /\ k \in Nat
    BY ReaderAssumption DEF Responses
  <2>3. gap <= MaxResponses - other
    BY <1>2, <2>2
  <2> QED BY <1>3, <2>2, <2>3
<1> QED BY <1>4 DEF Newest

\* What a step that reads and writes no transcript keeps of a position.
LEMMA CoveredGrows ==
  ASSUME NEW t \in TrackedTranscripts, Covered(t), UNCHANGED <<transcript, partial>>,
         t.seen \subseteq Responses,
         TypeOK,
         \A r \in Responses : counts[r] >= 1 => counts'[r] >= 1,
         skipped \subseteq skipped', ~truncated' => ~truncated
  PROVE  Covered(t)'
<1>1. \A i \in 1..Len(transcript) : transcript[i] \in Responses
  BY DEF TypeOK
<1> QED BY <1>1 DEF Covered, Size

LEMMA SafeGrows ==
  ASSUME NEW t, Safe(t), UNCHANGED <<transcriptVars, counts>>, skipped \subseteq skipped'
  PROVE  Safe(t)'
<1>1. Coming(t)' = Coming(t)
  BY DEF Coming, Going, transcriptVars
<1> QED BY <1>1 DEF Safe
LEMMA QuietLog ==
  ASSUME UNCHANGED log
  PROVE  /\ Named' <=> Named
         /\ Resumable' <=> Resumable
         /\ UsageLines' = UsageLines
         /\ Replayed(log)' = Replayed(log)
  BY DEF Named, Resumable, UsageLines

-----------------------------------------------------------------------------
(* The steps of the session *)

\* A step of the session keeps what holds of the positions if it keeps what each covers.
LEMMA PositionsKept ==
  ASSUME Types, ReaderInv, UNCHANGED <<log, tracked, up, rotations, archived, forgot, counts, skipped>>,
         Written', Unread',
         \A t \in TrackedTranscripts : (Covered(t) => Covered(t)') /\ (Safe(t) => Safe(t)')
  PROVE  ReaderInv'
<1>1. /\ Named' <=> Named
      /\ Resumable' <=> Resumable
      /\ UsageLines' = UsageLines
      /\ Replayed(log)' = Replayed(log)
  BY QuietLog
<1>2. Nothing' <=> Nothing
  BY DEF Nothing
<1>3. Recorded'
  BY <1>1, <1>2 DEF ReaderInv, Recorded
<1>4. ForTracked'
  BY <1>2 DEF ReaderInv, ForTracked, Types, TypeOK
<1> PICK t : t = Replayed(log)
  OBVIOUS
<1>5. ReplayHolds(t) /\ t \in {None} \cup TrackedTranscripts /\ Replayed(log)' = t
  BY <1>1 DEF ReaderInv, ForReplay, Types
<1>6. ReplayHolds(t)'
  BY <1>1, <1>5 DEF ReplayHolds
<1>7. ForReplay'
  BY <1>5, <1>6 DEF ForReplay, ReplayHolds
<1>8. CountedOnce'
  BY DEF ReaderInv, CountedOnce
<1> QED BY <1>3, <1>4, <1>7, <1>8 DEF ReaderInv

LEMMA BeginLineStep ==
  ASSUME Types, ReaderInv, NEW r \in Responses, BeginLine(r)
  PROVE  Types' /\ ReaderInv'
<1>1. /\ Len(transcript) < MaxLines /\ partial = None /\ responses' = r /\ partial' = r
      /\ \/ r = responses /\ transcript # <<>>
         \/ r = responses + 1 /\ r <= MaxResponses
      /\ UNCHANGED <<transcript, log, emitted, up, tracked, boundVars, history>>
  BY DEF BeginLine
<1>2. /\ r # None /\ responses \in Nat /\ r \in Nat /\ r <= MaxResponses /\ responses <= r
      /\ transcript \in Seq(Responses)
  <2>1. transcript \in Seq(Responses) /\ responses \in 0..MaxResponses /\ r # None
    BY NoneApart DEF Types, TypeOK
  <2> QED BY <1>1, <2>1, ReaderAssumption DEF Responses
<1>3. Types'
  <2>1. responses' \in 0..MaxResponses
    BY <1>1, <1>2, ReaderAssumption
  <2> QED BY <1>1, <1>2, <2>1 DEF Types, TypeOK, history, boundVars
<1>4. r \in Current \/ counts[r] = 0
  BY <1>1, <1>2 DEF Current, Going, ReaderInv, Written
<1>5. Written'
  <2>1. \A i \in 1..Len(transcript) : transcript[i] \in Nat /\ transcript[i] <= responses
    <3>1. \A i \in 1..Len(transcript) : transcript[i] \in Responses
      BY <1>2
    <3>2. \A x \in Responses : x \in Nat
      BY DEF Responses
    <3> QED BY <3>1, <3>2 DEF ReaderInv, Written
  <2>2. \A i \in 1..Len(transcript) : transcript[i] <= r
    BY <1>2, <2>1
  <2>3. \A x \in Responses : x > r => x > responses
    BY <1>2 DEF Responses
  <2> QED BY <1>1, <2>2, <2>3 DEF ReaderInv, Written, history
<1>6. Going' \subseteq Going \cup {r} /\ (counts[r] = 0 \/ r \in Going)
  BY <1>1, <1>2 DEF Going, ReaderInv, Written
<1>7. Unread'
  BY <1>1, <1>6 DEF ReaderInv, Unread, Current, history
<1>8. ASSUME NEW t \in TrackedTranscripts PROVE (Covered(t) => Covered(t)') /\ (Safe(t) => Safe(t)')
  <2>1. Size' = Size + 1 /\ Size = Len(transcript) /\ Size \in Nat /\ t.offset \in Nat
    BY <1>1, <1>2 DEF Size, TrackedTranscripts
  <2>2. Covered(t) => Covered(t)'
    <3>1. t.offset <= Size => t.offset <= Size' /\ ~(t.offset > Len(transcript))
      BY <2>1
    <3> QED BY <1>1, <3>1 DEF Covered, history
  <2>3. Safe(t) => Safe(t)'
    BY <1>1, <1>6 DEF Safe, Coming, history
  <2> QED BY <2>2, <2>3
<1> QED BY <1>1, <1>3, <1>5, <1>7, <1>8, PositionsKept DEF history, boundVars

LEMMA EndLineStep ==
  ASSUME Types, ReaderInv, EndLine
  PROVE  Types' /\ ReaderInv'
<1>1. /\ partial # None /\ transcript' = Append(transcript, partial) /\ partial' = None
      /\ UNCHANGED <<responses, log, emitted, up, tracked, boundVars, history>>
  BY DEF EndLine
<1>2. /\ partial \in Responses /\ partial = responses
      /\ Len(transcript') = Len(transcript) + 1 /\ Len(transcript) \in Nat
      /\ transcript' \in Seq(Responses) /\ transcript' # <<>>
      /\ transcript'[Len(transcript) + 1] = partial
      /\ \A i \in 1..Len(transcript) : transcript'[i] = transcript[i]
      /\ Len(transcript) < MaxLines
  BY <1>1 DEF Types, TypeOK, ReaderInv, Written
<1>3. Types'
  BY <1>1, <1>2, ReaderAssumption DEF Types, TypeOK, history, boundVars
<1>4. responses \in Nat
  BY DEF Types, TypeOK
<1>5. Written'
  BY <1>1, <1>2, <1>4 DEF ReaderInv, Written, history
<1>6. Going' = {partial} /\ partial \in Going
  BY <1>1, <1>2 DEF Going
<1>7. Unread'
  <2>1. Current' \subseteq Current
    BY <1>2, <1>6 DEF Current
  <2> QED BY <1>1, <2>1 DEF ReaderInv, Unread, history
<1>8. ASSUME NEW t \in TrackedTranscripts PROVE (Covered(t) => Covered(t)') /\ (Safe(t) => Safe(t)')
  <2>1. t.offset \in Nat /\ t.seen \subseteq Responses /\ Size' = Size /\ Size = Len(transcript) + 1
    BY <1>1, <1>2 DEF Size, TrackedTranscripts
  <2>2. ASSUME Covered(t), ~truncated PROVE Covered(t)'
    <3>1. \A i \in 1..Len(transcript') : i <= t.offset => counts[transcript'[i]] >= 1 \/ transcript'[i] \in skipped
      BY <1>2, <2>1, <2>2 DEF Covered
    <3>2. \A s \in t.seen : s <= partial
      <4>1. TAKE s \in t.seen
      <4>2. s \in Nat /\ counts[s] >= 1 /\ s \in Responses
        BY <2>1, <2>2 DEF Covered, Responses
      <4>3. ~(s > responses)
        BY <4>2 DEF ReaderInv, Written
      <4> QED BY <1>2, <1>4, <4>2, <4>3
    <3>3. \A s \in t.seen, i \in t.offset + 1..Len(transcript') : s <= transcript'[i]
      <4>1. \A i \in t.offset + 1..Len(transcript') :
              i = Len(transcript) + 1 \/ (i \in t.offset + 1..Len(transcript) /\ i \in 1..Len(transcript))
        BY <1>2, <2>1
      <4> QED BY <1>2, <2>2, <3>2, <4>1 DEF Covered
    <3>4. t.offset <= Size' /\ ~(t.offset > Len(transcript'))
      BY <1>2, <2>1, <2>2 DEF Covered
    <3> QED BY <1>1, <2>2, <3>1, <3>3, <3>4 DEF Covered, history
  <2>3. ASSUME Covered(t), truncated PROVE Covered(t)'
    BY <1>1, <2>3 DEF Covered, history
  <2>4. Coming(t)' \subseteq Coming(t)
    <3>1. \A i \in t.offset + 1..Len(transcript') :
            i = Len(transcript) + 1 \/ (i \in t.offset + 1..Len(transcript) /\ i \in 1..Len(transcript))
      BY <1>2, <2>1
    <3> QED BY <1>2, <1>6, <3>1 DEF Coming
  <2>5. Safe(t) => Safe(t)'
    BY <1>1, <2>4 DEF Safe, history
  <2> QED BY <2>2, <2>3, <2>5
<1> QED BY <1>1, <1>3, <1>5, <1>7, <1>8, PositionsKept DEF history, boundVars

LEMMA TruncateStep ==
  ASSUME Types, ReaderInv, Truncate
  PROVE  Types' /\ ReaderInv'
<1>1. /\ partial = None /\ transcript' = <<>> /\ truncated' = TRUE
      /\ truncations < MaxTruncations /\ truncations' = truncations + 1
      /\ UNCHANGED <<responses, partial, log, emitted, up, tracked, restarts, rotations,
                     counts, skipped, archived, forgot>>
  BY DEF Truncate
<1>2. Len(transcript') = 0 /\ transcript' \in Seq(Responses)
  BY <1>1
<1>3. Types'
  BY <1>1, <1>2, ReaderAssumption DEF Types, TypeOK
<1>4. Written'
  BY <1>1, <1>2 DEF ReaderInv, Written
<1>5. Going' = {}
  BY <1>1 DEF Going
<1>6. Unread'
  BY <1>2, <1>5 DEF Unread, Current
<1>7. ASSUME NEW t \in TrackedTranscripts PROVE (Covered(t) => Covered(t)') /\ (Safe(t) => Safe(t)')
  <2>1. t.offset + 1..Len(transcript') = {}
    BY <1>2 DEF TrackedTranscripts
  <2> QED BY <1>1, <1>5, <2>1 DEF Covered, Safe, Coming
<1> QED BY <1>1, <1>3, <1>4, <1>6, <1>7, PositionsKept
\* A position at the start of the transcript covers nothing.
LEMMA FreshCovered ==
  ASSUME TypeOK
  PROVE  Covered(Fresh)
<1>1. Fresh.offset = 0 /\ Fresh.seen = {}
  BY FreshType
<1>2. Len(transcript) \in Nat /\ Size \in Nat
  BY DEF TypeOK, Size
<1>3. 0 <= Size /\ ~(0 > Len(transcript)) /\ \A i \in 1..Len(transcript) : ~(i <= 0)
  BY <1>2
<1> QED BY <1>1, <1>3 DEF Covered

LEMMA HookStep ==
  ASSUME Types, ReaderInv, NEW line \in {HookLine, StopLine}, Hook(line)
  PROVE  Types' /\ ReaderInv'
<1>1. /\ log' = Append(log, line)
      /\ UNCHANGED <<transcriptVars, emitted, up, tracked, boundVars, history>>
  BY DEF Hook
<1>2. line \in LogLines /\ NamingLine(line) /\ ~UsageLine(line) /\ log \in Seq(LogLines)
  BY DEF LogLines, HookLine, StopLine, NamingLine, UsageLine, Types, TypeOK
<1>3. /\ log' \in Seq(LogLines) /\ Len(log') = Len(log) + 1 /\ Len(log) \in Nat
      /\ Replayed(log') = Replay(line, Replayed(log))
      /\ Named'
      /\ (UsageLines # {})' <=> UsageLines # {}
      /\ Resumable' <=> Resumable
  BY <1>1, <1>2, LogGrows
<1> PICK t : t = Replayed(log)
  OBVIOUS
<1>4. t \in {None} \cup TrackedTranscripts /\ ReplayHolds(t)
  BY DEF Types, ReaderInv, ForReplay
<1>5. Replayed(log') = (IF t = None THEN Fresh ELSE t) /\ Replayed(log') \in {None} \cup TrackedTranscripts
  BY <1>2, <1>3, <1>4, ReplayType
<1>6. Types'
  BY <1>1, <1>3, <1>5 DEF Types, TypeOK, transcriptVars, history, boundVars
<1>7. Nothing' <=> Nothing
  BY <1>1 DEF Nothing, history
<1>8. Written' /\ Unread' /\ CountedOnce'
  BY <1>1 DEF ReaderInv, Written, Unread, Current, Going, CountedOnce, transcriptVars, history
<1>9. Recorded'
  BY <1>1, <1>3, <1>7 DEF ReaderInv, Recorded, boundVars, history
<1>10. \A u \in TrackedTranscripts : (Covered(u) => Covered(u)') /\ (Safe(u) => Safe(u)')
  BY <1>1 DEF Covered, Size, Safe, Coming, Going, transcriptVars, history
<1>11. ForTracked'
  BY <1>1, <1>7, <1>10 DEF ReaderInv, ForTracked, Types, TypeOK, history
<1>12. ForReplay'
  <2>1. CASE t = None
    <3>1. Replayed(log') = Fresh /\ Fresh # None
      BY <1>5, <2>1, FreshType, NoneApart
    <3>2. ~Named /\ ~Resumable'
      BY <1>3, <1>4, <2>1 DEF ReplayHolds, Resumable, Named
    <3>3. Covered(Fresh)'
      <4>1. Covered(Fresh)
        BY FreshCovered DEF Types
      <4> QED BY <1>10, <4>1, FreshType
    <3> QED BY <1>3, <3>1, <3>2, <3>3, FreshType DEF ForReplay, ReplayHolds
  <2>2. CASE t # None
    <3>1. Replayed(log') = t /\ t \in TrackedTranscripts
      BY <1>4, <1>5, <2>2
    <3>2. forgot' = forgot /\ counts' = counts
      BY <1>1 DEF history
    <3> QED BY <1>3, <1>4, <1>10, <2>2, <3>1, <3>2 DEF ForReplay, ReplayHolds
  <2> QED BY <2>1, <2>2
<1> QED BY <1>6, <1>8, <1>9, <1>11, <1>12 DEF ReaderInv

-----------------------------------------------------------------------------
(* The steps of the daemon *)

LEMMA CrashStep ==
  ASSUME Types, ReaderInv, Crash
  PROVE  Types' /\ ReaderInv'
<1>1. /\ up' = FALSE /\ tracked' = None
      /\ UNCHANGED <<transcriptVars, log, emitted, boundVars, history>>
  BY DEF Crash
<1>2. /\ Named' <=> Named
      /\ Resumable' <=> Resumable
      /\ UsageLines' = UsageLines
      /\ Replayed(log)' = Replayed(log)
  BY <1>1, QuietLog
<1>3. Types'
  BY <1>1, <1>2 DEF Types, TypeOK, transcriptVars, history, boundVars
<1>4. Written' /\ Unread' /\ CountedOnce'
  BY <1>1 DEF ReaderInv, Written, Unread, Current, Going, CountedOnce, transcriptVars, history
<1>5. Recorded'
  BY <1>1, <1>2 DEF ReaderInv, Recorded, Nothing, boundVars, history
<1>6. ForTracked'
  BY <1>1 DEF ForTracked
<1>7. \A u \in TrackedTranscripts : (Covered(u) => Covered(u)') /\ (Safe(u) => Safe(u)')
  BY <1>1 DEF Covered, Size, Safe, Coming, Going, transcriptVars, history
<1>8. ForReplay'
  <2> PICK t : t = Replayed(log)
    OBVIOUS
  <2>1. t \in {None} \cup TrackedTranscripts /\ ReplayHolds(t) /\ Replayed(log)' = t
        /\ forgot' = forgot /\ counts' = counts
    BY <1>1, <1>2 DEF Types, ReaderInv, ForReplay, history
  <2> QED BY <1>2, <1>7, <2>1 DEF ForReplay, ReplayHolds
<1> QED BY <1>3, <1>4, <1>5, <1>6, <1>8 DEF ReaderInv

LEMMA RotateStep ==
  ASSUME Types, ReaderInv, Rotate
  PROVE  Types' /\ ReaderInv'
<1>1. /\ rotations < MaxRotations /\ rotations' = rotations + 1 /\ log' = <<>> /\ emitted' = 0
      /\ archived' = (archived \/ UsageLines # {})
      /\ UNCHANGED <<transcriptVars, up, tracked, restarts, truncations, counts, skipped, truncated, forgot>>
  BY DEF Rotate
<1>2. Len(log') = 0 /\ log' \in Seq(LogLines) /\ DOMAIN log' = {} /\ Replayed(log') = None
  BY <1>1, ReplayedNothing
<1>3. ~Named'
  BY <1>2 DEF Named
<1>4. Types'
  <2>1. emitted' \in 0..Len(log') /\ rotations' \in 0..MaxRotations /\ archived' \in BOOLEAN
    BY <1>1, <1>2, ReaderAssumption DEF Types, TypeOK
  <2> QED BY <1>1, <1>2, <2>1 DEF Types, TypeOK, transcriptVars
<1>5. Written' /\ Unread' /\ CountedOnce'
  BY <1>1 DEF ReaderInv, Written, Unread, Current, Going, CountedOnce, transcriptVars
<1>6. Recorded'
  <2>1. rotations' # 0
    BY <1>1 DEF Types, TypeOK
  <2> QED BY <1>1, <2>1 DEF ReaderInv, Recorded, Nothing
<1>7. \A u \in TrackedTranscripts : (Covered(u) => Covered(u)') /\ (Safe(u) => Safe(u)')
  BY <1>1 DEF Covered, Size, Safe, Coming, Going, transcriptVars
<1>8. ForTracked'
  BY <1>1, <1>7 DEF ReaderInv, ForTracked, Types, TypeOK, Nothing
<1>9. ForReplay'
  BY <1>2, <1>3 DEF ForReplay, ReplayHolds
<1> QED BY <1>4, <1>5, <1>6, <1>8, <1>9 DEF ReaderInv
LEMMA ComingIn ==
  ASSUME Types, ReaderInv
  PROVE  /\ Current \subseteq Responses /\ Current \subseteq 1..responses
         /\ 1..responses \subseteq Responses /\ responses \in Nat
         /\ \A t \in TrackedTranscripts : Coming(t) \subseteq Current
<1>1. /\ transcript \in Seq(Responses) /\ responses \in 0..MaxResponses /\ partial \in Responses \cup {None}
      /\ partial \in {None, responses}
      /\ \A i \in 1..Len(transcript) : transcript[i] <= responses
  BY DEF Types, TypeOK, ReaderInv, Written
<1>2. 1..responses \subseteq Responses /\ responses \in Nat
  BY <1>1, ReaderAssumption DEF Responses
<1>3. \A i \in 1..Len(transcript) : transcript[i] \in Responses
  BY <1>1
<1>4. \A x \in Responses : x <= responses => x \in 1..responses
  BY <1>2 DEF Responses
<1>5. \A i \in 1..Len(transcript) : transcript[i] \in 1..responses
  BY <1>1, <1>3, <1>4
<1>6. transcript # <<>> => responses \in 1..responses
  <2>1. transcript # <<>> => 1 \in 1..Len(transcript)
    BY <1>1
  <2> QED BY <1>2, <1>5, <2>1
<1>7. partial # None => partial \in 1..responses
  <2>1. partial # None => partial \in Responses /\ partial = responses
    BY <1>1
  <2> QED BY <1>2, <1>4, <2>1
<1>8. Going \subseteq 1..responses
  BY <1>6, <1>7 DEF Going
<1>9. Current \subseteq 1..responses
  BY <1>5, <1>8 DEF Current
<1>10. \A t \in TrackedTranscripts : Coming(t) \subseteq Current
  <2>1. TAKE t \in TrackedTranscripts
  <2>2. \A i \in t.offset + 1..Len(transcript) : i \in 1..Len(transcript)
    BY <1>1 DEF TrackedTranscripts
  <2> QED BY <2>2 DEF Coming, Current
<1> QED BY <1>2, <1>9, <1>10

LEMMA NothingIsSafe ==
  ASSUME Types, ReaderInv, Nothing, NEW t \in TrackedTranscripts
  PROVE  Safe(t)
<1>1. Coming(t) \subseteq Responses
  BY ComingIn
<1> QED BY <1>1 DEF Safe, Nothing, Types, TypeOK

LEMMA StartStep ==
  ASSUME Types, ReaderInv, Start
  PROVE  Types' /\ ReaderInv'
<1> PICK t : t = Replayed(log)
  OBVIOUS
<1>1. /\ restarts < MaxRestarts /\ restarts' = restarts + 1 /\ up' = TRUE /\ emitted' = Len(log)
      /\ tracked' = FinishReplay(t)
      /\ skipped' = IF t # None /\ t.countedWithoutOffset THEN skipped \cup 1..responses ELSE skipped
      /\ truncated' = (truncated /\ ~(t # None /\ t.countedWithoutOffset))
      /\ forgot' = (forgot \/ (rotations > 0 /\ (archived \/ UsageLines # {}) /\ ~Resumable))
      /\ UNCHANGED <<transcriptVars, log, truncations, rotations, counts, archived>>
  BY DEF Start
<1>2. /\ Named' <=> Named
      /\ Resumable' <=> Resumable
      /\ UsageLines' = UsageLines
      /\ Replayed(log)' = t
  BY <1>1, QuietLog
<1>3. t \in {None} \cup TrackedTranscripts /\ ReplayHolds(t)
  BY DEF Types, ReaderInv, ForReplay
<1>4. ~forgot' /\ ~Resumable => Nothing
  <2>1. rotations = 0 \/ rotations > 0
    BY DEF Types, TypeOK
  <2>2. CASE rotations = 0
    BY <2>2 DEF ReaderInv, Recorded
  <2>3. CASE rotations > 0
    BY <1>1, <2>3 DEF ReaderInv, Recorded
  <2> QED BY <2>1, <2>2, <2>3
<1>5. Nothing' <=> Nothing
  BY <1>1 DEF Nothing
<1>6. t = None => ~Resumable
  BY <1>3 DEF ReplayHolds, Named, Resumable
<1>7. /\ Current' = Current /\ Size' = Size /\ \A u : Coming(u)' = Coming(u)
      /\ responses' = responses /\ transcript' = transcript /\ partial' = partial
  BY <1>1 DEF Current, Coming, Going, Size, transcriptVars
<1>8. skipped \subseteq skipped' /\ skipped' \subseteq Responses /\ truncated' \in BOOLEAN /\ forgot' \in BOOLEAN
  BY <1>1, ComingIn DEF Types, TypeOK
<1>9. Written' /\ Unread'
  BY <1>1, <1>7 DEF ReaderInv, Written, Unread
<1>10. CountedOnce'
  BY <1>1, <1>8 DEF ReaderInv, CountedOnce
<1>11. Size \in Nat /\ Len(transcript) \in Nat /\ Len(transcript) <= Size
       /\ (partial = None => Size = Len(transcript))
  BY DEF Size, Types, TypeOK
<1>12. tracked' \in {None} \cup TrackedTranscripts /\ (tracked' = None <=> t = None)
  <2>1. CASE t # None /\ t.countedWithoutOffset
    <3>1. tracked' = [t EXCEPT !.offset = Size, !.countedWithoutOffset = FALSE] /\ t \in TrackedTranscripts
      BY <1>1, <1>3, <2>1 DEF FinishReplay, Size
    <3>2. tracked' \in TrackedTranscripts
      BY <1>11, <3>1 DEF TrackedTranscripts
    <3> QED BY <2>1, <3>2, NoneApart
  <2>2. CASE ~(t # None /\ t.countedWithoutOffset)
    BY <1>1, <1>3, <2>2 DEF FinishReplay
  <2> QED BY <2>1, <2>2
<1>13. Types'
  <2>1. restarts' \in 0..MaxRestarts /\ emitted' \in 0..Len(log)
    BY <1>1, ReaderAssumption DEF Types, TypeOK
  <2> QED BY <1>1, <1>2, <1>8, <1>12, <2>1 DEF Types, TypeOK, transcriptVars
<1>14. Recorded'
  BY <1>1, <1>2, <1>3, <1>5, <1>12 DEF ReaderInv, Recorded, ReplayHolds
<1>15. t # None /\ ~t.countedWithoutOffset => Covered(t)' /\ (forgot' \/ ~Resumable \/ Safe(t)')
  <2>1. SUFFICES ASSUME t # None, ~t.countedWithoutOffset
                 PROVE  Covered(t)' /\ (forgot' \/ ~Resumable \/ Safe(t)')
    OBVIOUS
  <2>2. skipped' = skipped /\ (truncated' <=> truncated) /\ (forgot => forgot')
    BY <1>1, <2>1
  <2> QED BY <1>1, <1>3, <1>7, <2>1, <2>2 DEF ReplayHolds, Covered, Safe
<1>16. ForReplay'
  BY <1>1, <1>2, <1>3, <1>15 DEF ForReplay, ReplayHolds
<1>17. ForTracked'
  <2>1. CASE t = None
    BY <1>4, <1>5, <1>6, <1>12, <2>1 DEF ForTracked
  <2>2. CASE t # None /\ t.countedWithoutOffset
    <3> PICK u : u = tracked'
      OBVIOUS
    <3>1. u = [t EXCEPT !.offset = Size, !.countedWithoutOffset = FALSE] /\ t \in TrackedTranscripts
      BY <1>1, <1>3, <2>2 DEF FinishReplay, Size
    <3>2. u \in TrackedTranscripts /\ u.offset = Size /\ u.seen = t.seen
      BY <1>11, <3>1 DEF TrackedTranscripts
    <3>3. 1..responses \subseteq skipped'
      BY <1>1, <2>2
    <3>4. Current \subseteq skipped' /\ Coming(u) \subseteq skipped'
      BY <3>2, <3>3, ComingIn
    <3>5. Safe(u)'
      BY <1>7, <3>4 DEF Safe
    <3>6. \A i \in 1..Len(transcript) : transcript[i] \in skipped'
      BY <3>4 DEF Current
    <3>7. u.offset > Len(transcript) => partial \in skipped'
      BY <1>11, <3>2, <3>4 DEF Current, Going
    <3>8. u.offset + 1..Len(transcript) = {}
      BY <1>11, <3>2
    <3>9. \A s \in u.seen : counts[s] >= 1
      BY <1>3, <2>2, <3>2 DEF ReplayHolds
    <3>10. Covered(u)'
      BY <1>1, <1>7, <1>11, <3>2, <3>6, <3>7, <3>8, <3>9 DEF Covered
    <3> QED BY <1>12, <2>2, <3>5, <3>10 DEF ForTracked, Covered, Safe
  <2>3. CASE t # None /\ ~t.countedWithoutOffset
    <3>1. tracked' = t /\ t \in TrackedTranscripts
      BY <1>1, <1>3, <2>3 DEF FinishReplay
    <3>2. ~Resumable /\ ~forgot' => Safe(t)'
      <4>1. ~Resumable /\ ~forgot' => Safe(t)
        BY <1>4, <3>1, NothingIsSafe
      <4> QED BY <1>1, <1>7, <1>8, <4>1 DEF Safe
    <3> QED BY <1>15, <2>3, <3>1, <3>2 DEF ForTracked, Covered, Safe
  <2> QED BY <2>1, <2>2, <2>3
<1> QED BY <1>9, <1>10, <1>13, <1>14, <1>16, <1>17 DEF ReaderInv
-----------------------------------------------------------------------------
(* The poll *)

\* What a poll is given: a position that covers what is behind it.
Given(t) ==
  /\ t \in TrackedTranscripts
  /\ Covered(t) /\ (forgot \/ Safe(t))
  /\ rotations = 0 => Named

\* A poll that logs nothing keeps what holds of a restart, and the position it leaves covers.
LEMMA QuietPoll ==
  ASSUME Types, ReaderInv, NEW u \in TrackedTranscripts, rotations = 0 => Named,
         tracked' = u,
         emitted' \in 0..Len(log), up' = up,
         UNCHANGED <<transcriptVars, log, boundVars, counts, archived, forgot, truncated>>,
         skipped \subseteq skipped', skipped' \subseteq Responses,
         Covered(u)', forgot \/ Safe(u)'
  PROVE  Types' /\ ReaderInv'
<1>1. /\ Named' <=> Named
      /\ Resumable' <=> Resumable
      /\ UsageLines' = UsageLines
      /\ Replayed(log)' = Replayed(log)
  BY QuietLog
<1>2. Types'
  BY <1>1 DEF Types, TypeOK, transcriptVars, boundVars
<1>3. Written' /\ Unread'
  BY DEF ReaderInv, Written, Unread, Current, Going, transcriptVars
<1>4. CountedOnce'
  BY DEF ReaderInv, CountedOnce
<1>5. Recorded'
  BY <1>1 DEF ReaderInv, Recorded, Nothing, boundVars
<1>6. ForTracked'
  <2>1. tracked' # None
    BY NoneApart
  <2> QED BY <2>1 DEF ForTracked, Covered, Safe
<1>7. ForReplay'
  <2> PICK t : t = Replayed(log)
    OBVIOUS
  <2>1. t \in {None} \cup TrackedTranscripts /\ ReplayHolds(t) /\ Replayed(log)' = t
    BY <1>1 DEF Types, ReaderInv, ForReplay
  <2>2. t # None => t \in TrackedTranscripts /\ (Covered(t) => Covered(t)') /\ (Safe(t) => Safe(t)')
    <3>1. SUFFICES ASSUME t # None
                   PROVE  t \in TrackedTranscripts /\ (Covered(t) => Covered(t)') /\ (Safe(t) => Safe(t)')
      OBVIOUS
    <3>2. t \in TrackedTranscripts /\ t.seen \subseteq Responses
      BY <2>1, <3>1 DEF TrackedTranscripts
    <3>3. Covered(t) => Covered(t)'
      BY <3>2, CoveredGrows DEF transcriptVars, Types
    <3>4. Safe(t) => Safe(t)'
      BY SafeGrows
    <3> QED BY <3>2, <3>3, <3>4
  <2> QED BY <1>1, <2>1, <2>2 DEF ForReplay, ReplayHolds
<1> QED BY <1>2, <1>3, <1>4, <1>5, <1>6, <1>7 DEF ReaderInv

\* The file has shrunk: the reader begins it again, and nothing of it is counted.
LEMMA PollShrunk ==
  ASSUME Types, ReaderInv, NEW t, Given(t), emitted' \in 0..Len(log),
         UNCHANGED <<transcriptVars, up, boundVars, archived, forgot>>,
         Size < t.offset,
         tracked' = [t EXCEPT !.offset = 0, !.seen = {}],
         UNCHANGED <<log, counts, skipped, truncated>>
  PROVE  Types' /\ ReaderInv'
<1> PICK u : u = [t EXCEPT !.offset = 0, !.seen = {}]
  OBVIOUS
<1>1. u \in TrackedTranscripts /\ u.offset = 0 /\ u.seen = {} /\ t.offset \in Nat
  BY DEF Given, TrackedTranscripts
<1>2. truncated
  BY <1>1 DEF Given, Covered, Size, Types, TypeOK
<1>3. Covered(u)'
  BY <1>1, <1>2 DEF Covered
<1>4. Safe(u)'
  <2>1. \A r \in Current : counts[r] = 0
    BY <1>2 DEF ReaderInv, Unread
  <2>2. Coming(u)' = Coming(u) /\ Coming(u) \subseteq Current
    BY <1>1, ComingIn DEF Coming, Going, transcriptVars
  <2>3. \A r \in Coming(u) : ~(counts[r] >= 1)
    BY <2>1, <2>2
  <2> QED BY <2>2, <2>3 DEF Safe
<1> QED BY <1>1, <1>3, <1>4, QuietPoll DEF Given, Types, TypeOK

\* Nothing new, or a usage that could not be logged: the position stays.
LEMMA PollStays ==
  ASSUME Types, ReaderInv, NEW t, Given(t), emitted' \in 0..Len(log),
         UNCHANGED <<transcriptVars, up, boundVars, archived, forgot>>,
         tracked' = t, UNCHANGED <<log, counts, truncated>>,
         skipped \subseteq skipped', skipped' \subseteq Responses
  PROVE  Types' /\ ReaderInv'
<1>1. t \in TrackedTranscripts /\ t.seen \subseteq Responses
  BY DEF Given, TrackedTranscripts
<1>2. Covered(t)'
  BY <1>1, CoveredGrows DEF Given, transcriptVars, Types
<1>3. forgot \/ Safe(t)'
  BY SafeGrows DEF Given
<1> QED BY <1>1, <1>2, <1>3, QuietPoll DEF Given

\* Every new line repeats a response that was counted.
LEMMA PollRepeats ==
  ASSUME Types, ReaderInv, NEW t, Given(t), emitted' \in 0..Len(log),
         UNCHANGED <<transcriptVars, up, boundVars, archived, forgot>>,
         Len(transcript) > t.offset, NewKeys(t) = {},
         tracked' = [t EXCEPT !.offset = Len(transcript)],
         UNCHANGED <<log, counts, truncated>>,
         skipped \subseteq skipped', skipped' \subseteq Responses
  PROVE  Types' /\ ReaderInv'
<1> PICK u : u = [t EXCEPT !.offset = Len(transcript)]
  OBVIOUS
<1>1. Len(transcript) \in Nat /\ t.offset \in Nat /\ Size \in Nat /\ Len(transcript) <= Size
  BY DEF Given, TrackedTranscripts, Size, Types, TypeOK
<1>2. u \in TrackedTranscripts /\ u.offset = Len(transcript) /\ u.seen = t.seen
  BY <1>1 DEF Given, TrackedTranscripts
<1>3. \A i \in t.offset + 1..Len(transcript) : transcript[i] \in t.seen
  BY DEF NewKeys
<1>4. \A i \in 1..Len(transcript) : i <= t.offset \/ i \in t.offset + 1..Len(transcript)
  BY <1>1
<1>5. ~truncated =>
        \A i \in 1..Len(transcript) : counts[transcript[i]] >= 1 \/ transcript[i] \in skipped
  BY <1>3, <1>4 DEF Given, Covered
<1>6. Covered(u)'
  <2>1. u.offset + 1..Len(transcript) = {} /\ ~(u.offset > Len(transcript)) /\ u.offset <= Size
    BY <1>1, <1>2
  <2>2. Size' = Size
    BY DEF Size, transcriptVars
  <2>3. \A s \in u.seen : counts[s] >= 1
    BY <1>2 DEF Given, Covered
  <2> QED BY <1>5, <2>1, <2>2, <2>3 DEF Covered, transcriptVars
<1>7. forgot \/ Safe(u)'
  <2>1. Coming(u)' \subseteq Coming(t)
    BY <1>1, <1>2 DEF Coming, Going, transcriptVars
  <2> QED BY <1>2, <2>1 DEF Given, Safe
<1> QED BY <1>2, <1>6, <1>7, QuietPoll DEF Given
\* Usage is logged and counted: what is behind the new position is counted or given up, here
\* and for a daemon that starts from the line.
LEMMA PollLogs ==
  ASSUME Types, ReaderInv, NEW t, Given(t), emitted' \in 0..Len(log),
         UNCHANGED <<transcriptVars, up, boundVars, archived, forgot>>,
         Len(transcript) > t.offset, NewKeys(t) # {},
         log' = Append(log, Usage(Len(transcript), Newest(NewKeys(t)))),
         counts' = [r \in Responses |-> counts[r] + IF r \in NewKeys(t) THEN 1 ELSE 0],
         tracked' = [t EXCEPT !.offset = Len(transcript), !.seen = @ \cup NewKeys(t),
                              !.lastKey = Newest(NewKeys(t))],
         skipped' = IF truncated THEN skipped \cup {transcript[i] : i \in 1..t.offset} ELSE skipped,
         truncated' = (truncated /\ counts' = counts)
  PROVE  Types' /\ ReaderInv'
<1> PICK n : n = Len(transcript)
  OBVIOUS
<1> PICK keys : keys = NewKeys(t)
  OBVIOUS
<1>1. /\ t \in TrackedTranscripts /\ t.offset \in Nat /\ t.seen \subseteq Responses
      /\ n \in Nat /\ n <= MaxLines /\ n \in 0..MaxLines
      /\ Size \in Nat /\ n <= Size /\ Size' = Size
      /\ \A i \in 1..n : transcript[i] \in Responses
  <2>1. transcript \in Seq(Responses) /\ Len(transcript) <= MaxLines
    BY DEF Types, TypeOK
  <2>2. n \in Nat /\ \A i \in 1..n : transcript[i] \in Responses
    BY <2>1
  <2>3. Size \in Nat /\ n <= Size /\ Size' = Size
    BY <2>2 DEF Size, transcriptVars
  <2> QED BY <2>1, <2>2, <2>3, ReaderAssumption DEF Given, TrackedTranscripts
<1>2. /\ keys \subseteq Responses /\ keys # {} /\ keys \cap t.seen = {}
      /\ \A k \in keys : \E i \in t.offset + 1..n : transcript[i] = k
      /\ \A i \in t.offset + 1..n : i \in 1..n /\ (transcript[i] \in keys \/ transcript[i] \in t.seen)
  <2>1. \A i \in t.offset + 1..n : i \in 1..n
    BY <1>1
  <2> QED BY <1>1, <2>1 DEF NewKeys
<1> PICK k : k = Newest(keys)
  OBVIOUS
<1>3. k \in keys /\ k \in Responses /\ \A other \in keys : other <= k
  BY <1>2, NewestIs
<1> PICK u : u = [t EXCEPT !.offset = n, !.seen = @ \cup keys, !.lastKey = k]
  OBVIOUS
<1>4. /\ tracked' = u /\ u \in TrackedTranscripts /\ u # None
      /\ u.offset = n /\ u.seen = t.seen \cup keys
  <2>1. tracked' = u
    OBVIOUS
  <2>2. u \in TrackedTranscripts /\ u.offset = n /\ u.seen = t.seen \cup keys
    BY <1>1, <1>2, <1>3 DEF TrackedTranscripts
  <2> QED BY <2>1, <2>2, NoneApart
<1>5. /\ counts' \in [Responses -> Nat]
      /\ \A r \in Responses : counts'[r] = (IF r \in keys THEN counts[r] + 1 ELSE counts[r])
      /\ \A r \in Responses : counts[r] \in Nat
      /\ \A r \in keys : counts'[r] >= 1 /\ counts'[r] # counts[r]
      /\ \A r \in Responses : counts[r] >= 1 => counts'[r] >= 1
  <2>1. counts \in [Responses -> Nat]
    BY DEF Types, TypeOK
  <2>2. counts' = [r \in Responses |-> counts[r] + IF r \in keys THEN 1 ELSE 0]
    OBVIOUS
  <2>3. \A r \in Responses : counts[r] \in Nat
    BY <2>1
  <2>4. \A r \in Responses : counts'[r] = (IF r \in keys THEN counts[r] + 1 ELSE counts[r])
    BY ONLY <2>2, <2>3
  <2>5. \A r \in Responses : counts[r] + (IF r \in keys THEN 1 ELSE 0) \in Nat
    BY ONLY <2>3
  <2>6. counts' \in [Responses -> Nat]
    BY ONLY <2>2, <2>5
  <2>7. \A r \in Responses : counts[r] >= 1 => counts'[r] >= 1
    BY ONLY <2>3, <2>4
  <2>8. \A r \in Responses : r \in keys => counts'[r] >= 1 /\ counts'[r] # counts[r]
    BY ONLY <2>3, <2>4
  <2> QED BY <1>2, <2>3, <2>4, <2>6, <2>7, <2>8
<1>6. ~truncated' /\ truncated' \in BOOLEAN
  <2>1. counts' # counts
    BY <1>3, <1>5
  <2> QED BY <2>1
<1>7. skipped \subseteq skipped' /\ skipped' \subseteq Responses
  <2>1. truncated => \A i \in 1..t.offset : i \in 1..n
    BY <1>1
  <2> QED BY <1>1, <2>1 DEF Types, TypeOK
<1> PICK x : x = Usage(n, k)
  OBVIOUS
<1>8. x \in LogLines /\ x.event = "Usage" /\ x.offset = n /\ x.lastKey = k /\ UsageLine(x) /\ ~NamingLine(x)
  <2>1. x.event = "Usage" /\ x.offset = n /\ x.lastKey = k
    BY DEF Usage
  <2> QED BY <1>1, <1>3, <2>1 DEF LogLines, UsageLine, NamingLine
<1>9. log \in Seq(LogLines) /\ log' = Append(log, x)
  BY DEF Types, TypeOK
<1>10. /\ log' \in Seq(LogLines) /\ Len(log') = Len(log) + 1 /\ Len(log) \in Nat
       /\ Replayed(log') = Replay(x, Replayed(log))
       /\ Named' <=> Named
       /\ (UsageLines # {})'
       /\ Resumable' <=> (Resumable \/ Named)
  BY <1>8, <1>9, LogGrows
<1> PICK old : old = Replayed(log)
  OBVIOUS
<1> PICK v : v = Replay(x, old)
  OBVIOUS
<1>11. /\ old \in {None} \cup TrackedTranscripts /\ (old # None <=> Named)
       /\ v \in {None} \cup TrackedTranscripts /\ (v # None <=> Named)
       /\ v # None => v.offset = n /\ v.seen = {k}
       /\ Replayed(log)' = v
  <2>1. old \in {None} \cup TrackedTranscripts /\ (old # None <=> Named)
    BY DEF Types, ReaderInv, ForReplay, ReplayHolds
  <2>2. v \in {None} \cup TrackedTranscripts /\ (v = None <=> old = None)
    BY <1>8, <2>1, ReplayType
  <2>3. old # None => v.offset = n /\ v.seen = {k}
    BY <1>8, <2>1, ReplayType
  <2> QED BY <1>10, <2>1, <2>2, <2>3
<1>12. Types'
  <2>1. emitted' \in 0..Len(log')
    BY <1>10
  <2> QED BY <1>4, <1>5, <1>6, <1>7, <1>10, <1>11, <2>1 DEF Types, TypeOK, transcriptVars, boundVars
\* Every line of the file is counted now, or given up.
<1>13. \A i \in 1..n : counts'[transcript[i]] >= 1 \/ transcript[i] \in skipped'
  <2>1. TAKE i \in 1..n
  <2>2. i \in 1..t.offset \/ i \in t.offset + 1..n
    BY <1>1
  <2>3. CASE i \in 1..t.offset
    <3>1. truncated => transcript[i] \in skipped'
      BY <2>3
    <3>2. ~truncated => counts[transcript[i]] >= 1 \/ transcript[i] \in skipped
      BY <2>3 DEF Given, Covered
    <3> QED BY <1>1, <1>5, <1>7, <3>1, <3>2
  <2>4. CASE i \in t.offset + 1..n
    <3>1. transcript[i] \in t.seen => counts[transcript[i]] >= 1
      BY DEF Given, Covered
    <3> QED BY <1>1, <1>2, <1>5, <2>4, <3>1
  <2> QED BY <2>2, <2>3, <2>4
<1>14. \A p \in TrackedTranscripts : p.offset = n /\ p.seen \subseteq t.seen \cup keys => Covered(p)'
  <2>1. SUFFICES ASSUME NEW p \in TrackedTranscripts, p.offset = n, p.seen \subseteq t.seen \cup keys
                 PROVE  Covered(p)'
    OBVIOUS
  <2>2. \A s \in p.seen : counts'[s] >= 1
    <3>1. \A s \in t.seen : counts[s] >= 1
      BY DEF Given, Covered
    <3> QED BY <1>1, <1>5, <2>1, <3>1
  <2>3. p.offset + 1..n = {} /\ ~(p.offset > n) /\ p.offset <= Size'
    BY <1>1, <2>1
  <2> QED BY <1>13, <2>2, <2>3 DEF Covered, transcriptVars
\* What may still come is the response under way.
<1>15. /\ Going' = Going /\ \A r \in Going : r = responses /\ r \in Responses /\ r \in Coming(t) /\ r \in Current
       /\ \A p \in TrackedTranscripts : p.offset = n => Coming(p)' = Going
  <2>1. Going' = Going /\ \A r \in Going : r = responses
    BY DEF Going, transcriptVars, ReaderInv, Written
  <2>2. \A r \in Going : r \in Responses /\ r \in Coming(t) /\ r \in Current
    BY ComingIn DEF Coming, Current
  <2>3. n + 1..n = {} /\ n = Len(transcript')
    BY <1>1 DEF transcriptVars
  <2> QED BY <2>1, <2>2, <2>3 DEF Coming
<1>16. forgot \/ Safe(u)'
  <2>1. SUFFICES ASSUME ~forgot, NEW r \in Going, counts'[r] >= 1
                 PROVE  r \in u.seen \cup skipped'
    BY <1>4, <1>15 DEF Safe
  <2>2. r \in keys \/ counts[r] >= 1
    BY <1>5, <1>15, <2>1
  <2>3. counts[r] >= 1 => r \in t.seen \cup skipped
    BY <1>15, <2>1 DEF Given, Safe
  <2> QED BY <1>4, <1>7, <2>2, <2>3
<1>17. forgot \/ (v # None => Safe(v)')
  <2>1. SUFFICES ASSUME ~forgot, v # None, NEW r \in Going, counts'[r] >= 1
                 PROVE  r = k \/ r \in skipped'
    BY <1>11, <1>15 DEF Safe
  <2>2. k <= responses /\ responses \in Nat /\ r = responses /\ r \in Responses /\ k \in Nat
    <3>1. PICK i \in t.offset + 1..n : transcript[i] = k
      BY <1>2, <1>3
    <3>2. k <= responses
      BY <1>2, <3>1 DEF ReaderInv, Written
    <3>3. k \in Nat
      BY <1>3 DEF Responses
    <3> QED BY <1>15, <3>2, <3>3, ComingIn
  <2>3. CASE r \in keys
    <3>1. r <= k
      BY <1>3, <2>3
    <3> QED BY <2>2, <3>1
  <2>4. CASE r \notin keys
    <3>1. counts[r] >= 1 /\ r \in Current
      BY <1>5, <1>15, <2>1, <2>4
    <3>2. ~truncated
      BY <3>1 DEF ReaderInv, Unread
    <3>3. r \in t.seen \/ r \in skipped
      BY <1>15, <2>1, <3>1 DEF Given, Safe
    <3>4. CASE r \in t.seen
      <4>1. PICK i \in t.offset + 1..n : transcript[i] = k
        BY <1>2, <1>3
      <4>2. r <= k
        BY <3>2, <3>4, <4>1 DEF Given, Covered
      <4> QED BY <2>2, <4>2
    <3> QED BY <1>7, <3>3, <3>4
  <2> QED BY <2>3, <2>4
<1>18. CountedOnce'
  <2>1. SUFFICES ASSUME ~forgot, NEW r \in Responses, r \notin skipped'
                 PROVE  counts'[r] <= 1
    BY DEF CountedOnce
  <2>2. counts[r] <= 1
    BY <1>7, <2>1 DEF ReaderInv, CountedOnce
  <2>3. r \in keys => counts[r] = 0
    <3>1. SUFFICES ASSUME r \in keys, counts[r] >= 1 PROVE FALSE
      BY <1>5, <2>1
    <3>2. r \in Coming(t)
      BY <1>2, <3>1 DEF Coming
    <3>3. r \in t.seen \cup skipped
      BY <2>1, <3>1, <3>2 DEF Given, Safe
    <3> QED BY <1>2, <1>7, <2>1, <3>1, <3>3
  <2> QED BY <1>5, <2>1, <2>2, <2>3
<1>19. Written' /\ Unread'
  <2>1. \A r \in Responses : r > responses => counts'[r] = 0
    <3>1. TAKE r \in Responses
    <3>2. HAVE r > responses
    <3>3. r \notin keys
      <4>1. r \notin Current
        <5>1. r \notin 1..responses
          BY <3>2, ComingIn DEF Responses
        <5> QED BY <5>1, ComingIn
      <4> QED BY <1>2, <4>1 DEF Current
    <3> QED BY <1>5, <3>2, <3>3 DEF ReaderInv, Written
  <2> QED BY <1>6, <2>1 DEF ReaderInv, Written, Unread, transcriptVars
<1>20. Recorded'
  BY <1>10 DEF ReaderInv, Recorded, Given, boundVars
<1>21. ForTracked'
  <2>1. Covered(u)'
    BY <1>4, <1>14
  <2> QED BY <1>4, <1>16, <2>1 DEF ForTracked, Covered, Safe
<1>22. ForReplay'
  <2>1. v # None => Covered(v)' /\ v \in TrackedTranscripts
    BY <1>3, <1>11, <1>14
  <2>2. v # None => \A s \in v.seen : counts'[s] >= 1
    BY <1>3, <1>5, <1>11
  <2> QED BY <1>10, <1>11, <1>17, <2>1, <2>2 DEF ForReplay, ReplayHolds
<1> QED BY <1>12, <1>18, <1>19, <1>20, <1>21, <1>22 DEF ReaderInv

LEMMA PollStep ==
  ASSUME Types, ReaderInv, NEW t, Given(t), Poll(t), emitted' \in 0..Len(log),
         UNCHANGED <<transcriptVars, up, boundVars, archived, forgot>>
  PROVE  Types' /\ ReaderInv'
<1>1. CASE Size < t.offset /\ tracked' = [t EXCEPT !.offset = 0, !.seen = {}]
           /\ UNCHANGED <<log, counts, skipped, truncated>>
  BY <1>1, PollShrunk
<1>2. skipped \subseteq Responses /\ \A i \in 1..Len(transcript) : transcript[i] \in Responses
  BY DEF Types, TypeOK
<1>3. CASE tracked' = t /\ UNCHANGED <<log, counts, skipped, truncated>>
  BY <1>2, <1>3, PollStays
<1>4. CASE /\ Len(transcript) > t.offset
           /\ IF NewKeys(t) = {}
              THEN /\ tracked' = [t EXCEPT !.offset = Len(transcript)]
                   /\ UNCHANGED <<log, counts>>
              ELSE \/ LET lastKey == Newest(NewKeys(t)) IN
                      /\ log' = Append(log, Usage(Len(transcript), lastKey))
                      /\ counts' = [r \in Responses |-> counts[r] + IF r \in NewKeys(t) THEN 1 ELSE 0]
                      /\ tracked' = [t EXCEPT !.offset = Len(transcript), !.seen = @ \cup NewKeys(t),
                                              !.lastKey = lastKey]
                   \/ AppendFails(t)
           /\ skipped' = IF truncated THEN skipped \cup {transcript[i] : i \in 1..t.offset} ELSE skipped
           /\ truncated' = (truncated /\ counts' = counts)
  <2>1. skipped \subseteq skipped' /\ skipped' \subseteq Responses
    <3>1. \A i \in 1..t.offset : i \in 1..Len(transcript)
      BY <1>4 DEF Given, TrackedTranscripts, Types, TypeOK
    <3> QED BY <1>2, <1>4, <3>1
  <2>2. truncated \in BOOLEAN
    BY DEF Types, TypeOK
  <2>3. CASE NewKeys(t) = {}
    <3>1. tracked' = [t EXCEPT !.offset = Len(transcript)] /\ UNCHANGED <<log, counts, truncated>>
      BY <1>4, <2>2, <2>3
    <3> QED BY <1>4, <2>1, <2>3, <3>1, PollRepeats
  <2>4. CASE NewKeys(t) # {} /\ AppendFails(t)
    <3>1. tracked' = t /\ UNCHANGED <<log, counts, truncated>>
      BY <1>4, <2>2, <2>4 DEF AppendFails
    <3> QED BY <2>1, <3>1, PollStays
  <2>5. CASE NewKeys(t) # {} /\ ~AppendFails(t)
    BY <1>4, <2>5, PollLogs
  <2> QED BY <2>3, <2>4, <2>5
<1> QED BY <1>1, <1>3, <1>4 DEF Poll
LEMMA TimerPollStep ==
  ASSUME Types, ReaderInv, TimerPoll
  PROVE  Types' /\ ReaderInv'
<1>1. /\ tracked # None /\ Poll(tracked)
      /\ UNCHANGED <<transcriptVars, emitted, up, boundVars, archived, forgot>>
  BY DEF TimerPoll
<1>2. Given(tracked) /\ emitted' \in 0..Len(log)
  BY <1>1 DEF ReaderInv, ForTracked, Recorded, Given, Types, TypeOK
<1> PICK t : t = tracked
  OBVIOUS
<1>3. Given(t) /\ Poll(t)
  BY <1>1, <1>2
<1> QED BY <1>1, <1>2, <1>3, PollStep

LEMMA EmitStep ==
  ASSUME Types, ReaderInv, Emit
  PROVE  Types' /\ ReaderInv'
<1> PICK line : line = log[emitted + 1]
  OBVIOUS
<1> PICK t : t = IF line.event \in {"Hook", "Stop"} THEN SetTranscriptPath(tracked) ELSE tracked
  OBVIOUS
<1>1. /\ up /\ emitted < Len(log) /\ emitted' = emitted + 1
      /\ IF line.event = "Stop" THEN Poll(t)
         ELSE tracked' = t /\ UNCHANGED <<log, counts, skipped, truncated>>
      /\ UNCHANGED <<transcriptVars, up, boundVars, archived, forgot>>
  BY DEF Emit
<1>2. /\ log \in Seq(LogLines) /\ emitted + 1 \in 1..Len(log) /\ emitted + 1 \in DOMAIN log
      /\ line \in LogLines /\ emitted' \in 0..Len(log)
  BY <1>1 DEF Types, TypeOK
<1>3. CASE line.event \in {"Hook", "Stop"}
  <2>1. Named
    BY <1>2, <1>3 DEF Named
  <2>2. t = IF tracked = None THEN Fresh ELSE tracked
    BY <1>3 DEF SetTranscriptPath
  <2>3. t \in TrackedTranscripts /\ Covered(t) /\ (forgot \/ Safe(t))
    <3>1. CASE tracked = None
      BY <1>1, <2>2, <3>1, FreshType, FreshCovered, NothingIsSafe DEF ReaderInv, ForTracked, Types
    <3>2. CASE tracked # None
      BY <2>2, <3>2 DEF ReaderInv, ForTracked, Types, TypeOK
    <3> QED BY <3>1, <3>2
  <2>4. Given(t)
    BY <2>1, <2>3 DEF Given
  <2>5. CASE line.event = "Stop"
    BY <1>1, <1>2, <2>4, <2>5, PollStep
  <2>6. CASE line.event # "Stop"
    <3>1. skipped \subseteq skipped' /\ skipped' \subseteq Responses
      BY <1>1, <2>6 DEF Types, TypeOK
    <3> QED BY <1>1, <1>2, <2>4, <2>6, <3>1, PollStays
  <2> QED BY <2>5, <2>6
<1>4. CASE line.event \notin {"Hook", "Stop"}
  <2>1. tracked' = tracked /\ UNCHANGED <<log, counts, skipped, truncated>>
    BY <1>1, <1>4
  <2>2. CASE tracked # None
    <3>1. Given(tracked)
      BY <2>2 DEF ReaderInv, ForTracked, Recorded, Given, Types, TypeOK
    <3> PICK p : p = tracked
      OBVIOUS
    <3>2. Given(p) /\ tracked' = p
      BY <2>1, <3>1
    <3>3. skipped \subseteq skipped' /\ skipped' \subseteq Responses
      BY <2>1 DEF Types, TypeOK
    <3> QED BY <1>1, <1>2, <2>1, <3>2, <3>3, PollStays
  <2>3. CASE tracked = None
    <3>1. /\ Named' <=> Named
          /\ Resumable' <=> Resumable
          /\ UsageLines' = UsageLines
          /\ Replayed(log)' = Replayed(log)
      BY <2>1, QuietLog
    <3>2. Types'
      BY <1>1, <1>2, <2>1, <3>1 DEF Types, TypeOK, transcriptVars, boundVars
    <3>3. Written' /\ Unread' /\ CountedOnce'
      BY <1>1, <2>1 DEF ReaderInv, Written, Unread, Current, Going, CountedOnce, transcriptVars
    <3>4. Recorded'
      BY <1>1, <2>1, <3>1 DEF ReaderInv, Recorded, Nothing, boundVars
    <3>5. ForTracked'
      BY <1>1, <2>1, <2>3 DEF ReaderInv, ForTracked, Nothing
    <3>6. \A p \in TrackedTranscripts : (Covered(p) => Covered(p)') /\ (Safe(p) => Safe(p)')
      BY <1>1, <2>1 DEF Covered, Size, Safe, Coming, Going, transcriptVars
    <3>7. ForReplay'
      <4> PICK p : p = Replayed(log)
        OBVIOUS
      <4>1. p \in {None} \cup TrackedTranscripts /\ ReplayHolds(p) /\ Replayed(log)' = p
            /\ forgot' = forgot /\ counts' = counts
        BY <1>1, <2>1, <3>1 DEF Types, ReaderInv, ForReplay
      <4> QED BY <3>1, <3>6, <4>1 DEF ForReplay, ReplayHolds
    <3> QED BY <3>2, <3>3, <3>4, <3>5, <3>7 DEF ReaderInv
  <2> QED BY <2>2, <2>3
<1> QED BY <1>3, <1>4

-----------------------------------------------------------------------------
LEMMA ReaderStart ==
  ASSUME Init
  PROVE  Types /\ ReaderInv
<1> DEFINE Bounds == {1, MaxResponses, MaxLines}
<1>1. PICK old \in 0..Min(Bounds), n \in 0..1 :
        /\ n <= old
        /\ responses = old
        /\ transcript = [i \in 1..old |-> i]
        /\ counts = [r \in Responses |-> IF r <= n THEN 1 ELSE 0]
        /\ log = IF n = 0 THEN <<>> ELSE <<HookLine, OldUsage>>
  BY DEF Init
<1>2. /\ partial = None /\ emitted = 0 /\ up = FALSE /\ tracked = None
      /\ restarts = 0 /\ truncations = 0 /\ rotations = 0
      /\ skipped = {} /\ archived = FALSE /\ truncated = FALSE /\ forgot = FALSE
  BY DEF Init
<1>3. MaxResponses \in Nat /\ MaxLines \in Nat /\ MaxRestarts \in Nat /\ MaxTruncations \in Nat /\ MaxRotations \in Nat
  BY ReaderAssumption
<1>4. old \in 0..1 /\ old <= MaxResponses /\ old <= MaxLines
  <2>1. Bounds \in SUBSET Nat /\ Bounds # {}
    BY <1>3
  <2>2. \E m \in Bounds : \A b \in Bounds : m <= b
    <3> HIDE DEF Bounds
    <3> QED BY <2>1, LeastNatural
  <2>3. Min(Bounds) \in Bounds /\ \A b \in Bounds : Min(Bounds) <= b
    BY <2>2 DEF Min
  <2> PICK m : m = Min(Bounds)
    OBVIOUS
  <2>4. m \in Nat /\ m <= 1 /\ m <= MaxResponses /\ m <= MaxLines /\ old \in 0..m
    BY <2>1, <2>3
  <2> QED BY <1>3, <2>4
<1>5. /\ transcript \in Seq(Responses) /\ Len(transcript) = old
      /\ \A i \in 1..old : transcript[i] = i /\ i \in Responses
  <2>1. 1..old \subseteq Responses
    BY <1>3, <1>4 DEF Responses
  <2> QED BY <1>1, <1>4, <2>1
<1>6. counts \in [Responses -> Nat]
  BY <1>1
<1>7. HookLine \in LogLines /\ OldUsage \in LogLines /\ NamingLine(HookLine) /\ UsageLine(OldUsage)
  BY DEF LogLines, HookLine, OldUsage, NamingLine, UsageLine
<1>8. log \in Seq(LogLines)
  BY <1>1, <1>7
<1>9. Replayed(log) = IF n = 0 THEN None ELSE [Fresh EXCEPT !.countedWithoutOffset = TRUE]
  <2>1. CASE n = 0
    BY <1>1, <2>1, ReplayedNothing
  <2>2. CASE n = 1
    <3>1. log = Append(Append(<<>>, HookLine), OldUsage)
      BY <1>1, <2>2
    <3>2. Replayed(Append(<<>>, HookLine)) = Replay(HookLine, None)
      <4>1. <<>> \in Seq(LogLines)
        OBVIOUS
      <4>2. Replayed(Append(<<>>, HookLine)) = Replay(HookLine, Replayed(<<>>))
        BY ONLY <4>1, <1>7, ReplayedAppend
      <4> QED BY <4>2, ReplayedNothing
    <3>3. Append(<<>>, HookLine) \in Seq(LogLines)
      BY <1>7
    <3>4. Replayed(log) = Replay(OldUsage, Replay(HookLine, None))
      BY <1>7, <3>1, <3>2, <3>3, ReplayedAppend
    <3>5. Replay(HookLine, None) = Fresh /\ Fresh # None
      BY FreshType, NoneApart DEF Replay, SetTranscriptPath, HookLine
    <3>6. OldUsage.event = "OldUsage"
      BY DEF OldUsage
    <3>7. Replay(OldUsage, Fresh) = [Fresh EXCEPT !.countedWithoutOffset = TRUE]
      BY <3>5, <3>6 DEF Replay, Resume
    <3> QED BY <2>2, <3>4, <3>5, <3>7
  <2> QED BY <2>1, <2>2
<1> PICK t : t = Replayed(log)
  OBVIOUS
<1>10. /\ t \in {None} \cup TrackedTranscripts
       /\ n # 0 => t \in TrackedTranscripts /\ t # None /\ t.countedWithoutOffset /\ t.seen = {}
       /\ n = 0 => t = None
  <2>1. n # 0 => t = [Fresh EXCEPT !.countedWithoutOffset = TRUE]
    BY <1>9
  <2>2. [Fresh EXCEPT !.countedWithoutOffset = TRUE] \in TrackedTranscripts
    BY DEF Fresh, TrackedTranscripts
  <2>3. n # 0 => t.countedWithoutOffset /\ t.seen = {}
    BY <2>1 DEF Fresh
  <2> QED BY <1>9, <2>1, <2>2, <2>3, NoneApart
<1>11. Types
  <2>1. responses \in 0..MaxResponses /\ emitted \in 0..Len(log)
    BY <1>1, <1>2, <1>3, <1>4, <1>8
  <2>2. restarts \in 0..MaxRestarts /\ truncations \in 0..MaxTruncations /\ rotations \in 0..MaxRotations
    BY <1>2, <1>3
  <2> QED BY <1>2, <1>4, <1>5, <1>6, <1>8, <1>10, <2>1, <2>2 DEF Types, TypeOK
<1>12. /\ Named <=> n # 0
       /\ UsageLines # {} <=> n # 0
       /\ n # 0 => Resumable
  <2>1. CASE n = 0
    BY <1>1, <2>1 DEF Named, UsageLines
  <2>2. CASE n # 0
    <3>1. DOMAIN log = 1..2 /\ log[1] = HookLine /\ log[2] = OldUsage /\ 1 \in 1..2 /\ 2 \in 1..2 /\ 1 < 2
      BY <1>1, <2>2
    <3> QED BY <1>7, <2>2, <3>1 DEF Named, UsageLines, Resumable, NamingLine, UsageLine
  <2> QED BY <2>1, <2>2
<1>13. n = 0 => Nothing
  BY <1>1 DEF Nothing, Responses
<1>14. Written
  <2>1. \A r \in Responses : r > old => ~(r <= n)
    BY <1>1, <1>4 DEF Responses
  <2>2. \A i \in 1..old : i <= old
    BY <1>4
  <2> QED BY <1>1, <1>2, <1>5, <2>1, <2>2 DEF Written
<1>15. Unread /\ ForTracked /\ CountedOnce
  BY <1>1, <1>2 DEF Unread, ForTracked, CountedOnce
<1>16. Recorded
  BY <1>2, <1>12, <1>13 DEF Recorded
<1>17. ForReplay
  BY <1>10, <1>12 DEF ForReplay, ReplayHolds
<1> QED BY <1>11, <1>14, <1>15, <1>16, <1>17 DEF ReaderInv

LEMMA ReaderStep ==
  ASSUME Types, ReaderInv, [Next]_vars
  PROVE  Types' /\ ReaderInv'
<1>1. CASE UNCHANGED vars
  <2>1. UNCHANGED log /\ UNCHANGED <<transcriptVars, emitted, up, tracked, boundVars, history>>
    BY <1>1 DEF vars
  <2>2. Types'
    BY <2>1, QuietLog DEF Types, TypeOK, transcriptVars, boundVars, history
  <2>3. Written' /\ Unread'
    BY <2>1 DEF ReaderInv, Written, Unread, Current, Going, transcriptVars, history
  <2>4. \A p \in TrackedTranscripts : (Covered(p) => Covered(p)') /\ (Safe(p) => Safe(p)')
    BY <2>1 DEF Covered, Size, Safe, Coming, Going, transcriptVars, history
  <2> QED BY <2>1, <2>2, <2>3, <2>4, PositionsKept DEF boundVars, history
<1>2. CASE Next
  BY <1>2, BeginLineStep, EndLineStep, TruncateStep, HookStep, EmitStep, TimerPollStep, RotateStep,
     CrashStep, StartStep DEF Next
<1> QED BY <1>1, <1>2

LEMMA ReaderInvariant == Spec => [](Types /\ ReaderInv)
<1>1. Init => Types /\ ReaderInv
  BY ReaderStart
<1>2. Types /\ ReaderInv /\ [Next]_vars => (Types /\ ReaderInv)'
  BY ReaderStep
<1> QED BY <1>1, <1>2, PTL DEF Spec

(* Every variable of the reader keeps its type and every counter its       *)
(* bound.                                                                  *)
THEOREM ReaderTypeCorrect == Spec => []TypeOK
<1>1. Types /\ ReaderInv => TypeOK
  BY DEF Types
<1> QED BY <1>1, ReaderInvariant, PTL

(* Usage is counted once (transcripts.ts:119): whatever restarts,          *)
(* rotations, truncations, failed appends and half-written lines come      *)
(* between, no response is logged twice, unless a restart after a rotation *)
(* did not find its position or finishReplay gave the response up.         *)
THEOREM NothingCountedTwice == Spec => []CountedOnce
<1>1. Types /\ ReaderInv => CountedOnce
  BY DEF ReaderInv
<1> QED BY <1>1, ReaderInvariant, PTL

(* The offset never passes usage that no TokenUsage line holds             *)
(* (transcripts.ts poll, resume, finishReplay).                            *)
THEOREM OffsetPassesNothing == Spec => []NothingPassedOver
<1>1. Types /\ ReaderInv => NothingPassedOver
  BY DEF ReaderInv, ForTracked, Covered, NothingPassedOver
<1> QED BY <1>1, ReaderInvariant, PTL
=============================================================================
