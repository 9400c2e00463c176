-------------------------- MODULE SessionSynthesis --------------------------
(***************************************************************************)
(* Transcript -> event stream, the pure half of `ccidle import`            *)
(* (packages/cli/src/transcript-import.ts).  One historical session is a   *)
(* main transcript and the sidecar file of a subagent; the synthesis makes *)
(* of them the envelopes the live hooks and the daemon would have written. *)
(*                                                                         *)
(* A line holds at most one content block, as Claude Code writes them: a   *)
(* response of several blocks is several lines with one usage key.  Times  *)
(* never decrease within a file.  Payload texts, redaction and the 4 KB    *)
(* cap are left out.                                                       *)
(***************************************************************************)
EXTENDS Integers, Sequences, FiniteSets, SequencesExt, FiniteSetsExt

CONSTANT Null     \* no usage key, no tool, no working directory

(***************************************************************************)
(* What a line says.  "torn" does not parse; "meta" is bookkeeping.        *)
(* "reply", "call" are assistant lines, "result" and "prompt" user lines;  *)
(* `chain` is the root uuid of an inline sidechain, 0 in the main chain.   *)
(***************************************************************************)
LineKinds == {"torn", "meta", "reply", "call", "result", "prompt"}

Line(kind, chain, key, tokens, tool, failed) ==
    [kind |-> kind, chain |-> chain, key |-> key, tokens |-> tokens,
     tool |-> tool, failed |-> failed, ts |-> 0]

Parsed(lines) == SelectSeq(lines, LAMBDA l : l.kind # "torn")

IsAssistant(l) == l.kind \in {"reply", "call"}

(* The first working directory a parsed line carries; bookkeeping lines carry none. *)
HasCwd(main) == \E i \in DOMAIN main : main[i].kind \notin {"torn", "meta"}

(***************************************************************************)
(* The synthesis context: events so far, usage keys and tools seen, and    *)
(* whether the turn under way has an assistant line.                       *)
(***************************************************************************)
EmptySynth == [events |-> <<>>, seen |-> {}, tools |-> {}, replied |-> FALSE, lastReply |-> 0]

Push(synth, ts, event, key, tokens, tool, failed) ==
    [synth EXCEPT !.events =
        Append(@, [seq |-> Len(@), ts |-> ts, event |-> event, key |-> key,
                   tokens |-> tokens, tool |-> tool, failed |-> failed])]

PushPlain(synth, ts, event) == Push(synth, ts, event, Null, 0, Null, FALSE)

EmitToolEvents(synth, l) ==
    CASE l.kind = "call" ->
            Push([synth EXCEPT !.tools = @ \cup {l.tool}], l.ts, "PreToolUse", Null, 0, l.tool, FALSE)
      [] l.kind = "result" ->
            Push(synth, l.ts, "PostToolUse", Null, 0,
                 IF l.tool \in synth.tools THEN l.tool ELSE Null, l.failed)
      [] OTHER -> synth

(* A plausible slip: the key is noted only when the usage is emitted twice over. *)
MaybeEmitTokenUsageEveryLine(synth, l) ==
    IF l.key = Null \/ l.tokens = 0 THEN synth
    ELSE Push(synth, l.ts, "TokenUsage", l.key, l.tokens, Null, FALSE)

(* One usage event per response, whatever the number of its lines. *)
MaybeEmitTokenUsage(synth, l) ==
    IF l.key = Null \/ l.key \in synth.seen THEN synth
    ELSE LET noted == [synth EXCEPT !.seen = @ \cup {l.key}]
         IN  IF l.tokens = 0 THEN noted
             ELSE Push(noted, l.ts, "TokenUsage", l.key, l.tokens, Null, FALSE)

CloseTurn(synth) ==
    IF synth.replied
    THEN [PushPlain(synth, synth.lastReply, "Stop") EXCEPT !.replied = FALSE]
    ELSE synth

(* One line of the main chain. *)
MainLine(synth, l) ==
    CASE IsAssistant(l) ->
            [MaybeEmitTokenUsage(EmitToolEvents(synth, l), l)
                EXCEPT !.replied = TRUE, !.lastReply = l.ts]
      [] l.kind = "result" -> EmitToolEvents(synth, l)
      [] l.kind = "prompt" -> PushPlain(CloseTurn(synth), l.ts, "UserPromptSubmit")
      [] OTHER -> synth

(* One line of a subagent, inline or in its own file. *)
SideLine(synth, l) ==
    CASE IsAssistant(l) -> MaybeEmitTokenUsage(EmitToolEvents(synth, l), l)
      [] l.kind = "result" -> EmitToolEvents(synth, l)
      [] OTHER -> synth

Times(lines) == {lines[i].ts : i \in DOMAIN lines}

(* Inline sidechains: their lines in file order, then one SubagentStop per chain. *)
Sidechains(synth, side) ==
    LET chains == SetToSortSeq({side[i].chain : i \in DOMAIN side}, <)
        End(c) == Max(Times(SelectSeq(side, LAMBDA l : l.chain = c)))
    IN  FoldLeft(LAMBDA s, c : PushPlain(s, End(c), "SubagentStop"),
                 FoldLeft(SideLine, synth, side), chains)

(* A sidecar file: its lines, then one SubagentStop. *)
Sidecar(synth, sub) ==
    IF sub = <<>> THEN synth
    ELSE PushPlain(FoldLeft(SideLine, synth, sub), Max(Times(sub)), "SubagentStop")

Bookends(synth, span) ==
    IF span = {} THEN synth
    ELSE PushPlain(PushPlain(synth, Min(span), "SessionStart"), Max(span), "SessionEnd")

Rank(e) == CASE e.event = "SessionStart" -> -1
             [] e.event = "SessionEnd"   -> 1
             [] OTHER                    -> 0

Before(a, b) ==
    \/ a.ts < b.ts
    \/ a.ts = b.ts /\ Rank(a) < Rank(b)
    \/ a.ts = b.ts /\ Rank(a) = Rank(b) /\ a.seq < b.seq

(* The whole of synthesizeSessionEvents: the timeline of one session. *)
Synthesize(main, sub) ==
    LET lines   == Parsed(main)
        subLines == Parsed(sub)
        chain   == SelectSeq(lines, LAMBDA l : l.chain = 0)
        side    == SelectSeq(lines, LAMBDA l : l.chain # 0)
        turns   == CloseTurn(FoldLeft(MainLine, EmptySynth, chain))
        all     == Sidecar(Sidechains(turns, side), subLines)
    IN  SortSeq(Bookends(all, Times(lines) \cup Times(subLines)).events, Before)

(***************************************************************************)
(* What the stream has to say of the transcript.                           *)
(***************************************************************************)
Count(timeline, event) == Cardinality({i \in DOMAIN timeline : timeline[i].event = event})

Responses(lines) == {l \in ToSet(lines) : l.key # Null /\ l.tokens > 0}

(* One usage event per response key, however many lines repeat it. *)
UsageOnce(timeline, lines) ==
    \A k \in {l.key : l \in Responses(lines)} :
        Cardinality({i \in DOMAIN timeline : timeline[i].key = k}) = 1

(* Between the usage of a main-chain response and the next prompt there is a Stop: the turn *)
(* is paid its bonus before the prompt starts another.                                      *)
TurnsClosed(timeline, main) ==
    \A i, j \in DOMAIN timeline :
        /\ i < j
        /\ timeline[i].event = "TokenUsage"
        /\ timeline[i].key \in {l.key : l \in {m \in ToSet(main) : m.chain = 0}}
        /\ timeline[j].event \in {"UserPromptSubmit", "SessionEnd"}
        => \E k \in i..j : timeline[k].event = "Stop"

(* One Stop for each turn Claude answered, none for a prompt left without an answer. *)
AnsweredTurns(main) ==
    LET chain == SelectSeq(Parsed(main), LAMBDA l : l.chain = 0 /\ (IsAssistant(l) \/ l.kind = "prompt"))
    IN  Cardinality({i \in DOMAIN chain :
            IsAssistant(chain[i]) /\ (i = Len(chain) \/ chain[i + 1].kind = "prompt")})

ToolsNamed(timeline) ==
    \A j \in DOMAIN timeline :
        timeline[j].event = "PostToolUse" /\ timeline[j].tool # Null
        => \E i \in 1..(j - 1) : timeline[i].event = "PreToolUse" /\ timeline[i].tool = timeline[j].tool

Bracketed(timeline) ==
    /\ Count(timeline, "SessionStart") = 1 /\ timeline[1].event = "SessionStart"
    /\ Count(timeline, "SessionEnd") = 1 /\ Last(timeline).event = "SessionEnd"
    /\ \A i \in 1..(Len(timeline) - 1) : timeline[i].ts <= timeline[i + 1].ts

Faithful(timeline, main, sub) ==
    timeline # <<>> =>
        /\ Bracketed(timeline)
        /\ UsageOnce(timeline, Parsed(main) \o Parsed(sub))
        /\ TurnsClosed(timeline, Parsed(main))
        /\ ToolsNamed(timeline)
        /\ Count(timeline, "Stop") = AnsweredTurns(main)
=============================================================================
