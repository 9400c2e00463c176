------------------------------- MODULE Corpus -------------------------------
(***************************************************************************)
(* The backtesting corpus of the CLI: `ccidle import`                      *)
(* (packages/cli/src/import.ts), `ccidle corpus snapshot` (corpus.ts) and  *)
(* the aggregation of `ccidle backtest` (backtest.ts), over transcripts    *)
(* that Claude Code goes on writing meanwhile.                             *)
(*                                                                         *)
(* An import finds the files, then takes the sources in order: a stat of   *)
(* the files, then a read of them, then the rename of the output; the      *)
(* manifest is kept in memory and renamed into place at the end, so an     *)
(* import that dies loses what the manifest would have recorded.  A        *)
(* snapshot takes file after file: a stat, then the copy.                  *)
(***************************************************************************)
EXTENDS SessionSynthesis

CONSTANTS
    Sources,        \* transcripts under ~/.claude/projects
    SessionOf,      \* [Sources -> session id], the name of the output
    CwdOf,          \* [Sources -> Seq(segment)], the working directory
    Tools,          \* the tools a line may name
    Chunks,         \* sequences of lines Claude Code may append at once
    RuleSets,       \* sets of exclusion globs a configuration may hold
    Windows,        \* [since, until] an import may be given
    MinTurns,       \* values of --min-turns
    ModelOf,        \* [usage key -> model that gave the response]
    Prices,         \* prices.json: [models : model -> rate, aliases : name -> model]
    Histories,      \* [Sources -> contents the transcript may have when ccidle is installed]
    ShortHistory,   \* bound: transcripts of more lines than this together see one
                    \* change and one command
    MaxChanges,     \* bound: appends, changes of times and of rules from then on
    MaxRuns     \* bound: imports and snapshots started, one at a time

ASSUME OneSourcePerSession ==
    \A s, t \in Sources : SessionOf[s] = SessionOf[t] => s = t

TranscriptLines ==
    [kind : LineKinds, chain : Nat, key : DOMAIN ModelOf \cup {Null}, tokens : Nat,
     tool : Tools \cup {Null}, failed : BOOLEAN, ts : Nat]

(* What a source holds: its main file and its sidecar, empty while there is none. *)
Contents == [{"main", "sub"} -> Seq(TranscriptLines)]

ASSUME TranscriptsAssumption ==
    /\ IsFiniteSet(Sources)
    /\ Histories \in [Sources -> SUBSET Contents]
    /\ Chunks \in [Sources -> [{"main", "sub"} -> SUBSET Seq(TranscriptLines)]]
    /\ {ShortHistory, MaxChanges, MaxRuns} \subseteq Nat

ASSUME PricesAssumption == \A m \in DOMAIN Prices.models : Prices.models[m] \in Nat

VARIABLES
    transcript,  \* [Sources -> [main, sub]]
    mtime,       \* [Sources -> [main, sub]], the clock of each file's last write
    rules,       \* the exclusion globs in force
    corpus,      \* session -> [cwd, events] or NoOutput: the output files
    manifest,    \* [Sources -> entry or Null]: manifest.json
    imp,         \* the import under way, or Null
    raw,         \* [Paths -> [lines, stamp] or Null]: corpus-raw/<date>
    snap,        \* the snapshot under way, or Null
    settled,     \* history: an unfiltered import ended and nothing changed since it began
    archived,    \* history: a snapshot ended and nothing was written since it began
    lost,        \* history: sources whose output an import removed before it died
    left         \* changes and commands left

corpusVars == <<transcript, mtime, rules, corpus, manifest, imp, raw, snap, settled, archived, lost, left>>

SessionIds == {SessionOf[s] : s \in Sources}
Paths == Sources \X {"main", "sub"}

(* What the commands keep: the manifest's entries, an import and a snapshot under way, raw copies. *)
FileStamps == [size : Nat, mtime : Int]
Stamps == [{"main"} -> FileStamps] \cup [{"main", "sub"} -> FileStamps]
ManifestEntries == [hash : Contents, stamp : Stamps, output : SessionIds,
                    cwd : {CwdOf[s] : s \in Sources} \cup {Null}]
Imports == [todo : Seq(Sources), sidecars : SUBSET Sources, globs : RuleSets, window : Windows,
            man : [Sources -> ManifestEntries \cup {Null}], stamp : Stamps \cup {Null}, quiet : BOOLEAN]
Snapshots == [todo : Seq(Paths), stamp : FileStamps \cup {Null}, quiet : BOOLEAN]
RawFiles == [lines : Seq(TranscriptLines), stamp : FileStamps]

ASSUME NullAssumption ==
    Null \notin ManifestEntries /\ Null \notin Imports /\ Null \notin Snapshots /\ Null \notin RawFiles

(* The file an import leaves for a session, with at least one event; before that there is none. *)
NoOutput == [cwd |-> Null, events |-> <<>>]

Larger(a, b) == IF a >= b THEN a ELSE b
Smaller(a, b) == IF a <= b THEN a ELSE b

Spend(counter) == left' = [left EXCEPT ![counter] = @ - 1]

Exists(s) == transcript[s].main # <<>>

(* What a walk of the projects directory finds: sessions, and those with a sidecar. *)
Found == {s \in Sources : Exists(s)}
WithSidecar == {s \in Sources : transcript[s].sub # <<>>}

StampOfFile(s, file) == [size |-> Len(transcript[s][file]), mtime |-> mtime[s][file]]

(* stampFiles: size and mtime of each file of the source. *)
StampOf(s, sidecars) ==
    [file \in IF s \in sidecars THEN {"main", "sub"} ELSE {"main"} |-> StampOfFile(s, file)]

(* pathGlobToRegExp: `**` stands for any number of segments, `*` for one. *)
GlobMatches(glob, path) ==
    LET matches[i \in 1..(Len(glob) + 1), j \in 1..(Len(path) + 1)] ==
            CASE i > Len(glob)    -> j > Len(path)
              [] i <= Len(glob) /\ glob[i] = "**" ->
                     matches[i + 1, j] \/ (j <= Len(path) /\ matches[i, j + 1])
              [] OTHER -> /\ j <= Len(path)
                          /\ glob[i] \in {"*", path[j]}
                          /\ matches[i + 1, j + 1]
    IN  matches[1, 1]

Excluded(cwd, globs) == cwd # Null /\ \E g \in globs : GlobMatches(g, cwd)

CwdIn(s, content) == IF HasCwd(content.main) THEN CwdOf[s] ELSE Null

Timeline(content) == Synthesize(content.main, content.sub)

-----------------------------------------------------------------------------
(* Claude Code.                                                            *)

LastTs(lines) == IF lines = <<>> THEN 1 ELSE Last(lines).ts

Disturbed(command) == IF command = Null THEN Null ELSE [command EXCEPT !.quiet = FALSE]

(* A chunk goes to the main file or, once there is one, to the sidecar.  The clock of the *)
(* file system may not have moved since the last write: the size has.                    *)
AppendChunk(s, file, chunk, tick) ==
    LET ts   == LastTs(transcript[s][file]) + 1
        more == [i \in DOMAIN chunk |-> [chunk[i] EXCEPT !.ts = ts]]
    IN  /\ left.changes > 0
        /\ file = "sub" => Exists(s) /\ transcript[s].sub = <<>>
        /\ transcript' = [transcript EXCEPT ![s][file] = @ \o more]
        /\ mtime' = [mtime EXCEPT ![s][file] = @ + tick]
        /\ Spend("changes")
        /\ settled' = FALSE /\ archived' = FALSE
        /\ imp' = Disturbed(imp) /\ snap' = Disturbed(snap)
        /\ UNCHANGED <<rules, corpus, manifest, raw, lost>>

Touch(s, file) ==
    /\ transcript[s][file] # <<>> /\ left.changes > 0
    /\ mtime' = [mtime EXCEPT ![s][file] = @ + 1]
    /\ Spend("changes")
    /\ UNCHANGED <<transcript, rules, corpus, manifest, imp, raw, snap, settled, archived, lost>>

(* The user edits corpus.exclude, or gives --exclude to the commands from now on. *)
SetRules(globs) ==
    /\ globs # rules /\ left.changes > 0
    /\ rules' = globs
    /\ Spend("changes")
    /\ settled' = FALSE
    /\ imp' = Disturbed(imp)
    /\ UNCHANGED <<transcript, mtime, corpus, manifest, raw, snap, archived, lost>>

-----------------------------------------------------------------------------
(* ccidle import.                                                          *)

(* readManifest, before there is one. *)
NoManifest == [s \in Sources |-> Null]

StartImport(window) ==
    /\ imp = Null /\ snap = Null /\ left.commands > 0
    /\ Found # {}
    /\ imp' = [todo  |-> SetToSeq(Found), sidecars |-> WithSidecar,
               globs |-> rules, window |-> window, man |-> manifest,
               stamp |-> Null, quiet |-> TRUE]
    /\ Spend("commands")
    /\ UNCHANGED <<transcript, mtime, rules, corpus, manifest, raw, snap, settled, archived, lost>>

(* On to the next source. *)
Passed(man) == [imp EXCEPT !.todo = Tail(@), !.stamp = Null, !.man = man]

(* A plausible slip: the entry of an excluded session stays in the manifest. *)
ForgetNothing(s) == imp.man

Forget(s) == [imp.man EXCEPT ![s] = Null]

RemoveOutput(session) == corpus' = [corpus EXCEPT ![session] = NoOutput]

(* A plausible slip: the times alone are compared. *)
SameTimes(a, b) == DOMAIN a = DOMAIN b /\ \A file \in DOMAIN a : a[file].mtime = b[file].mtime

StampsEqual(a, b) == a = b

(* The stat of a source, and the fast path: same size and times as at the last import. *)
ImportStat ==
    /\ imp # Null /\ imp.todo # <<>> /\ imp.stamp = Null
    /\ LET s     == Head(imp.todo)
           entry == imp.man[s]
           stamp == StampOf(s, imp.sidecars)
       IN  IF entry # Null /\ StampsEqual(entry.stamp, stamp)
           THEN IF Excluded(entry.cwd, imp.globs)
                THEN imp' = Passed(Forget(s)) /\ RemoveOutput(entry.output)
                ELSE imp' = Passed(imp.man) /\ UNCHANGED corpus
           ELSE imp' = [imp EXCEPT !.stamp = stamp] /\ UNCHANGED corpus
    /\ UNCHANGED <<transcript, mtime, rules, manifest, raw, snap, settled, archived, lost, left>>

InWindow(content) ==
    LET span == Times(Parsed(content.main)) \cup Times(Parsed(content.sub))
    IN  /\ imp.window.since > 0 => span # {} /\ Max(span) >= imp.window.since
        /\ imp.window.until > 0 => span # {} /\ Min(span) <= imp.window.until

NewEntry(s, content, stamp) ==
    [hash |-> content, stamp |-> stamp, output |-> SessionOf[s], cwd |-> CwdIn(s, content)]

(* The read of a source and what follows without a pause: hash, synthesis, exclusion, date   *)
(* filter, rename of the output.                                                              *)
ImportRead ==
    /\ imp # Null /\ imp.todo # <<>> /\ imp.stamp # Null
    /\ LET s       == Head(imp.todo)
           entry   == imp.man[s]
           content == IF s \in imp.sidecars THEN transcript[s]
                      ELSE [transcript[s] EXCEPT !.sub = <<>>]
       IN  CASE entry # Null /\ entry.hash = content ->
                   imp' = Passed([imp.man EXCEPT ![s].stamp = imp.stamp]) /\ UNCHANGED corpus
             [] Excluded(CwdIn(s, content), imp.globs) ->
                   /\ imp' = Passed(Forget(s))
                   /\ IF entry = Null THEN UNCHANGED corpus ELSE RemoveOutput(entry.output)
             [] ~InWindow(content) \/ Timeline(content) = <<>> ->
                   imp' = Passed(imp.man) /\ UNCHANGED corpus
             [] OTHER ->
                   /\ corpus' = [corpus EXCEPT ![SessionOf[s]] =
                                    [cwd |-> CwdIn(s, content), events |-> Timeline(content)]]
                   /\ imp' = Passed([imp.man EXCEPT ![s] = NewEntry(s, content, imp.stamp)])
    /\ UNCHANGED <<transcript, mtime, rules, manifest, raw, snap, settled, archived, lost, left>>

(* The files went away between the stat and the read, or cannot be read: the source is skipped. *)
ImportSkip ==
    /\ imp # Null /\ imp.todo # <<>> /\ imp.stamp # Null
    /\ imp' = [Passed(imp.man) EXCEPT !.quiet = FALSE]
    /\ UNCHANGED <<transcript, mtime, rules, corpus, manifest, raw, snap, settled, archived, lost, left>>

WholeSpan == [since |-> 0, until |-> 0]

WriteManifest ==
    /\ imp # Null /\ imp.todo = <<>>
    /\ manifest' = imp.man
    /\ settled' = (imp.quiet /\ imp.window = WholeSpan /\ imp.globs = rules)
    /\ lost' = {s \in lost : imp.man[s] # Null}
    /\ imp' = Null
    /\ UNCHANGED <<transcript, mtime, rules, corpus, raw, snap, archived, left>>

ImportDies ==
    /\ imp # Null
    /\ lost' = lost \cup {s \in Sources : manifest[s] # Null /\ corpus[SessionOf[s]] = NoOutput}
    /\ imp' = Null
    /\ UNCHANGED <<transcript, mtime, rules, corpus, manifest, raw, snap, settled, archived, left>>

-----------------------------------------------------------------------------
(* ccidle corpus snapshot, into the tree of one day.                       *)

StartSnapshot ==
    /\ imp = Null /\ snap = Null /\ left.commands > 0
    /\ Found # {}
    /\ snap' = [todo |-> SetToSeq({x \in Paths : transcript[x[1]][x[2]] # <<>>}),
                stamp |-> Null, quiet |-> TRUE]
    /\ Spend("commands")
    /\ UNCHANGED <<transcript, mtime, rules, corpus, manifest, imp, raw, settled, archived, lost>>

(* On to the next file; after the last the snapshot is done. *)
SnapPassed(quiet) ==
    IF Len(snap.todo) = 1
    THEN snap' = Null /\ archived' = quiet
    ELSE snap' = [todo |-> Tail(snap.todo), stamp |-> Null, quiet |-> quiet] /\ UNCHANGED archived

SnapStat ==
    /\ snap # Null /\ snap.stamp = Null
    /\ LET path  == Head(snap.todo)
           stamp == StampOfFile(path[1], path[2])
       IN  IF raw[path] # Null /\ raw[path].stamp = stamp
           THEN SnapPassed(snap.quiet)
           ELSE snap' = [snap EXCEPT !.stamp = stamp] /\ UNCHANGED archived
    /\ UNCHANGED <<transcript, mtime, rules, corpus, manifest, imp, raw, settled, lost, left>>

(* copyFile, then utimes with the times of the stat: the size is that of the copy. *)
RawCopy(path, time) ==
    LET lines == transcript[path[1]][path[2]]
    IN  [lines |-> lines, stamp |-> [size |-> Len(lines), mtime |-> time]]

SnapCopy ==
    /\ snap # Null /\ snap.stamp # Null
    /\ LET path == Head(snap.todo)
       IN  raw' = [raw EXCEPT ![path] = RawCopy(path, snap.stamp.mtime)]
    /\ SnapPassed(snap.quiet)
    /\ UNCHANGED <<transcript, mtime, rules, corpus, manifest, imp, settled, lost, left>>

(* The copy failed, or the snapshot died: at worst a copy without its times is left, which *)
(* matches no source.                                                                       *)
SnapFails ==
    /\ snap # Null /\ snap.stamp # Null
    /\ LET path == Head(snap.todo)
       IN  raw' \in {raw, [raw EXCEPT ![path] = RawCopy(path, -1)]}
    /\ SnapPassed(FALSE) \/ (snap' = Null /\ UNCHANGED archived)
    /\ UNCHANGED <<transcript, mtime, rules, corpus, manifest, imp, settled, lost, left>>

-----------------------------------------------------------------------------
(* ccidle backtest: a pure reading of the corpus.                          *)

Unknown == <<"(unknown)">>

(* The output files of the corpus, in the order of their names. *)
Files == SetToSeq({x \in SessionIds : corpus[x] # NoOutput})

(* applyCorpusFilters: a session is replayed whole or not at all. *)
Selected(globs, minTurns) ==
    SelectSeq(Files, LAMBDA x : /\ ~Excluded(corpus[x].cwd, globs)
                                /\ Count(corpus[x].events, "UserPromptSubmit") >= minTurns)

(* mergeTimelines: by time, then by place in the concatenation. *)
MergeTimelines(files) ==
    LET flat == FlattenSeq([f \in DOMAIN files |->
                    [i \in DOMAIN corpus[files[f]].events |->
                        [session |-> files[f], cwd |-> corpus[files[f]].cwd,
                         e |-> corpus[files[f]].events[i]]]])
        order == SortSeq([i \in DOMAIN flat |-> i],
                    LAMBDA i, j : \/ flat[i].e.ts < flat[j].e.ts
                                  \/ flat[i].e.ts = flat[j].e.ts /\ i < j)
    IN  [i \in DOMAIN order |-> flat[order[i]]]

NoTotals == [events |-> 0, turns |-> 0, calls |-> 0, failures |-> 0, subagents |-> 0, tokens |-> 0]

Tally(totals, e) ==
    LET one == [totals EXCEPT !.events = @ + 1]
    IN  CASE e.event = "UserPromptSubmit" -> [one EXCEPT !.turns = @ + 1]
          [] e.event = "PostToolUse" -> [one EXCEPT !.calls = @ + 1,
                                                    !.failures = @ + IF e.failed THEN 1 ELSE 0]
          [] e.event = "SubagentStop" -> [one EXCEPT !.subagents = @ + 1]
          [] e.event = "TokenUsage" -> [one EXCEPT !.tokens = @ + e.tokens]
          [] OTHER -> one

(* What each model has produced for a project. *)
Models == Range(ModelOf)

TallyModel(byModel, e) ==
    IF e.event = "TokenUsage" THEN [byModel EXCEPT ![ModelOf[e.key]] = @ + e.tokens] ELSE byModel

(* priceFor: a model under its own name or an alias, or no price at all. *)
PriceFor ==
    [model \in Models |->
        LET aliased == IF model \in DOMAIN Prices.aliases THEN Prices.aliases[model] ELSE Null
            found   == {m \in {model, aliased} : m \in DOMAIN Prices.models}
        IN  CASE model \in found -> Prices.models[model]
              [] model \notin found /\ found # {} -> Prices.models[aliased]
              [] OTHER -> Null]

(* costOf, at one rate for every kind of token *)
ModelCost(model, tokens) == tokens * PriceFor[model]

(* The estimated cost of what the priced models have produced; with none of them there is none. *)
EstimatedCost(byModel) ==
    LET priced == {m \in Models : byModel[m] > 0 /\ PriceFor[m] # Null}
    IN  IF priced = {} THEN Null ELSE MapThenSumSet(LAMBDA m : ModelCost(m, byModel[m]), priced)

Projects == {CwdOf[s] : s \in Sources} \cup {Unknown}

(* TelemetrySink.onEvent: a session belongs to the first directory it names, its events to  *)
(* the project it belongs to when they come.                                                  *)
OnEvent(sink, x) ==
    LET project == IF sink.project[x.session] = Unknown /\ x.cwd # Null
                   THEN x.cwd ELSE sink.project[x.session]
    IN  [sink EXCEPT !.project[x.session] = project,
                     !.sessions[x.session] = Tally(@, x.e),
                     !.projects[project] = Tally(@, x.e),
                     !.models[project] = TallyModel(@, x.e)]

(* distinguishingNames: the shortest run of last segments that no other path ends with, or  *)
(* the whole path.                                                                           *)
LastSegments(path, depth) == SubSeq(path, Larger(1, (Len(path) - depth) + 1), Len(path))

DistinguishingNames(paths) ==
    LET Unique(p) == {d \in 1..Len(p) : \A q \in paths \ {p} : LastSegments(q, d) # LastSegments(p, d)}
    IN  [p \in paths |-> IF Unique(p) = {} THEN [whole |-> TRUE, label |-> p]
                         ELSE [whole |-> FALSE, label |-> LastSegments(p, Min(Unique(p)))]]

(* TelemetrySink.summary and the costs formatBacktestMarkdown adds: the projects under their  *)
(* labels, what they come to together, and the five sessions that produced most.               *)
Summary(sink) ==
    LET seen(totals) == {k \in DOMAIN totals : totals[k].events > 0}
        Above(x, y)  == \/ sink.sessions[x].tokens > sink.sessions[y].tokens
                        \/ /\ sink.sessions[x].tokens = sink.sessions[y].tokens
                           /\ sink.sessions[x].events > sink.sessions[y].events
        ranked       == SortSeq(SetToSeq(seen(sink.sessions)), Above)
    IN  [sessions |-> sink.sessions,
         projects |-> sink.projects,
         names    |-> DistinguishingNames(seen(sink.projects)),
         totals   |-> [field \in DOMAIN NoTotals |->
                          MapThenSumSet(LAMBDA c : sink.projects[c][field], seen(sink.projects))],
         cost     |-> [c \in Projects |-> EstimatedCost(sink.models[c])],
         costs    |-> EstimatedCost([m \in Models |->
                          MapThenSumSet(LAMBDA c : sink.models[c][m], Projects)]),
         top      |-> SubSeq(ranked, 1, Smaller(5, Len(ranked)))]

Telemetry(globs, minTurns) ==
    Summary(FoldLeft(OnEvent,
             [project  |-> [x \in SessionIds |-> Unknown],
              sessions |-> [x \in SessionIds |-> NoTotals],
              projects |-> [c \in Projects |-> NoTotals],
              models   |-> [c \in Projects |-> [m \in Models |-> 0]]],
             MergeTimelines(Selected(globs, minTurns))))

-----------------------------------------------------------------------------
CorpusInit ==
    /\ transcript \in [Sources -> UNION {Histories[s] : s \in Sources}]
    /\ \A s \in Sources : transcript[s] \in Histories[s]
    /\ mtime = [s \in Sources |-> [main |-> 0, sub |-> 0]]
    /\ rules \in RuleSets
    /\ corpus = [x \in SessionIds |-> NoOutput]
    /\ manifest = NoManifest
    /\ imp = Null /\ raw = [path \in Paths |-> Null] /\ snap = Null
    /\ settled = FALSE /\ archived = FALSE /\ lost = {}
    /\ left = IF MapThenSumSet(LAMBDA path : Len(transcript[path[1]][path[2]]), Paths) <= ShortHistory
              THEN [changes |-> MaxChanges, commands |-> MaxRuns]
              ELSE [changes |-> 1, commands |-> 1]

Import ==
    \/ \E w \in Windows : StartImport(w)
    \/ ImportStat \/ ImportRead \/ ImportSkip \/ WriteManifest \/ ImportDies

Snapshot == StartSnapshot \/ SnapStat \/ SnapCopy \/ SnapFails

CorpusNext ==
    \/ \E s \in Sources, file \in {"main", "sub"}, tick \in 0..1 :
           \E chunk \in Chunks[s][file] : AppendChunk(s, file, chunk, tick)
    \/ \E s \in Sources, file \in {"main", "sub"} : Touch(s, file)
    \/ \E globs \in RuleSets : SetRules(globs)
    \/ Import
    \/ Snapshot

CorpusSpec == CorpusInit /\ [][CorpusNext]_corpusVars

-----------------------------------------------------------------------------
CorpusTypeOK ==
    /\ transcript \in [Sources -> Contents]
    /\ mtime \in [Sources -> [{"main", "sub"} -> Nat]]
    /\ rules \in RuleSets
    /\ corpus = [x \in SessionIds |-> corpus[x]]
    /\ manifest \in [Sources -> ManifestEntries \cup {Null}]
    /\ imp \in Imports \cup {Null}
    /\ raw \in [Paths -> RawFiles \cup {Null}]
    /\ snap \in Snapshots \cup {Null}
    /\ {settled, archived} \subseteq BOOLEAN /\ lost \subseteq Sources
    /\ left \in [changes : Nat, commands : Nat]

(* The stream that an import makes of a transcript, whatever has been written to it by then,  *)
(* is faithful to it: opened and closed once, in order, each response counted once, each     *)
(* answered turn stopped before the next. NothingStale ties the stored outputs to it.        *)
StreamsFaithful ==
    \A s \in Sources :
        Faithful(Timeline(transcript[s]), transcript[s].main, transcript[s].sub)

(* What the next import will pass over as unchanged is what the transcript says, whatever was *)
(* written between a stat and a read or by an import that died; and a snapshot over which     *)
(* nothing was written holds every transcript as it is.                                       *)
NothingStale ==
    \A s \in Sources :
        /\ manifest[s] # Null /\ manifest[s].stamp = StampOf(s, WithSidecar) /\ s \notin lost /\ imp = Null
           => /\ corpus[SessionOf[s]] # NoOutput
              /\ corpus[SessionOf[s]].events = Timeline(transcript[s])
        /\ archived => \A file \in {"main", "sub"} : transcript[s][file] # <<>> =>
               raw[<<s, file>>] # Null /\ raw[<<s, file>>].lines = transcript[s][file]

Reference(s) ==
    LET lines   == Parsed(transcript[s].main)
        all     == lines \o Parsed(transcript[s].sub)
        chain   == SelectSeq(lines, LAMBDA l : l.chain = 0)
    IN  [events    |-> Len(Timeline(transcript[s])),
         turns     |-> Len(SelectSeq(chain, LAMBDA l : l.kind = "prompt")),
         calls     |-> Len(SelectSeq(all, LAMBDA l : l.kind = "result")),
         failures  |-> Len(SelectSeq(all, LAMBDA l : l.kind = "result" /\ l.failed)),
         subagents |-> Cardinality({lines[i].chain : i \in DOMAIN lines} \ {0})
                       + IF Parsed(transcript[s].sub) = <<>> THEN 0 ELSE 1,
         tokens    |-> SumSet({0} \cup {l.tokens : l \in Responses(all)})]

(* A response costs its tokens at the price of its model, once, or nothing that is known. *)
PricedResponses(s) ==
    {[source |-> s, key |-> l.key, cost |-> l.tokens * PriceFor[ModelOf[l.key]]] :
        l \in {m \in Responses(Parsed(transcript[s].main) \o Parsed(transcript[s].sub)) :
                 PriceFor[ModelOf[m.key]] # Null}}

Reported(s, minTurns) ==
    /\ s \notin lost /\ Parsed(transcript[s].main) # <<>>
    /\ ~Excluded(CwdIn(s, transcript[s]), rules)
    /\ Reference(s).turns >= minTurns

(* After an import over which nothing changed, a backtest under the same rules reports for   *)
(* each session, each project and all together what the transcripts say, whatever came       *)
(* before: earlier imports that died, other rules, filters, touched files.  A cost is that of *)
(* the priced responses, and none if there is none.  No label stands for two projects, and    *)
(* the sessions that produced most come first.                                                *)
ReportMatches ==
    settled /\ snap = Null => \A minTurns \in MinTurns :
        LET report   == Telemetry(rules, minTurns)
            accounts == {[session |-> SessionOf[s], project |-> CwdIn(s, transcript[s]),
                          says |-> Reference(s), priced |-> PricedResponses(s)] : s \in {t \in Sources : Reported(t, minTurns)}}
            In(c)    == {a \in accounts : a.project = c}
            Sum(some, field) == MapThenSumSet(LAMBDA a : a.says[field], some)
            Cost(some) == LET priced == UNION {a.priced : a \in some}
                          IN  IF priced = {} THEN Null ELSE MapThenSumSet(LAMBDA x : x.cost, priced)
        IN  /\ \A field \in DOMAIN NoTotals :
                 /\ \A a \in accounts : report.sessions[a.session][field] = a.says[field]
                 /\ \A c \in Projects \ {Unknown} : report.projects[c][field] = Sum(In(c), field)
                 /\ report.totals[field] = Sum(accounts, field)
            /\ \A c \in Projects \ {Unknown} : report.cost[c] = Cost(In(c))
            /\ report.costs = Cost(accounts)
            /\ IsInjective(report.names)
            /\ ToSet(report.top) = {a.session : a \in accounts}
            /\ \A i, j \in DOMAIN report.top : i < j =>
                 report.sessions[report.top[i]].tokens >= report.sessions[report.top[j]].tokens
=============================================================================
