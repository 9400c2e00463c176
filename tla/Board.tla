---------------------------------- MODULE Board ----------------------------------
(***************************************************************************)
(* One session of the cc-idle mod (packages/mod/src/register.tsx): the     *)
(* hooks Claude Code calls, the pane's screens, the banner that says who   *)
(* is waiting for whom, and the board member, a small model that answers   *)
(* the player and now and then speaks unasked (board.ts).                  *)
(*                                                                         *)
(* Every await in a handler is a point where the other handlers run, so a  *)
(* handler is one action per stretch between two awaits that matter: the   *)
(* board's call and its continuation, the clock and the panes that speakUp *)
(* asks for, the banner that a finished tool call reads and then clears.   *)
(* The economy is GameSync and GameEconomy; here it is the concepts the    *)
(* player has met and whether a moment deserves a reaction.                *)
(***************************************************************************)
EXTENDS Naturals, Sequences, FiniteSets, SequencesExt, FiniteSetsExt

CONSTANTS
    None,
    Concepts,       \* the mechanics the board explains, numbered in their order
    Tools,          \* tool calls of one turn, main loop and subagents
    Cooldown,       \* REACT_COOLDOWN_MS, in ticks of the clock
    BoardLines,     \* BOARD_LINES, the lines the chat keeps
    MaxClock,       \* bound: ticks
    MaxInputs,      \* bound: what Claude Code and the player do
    MaxSpeaking     \* bound: speakUps waiting for an answer at once

ASSUME ConceptsAreNumbers == Concepts \subseteq Nat \ {0}
ASSUME CooldownIsPositive == Cooldown \in Nat \ {0}
ASSUME BoardAssumption == None \notin Nat /\ {BoardLines, MaxClock} \subseteq Nat

VARIABLES
    clock,          \* what $.clock.now() would answer
    screen,         \* the atom view: "help", "main", "tree", "chat", "confirm-ship"
    onboarded,      \* the welcome was dismissed
    needsYou,       \* the banner: "", "done", "permission", "question"
    tools,          \* the tool calls in progress
    met,            \* the concepts whose isMet holds in the shared economy
    explained,      \* the concepts the board has explained, in memory
    calls,          \* every call of askBoard, in the order made, and who cut it
    boardStop,      \* the call that would be cut now
    boardLines,     \* the chat
    lastReactMs,    \* when the board last spoke unasked
    speaking,       \* the speakUps between their awaits
    inputs,         \* bound's counter
    interrupted,    \* history: a tool call threw since the banner was last set
    remarks         \* history: the board's unasked calls, the clock as speakUp read it
                    \* and as it stood when the call was made

boardVars == <<calls, boardStop, boardLines, lastReactMs, explained, remarks>>
vars == <<clock, screen, onboarded, needsYou, tools, met, explained, calls, boardStop,
          boardLines, lastReactMs, speaking, inputs, interrupted, remarks>>

Screens == {"help", "main", "tree", "chat", "confirm-ship"}
Reasons == {"", "done", "permission", "question"}

Idle == [at |-> "idle", isMain |-> TRUE]

Input == inputs < MaxInputs /\ inputs' = inputs + 1

-----------------------------------------------------------------------------
(* The board's calls. *)

\* appendLine keeps the newest lines.
Append8(lines, line) ==
    LET all == Append(lines, line)
    IN  SubSeq(all, Max({1, Len(all) - BoardLines + 1}), Len(all))

\* calls with call c cut by someone, if c is a call.
Cut(c, who) ==
    IF c = None THEN calls ELSE [calls EXCEPT ![c].cut = who]

\* askBoard up to its request: the call in flight is cut, this one takes its place.
Ask(who, concept) ==
    /\ calls' = Append(Cut(boardStop, who),
                       [concept |-> concept, at |-> "asked", answer |-> "none", cut |-> "no"])
    /\ boardStop' = Len(calls) + 1

\* What a request comes to: the board's line, if cleanReply leaves one, or none.
Answers == {"board", "system", "cut"}

\* The request settles. A reply with a usable line, or anything that leaves
\* "The board is unavailable right now." (a blank reply, a timeout, a refusal); a
\* call that was cut settles as cut, or with the reply already on its way.
Settles(c, answer) ==
    /\ calls[c].at = "asked"
    /\ answer = "cut" <=> calls[c].cut # "no" /\ answer # "board"
    /\ calls' = [calls EXCEPT ![c].at = "settled", ![c].answer = answer]
    /\ UNCHANGED <<clock, screen, onboarded, needsYou, tools, met, explained, boardStop,
                   boardLines, lastReactMs, speaking, inputs, interrupted, remarks>>

\* Mutant: the floor is given up without asking whose it is.
FloorAfterAlways(c) == None

\* A finished call gives up the floor only if it still has it.
FloorAfter(c) == IF boardStop = c THEN None ELSE boardStop

\* A call that is over: who cut it is all that is kept.
Done(c) == [calls EXCEPT ![c].at = "done", ![c].answer = "none", ![c].concept = None]

\* askBoard after the request: the floor, then the line unless the call was cut.
Answered(c) ==
    /\ calls[c].at = "settled"
    /\ boardStop' = FloorAfter(c)
    /\ boardLines' = IF calls[c].cut = "no" /\ calls[c].answer # "cut"
                     THEN Append8(boardLines, [who |-> calls[c].answer, call |-> c])
                     ELSE boardLines
    /\ calls' = IF calls[c].concept # None /\ calls[c].answer = "board"
                THEN [calls EXCEPT ![c].at = "explaining"]
                ELSE Done(c)
    /\ UNCHANGED <<clock, screen, onboarded, needsYou, tools, met, explained,
                   lastReactMs, speaking, inputs, interrupted, remarks>>

\* speakUp after an answered explanation: remembered here and in the store.
Explains(c) ==
    /\ calls[c].at = "explaining"
    /\ explained' = explained \cup {calls[c].concept}
    /\ calls' = Done(c)
    /\ UNCHANGED <<clock, screen, onboarded, needsYou, tools, met, boardStop, boardLines,
                   lastReactMs, speaking, inputs, interrupted, remarks>>

-----------------------------------------------------------------------------
(* Speaking unasked. *)

\* The first concept met and not yet explained.
NextConcept(concepts) ==
    IF concepts \subseteq explained THEN None ELSE Min(concepts \ explained)

CanReact(now) == lastReactMs = None \/ now >= lastReactMs + Cooldown

\* record: the input changes the economy (the concepts met, perhaps a moment to
\* react to), and speakUp starts if nothing is in flight and there is something to say.
Record ==
    \E concepts \in SUBSET Concepts, moment \in BOOLEAN :
        /\ met' = concepts
        /\ LET concept == NextConcept(concepts)
               speaks  == boardStop = None /\ (concept # None \/ moment)
           IN  IF speaks
               THEN /\ Len(speaking) < MaxSpeaking
                    /\ speaking' = Append(speaking, [at |-> "clock", concept |-> concept,
                                                     now |-> 0])
               ELSE speaking' = speaking

NoRecord == UNCHANGED <<met, speaking>>

\* speakUp once the clock has answered.
SpeakClock(i) ==
    /\ speaking[i].at = "clock"
    /\ speaking' = IF CanReact(clock)
                   THEN [speaking EXCEPT ![i].at = "panes", ![i].now = clock]
                   ELSE RemoveAt(speaking, i)
    /\ UNCHANGED <<clock, screen, onboarded, needsYou, tools, met, explained, calls,
                   boardStop, boardLines, lastReactMs, inputs, interrupted, remarks>>

\* Mutant: what was checked before the awaits is not checked again.
StillQuietUnchecked(now) == TRUE

\* What speakUp checks again after its awaits.
StillQuiet(now) == boardStop = None /\ CanReact(now)

\* speakUp once the panes have answered: with the pane in view it takes the floor.
SpeakPanes(i) ==
    /\ speaking[i].at = "panes"
    /\ speaking' = RemoveAt(speaking, i)
    /\ \E inView \in BOOLEAN :
         IF inView /\ StillQuiet(speaking[i].now)
         THEN /\ lastReactMs' = speaking[i].now
              /\ remarks' = Append(remarks, [read |-> speaking[i].now, made |-> clock])
              /\ Ask("board", speaking[i].concept)
         ELSE UNCHANGED <<lastReactMs, remarks, calls, boardStop>>
    /\ UNCHANGED <<clock, screen, onboarded, needsYou, tools, met, explained, boardLines,
                   inputs, interrupted>>

-----------------------------------------------------------------------------
(* Claude Code's events. *)

\* turn.start: nobody waits for the person any more; the prompt is recorded.
TurnStart ==
    /\ Input
    /\ needsYou' = ""
    /\ interrupted' = FALSE
    /\ Record
    /\ UNCHANGED <<clock, screen, onboarded, tools, boardVars>>

\* turn.step with usage, a subagent's turn.complete, session.end: recorded only.
Telemetry ==
    /\ Input
    /\ Record
    /\ UNCHANGED <<clock, screen, onboarded, needsYou, tools, interrupted, boardVars>>

\* turn.complete of the main loop: recorded, whatever the reason, then "done".
TurnComplete ==
    /\ Input
    /\ Record
    /\ needsYou' = "done"
    /\ interrupted' = FALSE
    /\ UNCHANGED <<clock, screen, onboarded, tools, boardVars>>

\* tool.call up to next(e): the main loop's question raises its banner.
ToolCall(t, isMain, isQuestion) ==
    /\ Input
    /\ tools[t].at = "idle"
    /\ tools' = [tools EXCEPT ![t] = [at |-> "running", isMain |-> isMain]]
    /\ needsYou' = IF isMain /\ isQuestion THEN "question" ELSE needsYou
    /\ NoRecord
    /\ UNCHANGED <<clock, screen, onboarded, interrupted, boardVars>>

\* tool.check, inside next(e): a prompt waits on the person whichever loop asked.
ToolCheckAsks(t) ==
    /\ tools[t].at = "running"
    /\ tools' = [tools EXCEPT ![t].at = "prompted"]
    /\ needsYou' = "permission"
    /\ NoRecord
    /\ UNCHANGED <<clock, screen, onboarded, inputs, interrupted, boardVars>>

\* next(e) returned: recorded, unless the call was denied.
ToolReturns(t) ==
    /\ tools[t].at \in {"running", "prompted"}
    /\ tools' = [tools EXCEPT ![t].at = "returned"]
    /\ Record \/ NoRecord
    /\ UNCHANGED <<clock, screen, onboarded, needsYou, inputs, interrupted, boardVars>>

\* next(e) threw: the handler goes with it and leaves the banner as it is.
ToolThrows(t) ==
    /\ tools[t].at \in {"running", "prompted"}
    /\ tools' = [tools EXCEPT ![t] = Idle]
    /\ interrupted' = TRUE
    /\ NoRecord
    /\ UNCHANGED <<clock, screen, onboarded, needsYou, inputs, boardVars>>

\* Mutant: a subagent's call leaves every banner to the main loop.
TakesDownMainOnly(isMain, waiting) == isMain /\ waiting \in {"permission", "question"}

\* Which banner a finished call takes down.
TakesDown(isMain, waiting) ==
    waiting = "permission" \/ (isMain /\ waiting = "question")

\* The finished call reads the banner ...
ToolReadsBanner(t) ==
    /\ tools[t].at = "returned"
    /\ tools' = IF TakesDown(tools[t].isMain, needsYou)
                THEN [tools EXCEPT ![t].at = "clearing", ![t].isMain = TRUE]
                ELSE [tools EXCEPT ![t] = Idle]
    /\ NoRecord
    /\ UNCHANGED <<clock, screen, onboarded, needsYou, inputs, interrupted, boardVars>>

\* ... and, an await later, takes it down, whatever it says by then.
ToolClearsBanner(t) ==
    /\ tools[t].at = "clearing"
    /\ tools' = [tools EXCEPT ![t] = Idle]
    /\ needsYou' = ""
    /\ NoRecord
    /\ UNCHANGED <<clock, screen, onboarded, inputs, interrupted, boardVars>>

-----------------------------------------------------------------------------
(* The pane's buttons and its text field. *)

\* A button that only changes the screen.
Shows(from, to) ==
    /\ Input
    /\ screen = from
    /\ screen' = to
    /\ NoRecord
    /\ UNCHANGED <<clock, onboarded, needsYou, tools, interrupted, boardVars>>

\* The welcome's button also remembers that it was read.
HelpDone ==
    /\ Input
    /\ screen = "help"
    /\ screen' = "main"
    /\ onboarded' = TRUE
    /\ NoRecord
    /\ UNCHANGED <<clock, needsYou, tools, interrupted, boardVars>>

\* Buy, hire, experiment, acknowledge, an attempt to ship, a breakthrough, and
\* "yes, ship it", which goes back to the main screen.
Act ==
    /\ Input
    /\ screen \in {"main", "tree", "confirm-ship"}
    /\ screen' = IF screen = "confirm-ship" THEN "main" ELSE screen
    /\ Record
    /\ UNCHANGED <<clock, onboarded, needsYou, tools, interrupted, boardVars>>

\* A line to the board.
Submit ==
    /\ Input
    /\ screen = "chat"
    /\ boardLines' = Append8(boardLines, [who |-> "you", call |-> Len(calls) + 1])
    /\ Ask("player", None)
    /\ NoRecord
    /\ UNCHANGED <<clock, screen, onboarded, needsYou, tools, explained, lastReactMs,
                   interrupted, remarks>>

\* The back button or an empty line: the call in flight is cut.
LeaveBoard ==
    /\ Input
    /\ screen = "chat"
    /\ screen' = "main"
    /\ calls' = Cut(boardStop, "left")
    /\ boardStop' = None
    /\ NoRecord
    /\ UNCHANGED <<clock, onboarded, needsYou, tools, explained, boardLines, lastReactMs,
                   interrupted, remarks>>

-----------------------------------------------------------------------------
Tick ==
    /\ clock < MaxClock
    /\ clock' = clock + 1
    /\ UNCHANGED <<screen, onboarded, needsYou, tools, met, speaking, inputs, interrupted,
                   boardVars>>

\* After session.start: the store says whether the welcome was read and what the
\* board has explained in earlier sessions.
Init ==
    /\ clock = 0
    /\ onboarded \in BOOLEAN
    /\ screen = IF onboarded THEN "main" ELSE "help"
    /\ needsYou = ""
    /\ tools = [t \in Tools |-> Idle]
    /\ met = {}
    /\ explained \in SUBSET Concepts
    /\ calls = << >>
    /\ boardStop = None
    /\ boardLines = << >>
    /\ lastReactMs = None
    /\ speaking = << >>
    /\ inputs = 0
    /\ interrupted = FALSE
    /\ remarks = << >>

ToolStep(t) ==
    \/ \E isMain, isQuestion \in BOOLEAN : ToolCall(t, isMain, isQuestion)
    \/ ToolCheckAsks(t)
    \/ ToolReturns(t)
    \/ ToolThrows(t)
    \/ ToolReadsBanner(t)
    \/ ToolClearsBanner(t)

Buttons ==
    \/ \E to \in {"tree", "chat", "help", "confirm-ship"} : Shows("main", to)
    \/ \E from \in {"tree", "confirm-ship"} : Shows(from, "main")
    \/ HelpDone
    \/ Act
    \/ Submit
    \/ LeaveBoard

BoardStep ==
    \/ \E c \in DOMAIN calls :
         \/ \E answer \in Answers : Settles(c, answer)
         \/ Answered(c)
         \/ Explains(c)
    \/ \E i \in DOMAIN speaking : SpeakClock(i) \/ SpeakPanes(i)

Next ==
    \/ TurnStart
    \/ Telemetry
    \/ TurnComplete
    \/ \E t \in Tools : ToolStep(t)
    \/ Buttons
    \/ BoardStep
    \/ Tick

Spec == Init /\ [][Next]_vars

-----------------------------------------------------------------------------
(* Types, and what makes the promises below hold. *)

CallRecords == [concept : Concepts \cup {None},
                at : {"asked", "settled", "explaining", "done"},
                answer : Answers \cup {"none"}, cut : {"no", "player", "board", "left"}]
Calls == {c \in CallRecords : /\ c.at = "settled" => c.answer # "none"
                              /\ c.at = "explaining" => c.concept # None}
ToolStates == [at : {"idle", "running", "prompted", "returned", "clearing"},
               isMain : BOOLEAN]

TypeOK ==
    /\ clock \in 0..MaxClock
    /\ screen \in Screens
    /\ onboarded \in BOOLEAN
    /\ needsYou \in Reasons
    /\ tools \in [Tools -> ToolStates]
    /\ met \subseteq Concepts
    /\ explained \subseteq Concepts
    /\ calls \in Seq(Calls)
    /\ boardStop \in DOMAIN calls \cup {None}
    /\ boardLines \in Seq([who : Answers \cup {"you"}, call : DOMAIN calls])
    /\ lastReactMs \in Nat \cup {None}
    /\ speaking \in Seq([at : {"clock", "panes"}, concept : Concepts \cup {None}, now : Nat])
    /\ inputs \in Nat
    /\ interrupted \in BOOLEAN
    /\ remarks \in Seq([read : Nat, made : Nat])

\* Only the newest call can have the floor.
FloorIsNewest == boardStop # None => boardStop = Len(calls)

\* The cooldown is counted from the latest reading an unasked call was decided by, which is
\* of a moment that has been; so is the reading a speakUp carries.
ReactionsAreSpaced ==
    /\ lastReactMs = None => remarks = << >>
    /\ lastReactMs # None => lastReactMs <= clock
    /\ \A i \in DOMAIN remarks :
         remarks[i].read <= lastReactMs /\ remarks[i].read <= remarks[i].made
    /\ \A i \in DOMAIN speaking : speaking[i].now <= clock

\* A banner that no throw has orphaned has a call in progress that will take it down.
BannerHasCause ==
    ~interrupted =>
        /\ needsYou = "permission" =>
             \E t \in Tools : tools[t].at \in {"prompted", "returned", "clearing"}
        /\ needsYou = "question" =>
             \E t \in Tools : \/ tools[t].at \in {"running", "prompted", "returned"} /\ tools[t].isMain
                            \/ tools[t].at = "clearing"

-----------------------------------------------------------------------------
(* What the mod promises. *)

\* "A newer call or leaving the chat cuts the older one" (askBoard): the only call
\* that can still speak is the one that has the floor, and the chat never shows
\* an answer to an older line below a newer one.
AnswersInOrder ==
    /\ \A c \in DOMAIN calls :
         calls[c].at \in {"asked", "settled"} /\ calls[c].cut = "no" => boardStop = c
    /\ \A i, j \in DOMAIN boardLines :
         i < j => boardLines[i].call <= boardLines[j].call

\* "Only with ... nothing in flight, once a minute" (speakUp): however many inputs arrive
\* while it awaits, the board's unasked calls are decided a cooldown apart, by the clock
\* as speakUp read it, and none of them cuts another call.  The calls themselves follow
\* each other more closely, by as much as the earlier one waited for its panes.
UnaskedWaitsItsTurn ==
    /\ \A i, j \in DOMAIN remarks : i < j =>
         /\ remarks[j].read >= remarks[i].read + Cooldown
         /\ remarks[j].made + (remarks[i].made - remarks[i].read) >= remarks[i].made + Cooldown
    /\ \A c \in DOMAIN calls : calls[c].cut # "board"

\* Once no tool call is in progress, and unless one of them threw, the banner no
\* longer says that a prompt or a question waits (tool.call's last lines), however
\* the calls of the main loop and of subagents overlapped.
BannerEnds ==
    (\A t \in Tools : tools[t].at = "idle") /\ ~interrupted
        => needsYou \notin {"permission", "question"}

\* The inductive invariant of ModProofs, with TypeOK.
BoardInv ==
    /\ FloorIsNewest
    /\ ReactionsAreSpaced
    /\ BannerHasCause
    /\ AnswersInOrder
    /\ UnaskedWaitsItsTurn
================================================================================
