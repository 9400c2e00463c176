----------------------------- MODULE RegionLife -----------------------------
(***************************************************************************)
(* The daemon and the game about the same sessions: the event handler and  *)
(* the stale timer (daemon.ts) run the session state machine and feed the  *)
(* game with the same events, with the changes of state, and with the      *)
(* output tokens they find in the transcripts.  Each handler runs to its   *)
(* end before the next; what interleaves is the sessions, the transcripts  *)
(* they write, the timer, the player and the daemon's restarts.            *)
(***************************************************************************)
EXTENDS Regions, SessionState, FiniteSetsExt

CONSTANT MaxTokens  \* bound: units of output tokens

ASSUME RegionLifeAssumption ==
  /\ MaxTokens \in Nat
  /\ IsFiniteSet(RegionIds)  \* the directories of the sessions there have been

VARIABLES
  sessions,  \* the daemon's sessions map: the state, or "none" before the first event
  game,
  unread,    \* output tokens in a session's transcript that no poll has read
  \* History
  folded,    \* the state the session's events alone amount to
  inTurn,    \* sessions between a prompt and the end of its turn
  spent,     \* output tokens written in all
  moved,     \* regions a session has left by changing directory, not refreshed since
  woken      \* sessions whose activity woke them for the game, not for the state machine

historyVars == <<folded, inTurn, spent, moved, woken>>
lifeVars == <<sessions, game, unread, historyVars>>

\* A Stop, a Notification and a SessionStart are one event to the state machine,
\* and so is every event it does not name.
StateEvent(e) == CASE e = "Stop" -> "Asks" [] e = "TokenUsage" -> "Activity" [] OTHER -> e
NextState(state, e) == ReduceState(IF state = "none" THEN InitialState ELSE state, StateEvent(e))

RegionInit ==
  /\ sessions = [s \in Sessions |-> "none"]
  /\ game = InitialGame
  /\ unread = [s \in Sessions |-> 0]
  /\ folded = [s \in Sessions |-> "none"]
  /\ inTurn = {}
  /\ spent = 0
  /\ moved = {}
  /\ woken = {}

-----------------------------------------------------------------------------
(* The handlers, as functions of a session's state and the game            *)

\* transition(): the game hears of a change of state.
Transition(g, s, from, to) == IF from = to THEN g ELSE ApplySessionState(g, s, to)

\* The 'event' handler, up to a Stop's poll.
HandleEvent(d, s, e, cwd, tokens) ==
  LET from == IF d.state = "none" THEN InitialState ELSE d.state
      to == NextState(d.state, e)
  IN [state |-> to,
      game |-> Transition(ApplyTelemetry(d.game, s, cwd, e, tokens), s, from, to)]

\* transcripts.poll() and the poke: the usage found comes back as an event, which
\* carries no cwd.
Poll(d, s) == IF unread[s] = 0 THEN d ELSE HandleEvent(d, s, "TokenUsage", None, unread[s])

Now(s) == [state |-> sessions[s], game |-> game]

Becomes(s, d) ==
  /\ sessions' = [sessions EXCEPT ![s] = d.state]
  /\ game' = d.game

Fold(s, e) == folded' = [folded EXCEPT ![s] = NextState(@, e)]

\* The event refreshes its region. If that is another than the session's, the session
\* leaves the old one, which nothing refreshes.
Moves(s, cwd) ==
  LET region == RegionOf(game, s, cwd)
  IN  moved' = (moved \ {region}) \cup ({game.sessionRegions[s]} \ {region, None})

\* Of the sessions awake, those awake after session s had event e in a state: "activity
\* wakes a dark session" for the game, and one it does not know; the state machine passes
\* over the activity of a session it has not seen or holds dead.
Woken(awake, s, state, e) ==
  IF e \in {"Activity", "TokenUsage"}
    THEN IF state \in {"none", "DEAD"} THEN awake \cup {s} ELSE awake
    ELSE awake \ {s}

-----------------------------------------------------------------------------

\* A hook's event, other than a Stop.
HookEvent(s, e, cwd) ==
  /\ Becomes(s, HandleEvent(Now(s), s, e, cwd, 0))
  /\ Fold(s, e)
  /\ Moves(s, cwd)
  /\ woken' = Woken(woken, s, sessions[s], e)
  /\ inTurn' = CASE e = "UserPromptSubmit" -> inTurn \cup {s}
                 [] e = "SessionEnd" -> inTurn \ {s}
                 [] OTHER -> inTurn
  /\ UNCHANGED <<unread, spent>>

\* A Stop: once it is handled, the handler polls the transcript.
StopEvent(s, cwd) ==
  /\ Becomes(s, Poll(HandleEvent(Now(s), s, "Stop", cwd, 0), s))
  /\ unread' = [unread EXCEPT ![s] = 0]
  /\ Fold(s, "Stop")
  /\ Moves(s, cwd)
  /\ woken' = Woken(woken, s, sessions[s], "Stop")
  /\ inTurn' = inTurn \ {s}
  /\ UNCHANGED spent

\* staleTimer: the session may have been silent for too long, and it is polled
\* (every tokenPollMs) if it was working when the timer took its snapshot.
StaleTimer(s) ==
  \E to \in StaleStates(sessions[s]) \cup {sessions[s]}, polls \in BOOLEAN :
    LET silent == [state |-> to, game |-> Transition(game, s, sessions[s], to)]
        asleep == IF to = sessions[s] THEN woken ELSE woken \ {s}
        found  == polls /\ unread[s] > 0
    IN
    /\ sessions[s] # "none"
    /\ polls => sessions[s] = "CC_WORKING"
    /\ Becomes(s, IF polls THEN Poll(silent, s) ELSE silent)
    /\ unread' = IF polls THEN [unread EXCEPT ![s] = 0] ELSE unread
    /\ folded' = IF found THEN [folded EXCEPT ![s] = NextState(@, "TokenUsage")] ELSE folded
    /\ moved' = IF found \/ to # sessions[s] THEN moved \ {game.sessionRegions[s]} ELSE moved
    /\ woken' = IF found THEN Woken(asleep, s, to, "TokenUsage") ELSE asleep
    /\ UNCHANGED <<inTurn, spent>>

\* Claude Code writes output tokens to the session's transcript.
WriteUsage(s) ==
  /\ s \in inTurn
  /\ spent < MaxTokens
  /\ unread' = [unread EXCEPT ![s] = @ + 1]
  /\ spent' = spent + 1
  /\ UNCHANGED <<sessions, game, folded, inTurn, moved, woken>>

\* The player ships a generation.
Ship ==
  /\ game' = ShipRegions(game)
  /\ UNCHANGED <<sessions, unread, historyVars>>

\* Mutant: the end of the replay leaves the game with the states it was saved with.
HandOverNothing(g, states) == g

\* The end of the replay hands each session's state to the game, one after another:
\* in the end every region of a session is refreshed with all of them told.
HandOver(g, states) ==
  LET told == [g EXCEPT !.sessionStatus =
                 [s \in Sessions |-> IF states[s] = "none" THEN @[s] ELSE StatusOfState(states[s])]]
  IN [told EXCEPT !.status =
        [r \in RegionIds |-> IF \E s \in SessionsIn(told, r) : states[s] # "none"
                             THEN DerivedStatus(told, r) ELSE @[r]]]

\* The daemon is stopped and started: the save kept the game, and the event files
\* give back the states they fold to.
Restart ==
  /\ sessions' = folded
  /\ game' = HandOver(game, folded)
  /\ moved' = {r \in moved : \A s \in SessionsIn(game, r) : folded[s] = "none"}
  /\ woken' = {}
  /\ UNCHANGED <<unread, folded, inTurn, spent>>

RegionNext ==
  \/ \E s \in Sessions :
       \/ \E cwd \in (RegionIds \ {Unassigned}) \cup {None} :
            \/ \E e \in {"UserPromptSubmit", "Asks", "SessionEnd", "Activity"} :
                 HookEvent(s, e, cwd)
            \/ StopEvent(s, cwd)
       \/ StaleTimer(s) \/ WriteUsage(s)
  \/ Ship
  \/ Restart

RegionSpec == RegionInit /\ [][RegionNext]_lifeVars

-----------------------------------------------------------------------------
(* Properties                                                              *)

RegionTypeOK ==
  /\ sessions \in [Sessions -> SessionStates \cup {"none"}]
  /\ game \in Games
  /\ unread \in [Sessions -> Nat]
  /\ folded \in [Sessions -> SessionStates \cup {"none"}]
  /\ inTurn \subseteq Sessions /\ spent \in 0..MaxTokens
  /\ moved \subseteq RegionIds
  /\ woken \subseteq Sessions

\* What a session is, by the daemon's state machine: working, idle, or dark when stale or
\* dead, and working once an activity the machine passes over has woken it.
Shown(state, awake) == IF awake THEN "working" ELSE StatusOfState(state)

(***************************************************************************)
(* "'hot' = a session is working; 'dark' = sessions stale/dead; else idle" *)
(* (state.ts): a region's cached status is what the daemon's state machine *)
(* says of the sessions in it, whichever handler changed the last of them, *)
(* and through restarts. A region that a session has left for another      *)
(* directory keeps its status until something refreshes it; but even so    *)
(* none is dark, its multipliers suspended, while a session in it lives.   *)
(* A session that has ended is in no region (applyTelemetry forgets it     *)
(* before the refresh): the region it was alone in turns idle, not dark.   *)
(***************************************************************************)
StatusTracksSessions ==
  \A r \in RegionIds : game.status[r] # "none" =>
    LET here == {Shown(sessions[s], s \in woken) : s \in SessionsIn(game, r)} IN
    /\ r \notin moved => /\ game.status[r] = "hot" <=> "working" \in here
                        /\ game.status[r] = "dark" <=> here = {"dark"}
    /\ game.status[r] = "dark" => here \subseteq {"dark"}

(***************************************************************************)
(* The game's mirror of the daemon's state machine never puts a session    *)
(* to sleep that works: its region is hot, through silence, restarts and   *)
(* changes of directory.                                                   *)
(***************************************************************************)
HotWhileWorking ==
  \A s \in Sessions :
    sessions[s] = "CC_WORKING" =>
      game.sessionRegions[s] # None /\ game.status[game.sessionRegions[s]] = "hot"

(***************************************************************************)
(* No unit of output tokens is paid a completion bonus twice, whatever     *)
(* sessions share a region and in whatever order their turns end.          *)
(***************************************************************************)
BonusAtMostOnce ==
  game.completionBonus + MapThenSumSet(LAMBDA r : game.turnAccrual[r], RegionIds)
    <= game.computeFromTokens

-----------------------------------------------------------------------------
(* The inductive invariant behind the first two, about a game and states   *)

\* No region outside left has a status its sessions do not explain.
Explained(g, left) ==
  \A r \in RegionIds \ left : g.status[r] # "none" => g.status[r] = DerivedStatus(g, r)

\* What the daemon holds working, works for the game too, in a region that is hot.
WorksIn(g, s) ==
  /\ g.sessionRegions[s] # None
  /\ g.sessionStatus[s] = "working"
  /\ g.status[g.sessionRegions[s]] = "hot"
Agrees(states, g) == \A s \in Sessions : states[s] = "CC_WORKING" => WorksIn(g, s)

\* A dark region has no session that the game holds idle or working.
DarkIsDark(g) ==
  \A r \in RegionIds, s \in Sessions :
    g.status[r] = "dark" /\ g.sessionRegions[s] = r => g.sessionStatus[s] \in {"dark", "none"}

\* The game's copy of what session s is; without a region it is new, or has ended.
MirrorsOne(state, awake, g, s) ==
  IF g.sessionRegions[s] = None
    THEN state \in {"none", "DEAD"} /\ g.sessionStatus[s] \in {"none", "dark"}
    ELSE state # "none" /\ g.sessionStatus[s] = Shown(state, awake)
Mirrors(states, awake, g) == \A s \in Sessions : MirrorsOne(states[s], s \in awake, g, s)

\* A restart finds the region of every session that lives, and has heard of every session
\* that has one.
ResumesOne(state, g, s) ==
  IF g.sessionRegions[s] = None THEN state \in {"none", "DEAD"} ELSE state # "none"
Resumable(states, g) == \A s \in Sessions : ResumesOne(states[s], g, s)

LifeInv ==
  /\ Explained(game, moved)
  /\ DarkIsDark(game)
  /\ Agrees(sessions, game)
  /\ Mirrors(sessions, woken, game)
  /\ Resumable(folded, game)
=============================================================================
