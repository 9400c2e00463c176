---------------------------- MODULE FocusEngine ----------------------------
(***************************************************************************)
(* Who gets the user's cursor.  The daemon tracks the state of every       *)
(* Claude Code session and hands each change to FocusEngine.onTransition,  *)
(* which keeps the needs-you queue, raises and clears the banner of the    *)
(* TUI, and moves the cursor between the session panes and the game pane.  *)
(*                                                                         *)
(* Every call of onTransition, of the grace timer and of focusSession      *)
(* waits for tmux several times, and nothing orders the answers: the calls *)
(* interleave at every await, with the user's own moves, with one another   *)
(* and with the events of the sessions.  A call is a record with a program *)
(* counter; asking tmux is one step and resuming with its answer another.  *)
(* Time is abstract: a timer or a cooldown may end at any moment.          *)
(***************************************************************************)
EXTENDS Naturals, Sequences, FiniteSets, SessionState

CONSTANTS
  Sessions,    \* session ids; a session also names its own tmux pane
  GamePane,    \* the registered game pane
  Elsewhere,   \* any other pane of the user
  None,        \* no pane, no session
  FocusEnabled,\* config.focus.enabled
  MaxEvents,   \* bound: changes of session state
  MaxCalls,    \* bound: calls of the engine
  MaxUpsets    \* bound: acts of the user (moves, jumps, pauses) and tmux commands that fail

ASSUME FocusAssumption ==
  /\ IsFiniteSet(Sessions) /\ None \notin SessionStates
  /\ GamePane \notin Sessions /\ Elsewhere \notin Sessions /\ None \notin Sessions
  /\ GamePane # Elsewhere /\ None # GamePane /\ None # Elsewhere
  /\ FocusEnabled \in BOOLEAN
  /\ MaxEvents \in Nat /\ MaxCalls \in Nat /\ MaxUpsets \in Nat

VARIABLES
  state,         \* the daemon's sessions map: state[s], or None before its first event
  queue,         \* FocusEngine.queue
  grace,         \* FocusEngine.pendingGrace: sessions whose grace timer runs
  paused,        \* FocusEngine.paused
  lastSetTarget, \* FocusEngine.lastSetTarget
  cooldown,      \* inManualCooldown()
  dwelling,      \* ~dwellOk()
  calls,         \* the engine's calls, in the order they began
  cursor,        \* the pane the user is in
  banner,        \* activeAlertSessionId of the TUI's store
  \* History and bounds
  serviced,      \* waiting sessions no transition announced, or the user has jumped to
  overlapped,    \* sessions that changed state while an earlier change was unhandled
  overtaken,     \* sessions one of whose changes was handled before an earlier one
  asked,         \* asked[s]: when s last came to need its human
  events,
  upsets

engineVars == <<queue, grace, paused, lastSetTarget, cooldown, dwelling>>
historyVars == <<serviced, overlapped, overtaken, asked, events, upsets>>
vars == <<state, engineVars, calls, cursor, banner, historyVars>>

Panes == Sessions \cup {GamePane, Elsewhere}

Transitions == SessionStates   \* a call of onTransition, by the state it moves to
CallKinds == Transitions \cup {"grace", "focus"}

(***************************************************************************)
(* Where a call waits.                                                     *)
(*   detect    for the pane detectManualOverride asks for                  *)
(*   detected  to resume with it                                           *)
(*   current   for the pane tryImmediateReturn or executeGraceSwitch asks  *)
(*   sampled   for the session's and the game pane to be resolved          *)
(*   focus     for focusPane to run                                        *)
(*   focused   to record what it did                                       *)
(***************************************************************************)
Waits == {"detect", "detected", "current", "sampled", "focus", "focused", "done"}

\* sample is the pane tmux answered with; left, a history, whether the cursor
\* has changed panes since.
Calls == [kind : CallKinds, session : Sessions, at : Waits,
          sample : Panes \cup {None}, left : BOOLEAN]

Contains(q, s) == \E i \in 1..Len(q) : q[i] = s
Enqueued(q, s) == IF Contains(q, s) THEN q ELSE Append(q, s)
Dequeued(q, s) ==
  LET kept[n \in 0..Len(q)] ==
        IF n = 0 THEN <<>>
        ELSE IF q[n] = s THEN kept[n - 1] ELSE Append(kept[n - 1], q[n])
  IN kept[Len(q)]

\* No transition of s waits to be handled.
Settled(s) ==
  \A i \in 1..Len(calls) :
    calls[i].session = s /\ calls[i].kind \in Transitions => calls[i].at \notin {"detect", "detected"}

Orders(S) ==
  {q \in [1..Cardinality(S) -> S] : \A s \in S : \E i \in 1..Cardinality(S) : q[i] = s}

\* The replay of the event files has left sessions in any state, and seeded the
\* queue with those that wait for their human.
Init ==
  /\ state \in [Sessions -> SessionStates \cup {None}]
  /\ queue \in Orders({s \in Sessions : state[s] = "HUMAN_ACTIVE"})
  /\ grace = {}
  /\ paused = ~FocusEnabled
  /\ lastSetTarget = None
  /\ cooldown = FALSE
  /\ dwelling = FALSE
  /\ calls = <<>>
  /\ cursor \in Panes
  /\ banner = None
  /\ serviced = {}
  /\ overlapped = {}
  /\ overtaken = {}
  /\ asked = [s \in Sessions |-> 0]
  /\ events = 0
  /\ upsets = 0

-----------------------------------------------------------------------------
(* The daemon's handlers                                                   *)

Begin(kind, s, at) ==
  /\ Len(calls) < MaxCalls
  /\ calls' = Append(calls, [kind |-> kind, session |-> s, at |-> at,
                             sample |-> None, left |-> FALSE])

\* Mutant: the queue waits for onTransition to enqueue the session.
ChangeStateUnseeded(s, to) ==
  /\ UNCHANGED queue
  /\ Begin(to, s, "detect")
  /\ serviced' = serviced \ {s}
  /\ overlapped' = IF Settled(s) THEN overlapped ELSE overlapped \cup {s}
  /\ asked' = [asked EXCEPT ![s] = IF to = "HUMAN_ACTIVE" THEN events + 1 ELSE @]

\* The session goes from one state to another: seedHumanActive at once, so that
\* the queue has the order of the events, and transition() without awaiting it.
ChangeState(s, to) ==
  /\ queue' = IF to = "HUMAN_ACTIVE" THEN Enqueued(queue, s) ELSE queue
  /\ Begin(to, s, "detect")
  /\ serviced' = serviced \ {s}
  /\ overlapped' = IF Settled(s) THEN overlapped ELSE overlapped \cup {s}
  /\ asked' = [asked EXCEPT ![s] = IF to = "HUMAN_ACTIVE" THEN events + 1 ELSE @]

\* The 'event' handler.  A session's first event moves it out of InitialState.
SessionEvent(s, e) ==
  LET from == IF state[s] = None THEN InitialState ELSE state[s]
      to == ReduceState(from, e)
  IN
  /\ events < MaxEvents
  /\ state[s] # to
  /\ state' = [state EXCEPT ![s] = to]
  /\ events' = events + 1
  /\ IF to # from
       THEN ChangeState(s, to)
       ELSE /\ serviced' = serviced \cup {s}
            /\ UNCHANGED <<queue, calls, overlapped, asked>>
  /\ UNCHANGED <<grace, paused, lastSetTarget, cooldown, dwelling, cursor, banner,
                 overtaken, upsets>>

\* staleTimer: the session has been silent for too long.
GoStale(s) ==
  /\ events < MaxEvents
  /\ \E to \in StaleStates(state[s]) :
       /\ state' = [state EXCEPT ![s] = to]
       /\ ChangeState(s, to)
  /\ events' = events + 1
  /\ UNCHANGED <<grace, paused, lastSetTarget, cooldown, dwelling, cursor, banner,
                 overtaken, upsets>>

\* The user does something, or a tmux command fails.
Upset == upsets < MaxUpsets /\ upsets' = upsets + 1

\* IPC command pause-autofocus or resume-autofocus.
SetPaused(p) ==
  /\ Upset
  /\ paused # p
  /\ paused' = p
  /\ UNCHANGED <<state, queue, grace, lastSetTarget, cooldown, dwelling, calls, cursor,
                 banner, serviced, overlapped, overtaken, asked, events>>

\* IPC focus-session, a number key in the TUI: the call resolves the pane first.
FocusSession(s) ==
  /\ Upset
  /\ state[s] # None
  /\ Begin("focus", s, "sampled")
  /\ UNCHANGED <<state, engineVars, cursor, banner, serviced, overlapped, overtaken, asked, events>>

-----------------------------------------------------------------------------
(* The awaits of a call                                                    *)

Goto(i, at) == calls' = [calls EXCEPT ![i].at = at]
Return(i) == Goto(i, "done")

\* The wait for currentPaneTarget() that follows each question.
Answered == [at \in {"detect", "current"} |-> IF at = "detect" THEN "detected" ELSE "sampled"]

\* tmux answers currentPaneTarget(), with the pane or, having failed, with null.
Answer(i) ==
  /\ calls[i].at \in DOMAIN Answered
  /\ \E p \in {cursor, None} :
       /\ calls' = [calls EXCEPT ![i] =
                      [@ EXCEPT !.at = Answered[calls[i].at], !.sample = p, !.left = FALSE]]
       /\ IF p = None THEN Upset ELSE UNCHANGED upsets
  /\ UNCHANGED <<state, engineVars, cursor, banner, serviced, overlapped, overtaken, asked,
                 events>>

\* detectManualOverride, resumed: a pane the engine did not set is the user's choice.
DetectManualOverride(i) ==
  LET current == calls[i].sample IN
  IF current = None
    THEN UNCHANGED <<cooldown, lastSetTarget>>
    ELSE /\ cooldown' = (cooldown \/ (lastSetTarget # None /\ current # lastSetTarget))
         /\ lastSetTarget' = current

\* The store's 'clear': only the alert of that session goes.
ClearAlert(s) == banner' = IF banner = s THEN None ELSE banner

\* Mutant: the return to the session honours the dwell time like a grace switch.
NeedsYouDwells(i, s) ==
  /\ grace' = grace \ {s}
  /\ queue' = Enqueued(queue, s)
  /\ banner' = s
  /\ Goto(i, IF paused \/ ~FocusEnabled \/ dwelling THEN "done" ELSE "current")

\* onTransition(s, _, HUMAN_ACTIVE): alert, then tryImmediateReturn.
NeedsYou(i, s) ==
  /\ grace' = grace \ {s}
  /\ queue' = Enqueued(queue, s)
  /\ banner' = s
  /\ Goto(i, IF paused \/ ~FocusEnabled THEN "done" ELSE "current")

\* onTransition(s, _, CC_WORKING): the alert may clear, and the grace timer starts.
Working(i, s) ==
  /\ queue' = Dequeued(queue, s)
  /\ IF queue' = <<>> THEN ClearAlert(s) ELSE UNCHANGED banner
  /\ grace' = IF paused \/ ~FocusEnabled THEN grace ELSE grace \cup {s}
  /\ Return(i)

\* Mutant: a dead session keeps its place in the queue.
DeadStaysQueued(i, s) ==
  /\ grace' = grace \ {s}
  /\ UNCHANGED <<queue, banner>>
  /\ Return(i)

\* onTransition(s, _, DEAD)
Dead(i, s) ==
  /\ grace' = grace \ {s}
  /\ queue' = Dequeued(queue, s)
  /\ UNCHANGED banner
  /\ Return(i)

\* A transition of s began before call i and is still waiting for its first answer.
Overtakes(i) ==
  /\ calls[i].kind \in Transitions
  /\ \E j \in 1..(i - 1) : /\ calls[j].session = calls[i].session
                           /\ calls[j].kind \in Transitions
                           /\ calls[j].at \in {"detect", "detected"}

\* The call goes on with what detectManualOverride was told.
ResumeDetected(i) ==
  LET s == calls[i].session IN
  /\ calls[i].at = "detected"
  /\ DetectManualOverride(i)
  /\ \/ calls[i].kind = "HUMAN_ACTIVE" /\ NeedsYou(i, s)
     \/ calls[i].kind = "CC_WORKING" /\ Working(i, s)
     \/ calls[i].kind = "DEAD" /\ Dead(i, s)
     \/ calls[i].kind = "STALE" /\ Return(i) /\ UNCHANGED <<queue, grace, banner>>
     \/ /\ calls[i].kind = "grace"
        /\ Goto(i, IF cooldown' \/ dwelling THEN "done" ELSE "current")
        /\ UNCHANGED <<queue, grace, banner>>
  /\ overtaken' = IF Overtakes(i) THEN overtaken \cup {s} ELSE overtaken
  /\ UNCHANGED <<state, paused, dwelling, cursor, serviced, overlapped, asked, events, upsets>>

\* The pane a call moves the cursor from, and the one it moves it to.
Source(c) == IF c.kind = "grace" THEN c.session ELSE GamePane
Target(c) == IF c.kind = "grace" THEN GamePane ELSE c.session

\* A pane could not be resolved or focused: the call gives up.
Unresolved(i) == Upset /\ Return(i)

\* Mutant: the cursor moves wherever the user is.
ResumeSampledUnchecked(i) ==
  /\ calls[i].at = "sampled"
  /\ calls[i].kind # "focus"
  /\ \/ Unresolved(i)
     \/ Goto(i, "focus") /\ UNCHANGED upsets
  /\ UNCHANGED <<state, engineVars, cursor, banner, serviced, overlapped, overtaken, asked,
                 events>>

\* tryImmediateReturn or executeGraceSwitch has its panes and compares them.
ResumeSampled(i) ==
  /\ calls[i].at = "sampled"
  /\ calls[i].kind # "focus"
  /\ \/ Unresolved(i)
     \/ /\ Goto(i, IF calls[i].sample = Source(calls[i]) THEN "focus" ELSE "done")
        /\ UNCHANGED upsets
  /\ UNCHANGED <<state, engineVars, cursor, banner, serviced, overlapped, overtaken, asked,
                 events>>

\* focusSession has the session's pane: the session counts as serviced.
ResumeFocusSession(i) ==
  LET s == calls[i].session IN
  /\ calls[i].at = "sampled"
  /\ calls[i].kind = "focus"
  /\ \/ Unresolved(i) /\ UNCHANGED <<queue, serviced>>
     \/ /\ queue' = Dequeued(queue, s)
        /\ serviced' = serviced \cup {s}
        /\ Goto(i, "focus")
        /\ UNCHANGED upsets
  /\ UNCHANGED <<state, grace, paused, lastSetTarget, cooldown, dwelling, cursor, banner,
                 overlapped, overtaken, asked, events>>

\* Every call that has looked at the cursor looked too early.
Left(cs) == [j \in 1..Len(cs) |-> [cs[j] EXCEPT !.left = TRUE]]

\* tmux runs focusPane.
FocusPane(i) ==
  /\ calls[i].at = "focus"
  /\ \/ /\ cursor' = Target(calls[i])
        /\ calls' = [(IF cursor' # cursor THEN Left(calls) ELSE calls) EXCEPT ![i].at = "focused"]
        /\ UNCHANGED upsets
     \/ Unresolved(i) /\ UNCHANGED cursor
  /\ UNCHANGED <<state, engineVars, banner, serviced, overlapped, overtaken, asked, events>>

\* doFocus, resumed after a success.
ResumeFocused(i) ==
  /\ calls[i].at = "focused"
  /\ lastSetTarget' = Target(calls[i])
  /\ dwelling' = TRUE
  /\ Return(i)
  /\ UNCHANGED <<state, queue, grace, paused, cooldown, cursor, banner, historyVars>>

-----------------------------------------------------------------------------
(* Time and the user                                                       *)

\* The grace timer of s fires: executeGraceSwitch, up to its first await.
GraceFires(s) ==
  /\ s \in grace
  /\ grace' = grace \ {s}
  /\ IF paused \/ ~FocusEnabled \/ queue # <<>>
       THEN UNCHANGED calls
       ELSE Begin("grace", s, "detect")
  /\ UNCHANGED <<state, queue, paused, lastSetTarget, cooldown, dwelling, cursor, banner,
                 historyVars>>

CooldownEnds ==
  /\ cooldown
  /\ cooldown' = FALSE
  /\ UNCHANGED <<state, queue, grace, paused, lastSetTarget, dwelling, calls, cursor, banner,
                 historyVars>>

DwellEnds ==
  /\ dwelling
  /\ dwelling' = FALSE
  /\ UNCHANGED <<state, queue, grace, paused, lastSetTarget, cooldown, calls, cursor, banner,
                 historyVars>>

MoveCursor(p) ==
  /\ Upset
  /\ p # cursor
  /\ cursor' = p
  /\ calls' = Left(calls)
  /\ UNCHANGED <<state, engineVars, banner, serviced, overlapped, overtaken, asked, events>>

-----------------------------------------------------------------------------

Resume(i) == ResumeDetected(i) \/ ResumeSampled(i) \/ ResumeFocusSession(i) \/ ResumeFocused(i)

Next ==
  \/ \E s \in Sessions : \/ \E e \in StateEvents : SessionEvent(s, e)
                         \/ GoStale(s) \/ FocusSession(s) \/ GraceFires(s)
  \/ \E i \in 1..Len(calls) : Answer(i) \/ FocusPane(i) \/ Resume(i)
  \/ \E p \in BOOLEAN : SetPaused(p)
  \/ \E p \in Panes : MoveCursor(p)
  \/ CooldownEnds \/ DwellEnds

Spec == Init /\ [][Next]_vars

\* tmux answers or times out (run() has a timeout) and Node resumes the call, so
\* the engine's calls advance; each ends after a few awaits.
Fairness == WF_vars(\E i \in 1..Len(calls) : Answer(i) \/ FocusPane(i) \/ Resume(i))

FairSpec == Spec /\ Fairness

-----------------------------------------------------------------------------
(* Properties                                                              *)

TypeOK ==
  /\ state \in [Sessions -> SessionStates \cup {None}]
  /\ queue \in Seq(Sessions) /\ grace \subseteq Sessions
  /\ paused \in BOOLEAN /\ cooldown \in BOOLEAN /\ dwelling \in BOOLEAN
  /\ lastSetTarget \in Panes \cup {None} /\ cursor \in Panes
  /\ calls \in Seq(Calls) /\ Len(calls) <= MaxCalls
  /\ banner \in Sessions \cup {None}
  /\ serviced \subseteq Sessions
  /\ overlapped \subseteq Sessions /\ overtaken \subseteq Sessions
  /\ asked \in [Sessions -> 0..MaxEvents] /\ events \in 0..MaxEvents /\ upsets \in 0..MaxUpsets

(***************************************************************************)
(* The queue is what its comment says, "session ids currently HUMAN_ACTIVE *)
(* and unserviced": once the transitions of a session have been handled,   *)
(* and in order, the session is queued only if it waits for its human, and *)
(* always if it waits unserviced, however the calls interleaved.           *)
(***************************************************************************)
QueueTracksState ==
  \A s \in Sessions : Settled(s) /\ s \notin overtaken =>
    /\ Contains(queue, s) => state[s] = "HUMAN_ACTIVE"
    /\ state[s] = "HUMAN_ACTIVE" /\ s \notin serviced => Contains(queue, s)

\* s waits for its human, and nothing but its turn in the queue stands before it.
InLine(s) == state[s] = "HUMAN_ACTIVE" /\ s \notin serviced /\ s \notin overlapped

(***************************************************************************)
(* First come, first served: the sessions that wait are queued in the      *)
(* order in which they came to need their human, in whatever order tmux    *)
(* answers the calls that announce them (daemon.ts calls seedHumanActive   *)
(* at once).  It fails only for a session that changed state again before  *)
(* its last change was handled: the earlier call takes it out and the      *)
(* later one requeues it.  One that the user has jumped to may stand in    *)
(* the queue where its own late announcement put it.                       *)
(***************************************************************************)
QueueIsFifo ==
  \A i, j \in 1..Len(queue) :
    i < j /\ InLine(queue[i]) /\ InLine(queue[j]) => asked[queue[i]] <= asked[queue[j]]

\* Call i moves the cursor on its own account.
AutoFocus(i) ==
  /\ i \in 1..Len(calls)
  /\ calls[i].at = "focus" /\ calls[i].kind # "focus"
  /\ calls'[i].at = "focused"

(***************************************************************************)
(* The engine moves the cursor by itself only out of the pane it is        *)
(* allowed to move it from, unless the cursor changed panes in the awaits  *)
(* between the look and the move.                                          *)
(***************************************************************************)
AutoFocusFromSource ==
  [][\A i \in 1..MaxCalls :
       AutoFocus(i) => cursor = Source(calls[i]) \/ calls[i].left]_vars

(***************************************************************************)
(* "A needs-you signal is safety-critical and must always get through": a  *)
(* user who sits in the game pane when a session comes to need them is     *)
(* taken out of it, unless autofocus is paused or a tmux command fails.    *)
(***************************************************************************)
BackToSession ==
  \A s \in Sessions, n \in 0..MaxUpsets :
    (/\ cursor = GamePane /\ upsets = n
     /\ \E i \in 1..Len(calls) :
          /\ calls[i].session = s /\ calls[i].kind = "HUMAN_ACTIVE"
          /\ calls[i].at \in {"detect", "detected", "current"})
      ~> (cursor # GamePane \/ paused \/ upsets > n)

-----------------------------------------------------------------------------
(* Behind the queue: what the calls under way say about it.                *)

\* The calls that announce a change of s, and those that are still to be handled.
TransitionsOf(s) == {i \in 1..Len(calls) : calls[i].session = s /\ calls[i].kind \in Transitions}
PendingOf(s) == {i \in TransitionsOf(s) : calls[i].at \in {"detect", "detected"}}

\* Call j takes s out of the queue, and no later one puts it back.
TakesOut(s, j) ==
  /\ calls[j].kind \in {"CC_WORKING", "DEAD"}
  /\ \A k \in TransitionsOf(s) : j < k => calls[k].kind # "HUMAN_ACTIVE"

\* A session nobody has heard of has no calls; the last call says what its state is.
LastCallTells(s) ==
  /\ state[s] = None => TransitionsOf(s) = {}
  /\ \A i \in TransitionsOf(s) :
       calls[i].kind = state[s] \/ \E j \in TransitionsOf(s) : i < j

\* After the last call that queues s, unless s still waits, comes one that takes it out.
LeavesAgain(s) ==
  \A i \in TransitionsOf(s) :
    calls[i].kind = "HUMAN_ACTIVE" /\ state[s] # "HUMAN_ACTIVE" =>
      \E j \in TransitionsOf(s) : i < j /\ TakesOut(s, j)

\* Unless one overtook another, the calls are handled in order.
HandledInOrder(s) ==
  s \notin overtaken =>
    \A i \in PendingOf(s), j \in TransitionsOf(s) : i < j => j \in PendingOf(s)

\* A call can be overtaken only by one that began while it was unhandled.
OvertakenOverlap(s) ==
  /\ \A i \in PendingOf(s), j \in TransitionsOf(s) : i < j => s \in overlapped
  /\ s \in overtaken => s \in overlapped

\* A session in the queue waits, or a call under way will take it out.
QueuedWaits(s) ==
  s \notin overtaken /\ Contains(queue, s) =>
    state[s] = "HUMAN_ACTIVE" \/ \E j \in PendingOf(s) : TakesOut(s, j)

\* A session that waits is in the queue.
WaitsQueued(s) ==
  /\ /\ s \notin overtaken /\ s \notin serviced
     /\ state[s] = "HUMAN_ACTIVE" /\ PendingOf(s) = {}
     => Contains(queue, s)
  /\ InLine(s) => Contains(queue, s)

QueueInv ==
  /\ \A s \in Sessions :
       /\ LastCallTells(s) /\ LeavesAgain(s) /\ HandledInOrder(s) /\ OvertakenOverlap(s)
       /\ QueuedWaits(s) /\ WaitsQueued(s)
       /\ asked[s] <= events
  /\ QueueIsFifo
=============================================================================
