------------------------------- MODULE Channel -------------------------------
(***************************************************************************)
(* The socket between the daemon and a terminal UI: the server             *)
(* (daemon/ipc-server.ts), the throttled game pushes (daemon.ts), the      *)
(* client that reconnects and cuts the stream into lines (tui/client.ts),  *)
(* the store (tui/store.ts) and the keys of the application (tui/App.tsx). *)
(*                                                                         *)
(* One UI is modelled whole; others may pause autofocus beside it.  The    *)
(* sessions are one session, whose state is a number that grows and who    *)
(* needs its human when it is odd.  A game is its number and whether its   *)
(* generation can ship.                                                    *)
(***************************************************************************)
EXTENDS Naturals, Sequences

CONSTANTS
  None,
  MaxInputs,    \* bound on changes of game, session and pause, and on keys
  MaxRestarts   \* bound on the starts of the daemon

ASSUME ChannelAssumption ==
  /\ MaxInputs \in Nat /\ MaxRestarts \in Nat
  /\ None \notin [version : Nat, ready : BOOLEAN]

VARIABLES
  \* the daemon
  up,
  paused,       \* FocusEngine.isPaused
  session,      \* the state of the session
  alerted,      \* the session state the last alert told of
  game,
  gameTimer, pendingGame,      \* gameBroadcastTimer, pendingGameState
  \* the connection
  toClient, toServer,          \* what is under way
  \* the client
  socket,       \* "none" or "open"
  reconnect,    \* reconnectTimer is set
  stopped,
  lineBuffer,   \* "empty", "current": part of the message that is arriving, "stale": of an older one
  store,
  mode,         \* what the keys mean
  inputs, restarts,     \* bounded counters
  \* history
  greeted,      \* the hello of this connection has reached the store
  missedAlert,  \* an alert was raised or cleared while nobody was connected
  otherPaused   \* another UI changed the pause and this one has not been told since

daemonVars == <<up, paused, session, alerted, game, gameTimer, pendingGame>>
clientVars == <<socket, reconnect, stopped, lineBuffer, store, mode>>
boundVars == <<inputs, restarts>>

Input == inputs < MaxInputs /\ inputs' = inputs + 1 /\ UNCHANGED restarts
history == <<greeted, missedAlert, otherPaused>>
vars == <<daemonVars, toClient, toServer, clientVars, boundVars, history>>

Waits(state) == state % 2 = 1

Hello == [type |-> "hello", paused |-> paused, session |-> session]
Status == [type |-> "status", paused |-> paused', session |-> session]
GameState(g) == [type |-> "game-state", game |-> g]

\* broadcast and send: to the client if it is connected.
Send(messages) == toClient' = IF socket = "open" THEN toClient \o messages ELSE toClient

-----------------------------------------------------------------------------
\* Mutant: while the timer runs the first of the waiting states is kept.
ThrottledFirst(g) ==
  IF gameTimer
  THEN /\ pendingGame' = IF pendingGame = None THEN g ELSE pendingGame
       /\ UNCHANGED <<gameTimer, toClient>>
  ELSE /\ Send(<<GameState(g)>>)
       /\ gameTimer' = TRUE
       /\ UNCHANGED pendingGame

\* broadcastGameState of the daemon: at most one push per timer, the rest waits.
Throttled(g) ==
  IF gameTimer
  THEN pendingGame' = g /\ UNCHANGED <<gameTimer, toClient>>
  ELSE Send(<<GameState(g)>>) /\ gameTimer' = TRUE /\ UNCHANGED pendingGame

\* Mutant: the pending state is dropped with its timer.
ThrottleForgets ==
  /\ gameTimer
  /\ gameTimer' = FALSE /\ pendingGame' = None
  /\ UNCHANGED <<up, paused, session, alerted, game, toClient, toServer, clientVars, boundVars, history>>

\* The timer of the throttle.
ThrottleFires ==
  /\ gameTimer
  /\ pendingGame' = None
  /\ gameTimer' = (pendingGame # None)
  /\ IF pendingGame = None THEN UNCHANGED toClient ELSE Send(<<GameState(pendingGame)>>)
  /\ UNCHANGED <<up, paused, session, alerted, game, toServer, clientVars, boundVars, history>>

\* Telemetry moves the economy, and may complete what the next generation needs.
GameChanges ==
  /\ up /\ Input
  /\ \E ready \in {game.ready, TRUE} : game' = [version |-> game.version + 1, ready |-> ready]
  /\ Throttled(game')
  /\ UNCHANGED <<up, paused, session, alerted, toServer, clientVars, history>>

\* The session's state machine takes a step.
SessionChanges ==
  /\ up /\ Input
  /\ session' = session + 1
  /\ Send(<<[type |-> "session-state", session |-> session']>>)
  /\ UNCHANGED <<up, paused, alerted, game, gameTimer, pendingGame, toServer, clientVars, history>>

\* The focus engine tells of it when it has asked tmux.
Alert ==
  /\ up /\ alerted # session
  /\ alerted' = session
  /\ IF Waits(alerted) = Waits(session)
     THEN UNCHANGED <<toClient, missedAlert>>
     ELSE /\ Send(<<[type |-> "alert", kind |-> IF Waits(session) THEN "needs-you" ELSE "clear"]>>)
          /\ missedAlert' = (missedAlert \/ socket # "open")
  /\ UNCHANGED <<up, paused, session, game, gameTimer, pendingGame, toServer, clientVars, boundVars,
                 greeted, otherPaused>>

\* A command of another UI, whose status goes to that one alone.
OtherPauses ==
  /\ up /\ Input
  /\ paused' = ~paused
  /\ otherPaused' = TRUE
  /\ UNCHANGED <<up, session, alerted, game, gameTimer, pendingGame, toClient, toServer, clientVars,
                 greeted, missedAlert>>

-----------------------------------------------------------------------------
\* handleLine of the server: a command of this UI, which is answered with the status.
Command(message) ==
  /\ paused' = (message.command = "pause-autofocus")
  /\ Send(<<Status>>)
  /\ otherPaused' = FALSE
  /\ UNCHANGED <<game, gameTimer, pendingGame>>

\* A player's action.  Whatever it does to the game, it is narrated and pushed.
PlayerAction(message) ==
  /\ IF message.type = "ship-generation" /\ game.ready
     THEN game' = [version |-> game.version + 1, ready |-> FALSE]
     ELSE UNCHANGED game
  /\ Throttled(game')
  /\ UNCHANGED <<paused, otherPaused>>

HandleLine ==
  /\ up /\ toServer # <<>>
  /\ toServer' = Tail(toServer)
  /\ IF Head(toServer).type = "command" THEN Command(Head(toServer)) ELSE PlayerAction(Head(toServer))
  /\ UNCHANGED <<up, session, alerted, clientVars, boundVars, greeted, missedAlert>>

\* The daemon ends, by a signal or a crash; its sockets close after what was sent.
DaemonEnds ==
  /\ up
  /\ up' = FALSE
  /\ gameTimer' = FALSE /\ pendingGame' = None
  /\ socket' = IF socket = "open" THEN "closing" ELSE socket
  /\ toServer' = <<>>
  /\ UNCHANGED <<paused, session, alerted, game, toClient, reconnect, stopped, lineBuffer, store,
                 mode, boundVars, history>>

\* A new daemon replays its sessions and raises no alert for those who wait already.
DaemonStarts ==
  /\ ~up /\ restarts < MaxRestarts
  /\ restarts' = restarts + 1
  /\ up' = TRUE
  /\ paused' = FALSE
  /\ alerted' = session
  /\ missedAlert' = (missedAlert \/ Waits(session) # Waits(alerted))
  /\ UNCHANGED <<session, game, gameTimer, pendingGame, toClient, toServer, clientVars,
                 inputs, greeted, otherPaused>>

-----------------------------------------------------------------------------
\* attemptConnect: the server greets, or the attempt fails and a timer is set again.
Attempt ==
  /\ ~stopped /\ socket = "none"
  /\ IF up
     THEN /\ socket' = "open" /\ reconnect' = FALSE
          /\ toClient' = <<Hello, GameState(game)>> /\ toServer' = <<>>
          /\ store' = [store EXCEPT !.connection = "connected"]
          /\ greeted' = FALSE /\ otherPaused' = FALSE
     ELSE /\ reconnect' = TRUE
          /\ store' = [store EXCEPT !.connection = "disconnected"]
          /\ UNCHANGED <<socket, toClient, toServer, greeted, otherPaused>>
  /\ UNCHANGED <<daemonVars, stopped, lineBuffer, mode, boundVars, missedAlert>>

\* onDown: what the buffer holds of a message stays there.
ConnectionDown ==
  /\ socket = "closing"
  /\ socket' = "none" /\ reconnect' = TRUE
  /\ store' = [store EXCEPT !.connection = "disconnected"]
  /\ toClient' = <<>>
  /\ lineBuffer' = IF lineBuffer = "empty" THEN "empty" ELSE "stale"
  /\ missedAlert' = (missedAlert \/ \E i \in DOMAIN toClient : toClient[i].type = "alert")
  /\ UNCHANGED <<daemonVars, toServer, stopped, mode, boundVars, greeted, otherPaused>>

\* applyMessage of the store
ApplyMessage(s, message) ==
  CASE message.type = "hello" ->
         [s EXCEPT !.connection = "connected", !.paused = message.paused, !.session = message.session]
    [] message.type = "status" -> [s EXCEPT !.paused = message.paused, !.session = message.session]
    [] message.type = "session-state" -> [s EXCEPT !.session = message.session]
    [] message.type = "alert" -> [s EXCEPT !.alert = (message.kind = "needs-you")]
    [] message.type = "game-state" -> [s EXCEPT !.game = message.game]

\* A chunk completes a line.  Behind a piece of an older connection's it parses as nothing.
Deliver ==
  /\ socket # "none" /\ toClient # <<>>
  /\ toClient' = Tail(toClient)
  /\ lineBuffer' = "empty"
  /\ IF lineBuffer = "stale" THEN UNCHANGED <<store, greeted>>
     ELSE /\ store' = ApplyMessage(store, Head(toClient))
          /\ greeted' = (greeted \/ Head(toClient).type = "hello")
  /\ UNCHANGED <<daemonVars, toServer, socket, reconnect, stopped, mode, boundVars,
                 missedAlert, otherPaused>>

\* A chunk ends within a line.
DeliverPart ==
  /\ socket # "none" /\ toClient # <<>>
  /\ lineBuffer = "empty"
  /\ lineBuffer' = "current"
  /\ UNCHANGED <<daemonVars, toClient, toServer, socket, reconnect, stopped, store, mode, boundVars, history>>

\* sendMessage writes only to a connection that is up.
SendMessage(message) ==
  toServer' = IF socket = "open" THEN Append(toServer, message) ELSE toServer

Ship == [type |-> "ship-generation"]

\* handleInput
Key ==
  /\ ~stopped /\ Input
  /\ \/ /\ mode = "main"
        /\ SendMessage([type |-> "command",
             command |-> IF store.paused THEN "resume-autofocus" ELSE "pause-autofocus"])
        /\ UNCHANGED mode
     \/ /\ mode = "main" /\ store.game # None      \* P
        /\ IF store.game.ready THEN mode' = "confirm-ship" /\ UNCHANGED toServer
           ELSE SendMessage(Ship) /\ UNCHANGED mode
     \/ /\ mode = "confirm-ship"                   \* y, and n or escape
        /\ SendMessage(Ship) \/ UNCHANGED toServer
        /\ mode' = "main"
     \/ /\ mode = "main" /\ store.game # None      \* v
        /\ mode' = "breakthroughs" /\ UNCHANGED toServer
     \/ /\ mode = "breakthroughs" /\ mode' = "main" /\ UNCHANGED toServer
     \/ /\ mode = "breakthroughs" \/ (mode = "main" /\ store.game # None)   \* buy, hire, ...
        /\ SendMessage([type |-> "game-action"])
        /\ UNCHANGED mode
  /\ UNCHANGED <<daemonVars, toClient, socket, reconnect, stopped, lineBuffer, store, history>>

\* disconnect, when the player quits.
Quit ==
  /\ ~stopped
  /\ stopped' = TRUE /\ reconnect' = FALSE /\ socket' = "none"
  /\ toClient' = <<>>
  /\ UNCHANGED <<daemonVars, toServer, lineBuffer, store, mode, boundVars, history>>

-----------------------------------------------------------------------------
Init ==
  /\ up = FALSE /\ paused = FALSE /\ session = 0 /\ alerted = 0
  /\ game = [version |-> 0, ready |-> FALSE]
  /\ gameTimer = FALSE /\ pendingGame = None
  /\ toClient = <<>> /\ toServer = <<>>
  /\ socket = "none" /\ reconnect = FALSE /\ stopped = FALSE /\ lineBuffer = "empty"
  /\ store = [connection |-> "connecting", paused |-> FALSE, session |-> 0, alert |-> FALSE, game |-> None]
  /\ mode = "main"
  /\ inputs = 0 /\ restarts = 0
  /\ greeted = FALSE /\ missedAlert = FALSE /\ otherPaused = FALSE

Next ==
  \/ ThrottleFires \/ GameChanges \/ SessionChanges \/ Alert \/ OtherPauses
  \/ HandleLine \/ DaemonEnds \/ DaemonStarts
  \/ Attempt \/ ConnectionDown \/ Deliver \/ DeliverPart \/ Key \/ Quit

Spec == Init /\ [][Next]_vars

\* Timers fire, sockets deliver, close and report it; the focus engine's calls end.
Fairness ==
  /\ WF_vars(ThrottleFires) /\ WF_vars(HandleLine) /\ WF_vars(Alert)
  /\ WF_vars(Attempt) /\ WF_vars(ConnectionDown) /\ WF_vars(Deliver)

FairSpec == Spec /\ Fairness

-----------------------------------------------------------------------------
Games == [version : Nat, ready : BOOLEAN]

TypeOK ==
  /\ {up, paused, gameTimer, reconnect, stopped, greeted, missedAlert, otherPaused} \subseteq BOOLEAN
  /\ session \in Nat /\ alerted \in 0..session
  /\ game \in Games /\ pendingGame \in Games \cup {None}
  /\ socket \in {"none", "open", "closing"} /\ lineBuffer \in {"empty", "current", "stale"}
  /\ store \in [connection : {"connecting", "connected", "disconnected"}, paused : BOOLEAN,
                session : Nat, alert : BOOLEAN, game : Games \cup {None}]
  /\ mode \in {"main", "confirm-ship", "breakthroughs"}

(* A UI that has read what was sent shows the daemon: its session, its     *)
(* pause unless another UI has changed it, its game or one that a throttled *)
(* push is about to replace, and a banner that matches the last alert      *)
(* unless that was raised or cleared while nobody was connected.           *)
InStep ==
  socket = "open" /\ toClient = <<>> =>
    /\ greeted => store.session = session /\ (store.paused = paused \/ otherPaused)
    /\ store.game = game \/ (gameTimer /\ pendingGame = game)
    /\ store.alert = Waits(alerted) \/ missedAlert

(* While the daemon stays up and the player does not quit, the UI ends up  *)
(* connected, showing the economy as it is and the session if it has been  *)
(* greeted, however often either side lost the other before.               *)
Converges ==
  <>[](up /\ ~stopped) =>
    <>[](/\ socket = "open" /\ store.connection = "connected"
         /\ store.game = game
         /\ greeted => store.session = session)
=============================================================================
