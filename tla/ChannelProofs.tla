---------------------------- MODULE ChannelProofs ----------------------------
(***************************************************************************)
(* Proof that a UI which has read what was sent to it shows the daemon     *)
(* (Channel, InStep), for any number of starts of the daemon, of changes   *)
(* and of keys.                                                            *)
(*                                                                         *)
(* The argument: what is under way decides.  Of the messages that carry a  *)
(* field of the store the last one under way carries the daemon's value,   *)
(* and if none is under way the store holds it (SessionTold, PauseTold,    *)
(* GameTold, AlertTold).  A server appends behind what it has sent and the *)
(* client takes the head, so each step needs only what became of the last. *)
(***************************************************************************)
EXTENDS Channel, SequenceTheorems, TLAPS

-----------------------------------------------------------------------------
(* What is under way *)

HelloMessages == [type : {"hello"}, paused : BOOLEAN, session : Nat]
StatusMessages == [type : {"status"}, paused : BOOLEAN, session : Nat]
SessionMessages == [type : {"session-state"}, session : Nat]
AlertMessages == [type : {"alert"}, kind : {"needs-you", "clear"}]
GameMessages == [type : {"game-state"}, game : Games]
Messages == HelloMessages \cup StatusMessages \cup SessionMessages \cup AlertMessages \cup GameMessages

\* The i-th message under way is the last of one of these types.
LastOf(q, types, i) ==
  /\ i \in 1..Len(q)
  /\ q[i].type \in types
  /\ \A j \in i + 1..Len(q) : q[j].type \notin types

NoneOf(q, types) == \A i \in 1..Len(q) : q[i].type \notin types

SessionTypes == {"hello", "status", "session-state"}
PauseTypes == {"hello", "status"}
GameTypes == {"game-state"}
AlertTypes == {"alert"}

\* The last message to carry a field carries v, or none does and the store holds v.
SessionLast(q, held, v) ==
  /\ \A i \in 1..Len(q) : LastOf(q, SessionTypes, i) => q[i].session = v
  /\ NoneOf(q, SessionTypes) => held = v

PauseLast(q, held, v) ==
  /\ \A i \in 1..Len(q) : LastOf(q, PauseTypes, i) => q[i].paused = v
  /\ NoneOf(q, PauseTypes) => held = v

GameLast(q, held, v) ==
  /\ \A i \in 1..Len(q) : LastOf(q, GameTypes, i) => q[i].game = v
  /\ NoneOf(q, GameTypes) => held = v

AlertLast(q, held, v) ==
  /\ \A i \in 1..Len(q) : LastOf(q, AlertTypes, i) => (q[i].kind = "needs-you") = v
  /\ NoneOf(q, AlertTypes) => held = v

SessionTold == SessionLast(toClient, store.session, session)
PauseTold == PauseLast(toClient, store.paused, paused)
GameTold == GameLast(toClient, store.game, game)
AlertTold == AlertLast(toClient, store.alert, Waits(alerted))

\* A hello of this connection has reached the store or is going to.
Greeting ==
  greeted \/ (toClient # <<>> /\ toClient[1].type = "hello" /\ lineBuffer # "stale")

\* A piece of an older connection's message swallows the hello and nothing else.
HelloFirst ==
  /\ \A i \in 2..Len(toClient) : toClient[i].type # "hello"
  /\ toClient # <<>> /\ toClient[1].type = "hello" => ~greeted
  /\ lineBuffer = "stale" =>
       socket = "none" \/ (toClient # <<>> /\ toClient[1].type = "hello")

Connection ==
  /\ socket = "open" => up
  /\ socket = "none" => toClient = <<>>
  /\ pendingGame # None => gameTimer /\ pendingGame = game
  /\ stopped => socket = "none"

Types == TypeOK /\ toClient \in Seq(Messages)

ChannelInv ==
  /\ HelloFirst
  /\ Connection
  /\ socket = "open" /\ Greeting => SessionTold /\ (PauseTold \/ otherPaused)
  /\ socket = "open" /\ pendingGame = None => GameTold
  /\ AlertTold \/ missedAlert \/ stopped

-----------------------------------------------------------------------------
(* Sending and taking *)

LEMMA MessageParts ==
  ASSUME NEW m \in Messages
  PROVE  /\ m.type \in {"hello", "status", "session-state", "alert", "game-state"}
         /\ m.type \in PauseTypes => m.paused \in BOOLEAN
         /\ m.type \in SessionTypes => m.session \in Nat
         /\ m.type = "alert" => m.kind \in {"needs-you", "clear"}
         /\ m.type = "game-state" => m.game \in Games
  BY DEF Messages, HelloMessages, StatusMessages, SessionMessages, AlertMessages, GameMessages,
         PauseTypes, SessionTypes

LEMMA SentParts ==
  ASSUME NEW q \in Seq(Messages), NEW m \in Messages
  PROVE  /\ q \o <<m>> \in Seq(Messages)
         /\ Len(q \o <<m>>) = Len(q) + 1
         /\ Len(q) \in Nat
         /\ (q \o <<m>>)[Len(q) + 1] = m
         /\ \A i \in 1..Len(q) : (q \o <<m>>)[i] = q[i]
  OBVIOUS

LEMMA TakenParts ==
  ASSUME NEW q \in Seq(Messages), q # <<>>
  PROVE  /\ Tail(q) \in Seq(Messages)
         /\ Len(q) \in Nat \ {0}
         /\ Len(Tail(q)) = Len(q) - 1
         /\ \A i \in 1..Len(Tail(q)) : i + 1 \in 1..Len(q) /\ Tail(q)[i] = q[i + 1]
         /\ Head(q) = q[1] /\ q[1] \in Messages
  OBVIOUS

\* Of what has been sent, the newest is the last of its types and hides the others of them.
LEMMA LastSent ==
  ASSUME NEW q \in Seq(Messages), NEW m \in Messages, NEW types
  PROVE  /\ \A i \in 1..Len(q \o <<m>>) :
              LastOf(q \o <<m>>, types, i) =>
                \/ m.type \in types /\ (q \o <<m>>)[i] = m
                \/ m.type \notin types /\ i \in 1..Len(q) /\ LastOf(q, types, i) /\ (q \o <<m>>)[i] = q[i]
         /\ NoneOf(q \o <<m>>, types) => NoneOf(q, types) /\ m.type \notin types
<1> DEFINE s == q \o <<m>>
<1>1. /\ Len(s) = Len(q) + 1 /\ Len(q) \in Nat /\ s[Len(q) + 1] = m
      /\ \A i \in 1..Len(q) : s[i] = q[i]
  BY SentParts
<1> HIDE DEF s
<1>2. ASSUME NEW i \in 1..Len(s), LastOf(s, types, i)
      PROVE  \/ m.type \in types /\ s[i] = m
             \/ m.type \notin types /\ i \in 1..Len(q) /\ LastOf(q, types, i) /\ s[i] = q[i]
  <2>1. CASE i = Len(q) + 1
    BY <1>1, <1>2, <2>1 DEF LastOf
  <2>2. CASE i \in 1..Len(q)
    <3>1. Len(q) + 1 \in i + 1..Len(s) /\ m.type \notin types
      BY <1>1, <1>2, <2>2 DEF LastOf
    <3>2. \A j \in i + 1..Len(q) : j \in i + 1..Len(s) /\ j \in 1..Len(q)
      BY <1>1, <2>2
    <3>3. LastOf(q, types, i)
      BY <1>1, <1>2, <2>2, <3>2 DEF LastOf
    <3> QED BY <1>1, <2>2, <3>1, <3>3
  <2> QED BY <1>1, <2>1, <2>2
<1>3. NoneOf(s, types) => NoneOf(q, types) /\ m.type \notin types
  BY <1>1 DEF NoneOf
<1> QED BY <1>2, <1>3 DEF s

\* What is left when the head is taken.
LEMMA LastTaken ==
  ASSUME NEW q \in Seq(Messages), q # <<>>, NEW types
  PROVE  /\ \A i \in 1..Len(Tail(q)) :
              LastOf(Tail(q), types, i) =>
                i + 1 \in 1..Len(q) /\ LastOf(q, types, i + 1) /\ Tail(q)[i] = q[i + 1]
         /\ NoneOf(Tail(q), types) =>
              \/ q[1].type \notin types /\ NoneOf(q, types)
              \/ q[1].type \in types /\ 1 \in 1..Len(q) /\ LastOf(q, types, 1)
<1> DEFINE t == Tail(q)
<1>1. /\ Len(q) \in Nat \ {0} /\ Len(t) = Len(q) - 1
      /\ \A i \in 1..Len(t) : i + 1 \in 1..Len(q) /\ t[i] = q[i + 1]
  BY TakenParts
<1> HIDE DEF t
<1>2. \A j \in 2..Len(q) : j - 1 \in 1..Len(t) /\ t[j - 1] = q[j]
  BY <1>1
<1>3. ASSUME NEW i \in 1..Len(t), LastOf(t, types, i)
      PROVE  i + 1 \in 1..Len(q) /\ LastOf(q, types, i + 1) /\ t[i] = q[i + 1]
  <2>1. \A j \in i + 1 + 1..Len(q) : j \in 2..Len(q) /\ j - 1 \in i + 1..Len(t)
    BY <1>1
  <2>2. \A j \in i + 1 + 1..Len(q) : q[j].type \notin types
    BY <1>2, <1>3, <2>1 DEF LastOf
  <2> QED BY <1>1, <1>3, <2>2 DEF LastOf
<1>4. ASSUME NoneOf(t, types)
      PROVE  \/ q[1].type \notin types /\ NoneOf(q, types)
             \/ q[1].type \in types /\ 1 \in 1..Len(q) /\ LastOf(q, types, 1)
  <2>1. \A j \in 2..Len(q) : q[j].type \notin types
    BY <1>2, <1>4 DEF NoneOf
  <2>2. CASE q[1].type \in types
    BY <1>1, <2>1, <2>2 DEF LastOf
  <2>3. CASE q[1].type \notin types
    BY <1>1, <2>1, <2>3 DEF NoneOf
  <2> QED BY <2>2, <2>3
<1> QED BY <1>3, <1>4 DEF t
-----------------------------------------------------------------------------
(* The four fields *)

LEMMA SessionSent ==
  ASSUME NEW q \in Seq(Messages), NEW m \in Messages, NEW held, NEW v,
         \/ m.type \in SessionTypes /\ m.session = v
         \/ m.type \notin SessionTypes /\ SessionLast(q, held, v)
  PROVE  SessionLast(q \o <<m>>, held, v)
  BY LastSent DEF SessionLast

LEMMA SessionTaken ==
  ASSUME NEW q \in Seq(Messages), q # <<>>, NEW held, NEW next, NEW v,
         SessionLast(q, held, v),
         next = IF q[1].type \in SessionTypes THEN q[1].session ELSE held
  PROVE  SessionLast(Tail(q), next, v)
<1>1. \A i \in 1..Len(Tail(q)) :
        LastOf(Tail(q), SessionTypes, i) =>
          i + 1 \in 1..Len(q) /\ LastOf(q, SessionTypes, i + 1) /\ Tail(q)[i] = q[i + 1]
  BY LastTaken
<1>2. NoneOf(Tail(q), SessionTypes) =>
        \/ q[1].type \notin SessionTypes /\ NoneOf(q, SessionTypes)
        \/ q[1].type \in SessionTypes /\ 1 \in 1..Len(q) /\ LastOf(q, SessionTypes, 1)
  BY LastTaken
<1>3. \A i \in 1..Len(Tail(q)) :
        LastOf(Tail(q), SessionTypes, i) => Tail(q)[i].session = v
  BY <1>1 DEF SessionLast
<1>4. NoneOf(Tail(q), SessionTypes) => next = v
  BY <1>2 DEF SessionLast
<1> QED BY <1>3, <1>4 DEF SessionLast

LEMMA PauseSent ==
  ASSUME NEW q \in Seq(Messages), NEW m \in Messages, NEW held, NEW v,
         \/ m.type \in PauseTypes /\ m.paused = v
         \/ m.type \notin PauseTypes /\ PauseLast(q, held, v)
  PROVE  PauseLast(q \o <<m>>, held, v)
  BY LastSent DEF PauseLast

LEMMA PauseTaken ==
  ASSUME NEW q \in Seq(Messages), q # <<>>, NEW held, NEW next, NEW v,
         PauseLast(q, held, v),
         next = IF q[1].type \in PauseTypes THEN q[1].paused ELSE held
  PROVE  PauseLast(Tail(q), next, v)
<1>1. \A i \in 1..Len(Tail(q)) :
        LastOf(Tail(q), PauseTypes, i) =>
          i + 1 \in 1..Len(q) /\ LastOf(q, PauseTypes, i + 1) /\ Tail(q)[i] = q[i + 1]
  BY LastTaken
<1>2. NoneOf(Tail(q), PauseTypes) =>
        \/ q[1].type \notin PauseTypes /\ NoneOf(q, PauseTypes)
        \/ q[1].type \in PauseTypes /\ 1 \in 1..Len(q) /\ LastOf(q, PauseTypes, 1)
  BY LastTaken
<1>3. \A i \in 1..Len(Tail(q)) :
        LastOf(Tail(q), PauseTypes, i) => Tail(q)[i].paused = v
  BY <1>1 DEF PauseLast
<1>4. NoneOf(Tail(q), PauseTypes) => next = v
  BY <1>2 DEF PauseLast
<1> QED BY <1>3, <1>4 DEF PauseLast

LEMMA GameSent ==
  ASSUME NEW q \in Seq(Messages), NEW m \in Messages, NEW held, NEW v,
         \/ m.type \in GameTypes /\ m.game = v
         \/ m.type \notin GameTypes /\ GameLast(q, held, v)
  PROVE  GameLast(q \o <<m>>, held, v)
  BY LastSent DEF GameLast

LEMMA GameTaken ==
  ASSUME NEW q \in Seq(Messages), q # <<>>, NEW held, NEW next, NEW v,
         GameLast(q, held, v),
         next = IF q[1].type \in GameTypes THEN q[1].game ELSE held
  PROVE  GameLast(Tail(q), next, v)
<1>1. \A i \in 1..Len(Tail(q)) :
        LastOf(Tail(q), GameTypes, i) =>
          i + 1 \in 1..Len(q) /\ LastOf(q, GameTypes, i + 1) /\ Tail(q)[i] = q[i + 1]
  BY LastTaken
<1>2. NoneOf(Tail(q), GameTypes) =>
        \/ q[1].type \notin GameTypes /\ NoneOf(q, GameTypes)
        \/ q[1].type \in GameTypes /\ 1 \in 1..Len(q) /\ LastOf(q, GameTypes, 1)
  BY LastTaken
<1>3. \A i \in 1..Len(Tail(q)) :
        LastOf(Tail(q), GameTypes, i) => Tail(q)[i].game = v
  BY <1>1 DEF GameLast
<1>4. NoneOf(Tail(q), GameTypes) => next = v
  BY <1>2 DEF GameLast
<1> QED BY <1>3, <1>4 DEF GameLast

LEMMA AlertSent ==
  ASSUME NEW q \in Seq(Messages), NEW m \in Messages, NEW held, NEW v,
         \/ m.type \in AlertTypes /\ (m.kind = "needs-you") = v
         \/ m.type \notin AlertTypes /\ AlertLast(q, held, v)
  PROVE  AlertLast(q \o <<m>>, held, v)
  BY LastSent DEF AlertLast

LEMMA AlertTaken ==
  ASSUME NEW q \in Seq(Messages), q # <<>>, NEW held, NEW next, NEW v,
         AlertLast(q, held, v),
         next = IF q[1].type \in AlertTypes THEN (q[1].kind = "needs-you") ELSE held
  PROVE  AlertLast(Tail(q), next, v)
<1>1. \A i \in 1..Len(Tail(q)) :
        LastOf(Tail(q), AlertTypes, i) =>
          i + 1 \in 1..Len(q) /\ LastOf(q, AlertTypes, i + 1) /\ Tail(q)[i] = q[i + 1]
  BY LastTaken
<1>2. NoneOf(Tail(q), AlertTypes) =>
        \/ q[1].type \notin AlertTypes /\ NoneOf(q, AlertTypes)
        \/ q[1].type \in AlertTypes /\ 1 \in 1..Len(q) /\ LastOf(q, AlertTypes, 1)
  BY LastTaken
<1>3. \A i \in 1..Len(Tail(q)) :
        LastOf(Tail(q), AlertTypes, i) => (Tail(q)[i].kind = "needs-you") = v
  BY <1>1 DEF AlertLast
<1>4. NoneOf(Tail(q), AlertTypes) => next = v
  BY <1>2 DEF AlertLast
<1> QED BY <1>3, <1>4 DEF AlertLast
-----------------------------------------------------------------------------
(* What a step sends *)

LEMMA MessageTypes ==
  ASSUME Types
  PROVE  /\ \A g \in Games : GameState(g) \in Messages /\ GameState(g).type = "game-state" /\ GameState(g).game = g
         /\ Hello \in Messages /\ Hello.type = "hello" /\ Hello.paused = paused /\ Hello.session = session
         /\ paused' \in BOOLEAN => Status \in Messages
         /\ Status.type = "status" /\ Status.paused = paused' /\ Status.session = session
         /\ \A n \in Nat : [type |-> "session-state", session |-> n] \in Messages
         /\ \A kind \in {"needs-you", "clear"} : [type |-> "alert", kind |-> kind] \in Messages
  BY DEF Types, TypeOK, Messages, HelloMessages, StatusMessages, SessionMessages, AlertMessages,
         GameMessages, GameState, Hello, Status

LEMMA SendParts ==
  ASSUME Types, NEW m \in Messages, Send(<<m>>)
  PROVE  /\ toClient' \in Seq(Messages)
         /\ socket = "open" => toClient' = toClient \o <<m>>
         /\ socket # "open" => toClient' = toClient
  BY SentParts DEF Send, Types

\* A message behind the others does not greet.
LEMMA HelloKept ==
  ASSUME Types, HelloFirst, UNCHANGED <<socket, lineBuffer, greeted>>,
         \/ UNCHANGED toClient
         \/ \E m \in Messages : m.type # "hello" /\ Send(<<m>>)
  PROVE  HelloFirst' /\ (Greeting' => Greeting)
<1>1. CASE UNCHANGED toClient
  BY <1>1 DEF HelloFirst, Greeting
<1>2. ASSUME NEW m \in Messages, m.type # "hello", Send(<<m>>)
      PROVE  HelloFirst' /\ (Greeting' => Greeting)
  <2>1. CASE socket # "open"
    BY <1>2, <2>1, SendParts DEF HelloFirst, Greeting
  <2>2. CASE socket = "open"
    <3>1. /\ toClient' = toClient \o <<m>>
          /\ Len(toClient') = Len(toClient) + 1 /\ Len(toClient) \in Nat
          /\ toClient'[Len(toClient) + 1] = m
          /\ \A i \in 1..Len(toClient) : toClient'[i] = toClient[i]
          /\ toClient' \in Seq(Messages) /\ toClient \in Seq(Messages)
      BY <1>2, <2>2, SendParts, SentParts DEF Types
    <3>2. toClient # <<>> => toClient'[1] = toClient[1] /\ toClient[1].type = toClient'[1].type
      BY <3>1
    <3>3. toClient = <<>> => toClient'[1] = m
      BY <3>1
    <3>4. \A i \in 2..Len(toClient') : toClient'[i].type # "hello"
      BY <1>2, <3>1 DEF HelloFirst
    <3>5. toClient' # <<>>
      BY <3>1
    <3> QED BY <1>2, <3>2, <3>3, <3>4, <3>5, <2>2 DEF HelloFirst, Greeting
  <2> QED BY <2>1, <2>2
<1> QED BY <1>1, <1>2

\* A game pushed or put off is told when the timer is at rest, and touches no other field.
LEMMA ThrottledKeeps ==
  ASSUME Types, Connection, game' \in Games, Throttled(game'), UNCHANGED <<socket, store>>
  PROVE  /\ pendingGame' # None => gameTimer' /\ pendingGame' = game'
         /\ pendingGame' \in Games \cup {None} /\ gameTimer' \in BOOLEAN
         /\ socket = "open" /\ pendingGame' = None => GameTold'
         /\ toClient' \in Seq(Messages)
         /\ \/ UNCHANGED toClient
            \/ Send(<<GameState(game')>>)
<1>1. CASE gameTimer
  <2>1. pendingGame' = game' /\ UNCHANGED <<gameTimer, toClient>> /\ game' # None
    BY <1>1, ChannelAssumption DEF Throttled, Games
  <2> QED BY <1>1, <2>1 DEF Types, TypeOK
<1>2. CASE ~gameTimer
  <2>1. Send(<<GameState(game')>>) /\ gameTimer' = TRUE /\ pendingGame' = pendingGame /\ pendingGame = None
    BY <1>2 DEF Throttled, Connection
  <2> DEFINE m == GameState(game')
  <2>2. m \in Messages /\ m.type = "game-state" /\ m.game = game'
    BY MessageTypes
  <2> HIDE DEF m
  <2>3. socket = "open" => toClient' = toClient \o <<m>>
    BY <2>1, <2>2, SendParts DEF m
  <2>4. socket = "open" => GameLast(toClient', store'.game, game')
    BY <2>2, <2>3, GameSent DEF Types, GameTypes
  <2> QED BY <2>1, <2>2, <2>4, SendParts DEF GameTold, m
<1> QED BY <1>1, <1>2 DEF Types, TypeOK

\* A push of the game leaves the fields it does not carry.
LEMMA PushKeeps ==
  ASSUME Types, UNCHANGED store,
         UNCHANGED toClient \/ \E g \in Games : Send(<<GameState(g)>>)
  PROVE  /\ \A v : SessionLast(toClient, store.session, v) => SessionLast(toClient', store'.session, v)
         /\ \A v : PauseLast(toClient, store.paused, v) => PauseLast(toClient', store'.paused, v)
         /\ \A v : AlertLast(toClient, store.alert, v) => AlertLast(toClient', store'.alert, v)
<1>1. CASE UNCHANGED toClient
  BY <1>1
<1>2. ASSUME NEW g \in Games, Send(<<GameState(g)>>)
      PROVE  /\ \A v : SessionLast(toClient, store.session, v) => SessionLast(toClient', store'.session, v)
             /\ \A v : PauseLast(toClient, store.paused, v) => PauseLast(toClient', store'.paused, v)
             /\ \A v : AlertLast(toClient, store.alert, v) => AlertLast(toClient', store'.alert, v)
  <2> DEFINE m == GameState(g)
  <2>1. m \in Messages /\ m.type = "game-state"
    BY MessageTypes
  <2>2. toClient' = toClient \/ toClient' = toClient \o <<m>>
    BY <1>2, <2>1 DEF Send
  <2> HIDE DEF m
  <2>3. m.type \notin SessionTypes /\ m.type \notin PauseTypes /\ m.type \notin AlertTypes
    BY <2>1 DEF SessionTypes, PauseTypes, AlertTypes
  <2> QED BY <2>1, <2>2, <2>3, SessionSent, PauseSent, AlertSent DEF Types
<1> QED BY <1>1, <1>2
-----------------------------------------------------------------------------
(* The steps of the daemon *)

LEMMA NextGame ==
  ASSUME NEW g \in Games
  PROVE  /\ g.ready \in BOOLEAN
         /\ \A ready \in BOOLEAN : [version |-> g.version + 1, ready |-> ready] \in Games
<1>1. g.version \in Nat /\ g.ready \in BOOLEAN
  BY DEF Games
<1>2. g.version + 1 \in Nat
  BY <1>1
<1> QED BY <1>1, <1>2 DEF Games

LEMMA ThrottleFiresStep ==
  ASSUME Types, ChannelInv, ThrottleFires
  PROVE  Types' /\ ChannelInv'
<1>1. /\ gameTimer' \in BOOLEAN /\ pendingGame' = None /\ game' = game /\ game \in Games
      /\ pendingGame # None => pendingGame = game
      /\ \/ UNCHANGED toClient
         \/ Send(<<GameState(game)>>)
      /\ pendingGame # None => Send(<<GameState(game)>>)
      /\ pendingGame = None => UNCHANGED toClient
      /\ UNCHANGED <<up, paused, session, alerted, toServer, clientVars, boundVars, history>>
  BY DEF ThrottleFires, ChannelInv, Connection, Types, TypeOK
<1> DEFINE m == GameState(game)
<1>2. m \in Messages /\ m.type = "game-state" /\ m.game = game
  BY <1>1, MessageTypes
<1>3. UNCHANGED toClient \/ Send(<<m>>)
  BY <1>1
<1> HIDE DEF m
<1>4. toClient' \in Seq(Messages)
  BY <1>2, <1>3, SendParts DEF Types
<1>5. HelloFirst' /\ (Greeting' => Greeting)
  BY <1>1, <1>2, <1>3, HelloKept DEF ChannelInv, clientVars, history
<1>6. /\ SessionTold => SessionTold'
      /\ PauseTold => PauseTold'
      /\ AlertTold => AlertTold'
  BY <1>1, PushKeeps DEF SessionTold, PauseTold, AlertTold, clientVars
<1>7. socket = "open" => GameTold'
  <2>1. CASE pendingGame = None
    BY <1>1, <2>1 DEF ChannelInv, GameTold, clientVars
  <2>2. CASE pendingGame # None
    <3>1. socket = "open" => toClient' = toClient \o <<m>>
      BY <1>1, <1>2, <2>2, SendParts DEF m
    <3>2. m.type \in GameTypes /\ toClient \in Seq(Messages)
      BY <1>2 DEF GameTypes, Types
    <3> QED BY <1>1, <1>2, <3>1, <3>2, GameSent DEF GameTold
  <2> QED BY <2>1, <2>2
<1>8. Connection'
  <2>1. toClient' = toClient \/ socket = "open"
    BY <1>3 DEF Send
  <2> QED BY <1>1, <2>1 DEF ChannelInv, Connection, clientVars
<1>9. TypeOK'
  BY <1>1 DEF Types, TypeOK, clientVars, history
<1> QED BY <1>1, <1>4, <1>5, <1>6, <1>7, <1>8, <1>9 DEF Types, ChannelInv, clientVars, history

LEMMA GameChangesStep ==
  ASSUME Types, ChannelInv, GameChanges
  PROVE  Types' /\ ChannelInv'
<1>1. /\ game' \in Games /\ Throttled(game')
      /\ UNCHANGED <<up, paused, session, alerted, toServer, clientVars, history>>
  <2>1. PICK ready \in {game.ready, TRUE} : game' = [version |-> game.version + 1, ready |-> ready]
    BY DEF GameChanges
  <2>2. game \in Games
    BY DEF Types, TypeOK
  <2>3. game' \in Games
    BY <2>1, <2>2, NextGame
  <2> QED BY <2>3 DEF GameChanges
<1>2. /\ pendingGame' # None => gameTimer' /\ pendingGame' = game'
      /\ pendingGame' \in Games \cup {None} /\ gameTimer' \in BOOLEAN
      /\ socket = "open" /\ pendingGame' = None => GameTold'
      /\ toClient' \in Seq(Messages)
      /\ \/ UNCHANGED toClient
         \/ Send(<<GameState(game')>>)
  BY <1>1, ThrottledKeeps DEF ChannelInv, clientVars
<1>3. GameState(game') \in Messages /\ GameState(game').type # "hello"
  BY <1>1, MessageTypes
<1>4. HelloFirst' /\ (Greeting' => Greeting)
  BY <1>1, <1>2, <1>3, HelloKept DEF ChannelInv, clientVars, history
<1>5. /\ SessionTold => SessionTold'
      /\ PauseTold => PauseTold'
      /\ AlertTold => AlertTold'
  BY <1>1, <1>2, PushKeeps DEF SessionTold, PauseTold, AlertTold, clientVars
<1>6. Connection'
  <2>1. toClient' = toClient \/ socket = "open"
    BY <1>2 DEF Send
  <2> QED BY <1>1, <1>2, <2>1 DEF ChannelInv, Connection, clientVars
<1>7. TypeOK'
  BY <1>1, <1>2 DEF Types, TypeOK, clientVars, history
<1> QED BY <1>1, <1>2, <1>4, <1>5, <1>6, <1>7 DEF Types, ChannelInv, clientVars, history
LEMMA SessionChangesStep ==
  ASSUME Types, ChannelInv, SessionChanges
  PROVE  Types' /\ ChannelInv'
<1> DEFINE m == [type |-> "session-state", session |-> session']
<1>1. /\ up /\ session' = session + 1 /\ session \in Nat /\ alerted \in 0..session
      /\ Send(<<m>>)
      /\ UNCHANGED <<up, paused, alerted, game, gameTimer, pendingGame, toServer, clientVars, history>>
  BY DEF SessionChanges, Types, TypeOK
<1>2. m \in Messages /\ m.type = "session-state" /\ m.session = session'
  BY <1>1, MessageTypes
<1> HIDE DEF m
<1>3. /\ toClient' \in Seq(Messages) /\ toClient \in Seq(Messages)
      /\ socket = "open" => toClient' = toClient \o <<m>>
      /\ socket # "open" => toClient' = toClient
  BY <1>1, <1>2, SendParts DEF Types
<1>4. HelloFirst' /\ (Greeting' => Greeting)
  BY <1>1, <1>2, HelloKept DEF ChannelInv, clientVars, history
<1>5. m.type \in SessionTypes /\ m.type \notin PauseTypes /\ m.type \notin GameTypes /\ m.type \notin AlertTypes
  BY <1>2 DEF SessionTypes, PauseTypes, GameTypes, AlertTypes
<1>6. socket = "open" => SessionTold'
  BY <1>1, <1>2, <1>3, <1>5, SessionSent DEF SessionTold, clientVars
<1>7. PauseTold => PauseTold'
  BY <1>1, <1>2, <1>3, <1>5, PauseSent DEF PauseTold, clientVars
<1>8. GameTold => GameTold'
  BY <1>1, <1>2, <1>3, <1>5, GameSent DEF GameTold, clientVars
<1>9. AlertTold => AlertTold'
  BY <1>1, <1>2, <1>3, <1>5, AlertSent DEF AlertTold, clientVars
<1>10. Connection'
  BY <1>1, <1>3 DEF ChannelInv, Connection, clientVars
<1>11. TypeOK'
  BY <1>1 DEF Types, TypeOK, clientVars, history
<1> QED BY <1>1, <1>3, <1>4, <1>6, <1>7, <1>8, <1>9, <1>10, <1>11 DEF Types, ChannelInv, clientVars, history

LEMMA AlertStep ==
  ASSUME Types, ChannelInv, Alert
  PROVE  Types' /\ ChannelInv'
<1>1. /\ alerted' = session /\ session \in Nat
      /\ UNCHANGED <<up, paused, session, game, gameTimer, pendingGame, toServer, clientVars, boundVars,
                     greeted, otherPaused>>
  BY DEF Alert, Types, TypeOK
<1>2. Waits(alerted) \in BOOLEAN /\ Waits(session) \in BOOLEAN
  BY DEF Waits
<1>3. CASE Waits(alerted) = Waits(session)
  <2>1. UNCHANGED <<toClient, missedAlert>>
    BY <1>3 DEF Alert
  <2>2. AlertTold => AlertTold'
    BY <1>1, <1>3, <2>1 DEF AlertTold, clientVars, Waits
  <2>3. HelloFirst' /\ (Greeting' => Greeting)
    BY <1>1, <2>1, HelloKept DEF ChannelInv, clientVars
  <2>4. /\ SessionTold => SessionTold'
        /\ PauseTold => PauseTold'
        /\ GameTold => GameTold'
    BY <1>1, <2>1 DEF SessionTold, PauseTold, GameTold, clientVars
  <2>5. Connection' /\ TypeOK'
    BY <1>1, <2>1 DEF ChannelInv, Connection, Types, TypeOK, clientVars
  <2> QED BY <1>1, <2>1, <2>2, <2>3, <2>4, <2>5 DEF Types, ChannelInv, clientVars
<1>4. CASE Waits(alerted) # Waits(session)
  <2> DEFINE m == [type |-> "alert", kind |-> IF Waits(session) THEN "needs-you" ELSE "clear"]
  <2>1. Send(<<m>>) /\ missedAlert' = (missedAlert \/ socket # "open")
    BY <1>4 DEF Alert
  <2>2. m \in Messages /\ m.type = "alert" /\ (m.kind = "needs-you") = Waits(alerted')
    BY <1>1, <1>2, MessageTypes DEF Waits
  <2> HIDE DEF m
  <2>3. /\ toClient' \in Seq(Messages) /\ toClient \in Seq(Messages)
        /\ socket = "open" => toClient' = toClient \o <<m>>
        /\ socket # "open" => toClient' = toClient
    BY <2>1, <2>2, SendParts DEF Types
  <2>4. HelloFirst' /\ (Greeting' => Greeting)
    BY <1>1, <2>1, <2>2, HelloKept DEF ChannelInv, clientVars
  <2>5. m.type \in AlertTypes /\ m.type \notin SessionTypes /\ m.type \notin PauseTypes /\ m.type \notin GameTypes
    BY <2>2 DEF SessionTypes, PauseTypes, GameTypes, AlertTypes
  <2>6. socket = "open" => AlertTold'
    BY <1>1, <2>2, <2>3, <2>5, AlertSent DEF AlertTold, clientVars, Waits
  <2>7. socket # "open" => missedAlert'
    BY <2>1
  <2>8. SessionTold => SessionTold'
    BY <1>1, <2>2, <2>3, <2>5, SessionSent DEF SessionTold, clientVars
  <2>9. PauseTold => PauseTold'
    BY <1>1, <2>2, <2>3, <2>5, PauseSent DEF PauseTold, clientVars
  <2>10. GameTold => GameTold'
    BY <1>1, <2>2, <2>3, <2>5, GameSent DEF GameTold, clientVars
  <2>11. Connection'
    BY <1>1, <2>3 DEF ChannelInv, Connection, clientVars
  <2>12. TypeOK'
    BY <1>1, <2>1 DEF Types, TypeOK, clientVars
  <2> QED BY <1>1, <2>3, <2>4, <2>6, <2>7, <2>8, <2>9, <2>10, <2>11, <2>12 DEF Types, ChannelInv, clientVars
<1> QED BY <1>3, <1>4

LEMMA OtherPausesStep ==
  ASSUME Types, ChannelInv, OtherPauses
  PROVE  Types' /\ ChannelInv'
<1>1. /\ paused' = ~paused /\ otherPaused'
      /\ UNCHANGED <<up, session, alerted, game, gameTimer, pendingGame, toClient, toServer, clientVars,
                     greeted, missedAlert>>
      /\ otherPaused' \in BOOLEAN
  BY DEF OtherPauses
<1>2. HelloFirst' /\ (Greeting' => Greeting)
  BY <1>1, HelloKept DEF ChannelInv, clientVars
<1>3. /\ SessionTold => SessionTold'
      /\ GameTold => GameTold'
      /\ AlertTold => AlertTold'
  BY <1>1 DEF SessionTold, GameTold, AlertTold, clientVars, Waits
<1>4. Connection' /\ TypeOK'
  BY <1>1 DEF ChannelInv, Connection, Types, TypeOK, clientVars
<1> QED BY <1>1, <1>2, <1>3, <1>4 DEF Types, ChannelInv, clientVars

LEMMA CommandStep ==
  ASSUME Types, ChannelInv, HandleLine, Command(Head(toServer))
  PROVE  Types' /\ ChannelInv'
<1> DEFINE m == Status
<1>1. /\ up /\ paused' \in BOOLEAN /\ otherPaused' = FALSE /\ Send(<<m>>)
      /\ UNCHANGED <<up, session, alerted, game, gameTimer, pendingGame, clientVars, boundVars,
                     greeted, missedAlert>>
  BY DEF HandleLine, Command
<1>2. m \in Messages /\ m.type = "status" /\ m.paused = paused' /\ m.session = session
  BY <1>1, MessageTypes
<1> HIDE DEF m
<1>3. /\ toClient' \in Seq(Messages) /\ toClient \in Seq(Messages)
      /\ socket = "open" => toClient' = toClient \o <<m>>
      /\ socket # "open" => toClient' = toClient
  BY <1>1, <1>2, SendParts DEF Types
<1>4. HelloFirst' /\ (Greeting' => Greeting)
  BY <1>1, <1>2, HelloKept DEF ChannelInv, clientVars
<1>5. m.type \in SessionTypes /\ m.type \in PauseTypes /\ m.type \notin GameTypes /\ m.type \notin AlertTypes
  BY <1>2 DEF SessionTypes, PauseTypes, GameTypes, AlertTypes
<1>6. socket = "open" => SessionTold'
  BY <1>1, <1>2, <1>3, <1>5, SessionSent DEF SessionTold, clientVars
<1>7. socket = "open" => PauseTold'
  BY <1>1, <1>2, <1>3, <1>5, PauseSent DEF PauseTold, clientVars
<1>8. GameTold => GameTold'
  BY <1>1, <1>2, <1>3, <1>5, GameSent DEF GameTold, clientVars
<1>9. AlertTold => AlertTold'
  BY <1>1, <1>2, <1>3, <1>5, AlertSent DEF AlertTold, clientVars, Waits
<1>10. Connection'
  BY <1>1, <1>3 DEF ChannelInv, Connection, clientVars
<1>11. TypeOK'
  BY <1>1 DEF Types, TypeOK, clientVars
<1> QED BY <1>1, <1>3, <1>4, <1>6, <1>7, <1>8, <1>9, <1>10, <1>11 DEF Types, ChannelInv, clientVars

LEMMA PlayerActionStep ==
  ASSUME Types, ChannelInv, HandleLine, PlayerAction(Head(toServer))
  PROVE  Types' /\ ChannelInv'
<1>1. /\ game' \in Games /\ Throttled(game')
      /\ UNCHANGED <<up, paused, session, alerted, clientVars, boundVars, history>>
  <2>1. game \in Games
    BY DEF Types, TypeOK
  <2>2. game' = game \/ game' = [version |-> game.version + 1, ready |-> FALSE]
    BY DEF PlayerAction
  <2>3. game' \in Games
    BY <2>1, <2>2, NextGame
  <2> QED BY <2>3 DEF HandleLine, PlayerAction, history
<1>2. /\ pendingGame' # None => gameTimer' /\ pendingGame' = game'
      /\ pendingGame' \in Games \cup {None} /\ gameTimer' \in BOOLEAN
      /\ socket = "open" /\ pendingGame' = None => GameTold'
      /\ toClient' \in Seq(Messages)
      /\ \/ UNCHANGED toClient
         \/ Send(<<GameState(game')>>)
  BY <1>1, ThrottledKeeps DEF ChannelInv, clientVars
<1>3. GameState(game') \in Messages /\ GameState(game').type # "hello"
  BY <1>1, MessageTypes
<1>4. HelloFirst' /\ (Greeting' => Greeting)
  BY <1>1, <1>2, <1>3, HelloKept DEF ChannelInv, clientVars, history
<1>5. /\ SessionTold => SessionTold'
      /\ PauseTold => PauseTold'
      /\ AlertTold => AlertTold'
  BY <1>1, <1>2, PushKeeps DEF SessionTold, PauseTold, AlertTold, clientVars
<1>6. Connection'
  <2>1. toClient' = toClient \/ socket = "open"
    BY <1>2 DEF Send
  <2> QED BY <1>1, <1>2, <2>1 DEF ChannelInv, Connection, clientVars
<1>7. TypeOK'
  BY <1>1, <1>2 DEF Types, TypeOK, clientVars, history
<1> QED BY <1>1, <1>2, <1>4, <1>5, <1>6, <1>7 DEF Types, ChannelInv, clientVars, history

LEMMA HandleLineStep ==
  ASSUME Types, ChannelInv, HandleLine
  PROVE  Types' /\ ChannelInv'
<1>1. Command(Head(toServer)) \/ PlayerAction(Head(toServer))
  BY DEF HandleLine
<1> QED BY <1>1, CommandStep, PlayerActionStep

LEMMA DaemonEndsStep ==
  ASSUME Types, ChannelInv, DaemonEnds
  PROVE  Types' /\ ChannelInv'
<1>1. /\ ~up' /\ up' \in BOOLEAN /\ ~gameTimer' /\ gameTimer' \in BOOLEAN /\ pendingGame' = None
      /\ socket' # "open" /\ socket' \in {"none", "open", "closing"}
      /\ (socket' = "none") = (socket = "none")
      /\ UNCHANGED <<paused, session, alerted, game, toClient, reconnect, stopped, lineBuffer, store,
                     mode, boundVars, history>>
  BY DEF DaemonEnds, Types, TypeOK
<1>2. HelloFirst'
  BY <1>1 DEF ChannelInv, HelloFirst, history
<1>3. AlertTold => AlertTold'
  BY <1>1 DEF AlertTold, Waits
<1>4. Connection' /\ TypeOK'
  BY <1>1 DEF ChannelInv, Connection, Types, TypeOK, history
<1> QED BY <1>1, <1>2, <1>3, <1>4 DEF Types, ChannelInv, history

LEMMA DaemonStartsStep ==
  ASSUME Types, ChannelInv, DaemonStarts
  PROVE  Types' /\ ChannelInv'
<1>1. /\ up' = TRUE /\ paused' = FALSE /\ alerted' = session /\ session \in Nat /\ socket # "open"
      /\ missedAlert' = (missedAlert \/ Waits(session) # Waits(alerted))
      /\ UNCHANGED <<session, game, gameTimer, pendingGame, toClient, toServer, clientVars,
                     inputs, greeted, otherPaused>>
  BY DEF DaemonStarts, ChannelInv, Connection, Types, TypeOK
<1>2. HelloFirst'
  BY <1>1 DEF ChannelInv, HelloFirst, clientVars
<1>3. AlertTold => AlertTold' \/ missedAlert'
  BY <1>1 DEF AlertTold, Waits, clientVars
<1>4. Connection'
  BY <1>1 DEF ChannelInv, Connection, clientVars
<1>5. {missedAlert, missedAlert'} \subseteq BOOLEAN
  BY <1>1 DEF Types, TypeOK
<1>6. TypeOK'
  <2>1. session' = session /\ up' \in BOOLEAN /\ paused' \in BOOLEAN
    BY <1>1 DEF clientVars
  <2>2. alerted' \in 0..session'
    BY <1>1, <2>1
  <2> QED BY <1>1, <1>5, <2>1, <2>2 DEF Types, TypeOK, clientVars
<1> QED BY <1>1, <1>2, <1>3, <1>4, <1>6 DEF Types, ChannelInv, clientVars
-----------------------------------------------------------------------------
(* The steps of the client *)

LEMMA AttemptStep ==
  ASSUME Types, ChannelInv, Attempt
  PROVE  Types' /\ ChannelInv'
<1>1. /\ ~stopped /\ socket = "none" /\ toClient = <<>>
      /\ UNCHANGED <<daemonVars, stopped, lineBuffer, mode, boundVars, missedAlert>>
      /\ \E connection \in {"connecting", "connected", "disconnected"} :
           store' = [store EXCEPT !.connection = connection]
  BY DEF Attempt, ChannelInv, Connection
<1>2. /\ store' \in [connection : {"connecting", "connected", "disconnected"}, paused : BOOLEAN,
                     session : Nat, alert : BOOLEAN, game : Games \cup {None}]
      /\ store'.session = store.session /\ store'.paused = store.paused
      /\ store'.alert = store.alert /\ store'.game = store.game
  BY <1>1 DEF Types, TypeOK
<1>3. CASE up
  <2> DEFINE hello == Hello
             push == GameState(game)
  <2>1. /\ socket' = "open" /\ reconnect' = FALSE /\ toClient' = <<hello, push>>
        /\ greeted' = FALSE /\ otherPaused' = FALSE
    BY <1>3 DEF Attempt
  <2>2. /\ hello \in Messages /\ hello.type = "hello" /\ hello.paused = paused /\ hello.session = session
        /\ push \in Messages /\ push.type = "game-state" /\ push.game = game
    BY MessageTypes DEF Types, TypeOK
  <2> HIDE DEF hello, push
  <2>3. /\ toClient' \in Seq(Messages) /\ Len(toClient') = 2 /\ toClient' # <<>>
        /\ toClient'[1] = hello /\ toClient'[2] = push
    BY <2>1, <2>2
  <2>4. HelloFirst'
    BY <2>1, <2>2, <2>3 DEF HelloFirst
  <2>5. 1 \in 1..2 /\ 2 \in 1..2 /\ 2 \in 1 + 1..2 /\ \A i \in 1..2 : i = 1 \/ i = 2
    OBVIOUS
  <2>6. SessionTold'
    BY <1>1, <2>2, <2>3, <2>5 DEF SessionTold, SessionLast, LastOf, NoneOf, SessionTypes, daemonVars
  <2>7. PauseTold'
    BY <1>1, <2>2, <2>3, <2>5 DEF PauseTold, PauseLast, LastOf, NoneOf, PauseTypes, daemonVars
  <2>8. GameTold'
    BY <1>1, <2>2, <2>3, <2>5 DEF GameTold, GameLast, LastOf, NoneOf, GameTypes, daemonVars
  <2>9. AlertTold => AlertTold'
    <3>1. AlertTold => store.alert = Waits(alerted)
      BY <1>1 DEF AlertTold, AlertLast, NoneOf
    <3>2. \A i \in 1..Len(toClient') : toClient'[i].type \notin AlertTypes
      BY <2>2, <2>3, <2>5 DEF AlertTypes
    <3>3. alerted' = alerted
      BY <1>1 DEF daemonVars
    <3> QED BY <1>2, <3>1, <3>2, <3>3 DEF AlertTold, AlertLast, LastOf, Waits
  <2>10. Connection'
    BY <1>1, <1>3, <2>1 DEF ChannelInv, Connection, daemonVars
  <2>11. TypeOK'
    BY <1>1, <1>2, <2>1 DEF Types, TypeOK, daemonVars
  <2> QED BY <1>1, <2>3, <2>4, <2>6, <2>7, <2>8, <2>9, <2>10, <2>11 DEF Types, ChannelInv
<1>4. CASE ~up
  <2>1. reconnect' = TRUE /\ UNCHANGED <<socket, toClient, toServer, greeted, otherPaused>>
    BY <1>4 DEF Attempt
  <2>2. HelloFirst'
    BY <1>1, <2>1 DEF ChannelInv, HelloFirst
  <2>3. AlertTold => AlertTold'
    BY <1>1, <1>2, <2>1 DEF AlertTold, daemonVars, Waits
  <2>4. Connection'
    BY <1>1, <2>1 DEF ChannelInv, Connection, daemonVars
  <2>5. TypeOK'
    BY <1>1, <1>2, <2>1 DEF Types, TypeOK, daemonVars
  <2> QED BY <1>1, <2>1, <2>2, <2>3, <2>4, <2>5 DEF Types, ChannelInv
<1> QED BY <1>3, <1>4

LEMMA ConnectionDownStep ==
  ASSUME Types, ChannelInv, ConnectionDown
  PROVE  Types' /\ ChannelInv'
<1>1. /\ socket = "closing" /\ socket' = "none" /\ reconnect' = TRUE /\ toClient' = <<>>
      /\ store' = [store EXCEPT !.connection = "disconnected"]
      /\ lineBuffer' \in {"empty", "current", "stale"}
      /\ missedAlert' = (missedAlert \/ \E i \in DOMAIN toClient : toClient[i].type = "alert")
      /\ UNCHANGED <<daemonVars, toServer, stopped, mode, boundVars, greeted, otherPaused>>
  BY DEF ConnectionDown
<1>2. /\ store' \in [connection : {"connecting", "connected", "disconnected"}, paused : BOOLEAN,
                     session : Nat, alert : BOOLEAN, game : Games \cup {None}]
      /\ store'.alert = store.alert
  BY <1>1 DEF Types, TypeOK
<1>3. toClient' \in Seq(Messages) /\ Len(toClient') = 0
  BY <1>1
<1>4. HelloFirst'
  BY <1>1, <1>3 DEF HelloFirst
<1>5. AlertTold => AlertTold' \/ missedAlert'
  <2>1. SUFFICES ASSUME AlertTold, ~missedAlert'
                 PROVE  AlertTold'
    OBVIOUS
  <2>2. NoneOf(toClient, AlertTypes)
    <3>1. DOMAIN toClient = 1..Len(toClient)
      BY DEF Types
    <3>2. \A i \in 1..Len(toClient) : toClient[i].type # "alert"
      BY <1>1, <2>1, <3>1
    <3> QED BY <3>2 DEF NoneOf, AlertTypes
  <2>3. store.alert = Waits(alerted) /\ alerted' = alerted
    BY <1>1, <2>1, <2>2 DEF AlertTold, AlertLast, daemonVars
  <2> QED BY <1>2, <1>3, <2>3 DEF AlertTold, AlertLast, Waits
<1>6. Connection'
  BY <1>1 DEF ChannelInv, Connection, daemonVars
<1>7. {missedAlert, missedAlert'} \subseteq BOOLEAN
  BY <1>1 DEF Types, TypeOK
<1>8. TypeOK'
  BY <1>1, <1>2, <1>7 DEF Types, TypeOK, daemonVars
<1> QED BY <1>1, <1>3, <1>4, <1>5, <1>6, <1>8 DEF Types, ChannelInv

LEMMA DeliverPartStep ==
  ASSUME Types, ChannelInv, DeliverPart
  PROVE  Types' /\ ChannelInv'
<1>1. /\ lineBuffer = "empty" /\ lineBuffer' = "current"
      /\ UNCHANGED <<daemonVars, toClient, toServer, socket, reconnect, stopped, store, mode, boundVars, history>>
  BY DEF DeliverPart
<1>2. HelloFirst' /\ (Greeting' => Greeting)
  BY <1>1 DEF ChannelInv, HelloFirst, Greeting, history
<1>3. /\ SessionTold => SessionTold'
      /\ PauseTold => PauseTold'
      /\ GameTold => GameTold'
      /\ AlertTold => AlertTold'
  BY <1>1 DEF SessionTold, PauseTold, GameTold, AlertTold, Waits, daemonVars
<1>4. Connection' /\ TypeOK'
  BY <1>1 DEF ChannelInv, Connection, Types, TypeOK, daemonVars, history
<1> QED BY <1>1, <1>2, <1>3, <1>4 DEF Types, ChannelInv, daemonVars, history

LEMMA KeyStep ==
  ASSUME Types, ChannelInv, Key
  PROVE  Types' /\ ChannelInv'
<1>1. /\ mode' \in {"main", "confirm-ship", "breakthroughs"}
      /\ UNCHANGED <<daemonVars, toClient, socket, reconnect, stopped, lineBuffer, store, history>>
  BY DEF Key, Types, TypeOK
<1>2. HelloFirst' /\ (Greeting' => Greeting)
  BY <1>1 DEF ChannelInv, HelloFirst, Greeting, history
<1>3. /\ SessionTold => SessionTold'
      /\ PauseTold => PauseTold'
      /\ GameTold => GameTold'
      /\ AlertTold => AlertTold'
  BY <1>1 DEF SessionTold, PauseTold, GameTold, AlertTold, Waits, daemonVars
<1>4. Connection' /\ TypeOK'
  BY <1>1 DEF ChannelInv, Connection, Types, TypeOK, daemonVars, history
<1> QED BY <1>1, <1>2, <1>3, <1>4 DEF Types, ChannelInv, daemonVars, history

LEMMA QuitStep ==
  ASSUME Types, ChannelInv, Quit
  PROVE  Types' /\ ChannelInv'
<1>1. /\ stopped' = TRUE /\ reconnect' = FALSE /\ socket' = "none" /\ toClient' = <<>>
      /\ UNCHANGED <<daemonVars, toServer, lineBuffer, store, mode, boundVars, history>>
  BY DEF Quit
<1>2. toClient' \in Seq(Messages) /\ Len(toClient') = 0
  BY <1>1
<1>3. HelloFirst'
  BY <1>1, <1>2 DEF HelloFirst
<1>4. Connection' /\ TypeOK'
  BY <1>1 DEF ChannelInv, Connection, Types, TypeOK, daemonVars, history
<1> QED BY <1>1, <1>2, <1>3, <1>4 DEF Types, ChannelInv
LEMMA AppliedParts ==
  ASSUME Types, NEW m \in Messages
  PROVE  /\ ApplyMessage(store, m) \in
              [connection : {"connecting", "connected", "disconnected"}, paused : BOOLEAN,
               session : Nat, alert : BOOLEAN, game : Games \cup {None}]
         /\ ApplyMessage(store, m).session = IF m.type \in SessionTypes THEN m.session ELSE store.session
         /\ ApplyMessage(store, m).paused = IF m.type \in PauseTypes THEN m.paused ELSE store.paused
         /\ ApplyMessage(store, m).game = IF m.type \in GameTypes THEN m.game ELSE store.game
         /\ ApplyMessage(store, m).alert =
              IF m.type \in AlertTypes THEN m.kind = "needs-you" ELSE store.alert
<1> DEFINE a == ApplyMessage(store, m)
<1>1. store \in [connection : {"connecting", "connected", "disconnected"}, paused : BOOLEAN,
                 session : Nat, alert : BOOLEAN, game : Games \cup {None}]
  BY DEF Types, TypeOK
<1>2. CASE m.type = "hello"
  <2>1. a = [store EXCEPT !.connection = "connected", !.paused = m.paused, !.session = m.session]
    BY <1>2 DEF ApplyMessage
  <2> HIDE DEF a
  <2>2. m.paused \in BOOLEAN /\ m.session \in Nat
    BY <1>2, MessageParts DEF PauseTypes, SessionTypes
  <2> QED BY <1>1, <1>2, <2>1, <2>2 DEF SessionTypes, PauseTypes, GameTypes, AlertTypes, a
<1>3. CASE m.type = "status"
  <2>1. a = [store EXCEPT !.paused = m.paused, !.session = m.session]
    BY <1>3 DEF ApplyMessage
  <2>2. m.paused \in BOOLEAN /\ m.session \in Nat
    BY <1>3, MessageParts DEF PauseTypes, SessionTypes
  <2> QED BY <1>1, <1>3, <2>1, <2>2 DEF SessionTypes, PauseTypes, GameTypes, AlertTypes
<1>4. CASE m.type = "session-state"
  <2>1. a = [store EXCEPT !.session = m.session]
    BY <1>4 DEF ApplyMessage
  <2>2. m.session \in Nat
    BY <1>4, MessageParts DEF SessionTypes
  <2> QED BY <1>1, <1>4, <2>1, <2>2 DEF SessionTypes, PauseTypes, GameTypes, AlertTypes
<1>5. CASE m.type = "alert"
  <2>1. a = [store EXCEPT !.alert = (m.kind = "needs-you")]
    BY <1>5 DEF ApplyMessage
  <2> QED BY <1>1, <1>5, <2>1 DEF SessionTypes, PauseTypes, GameTypes, AlertTypes
<1>6. CASE m.type = "game-state"
  <2>1. a = [store EXCEPT !.game = m.game]
    BY <1>6 DEF ApplyMessage
  <2>2. m.game \in Games
    BY <1>6, MessageParts
  <2> QED BY <1>1, <1>6, <2>1, <2>2 DEF SessionTypes, PauseTypes, GameTypes, AlertTypes
<1> QED BY <1>2, <1>3, <1>4, <1>5, <1>6, MessageParts

LEMMA DeliverStep ==
  ASSUME Types, ChannelInv, Deliver
  PROVE  Types' /\ ChannelInv'
<1>1. /\ socket # "none" /\ toClient # <<>> /\ toClient' = Tail(toClient)
      /\ lineBuffer' = "empty"
      /\ UNCHANGED <<daemonVars, toServer, socket, reconnect, stopped, mode, boundVars,
                     missedAlert, otherPaused>>
  BY DEF Deliver
<1> DEFINE m == toClient[1]
<1>2. /\ toClient \in Seq(Messages) /\ m \in Messages /\ toClient' \in Seq(Messages)
      /\ Len(toClient) \in Nat \ {0} /\ Len(toClient') = Len(toClient) - 1 /\ Head(toClient) = m
      /\ \A i \in 1..Len(toClient') : i + 1 \in 1..Len(toClient) /\ toClient'[i] = toClient[i + 1]
  BY <1>1, TakenParts DEF Types
<1> HIDE DEF m
<1>3. \A i \in 1..Len(toClient') : toClient'[i].type # "hello"
  <2>1. \A i \in 1..Len(toClient') : i + 1 \in 2..Len(toClient)
    BY <1>2
  <2> QED BY <1>2, <2>1 DEF ChannelInv, HelloFirst
<1>4. toClient' # <<>> => toClient'[1].type # "hello"
  <2>1. toClient' # <<>> => 1 \in 1..Len(toClient')
    BY <1>2
  <2> QED BY <1>3, <2>1
<1>5. HelloFirst'
  <2>1. \A i \in 2..Len(toClient') : i \in 1..Len(toClient')
    BY <1>2
  <2> QED BY <1>1, <1>3, <1>4, <2>1 DEF HelloFirst
<1>6. Greeting' => greeted'
  BY <1>4 DEF Greeting
<1>7. Connection'
  BY <1>1 DEF ChannelInv, Connection, daemonVars
<1>8. CASE lineBuffer = "stale"
  <2>1. UNCHANGED <<store, greeted>> /\ m.type = "hello" /\ ~greeted
    BY <1>1, <1>8 DEF Deliver, ChannelInv, HelloFirst, m
  <2>2. m.type \notin GameTypes /\ m.type \notin AlertTypes
    BY <2>1 DEF GameTypes, AlertTypes
  <2>3. GameTold => GameTold'
    BY <1>1, <1>2, <2>1, <2>2, GameTaken DEF GameTold, daemonVars, m
  <2>4. AlertTold => AlertTold'
    BY <1>1, <1>2, <2>1, <2>2, AlertTaken DEF AlertTold, daemonVars, Waits, m
  <2>5. TypeOK'
    BY <1>1, <2>1 DEF Types, TypeOK, daemonVars
  <2> QED BY <1>1, <1>2, <1>5, <1>6, <1>7, <2>1, <2>3, <2>4, <2>5 DEF Types, ChannelInv, daemonVars
<1>9. CASE lineBuffer # "stale"
  <2>1. store' = ApplyMessage(store, m) /\ greeted' = (greeted \/ m.type = "hello")
    BY <1>2, <1>9 DEF Deliver
  <2>2. /\ store' \in [connection : {"connecting", "connected", "disconnected"}, paused : BOOLEAN,
                       session : Nat, alert : BOOLEAN, game : Games \cup {None}]
        /\ store'.session = IF m.type \in SessionTypes THEN m.session ELSE store.session
        /\ store'.paused = IF m.type \in PauseTypes THEN m.paused ELSE store.paused
        /\ store'.game = IF m.type \in GameTypes THEN m.game ELSE store.game
        /\ store'.alert = IF m.type \in AlertTypes THEN m.kind = "needs-you" ELSE store.alert
    BY <1>2, <2>1, AppliedParts
  <2>3. greeted' => Greeting
    BY <1>1, <1>9, <2>1 DEF Greeting, m
  <2>4. SessionTold => SessionTold'
    BY <1>1, <1>2, <2>2, SessionTaken DEF SessionTold, daemonVars, m
  <2>5. PauseTold => PauseTold'
    BY <1>1, <1>2, <2>2, PauseTaken DEF PauseTold, daemonVars, m
  <2>6. GameTold => GameTold'
    BY <1>1, <1>2, <2>2, GameTaken DEF GameTold, daemonVars, m
  <2>7. AlertTold => AlertTold'
    BY <1>1, <1>2, <2>2, AlertTaken DEF AlertTold, daemonVars, Waits, m
  <2>8. {greeted, greeted'} \subseteq BOOLEAN
    BY <2>1 DEF Types, TypeOK
  <2>9. TypeOK'
    BY <1>1, <2>2, <2>8 DEF Types, TypeOK, daemonVars
  <2> QED BY <1>1, <1>2, <1>5, <1>6, <1>7, <2>3, <2>4, <2>5, <2>6, <2>7, <2>9 DEF Types, ChannelInv, daemonVars
<1> QED BY <1>8, <1>9

-----------------------------------------------------------------------------
LEMMA ChannelStart ==
  ASSUME Init
  PROVE  Types /\ ChannelInv
<1>1. /\ toClient = <<>> /\ toClient \in Seq(Messages) /\ Len(toClient) = 0
      /\ session = 0 /\ alerted = 0 /\ 0 \in 0..0 /\ 0 \in Nat
      /\ game \in Games
  BY DEF Init, Games
<1>2. TypeOK
  BY <1>1 DEF Init, TypeOK
<1>3. HelloFirst /\ Connection
  BY <1>1 DEF Init, HelloFirst, Connection
<1>4. AlertTold
  <2>1. Waits(alerted) = FALSE /\ store.alert = FALSE
    BY <1>1 DEF Init, Waits
  <2>2. \A i \in 1..Len(toClient) : FALSE
    BY <1>1
  <2> QED BY <2>1, <2>2 DEF AlertTold, AlertLast
<1> QED BY <1>1, <1>2, <1>3, <1>4 DEF Init, Types, ChannelInv

LEMMA ChannelStep ==
  ASSUME Types, ChannelInv, [Next]_vars
  PROVE  Types' /\ ChannelInv'
<1>1. CASE UNCHANGED vars
  <2>1. Types' /\ HelloFirst' /\ Connection'
    BY <1>1 DEF vars, daemonVars, clientVars, boundVars, history, Types, TypeOK, ChannelInv, HelloFirst, Connection
  <2>2. /\ Greeting' => Greeting
        /\ SessionTold => SessionTold'
        /\ PauseTold => PauseTold'
        /\ GameTold => GameTold'
        /\ AlertTold => AlertTold'
    BY <1>1 DEF vars, daemonVars, clientVars, history, Greeting, SessionTold, PauseTold, GameTold, AlertTold, Waits
  <2> QED BY <1>1, <2>1, <2>2 DEF vars, daemonVars, clientVars, history, ChannelInv
<1>2. CASE Next
  BY <1>2, ThrottleFiresStep, GameChangesStep, SessionChangesStep, AlertStep, OtherPausesStep,
     HandleLineStep, DaemonEndsStep, DaemonStartsStep, AttemptStep, ConnectionDownStep, DeliverStep,
     DeliverPartStep, KeyStep, QuitStep DEF Next
<1> QED BY <1>1, <1>2

LEMMA ChannelInvariant == Spec => [](Types /\ ChannelInv)
<1>1. Init => Types /\ ChannelInv
  BY ChannelStart
<1>2. Types /\ ChannelInv /\ [Next]_vars => (Types /\ ChannelInv)'
  BY ChannelStep
<1> QED BY <1>1, <1>2, PTL DEF Spec

(* Every variable of the channel keeps its type, the messages under way    *)
(* included.                                                               *)
THEOREM ChannelTypeCorrect == Spec => []TypeOK
<1>1. Types /\ ChannelInv => TypeOK
  BY DEF Types
<1> QED BY <1>1, ChannelInvariant, PTL

(* A UI that has read what was sent to it shows the daemon's session and   *)
(* pause, its game or the one a throttled push is about to replace, and a  *)
(* banner that matches the last alert: whatever is lost with a connection, *)
(* cut within a line or pushed behind a timer (ipc-server.ts, daemon.ts    *)
(* broadcastGameState, client.ts, store.ts applyMessage).                  *)
THEOREM UiStaysInStep == Spec => []InStep
<1>1. Types /\ ChannelInv => InStep
  <2>1. SUFFICES ASSUME Types, ChannelInv, socket = "open", toClient = <<>>
                 PROVE  /\ greeted => store.session = session /\ (store.paused = paused \/ otherPaused)
                        /\ store.game = game \/ (gameTimer /\ pendingGame = game)
                        /\ store.alert = Waits(alerted) \/ missedAlert
    BY DEF InStep
  <2>2. \A types : NoneOf(toClient, types)
    BY <2>1 DEF NoneOf
  <2>3. /\ SessionTold => store.session = session
        /\ PauseTold => store.paused = paused
        /\ GameTold => store.game = game
        /\ AlertTold => store.alert = Waits(alerted)
    BY <2>2 DEF SessionTold, PauseTold, GameTold, AlertTold, SessionLast, PauseLast, GameLast, AlertLast
  <2>4. greeted => SessionTold /\ (PauseTold \/ otherPaused)
    BY <2>1 DEF ChannelInv, Greeting
  <2>5. GameTold \/ (gameTimer /\ pendingGame = game)
    BY <2>1 DEF ChannelInv, Connection
  <2>6. AlertTold \/ missedAlert
    BY <2>1 DEF ChannelInv, Connection
  <2> QED BY <2>3, <2>4, <2>5, <2>6
<1> QED BY <1>1, ChannelInvariant, PTL
=============================================================================
