----------------------------- MODULE CliProofs ------------------------------
(***************************************************************************)
(* Theorems about what the CLI and the daemon keep on disk. Operations,    *)
(* for any daemons, shells, panes and sessions: its types, one daemon, the *)
(* panes found again, and the hooks in the settings file. Corpus, for any  *)
(* transcripts, commands and writes: its types, and that neither an import *)
(* nor a snapshot takes for unchanged what has changed.                    *)
(***************************************************************************)
EXTENDS Operations, Corpus, SumFacts, SequenceTheorems

(***************************************************************************)
(* Operations                                                              *)
(***************************************************************************)

-----------------------------------------------------------------------------
(* The first of the registrations that match. *)

\* What SelectInSeq answers about the matches of a sequence: none, or the first.
LEMMA FirstMatch ==
  ASSUME NEW n \in Nat, NEW I \in SUBSET (1..n)
  PROVE  /\ I # {} => Min(I) \in I /\ \A j \in I : Min(I) <= j
         /\ \A i \in I : (\A j \in I : i <= j) => Min(I) = i
<1>1. CASE I # {}
  <2>1. I \in SUBSET Nat
    OBVIOUS
  <2>2. \E m \in I : \A k \in I : m <= k
    BY <1>1, <2>1, LeastNatural
  <2>3. Min(I) \in I /\ \A j \in I : Min(I) <= j
    BY <2>2 DEF Min
  <2>4. ASSUME NEW i \in I, \A j \in I : i <= j PROVE Min(I) = i
    <3>1. Min(I) <= i /\ i <= Min(I) /\ Min(I) \in Nat /\ i \in Nat
      BY <2>1, <2>3, <2>4
    <3> HIDE DEF Min
    <3> QED  BY <3>1
  <2> QED  BY <2>3, <2>4
<1> QED  BY <1>1

LEMMA EntryFields ==
  ASSUME NEW entry \in Entries
  PROVE  /\ entry.pane \in Panes \cup {None} /\ entry.session \in Sessions \cup {None}
         /\ entry["session"] = entry.session
BY DEF Entries

\* A session is found in the pane of the first registration that names it.
LEMMA FirstPaneOfSession ==
  ASSUME NEW cc \in Seq(Entries), NEW session, NEW i \in 1..Len(cc),
         cc[i].session = session,
         \A j \in 1..Len(cc) : cc[j].session = session => i <= j
  PROVE  FirstPane(cc, "session", session) = cc[i].pane
<1> DEFINE I == {j \in 1..Len(cc) : cc[j]["session"] = session}
<1>1. i \in I /\ \A j \in I : i <= j
  OBVIOUS
<1>2. Len(cc) \in Nat /\ I \in SUBSET (1..Len(cc))
  OBVIOUS
<1>3. FirstPane(cc, "session", session) =
        LET k == IF I # {} THEN Min(I) ELSE 0 IN IF k = 0 THEN None ELSE cc[k].pane
  BY DEF FirstPane, SelectInSeq
<1> HIDE DEF I
<1>4. Min(I) = i
  BY <1>1, <1>2, FirstMatch
<1> QED  BY <1>1, <1>3, <1>4

(***************************************************************************)
(* registerCc puts the entry in one place: the first that it matches, or a *)
(* new one at the end; every other registration stays as it is.            *)
(***************************************************************************)
LEMMA RegisteredAt ==
  ASSUME NEW data \in Registrations, NEW entry \in Entries
  PROVE  /\ RegisterCc(data, entry) \in Registrations
         /\ RegisterCc(data, entry).game = data.game
         /\ \E i \in 1..Len(RegisterCc(data, entry).cc) :
              /\ RegisterCc(data, entry).cc[i] = entry
              /\ \A j \in 1..(i-1) : j <= Len(data.cc) /\ ~Matches(data.cc[j], entry)
              /\ i <= Len(data.cc) => Matches(data.cc[i], entry)
              /\ Len(data.cc) <= Len(RegisterCc(data, entry).cc)
              /\ \A j \in 1..Len(data.cc) : j # i => RegisterCc(data, entry).cc[j] = data.cc[j]
<1> DEFINE cc == data.cc
           I == {j \in 1..Len(cc) : Matches(cc[j], entry)}
           after == RegisterCc(data, entry)
<1>1. cc \in Seq(Entries) /\ Len(cc) \in Nat /\ I \in SUBSET (1..Len(cc))
  BY DEF Registrations
<1>2. after = LET i == IF I # {} THEN Min(I) ELSE 0 IN
                IF i = 0 THEN [data EXCEPT !.cc = Append(@, entry)] ELSE [data EXCEPT !.cc[i] = entry]
  BY DEF RegisterCc, SelectInSeq
<1>3. CASE I = {}
  <2>1. after = [data EXCEPT !.cc = Append(@, entry)]
    BY <1>2, <1>3
  <2>2. after.cc = Append(cc, entry) /\ after.game = data.game
    BY <2>1 DEF Registrations
  <2>3. after \in Registrations
    BY <2>1, <1>1 DEF Registrations
  <2>4. \A j \in 1..Len(cc) : ~Matches(cc[j], entry)
    BY <1>3
  <2> HIDE DEF after, cc
  <2>5. /\ Len(after.cc) = Len(cc) + 1 /\ after.cc[Len(cc) + 1] = entry
        /\ \A j \in 1..Len(cc) : after.cc[j] = cc[j]
    BY <1>1, <2>2
  <2>6. /\ Len(cc) + 1 \in 1..Len(after.cc) /\ Len(cc) + 1 > Len(cc)
        /\ \A j \in 1..(Len(cc) + 1 - 1) : j \in 1..Len(cc) /\ j <= Len(cc)
    BY <1>1, <2>5
  <2>7. \E i \in 1..Len(after.cc) :
           /\ after.cc[i] = entry
           /\ \A j \in 1..(i-1) : j <= Len(cc) /\ ~Matches(cc[j], entry)
           /\ i <= Len(cc) => Matches(cc[i], entry)
           /\ Len(cc) <= Len(after.cc)
           /\ \A j \in 1..Len(cc) : j # i => after.cc[j] = cc[j]
    BY <1>1, <2>4, <2>5, <2>6
  <2> QED  BY <2>2, <2>3, <2>7 DEF after, cc
<1>4. CASE I # {}
  <2> DEFINE i == Min(I)
  <2>1. i \in I /\ \A j \in I : i <= j
    <3> HIDE DEF I
    <3> QED  BY <1>1, <1>4, FirstMatch
  <2>2. i \in 1..Len(cc) /\ Matches(cc[i], entry)
    BY <2>1
  <2>3. \A j \in 1..(i-1) : j <= Len(cc) /\ ~Matches(cc[j], entry)
    <3> SUFFICES ASSUME NEW j \in 1..(i-1) PROVE j <= Len(cc) /\ ~Matches(cc[j], entry)
      OBVIOUS
    <3> HIDE DEF i
    <3>1. j \in 1..Len(cc) /\ ~(i <= j)
      BY <1>1, <2>2
    <3>2. j \notin I
      BY ONLY <2>1, <3>1
    <3> QED  BY <1>1, <3>1, <3>2
  <2> HIDE DEF i
  <2>4. after = [data EXCEPT !.cc[i] = entry]
    BY <1>2, <1>4, <2>2 DEF i
  <2>5. after.cc = [cc EXCEPT ![i] = entry] /\ after.game = data.game
    BY <2>4 DEF Registrations
  <2>6. after.cc \in Seq(Entries) /\ Len(after.cc) = Len(cc)
        /\ \A j \in 1..Len(cc) : after.cc[j] = IF j = i THEN entry ELSE cc[j]
    BY <1>1, <2>2, <2>5, ExceptSeq
  <2>7. after \in Registrations
    BY <2>4, <2>5, <2>6 DEF Registrations
  <2> HIDE DEF after, cc, I
  <2> QED  BY <1>1, <2>2, <2>3, <2>5, <2>6, <2>7 DEF after, cc
<1> QED  BY <1>3, <1>4

(***************************************************************************)
(* Registrations that keep what was told keep what the entry tells:        *)
(* whichever registration it replaces, no earlier one names its session,   *)
(* and the first one of another session goes only if its place is taken    *)
(* over.                                                                   *)
(***************************************************************************)
LEMMA RegisteredKeeps ==
  ASSUME NEW data \in Registrations, NEW entry \in Entries, NEW t \in Promises, Keeps(data, t)
  PROVE  Keeps(RegisterCc(data, entry), Tell(t, entry))
<1> DEFINE after == RegisterCc(data, entry)
<1>1. after \in Registrations
  BY RegisteredAt
<1>2. after.game = data.game
  BY RegisteredAt
<1>3. PICK i \in 1..Len(after.cc) :
         /\ after.cc[i] = entry
         /\ \A j \in 1..(i-1) : j <= Len(data.cc) /\ ~Matches(data.cc[j], entry)
         /\ i <= Len(data.cc) => Matches(data.cc[i], entry)
         /\ Len(data.cc) <= Len(after.cc)
         /\ \A j \in 1..Len(data.cc) : j # i => after.cc[j] = data.cc[j]
  BY RegisteredAt
<1> HIDE DEF after
<1>4. Len(data.cc) \in Nat /\ Len(after.cc) \in Nat /\ i \in Nat
  BY <1>1 DEF Registrations
<1>5. PICK u : u = Tell(t, entry)
  OBVIOUS
<1>6. /\ u.game = t.game
      /\ \A s \in Sessions : u.cc[s] =
           IF entry.session = s THEN IF entry.pane = None THEN NoEntry ELSE entry
           ELSE IF TakesOver(entry, t.cc[s]) THEN NoEntry ELSE t.cc[s]
  BY <1>5 DEF Tell, Promises
<1>7. ASSUME NEW s \in Sessions, u.cc[s].pane # None
      PROVE  \E k \in 1..Len(after.cc) :
                /\ after.cc[k] = u.cc[s] /\ after.cc[k].session = s
                /\ \A j \in 1..(k-1) : after.cc[j].session # s
  <2>1. s # None
    BY OperationsAssumption
  <2>2. CASE entry.session = s
    <3>1. u.cc[s] = entry
      BY <1>6, <1>7, <2>2 DEF NoEntry
    <3>2. ASSUME NEW j \in 1..(i-1) PROVE after.cc[j].session # s
      <4>1. j \in 1..Len(data.cc) /\ j # i /\ ~Matches(data.cc[j], entry)
        BY <1>3, <1>4
      <4> QED  BY <1>3, <2>1, <2>2, <4>1 DEF Matches
    <3> QED  BY <1>3, <2>2, <3>1, <3>2
  <2>3. CASE entry.session # s
    <3>1. u.cc[s] = t.cc[s] /\ ~TakesOver(entry, t.cc[s])
      BY <1>6, <1>7, <2>3 DEF NoEntry
    <3>2. PICK k \in 1..Len(data.cc) :
             /\ data.cc[k] = t.cc[s] /\ data.cc[k].session = s
             /\ \A j \in 1..(k-1) : data.cc[j].session # s
      BY <1>7, <3>1 DEF Keeps
    <3>3. ~Matches(data.cc[k], entry)
      BY <2>3, <3>1, <3>2 DEF Matches, TakesOver
    <3>4. k # i /\ k \in 1..Len(after.cc)
      BY <1>3, <1>4, <3>3
    <3>5. after.cc[k] = data.cc[k]
      BY <1>3, <3>4
    <3>6. ASSUME NEW j \in 1..(k-1) PROVE after.cc[j].session # s
      <4>1. j \in 1..Len(data.cc) /\ data.cc[j].session # s
        BY <1>4, <3>2
      <4> QED  BY <1>3, <2>3, <4>1
    <3> QED  BY <3>1, <3>2, <3>4, <3>5, <3>6
  <2> QED  BY <2>2, <2>3
<1>8. u.game = after.game
  BY <1>2, <1>6 DEF Keeps
<1> QED  BY <1>5, <1>7, <1>8 DEF Keeps, after

\* What is told stays in its type.
LEMMA TellType ==
  ASSUME NEW t \in Promises, NEW entry \in Entries
  PROVE  Tell(t, entry) \in Promises
<1>1. NoEntry \in Entries
  BY DEF NoEntry, Entries
<1> QED  BY <1>1 DEF Tell, Promises

\* Registrations that keep what was told answer with it.
LEMMA KeepsAnswers ==
  ASSUME NEW data \in Registrations, NEW t \in Promises, Keeps(data, t)
  PROVE  Answers(data, t)
<1>1. ASSUME NEW s \in Sessions, NEW cwd, t.cc[s].pane # None
      PROVE  ResolvePaneForSession(data, s, cwd) = t.cc[s].pane
  <2>1. data.cc \in Seq(Entries) /\ Len(data.cc) \in Nat
    BY DEF Registrations
  <2>2. PICK k \in 1..Len(data.cc) :
           /\ data.cc[k] = t.cc[s] /\ data.cc[k].session = s
           /\ \A j \in 1..(k-1) : data.cc[j].session # s
    BY <1>1 DEF Keeps
  <2>3. \A j \in 1..Len(data.cc) : data.cc[j].session = s => k <= j
    BY <2>1, <2>2
  <2>4. FirstPane(data.cc, "session", s) = t.cc[s].pane
    BY <2>1, <2>2, <2>3, FirstPaneOfSession
  <2> QED  BY <1>1, <2>4 DEF ResolvePaneForSession
<1> QED  BY <1>1 DEF Answers, Keeps

-----------------------------------------------------------------------------
(* Type correctness. *)

LEMMA TypeInit == Init => TypeOK
<1> SUFFICES ASSUME Init PROVE TypeOK
  OBVIOUS
<1>1. Empty \in Registrations /\ NothingTold \in Promises
  BY DEF Empty, Registrations, NoEntry, Entries, NothingTold, Promises
<1>2. [at |-> "unborn", data |-> Empty] \in [at : Places, data : Registrations]
  BY <1>1 DEF Places
<1>3. daemons \in [Daemons -> [at : Places, data : Registrations]]
  BY <1>2 DEF Init
<1>4. launchers \in [Launchers -> LauncherSteps] /\ commands \in 0 .. MaxCommands
  BY OperationsAssumption DEF Init, LauncherSteps
<1> QED  BY <1>1, <1>3, <1>4 DEF Init, TypeOK

\* A daemon goes to another place and keeps its registrations.
LEMMA ToType ==
  ASSUME TypeOK, NEW d \in Daemons, NEW at \in Places, To(d, at)
  PROVE  /\ daemons' \in [Daemons -> [at : Places, data : Registrations]]
         /\ At(d)' = at /\ daemons'[d].data = daemons[d].data
         /\ \A e \in Daemons \ {d} : daemons'[e] = daemons[e]
<1>1. daemons' = [daemons EXCEPT ![d] = [daemons[d] EXCEPT !.at = at]]
  BY DEF To
<1>2. daemons[d] \in [at : Places, data : Registrations]
  BY DEF TypeOK
<1>3. [daemons[d] EXCEPT !.at = at] \in [at : Places, data : Registrations]
  BY <1>2
<1> QED  BY <1>1, <1>2, <1>3 DEF TypeOK, At

LEMMA DoesType ==
  ASSUME TypeOK, NEW l \in Launchers, NEW step \in LauncherSteps, Does(l, step)
  PROVE  launchers' \in [Launchers -> LauncherSteps]
BY DEF TypeOK, Does

LEMMA CommandType ==
  ASSUME TypeOK, Command
  PROVE  commands' \in 0 .. MaxCommands
BY OperationsAssumption DEF TypeOK, Command

LEMMA TakesType ==
  ASSUME TypeOK, NEW d \in Daemons, NEW data \in Registrations, NEW t \in Promises,
         Takes(d, data, t)
  PROVE  /\ daemons' \in [Daemons -> [at : Places, data : Registrations]]
         /\ disk' \in Registrations /\ told' \in Promises /\ saved' \in Promises
         /\ daemons'[d].data = data
         /\ \A e \in Daemons : At(e)' = At(e) /\ (e # d => daemons'[e] = daemons[e])
<1>1. daemons' = [daemons EXCEPT ![d] = [daemons[d] EXCEPT !.data = data]]
  BY DEF Takes
<1>2. daemons[d] \in [at : Places, data : Registrations]
  BY DEF TypeOK
<1>3. [daemons[d] EXCEPT !.data = data] \in [at : Places, data : Registrations]
  BY <1>2
<1>4. disk' \in Registrations /\ told' \in Promises /\ saved' \in Promises
  BY DEF Takes, TypeOK
<1> QED  BY <1>1, <1>2, <1>3, <1>4 DEF TypeOK, At

LEMMA DaemonStepType ==
  ASSUME TypeOK, NEW d \in Daemons, DaemonStep(d)
  PROVE  TypeOK'
<1> USE DEF Places, Claimed
<1>1. CASE CheckPidfile(d)
  <2>1. \E at \in Places : To(d, at)
    BY <1>1 DEF CheckPidfile
  <2> QED  BY <1>1, <2>1, ToType DEF CheckPidfile, TypeOK
<1>2. CASE ClaimPidfile(d)
  <2>1. daemons' = [daemons EXCEPT ![d] = [at |-> "replaying", data |-> disk]]
    BY <1>2 DEF ClaimPidfile
  <2>2. daemons' \in [Daemons -> [at : Places, data : Registrations]]
    BY <2>1 DEF TypeOK
  <2>4. told' \in Promises /\ saved' \in Promises
    BY <1>2 DEF ClaimPidfile, TypeOK
  <2>5. raced' \in BOOLEAN /\ pidfile' \in Daemons
    BY <1>2 DEF ClaimPidfile, TypeOK
  <2> QED  BY <1>2, <2>2, <2>4, <2>5 DEF ClaimPidfile, TypeOK
<1>3. CASE UnlinkSocket(d)
  BY <1>3, ToType DEF UnlinkSocket, TypeOK
<1>4. CASE Listen(d)
  <2>1. socket' \in Daemons \cup {None} /\ \E at \in Places : To(d, at)
    BY <1>4 DEF Listen, TypeOK
  <2> QED  BY <1>4, <2>1, ToType DEF Listen, TypeOK
<1>5. CASE Stop(d)
  BY <1>5, ToType, CommandType DEF Stop, TypeOK
<1>6. CASE Exit(d)
  BY <1>6, ToType DEF Exit, TypeOK
<1>7. CASE Crash(d)
  BY <1>7, ToType, CommandType DEF Crash, TypeOK
<1> QED  BY <1>1, <1>2, <1>3, <1>4, <1>5, <1>6, <1>7 DEF DaemonStep

LEMMA SpawnType ==
  ASSUME TypeOK, Spawn
  PROVE  /\ daemons' \in [Daemons -> [at : Places, data : Registrations]]
         /\ UNCHANGED <<pidfile, socket, disk, raced, told, saved>>
<1>1. PICK d \in Daemons : To(d, "spawned")
  BY DEF Spawn
<1> QED  BY <1>1, ToType DEF Spawn, Places

LEMMA LauncherStepType ==
  ASSUME TypeOK, NEW l \in Launchers, LauncherStep(l)
  PROVE  TypeOK'
<1> USE DEF LauncherSteps
<1>1. CASE Up(l)
  BY <1>1, DoesType, SpawnType, CommandType DEF Up, TypeOK, daemonVars
<1>2. CASE WaitForSocket(l)
  BY <1>2, DoesType DEF WaitForSocket, TypeOK, daemonVars
<1>3. CASE Attach(l)
  BY <1>3, DoesType, CommandType DEF Attach, TypeOK, daemonVars
<1>4. ASSUME NEW pane \in Panes, RegisterGame(l, pane) PROVE TypeOK'
  <2>1. launchers' \in [Launchers -> LauncherSteps]
    BY <1>4, DoesType DEF RegisterGame
  <2>2. CASE Lost
    BY <1>4, <2>1, <2>2 DEF RegisterGame, Lost, TypeOK
  <2>3. CASE ~Lost
    <3>1. PICK data, t : /\ data = [daemons[socket].data EXCEPT !.game = pane]
                         /\ t = [told EXCEPT !.game = pane]
      OBVIOUS
    <3>2. socket \in Daemons /\ Takes(socket, data, t)
      BY <1>4, <2>3, <3>1 DEF RegisterGame, Listening, TypeOK
    <3>3. daemons[socket].data \in Registrations /\ told \in Promises
      BY <3>2 DEF TypeOK
    <3>4. data \in Registrations /\ t \in Promises
      BY <3>1, <3>3 DEF Registrations, Promises
    <3> QED  BY <1>4, <2>1, <3>2, <3>4, TakesType DEF RegisterGame, TypeOK
  <2> QED  BY <2>2, <2>3
<1>5. ASSUME NEW entry \in Entries, Register(l, entry) PROVE TypeOK'
  <2>1. launchers' \in [Launchers -> LauncherSteps]
    BY <1>5, DoesType DEF Register
  <2>2. CASE Lost
    BY <1>5, <2>1, <2>2 DEF Register, Lost, TypeOK
  <2>3. CASE ~Lost
    <3>1. PICK data, t : data = RegisterCc(daemons[socket].data, entry) /\ t = Tell(told, entry)
      OBVIOUS
    <3>2. socket \in Daemons /\ Takes(socket, data, t)
      BY <1>5, <2>3, <3>1 DEF Register, Listening, TypeOK
    <3>3. daemons[socket].data \in Registrations /\ told \in Promises
      BY <3>2 DEF TypeOK
    <3>4. data \in Registrations /\ t \in Promises
      BY <3>1, <3>3, RegisteredAt, TellType
    <3> QED  BY <1>5, <2>1, <3>2, <3>4, TakesType DEF Register, TypeOK
  <2> QED  BY <2>2, <2>3
<1> QED  BY <1>1, <1>2, <1>3, <1>4, <1>5 DEF LauncherStep

LEMMA TypeStep == TypeOK /\ [Next]_vars => TypeOK'
<1> SUFFICES ASSUME TypeOK, [Next]_vars PROVE TypeOK'
  OBVIOUS
<1>1. CASE RunDaemon
  BY <1>1, SpawnType, CommandType DEF RunDaemon, TypeOK
<1>2. CASE Installer
  BY <1>2, CommandType DEF Installer, TypeOK, daemonVars
<1>3. CASE UNCHANGED vars
  BY <1>3 DEF vars, daemonVars, TypeOK
<1> QED  BY <1>1, <1>2, <1>3, DaemonStepType, LauncherStepType DEF Next

(***************************************************************************)
(* What the daemons, their files and the launchers hold is well typed.     *)
(***************************************************************************)
THEOREM OperationsTypeCorrect == Spec => []TypeOK
<1> QED  BY TypeInit, TypeStep, PTL DEF Spec

-----------------------------------------------------------------------------
(* One daemon. *)

\* What a step of a launcher, of the installer or of a user who starts daemons may
\* do to them: nothing, start one, or give one a registration.
LEMMA OtherSteps ==
  ASSUME TypeOK,
         RunDaemon \/ Installer \/ (\E l \in Launchers : LauncherStep(l)) \/ UNCHANGED vars
  PROVE  /\ UNCHANGED <<pidfile, socket, raced>>
         /\ \A d \in Daemons : At(d)' = At(d) \/ (At(d) = "unborn" /\ At(d)' = "spawned")
<1>1. CASE UNCHANGED <<pidfile, socket, raced, daemons>>
  BY <1>1 DEF At
<1>2. CASE Spawn
  <2>1. PICK d \in Daemons : At(d) = "unborn" /\ To(d, "spawned")
    BY <1>2 DEF Spawn
  <2> QED  BY <1>2, <2>1, ToType DEF Spawn, Places, At
<1>3. ASSUME NEW l \in Launchers, NEW pane \in Panes, RegisterGame(l, pane)
      PROVE  /\ UNCHANGED <<pidfile, socket, raced>>
             /\ \A d \in Daemons : At(d)' = At(d)
  <2>1. CASE Lost
    BY <1>3, <2>1 DEF RegisterGame, Lost, At
  <2>2. CASE ~Lost
    <3>1. PICK data, t : /\ data = [daemons[socket].data EXCEPT !.game = pane]
                         /\ t = [told EXCEPT !.game = pane]
      OBVIOUS
    <3>2. socket \in Daemons /\ Takes(socket, data, t)
      BY <1>3, <2>2, <3>1 DEF RegisterGame, Listening, TypeOK
    <3>3. data \in Registrations /\ t \in Promises
      BY <3>1, <3>2 DEF TypeOK, Registrations, Promises
    <3> QED  BY <1>3, <3>2, <3>3, TakesType DEF RegisterGame
  <2> QED  BY <2>1, <2>2
<1>4. ASSUME NEW l \in Launchers, NEW entry \in Entries, Register(l, entry)
      PROVE  /\ UNCHANGED <<pidfile, socket, raced>>
             /\ \A d \in Daemons : At(d)' = At(d)
  <2>1. CASE Lost
    BY <1>4, <2>1 DEF Register, Lost, At
  <2>2. CASE ~Lost
    <3>1. PICK data, t : data = RegisterCc(daemons[socket].data, entry) /\ t = Tell(told, entry)
      OBVIOUS
    <3>2. socket \in Daemons /\ Takes(socket, data, t)
      BY <1>4, <2>2, <3>1 DEF Register, Listening, TypeOK
    <3>3. data \in Registrations /\ t \in Promises
      BY <3>1, <3>2, RegisteredAt, TellType DEF TypeOK
    <3> QED  BY <1>4, <3>2, <3>3, TakesType DEF Register
  <2> QED  BY <2>1, <2>2
<1>5. ASSUME NEW l \in Launchers, LauncherStep(l)
      PROVE  \/ UNCHANGED <<pidfile, socket, raced, daemons>>
             \/ Spawn
             \/ \E pane \in Panes : RegisterGame(l, pane)
             \/ \E entry \in Entries : Register(l, entry)
  <2>1. CASE Up(l)
    BY <2>1 DEF Up, daemonVars
  <2>2. CASE WaitForSocket(l) \/ Attach(l)
    BY <2>2 DEF WaitForSocket, Attach, daemonVars
  <2> QED  BY <1>5, <2>1, <2>2 DEF LauncherStep
<1>6. CASE RunDaemon
  BY <1>2, <1>6 DEF RunDaemon
<1>7. CASE Installer \/ UNCHANGED vars
  BY <1>1, <1>7 DEF Installer, daemonVars, vars
<1> QED  BY <1>1, <1>2, <1>3, <1>4, <1>5, <1>6, <1>7

\* A step that only starts daemons keeps the claims.
LEMMA ClaimKept ==
  ASSUME TypeOK, ClaimInv, UNCHANGED <<pidfile, socket, raced>>,
         \A d \in Daemons : At(d)' = At(d) \/ (At(d) = "unborn" /\ At(d)' = "spawned")
  PROVE  ClaimInv'
<1>1. pidfile # None => At(pidfile)' \in Claimed \cup {"gone"}
  BY DEF ClaimInv, TypeOK, Claimed
<1>2. ASSUME NEW d \in Daemons, At(d)' # "spawned" PROVE At(d)' = At(d)
  BY <1>2
<1>3. ASSUME NEW d \in Daemons, At(d) # "unborn" PROVE At(d)' = At(d)
  BY <1>3
<1>4. ASSUME NEW d \in Daemons PROVE At(d)' \in Claimed <=> At(d) \in Claimed
  BY DEF Claimed
<1> QED  BY <1>1, <1>2, <1>4 DEF ClaimInv, Claimed

LEMMA ClaimStep ==
  ASSUME TypeOK, ClaimInv, NEW d \in Daemons, DaemonStep(d)
  PROVE  ClaimInv'
<1> USE DEF Claimed
<1>1. ASSUME NEW at \in Places, To(d, at)
      PROVE  At(d)' = at /\ \A e \in Daemons \ {d} : At(e)' = At(e)
  BY <1>1, ToType DEF At
<1>2. CASE CheckPidfile(d)
  <2>1. At(d) = "spawned" /\ UNCHANGED <<pidfile, socket, raced>>
    BY <1>2 DEF CheckPidfile
  <2>2. At(d)' \in {"checked", "gone"} /\ \A e \in Daemons \ {d} : At(e)' = At(e)
    BY <1>1, <1>2 DEF CheckPidfile, Places
  <2>3. ASSUME At(d)' = "checked", ~raced, NEW e \in Daemons PROVE At(e) \notin Claimed
    <3>1. ~PidAlive(pidfile)
      BY <1>2, <2>3, <1>1 DEF CheckPidfile, Places
    <3>2. pidfile = e => At(e) \in {"unborn", "gone"}
      BY <3>1, OperationsAssumption DEF PidAlive, Alive
    <3> QED  BY <2>3, <3>2 DEF ClaimInv
  <2>4. \A e \in Daemons : At(e)' \in Claimed <=> At(e) \in Claimed
    BY <2>1, <2>2
  <2>5. pidfile # d
    BY <2>1, OperationsAssumption DEF ClaimInv
  <2>6. pidfile # None => At(pidfile)' \in Claimed \cup {"gone"}
    BY <2>1, <2>2, <2>5 DEF ClaimInv, TypeOK, At
  <2> HIDE DEF Claimed
  <2>7. ASSUME ~raced, NEW e \in Daemons, At(e)' = "checked", NEW f \in Daemons
        PROVE  At(f)' \notin Claimed
    BY <2>1, <2>2, <2>3, <2>4, <2>7 DEF ClaimInv
  <2>8. ASSUME ~raced, NEW e \in Daemons
        PROVE  /\ At(e)' \in Claimed => pidfile = e
               /\ At(e)' \in {"unlinked", "stopping"} => socket = None
               /\ At(e)' = "serving" => socket = e
               /\ At(e)' # "failed"
    BY <2>1, <2>2, <2>4, <2>8 DEF ClaimInv
  <2> QED  BY <2>1, <2>6, <2>7, <2>8 DEF ClaimInv
<1>3. CASE ClaimPidfile(d)
  <2>1. At(d) = "checked" /\ pidfile' = d /\ socket' = socket
    BY <1>3 DEF ClaimPidfile
  <2>2. At(d)' = "replaying" /\ \A e \in Daemons \ {d} : At(e)' = At(e)
    BY <1>3 DEF ClaimPidfile, At, TypeOK
  <2>3. ~raced' => ~raced /\ \A e \in Daemons \ {d} : At(e) # "checked"
    BY <1>3 DEF ClaimPidfile, TypeOK
  <2>4. ~raced' => \A e \in Daemons : At(e) \notin Claimed
    BY <2>1, <2>3 DEF ClaimInv
  <2> QED  BY <2>1, <2>2, <2>3, <2>4 DEF ClaimInv
<1>4. CASE UnlinkSocket(d)
  <2>1. /\ At(d) = "replaying" /\ socket' = None /\ UNCHANGED <<pidfile, raced>>
        /\ At(d)' = "unlinked" /\ \A e \in Daemons \ {d} : At(e)' = At(e)
    BY <1>1, <1>4 DEF UnlinkSocket, Places
  <2>2. pidfile # None => At(pidfile)' \in Claimed \cup {"gone"}
    BY <2>1 DEF ClaimInv, TypeOK
  <2> QED  BY <2>1, <2>2 DEF ClaimInv
<1>5. CASE Listen(d)
  <2>1. At(d) = "unlinked" /\ UNCHANGED <<pidfile, raced>>
    BY <1>5 DEF Listen
  <2>2. ~raced => socket = None
    BY <2>1 DEF ClaimInv
  <2>3. /\ At(d)' = IF socket = None THEN "serving" ELSE "failed"
        /\ socket = None => socket' = d
        /\ \A e \in Daemons \ {d} : At(e)' = At(e)
    BY <1>1, <1>5 DEF Listen, Places
  <2>4. pidfile # None => At(pidfile)' \in Claimed \cup {"gone"}
    BY <2>1, <2>3 DEF ClaimInv, TypeOK
  <2> QED  BY <2>1, <2>2, <2>3, <2>4 DEF ClaimInv
<1>6. CASE Stop(d)
  <2>1. /\ At(d) = "serving" /\ socket' = None /\ UNCHANGED <<pidfile, raced>>
        /\ At(d)' = "stopping" /\ \A e \in Daemons \ {d} : At(e)' = At(e)
    BY <1>1, <1>6 DEF Stop, Places
  <2>2. pidfile # None => At(pidfile)' \in Claimed \cup {"gone"}
    BY <2>1 DEF ClaimInv, TypeOK
  <2> QED  BY <2>1, <2>2 DEF ClaimInv
<1>7. CASE Exit(d)
  <2>1. /\ At(d) = "stopping" /\ UNCHANGED <<socket, raced>>
        /\ pidfile' = IF pidfile = d THEN None ELSE pidfile
        /\ At(d)' = "gone" /\ \A e \in Daemons \ {d} : At(e)' = At(e)
    BY <1>1, <1>7 DEF Exit, Places
  <2>2. (pidfile # None => At(pidfile) \in Claimed \cup {"gone"})'
    BY <2>1 DEF ClaimInv, TypeOK, At
  <2> QED  BY <2>1, <2>2 DEF ClaimInv
<1>8. CASE Crash(d)
  <2>1. /\ Alive(d) /\ UNCHANGED <<pidfile, socket, raced>>
        /\ At(d)' = "gone" /\ \A e \in Daemons \ {d} : At(e)' = At(e)
    BY <1>1, <1>8 DEF Crash, Places
  <2>2. pidfile # None => At(pidfile)' \in Claimed \cup {"gone"}
    BY <2>1 DEF ClaimInv, TypeOK
  <2> QED  BY <2>1, <2>2 DEF ClaimInv
<1> QED  BY <1>2, <1>3, <1>4, <1>5, <1>6, <1>7, <1>8 DEF DaemonStep

LEMMA ClaimsHold == Spec => []ClaimInv
<1>1. Init => ClaimInv
  BY DEF Init, ClaimInv, At, Claimed
<1>2. TypeOK /\ ClaimInv /\ [Next]_vars => ClaimInv'
  BY OtherSteps, ClaimKept, ClaimStep DEF Next
<1> QED  BY <1>1, <1>2, OperationsTypeCorrect, PTL DEF Spec

(***************************************************************************)
(* One daemon at a time, for any number of processes that start, stop and  *)
(* crash at any moment: while no two claims of the pidfile have overlapped,*)
(* a process past its claim is the one the pidfile names, what it serves   *)
(* is its own socket, and the doctor sees a daemon exactly where one runs. *)
(***************************************************************************)
THEOREM SingleInstance == Spec => []OneDaemon
<1>1. TypeOK /\ ClaimInv => OneDaemon
  <2> SUFFICES ASSUME TypeOK, ClaimInv, ~raced, NEW d \in Daemons
               PROVE  /\ At(d) \in Claimed => pidfile = d
                      /\ At(d) = "serving" => socket = d
                      /\ At(d) # "failed"
                      /\ At(d) = "serving" => DaemonCheck = "ok"
                      /\ DaemonCheck = "ok" /\ pidfile = d => At(d) \in {"replaying", "serving"}
    BY DEF OneDaemon
  <2>1. (At(d) \in Claimed => pidfile = d) /\ (At(d) = "serving" => socket = d) /\ At(d) # "failed"
    BY DEF ClaimInv
  <2>2. At(d) = "serving" => DaemonCheck = "ok"
    BY <2>1, OperationsAssumption DEF DaemonCheck, PidAlive, Alive, Claimed
  <2>3. ASSUME DaemonCheck = "ok", pidfile = d PROVE At(d) \in {"replaying", "serving"}
    <3>1. Alive(d) /\ socket # None
      BY <2>3 DEF DaemonCheck, PidAlive
    <3>2. At(d) \in Claimed
      BY <2>3, <3>1, OperationsAssumption DEF ClaimInv, Alive
    <3> QED  BY <2>1, <3>1, <3>2 DEF ClaimInv, Claimed
  <2> QED  BY <2>1, <2>2, <2>3
<1> QED  BY <1>1, ClaimsHold, OperationsTypeCorrect, PTL

-----------------------------------------------------------------------------
(* What is remembered of the panes. *)

\* Nothing was registered, and whoever is past its claim was so before.
LEMMA MemoryKept ==
  ASSUME MemoryInv, UNCHANGED <<disk, told, saved>>, raced => raced',
         \A d \in Daemons : At(d)' \in Claimed =>
            At(d) \in Claimed /\ daemons'[d].data = daemons[d].data
  PROVE  MemoryInv'
<1>1. ~raced' => Keeps(disk, saved)'
  BY DEF MemoryInv, Keeps
<1>2. ASSUME ~raced', NEW d \in Daemons, At(d)' \in Claimed
      PROVE  Keeps(daemons[d].data, told)'
  <2>1. Keeps(daemons[d].data, told) /\ daemons'[d].data = daemons[d].data
    BY <1>2 DEF MemoryInv
  <2> QED  BY <2>1 DEF Keeps
<1> QED  BY <1>1, <1>2 DEF MemoryInv

\* The running daemon took a registration and keeps what it tells.
LEMMA MemoryTaken ==
  ASSUME TypeOK, ClaimInv, MemoryInv, NEW d \in Daemons, At(d) = "serving",
         NEW data \in Registrations, NEW t \in Promises, Takes(d, data, t),
         UNCHANGED raced, ~raced => Keeps(data, t)
  PROVE  MemoryInv'
<1>1. ~raced => \A e \in Daemons \ {d} : At(e) \notin Claimed
  BY DEF ClaimInv, Claimed
<1>2. daemons'[d].data = data /\ \A e \in Daemons : At(e)' = At(e)
  BY TakesType
<1>3. told' = t /\ ((disk' = data /\ saved' = t) \/ UNCHANGED <<disk, saved>>)
  BY DEF Takes
<1>4. ~raced' => Keeps(disk, saved)'
  BY <1>3 DEF MemoryInv, Keeps
<1>5. ASSUME ~raced', NEW e \in Daemons, At(e)' \in Claimed
      PROVE  Keeps(daemons[e].data, told)'
  <2>1. e = d
    BY <1>1, <1>2, <1>5
  <2> QED  BY <1>2, <1>3, <1>5, <2>1 DEF Keeps
<1> QED  BY <1>4, <1>5 DEF MemoryInv

LEMMA MemoryDaemonStep ==
  ASSUME TypeOK, ClaimInv, MemoryInv, NEW d \in Daemons, DaemonStep(d)
  PROVE  MemoryInv'
<1>1. ASSUME NEW at \in Places, To(d, at), at \in Claimed => At(d) \in Claimed,
             UNCHANGED <<disk, raced, told, saved>>
      PROVE  MemoryInv'
  <2>1. At(d)' = at /\ daemons'[d].data = daemons[d].data
    BY <1>1, ToType
  <2>2. \A e \in Daemons \ {d} : daemons'[e] = daemons[e]
    BY <1>1, ToType
  <2>3. \A e \in Daemons : At(e)' \in Claimed =>
           At(e) \in Claimed /\ daemons'[e].data = daemons[e].data
    BY <1>1, <2>1, <2>2 DEF At
  <2> QED  BY <1>1, <2>3, MemoryKept
<1>2. CASE CheckPidfile(d)
  <2>1. PICK at \in {"gone", "checked"} : To(d, at)
    BY <1>2 DEF CheckPidfile
  <2> QED  BY <1>1, <1>2, <2>1 DEF CheckPidfile, Places, Claimed
<1>3. CASE ClaimPidfile(d)
  <2>1. At(d) = "checked" /\ UNCHANGED disk
    BY <1>3 DEF ClaimPidfile
  <2>2. daemons'[d].data = disk /\ \A e \in Daemons \ {d} : At(e)' = At(e)
    BY <1>3 DEF ClaimPidfile, At, TypeOK
  <2>3. ~raced' => ~raced /\ \A e \in Daemons : At(e) \notin Claimed
    BY <1>3, <2>1 DEF ClaimPidfile, ClaimInv, TypeOK
  <2>4. ASSUME ~raced' PROVE Keeps(disk, saved)' /\ Keeps(disk, told)'
    <3>1. Keeps(disk, saved) /\ told' = saved /\ UNCHANGED <<disk, saved>>
      BY <1>3, <2>3, <2>4 DEF ClaimPidfile, MemoryInv
    <3> QED  BY <3>1 DEF Keeps
  <2>5. ASSUME ~raced', NEW e \in Daemons, At(e)' \in Claimed
        PROVE  Keeps(daemons[e].data, told)'
    <3>1. e = d
      BY <2>2, <2>3, <2>5
    <3> QED  BY <2>1, <2>2, <2>4, <2>5, <3>1 DEF Keeps
  <2> QED  BY <2>4, <2>5 DEF MemoryInv
<1>4. CASE UnlinkSocket(d)
  BY <1>1, <1>4 DEF UnlinkSocket, Places, Claimed
<1>5. CASE Listen(d)
  <2>1. PICK at \in {"serving", "failed"} : To(d, at)
    BY <1>5 DEF Listen
  <2> QED  BY <1>1, <1>5, <2>1 DEF Listen, Places, Claimed
<1>6. CASE Stop(d)
  BY <1>1, <1>6 DEF Stop, Places, Claimed
<1>7. CASE Exit(d)
  BY <1>1, <1>7 DEF Exit, Places, Claimed
<1>8. CASE Crash(d)
  BY <1>1, <1>8 DEF Crash, Places, Claimed
<1> QED  BY <1>2, <1>3, <1>4, <1>5, <1>6, <1>7, <1>8 DEF DaemonStep

LEMMA MemoryLauncherStep ==
  ASSUME TypeOK, ClaimInv, MemoryInv, NEW l \in Launchers, LauncherStep(l)
  PROVE  MemoryInv'
<1>1. ASSUME UNCHANGED <<daemons, disk, raced, told, saved>> PROVE MemoryInv'
  BY <1>1, MemoryKept DEF At
<1>2. ASSUME Spawn PROVE MemoryInv'
  <2>1. PICK d \in Daemons : To(d, "spawned")
    BY <1>2 DEF Spawn
  <2>2. /\ At(d)' = "spawned" /\ UNCHANGED <<disk, raced, told, saved>>
        /\ \A e \in Daemons \ {d} : daemons'[e] = daemons[e]
    BY <1>2, <2>1, ToType DEF Spawn, Places
  <2> QED  BY <2>2, MemoryKept DEF Claimed, At
<1>3. CASE Up(l)
  BY <1>1, <1>2, <1>3 DEF Up, daemonVars
<1>4. CASE WaitForSocket(l) \/ Attach(l)
  BY <1>1, <1>4 DEF WaitForSocket, Attach, daemonVars
<1>5. ASSUME Listening PROVE \E d \in Daemons : d = socket /\ At(d) = "serving"
  BY <1>5 DEF Listening, TypeOK
<1>6. ASSUME NEW pane \in Panes, RegisterGame(l, pane) PROVE MemoryInv'
  <2>1. CASE Lost
    BY <1>1, <1>6, <2>1 DEF RegisterGame, Lost
  <2>2. CASE ~Lost
    <3>1. PICK d \in Daemons : d = socket /\ At(d) = "serving"
      BY <1>5, <1>6, <2>2 DEF RegisterGame
    <3>2. PICK before \in Registrations : before = daemons[d].data
      BY DEF TypeOK
    <3>3. PICK data \in Registrations : data = [before EXCEPT !.game = pane]
      BY DEF Registrations
    <3>4. PICK t \in Promises : t = [told EXCEPT !.game = pane]
      BY DEF TypeOK, Promises
    <3>5. Takes(d, data, t) /\ UNCHANGED raced
      BY <1>6, <2>2, <3>1, <3>2, <3>3, <3>4 DEF RegisterGame
    <3>6. data.game = pane /\ data.cc = before.cc /\ t.game = pane /\ t.cc = told.cc
      BY <3>3, <3>4 DEF Registrations, Promises, TypeOK
    <3>7. ~raced => Keeps(before, told)
      BY <3>1, <3>2 DEF MemoryInv, Claimed
    <3>8. ~raced => Keeps(data, t)
      BY <3>6, <3>7 DEF Keeps
    <3> QED  BY <3>1, <3>5, <3>8, MemoryTaken
  <2> QED  BY <2>1, <2>2
<1>7. ASSUME NEW entry \in Entries, Register(l, entry) PROVE MemoryInv'
  <2>1. CASE Lost
    BY <1>1, <1>7, <2>1 DEF Register, Lost
  <2>2. CASE ~Lost
    <3>1. PICK d \in Daemons : d = socket /\ At(d) = "serving"
      BY <1>5, <1>7, <2>2 DEF Register
    <3>2. PICK before \in Registrations : before = daemons[d].data
      BY DEF TypeOK
    <3>3. PICK data \in Registrations : data = RegisterCc(before, entry)
      BY RegisteredAt
    <3>4. PICK t \in Promises : t = Tell(told, entry)
      BY TellType DEF TypeOK
    <3>5. Takes(d, data, t) /\ UNCHANGED raced
      BY <1>7, <2>2, <3>1, <3>2, <3>3, <3>4 DEF Register
    <3>6. ~raced => Keeps(before, told)
      BY <3>1, <3>2 DEF MemoryInv, Claimed
    <3>7. ~raced => Keeps(data, t)
      BY <3>3, <3>4, <3>6, RegisteredKeeps DEF TypeOK
    <3> QED  BY <3>1, <3>5, <3>7, MemoryTaken
  <2> QED  BY <2>1, <2>2
<1> QED  BY <1>3, <1>4, <1>6, <1>7 DEF LauncherStep

(***************************************************************************)
(* Registrations hold (registrations.ts, onRegister): with any number of   *)
(* daemons, restarts, crashes, lost messages and failed writes, a daemon   *)
(* that serves finds every session in the pane it was registered with last *)
(* and the game in its last pane, until a later registration takes over    *)
(* the session, its pane or its directory, while no two claims of the      *)
(* pidfile have overlapped.                                                *)
(***************************************************************************)
THEOREM RegistrationsRemembered == Spec => []RegistrationHolds
<1>1. Init => MemoryInv
  <2> SUFFICES ASSUME Init PROVE MemoryInv
    OBVIOUS
  <2>1. Keeps(disk, saved)
    BY DEF Init, Keeps, NoEntry, NothingTold, Empty
  <2>2. \A d \in Daemons : At(d) \notin Claimed
    BY DEF Init, At, Claimed
  <2> QED  BY <2>1, <2>2 DEF MemoryInv
<1>2. TypeOK /\ ClaimInv /\ MemoryInv /\ [Next]_vars => MemoryInv'
  <2> SUFFICES ASSUME TypeOK, ClaimInv, MemoryInv, [Next]_vars PROVE MemoryInv'
    OBVIOUS
  <2>1. CASE RunDaemon
    <3>1. PICK d \in Daemons : To(d, "spawned")
      BY <2>1 DEF RunDaemon, Spawn
    <3>2. /\ At(d)' = "spawned" /\ UNCHANGED <<disk, raced, told, saved>>
          /\ \A e \in Daemons \ {d} : daemons'[e] = daemons[e]
      BY <2>1, <3>1, ToType DEF RunDaemon, Spawn, Places
    <3> QED  BY <3>2, MemoryKept DEF Claimed, At
  <2>2. CASE Installer \/ UNCHANGED vars
    BY <2>2, MemoryKept DEF Installer, daemonVars, vars, At
  <2> QED  BY <2>1, <2>2, MemoryDaemonStep, MemoryLauncherStep DEF Next
<1>3. TypeOK /\ MemoryInv => RegistrationHolds
  <2> SUFFICES ASSUME TypeOK, MemoryInv, ~raced, NEW d \in Daemons, At(d) = "serving"
               PROVE  Answers(daemons[d].data, told)
    BY DEF RegistrationHolds
  <2>1. Keeps(daemons[d].data, told)
    BY DEF MemoryInv, Claimed
  <2> QED  BY <2>1, KeepsAnswers DEF TypeOK
<1> QED  BY <1>1, <1>2, <1>3, ClaimsHold, OperationsTypeCorrect, PTL DEF Spec

-----------------------------------------------------------------------------
(* Hooks kept and hooks flattened.                                         *)

\* A set of sequences that is not empty has a member that is empty or one element longer
\* than a sequence outside of it: what holds of << >> and through Append holds of all.
LEMMA ShortestSequence ==
  ASSUME NEW S, NEW B \in SUBSET Seq(S), B # {}
  PROVE  \E s \in B : s = << >> \/ \E t \in Seq(S), x \in S : s = Append(t, x) /\ t \notin B
<1> DEFINE Lengths == {n \in Nat : \E s \in B : Len(s) = n}
<1>1. Lengths \in SUBSET Nat /\ Lengths # {}
  <2>1. PICK s \in B : TRUE
    OBVIOUS
  <2>2. s \in Seq(S) /\ Len(s) \in Nat
    BY <2>1
  <2> QED  BY <2>1, <2>2
<1>2. PICK m \in Lengths : \A k \in Lengths : m <= k
  <2> HIDE DEF Lengths
  <2> QED  BY <1>1, LeastNatural
<1>3. PICK s \in B : Len(s) = m
  BY <1>2
<1>4. s \in Seq(S) /\ m \in Nat
  BY <1>2, <1>3
<1>5. CASE s # << >>
  <2>1. PICK t \in Seq(S), x \in S : s = Append(t, x)
    BY <1>4, <1>5, SequenceEmptyOrAppend
  <2>2. Len(s) = Len(t) + 1 /\ Len(t) \in Nat
    BY <2>1
  <2>3. Len(t) \notin Lengths
    <3> HIDE DEF Lengths
    <3> QED  BY <1>2, <1>3, <1>4, <2>2
  <2>4. t \notin B
    BY <2>2, <2>3
  <2> QED  BY <1>3, <2>1, <2>4
<1> QED  BY <1>3, <1>5

\* The recursion of Kept, one step of it.
Keeping(s, K, kept, n) ==
  IF n = 0 THEN << >>
  ELSE IF s[n] \in K THEN Append(kept[n - 1], s[n]) ELSE kept[n - 1]

LEMMA KeptExists ==
  ASSUME NEW s, NEW K, Len(s) \in Nat
  PROVE  \E kept : kept = [n \in 0..Len(s) |-> Keeping(s, K, kept, n)]
<1> DEFINE Defined(m) == \E kept : kept = [n \in 0..m |-> Keeping(s, K, kept, n)]
<1>1. Defined(0)
  <2> DEFINE none == [n \in 0..0 |-> << >>]
  <2>1. none = [n \in 0..0 |-> Keeping(s, K, none, n)]
    BY DEF Keeping
  <2> QED  BY <2>1
<1>2. ASSUME NEW m \in Nat, Defined(m) PROVE Defined(m + 1)
  <2>1. PICK g : g = [n \in 0..m |-> Keeping(s, K, g, n)]
    BY <1>2
  <2> DEFINE h == [n \in 0..(m + 1) |-> Keeping(s, K, g, n)]
  <2>2. \A n \in 0..m : h[n] = g[n]
    <3>1. \A n \in 0..m : n \in 0..(m + 1)
      OBVIOUS
    <3>2. \A n \in 0..m : g[n] = Keeping(s, K, g, n)
      BY <2>1
    <3> QED  BY <3>1, <3>2
  <2> HIDE DEF h
  <2>3. ASSUME NEW n \in 0..(m + 1) PROVE Keeping(s, K, g, n) = Keeping(s, K, h, n)
    <3>1. n # 0 => n - 1 \in 0..m
      OBVIOUS
    <3> QED  BY <2>2, <3>1 DEF Keeping
  <2>4. h = [n \in 0..(m + 1) |-> Keeping(s, K, h, n)]
    BY <2>3 DEF h
  <2> QED  BY <2>4
<1> HIDE DEF Defined
<1> DEFINE Missing == {m \in Nat : ~Defined(m)}
<1>3. ASSUME Missing # {} PROVE FALSE
  <2>1. Missing \in SUBSET Nat
    OBVIOUS
  <2>2. PICK m \in Missing : \A k \in Missing : m <= k
    <3> HIDE DEF Missing
    <3> QED  BY <1>3, <2>1, LeastNatural
  <2>3. m # 0 /\ m \in Nat /\ ~Defined(m)
    BY <1>1
  <2>4. m - 1 \in Nat /\ m - 1 \notin Missing
    BY <2>2, <2>3
  <2>5. Defined((m - 1) + 1)
    BY <1>2, <2>4
  <2> QED  BY <2>3, <2>5
<1>4. Defined(Len(s))
  BY <1>3
<1> QED  BY <1>4 DEF Defined

LEMMA KeptIs ==
  ASSUME NEW s, NEW K, Len(s) \in Nat
  PROVE  \E kept : /\ Kept(s, K) = kept[Len(s)]
                   /\ \A n \in 0..Len(s) : kept[n] = Keeping(s, K, kept, n)
<1> DEFINE Rec(kept) == kept = [n \in 0..Len(s) |-> Keeping(s, K, kept, n)]
           it == CHOOSE kept : Rec(kept)
<1>1. Kept(s, K) = it[Len(s)]
  BY DEF Kept, Keeping
<1>2. Rec(it)
  <2>1. \E kept : Rec(kept)
    BY KeptExists
  <2> HIDE DEF Rec
  <2> QED  BY <2>1
<1> HIDE DEF it
<1>3. \A n \in 0..Len(s) : it[n] = Keeping(s, K, it, n)
  BY <1>2
<1> QED  BY <1>1, <1>3

\* Kept, one element after another.
LEMMA KeptNone == ASSUME NEW K PROVE Kept(<< >>, K) = << >>
<1>1. Len(<< >>) = 0
  OBVIOUS
<1>2. PICK kept : /\ Kept(<< >>, K) = kept[Len(<< >>)]
                  /\ \A n \in 0..Len(<< >>) : kept[n] = Keeping(<< >>, K, kept, n)
  BY <1>1, KeptIs
<1> QED  BY <1>1, <1>2 DEF Keeping

LEMMA KeptAppend ==
  ASSUME NEW S, NEW s \in Seq(S), NEW x \in S, NEW K
  PROVE  Kept(Append(s, x), K) = IF x \in K THEN Append(Kept(s, K), x) ELSE Kept(s, K)
<1> PICK t : t = Append(s, x)
  OBVIOUS
<1> PICK n : n = Len(s)
  OBVIOUS
<1>1. n \in Nat /\ Len(t) = n + 1 /\ t[n + 1] = x /\ \A i \in 1..n : t[i] = s[i]
  OBVIOUS
<1>2. PICK f : Kept(s, K) = f[n] /\ \A i \in 0..n : f[i] = Keeping(s, K, f, i)
  BY <1>1, KeptIs
<1>3. PICK g : Kept(t, K) = g[n + 1] /\ \A i \in 0..(n + 1) : g[i] = Keeping(t, K, g, i)
  <2>1. Len(t) \in Nat
    BY <1>1
  <2>2. PICK g : Kept(t, K) = g[Len(t)] /\ \A i \in 0..Len(t) : g[i] = Keeping(t, K, g, i)
    BY <2>1, KeptIs
  <2> QED  BY <1>1, <2>2
<1> DEFINE Differ == {i \in Nat : i <= n /\ f[i] # g[i]}
<1>4. ASSUME Differ # {} PROVE FALSE
  <2>1. Differ \in SUBSET Nat
    OBVIOUS
  <2>2. PICK i \in Differ : \A k \in Differ : i <= k
    <3> HIDE DEF Differ
    <3> QED  BY <1>4, <2>1, LeastNatural
  <2>3. i \in 0..n /\ i \in 0..(n + 1) /\ f[i] # g[i]
    BY <1>1
  <2>4. CASE i = 0
    BY <1>2, <1>3, <2>3, <2>4 DEF Keeping
  <2>5. CASE i # 0
    <3>1. i - 1 \in Nat /\ i - 1 <= n /\ ~(i <= i - 1) /\ i \in 1..n
      BY <1>1, <2>3, <2>5
    <3>2. f[i - 1] = g[i - 1]
      BY <2>2, <3>1
    <3>3. t[i] = s[i]
      BY <1>1, <3>1
    <3>4. f[i] = Keeping(s, K, f, i) /\ g[i] = Keeping(t, K, g, i)
      BY <1>2, <1>3, <2>3
    <3> QED  BY ONLY <2>3, <2>5, <3>2, <3>3, <3>4 DEF Keeping
  <2> QED  BY <2>4, <2>5
<1>5. f[n] = g[n]
  BY <1>1, <1>4
<1>6. g[n + 1] = IF x \in K THEN Append(g[n], x) ELSE g[n]
  <2>1. n + 1 \in 0..(n + 1) /\ n + 1 # 0 /\ (n + 1) - 1 = n
    BY <1>1
  <2>2. g[n + 1] = Keeping(t, K, g, n + 1)
    BY <1>3, <2>1
  <2> QED  BY ONLY <1>1, <2>1, <2>2 DEF Keeping
<1> QED  BY <1>2, <1>3, <1>5, <1>6

\* What is kept of a sequence is a sequence of what it had and K has.
LEMMA KeptType ==
  ASSUME NEW S, NEW K, NEW T, S \cap K \subseteq T
  PROVE  \A s \in Seq(S) : Kept(s, K) \in Seq(T)
<1> DEFINE B == {s \in Seq(S) : Kept(s, K) \notin Seq(T)}
<1>1. ASSUME B # {} PROVE FALSE
  <2>1. PICK s \in B : s = << >> \/ \E t \in Seq(S), x \in S : s = Append(t, x) /\ t \notin B
    <3>1. B \in SUBSET Seq(S)
      OBVIOUS
    <3> HIDE DEF B
    <3> QED  BY <1>1, <3>1, ShortestSequence
  <2>2. Kept(s, K) \notin Seq(T)
    OBVIOUS
  <2>3. s # << >>
    BY <2>2, KeptNone
  <2>4. PICK t \in Seq(S), x \in S : s = Append(t, x) /\ t \notin B
    BY <2>1, <2>3
  <2>5. Kept(t, K) \in Seq(T)
    BY <2>4
  <2>6. Kept(s, K) = IF x \in K THEN Append(Kept(t, K), x) ELSE Kept(t, K)
    BY <2>4, KeptAppend
  <2> QED  BY <2>2, <2>5, <2>6
<1> QED  BY <1>1

\* Keeping twice is keeping what is in both sets.
LEMMA KeptTwice ==
  ASSUME NEW S, NEW K, NEW J, NEW I, S \cap I = (S \cap K) \cap J
  PROVE  \A s \in Seq(S) : Kept(Kept(s, K), J) = Kept(s, I)
<1> DEFINE B == {s \in Seq(S) : Kept(Kept(s, K), J) # Kept(s, I)}
<1>1. ASSUME B # {} PROVE FALSE
  <2>1. PICK s \in B : s = << >> \/ \E t \in Seq(S), x \in S : s = Append(t, x) /\ t \notin B
    <3>1. B \in SUBSET Seq(S)
      OBVIOUS
    <3> HIDE DEF B
    <3> QED  BY <1>1, <3>1, ShortestSequence
  <2>2. Kept(Kept(s, K), J) # Kept(s, I)
    OBVIOUS
  <2>3. s # << >>
    BY <2>2, KeptNone
  <2>4. PICK t \in Seq(S), x \in S : s = Append(t, x) /\ t \notin B
    BY <2>1, <2>3
  <2>5. Kept(Kept(t, K), J) = Kept(t, I)
    BY <2>4
  <2>6. Kept(t, K) \in Seq(S)
    BY KeptType
  <2>7. /\ Kept(s, K) = IF x \in K THEN Append(Kept(t, K), x) ELSE Kept(t, K)
        /\ Kept(s, I) = IF x \in I THEN Append(Kept(t, I), x) ELSE Kept(t, I)
    BY <2>4, KeptAppend
  <2>8. Kept(Append(Kept(t, K), x), J) =
          IF x \in J THEN Append(Kept(Kept(t, K), J), x) ELSE Kept(Kept(t, K), J)
    BY <2>6, KeptAppend
  <2>9. x \in I <=> x \in K /\ x \in J
    OBVIOUS
  <2> QED  BY ONLY <2>2, <2>5, <2>7, <2>8, <2>9
<1> QED  BY <1>1

\* Everything is kept of a sequence of what is to be kept, nothing of one that has none of it.
LEMMA KeptAll ==
  ASSUME NEW S, NEW K, S \subseteq K
  PROVE  \A s \in Seq(S) : Kept(s, K) = s
<1> DEFINE B == {s \in Seq(S) : Kept(s, K) # s}
<1>1. ASSUME B # {} PROVE FALSE
  <2>1. PICK s \in B : s = << >> \/ \E t \in Seq(S), x \in S : s = Append(t, x) /\ t \notin B
    <3>1. B \in SUBSET Seq(S)
      OBVIOUS
    <3> HIDE DEF B
    <3> QED  BY <1>1, <3>1, ShortestSequence
  <2>2. s # << >>
    BY KeptNone
  <2>3. PICK t \in Seq(S), x \in S : s = Append(t, x) /\ t \notin B
    BY <2>1, <2>2
  <2>4. Kept(s, K) = Append(Kept(t, K), x)
    BY <2>3, KeptAppend
  <2> QED  BY <2>3, <2>4
<1> QED  BY <1>1

AppendsLast(a, b, x) == Append(a \o b, x) = a \o Append(b, x)

LEMMA AppendLast ==
  ASSUME NEW S, NEW a \in Seq(S), NEW b \in Seq(S), NEW x \in S
  PROVE  AppendsLast(a, b, x)
<1> PICK p, q, l, r : p = a \o b /\ q = Append(b, x) /\ l = Append(p, x) /\ r = a \o q
  OBVIOUS
<1>1. p \in Seq(S) /\ Len(p) = Len(a) + Len(b)
      /\ \A i \in 1..(Len(a) + Len(b)) : p[i] = IF i <= Len(a) THEN a[i] ELSE b[i - Len(a)]
  BY ConcatProperties
<1>2. q \in Seq(S) /\ Len(q) = Len(b) + 1 /\ q[Len(b) + 1] = x
      /\ \A i \in 1..Len(b) : q[i] = b[i]
  OBVIOUS
<1>3. r \in Seq(S) /\ Len(r) = Len(a) + Len(q)
      /\ \A i \in 1..(Len(a) + Len(q)) : r[i] = IF i <= Len(a) THEN a[i] ELSE q[i - Len(a)]
  BY <1>2, ConcatProperties
<1>4. l \in Seq(S) /\ Len(l) = Len(p) + 1 /\ l[Len(p) + 1] = x
      /\ \A i \in 1..Len(p) : l[i] = p[i]
  BY <1>1
<1>5. Len(a) \in Nat /\ Len(b) \in Nat
  OBVIOUS
<1>6. Len(l) = Len(r)
  BY <1>1, <1>2, <1>3, <1>4, <1>5
<1>7. ASSUME NEW i \in 1..Len(l) PROVE l[i] = r[i]
  <2>1. i \in Nat /\ 1 <= i /\ i <= Len(a) + Len(b) + 1 /\ i \in 1..(Len(a) + Len(q))
    BY ONLY <1>1, <1>2, <1>4, <1>5, i \in 1..Len(l)
  <2>2. CASE i <= Len(a)
    <3>1. i \in 1..(Len(a) + Len(b)) /\ i \in 1..Len(p)
      BY ONLY <1>1, <1>5, <2>1, <2>2
    <3>2. l[i] = a[i] /\ r[i] = a[i]
      BY ONLY <1>1, <1>3, <1>4, <2>1, <2>2, <3>1
    <3> QED  BY <3>2
  <2>3. CASE Len(a) < i /\ i <= Len(a) + Len(b)
    <3>1. i \in 1..(Len(a) + Len(b)) /\ i \in 1..Len(p) /\ i - Len(a) \in 1..Len(b) /\ ~(i <= Len(a))
      BY ONLY <1>1, <1>5, <2>1, <2>3
    <3>2. l[i] = b[i - Len(a)]
      BY ONLY <1>1, <1>4, <3>1
    <3>3. r[i] = b[i - Len(a)]
      BY ONLY <1>2, <1>3, <2>1, <3>1
    <3> QED  BY <3>2, <3>3
  <2>4. CASE i = Len(a) + Len(b) + 1
    <3>1. i = Len(p) + 1 /\ ~(i <= Len(a)) /\ i - Len(a) = Len(b) + 1
      BY ONLY <1>1, <1>5, <2>4
    <3>2. l[i] = x
      BY ONLY <1>4, <3>1
    <3>3. r[i] = q[i - Len(a)]
      BY ONLY <1>3, <2>1, <3>1
    <3> QED  BY ONLY <1>2, <3>1, <3>2, <3>3
  <2> QED  BY <1>5, <2>1, <2>2, <2>3, <2>4
<1>8. l = r
  BY ONLY <1>3, <1>4, <1>6, <1>7, SeqEqual
<1> QED  BY <1>8 DEF AppendsLast

LEMMA KeptConcat ==
  ASSUME NEW S, NEW K, NEW s \in Seq(S)
  PROVE  \A t \in Seq(S) : Kept(s \o t, K) = Kept(s, K) \o Kept(t, K)
<1> DEFINE B == {t \in Seq(S) : Kept(s \o t, K) # Kept(s, K) \o Kept(t, K)}
<1>0. Kept(s, K) \in Seq(S)
  BY KeptType
<1>1. ASSUME B # {} PROVE FALSE
  <2>1. PICK t \in B : t = << >> \/ \E u \in Seq(S), x \in S : t = Append(u, x) /\ u \notin B
    <3>1. B \in SUBSET Seq(S)
      OBVIOUS
    <3> HIDE DEF B
    <3> QED  BY <1>1, <3>1, ShortestSequence
  <2>2. Kept(s \o t, K) # Kept(s, K) \o Kept(t, K)
    OBVIOUS
  <2>3. t # << >>
    <3>1. s \o << >> = s /\ Kept(s, K) \o << >> = Kept(s, K)
      BY <1>0, ConcatEmptySeq
    <3> QED  BY <2>2, <3>1, KeptNone
  <2>4. PICK u \in Seq(S), x \in S : t = Append(u, x) /\ u \notin B
    BY <2>1, <2>3
  <2>5. Kept(s \o u, K) = Kept(s, K) \o Kept(u, K)
    BY <2>4
  <2>6. s \o u \in Seq(S) /\ s \o t = Append(s \o u, x)
    BY <2>4
  <2>7. Kept(s \o t, K) = IF x \in K THEN Append(Kept(s \o u, K), x) ELSE Kept(s \o u, K)
    <3> PICK v : v = s \o u
      OBVIOUS
    <3>1. v \in Seq(S) /\ x \in S /\ s \o t = Append(v, x)
      BY <2>4, <2>6
    <3>2. Kept(Append(v, x), K) = IF x \in K THEN Append(Kept(v, K), x) ELSE Kept(v, K)
      BY ONLY <3>1, KeptAppend
    <3> QED  BY <3>1, <3>2
  <2>8. Kept(t, K) = IF x \in K THEN Append(Kept(u, K), x) ELSE Kept(u, K)
    BY <2>4, KeptAppend
  <2>9. Kept(u, K) \in Seq(S)
    BY KeptType
  <2>10. Append(Kept(s, K) \o Kept(u, K), x) = Kept(s, K) \o Append(Kept(u, K), x)
    <3> PICK a, b : a = Kept(s, K) /\ b = Kept(u, K)
      OBVIOUS
    <3>1. a \in Seq(S) /\ b \in Seq(S) /\ x \in S
      BY <1>0, <2>4, <2>9
    <3>2. Append(a \o b, x) = a \o Append(b, x)
      <4>1. AppendsLast(a, b, x)
        BY ONLY <3>1, AppendLast
      <4> QED  BY <4>1 DEF AppendsLast
    <3> QED  BY <3>2
  <2> QED  BY ONLY <2>2, <2>5, <2>7, <2>8, <2>10
<1> QED  BY <1>1

\* Something is kept of a sequence exactly if K has an element of it.
LEMMA KeptSome ==
  ASSUME NEW S, NEW K
  PROVE  \A s \in Seq(S) : Kept(s, K) # << >> <=> \E i \in DOMAIN s : s[i] \in K
<1> DEFINE P(s) == Kept(s, K) # << >> <=> \E i \in DOMAIN s : s[i] \in K
           B == {s \in Seq(S) : ~P(s)}
<1>1. ASSUME B # {} PROVE FALSE
  <2>1. PICK s \in B : s = << >> \/ \E t \in Seq(S), x \in S : s = Append(t, x) /\ t \notin B
    <3>1. B \in SUBSET Seq(S)
      OBVIOUS
    <3> HIDE DEF B
    <3> QED  BY <1>1, <3>1, ShortestSequence
  <2>2. ~P(s)
    OBVIOUS
  <2>3. s # << >>
    <3>1. P(<< >>)
      <4>1. DOMAIN << >> = {}
        OBVIOUS
      <4> QED  BY <4>1, KeptNone
    <3> HIDE DEF P
    <3> QED  BY <2>2, <3>1
  <2>4. PICK t \in Seq(S), x \in S : s = Append(t, x) /\ t \notin B
    BY <2>1, <2>3
  <2>5. P(t)
    BY <2>4
  <2>6. /\ DOMAIN t = 1..Len(t) /\ Len(t) \in Nat /\ DOMAIN s = 1..(Len(t) + 1)
        /\ s[Len(t) + 1] = x /\ \A i \in 1..Len(t) : s[i] = t[i]
    BY <2>4
  <2>7. \A i \in 1..(Len(t) + 1) : i \in 1..Len(t) \/ i = Len(t) + 1
    BY <2>6
  <2>8. \A i \in 1..Len(t) : i \in 1..(Len(t) + 1)
    BY <2>6
  <2>9. Len(t) + 1 \in 1..(Len(t) + 1)
    BY <2>6
  <2>10. (\E i \in DOMAIN s : s[i] \in K) <=> x \in K \/ \E i \in DOMAIN t : t[i] \in K
    BY <2>6, <2>7, <2>8, <2>9
  <2>11. Kept(s, K) = IF x \in K THEN Append(Kept(t, K), x) ELSE Kept(t, K)
    BY <2>4, KeptAppend
  <2>12. Append(Kept(t, K), x) # << >>
    <3>1. Kept(t, K) \in Seq(S)
      BY KeptType
    <3> QED  BY <3>1, AppendProperties
  <2> QED  BY <2>2, <2>5, <2>10, <2>11, <2>12
<1>2. \A s \in Seq(S) : P(s)
  BY <1>1
<1> QED  BY <1>2

\* The recursion of FlattenSeq, one step of it.
Flattening(s, flat, n) == IF n = 1 THEN s[n] ELSE flat[n - 1] \o s[n]

LEMMA FlatExists ==
  ASSUME NEW s, Len(s) \in Nat, Len(s) # 0
  PROVE  \E flat : flat = [n \in 1..Len(s) |-> Flattening(s, flat, n)]
<1> DEFINE Defined(m) == \E flat : flat = [n \in 1..m |-> Flattening(s, flat, n)]
<1>1. Defined(0)
  <2> DEFINE none == [n \in 1..0 |-> << >>]
  <2>1. none = [n \in 1..0 |-> Flattening(s, none, n)]
    OBVIOUS
  <2> QED  BY <2>1
<1>2. ASSUME NEW m \in Nat, Defined(m) PROVE Defined(m + 1)
  <2>1. PICK g : g = [n \in 1..m |-> Flattening(s, g, n)]
    BY <1>2
  <2> DEFINE h == [n \in 1..(m + 1) |-> Flattening(s, g, n)]
  <2>2. \A n \in 1..m : h[n] = g[n]
    <3>1. \A n \in 1..m : n \in 1..(m + 1)
      OBVIOUS
    <3>2. \A n \in 1..m : g[n] = Flattening(s, g, n)
      BY <2>1
    <3> QED  BY <3>1, <3>2
  <2> HIDE DEF h
  <2>3. ASSUME NEW n \in 1..(m + 1) PROVE Flattening(s, g, n) = Flattening(s, h, n)
    <3>1. n # 1 => n - 1 \in 1..m
      OBVIOUS
    <3> QED  BY <2>2, <3>1 DEF Flattening
  <2>4. h = [n \in 1..(m + 1) |-> Flattening(s, h, n)]
    BY <2>3 DEF h
  <2> QED  BY <2>4
<1> HIDE DEF Defined
<1> DEFINE Missing == {m \in Nat : ~Defined(m)}
<1>3. ASSUME Missing # {} PROVE FALSE
  <2>1. Missing \in SUBSET Nat
    OBVIOUS
  <2>2. PICK m \in Missing : \A k \in Missing : m <= k
    <3> HIDE DEF Missing
    <3> QED  BY <1>3, <2>1, LeastNatural
  <2>3. m # 0 /\ m \in Nat /\ ~Defined(m)
    BY <1>1
  <2>4. m - 1 \in Nat /\ m - 1 \notin Missing
    BY <2>2, <2>3
  <2>5. Defined((m - 1) + 1)
    BY <1>2, <2>4
  <2> QED  BY <2>3, <2>5
<1>4. Defined(Len(s))
  BY <1>3
<1> QED  BY <1>4 DEF Defined

LEMMA FlatIs ==
  ASSUME NEW s, Len(s) \in Nat, Len(s) # 0
  PROVE  \E flat : /\ FlattenSeq(s) = flat[Len(s)]
                   /\ \A n \in 1..Len(s) : flat[n] = Flattening(s, flat, n)
<1> DEFINE Rec(flat) == flat = [n \in 1..Len(s) |-> Flattening(s, flat, n)]
           it == CHOOSE flat : Rec(flat)
<1>1. FlattenSeq(s) = it[Len(s)]
  BY DEF FlattenSeq, Flattening
<1>2. Rec(it)
  <2>1. \E flat : Rec(flat)
    BY FlatExists
  <2> HIDE DEF Rec
  <2> QED  BY <2>1
<1> HIDE DEF it
<1>3. \A n \in 1..Len(s) : it[n] = Flattening(s, it, n)
  BY <1>2
<1> QED  BY <1>1, <1>3

\* FlattenSeq, one group after another.
LEMMA FlatNone == FlattenSeq(<< >>) = << >>
<1>1. Len(<< >>) = 0
  OBVIOUS
<1> QED  BY <1>1 DEF FlattenSeq

LEMMA FlatAppend ==
  ASSUME NEW S, NEW s \in Seq(Seq(S)), NEW x \in Seq(S)
  PROVE  FlattenSeq(Append(s, x)) = FlattenSeq(s) \o x
<1> PICK t : t = Append(s, x)
  OBVIOUS
<1> PICK n : n = Len(s)
  OBVIOUS
<1>1. n \in Nat /\ Len(t) = n + 1 /\ t[n + 1] = x /\ \A i \in 1..n : t[i] = s[i]
  OBVIOUS
<1>2. PICK g : FlattenSeq(t) = g[n + 1] /\ \A i \in 1..(n + 1) : g[i] = Flattening(t, g, i)
  <2>1. Len(t) \in Nat /\ Len(t) # 0
    BY <1>1
  <2>2. PICK g : FlattenSeq(t) = g[Len(t)] /\ \A i \in 1..Len(t) : g[i] = Flattening(t, g, i)
    BY <2>1, FlatIs
  <2> QED  BY <1>1, <2>2
<1>3. CASE n = 0
  <2>1. s = << >>
    BY <1>3, EmptySeq
  <2>2. 1 \in 1..(n + 1) /\ n + 1 = 1
    BY <1>3
  <2>3. FlattenSeq(t) = x
    BY <1>1, <1>2, <2>2 DEF Flattening
  <2>4. << >> \o x = x
    BY ConcatEmptySeq
  <2> QED  BY <2>1, <2>3, <2>4, FlatNone
<1>4. CASE n # 0
  <2>1. PICK f : FlattenSeq(s) = f[n] /\ \A i \in 1..n : f[i] = Flattening(s, f, i)
    BY <1>1, <1>4, FlatIs
  <2> DEFINE Differ == {i \in Nat : i \in 1..n /\ f[i] # g[i]}
  <2>2. ASSUME Differ # {} PROVE FALSE
    <3>1. Differ \in SUBSET Nat
      OBVIOUS
    <3>2. PICK i \in Differ : \A k \in Differ : i <= k
      <4> HIDE DEF Differ
      <4> QED  BY <2>2, <3>1, LeastNatural
    <3>3. i \in 1..n /\ i \in 1..(n + 1) /\ f[i] # g[i] /\ t[i] = s[i]
      BY <1>1
    <3>4. f[i] = Flattening(s, f, i) /\ g[i] = Flattening(t, g, i)
      BY <1>2, <2>1, <3>3
    <3>5. i # 1
      BY ONLY <3>3, <3>4 DEF Flattening
    <3>6. i - 1 \in Nat /\ i - 1 \in 1..n /\ ~(i <= i - 1)
      BY <1>1, <3>3, <3>5
    <3>7. f[i - 1] = g[i - 1]
      BY <3>2, <3>6
    <3> QED  BY ONLY <3>3, <3>4, <3>5, <3>7 DEF Flattening
  <2>3. n \in 1..n /\ n + 1 \in 1..(n + 1) /\ n + 1 # 1 /\ (n + 1) - 1 = n
    BY <1>1, <1>4
  <2>4. f[n] = g[n]
    BY <1>1, <2>2, <2>3
  <2>5. g[n + 1] = Flattening(t, g, n + 1)
    BY <1>2, <2>3
  <2>6. g[n + 1] = g[n] \o x
    BY ONLY <1>1, <2>3, <2>5 DEF Flattening
  <2> QED  BY <1>2, <2>1, <2>4, <2>6
<1> QED  BY <1>3, <1>4

LEMMA FlatType ==
  ASSUME NEW S
  PROVE  \A s \in Seq(Seq(S)) : FlattenSeq(s) \in Seq(S)
<1> DEFINE B == {s \in Seq(Seq(S)) : FlattenSeq(s) \notin Seq(S)}
<1>1. ASSUME B # {} PROVE FALSE
  <2>1. PICK s \in B : s = << >> \/ \E t \in Seq(Seq(S)), x \in Seq(S) : s = Append(t, x) /\ t \notin B
    <3>1. B \in SUBSET Seq(Seq(S))
      OBVIOUS
    <3> HIDE DEF B
    <3> QED  BY <1>1, <3>1, ShortestSequence
  <2>2. s # << >>
    BY FlatNone
  <2>3. PICK t \in Seq(Seq(S)), x \in Seq(S) : s = Append(t, x) /\ t \notin B
    BY <2>1, <2>2
  <2>4. FlattenSeq(s) = FlattenSeq(t) \o x
    BY <2>3, FlatAppend
  <2>5. FlattenSeq(t) \in Seq(S)
    BY <2>3
  <2>6. FlattenSeq(t) \o x \in Seq(S)
    BY <2>3, <2>5, ConcatProperties
  <2> QED  BY <2>4, <2>6
<1> QED  BY <1>1

\* What is kept of the groups is what is kept of each of them.
Picked(groups, K) == [i \in DOMAIN groups |-> Kept(groups[i], K)]

LEMMA PickedAppend ==
  ASSUME NEW S, NEW K, NEW t \in Seq(Seq(S)), NEW x \in Seq(S)
  PROVE  /\ Picked(t, K) \in Seq(Seq(S)) /\ Kept(x, K) \in Seq(S)
         /\ Picked(Append(t, x), K) = Append(Picked(t, K), Kept(x, K))
<1>1. \A y \in Seq(S) : Kept(y, K) \in Seq(S)
  BY KeptType
<1> PICK n : n = Len(t)
  OBVIOUS
<1> PICK s : s = Append(t, x)
  OBVIOUS
<1>2. n \in Nat /\ DOMAIN t = 1..n /\ s \in Seq(Seq(S)) /\ DOMAIN s = 1..(n + 1) /\ s[n + 1] = x
  OBVIOUS
<1>3. /\ \A i \in 1..n : s[i] = t[i] /\ t[i] \in Seq(S)
      /\ \A i \in 1..(n + 1) : s[i] \in Seq(S)
  OBVIOUS
<1> PICK p : p = Picked(t, K)
  OBVIOUS
<1> PICK q : q = Picked(s, K)
  OBVIOUS
<1> PICK y : y = Kept(x, K)
  OBVIOUS
<1>4. p = [i \in 1..n |-> Kept(t[i], K)] /\ q = [i \in 1..(n + 1) |-> Kept(s[i], K)]
  BY <1>2 DEF Picked
<1>5. p \in Seq(Seq(S)) /\ Len(p) = n /\ y \in Seq(S)
  BY <1>1, <1>2, <1>3, <1>4
<1>6. q \in Seq(Seq(S)) /\ Len(q) = n + 1
  BY <1>1, <1>2, <1>3, <1>4
<1>7. /\ Append(p, y) \in Seq(Seq(S)) /\ Len(Append(p, y)) = n + 1 /\ Append(p, y)[n + 1] = y
      /\ \A i \in 1..n : Append(p, y)[i] = p[i]
  BY <1>2, <1>5
<1> PICK r : r = Append(p, y)
  OBVIOUS
<1>8. ASSUME NEW i \in 1..(n + 1) PROVE q[i] = r[i]
  <2>1. CASE i \in 1..n
    <3>1. q[i] = Kept(s[i], K) /\ p[i] = Kept(t[i], K) /\ s[i] = t[i] /\ r[i] = p[i]
      BY <1>3, <1>4, <1>7, <2>1
    <3> QED  BY <3>1
  <2>2. CASE i = n + 1
    <3>1. q[i] = Kept(s[i], K) /\ s[i] = x /\ r[i] = y
      BY <1>2, <1>4, <1>7, <2>2
    <3> QED  BY <3>1
  <2>3. i \in 1..n \/ i = n + 1
    BY <1>2
  <2> QED  BY <2>1, <2>2, <2>3
<1>9. r \in Seq(Seq(S)) /\ Len(r) = n + 1
  BY <1>7
<1>10. q = r
  BY ONLY <1>6, <1>8, <1>9, SeqEqual
<1> QED  BY <1>5, <1>10

LEMMA FlatKept ==
  ASSUME NEW S, NEW K
  PROVE  \A s \in Seq(Seq(S)) :
           /\ Kept(Picked(s, K), Seq(S) \ {<< >>}) \in Seq(Seq(S))
           /\ FlattenSeq(Kept(Picked(s, K), Seq(S) \ {<< >>})) = Kept(FlattenSeq(s), K)
<1> DEFINE R == Seq(S) \ {<< >>}
           P(s) == /\ Kept(Picked(s, K), R) \in Seq(Seq(S))
                   /\ FlattenSeq(Kept(Picked(s, K), R)) = Kept(FlattenSeq(s), K)
           B == {s \in Seq(Seq(S)) : ~P(s)}
<1>1. ASSUME B # {} PROVE FALSE
  <2>1. PICK s \in B : s = << >> \/ \E t \in Seq(Seq(S)), x \in Seq(S) : s = Append(t, x) /\ t \notin B
    <3>1. B \in SUBSET Seq(Seq(S))
      OBVIOUS
    <3> HIDE DEF B
    <3> QED  BY <1>1, <3>1, ShortestSequence
  <2>2. ~P(s)
    OBVIOUS
  <2>3. P(<< >>)
    <3>1. Picked(<< >>, K) = << >>
      BY DEF Picked
    <3>2. << >> \in Seq(Seq(S))
      OBVIOUS
    <3> QED  BY <3>1, <3>2, KeptNone, FlatNone
  <2>4. s # << >>
    <3> HIDE DEF P
    <3> QED  BY <2>2, <2>3
  <2>5. PICK t \in Seq(Seq(S)), x \in Seq(S) : s = Append(t, x) /\ t \notin B
    BY <2>1, <2>4
  <2>6. P(t)
    BY <2>5
  <2> PICK p, y : p = Picked(t, K) /\ y = Kept(x, K)
    OBVIOUS
  <2>7. p \in Seq(Seq(S)) /\ y \in Seq(S) /\ Picked(s, K) = Append(p, y)
    BY <2>5, PickedAppend
  <2> PICK k : k = Kept(p, R)
    OBVIOUS
  <2>8. Kept(Append(p, y), R) = IF y \in R THEN Append(k, y) ELSE k
    <3> HIDE DEF R
    <3> QED  BY <2>7, KeptAppend
  <2>9. k \in Seq(Seq(S)) /\ FlattenSeq(k) = Kept(FlattenSeq(t), K)
    BY <2>6
  <2>10. Kept(FlattenSeq(s), K) = Kept(FlattenSeq(t), K) \o y
    <3> PICK f : f = FlattenSeq(t)
      OBVIOUS
    <3>1. f \in Seq(S) /\ FlattenSeq(s) = f \o x
      BY <2>5, FlatType, FlatAppend
    <3>2. Kept(f \o x, K) = Kept(f, K) \o Kept(x, K)
      BY <3>1, KeptConcat
    <3> QED  BY <3>1, <3>2
  <2>11. CASE y \in R
    <3>1. Append(k, y) \in Seq(Seq(S))
      BY <2>7, <2>9
    <3>2. FlattenSeq(Append(k, y)) = FlattenSeq(k) \o y
      BY <2>7, <2>9, FlatAppend
    <3> QED  BY <2>2, <2>7, <2>8, <2>9, <2>10, <2>11, <3>1, <3>2
  <2>12. CASE y \notin R
    <3>1. y = << >>
      BY <2>7, <2>12
    <3>2. Kept(FlattenSeq(t), K) \in Seq(S)
      BY FlatType, KeptType
    <3>3. Kept(FlattenSeq(t), K) \o << >> = Kept(FlattenSeq(t), K)
      BY <3>2, ConcatEmptySeq
    <3> QED  BY <2>2, <2>7, <2>8, <2>9, <2>10, <2>12, <3>1, <3>3
  <2> QED  BY <2>11, <2>12
<1> QED  BY <1>1

\* Something is kept of the flattened groups exactly if K has an element of a group.
LEMMA FlatSome ==
  ASSUME NEW S, NEW K
  PROVE  \A s \in Seq(Seq(S)) :
           Kept(FlattenSeq(s), K) # << >>
             <=> \E i \in DOMAIN s : \E j \in DOMAIN s[i] : s[i][j] \in K
<1> DEFINE Has(g) == \E j \in DOMAIN g : g[j] \in K
           P(s) == Kept(FlattenSeq(s), K) # << >> <=> \E i \in DOMAIN s : Has(s[i])
           B == {s \in Seq(Seq(S)) : ~P(s)}
<1>1. ASSUME B # {} PROVE FALSE
  <2>1. PICK s \in B : s = << >> \/ \E t \in Seq(Seq(S)), x \in Seq(S) : s = Append(t, x) /\ t \notin B
    <3>1. B \in SUBSET Seq(Seq(S))
      OBVIOUS
    <3> HIDE DEF B
    <3> QED  BY <1>1, <3>1, ShortestSequence
  <2>2. ~P(s)
    OBVIOUS
  <2>3. P(<< >>)
    <3>1. DOMAIN << >> = {}
      OBVIOUS
    <3> QED  BY <3>1, KeptNone, FlatNone
  <2>4. s # << >>
    <3> HIDE DEF P
    <3> QED  BY <2>2, <2>3
  <2>5. PICK t \in Seq(Seq(S)), x \in Seq(S) : s = Append(t, x) /\ t \notin B
    BY <2>1, <2>4
  <2>6. P(t)
    BY <2>5
  <2>7. Kept(x, K) # << >> <=> Has(x)
    BY KeptSome
  <2> HIDE DEF Has
  <2>8. (\E i \in DOMAIN s : Has(s[i])) <=> Has(x) \/ \E i \in DOMAIN t : Has(t[i])
    <3>1. /\ DOMAIN t = 1..Len(t) /\ Len(t) \in Nat /\ DOMAIN s = 1..(Len(t) + 1)
          /\ s[Len(t) + 1] = x /\ \A i \in 1..Len(t) : s[i] = t[i]
      BY <2>5
    <3>2. /\ \A i \in 1..(Len(t) + 1) : i \in 1..Len(t) \/ i = Len(t) + 1
          /\ \A i \in 1..Len(t) : i \in 1..(Len(t) + 1)
          /\ Len(t) + 1 \in 1..(Len(t) + 1)
      BY <3>1
    <3> QED  BY ONLY <3>1, <3>2
  <2> PICK f : f = FlattenSeq(t)
    OBVIOUS
  <2>9. f \in Seq(S) /\ FlattenSeq(s) = f \o x
    BY <2>5, FlatType, FlatAppend
  <2>10. Kept(f \o x, K) = Kept(f, K) \o Kept(x, K)
    BY <2>9, KeptConcat
  <2> PICK a, b : a = Kept(f, K) /\ b = Kept(x, K)
    OBVIOUS
  <2>11. a \in Seq(S) /\ b \in Seq(S)
    BY <2>9, KeptType
  <2>12. a \o b # << >> <=> a # << >> \/ b # << >>
    <3>1. Len(a \o b) = Len(a) + Len(b) /\ Len(a) \in Nat /\ Len(b) \in Nat /\ a \o b \in Seq(S)
      BY <2>11, ConcatProperties
    <3>2. (Len(a) = 0 <=> a = << >>) /\ (Len(b) = 0 <=> b = << >>)
      BY <2>11
    <3>3. Len(a \o b) = 0 <=> a \o b = << >>
      BY <3>1, EmptySeq
    <3> QED  BY <3>1, <3>2, <3>3
  <2> QED  BY <2>2, <2>6, <2>7, <2>8, <2>9, <2>10, <2>12
<1> QED  BY <1>1

-----------------------------------------------------------------------------
(* The hooks of an event.                                                  *)

\* What the groups of an event hold: the user's scripts as put in, and n hooks of ccidle.
Holds(groups, scripts, n) ==
  /\ groups \in Seq(Seq(Commands))
  /\ Kept(FlattenSeq(groups), UserScripts) = scripts
  /\ Len(Kept(FlattenSeq(groups), Checkouts)) = n

\* Settings: every event holds the user's scripts, and one hook of ccidle while installed.
SettingsInv ==
  /\ SettingsTypeOK
  /\ \A e \in HookEvents : Holds(settings[e], users[e], IF installed THEN 1 ELSE 0)

\* On a disk that has the user's scripts, the commands that are not ccidle's are these.
LEMMA ForeignIsUsers ==
  ASSUME UserScripts \subseteq files
  PROVE  /\ Foreign = UserScripts
         /\ \A command \in Commands : IsOwnCommand(command) <=> command \in Checkouts
BY SettingsAssumption DEF Foreign, IsOwnCommand, ShimBeside, Commands

\* Stripping leaves the user's scripts and none of ccidle's hooks.
LEMMA StrippedHolds ==
  ASSUME UserScripts \subseteq files, NEW groups \in Seq(Seq(Commands))
  PROVE  Holds(StripOwnHooks(groups), Kept(FlattenSeq(groups), UserScripts), 0)
<1> PICK C : C = Commands
  OBVIOUS
<1> PICK F : F = UserScripts
  OBVIOUS
<1>1. groups \in Seq(Seq(C)) /\ F \subseteq C /\ C \cap Checkouts \cap F = {}
  BY SettingsAssumption DEF Commands
<1> PICK k : k = StripOwnHooks(groups)
  OBVIOUS
<1> PICK f : f = FlattenSeq(groups)
  OBVIOUS
<1>2. k = Kept(Picked(groups, F), Seq(C) \ {<< >>})
  BY ForeignIsUsers DEF StripOwnHooks, Picked, NonEmpty
<1>3. k \in Seq(Seq(C)) /\ FlattenSeq(k) = Kept(f, F)
  BY <1>1, <1>2, FlatKept
<1>4. f \in Seq(C)
  BY <1>1, FlatType
<1>5. Kept(Kept(f, F), F) = Kept(f, F)
  <2>1. C \cap F = (C \cap F) \cap F
    OBVIOUS
  <2> QED  BY ONLY <1>4, <2>1, KeptTwice
<1>6. Kept(Kept(f, F), Checkouts) = << >>
  <2>1. Kept(f, F) \in Seq(F)
    BY <1>1, <1>4, KeptType
  <2>2. F \cap Checkouts \subseteq {}
    BY SettingsAssumption
  <2>3. Kept(Kept(f, F), Checkouts) \in Seq({})
    BY <2>1, <2>2, KeptType
  <2> QED  BY <2>3
<1>7. Len(<< >>) = 0
  OBVIOUS
<1> QED  BY <1>3, <1>5, <1>6, <1>7 DEF Holds

\* One command more.
LEMMA OneMore ==
  ASSUME NEW groups, NEW scripts, NEW n \in Nat, Holds(groups, scripts, n),
         NEW command \in Commands,
         NEW more \in Seq(Seq(Commands)),
         FlattenSeq(more) = Append(FlattenSeq(groups), command)
  PROVE  /\ command \in UserScripts => Holds(more, Append(scripts, command), n)
         /\ command \in Checkouts => Holds(more, scripts, n + 1)
<1> PICK f : f = FlattenSeq(groups)
  OBVIOUS
<1>1. f \in Seq(Commands)
  BY FlatType DEF Holds
<1>2. /\ Kept(Append(f, command), UserScripts) =
            IF command \in UserScripts THEN Append(Kept(f, UserScripts), command)
                                       ELSE Kept(f, UserScripts)
      /\ Kept(Append(f, command), Checkouts) =
            IF command \in Checkouts THEN Append(Kept(f, Checkouts), command)
                                     ELSE Kept(f, Checkouts)
  BY <1>1, KeptAppend
<1>3. Kept(f, Checkouts) \in Seq(Commands)
  BY <1>1, KeptType
<1>4. Len(Append(Kept(f, Checkouts), command)) = Len(Kept(f, Checkouts)) + 1
  BY <1>3
<1>5. command \in Checkouts => command \notin UserScripts
  BY SettingsAssumption
<1> QED  BY <1>2, <1>4, <1>5 DEF Holds

\* A command in a group of its own, and one in the last group.
LEMMA InOwnGroup ==
  ASSUME NEW groups \in Seq(Seq(Commands)), NEW command \in Commands
  PROVE  /\ Append(groups, <<command>>) \in Seq(Seq(Commands))
         /\ FlattenSeq(Append(groups, <<command>>)) = Append(FlattenSeq(groups), command)
<1>1. <<command>> \in Seq(Commands)
  OBVIOUS
<1>2. FlattenSeq(Append(groups, <<command>>)) = FlattenSeq(groups) \o <<command>>
  BY <1>1, FlatAppend
<1>3. FlattenSeq(groups) \in Seq(Commands)
  BY FlatType
<1>4. Append(FlattenSeq(groups), command) = FlattenSeq(groups) \o <<command>>
  BY <1>3, AppendIsConcat
<1> QED  BY <1>1, <1>2, <1>4

LEMMA InLastGroup ==
  ASSUME NEW groups \in Seq(Seq(Commands)), groups # << >>, NEW command \in Commands,
         NEW more, more = Front(groups) \o <<Append(Last(groups), command)>>
  PROVE  /\ more \in Seq(Seq(Commands))
         /\ FlattenSeq(more) = Append(FlattenSeq(groups), command)
<1>1. PICK t \in Seq(Seq(Commands)), x \in Seq(Commands) : groups = Append(t, x)
  BY SequenceEmptyOrAppend
<1>2. Last(groups) = x
  BY <1>1 DEF Last
<1>3. Front(groups) = t
  <2>1. Len(groups) - 1 = Len(t) /\ Len(t) \in Nat
    BY <1>1
  <2>2. Front(groups) = SubSeq(groups, 1, Len(t))
    BY <2>1 DEF Front
  <2> PICK p : p = SubSeq(groups, 1, Len(t))
    OBVIOUS
  <2>3. /\ p \in Seq(Seq(Commands)) /\ Len(p) = Len(t)
        /\ \A i \in 1..Len(t) : p[i] = groups[i] /\ groups[i] = t[i]
    BY <1>1, <2>1
  <2>4. p = t
    BY ONLY <1>1, <2>3, SeqEqual
  <2> QED  BY <2>2, <2>4
<1> PICK y : y = Append(x, command)
  OBVIOUS
<1>4. y \in Seq(Commands)
  OBVIOUS
<1>5. more = Append(t, y) /\ Append(t, y) \in Seq(Seq(Commands))
  BY <1>1, <1>2, <1>3, <1>4, AppendIsConcat
<1>6. FlattenSeq(more) = FlattenSeq(t) \o y /\ FlattenSeq(groups) = FlattenSeq(t) \o x
  BY <1>1, <1>4, <1>5, FlatAppend
<1> PICK f : f = FlattenSeq(t)
  OBVIOUS
<1>7. f \in Seq(Commands)
  BY <1>1, FlatType
<1>8. AppendsLast(f, x, command)
  BY ONLY <1>1, <1>7, command \in Commands, AppendLast
<1> QED  BY <1>5, <1>6, <1>8 DEF AppendsLast

LEMMA SettingsStep == SettingsInv /\ SettingsNext => SettingsInv'
<1> SUFFICES ASSUME SettingsInv, SettingsNext PROVE SettingsInv'
  OBVIOUS
<1>0. UserScripts \subseteq files /\ settings \in [HookEvents -> Seq(Seq(Commands))]
  BY DEF SettingsInv, SettingsTypeOK
<1>1. ASSUME NEW e \in HookEvents
      PROVE  /\ settings[e] \in Seq(Seq(Commands))
             /\ StripOwnHooks(settings[e]) \in Seq(Seq(Commands))
             /\ Holds(StripOwnHooks(settings[e]), users[e], 0)
  <2>1. settings[e] \in Seq(Seq(Commands)) /\ Kept(FlattenSeq(settings[e]), UserScripts) = users[e]
    BY DEF SettingsInv, SettingsTypeOK, Holds
  <2>2. Holds(StripOwnHooks(settings[e]), users[e], 0)
    BY <1>0, <2>1, StrippedHolds
  <2> QED  BY <2>1, <2>2 DEF Holds
<1>2. ASSUME NEW checkout \in Checkouts, Install(checkout) PROVE SettingsInv'
  <2>1. checkout \in Commands
    BY DEF Commands
  <2>2. ASSUME NEW e \in HookEvents
        PROVE  /\ settings'[e] \in Seq(Seq(Commands))
               /\ Holds(settings'[e], users[e], 1)
    <3> PICK g : g = StripOwnHooks(settings[e])
      OBVIOUS
    <3>1. g \in Seq(Seq(Commands)) /\ Holds(g, users[e], 0)
      BY <1>1
    <3>2. settings'[e] = Append(g, <<checkout>>)
      BY <1>2 DEF Install, MergeSettings
    <3> PICK m : m = Append(g, <<checkout>>)
      OBVIOUS
    <3>3. m \in Seq(Seq(Commands)) /\ FlattenSeq(m) = Append(FlattenSeq(g), checkout)
      BY <2>1, <3>1, InOwnGroup
    <3>4. Holds(m, users[e], 0 + 1)
      BY <2>1, <3>1, <3>3, OneMore
    <3> QED  BY <3>2, <3>3, <3>4
  <2>3. settings' = [e \in HookEvents |-> Append(StripOwnHooks(settings[e]), <<checkout>>)]
    BY <1>2 DEF Install, MergeSettings
  <2>4. settings' \in [HookEvents -> Seq(Seq(Commands))]
    BY <2>2, <2>3
  <2>5. installed' = TRUE /\ UNCHANGED <<files, users>>
    BY <1>2 DEF Install
  <2>6. SettingsTypeOK'
    BY <2>4, <2>5 DEF SettingsInv, SettingsTypeOK
  <2> QED  BY <2>2, <2>5, <2>6 DEF SettingsInv
<1>3. ASSUME Uninstall PROVE SettingsInv'
  <2>1. settings' = [e \in HookEvents |-> StripOwnHooks(settings[e])]
        /\ installed' = FALSE /\ UNCHANGED <<files, users>>
    BY <1>3 DEF Uninstall, UnmergeSettings
  <2>2. \A e \in HookEvents : StripOwnHooks(settings[e]) \in Seq(Seq(Commands))
    BY <1>1
  <2>3. settings' \in [HookEvents -> Seq(Seq(Commands))]
    BY <2>1, <2>2
  <2>4. SettingsTypeOK'
    BY <2>1, <2>3 DEF SettingsInv, SettingsTypeOK
  <2>5. \A e \in HookEvents : Holds(settings'[e], users[e], 0)
    BY <1>1, <2>1
  <2> QED  BY <2>1, <2>4, <2>5 DEF SettingsInv
<1>4. ASSUME NEW event \in HookEvents, NEW script \in UserScripts, UserAdds(event, script)
      PROVE  SettingsInv'
  <2> PICK groups : groups = settings[event]
    OBVIOUS
  <2> PICK n : n = IF installed THEN 1 ELSE 0
    OBVIOUS
  <2>1. groups \in Seq(Seq(Commands)) /\ script \in Commands /\ n \in Nat
        /\ Holds(groups, users[event], n)
    BY <1>1 DEF Commands, SettingsInv
  <2>2. PICK more : /\ settings' = [settings EXCEPT ![event] = more]
                    /\ \/ more = Append(groups, <<script>>)
                       \/ groups # << >> /\ more = Front(groups) \o <<Append(Last(groups), script)>>
    BY <1>4 DEF UserAdds
  <2>3. more \in Seq(Seq(Commands)) /\ FlattenSeq(more) = Append(FlattenSeq(groups), script)
    <3>1. CASE more = Append(groups, <<script>>)
      BY <2>1, <3>1, InOwnGroup
    <3>2. CASE groups # << >> /\ more = Front(groups) \o <<Append(Last(groups), script)>>
      BY <2>1, <3>2, InLastGroup
    <3> QED  BY <2>2, <3>1, <3>2
  <2>4. Holds(more, Append(users[event], script), n)
    BY <2>1, <2>3, OneMore
  <2>5. users' = [users EXCEPT ![event] = Append(@, script)] /\ UNCHANGED <<files, installed>>
    BY <1>4 DEF UserAdds
  <2>6. users \in [HookEvents -> Seq(UserScripts)] /\ installed \in BOOLEAN
    BY DEF SettingsInv, SettingsTypeOK
  <2>7. settings' \in [HookEvents -> Seq(Seq(Commands))]
    BY <1>0, <2>2, <2>3
  <2>8. users' \in [HookEvents -> Seq(UserScripts)]
    BY <2>5, <2>6
  <2>9. SettingsTypeOK'
    BY <1>0, <2>5, <2>6, <2>7, <2>8 DEF SettingsInv, SettingsTypeOK
  <2>10. ASSUME NEW e \in HookEvents PROVE Holds(settings'[e], users'[e], n)
    <3>1. CASE e = event
      <4>1. settings'[e] = more /\ users'[e] = Append(users[event], script)
        BY <1>0, <2>2, <2>5, <2>6, <3>1
      <4> QED  BY <2>4, <4>1
    <3>2. CASE e # event
      <4>1. settings'[e] = settings[e] /\ users'[e] = users[e]
        BY <1>0, <2>2, <2>5, <2>6, <3>2
      <4>2. Holds(settings[e], users[e], n)
        BY DEF SettingsInv
      <4> QED  BY <4>1, <4>2
    <3> QED  BY <3>1, <3>2
  <2> QED  BY <2>5, <2>9, <2>10 DEF SettingsInv
<1>5. ASSUME NEW checkout \in Checkouts, MoveCheckout(checkout) PROVE SettingsInv'
  <2>1. UserScripts \subseteq files' /\ files' \subseteq Commands
    BY <1>0, <1>5, SettingsAssumption DEF MoveCheckout, Commands, SettingsInv, SettingsTypeOK
  <2>2. UNCHANGED <<settings, installed, users>>
    BY <1>5 DEF MoveCheckout
  <2> QED  BY <2>1, <2>2 DEF SettingsInv, SettingsTypeOK
<1> QED  BY <1>2, <1>3, <1>4, <1>5 DEF SettingsNext

(***************************************************************************)
(* Whatever the order of installs, uninstalls, moves of checkouts and the  *)
(* user's edits, every event has ccidle's hook once while it is installed  *)
(* and not at all otherwise, the user's own scripts are there as the user  *)
(* put them in, and the status check finds the hooks exactly then.         *)
(***************************************************************************)
THEOREM HooksStayTidy == Spec => []HooksTidy
<1>1. Init => SettingsInv
  <2> SUFFICES ASSUME Init PROVE SettingsInv
    OBVIOUS
  <2>1. settings = [e \in HookEvents |-> << >>] /\ users = [e \in HookEvents |-> << >>]
        /\ files = Commands /\ installed = FALSE
    BY DEF Init, SettingsInit, Commands
  <2>2. << >> \in Seq(Seq(Commands)) /\ << >> \in Seq(UserScripts) /\ Len(<< >>) = 0
    OBVIOUS
  <2>3. SettingsTypeOK
    BY <2>1, <2>2 DEF SettingsTypeOK, Commands
  <2>4. Holds(<< >>, << >>, 0)
    BY <2>2, FlatNone, KeptNone DEF Holds
  <2> QED  BY <2>1, <2>3, <2>4 DEF SettingsInv
<1>2. SettingsInv /\ [Next]_vars => SettingsInv'
  <2> SUFFICES ASSUME SettingsInv, [Next]_vars PROVE SettingsInv'
    OBVIOUS
  <2>1. CASE UNCHANGED settingsVars
    BY <2>1 DEF SettingsInv, SettingsTypeOK, settingsVars
  <2>2. CASE SettingsNext
    BY <2>2, SettingsStep
  <2>3. [Next]_vars => SettingsNext \/ UNCHANGED settingsVars
    BY DEF Next, vars, DaemonStep, LauncherStep, RunDaemon, Installer, CheckPidfile, ClaimPidfile,
           UnlinkSocket, Listen, Stop, Exit, Crash, Up, WaitForSocket, Attach, RegisterGame,
           Register
  <2> QED  BY <2>1, <2>2, <2>3
<1>3. SettingsInv => HooksTidy
  <2> SUFFICES ASSUME SettingsInv PROVE HooksTidy
    OBVIOUS
  <2>1. ASSUME NEW e \in HookEvents
        PROVE  /\ Kept(Flat(e), UserScripts) = users[e]
               /\ Len(Kept(Flat(e), Checkouts)) = IF installed THEN 1 ELSE 0
               /\ settings[e] \in Seq(Seq(Commands))
    BY DEF SettingsInv, Holds, Flat
  <2>2. ASSUME NEW e \in HookEvents
        PROVE  installed <=> \E i \in DOMAIN settings[e] : \E j \in DOMAIN settings[e][i] :
                                IsOwnCommand(settings[e][i][j])
    <3> PICK groups : groups = settings[e]
      OBVIOUS
    <3>1. groups \in Seq(Seq(Commands))
      BY <2>1
    <3>2. Kept(FlattenSeq(groups), Checkouts) \in Seq(Commands)
      BY <3>1, FlatType, KeptType
    <3>3. Len(Kept(FlattenSeq(groups), Checkouts)) = IF installed THEN 1 ELSE 0
      BY <2>1 DEF Flat
    <3>4. Kept(FlattenSeq(groups), Checkouts) # << >> <=> installed
      BY <3>2, <3>3, EmptySeq
    <3>5. Kept(FlattenSeq(groups), Checkouts) # << >>
            <=> \E i \in DOMAIN groups : \E j \in DOMAIN groups[i] : groups[i][j] \in Checkouts
      BY <3>1, FlatSome
    <3>6. \A i \in DOMAIN groups : groups[i] \in Seq(Commands)
      BY <3>1
    <3>7. \A g \in Seq(Commands) : \A j \in DOMAIN g : g[j] \in Commands
      OBVIOUS
    <3>8. \A i \in DOMAIN groups : \A j \in DOMAIN groups[i] : groups[i][j] \in Commands
      BY <3>6, <3>7
    <3>9. \A command \in Commands : IsOwnCommand(command) <=> command \in Checkouts
      BY ForeignIsUsers DEF SettingsInv, SettingsTypeOK
    <3> QED  BY <3>4, <3>5, <3>8, <3>9
  <2>3. PICK e \in HookEvents : TRUE
    BY SettingsAssumption
  <2>4. HooksInstalled(settings) <=> installed
    BY <2>2, <2>3 DEF HooksInstalled
  <2> QED  BY <2>1, <2>4 DEF HooksTidy
<1> QED  BY <1>1, <1>2, <1>3, PTL DEF Spec

(***************************************************************************)
(* Corpus                                                                  *)
(***************************************************************************)

-----------------------------------------------------------------------------
(* The files of a source, one after the other *)

LEMMA SeqOfSet ==
  ASSUME NEW S, IsFiniteSet(S), NEW q, q = SetToSeq(S)
  PROVE  /\ q \in Seq(S)
         /\ \A x \in S : \E i \in DOMAIN q : q[i] = x
         /\ S # {} => q # <<>>
<1> PICK n : n = Cardinality(S)
  OBVIOUS
<1>1. n \in Nat /\ ExistsBijection(1..n, S)
  BY FS_CardinalityType
<1>2. PICK g : g \in Bijection(1..n, S)
  BY <1>1 DEF ExistsBijection
<1>3. g \in [1..n -> S] /\ IsInjective(g)
  BY <1>2 DEF Bijection, Injection
<1>4. q \in [1..n -> S] /\ IsInjective(q)
  BY <1>3 DEF SetToSeq
<1>5. q \in Injection(1..n, S)
  BY <1>4 DEF Injection
<1>6. IsFiniteSet(1..n) /\ Cardinality(1..n) = n
  BY <1>1, FS_Interval
<1>7. q \in Surjection(1..n, S)
  BY <1>5, <1>6, FS_Injection
<1>8. \A x \in S : \E i \in 1..n : q[i] = x
  BY <1>7 DEF Surjection
<1>9. q \in Seq(S) /\ DOMAIN q = 1..n /\ Len(q) = n
  BY <1>1, <1>4
<1>10. ASSUME S # {} PROVE q # <<>>
  <2>1. PICK x \in S : TRUE
    BY <1>10
  <2>2. PICK i \in 1..n : q[i] = x
    BY <1>8
  <2>3. Len(q) # 0
    BY <1>1, <1>9, <2>2
  <2> QED BY <2>3
<1> QED BY <1>8, <1>9, <1>10

LEMMA LongTail ==
  ASSUME NEW S, NEW q \in Seq(S), q # <<>>, Len(q) # 1
  PROVE  /\ Tail(q) \in Seq(S) /\ Tail(q) # <<>>
         /\ DOMAIN Tail(q) = 1..(Len(q) - 1)
         /\ \A i \in 1..(Len(q) - 1) : Tail(q)[i] = q[i + 1]
<1> PICK n : n = Len(q)
  OBVIOUS
<1>1. n \in Nat /\ n > 1
  <2>1. n \in Nat \ {0}
    BY EmptySeq, Zenon
  <2> QED BY <2>1
<1>2. Tail(q) \in Seq(S) /\ Len(Tail(q)) = Len(q) - 1
  BY <1>1
<1>3. Tail(q) # <<>>
  <2> PICK t : t = Tail(q)
    OBVIOUS
  <2>1. Len(t) # 0
    BY <1>1, <1>2
  <2>2. Len(<<>>) = 0
    BY EmptySeq
  <2>3. t # <<>>
    BY <2>1, <2>2, Zenon
  <2> QED BY <2>3
<1> QED BY <1>1, <1>2, <1>3

\* A sequence that another one begins with.
Begins(a, b) == Len(a) <= Len(b) /\ \A i \in 1..Len(a) : a[i] = b[i]

LEMMA BeginsItself ==
  ASSUME NEW S, NEW a \in Seq(S)
  PROVE  Begins(a, a)
BY DEF Begins

LEMMA NothingBegins ==
  ASSUME NEW S, NEW a \in Seq(S)
  PROVE  Begins(<<>>, a)
BY DEF Begins

LEMMA BeginsLonger ==
  ASSUME NEW S, NEW a \in Seq(S), NEW b \in Seq(S), NEW c \in Seq(S), NEW d, d = b \o c, Begins(a, b)
  PROVE  Begins(a, d) /\ Len(d) >= Len(b)
BY DEF Begins

LEMMA BeginsWhole ==
  ASSUME NEW S, NEW a \in Seq(S), NEW b \in Seq(S), Begins(a, b), Len(a) >= Len(b)
  PROVE  a = b
BY DEF Begins

-----------------------------------------------------------------------------
(* What the commands read and keep *)

FileNames == {"main", "sub"}

\* Sizes and times of the files an import looks at.
StampFits(s, sidecars, stamp) ==
  /\ stamp \in Stamps
  /\ "main" \in DOMAIN stamp /\ ("sub" \in DOMAIN stamp <=> s \in sidecars)
  /\ DOMAIN stamp \subseteq FileNames
  /\ \A file \in DOMAIN stamp : stamp[file].size = Len(transcript[s][file])

LEMMA StampFacts ==
  ASSUME CorpusTypeOK, NEW s \in Sources, NEW sidecars
  PROVE  StampFits(s, sidecars, StampOf(s, sidecars))
<1> PICK stamp : stamp = StampOf(s, sidecars)
  OBVIOUS
<1> SUFFICES StampFits(s, sidecars, stamp)
  OBVIOUS
<1>1. \A file \in FileNames : StampOfFile(s, file) \in FileStamps
                              /\ StampOfFile(s, file).size = Len(transcript[s][file])
  BY DEF CorpusTypeOK, StampOfFile, FileStamps, Contents, FileNames
<1>2. CASE s \in sidecars
  <2>1. stamp = [file \in FileNames |-> StampOfFile(s, file)]
    BY <1>2 DEF StampOf, FileNames
  <2> QED BY <1>1, <1>2, <2>1 DEF StampFits, Stamps, FileNames
<1>3. CASE s \notin sidecars
  <2>1. stamp = [file \in {"main"} |-> StampOfFile(s, file)]
    BY <1>3 DEF StampOf
  <2> QED BY <1>1, <1>3, <2>1 DEF StampFits, Stamps, FileNames
<1> QED BY <1>2, <1>3

LEMMA PassedFacts ==
  ASSUME imp \in Imports, imp.todo # <<>>, NEW man \in [Sources -> ManifestEntries \cup {Null}],
         NEW next, next = Passed(man)
  PROVE  /\ next \in Imports /\ next # Null
         /\ next.man = man /\ next.sidecars = imp.sidecars /\ next.stamp = Null
<1>1. imp.todo \in Seq(Sources) /\ Tail(imp.todo) \in Seq(Sources)
  <2>1. imp.todo \in Seq(Sources)
    BY DEF Imports
  <2> QED BY <2>1
<1>2. next = [imp EXCEPT !.todo = Tail(imp.todo), !.stamp = Null, !.man = man]
  BY DEF Passed, Imports
<1>3. next \in Imports
  BY <1>1, <1>2 DEF Imports
<1> QED BY <1>2, <1>3, NullAssumption DEF Imports

LEMMA HeadOfTodo ==
  ASSUME imp \in Imports, imp.todo # <<>>
  PROVE  Head(imp.todo) \in Sources
<1>1. imp.todo \in Seq(Sources)
  BY DEF Imports
<1> QED BY <1>1

\* The content an import reads of a source.
ContentRead(s) == IF s \in imp.sidecars THEN transcript[s] ELSE [transcript[s] EXCEPT !.sub = <<>>]

LEMMA ContentFacts ==
  ASSUME CorpusTypeOK, NEW s \in Sources, NEW content, content = ContentRead(s)
  PROVE  /\ content \in Contents
         /\ content["main"] = transcript[s]["main"]
         /\ content["sub"] = IF s \in imp.sidecars THEN transcript[s]["sub"] ELSE <<>>
<1>1. transcript[s] \in Contents
  BY DEF CorpusTypeOK
<1>2. <<>> \in Seq(TranscriptLines)
  OBVIOUS
<1>3. PICK d : d = [transcript[s] EXCEPT !.sub = <<>>]
  OBVIOUS
<1>4. d \in Contents
  BY <1>1, <1>2, <1>3 DEF Contents
<1>5. d["main"] = transcript[s]["main"] /\ d["sub"] = <<>>
  BY <1>1, <1>3 DEF Contents
<1> QED BY <1>1, <1>3, <1>4, <1>5 DEF ContentRead

-----------------------------------------------------------------------------
(* The inductive invariant *)

\* An entry holds what the transcript was when it was read, and sizes taken before that.
Fits(s, e) ==
  /\ e.output = SessionOf[s]
  /\ \A file \in FileNames :
       /\ Begins(e.hash[file], transcript[s][file])
       /\ file \in DOMAIN e.stamp => e.stamp[file].size <= Len(e.hash[file])
       /\ file \notin DOMAIN e.stamp => e.hash[file] = <<>>

Outgrown(s, e) == \E file \in FileNames : Len(transcript[s][file]) > Len(e.hash[file])

Shown(s, e) ==
  corpus[SessionOf[s]] # NoOutput /\ corpus[SessionOf[s]].events = Timeline(e.hash)

UpToDate(s, e) == Shown(s, e) \/ Outgrown(s, e) \/ s \in lost

\* An import under way may have removed the output of a session that is excluded now.
ManifestHolds ==
  \A s \in Sources : manifest[s] # Null =>
    /\ Fits(s, manifest[s])
    /\ UpToDate(s, manifest[s]) \/ (imp # Null /\ corpus[SessionOf[s]] = NoOutput)

ImportHolds ==
  imp # Null =>
    /\ \A s \in Sources : imp.man[s] # Null => Fits(s, imp.man[s]) /\ UpToDate(s, imp.man[s])
    /\ \A s \in Sources :
         /\ s \in imp.sidecars => transcript[s]["sub"] # <<>>
         /\ manifest[s] # Null /\ manifest[s].hash["sub"] # <<>> => s \in imp.sidecars
    /\ imp.todo # <<>> /\ imp.stamp # Null =>
         /\ "main" \in DOMAIN imp.stamp
         /\ "sub" \in DOMAIN imp.stamp <=> Head(imp.todo) \in imp.sidecars
         /\ \A file \in DOMAIN imp.stamp :
              imp.stamp[file].size <= Len(transcript[Head(imp.todo)][file])

FileAt(path) == transcript[path[1]][path[2]]

RawHolds ==
  \A path \in Paths : raw[path] # Null =>
    Begins(raw[path].lines, FileAt(path)) /\ raw[path].stamp.size = Len(raw[path].lines)

Copied(path) == FileAt(path) # <<>> => raw[path] # Null /\ raw[path].lines = FileAt(path)

\* Nothing having been written, a file is copied or still to be.
SnapHolds ==
  snap # Null =>
    /\ snap.todo # <<>>
    /\ snap.quiet => \A path \in Paths : Copied(path) \/ \E i \in DOMAIN snap.todo : snap.todo[i] = path

ArchiveHolds == archived => \A path \in Paths : Copied(path)

CorpusInv == ManifestHolds /\ ImportHolds /\ RawHolds /\ SnapHolds /\ ArchiveHolds

LEMMA BeginsFurther ==
  ASSUME NEW S, NEW a \in Seq(S), NEW b \in Seq(S), NEW c \in Seq(S), Begins(a, b), Begins(b, c)
  PROVE  Begins(a, c)
BY DEF Begins

LEMMA TranscriptFiles ==
  ASSUME CorpusTypeOK
  PROVE  /\ \A s \in Sources, file \in FileNames : transcript[s][file] \in Seq(TranscriptLines)
         /\ \A path \in Paths : FileAt(path) \in Seq(TranscriptLines)
<1>1. \A s \in Sources, file \in FileNames : transcript[s][file] \in Seq(TranscriptLines)
  BY DEF CorpusTypeOK, Contents, FileNames
<1> QED BY <1>1 DEF Paths, FileAt, FileNames

LEMMA EntryFiles ==
  ASSUME NEW e \in ManifestEntries, NEW file \in FileNames
  PROVE  e.hash[file] \in Seq(TranscriptLines)
BY DEF ManifestEntries, Contents, FileNames

-----------------------------------------------------------------------------
(* Steps that leave one half alone *)

LEMMA ImportsKept ==
  ASSUME ManifestHolds, ImportHolds, UNCHANGED <<transcript, corpus, manifest, imp, lost>>
  PROVE  (ManifestHolds /\ ImportHolds)'
BY DEF ManifestHolds, ImportHolds, Fits, UpToDate, Shown, Outgrown

LEMMA SnapshotsKept ==
  ASSUME RawHolds, SnapHolds, ArchiveHolds, UNCHANGED <<transcript, raw, snap, archived>>
  PROVE  (RawHolds /\ SnapHolds /\ ArchiveHolds)'
BY DEF RawHolds, SnapHolds, ArchiveHolds, Copied, FileAt

-----------------------------------------------------------------------------
(* Claude Code writes *)

LEMMA ChunkType ==
  ASSUME NEW q \in Seq(TranscriptLines), NEW chunk \in Seq(TranscriptLines), NEW ts, ts = LastTs(q) + 1,
         NEW more, more = [i \in DOMAIN chunk |-> [chunk[i] EXCEPT !.ts = ts]]
  PROVE  more \in Seq(TranscriptLines)
<1>1. ts \in Nat
  <2>1. CASE q = <<>>
    BY <2>1 DEF LastTs
  <2>2. CASE q # <<>>
    <3>1. q[Len(q)] \in TranscriptLines
      BY <2>2
    <3>2. q[Len(q)].ts \in Nat
      BY <3>1 DEF TranscriptLines
    <3> QED BY <2>2, <3>2 DEF LastTs, Last
  <2> QED BY <2>1, <2>2
<1>2. ASSUME NEW l \in TranscriptLines PROVE [l EXCEPT !.ts = ts] \in TranscriptLines
  BY <1>1 DEF TranscriptLines
<1>3. DOMAIN chunk = 1..Len(chunk) /\ Len(chunk) \in Nat /\ \A i \in DOMAIN chunk : chunk[i] \in TranscriptLines
  OBVIOUS
<1>4. more \in [1..Len(chunk) -> TranscriptLines]
  BY <1>2, <1>3
<1> QED BY <1>3, <1>4

LEMMA AppendGrows ==
  ASSUME CorpusTypeOK, NEW s \in Sources, NEW file \in FileNames, NEW tick \in 0..1,
         NEW chunk \in Chunks[s][file], AppendChunk(s, file, chunk, tick)
  PROVE  /\ transcript' \in [Sources -> Contents]
         /\ \A r \in Sources, f \in FileNames : Begins(transcript[r][f], transcript'[r][f])
<1> PICK q : q = transcript[s][file]
  OBVIOUS
<1> PICK ts : ts = LastTs(q) + 1
  OBVIOUS
<1> PICK more : more = [i \in DOMAIN chunk |-> [chunk[i] EXCEPT !.ts = ts]]
  OBVIOUS
<1>1. q \in Seq(TranscriptLines)
  BY TranscriptFiles
<1>2. chunk \in Seq(TranscriptLines)
  BY TranscriptsAssumption DEF TranscriptsAssumption, FileNames
<1>3. more \in Seq(TranscriptLines)
  BY <1>1, <1>2, ChunkType
<1>4. transcript' = [transcript EXCEPT ![s][file] = q \o more]
  BY DEF AppendChunk
<1>5. q \o more \in Seq(TranscriptLines)
  BY <1>1, <1>3
<1>6. transcript \in [Sources -> [FileNames -> Seq(TranscriptLines)]]
  BY DEF CorpusTypeOK, Contents, FileNames
<1>7. transcript' \in [Sources -> [FileNames -> Seq(TranscriptLines)]]
  BY <1>4, <1>5, <1>6
<1>8. \A r \in Sources, f \in FileNames :
        transcript'[r][f] = IF r = s /\ f = file THEN q \o more ELSE transcript[r][f]
  BY <1>4, <1>6
<1>9. ASSUME NEW r \in Sources, NEW f \in FileNames
      PROVE  Begins(transcript[r][f], transcript'[r][f])
  <2>1. transcript[r][f] \in Seq(TranscriptLines)
    BY <1>6
  <2>2. Begins(transcript[r][f], transcript[r][f])
    BY <2>1, BeginsItself
  <2>3. CASE r = s /\ f = file
    <3>1. Begins(q, q \o more)
      BY <1>1, <1>3, <1>5, BeginsItself, BeginsLonger
    <3> QED BY <1>8, <2>3, <3>1
  <2>4. CASE ~(r = s /\ f = file)
    BY <1>8, <2>2, <2>4
  <2> QED BY <2>3, <2>4
<1> QED BY <1>7, <1>9 DEF Contents, FileNames

LEMMA DisturbedTypes ==
  ASSUME CorpusTypeOK
  PROVE  /\ Disturbed(imp) \in Imports \cup {Null} /\ Disturbed(snap) \in Snapshots \cup {Null}
         /\ imp = Null => Disturbed(imp) = Null
         /\ imp # Null => /\ imp \in Imports /\ Disturbed(imp) # Null
                          /\ Disturbed(imp).man = imp.man /\ Disturbed(imp).sidecars = imp.sidecars
                          /\ Disturbed(imp).todo = imp.todo /\ Disturbed(imp).stamp = imp.stamp
         /\ snap = Null => Disturbed(snap) = Null
         /\ snap # Null => /\ snap \in Snapshots
                           /\ Disturbed(snap).todo = snap.todo /\ ~Disturbed(snap).quiet
<1>1. imp # Null => imp \in Imports
  BY DEF CorpusTypeOK
<1>2. snap # Null => snap \in Snapshots
  BY DEF CorpusTypeOK
<1>3. ASSUME imp # Null
      PROVE  /\ Disturbed(imp) \in Imports /\ Disturbed(imp) # Null
             /\ Disturbed(imp).man = imp.man /\ Disturbed(imp).sidecars = imp.sidecars
             /\ Disturbed(imp).todo = imp.todo /\ Disturbed(imp).stamp = imp.stamp
  <2>1. Disturbed(imp) = [imp EXCEPT !.quiet = FALSE]
    BY <1>3 DEF Disturbed
  <2>2. Disturbed(imp) \in Imports
    BY <1>1, <1>3, <2>1 DEF Imports
  <2> QED BY <1>1, <1>3, <2>1, <2>2, NullAssumption DEF Imports
<1>4. ASSUME snap # Null
      PROVE  Disturbed(snap) \in Snapshots /\ Disturbed(snap).todo = snap.todo /\ ~Disturbed(snap).quiet
  <2>1. Disturbed(snap) = [snap EXCEPT !.quiet = FALSE]
    BY <1>4 DEF Disturbed
  <2> QED BY <1>2, <1>4, <2>1 DEF Snapshots
<1> QED BY <1>1, <1>2, <1>3, <1>4 DEF Disturbed

\* What grew goes on from what it was, so entries still fit and outgrown ones stay so.
LEMMA FitsAfterGrowth ==
  ASSUME CorpusTypeOK, CorpusTypeOK',
         \A r \in Sources, f \in FileNames : Begins(transcript[r][f], transcript'[r][f]),
         UNCHANGED <<corpus, lost>>, NEW s \in Sources, NEW e \in ManifestEntries
  PROVE  /\ Fits(s, e) => Fits(s, e)'
         /\ UpToDate(s, e) => UpToDate(s, e)'
<1>1. \A f \in FileNames : /\ transcript[s][f] \in Seq(TranscriptLines)
                           /\ transcript'[s][f] \in Seq(TranscriptLines)
                           /\ e.hash[f] \in Seq(TranscriptLines)
  BY TranscriptFiles, EntryFiles DEF CorpusTypeOK, Contents, FileNames
<1>2. \A f \in FileNames : Begins(e.hash[f], transcript[s][f]) => Begins(e.hash[f], transcript'[s][f])
  BY <1>1, BeginsFurther
<1>3. \A f \in FileNames : Len(transcript[s][f]) <= Len(transcript'[s][f])
  BY <1>1 DEF Begins
<1>4. \A f \in FileNames : /\ Len(transcript[s][f]) \in Nat /\ Len(transcript'[s][f]) \in Nat
                           /\ Len(e.hash[f]) \in Nat
  BY <1>1
<1>5. Fits(s, e) => Fits(s, e)'
  BY <1>2 DEF Fits
<1>6. Outgrown(s, e) => Outgrown(s, e)'
  BY <1>3, <1>4 DEF Outgrown
<1> QED BY <1>5, <1>6 DEF UpToDate, Shown

LEMMA GrowthKeepsImports ==
  ASSUME CorpusTypeOK, CorpusTypeOK', ManifestHolds, ImportHolds,
         \A r \in Sources, f \in FileNames : Begins(transcript[r][f], transcript'[r][f]),
         UNCHANGED <<corpus, manifest, lost>>, imp' = Disturbed(imp)
  PROVE  (ManifestHolds /\ ImportHolds)'
<1>1. \A s \in Sources, e \in ManifestEntries : (Fits(s, e) => Fits(s, e)') /\ (UpToDate(s, e) => UpToDate(s, e)')
  BY FitsAfterGrowth
<1>2. \A s \in Sources : manifest[s] # Null => manifest[s] \in ManifestEntries
  BY DEF CorpusTypeOK
<1>3. imp' # Null <=> imp # Null
  BY DisturbedTypes
<1>4. ManifestHolds'
  BY <1>1, <1>2, <1>3 DEF ManifestHolds
<1>5. ASSUME imp # Null
      PROVE  /\ imp'.man = imp.man /\ imp'.sidecars = imp.sidecars
             /\ imp'.todo = imp.todo /\ imp'.stamp = imp.stamp
             /\ \A s \in Sources : imp.man[s] # Null => imp.man[s] \in ManifestEntries
             /\ imp.todo \in Seq(Sources)
             /\ imp.stamp # Null => imp.stamp \in Stamps
  BY <1>5, DisturbedTypes DEF Imports
<1>6. \A s \in Sources, f \in FileNames : /\ transcript[s][f] \in Seq(TranscriptLines)
                                          /\ transcript'[s][f] \in Seq(TranscriptLines)
                                          /\ Len(transcript[s][f]) <= Len(transcript'[s][f])
  BY TranscriptFiles DEF CorpusTypeOK, Contents, FileNames, Begins
<1>7. ASSUME imp # Null, imp.todo # <<>>, imp.stamp # Null
      PROVE  \A file \in DOMAIN imp.stamp :
               imp.stamp[file].size <= Len(transcript'[Head(imp.todo)][file])
  <2>1. Head(imp.todo) \in Sources
    BY <1>5, <1>7
  <2>2. DOMAIN imp.stamp \subseteq FileNames /\ \A file \in DOMAIN imp.stamp : imp.stamp[file].size \in Nat
    BY <1>5, <1>7 DEF Stamps, FileStamps, FileNames
  <2>3. \A file \in DOMAIN imp.stamp : imp.stamp[file].size <= Len(transcript[Head(imp.todo)][file])
    BY <1>7 DEF ImportHolds
  <2>4. \A file \in DOMAIN imp.stamp : /\ Len(transcript[Head(imp.todo)][file]) \in Nat
                                       /\ Len(transcript'[Head(imp.todo)][file]) \in Nat
                                       /\ Len(transcript[Head(imp.todo)][file])
                                            <= Len(transcript'[Head(imp.todo)][file])
    BY <1>6, <2>1, <2>2
  <2> QED BY <2>2, <2>3, <2>4
<1>8. \A s \in Sources : transcript[s]["sub"] # <<>> => transcript'[s]["sub"] # <<>>
  <2>1. ASSUME NEW s \in Sources, transcript'[s]["sub"] = <<>> PROVE transcript[s]["sub"] = <<>>
    <3>1. "sub" \in FileNames
      BY DEF FileNames
    <3> PICK q : q = transcript[s]["sub"]
      OBVIOUS
    <3>2. q \in Seq(TranscriptLines) /\ Len(q) <= Len(<<>>)
      BY <1>6, <2>1, <3>1
    <3>3. q = <<>>
      BY <3>2
    <3> QED BY <3>3
  <2> QED BY <2>1
<1>9. ImportHolds'
  <2>1. ASSUME imp # Null
        PROVE  /\ \A s \in Sources : imp'.man[s] # Null => Fits(s, imp.man[s])' /\ UpToDate(s, imp.man[s])'
               /\ \A s \in Sources :
                    /\ s \in imp'.sidecars => transcript'[s]["sub"] # <<>>
                    /\ manifest'[s] # Null /\ manifest'[s].hash["sub"] # <<>> => s \in imp'.sidecars
               /\ imp'.todo # <<>> /\ imp'.stamp # Null =>
                    /\ "main" \in DOMAIN imp'.stamp
                    /\ "sub" \in DOMAIN imp'.stamp <=> Head(imp'.todo) \in imp'.sidecars
                    /\ \A file \in DOMAIN imp'.stamp :
                         imp'.stamp[file].size <= Len(transcript'[Head(imp'.todo)][file])
    <3>1. \A s \in Sources : imp'.man[s] # Null => Fits(s, imp.man[s])' /\ UpToDate(s, imp.man[s])'
      <4>1. ASSUME NEW s \in Sources, imp'.man[s] # Null
            PROVE  Fits(s, imp.man[s])' /\ UpToDate(s, imp.man[s])'
        <5> PICK e : e = imp.man[s]
          OBVIOUS
        <5>1. e = imp'.man[s] /\ e \in ManifestEntries /\ Fits(s, e) /\ UpToDate(s, e)
          BY <1>5, <2>1, <4>1 DEF ImportHolds
        <5>2. Fits(s, e)' /\ UpToDate(s, e)'
          BY <1>1, <5>1
        <5> QED BY <5>1, <5>2 DEF Fits, UpToDate, Shown, Outgrown
      <4> QED BY <4>1
    <3> QED BY <1>5, <1>7, <1>8, <2>1, <3>1 DEF ImportHolds
  <2> QED BY <1>3, <2>1 DEF ImportHolds
<1> QED BY <1>4, <1>9

LEMMA GrowthKeepsSnapshots ==
  ASSUME CorpusTypeOK, CorpusTypeOK', RawHolds, SnapHolds,
         \A r \in Sources, f \in FileNames : Begins(transcript[r][f], transcript'[r][f]),
         UNCHANGED raw, snap' = Disturbed(snap), ~archived'
  PROVE  (RawHolds /\ SnapHolds /\ ArchiveHolds)'
<1>1. ASSUME NEW path \in Paths, raw'[path] # Null
      PROVE  Begins(raw'[path].lines, FileAt(path)') /\ raw'[path].stamp.size = Len(raw'[path].lines)
  <2>1. path[1] \in Sources /\ path[2] \in FileNames
    BY DEF Paths, FileNames
  <2>2. FileAt(path) \in Seq(TranscriptLines) /\ FileAt(path)' \in Seq(TranscriptLines)
    <3>1. \A r \in Sources, f \in FileNames : transcript'[r][f] \in Seq(TranscriptLines)
      BY DEF CorpusTypeOK, Contents, FileNames
    <3> QED BY <2>1, <3>1, TranscriptFiles DEF FileAt
  <2>3. Begins(FileAt(path), FileAt(path)')
    BY <2>1 DEF FileAt
  <2>4. raw[path] \in RawFiles /\ raw'[path] = raw[path]
    BY <1>1 DEF CorpusTypeOK
  <2>5. raw[path].lines \in Seq(TranscriptLines)
    BY <2>4 DEF RawFiles
  <2>6. Begins(raw[path].lines, FileAt(path)) /\ raw[path].stamp.size = Len(raw[path].lines)
    BY <1>1, <2>4 DEF RawHolds
  <2>7. Begins(raw[path].lines, FileAt(path)')
    BY <2>2, <2>3, <2>5, <2>6, BeginsFurther
  <2> QED BY <2>4, <2>6, <2>7
<1>2. snap' # Null => snap # Null /\ snap'.todo = snap.todo /\ ~snap'.quiet
  BY DisturbedTypes
<1>3. RawHolds'
  BY <1>1 DEF RawHolds
<1> QED BY <1>2, <1>3 DEF SnapHolds, ArchiveHolds

LEMMA AppendStep ==
  ASSUME CorpusTypeOK, CorpusInv, NEW s \in Sources, NEW file \in FileNames, NEW tick \in 0..1,
         NEW chunk \in Chunks[s][file], AppendChunk(s, file, chunk, tick)
  PROVE  (CorpusTypeOK /\ CorpusInv)'
<1>1. /\ transcript' \in [Sources -> Contents]
      /\ \A r \in Sources, f \in FileNames : Begins(transcript[r][f], transcript'[r][f])
  BY AppendGrows
<1>2. /\ mtime' = [mtime EXCEPT ![s][file] = @ + tick] /\ left.changes > 0
      /\ left' = [left EXCEPT !["changes"] = @ - 1]
      /\ ~settled' /\ ~archived' /\ settled' \in BOOLEAN /\ archived' \in BOOLEAN
      /\ imp' = Disturbed(imp) /\ snap' = Disturbed(snap)
      /\ UNCHANGED <<rules, corpus, manifest, raw, lost>>
  BY DEF AppendChunk, Spend
<1>3. mtime' \in [Sources -> [{"main", "sub"} -> Nat]]
  <2>1. mtime \in [Sources -> [FileNames -> Nat]]
    BY DEF CorpusTypeOK, FileNames
  <2>2. mtime' \in [Sources -> [FileNames -> Nat]]
    BY <1>2, <2>1
  <2> QED BY <2>2 DEF FileNames
<1>4. left' \in [changes : Nat, commands : Nat]
  BY <1>2 DEF CorpusTypeOK
<1>5. imp' \in Imports \cup {Null} /\ snap' \in Snapshots \cup {Null}
  BY <1>2, DisturbedTypes
<1>6. CorpusTypeOK'
  BY <1>1, <1>2, <1>3, <1>4, <1>5 DEF CorpusTypeOK
<1>7. (ManifestHolds /\ ImportHolds)'
  BY <1>1, <1>2, <1>6, GrowthKeepsImports DEF CorpusInv
<1>8. (RawHolds /\ SnapHolds /\ ArchiveHolds)'
  BY <1>1, <1>2, <1>6, GrowthKeepsSnapshots DEF CorpusInv
<1> QED BY <1>6, <1>7, <1>8 DEF CorpusInv

LEMMA TouchStep ==
  ASSUME CorpusTypeOK, CorpusInv, NEW s \in Sources, NEW file \in FileNames, Touch(s, file)
  PROVE  (CorpusTypeOK /\ CorpusInv)'
<1>1. /\ mtime' = [mtime EXCEPT ![s][file] = @ + 1] /\ left.changes > 0
      /\ left' = [left EXCEPT !["changes"] = @ - 1]
      /\ UNCHANGED <<transcript, rules, corpus, manifest, imp, raw, snap, settled, archived, lost>>
  BY DEF Touch, Spend
<1>2. mtime' \in [Sources -> [{"main", "sub"} -> Nat]]
  <2>1. mtime \in [Sources -> [FileNames -> Nat]]
    BY DEF CorpusTypeOK, FileNames
  <2>2. mtime' \in [Sources -> [FileNames -> Nat]]
    BY <1>1, <2>1
  <2> QED BY <2>2 DEF FileNames
<1>3. left' \in [changes : Nat, commands : Nat]
  BY <1>1 DEF CorpusTypeOK
<1>4. CorpusTypeOK'
  BY <1>1, <1>2, <1>3 DEF CorpusTypeOK
<1> QED BY <1>1, <1>4, ImportsKept, SnapshotsKept DEF CorpusInv

LEMMA SetRulesStep ==
  ASSUME CorpusTypeOK, CorpusInv, NEW globs \in RuleSets, SetRules(globs)
  PROVE  (CorpusTypeOK /\ CorpusInv)'
<1>1. /\ rules' = globs /\ left.changes > 0
      /\ left' = [left EXCEPT !["changes"] = @ - 1]
      /\ settled' = FALSE /\ imp' = Disturbed(imp)
      /\ UNCHANGED <<transcript, mtime, corpus, manifest, raw, snap, archived, lost>>
  BY DEF SetRules, Spend
<1>2. left' \in [changes : Nat, commands : Nat]
  BY <1>1 DEF CorpusTypeOK
<1>3. imp' \in Imports \cup {Null}
  BY <1>1, DisturbedTypes
<1>4. CorpusTypeOK'
  BY <1>1, <1>2, <1>3 DEF CorpusTypeOK
<1>5. \A r \in Sources, f \in FileNames : Begins(transcript[r][f], transcript'[r][f])
  <2>1. \A r \in Sources, f \in FileNames : Begins(transcript[r][f], transcript[r][f])
    BY TranscriptFiles, BeginsItself
  <2> QED BY <1>1, <2>1
<1>6. (ManifestHolds /\ ImportHolds)'
  BY <1>1, <1>4, <1>5, GrowthKeepsImports DEF CorpusInv
<1> QED BY <1>1, <1>4, <1>6, SnapshotsKept DEF CorpusInv

-----------------------------------------------------------------------------
(* An import *)

LEMMA StartImportStep ==
  ASSUME CorpusTypeOK, CorpusInv, NEW window \in Windows, StartImport(window)
  PROVE  (CorpusTypeOK /\ CorpusInv)'
<1>1. /\ imp = Null /\ left.commands > 0
      /\ imp' = [todo  |-> SetToSeq(Found), sidecars |-> WithSidecar,
                 globs |-> rules, window |-> window, man |-> manifest,
                 stamp |-> Null, quiet |-> TRUE]
      /\ left' = [left EXCEPT !["commands"] = @ - 1]
      /\ UNCHANGED <<transcript, mtime, rules, corpus, manifest, raw, snap, settled, archived, lost>>
  BY DEF StartImport, Spend
<1>2. SetToSeq(Found) \in Seq(Sources)
  <2>1. Found \subseteq Sources
    BY DEF Found
  <2>2. IsFiniteSet(Found)
    BY <2>1, TranscriptsAssumption, FS_Subset DEF TranscriptsAssumption
  <2> PICK q : q = SetToSeq(Found)
    OBVIOUS
  <2>3. q \in Seq(Found)
    BY <2>2, SeqOfSet
  <2>4. q \in Seq(Sources)
    BY <2>1, <2>3
  <2> QED BY <2>4
<1>3. WithSidecar \subseteq Sources
  BY DEF WithSidecar
<1>4. imp' \in Imports /\ imp' # Null
  <2>1. imp' \in Imports
    BY <1>1, <1>2, <1>3 DEF Imports, CorpusTypeOK
  <2> QED BY <2>1, NullAssumption
<1>5. left' \in [changes : Nat, commands : Nat]
  BY <1>1 DEF CorpusTypeOK
<1>6. CorpusTypeOK'
  BY <1>1, <1>4, <1>5 DEF CorpusTypeOK
<1>7. \A s \in Sources : manifest[s] # Null => Fits(s, manifest[s]) /\ UpToDate(s, manifest[s])
  BY <1>1 DEF CorpusInv, ManifestHolds
<1>8. ManifestHolds'
  BY <1>1, <1>7 DEF ManifestHolds, Fits, UpToDate, Shown, Outgrown
<1>9. imp'.man = manifest /\ imp'.sidecars = WithSidecar /\ imp'.stamp = Null
  BY <1>1
<1>10. \A s \in Sources : imp'.man[s] # Null => Fits(s, imp.man[s])' /\ UpToDate(s, imp.man[s])'
  BY <1>1, <1>7, <1>9 DEF Fits, UpToDate, Shown, Outgrown
<1>11. ASSUME NEW s \in Sources, manifest[s] # Null, manifest[s].hash["sub"] # <<>>
       PROVE  s \in WithSidecar
  <2>1. manifest[s] \in ManifestEntries /\ "sub" \in FileNames
    BY <1>11 DEF CorpusTypeOK, FileNames
  <2>2. manifest[s].hash["sub"] \in Seq(TranscriptLines) /\ transcript[s]["sub"] \in Seq(TranscriptLines)
    BY <2>1, EntryFiles, TranscriptFiles
  <2>3. Begins(manifest[s].hash["sub"], transcript[s]["sub"])
    BY <1>7, <1>11, <2>1 DEF Fits
  <2> PICK a, b : a = manifest[s].hash["sub"] /\ b = transcript[s]["sub"]
    OBVIOUS
  <2>4. a \in Seq(TranscriptLines) /\ b \in Seq(TranscriptLines) /\ a # <<>> /\ Len(a) <= Len(b)
    BY <1>11, <2>2, <2>3 DEF Begins
  <2>5. b # <<>>
    BY <2>4
  <2> QED BY <2>5, TranscriptFiles DEF WithSidecar, CorpusTypeOK, Contents
<1>12. \A s \in WithSidecar : transcript[s]["sub"] # <<>>
  BY DEF WithSidecar, CorpusTypeOK, Contents
<1>13. ImportHolds'
  BY <1>1, <1>9, <1>10, <1>11, <1>12 DEF ImportHolds
<1> QED BY <1>1, <1>6, <1>8, <1>13, SnapshotsKept DEF CorpusInv

\* An import goes on to the next source, having settled what it knows of this one.
MovesOn(s, man, quiet) ==
  /\ imp # Null /\ imp.todo # <<>> /\ s = Head(imp.todo)
  /\ man \in [Sources -> ManifestEntries \cup {Null}] /\ quiet \in BOOLEAN
  /\ imp' = [Passed(man) EXCEPT !.quiet = quiet]
  /\ corpus' = [x \in SessionIds |-> corpus'[x]]
  /\ \A t \in Sources \ {s} : man[t] = imp.man[t] /\ corpus'[SessionOf[t]] = corpus[SessionOf[t]]
  /\ man[s] # Null => Fits(s, man[s]) /\ UpToDate(s, man[s])'
  /\ manifest[s] # Null => UpToDate(s, manifest[s])' \/ corpus'[SessionOf[s]] = NoOutput
  /\ UNCHANGED <<transcript, mtime, rules, manifest, raw, snap, settled, archived, lost, left>>

LEMMA MovesOnKeeps ==
  ASSUME CorpusTypeOK, CorpusInv, NEW s, NEW man, NEW quiet, MovesOn(s, man, quiet)
  PROVE  (CorpusTypeOK /\ CorpusInv)'
<1> USE DEF MovesOn
<1>1. imp \in Imports /\ s \in Sources
  BY HeadOfTodo DEF CorpusTypeOK
<1> PICK next : next = Passed(man)
  OBVIOUS
<1>2. next \in Imports /\ next.man = man /\ next.sidecars = imp.sidecars /\ next.stamp = Null
  BY <1>1, PassedFacts
<1>3. imp' = [next EXCEPT !.quiet = quiet]
  OBVIOUS
<1>4. imp' \in Imports /\ imp'.man = man /\ imp'.sidecars = imp.sidecars /\ imp'.stamp = Null
  BY <1>2, <1>3 DEF Imports
<1>5. imp' # Null
  BY <1>4, NullAssumption
<1>6. CorpusTypeOK'
  BY <1>4 DEF CorpusTypeOK
<1>7. ASSUME NEW t \in Sources \ {s}, NEW e
      PROVE  UpToDate(t, e) => UpToDate(t, e)'
  BY <1>7 DEF UpToDate, Shown, Outgrown
<1>8. ManifestHolds'
  <2>1. ASSUME NEW t \in Sources, manifest'[t] # Null
        PROVE  Fits(t, manifest[t])' /\ (UpToDate(t, manifest[t])' \/ corpus'[SessionOf[t]] = NoOutput)
    <3> PICK e : e = manifest[t]
      OBVIOUS
    <3>1. e = manifest'[t] /\ e # Null
      BY <2>1
    <3>2. Fits(t, e) /\ (UpToDate(t, e) \/ corpus[SessionOf[t]] = NoOutput)
      BY <3>1 DEF CorpusInv, ManifestHolds
    <3>3. Fits(t, e)'
      BY <3>2 DEF Fits
    <3>4. UpToDate(t, e)' \/ corpus'[SessionOf[t]] = NoOutput
      <4>1. CASE t = s
        BY <3>1, <4>1 DEF UpToDate, Shown, Outgrown
      <4>2. CASE t # s
        BY <1>7, <3>2, <4>2
      <4> QED BY <4>1, <4>2
    <3> QED BY <3>1, <3>3, <3>4 DEF Fits, UpToDate, Shown, Outgrown
  <2> QED BY <1>5, <2>1 DEF ManifestHolds
<1>9. ASSUME NEW t \in Sources, imp'.man[t] # Null
      PROVE  Fits(t, imp.man[t])' /\ UpToDate(t, imp.man[t])'
  <2> PICK e : e = man[t]
    OBVIOUS
  <2>1. e = imp'.man[t] /\ e # Null
    BY <1>4, <1>9
  <2>2. Fits(t, e) /\ UpToDate(t, e)'
    <3>1. CASE t = s
      BY <2>1, <3>1 DEF UpToDate, Shown, Outgrown
    <3>2. CASE t # s
      <4>1. e = imp.man[t]
        BY <3>2
      <4>2. Fits(t, e) /\ UpToDate(t, e)
        BY <2>1, <4>1 DEF CorpusInv, ImportHolds
      <4> QED BY <1>7, <3>2, <4>2
    <3> QED BY <3>1, <3>2
  <2> QED BY <2>1, <2>2 DEF Fits, UpToDate, Shown, Outgrown
<1>10. ImportHolds'
  BY <1>4, <1>9 DEF CorpusInv, ImportHolds
<1> QED BY <1>6, <1>8, <1>10, SnapshotsKept DEF CorpusInv

LEMMA QuietKept ==
  ASSUME imp \in Imports, imp.todo # <<>>, NEW man \in [Sources -> ManifestEntries \cup {Null}]
  PROVE  imp.quiet \in BOOLEAN /\ [Passed(man) EXCEPT !.quiet = imp.quiet] = Passed(man)
<1> PICK next : next = Passed(man)
  OBVIOUS
<1>1. next \in Imports
  BY PassedFacts
<1>2. next.quiet = imp.quiet
  BY DEF Passed, Imports
<1> QED BY <1>1, <1>2 DEF Imports

LEMMA OutputSet ==
  ASSUME CorpusTypeOK, NEW s \in Sources, NEW v, corpus' = [corpus EXCEPT ![SessionOf[s]] = v]
  PROVE  /\ corpus' = [x \in SessionIds |-> corpus'[x]]
         /\ corpus'[SessionOf[s]] = v
         /\ \A t \in Sources \ {s} : corpus'[SessionOf[t]] = corpus[SessionOf[t]]
<1>1. corpus = [x \in SessionIds |-> corpus[x]]
  BY DEF CorpusTypeOK
<1>2. \A t \in Sources : SessionOf[t] \in SessionIds
  BY DEF SessionIds
<1>3. \A t \in Sources \ {s} : SessionOf[t] # SessionOf[s]
  BY OneSourcePerSession DEF OneSourcePerSession
<1> QED BY <1>1, <1>2, <1>3

\* What is known of a source when an import comes to it.
LEMMA WhenReached ==
  ASSUME CorpusTypeOK, CorpusInv, imp # Null, imp.todo # <<>>, NEW s, s = Head(imp.todo)
  PROVE  /\ imp \in Imports /\ s \in Sources
         /\ imp.man \in [Sources -> ManifestEntries \cup {Null}]
         /\ imp.man[s] # Null => imp.man[s] \in ManifestEntries /\ Fits(s, imp.man[s]) /\ UpToDate(s, imp.man[s])
         /\ manifest[s] # Null => /\ manifest[s] \in ManifestEntries /\ Fits(s, manifest[s])
                                  /\ UpToDate(s, manifest[s]) \/ corpus[SessionOf[s]] = NoOutput
<1>1. imp \in Imports /\ s \in Sources
  BY HeadOfTodo DEF CorpusTypeOK
<1>2. imp.man \in [Sources -> ManifestEntries \cup {Null}]
  BY <1>1 DEF Imports
<1>3. manifest \in [Sources -> ManifestEntries \cup {Null}]
  BY DEF CorpusTypeOK
<1>4. imp.man[s] # Null => imp.man[s] \in ManifestEntries
  BY <1>1, <1>2
<1>5. manifest[s] # Null => manifest[s] \in ManifestEntries
  BY <1>1, <1>3
<1>6. imp.man[s] # Null => Fits(s, imp.man[s]) /\ UpToDate(s, imp.man[s])
  BY <1>1 DEF CorpusInv, ImportHolds
<1>7. manifest[s] # Null => /\ Fits(s, manifest[s])
                            /\ UpToDate(s, manifest[s]) \/ corpus[SessionOf[s]] = NoOutput
  BY <1>1 DEF CorpusInv, ManifestHolds
<1> QED BY <1>1, <1>2, <1>4, <1>5, <1>6, <1>7

\* A source passed over with nothing changed.
LEMMA PassesOver ==
  ASSUME CorpusTypeOK, CorpusInv, imp # Null, imp.todo # <<>>,
         NEW quiet \in BOOLEAN, imp' = [Passed(imp.man) EXCEPT !.quiet = quiet],
         UNCHANGED <<transcript, mtime, rules, corpus, manifest, raw, snap, settled, archived, lost, left>>
  PROVE  (CorpusTypeOK /\ CorpusInv)'
<1> PICK s : s = Head(imp.todo)
  OBVIOUS
<1> PICK man : man = imp.man
  OBVIOUS
<1>1. /\ imp \in Imports /\ s \in Sources
      /\ man \in [Sources -> ManifestEntries \cup {Null}]
      /\ man[s] # Null => Fits(s, man[s]) /\ UpToDate(s, man[s])
      /\ manifest[s] # Null => UpToDate(s, manifest[s]) \/ corpus[SessionOf[s]] = NoOutput
  BY WhenReached
<1>2. imp' = [Passed(man) EXCEPT !.quiet = quiet]
  OBVIOUS
<1>3. man[s] # Null => UpToDate(s, man[s])'
  BY <1>1 DEF UpToDate, Shown, Outgrown
<1>4. manifest[s] # Null => UpToDate(s, manifest[s])' \/ corpus'[SessionOf[s]] = NoOutput
  BY <1>1 DEF UpToDate, Shown, Outgrown
<1>5. corpus' = [x \in SessionIds |-> corpus'[x]]
  BY DEF CorpusTypeOK
<1>20. MovesOn(s, man, quiet)
  BY <1>1, <1>2, <1>3, <1>4, <1>5 DEF MovesOn
<1> QED BY <1>20, MovesOnKeeps

\* A source left out, with its entry and its output.
LEMMA Removed ==
  ASSUME CorpusTypeOK, CorpusInv, imp # Null, imp.todo # <<>>, NEW s, s = Head(imp.todo),
         imp' = Passed(Forget(s)), imp.man[s] # Null, RemoveOutput(imp.man[s].output),
         UNCHANGED <<transcript, mtime, rules, manifest, raw, snap, settled, archived, lost, left>>
  PROVE  (CorpusTypeOK /\ CorpusInv)'
<1>1. /\ imp \in Imports /\ s \in Sources
      /\ imp.man \in [Sources -> ManifestEntries \cup {Null}] /\ imp.man[s].output = SessionOf[s]
  BY WhenReached DEF Fits
<1> PICK man : man = Forget(s)
  OBVIOUS
<1>2. man \in [Sources -> ManifestEntries \cup {Null}] /\ man[s] = Null /\ \A t \in Sources \ {s} : man[t] = imp.man[t]
  BY <1>1 DEF Forget
<1> PICK quiet : quiet = imp.quiet
  OBVIOUS
<1>3. imp' = [Passed(man) EXCEPT !.quiet = quiet] /\ quiet \in BOOLEAN
  BY <1>1, <1>2, QuietKept
<1>4. /\ corpus' = [x \in SessionIds |-> corpus'[x]]
      /\ corpus'[SessionOf[s]] = NoOutput
      /\ \A t \in Sources \ {s} : corpus'[SessionOf[t]] = corpus[SessionOf[t]]
  BY <1>1, OutputSet DEF RemoveOutput
<1>20. MovesOn(s, man, quiet)
  BY <1>2, <1>3, <1>4 DEF MovesOn
<1> QED BY <1>20, MovesOnKeeps

LEMMA ImportStatStep ==
  ASSUME CorpusTypeOK, CorpusInv, ImportStat
  PROVE  (CorpusTypeOK /\ CorpusInv)'
<1> PICK s : s = Head(imp.todo)
  OBVIOUS
<1> PICK stamp : stamp = StampOf(s, imp.sidecars)
  OBVIOUS
<1>1. /\ imp # Null /\ imp.todo # <<>> /\ imp.stamp = Null
      /\ \/ imp.man[s] # Null /\ imp' = Passed(Forget(s)) /\ RemoveOutput(imp.man[s].output)
         \/ imp' = Passed(imp.man) /\ UNCHANGED corpus
         \/ imp' = [imp EXCEPT !.stamp = stamp] /\ UNCHANGED corpus
      /\ UNCHANGED <<transcript, mtime, rules, manifest, raw, snap, settled, archived, lost, left>>
  BY DEF ImportStat
<1>2. imp \in Imports /\ s \in Sources /\ imp.man \in [Sources -> ManifestEntries \cup {Null}]
  BY <1>1, WhenReached
<1>3. CASE imp.man[s] # Null /\ imp' = Passed(Forget(s)) /\ RemoveOutput(imp.man[s].output)
  BY <1>1, <1>3, Removed
<1>4. CASE imp' = Passed(imp.man) /\ UNCHANGED corpus
  <2> PICK man, quiet : man = imp.man /\ quiet = imp.quiet
    OBVIOUS
  <2>1. quiet \in BOOLEAN /\ imp' = [Passed(imp.man) EXCEPT !.quiet = quiet]
    BY <1>1, <1>2, <1>4, QuietKept
  <2> QED BY <1>1, <1>4, <2>1, PassesOver
<1>5. CASE imp' = [imp EXCEPT !.stamp = stamp] /\ UNCHANGED corpus
  <2>1. /\ stamp \in Stamps
        /\ "main" \in DOMAIN stamp /\ ("sub" \in DOMAIN stamp <=> s \in imp.sidecars)
        /\ DOMAIN stamp \subseteq FileNames
        /\ \A file \in DOMAIN stamp : stamp[file].size = Len(transcript[s][file])
    <3> PICK sidecars : sidecars = imp.sidecars
      OBVIOUS
    <3>1. StampFits(s, sidecars, stamp)
      BY <1>2, StampFacts
    <3> QED BY <3>1 DEF StampFits
  <2>2. /\ imp' \in Imports /\ imp'.man = imp.man /\ imp'.sidecars = imp.sidecars
        /\ imp'.todo = imp.todo /\ imp'.stamp = stamp
    BY <1>2, <1>5, <2>1 DEF Imports
  <2>3. imp' # Null
    BY <2>2, NullAssumption
  <2>4. CorpusTypeOK'
    BY <1>1, <1>5, <2>2 DEF CorpusTypeOK
  <2>5. ManifestHolds'
    BY <1>1, <1>5, <2>3 DEF CorpusInv, ManifestHolds, Fits, UpToDate, Shown, Outgrown
  <2>6. \A t \in Sources : imp'.man[t] # Null => Fits(t, imp.man[t])' /\ UpToDate(t, imp.man[t])'
    BY <1>1, <1>5, <2>2 DEF CorpusInv, ImportHolds, Fits, UpToDate, Shown, Outgrown
  <2>7. \A file \in DOMAIN stamp : stamp[file].size <= Len(transcript[s][file])
    <3>1. \A file \in FileNames : Len(transcript[s][file]) \in Nat
      BY <1>2, TranscriptFiles
    <3> QED BY <2>1, <3>1
  <2>8. \A t \in Sources :
          /\ t \in imp'.sidecars => transcript'[t]["sub"] # <<>>
          /\ manifest'[t] # Null /\ manifest'[t].hash["sub"] # <<>> => t \in imp'.sidecars
    BY <1>1, <2>2 DEF CorpusInv, ImportHolds
  <2>9. ImportHolds'
    BY <1>1, <2>1, <2>2, <2>6, <2>7, <2>8 DEF ImportHolds
  <2> QED BY <1>1, <2>4, <2>5, <2>9, SnapshotsKept DEF CorpusInv
<1> QED BY <1>1, <1>3, <1>4, <1>5

\* The entry of a source whose content has not changed, with the sizes and times of now.
LEMMA Restamped ==
  ASSUME CorpusTypeOK, CorpusInv, imp # Null, imp.todo # <<>>, NEW s, s = Head(imp.todo),
         imp.stamp # Null, imp.man[s] # Null, imp.man[s].hash = ContentRead(s),
         imp' = Passed([imp.man EXCEPT ![s].stamp = imp.stamp]),
         UNCHANGED <<transcript, mtime, rules, corpus, manifest, raw, snap, settled, archived, lost, left>>
  PROVE  (CorpusTypeOK /\ CorpusInv)'
<1> PICK entry, stamp, content, quiet :
      entry = imp.man[s] /\ stamp = imp.stamp /\ content = ContentRead(s) /\ quiet = imp.quiet
  OBVIOUS
<1>1. /\ imp \in Imports /\ s \in Sources
      /\ imp.man \in [Sources -> ManifestEntries \cup {Null}]
      /\ entry \in ManifestEntries /\ Fits(s, entry) /\ UpToDate(s, entry)
      /\ manifest[s] # Null => UpToDate(s, manifest[s]) \/ corpus[SessionOf[s]] = NoOutput
  BY WhenReached
<1>2. stamp \in Stamps
  BY <1>1 DEF Imports
<1> PICK new : new = [entry EXCEPT !.stamp = stamp]
  OBVIOUS
<1>3. new \in ManifestEntries /\ new.hash = content /\ new.stamp = stamp /\ new.output = entry.output
  BY <1>1, <1>2 DEF ManifestEntries
<1> PICK man : man = [imp.man EXCEPT ![s].stamp = imp.stamp]
  OBVIOUS
<1>4. man = [imp.man EXCEPT ![s] = new]
  BY <1>1
<1>5. man \in [Sources -> ManifestEntries \cup {Null}] /\ man[s] = new /\ \A t \in Sources \ {s} : man[t] = imp.man[t]
  BY <1>1, <1>3, <1>4
<1>6. imp' = [Passed(man) EXCEPT !.quiet = quiet] /\ quiet \in BOOLEAN
  BY <1>1, <1>5, QuietKept
<1>7. /\ content["main"] = transcript[s]["main"]
      /\ content["sub"] = IF s \in imp.sidecars THEN transcript[s]["sub"] ELSE <<>>
  BY <1>1, ContentFacts
<1>8. /\ "main" \in DOMAIN stamp /\ ("sub" \in DOMAIN stamp <=> s \in imp.sidecars)
      /\ \A file \in DOMAIN stamp : stamp[file].size <= Len(transcript[s][file])
  BY DEF CorpusInv, ImportHolds
<1>9. Fits(s, new)
  BY <1>1, <1>3, <1>7, <1>8 DEF Fits, FileNames
<1>10. UpToDate(s, new)'
  BY <1>1, <1>3 DEF UpToDate, Shown, Outgrown
<1>11. manifest[s] # Null => UpToDate(s, manifest[s])' \/ corpus'[SessionOf[s]] = NoOutput
  BY <1>1 DEF UpToDate, Shown, Outgrown
<1>12. corpus' = [x \in SessionIds |-> corpus'[x]]
  BY DEF CorpusTypeOK
<1>20. MovesOn(s, man, quiet)
  BY <1>5, <1>6, <1>9, <1>10, <1>11, <1>12 DEF MovesOn
<1> QED BY <1>20, MovesOnKeeps

\* What an earlier entry holds is the content that is read now, or the transcript has outgrown it.
LEMMA SameOrOutgrown ==
  ASSUME CorpusTypeOK, CorpusInv, imp # Null, NEW s \in Sources, NEW content, content = ContentRead(s),
         manifest[s] # Null
  PROVE  manifest[s].hash = content \/ Outgrown(s, manifest[s])
<1> PICK e : e = manifest[s]
  OBVIOUS
<1>1. e \in ManifestEntries /\ Fits(s, e)
  BY DEF CorpusTypeOK, CorpusInv, ManifestHolds
<1>2. e.hash \in Contents /\ content \in Contents
  BY <1>1, ContentFacts DEF ManifestEntries
<1>3. \A file \in FileNames : /\ e.hash[file] \in Seq(TranscriptLines)
                              /\ transcript[s][file] \in Seq(TranscriptLines)
                              /\ Begins(e.hash[file], transcript[s][file])
  BY <1>1, EntryFiles, TranscriptFiles DEF Fits
<1>4. ASSUME ~Outgrown(s, e)
      PROVE  e.hash = content
  <2>1. \A file \in FileNames : e.hash[file] = transcript[s][file]
    <3>1. ASSUME NEW file \in FileNames PROVE e.hash[file] = transcript[s][file]
      <4>1. Len(e.hash[file]) >= Len(transcript[s][file])
        <5>1. ~(Len(transcript[s][file]) > Len(e.hash[file]))
          BY <1>4 DEF Outgrown
        <5>2. Len(transcript[s][file]) \in Nat /\ Len(e.hash[file]) \in Nat
          BY <1>3
        <5> QED BY <5>1, <5>2
      <4> QED BY <1>3, <4>1, BeginsWhole
    <3> QED BY <3>1
  <2>2. e.hash["sub"] # <<>> => s \in imp.sidecars
    BY DEF CorpusInv, ImportHolds
  <2>3. content["main"] = e.hash["main"] /\ content["sub"] = e.hash["sub"]
    BY <2>1, <2>2, ContentFacts DEF FileNames
  <2> QED BY <1>2, <2>3 DEF Contents
<1> QED BY <1>4

\* The output of a source written anew.
LEMMA Rewritten ==
  ASSUME CorpusTypeOK, CorpusInv, imp # Null, imp.todo # <<>>, NEW s, s = Head(imp.todo),
         imp.stamp # Null, NEW content, content = ContentRead(s), Timeline(content) # <<>>,
         corpus' = [corpus EXCEPT ![SessionOf[s]] =
                      [cwd |-> CwdIn(s, content), events |-> Timeline(content)]],
         imp' = Passed([imp.man EXCEPT ![s] = NewEntry(s, content, imp.stamp)]),
         UNCHANGED <<transcript, mtime, rules, manifest, raw, snap, settled, archived, lost, left>>
  PROVE  (CorpusTypeOK /\ CorpusInv)'
<1> PICK stamp, quiet : stamp = imp.stamp /\ quiet = imp.quiet
  OBVIOUS
<1>1. /\ imp \in Imports /\ s \in Sources
      /\ imp.man \in [Sources -> ManifestEntries \cup {Null}]
  BY WhenReached
<1>2. stamp \in Stamps
  BY <1>1 DEF Imports
<1>3. /\ content \in Contents
      /\ content["main"] = transcript[s]["main"]
      /\ content["sub"] = IF s \in imp.sidecars THEN transcript[s]["sub"] ELSE <<>>
  BY <1>1, ContentFacts
<1> PICK new : new = NewEntry(s, content, stamp)
  OBVIOUS
<1>4. new \in ManifestEntries /\ new.hash = content /\ new.stamp = stamp /\ new.output = SessionOf[s]
  BY <1>1, <1>2, <1>3 DEF NewEntry, CwdIn, ManifestEntries, SessionIds
<1> PICK man : man = [imp.man EXCEPT ![s] = new]
  OBVIOUS
<1>5. man \in [Sources -> ManifestEntries \cup {Null}] /\ man[s] = new /\ \A t \in Sources \ {s} : man[t] = imp.man[t]
  BY <1>1, <1>4
<1>6. imp' = [Passed(man) EXCEPT !.quiet = quiet] /\ quiet \in BOOLEAN
  BY <1>1, <1>5, QuietKept
<1>7. /\ corpus' = [x \in SessionIds |-> corpus'[x]]
      /\ corpus'[SessionOf[s]] = [cwd |-> CwdIn(s, content), events |-> Timeline(content)]
      /\ \A t \in Sources \ {s} : corpus'[SessionOf[t]] = corpus[SessionOf[t]]
  <2> PICK v : v = [cwd |-> CwdIn(s, content), events |-> Timeline(content)]
    OBVIOUS
  <2> QED BY <1>1, OutputSet
<1>8. corpus'[SessionOf[s]] # NoOutput /\ corpus'[SessionOf[s]].events = Timeline(content)
  BY <1>7 DEF NoOutput
<1>9. /\ "main" \in DOMAIN stamp /\ ("sub" \in DOMAIN stamp <=> s \in imp.sidecars)
      /\ \A file \in DOMAIN stamp : stamp[file].size <= Len(transcript[s][file])
  BY DEF CorpusInv, ImportHolds
<1>10. Fits(s, new)
  <2>1. \A file \in FileNames : transcript[s][file] \in Seq(TranscriptLines)
    BY <1>1, TranscriptFiles
  <2>2. Begins(content["main"], transcript[s]["main"])
    BY <1>3, <2>1, BeginsItself DEF FileNames
  <2>3. Begins(content["sub"], transcript[s]["sub"])
    BY <1>3, <2>1, BeginsItself, NothingBegins DEF FileNames
  <2> QED BY <1>3, <1>4, <1>9, <2>2, <2>3 DEF Fits, FileNames
<1>11. UpToDate(s, new)'
  BY <1>4, <1>8 DEF UpToDate, Shown
<1>12. manifest[s] # Null => UpToDate(s, manifest[s])' \/ corpus'[SessionOf[s]] = NoOutput
  <2>1. ASSUME manifest[s] # Null
        PROVE  UpToDate(s, manifest[s])'
    <3>1. manifest[s].hash = content \/ Outgrown(s, manifest[s])
      BY <1>1, <2>1, SameOrOutgrown
    <3> QED BY <1>8, <3>1 DEF UpToDate, Shown, Outgrown
  <2> QED BY <2>1
<1>13. man[s] # Null => Fits(s, man[s]) /\ UpToDate(s, man[s])'
  BY <1>5, <1>10, <1>11
<1>14. /\ corpus' = [x \in SessionIds |-> corpus'[x]]
       /\ \A t \in Sources \ {s} : man[t] = imp.man[t] /\ corpus'[SessionOf[t]] = corpus[SessionOf[t]]
  BY <1>5, <1>7
<1>20. MovesOn(s, man, quiet)
  BY <1>5, <1>6, <1>12, <1>13, <1>14 DEF MovesOn
<1> QED BY <1>20, MovesOnKeeps

LEMMA ImportReadStep ==
  ASSUME CorpusTypeOK, CorpusInv, ImportRead
  PROVE  (CorpusTypeOK /\ CorpusInv)'
<1> PICK s : s = Head(imp.todo)
  OBVIOUS
<1> PICK content : content = ContentRead(s)
  OBVIOUS
<1>1. /\ imp # Null /\ imp.todo # <<>> /\ imp.stamp # Null
      /\ \/ /\ imp.man[s] # Null /\ imp.man[s].hash = content
            /\ imp' = Passed([imp.man EXCEPT ![s].stamp = imp.stamp]) /\ UNCHANGED corpus
         \/ imp.man[s] # Null /\ imp' = Passed(Forget(s)) /\ RemoveOutput(imp.man[s].output)
         \/ imp.man[s] = Null /\ imp' = Passed(Forget(s)) /\ UNCHANGED corpus
         \/ imp' = Passed(imp.man) /\ UNCHANGED corpus
         \/ /\ Timeline(content) # <<>>
            /\ corpus' = [corpus EXCEPT ![SessionOf[s]] =
                            [cwd |-> CwdIn(s, content), events |-> Timeline(content)]]
            /\ imp' = Passed([imp.man EXCEPT ![s] = NewEntry(s, content, imp.stamp)])
      /\ UNCHANGED <<transcript, mtime, rules, manifest, raw, snap, settled, archived, lost, left>>
  BY DEF ImportRead, ContentRead
<1>2. imp \in Imports /\ s \in Sources /\ imp.man \in [Sources -> ManifestEntries \cup {Null}]
  BY <1>1, WhenReached
<1>3. CASE /\ imp.man[s] # Null /\ imp.man[s].hash = content
           /\ imp' = Passed([imp.man EXCEPT ![s].stamp = imp.stamp]) /\ UNCHANGED corpus
  BY <1>1, <1>3, Restamped
<1>4. CASE imp.man[s] # Null /\ imp' = Passed(Forget(s)) /\ RemoveOutput(imp.man[s].output)
  BY <1>1, <1>4, Removed
<1>5. ASSUME imp' = Passed(imp.man), UNCHANGED corpus
      PROVE  (CorpusTypeOK /\ CorpusInv)'
  <2> PICK quiet : quiet = imp.quiet
    OBVIOUS
  <2>1. quiet \in BOOLEAN /\ imp' = [Passed(imp.man) EXCEPT !.quiet = quiet]
    BY <1>1, <1>2, <1>5, QuietKept
  <2> QED BY <1>1, <1>5, <2>1, PassesOver
<1>6. CASE imp.man[s] = Null /\ imp' = Passed(Forget(s)) /\ UNCHANGED corpus
  <2>1. Forget(s) = imp.man
    BY <1>2, <1>6 DEF Forget
  <2> QED BY <1>5, <1>6, <2>1
<1>7. CASE /\ Timeline(content) # <<>>
           /\ corpus' = [corpus EXCEPT ![SessionOf[s]] =
                            [cwd |-> CwdIn(s, content), events |-> Timeline(content)]]
           /\ imp' = Passed([imp.man EXCEPT ![s] = NewEntry(s, content, imp.stamp)])
  BY <1>1, <1>7, Rewritten
<1> QED BY <1>1, <1>3, <1>4, <1>5, <1>6, <1>7

LEMMA ImportSkipStep ==
  ASSUME CorpusTypeOK, CorpusInv, ImportSkip
  PROVE  (CorpusTypeOK /\ CorpusInv)'
<1>1. /\ imp # Null /\ imp.todo # <<>>
      /\ imp' = [Passed(imp.man) EXCEPT !.quiet = FALSE]
      /\ UNCHANGED <<transcript, mtime, rules, corpus, manifest, raw, snap, settled, archived, lost, left>>
  BY DEF ImportSkip
<1> PICK quiet : quiet = FALSE
  OBVIOUS
<1> QED BY <1>1, PassesOver

LEMMA WriteManifestStep ==
  ASSUME CorpusTypeOK, CorpusInv, WriteManifest
  PROVE  (CorpusTypeOK /\ CorpusInv)'
<1>1. /\ imp # Null /\ manifest' = imp.man /\ settled' \in BOOLEAN
      /\ lost' = {s \in lost : imp.man[s] # Null}
      /\ imp' = Null
      /\ UNCHANGED <<transcript, mtime, rules, corpus, raw, snap, archived, left>>
  BY DEF WriteManifest
<1>2. imp \in Imports
  BY <1>1 DEF CorpusTypeOK
<1>3. manifest' \in [Sources -> ManifestEntries \cup {Null}]
  BY <1>1, <1>2 DEF Imports
<1>4. CorpusTypeOK'
  BY <1>1, <1>3 DEF CorpusTypeOK
<1>5. ASSUME NEW s \in Sources, manifest'[s] # Null
      PROVE  Fits(s, manifest[s])' /\ UpToDate(s, manifest[s])'
  <2> PICK e : e = imp.man[s]
    OBVIOUS
  <2>1. e = manifest'[s] /\ e # Null
    BY <1>1, <1>5
  <2>2. Fits(s, e) /\ UpToDate(s, e)
    BY <1>1, <2>1 DEF CorpusInv, ImportHolds
  <2>3. s \in lost => s \in lost'
    BY <1>1, <2>1
  <2>4. Fits(s, e)' /\ UpToDate(s, e)'
    BY <1>1, <2>2, <2>3 DEF Fits, UpToDate, Shown, Outgrown
  <2> QED BY <2>1, <2>4 DEF Fits, UpToDate, Shown, Outgrown
<1>6. ManifestHolds' /\ ImportHolds'
  BY <1>1, <1>5 DEF ManifestHolds, ImportHolds
<1> QED BY <1>1, <1>4, <1>6, SnapshotsKept DEF CorpusInv

LEMMA ImportDiesStep ==
  ASSUME CorpusTypeOK, CorpusInv, ImportDies
  PROVE  (CorpusTypeOK /\ CorpusInv)'
<1>1. /\ imp # Null /\ imp' = Null
      /\ lost' = lost \cup {s \in Sources : manifest[s] # Null /\ corpus[SessionOf[s]] = NoOutput}
      /\ UNCHANGED <<transcript, mtime, rules, corpus, manifest, raw, snap, settled, archived, left>>
  BY DEF ImportDies
<1>2. CorpusTypeOK'
  BY <1>1 DEF CorpusTypeOK
<1>3. ASSUME NEW s \in Sources, manifest'[s] # Null
      PROVE  Fits(s, manifest[s])' /\ UpToDate(s, manifest[s])'
  <2>1. manifest[s] # Null /\ Fits(s, manifest[s])
    BY <1>1, <1>3 DEF CorpusInv, ManifestHolds
  <2>2. UpToDate(s, manifest[s]) \/ corpus[SessionOf[s]] = NoOutput
    BY <2>1 DEF CorpusInv, ManifestHolds
  <2>3. UpToDate(s, manifest[s]) \/ s \in lost'
    BY <1>1, <2>1, <2>2
  <2>4. UpToDate(s, manifest[s])'
    BY <1>1, <2>3 DEF UpToDate, Shown, Outgrown
  <2> QED BY <1>1, <2>1, <2>4 DEF Fits
<1>4. ManifestHolds' /\ ImportHolds'
  BY <1>1, <1>3 DEF ManifestHolds, ImportHolds
<1> QED BY <1>1, <1>2, <1>4, SnapshotsKept DEF CorpusInv

-----------------------------------------------------------------------------
(* A snapshot *)

LEMMA StartSnapshotStep ==
  ASSUME CorpusTypeOK, CorpusInv, StartSnapshot
  PROVE  (CorpusTypeOK /\ CorpusInv)'
<1> PICK todo : todo = SetToSeq({x \in Paths : transcript[x[1]][x[2]] # <<>>})
  OBVIOUS
<1>1. /\ left.commands > 0 /\ Found # {}
      /\ snap' = [todo |-> todo, stamp |-> Null, quiet |-> TRUE]
      /\ left' = [left EXCEPT !["commands"] = @ - 1]
      /\ UNCHANGED <<transcript, mtime, rules, corpus, manifest, imp, raw, settled, archived, lost>>
  BY DEF StartSnapshot, Spend
<1> PICK P : P = {x \in Paths : FileAt(x) # <<>>}
  OBVIOUS
<1>2. todo = SetToSeq(P)
  BY DEF FileAt
<1>3. IsFiniteSet(P)
  <2>1. IsFiniteSet({"main", "sub"})
    <3>1. IsFiniteSet({"main"}) /\ {"main", "sub"} = {"main"} \cup {"sub"}
      BY FS_Singleton
    <3> QED BY <3>1, FS_AddElement
  <2>2. IsFiniteSet(Paths)
    BY <2>1, TranscriptsAssumption, FS_Product DEF Paths, TranscriptsAssumption
  <2>3. P \subseteq Paths
    OBVIOUS
  <2> QED BY <2>2, <2>3, FS_Subset
<1>4. P # {}
  <2>1. PICK s \in Sources : transcript[s].main # <<>>
    BY <1>1 DEF Found, Exists
  <2>2. <<s, "main">> \in Paths /\ FileAt(<<s, "main">>) # <<>>
    BY <2>1 DEF Paths, FileAt
  <2> QED BY <2>2
<1>5. todo \in Seq(P) /\ todo # <<>> /\ \A x \in P : \E i \in DOMAIN todo : todo[i] = x
  BY <1>2, <1>3, <1>4, SeqOfSet
<1>6. todo \in Seq(Paths)
  <2>1. P \subseteq Paths
    OBVIOUS
  <2> QED BY <1>5, <2>1
<1>7. snap' \in Snapshots
  BY <1>1, <1>6 DEF Snapshots
<1>8. left' \in [changes : Nat, commands : Nat]
  BY <1>1 DEF CorpusTypeOK
<1>9. CorpusTypeOK'
  BY <1>1, <1>7, <1>8 DEF CorpusTypeOK
<1>10. \A x \in Paths : Copied(x)' \/ \E i \in DOMAIN todo : todo[i] = x
  BY <1>1, <1>5 DEF Copied, FileAt
<1>11. SnapHolds'
  BY <1>1, <1>5, <1>10 DEF SnapHolds
<1>12. (RawHolds /\ ArchiveHolds)'
  BY <1>1 DEF CorpusInv, RawHolds, ArchiveHolds, Copied, FileAt
<1> QED BY <1>1, <1>9, <1>11, <1>12, ImportsKept DEF CorpusInv

\* A snapshot goes on to the next file, quiet only if it was and this file is copied.
LEMMA SnapshotMovesOn ==
  ASSUME CorpusTypeOK, CorpusInv, snap # Null, NEW path, path = Head(snap.todo),
         NEW quiet \in BOOLEAN, SnapPassed(quiet),
         UNCHANGED <<transcript, mtime, rules, corpus, manifest, imp, settled, lost, left>>,
         raw' \in [Paths -> RawFiles \cup {Null}], RawHolds',
         \A x \in Paths : Copied(x) => Copied(x)',
         quiet => snap.quiet /\ Copied(path)'
  PROVE  (CorpusTypeOK /\ CorpusInv)'
<1> PICK todo : todo = snap.todo
  OBVIOUS
<1>1. snap \in Snapshots /\ todo \in Seq(Paths) /\ todo # <<>>
  BY DEF CorpusTypeOK, Snapshots, CorpusInv, SnapHolds
<1>2. quiet => \A x \in Paths : Copied(x)' \/ \E i \in DOMAIN todo : i # 1 /\ todo[i] = x
  <2>1. ASSUME quiet, NEW x \in Paths
        PROVE  Copied(x)' \/ \E i \in DOMAIN todo : i # 1 /\ todo[i] = x
    <3>1. Copied(x) \/ \E i \in DOMAIN todo : todo[i] = x
      BY <2>1 DEF CorpusInv, SnapHolds
    <3>2. path = todo[1]
      BY <1>1
    <3> QED BY <2>1, <3>1, <3>2
  <2> QED BY <2>1
<1>3. archived => \A x \in Paths : Copied(x)'
  BY DEF CorpusInv, ArchiveHolds
<1>4. CASE Len(todo) = 1
  <2>1. snap' = Null /\ archived' = quiet
    BY <1>4 DEF SnapPassed
  <2>2. CorpusTypeOK'
    BY <2>1 DEF CorpusTypeOK
  <2>3. DOMAIN todo = 1..1
    BY <1>1, <1>4
  <2>4. (SnapHolds /\ ArchiveHolds)'
    BY <1>2, <2>1, <2>3 DEF SnapHolds, ArchiveHolds
  <2> QED BY <2>2, <2>4, ImportsKept DEF CorpusInv
<1>5. CASE Len(todo) # 1
  <2>1. snap' = [todo |-> Tail(todo), stamp |-> Null, quiet |-> quiet] /\ UNCHANGED archived
    BY <1>5 DEF SnapPassed
  <2>2. /\ Tail(todo) \in Seq(Paths) /\ Tail(todo) # <<>>
        /\ DOMAIN Tail(todo) = 1..(Len(todo) - 1)
        /\ \A i \in 1..(Len(todo) - 1) : Tail(todo)[i] = todo[i + 1]
    BY <1>1, <1>5, LongTail
  <2>3. snap' \in Snapshots
    BY <2>1, <2>2 DEF Snapshots
  <2>4. CorpusTypeOK'
    BY <2>1, <2>3 DEF CorpusTypeOK
  <2>5. ASSUME quiet, NEW x \in Paths
        PROVE  Copied(x)' \/ \E i \in DOMAIN Tail(todo) : Tail(todo)[i] = x
    <3>1. CASE Copied(x)'
      BY <3>1
    <3>2. ASSUME NEW i \in DOMAIN todo, i # 1, todo[i] = x
          PROVE  \E j \in DOMAIN Tail(todo) : Tail(todo)[j] = x
      <4>1. i - 1 \in 1..(Len(todo) - 1) /\ (i - 1) + 1 = i
        BY <1>1, <3>2
      <4>2. Tail(todo)[i - 1] = x
        BY <2>2, <3>2, <4>1
      <4> QED BY <2>2, <4>1, <4>2
    <3> QED BY <1>2, <2>5, <3>1, <3>2
  <2>6. (SnapHolds /\ ArchiveHolds)'
    BY <1>3, <2>1, <2>2, <2>5 DEF SnapHolds, ArchiveHolds
  <2> QED BY <2>4, <2>6, ImportsKept DEF CorpusInv
<1> QED BY <1>4, <1>5

\* The lines of a file as they are, with a size that is theirs.
LEMMA CopyFacts ==
  ASSUME CorpusTypeOK, CorpusInv, NEW path \in Paths, NEW time \in Int,
         raw' = [raw EXCEPT ![path] = RawCopy(path, time)], UNCHANGED transcript
  PROVE  /\ raw' \in [Paths -> RawFiles \cup {Null}] /\ RawHolds' /\ Copied(path)'
         /\ \A x \in Paths : Copied(x) => Copied(x)'
<1> PICK copy : copy = RawCopy(path, time)
  OBVIOUS
<1>1. FileAt(path) \in Seq(TranscriptLines)
  BY TranscriptFiles
<1>2. copy = [lines |-> FileAt(path), stamp |-> [size |-> Len(FileAt(path)), mtime |-> time]]
  BY DEF RawCopy, FileAt
<1>3. copy.lines = FileAt(path) /\ copy.stamp.size = Len(copy.lines)
  BY <1>2
<1>4. copy \in RawFiles
  BY <1>1, <1>2 DEF RawFiles, FileStamps
<1>5. copy # Null
  BY <1>4, NullAssumption
<1>6. raw \in [Paths -> RawFiles \cup {Null}]
  BY DEF CorpusTypeOK
<1>7. raw' = [raw EXCEPT ![path] = copy]
  OBVIOUS
<1>8. raw'[path] = copy /\ \A x \in Paths \ {path} : raw'[x] = raw[x]
  BY <1>6, <1>7
<1>9. raw' \in [Paths -> RawFiles \cup {Null}]
  BY <1>4, <1>6, <1>7
<1>10. \A x \in Paths : FileAt(x)' = FileAt(x)
  BY DEF FileAt
<1>11. Copied(path)'
  BY <1>3, <1>5, <1>8, <1>10 DEF Copied
<1>12. \A x \in Paths \ {path} : Copied(x) => Copied(x)'
  BY <1>8, <1>10 DEF Copied
<1>13. ASSUME NEW x \in Paths, raw'[x] # Null
       PROVE  Begins(raw'[x].lines, FileAt(x)') /\ raw'[x].stamp.size = Len(raw'[x].lines)
  <2>1. CASE x = path
    BY <1>1, <1>3, <1>8, <1>10, <2>1, BeginsItself
  <2>2. CASE x # path
    BY <1>8, <1>10, <1>13, <2>2 DEF CorpusInv, RawHolds
  <2> QED BY <2>1, <2>2
<1>14. RawHolds'
  BY <1>13 DEF RawHolds
<1> QED BY <1>9, <1>11, <1>12, <1>14

LEMMA NextFile ==
  ASSUME CorpusTypeOK, CorpusInv, snap # Null, NEW path, path = Head(snap.todo)
  PROVE  path \in Paths /\ snap \in Snapshots /\ snap.quiet \in BOOLEAN
<1>1. snap \in Snapshots /\ snap.todo \in Seq(Paths) /\ snap.todo # <<>> /\ snap.quiet \in BOOLEAN
  BY DEF CorpusTypeOK, Snapshots, CorpusInv, SnapHolds
<1> QED BY <1>1

\* Equal sizes and times mean that the copy is the file.
LEMMA SnapStatStep ==
  ASSUME CorpusTypeOK, CorpusInv, SnapStat
  PROVE  (CorpusTypeOK /\ CorpusInv)'
<1> PICK path, quiet : path = Head(snap.todo) /\ quiet = snap.quiet
  OBVIOUS
<1> PICK stamp : stamp = StampOfFile(path[1], path[2])
  OBVIOUS
<1>1. /\ snap # Null
      /\ \/ raw[path] # Null /\ raw[path].stamp = stamp /\ SnapPassed(quiet)
         \/ snap' = [snap EXCEPT !.stamp = stamp] /\ UNCHANGED archived
      /\ UNCHANGED <<transcript, mtime, rules, corpus, manifest, imp, raw, settled, lost, left>>
  BY DEF SnapStat
<1>2. path \in Paths /\ snap \in Snapshots /\ quiet \in BOOLEAN
  BY <1>1, NextFile
<1>3. FileAt(path) \in Seq(TranscriptLines) /\ stamp.size = Len(FileAt(path)) /\ stamp \in FileStamps
  <2>1. FileAt(path) \in Seq(TranscriptLines)
    BY <1>2, TranscriptFiles
  <2>2. stamp = [size |-> Len(FileAt(path)), mtime |-> mtime[path[1]][path[2]]]
    BY DEF StampOfFile, FileAt
  <2>3. mtime[path[1]][path[2]] \in Nat
    BY <1>2 DEF Paths, CorpusTypeOK
  <2> QED BY <2>1, <2>2, <2>3 DEF FileStamps
<1>4. CASE raw[path] # Null /\ raw[path].stamp = stamp /\ SnapPassed(quiet)
  <2>1. raw[path] \in RawFiles
    BY <1>2, <1>4 DEF CorpusTypeOK
  <2>2. raw[path].lines \in Seq(TranscriptLines)
    BY <2>1 DEF RawFiles
  <2>3. Begins(raw[path].lines, FileAt(path)) /\ raw[path].stamp.size = Len(raw[path].lines)
    BY <1>2, <1>4 DEF CorpusInv, RawHolds
  <2>4. Len(raw[path].lines) >= Len(FileAt(path))
    BY <1>3, <1>4, <2>2, <2>3
  <2>5. raw[path].lines = FileAt(path)
    BY <1>3, <2>2, <2>3, <2>4, BeginsWhole
  <2>6. \A x \in Paths : Copied(x) => Copied(x)'
    BY <1>1 DEF Copied, FileAt
  <2>7. Copied(path)'
    BY <1>1, <1>4, <2>5 DEF Copied, FileAt
  <2>8. raw' \in [Paths -> RawFiles \cup {Null}] /\ RawHolds'
    BY <1>1 DEF CorpusTypeOK, CorpusInv, RawHolds, FileAt
  <2> QED BY <1>1, <1>2, <1>4, <2>6, <2>7, <2>8, SnapshotMovesOn
<1>5. CASE snap' = [snap EXCEPT !.stamp = stamp] /\ UNCHANGED archived
  <2>1. snap' \in Snapshots /\ snap'.todo = snap.todo /\ snap'.quiet = snap.quiet
    BY <1>2, <1>3, <1>5 DEF Snapshots
  <2>2. CorpusTypeOK'
    BY <1>1, <1>5, <2>1 DEF CorpusTypeOK
  <2>3. (RawHolds /\ SnapHolds /\ ArchiveHolds)'
    BY <1>1, <1>5, <2>1 DEF CorpusInv, RawHolds, SnapHolds, ArchiveHolds, Copied, FileAt
  <2> QED BY <1>1, <2>2, <2>3, ImportsKept DEF CorpusInv
<1> QED BY <1>1, <1>4, <1>5

LEMMA SnapCopyStep ==
  ASSUME CorpusTypeOK, CorpusInv, SnapCopy
  PROVE  (CorpusTypeOK /\ CorpusInv)'
<1> PICK path, quiet, time : path = Head(snap.todo) /\ quiet = snap.quiet /\ time = snap.stamp.mtime
  OBVIOUS
<1>1. /\ snap # Null /\ snap.stamp # Null
      /\ raw' = [raw EXCEPT ![path] = RawCopy(path, time)]
      /\ SnapPassed(quiet)
      /\ UNCHANGED <<transcript, mtime, rules, corpus, manifest, imp, settled, lost, left>>
  BY DEF SnapCopy
<1>2. path \in Paths /\ snap \in Snapshots /\ quiet \in BOOLEAN
  BY <1>1, NextFile
<1>3. time \in Int
  BY <1>1, <1>2 DEF Snapshots, FileStamps
<1>4. /\ raw' \in [Paths -> RawFiles \cup {Null}] /\ RawHolds' /\ Copied(path)'
      /\ \A x \in Paths : Copied(x) => Copied(x)'
  BY <1>1, <1>2, <1>3, CopyFacts
<1> QED BY <1>1, <1>2, <1>4, SnapshotMovesOn

LEMMA SnapFailsStep ==
  ASSUME CorpusTypeOK, CorpusInv, SnapFails
  PROVE  (CorpusTypeOK /\ CorpusInv)'
<1> PICK path, quiet, time : path = Head(snap.todo) /\ quiet = FALSE /\ time = -1
  OBVIOUS
<1>1. /\ snap # Null /\ snap.stamp # Null
      /\ raw' = raw \/ raw' = [raw EXCEPT ![path] = RawCopy(path, time)]
      /\ SnapPassed(quiet) \/ (snap' = Null /\ UNCHANGED archived)
      /\ UNCHANGED <<transcript, mtime, rules, corpus, manifest, imp, settled, lost, left>>
  BY DEF SnapFails
<1>2. path \in Paths /\ snap \in Snapshots /\ time \in Int
  BY <1>1, NextFile
<1>3. /\ raw' \in [Paths -> RawFiles \cup {Null}] /\ RawHolds'
      /\ \A x \in Paths : Copied(x) => Copied(x)'
  <2>1. CASE raw' = raw
    BY <1>1, <2>1 DEF CorpusTypeOK, CorpusInv, RawHolds, Copied, FileAt
  <2>2. CASE raw' = [raw EXCEPT ![path] = RawCopy(path, time)]
    BY <1>1, <1>2, <2>2, CopyFacts
  <2> QED BY <1>1, <2>1, <2>2
<1>4. CASE SnapPassed(quiet)
  BY <1>1, <1>3, <1>4, SnapshotMovesOn
<1>5. CASE snap' = Null /\ UNCHANGED archived
  <2>1. CorpusTypeOK'
    BY <1>1, <1>3, <1>5 DEF CorpusTypeOK
  <2>2. (SnapHolds /\ ArchiveHolds)'
    BY <1>3, <1>5 DEF CorpusInv, SnapHolds, ArchiveHolds
  <2> QED BY <1>1, <1>3, <2>1, <2>2, ImportsKept DEF CorpusInv
<1> QED BY <1>1, <1>4, <1>5

-----------------------------------------------------------------------------
(* The theorems *)

LEMMA CorpusBegins ==
  CorpusInit => CorpusTypeOK /\ CorpusInv
<1> SUFFICES ASSUME CorpusInit PROVE CorpusTypeOK /\ CorpusInv
  OBVIOUS
<1>1. transcript \in [Sources -> Contents]
  <2>1. \A s \in Sources : Histories[s] \subseteq Contents
    BY TranscriptsAssumption DEF TranscriptsAssumption
  <2>2. /\ transcript = [s \in Sources |-> transcript[s]]
        /\ \A s \in Sources : transcript[s] \in Histories[s]
    BY DEF CorpusInit
  <2> QED BY <2>1, <2>2
<1>2. /\ mtime = [s \in Sources |-> [main |-> 0, sub |-> 0]]
      /\ rules \in RuleSets
      /\ corpus = [x \in SessionIds |-> NoOutput]
      /\ manifest = [s \in Sources |-> Null]
      /\ imp = Null /\ raw = [path \in Paths |-> Null] /\ snap = Null
      /\ settled = FALSE /\ archived = FALSE /\ lost = {}
      /\ \/ left = [changes |-> MaxChanges, commands |-> MaxRuns]
         \/ left = [changes |-> 1, commands |-> 1]
  BY DEF CorpusInit, NoManifest
<1>3. mtime \in [Sources -> [{"main", "sub"} -> Nat]]
  BY <1>2
<1>4. left \in [changes : Nat, commands : Nat]
  BY <1>2, TranscriptsAssumption DEF TranscriptsAssumption
<1>5. CorpusTypeOK
  BY <1>1, <1>2, <1>3, <1>4 DEF CorpusTypeOK
<1>6. CorpusInv
  BY <1>2 DEF CorpusInv, ManifestHolds, ImportHolds, RawHolds, SnapHolds, ArchiveHolds
<1> QED BY <1>5, <1>6

LEMMA CorpusGoesOn ==
  CorpusTypeOK /\ CorpusInv /\ [CorpusNext]_corpusVars => (CorpusTypeOK /\ CorpusInv)'
<1> SUFFICES ASSUME CorpusTypeOK, CorpusInv, [CorpusNext]_corpusVars
             PROVE  (CorpusTypeOK /\ CorpusInv)'
  OBVIOUS
<1>1. ASSUME NEW s \in Sources, NEW file \in {"main", "sub"}, NEW tick \in 0..1,
             NEW chunk \in Chunks[s][file], AppendChunk(s, file, chunk, tick)
      PROVE  (CorpusTypeOK /\ CorpusInv)'
  BY <1>1, AppendStep DEF FileNames
<1>2. ASSUME NEW s \in Sources, NEW file \in {"main", "sub"}, Touch(s, file)
      PROVE  (CorpusTypeOK /\ CorpusInv)'
  BY <1>2, TouchStep DEF FileNames
<1>3. ASSUME NEW globs \in RuleSets, SetRules(globs)
      PROVE  (CorpusTypeOK /\ CorpusInv)'
  BY <1>3, SetRulesStep
<1>4. ASSUME NEW w \in Windows, StartImport(w)
      PROVE  (CorpusTypeOK /\ CorpusInv)'
  BY <1>4, StartImportStep
<1>5. CASE ImportStat \/ ImportRead \/ ImportSkip \/ WriteManifest \/ ImportDies
  BY <1>5, ImportStatStep, ImportReadStep, ImportSkipStep, WriteManifestStep, ImportDiesStep
<1>6. CASE Snapshot
  BY <1>6, StartSnapshotStep, SnapStatStep, SnapCopyStep, SnapFailsStep DEF Snapshot
<1>7. CASE UNCHANGED corpusVars
  <2>1. CorpusTypeOK'
    BY <1>7 DEF corpusVars, CorpusTypeOK
  <2>2. (ManifestHolds /\ ImportHolds)'
    BY <1>7, ImportsKept DEF corpusVars, CorpusInv
  <2>3. (RawHolds /\ SnapHolds /\ ArchiveHolds)'
    BY <1>7, SnapshotsKept DEF corpusVars, CorpusInv
  <2> QED BY <2>1, <2>2, <2>3 DEF CorpusInv
<1> QED BY <1>1, <1>2, <1>3, <1>4, <1>5, <1>6, <1>7 DEF CorpusNext, Import

LEMMA CorpusInvariant ==
  CorpusSpec => [](CorpusTypeOK /\ CorpusInv)
BY CorpusBegins, CorpusGoesOn, PTL DEF CorpusSpec

\* An entry whose sizes are those of the files of now holds their content.
LEMMA SameSizeSameContent ==
  ASSUME CorpusTypeOK, NEW s \in Sources, NEW e \in ManifestEntries, Fits(s, e),
         e.stamp = StampOf(s, WithSidecar)
  PROVE  e.hash = transcript[s]
<1> PICK stamp, sidecars : stamp = e.stamp /\ sidecars = WithSidecar
  OBVIOUS
<1>1. StampFits(s, sidecars, stamp)
  <2>1. stamp = StampOf(s, sidecars)
    OBVIOUS
  <2> QED BY <2>1, StampFacts
<1>2. e.hash \in Contents /\ transcript[s] \in Contents
  BY DEF ManifestEntries, CorpusTypeOK
<1>3. s \notin sidecars => transcript[s]["sub"] = <<>>
  BY DEF WithSidecar, CorpusTypeOK, Contents
<1>4. ASSUME NEW file \in FileNames
      PROVE  e.hash[file] = transcript[s][file]
  <2>1. e.hash[file] \in Seq(TranscriptLines) /\ transcript[s][file] \in Seq(TranscriptLines)
    BY EntryFiles, TranscriptFiles
  <2>2. CASE file \in DOMAIN stamp
    <3>1. stamp[file].size = Len(transcript[s][file])
      BY <1>1, <2>2 DEF StampFits
    <3>2. Begins(e.hash[file], transcript[s][file]) /\ stamp[file].size <= Len(e.hash[file])
      BY <2>2 DEF Fits
    <3> QED BY <2>1, <3>1, <3>2, BeginsWhole
  <2>3. CASE file \notin DOMAIN stamp
    <3>1. file = "sub" /\ s \notin sidecars
      BY <1>1, <2>3 DEF StampFits, FileNames
    <3>2. e.hash[file] = <<>>
      BY <2>3 DEF Fits
    <3> QED BY <1>3, <3>1, <3>2
  <2> QED BY <2>2, <2>3
<1> QED BY <1>2, <1>4 DEF Contents, FileNames

LEMMA NothingStaleHolds ==
  CorpusTypeOK /\ CorpusInv => NothingStale
<1> SUFFICES ASSUME CorpusTypeOK, CorpusInv, NEW s \in Sources
             PROVE  /\ manifest[s] # Null /\ manifest[s].stamp = StampOf(s, WithSidecar) /\ s \notin lost /\ imp = Null
                       => /\ corpus[SessionOf[s]] # NoOutput
                          /\ corpus[SessionOf[s]].events = Timeline(transcript[s])
                    /\ archived => \A file \in {"main", "sub"} : transcript[s][file] # <<>> =>
                           raw[<<s, file>>] # Null /\ raw[<<s, file>>].lines = transcript[s][file]
  BY DEF NothingStale
<1>1. ASSUME manifest[s] # Null, manifest[s].stamp = StampOf(s, WithSidecar), s \notin lost, imp = Null
      PROVE  corpus[SessionOf[s]] # NoOutput /\ corpus[SessionOf[s]].events = Timeline(transcript[s])
  <2> PICK e : e = manifest[s]
    OBVIOUS
  <2>1. e \in ManifestEntries
    BY <1>1 DEF CorpusTypeOK
  <2>2. Fits(s, e) /\ UpToDate(s, e)
    BY <1>1 DEF CorpusInv, ManifestHolds
  <2>3. e.hash = transcript[s]
    BY <1>1, <2>1, <2>2, SameSizeSameContent
  <2>4. ~Outgrown(s, e)
    <3>1. \A file \in FileNames : Len(transcript[s][file]) \in Nat
      BY TranscriptFiles
    <3> QED BY <2>3, <3>1 DEF Outgrown
  <2> QED BY <1>1, <2>2, <2>3, <2>4 DEF UpToDate, Shown
<1>2. ASSUME archived, NEW file \in {"main", "sub"}, transcript[s][file] # <<>>
      PROVE  raw[<<s, file>>] # Null /\ raw[<<s, file>>].lines = transcript[s][file]
  <2>1. <<s, file>> \in Paths /\ FileAt(<<s, file>>) = transcript[s][file]
    BY DEF Paths, FileAt
  <2>2. Copied(<<s, file>>)
    BY <1>2, <2>1 DEF CorpusInv, ArchiveHolds
  <2> QED BY <1>2, <2>1, <2>2 DEF Copied
<1> QED BY <1>1, <1>2

\* The types of the corpus: the entries of the manifest, an import and a snapshot under way
\* (import.ts, corpus.ts) and the transcripts they read.
THEOREM CorpusTypeCorrect == CorpusSpec => []CorpusTypeOK
BY CorpusInvariant, PTL

\* What the fast path of the next import passes over as unchanged is what the transcript says
\* (import.ts: importClaudeSessions), and a snapshot over which nothing was written holds every
\* transcript as it is (corpus.ts), for every number of transcripts, commands and writes.
THEOREM NothingGoesStale == CorpusSpec => []NothingStale
BY CorpusInvariant, NothingStaleHolds, PTL
=============================================================================
