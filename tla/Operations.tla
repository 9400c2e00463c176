-------------------------------- MODULE Operations --------------------------------
(***************************************************************************)
(* Running cc-idle: the daemon's process from its claim of the pidfile to  *)
(* its exit (daemon/daemon.ts, cli.ts, ipc-server.ts), the panes it is     *)
(* told of and keeps over restarts (registrations.ts), and the commands of *)
(* the launcher (cli/cli.ts, up.ts, attach.ts, register.ts, daemon-control *)
(* .ts, with the installer of Settings).                                   *)
(*                                                                         *)
(* A step of a process is what it does between two moments at which        *)
(* another process or a signal may come in.  What the daemon does while it *)
(* serves is EventPipeline, FocusEngine, Channel and the games.            *)
(***************************************************************************)
EXTENDS Settings

CONSTANTS
    None,
    Daemons,        \* bound: the ccidled processes there will be
    Launchers,      \* shells in which ccidle commands run
    Panes, Cwds, Sessions,
    MaxCommands     \* bound: commands, signals and edits

ASSUME OperationsAssumption ==
    /\ None \notin Daemons /\ None \notin Panes /\ None \notin Sessions
    /\ MaxCommands \in Nat

VARIABLES
    daemons,        \* where each ccidled is, and its registrations
    pidfile,        \* the process whose pid the file holds
    socket,         \* the process that bound the file at socketPath()
    disk,           \* registrations.json
    launchers,      \* what the command in each shell does next
    commands,       \* bound's counter
    raced,          \* history: a claim was made between another's check and write
    told,           \* history: the registrations the running daemon has taken that hold
    saved           \* history: those that held at the last write of the file

daemonVars == <<daemons, pidfile, socket, disk, raced, told, saved>>
vars == <<settingsVars, daemonVars, launchers, commands>>

Command == commands < MaxCommands /\ commands' = commands + 1

Empty == [game |-> None, cc |-> << >>]
Entries == [pane : Panes \cup {None}, cwd : Cwds \cup {None}, session : Sessions \cup {None}]
NoEntry == [pane |-> None, cwd |-> None, session |-> None]

-----------------------------------------------------------------------------
(* Registrations. *)

Matches(r, entry) ==
    \/ entry.session # None /\ r.session = entry.session
    \/ entry.pane # None /\ r.pane = entry.pane
    \/ entry.cwd # None /\ entry.pane = None /\ r.cwd = entry.cwd

\* Mutant: a pane that is known is matched by its pane or directory only.
RegisterCcByPane(data, entry) ==
    LET i == SelectInSeq(data.cc, LAMBDA r : Matches(r, [entry EXCEPT !.session = None]))
    IN  IF i = 0 THEN [data EXCEPT !.cc = Append(@, entry)]
        ELSE [data EXCEPT !.cc[i] = entry]

\* registerCc as onRegister calls it: all three fields are given, undefined ones
\* too, so the entry replaces the first that matches.
RegisterCc(data, entry) ==
    LET i == SelectInSeq(data.cc, LAMBDA r : Matches(r, entry))
    IN  IF i = 0 THEN [data EXCEPT !.cc = Append(@, entry)]
        ELSE [data EXCEPT !.cc[i] = entry]

\* The pane of the first registration that names this session, or this directory.
FirstPane(cc, field, value) ==
    LET i == SelectInSeq(cc, LAMBDA r : r[field] = value) IN IF i = 0 THEN None ELSE cc[i].pane

ResolvePaneForSession(data, session, cwd) ==
    LET byId == FirstPane(data.cc, "session", session)
    IN  IF byId # None \/ cwd = None THEN byId
        ELSE FirstPane(data.cc, "cwd", cwd)

(***************************************************************************)
(* What a registration promises, apart from the list it is kept in: the    *)
(* pane it names is the session's until a later one gives the session      *)
(* another place, or takes the pane or, naming none, the directory.        *)
(***************************************************************************)
NothingTold == [game |-> None, cc |-> [s \in Sessions |-> NoEntry]]

\* A registration of somebody's pane, or of no pane and somebody's directory.
TakesOver(entry, place) ==
    IF entry.pane # None THEN entry.pane = place.pane
    ELSE entry.cwd # None /\ entry.cwd = place.cwd

Tell(t, entry) ==
    [t EXCEPT !.cc = [s \in Sessions |->
        IF entry.session = s THEN IF entry.pane = None THEN NoEntry ELSE entry
        ELSE IF TakesOver(entry, t.cc[s]) THEN NoEntry ELSE t.cc[s]]]

-----------------------------------------------------------------------------
(* The daemon's process. *)

At(d) == daemons[d].at
Alive(d) == At(d) \notin {"unborn", "gone"}
Claimed == {"replaying", "unlinked", "serving", "stopping", "failed"}

To(d, at) == daemons' = [daemons EXCEPT ![d].at = at]

\* Mutant: a daemon counts as running once it serves.
PidAliveServing(p) == p # None /\ At(p) \in {"serving", "stopping"}

PidAlive(p) == p # None /\ Alive(p)

\* claimPidfile's check: a second daemon exits with DaemonAlreadyRunningError.
CheckPidfile(d) ==
    /\ At(d) = "spawned"
    /\ To(d, IF PidAlive(pidfile) THEN "gone" ELSE "checked")
    /\ UNCHANGED <<settingsVars, pidfile, socket, disk, raced, told, saved, launchers, commands>>

\* Its write, and the registrations read from disk.
ClaimPidfile(d) ==
    /\ At(d) = "checked"
    /\ daemons' = [daemons EXCEPT ![d] = [at |-> "replaying", data |-> disk]]
    /\ pidfile' = d
    /\ raced' = (raced \/ \E e \in Daemons \ {d} : At(e) = "checked")
    /\ told' = saved
    /\ UNCHANGED <<settingsVars, socket, disk, saved, launchers, commands>>

\* After the replay, ipc.start: the file a crashed daemon left is unlinked ...
UnlinkSocket(d) ==
    /\ At(d) = "replaying"
    /\ To(d, "unlinked")
    /\ socket' = None
    /\ UNCHANGED <<settingsVars, pidfile, disk, raced, told, saved,
                   launchers, commands>>

\* ... and the path bound; if it is taken, the start fails with the watcher open.
Listen(d) ==
    /\ At(d) = "unlinked"
    /\ IF socket = None
       THEN To(d, "serving") /\ socket' = d
       ELSE To(d, "failed") /\ UNCHANGED socket
    /\ UNCHANGED <<settingsVars, pidfile, disk, raced, told, saved,
                   launchers, commands>>

\* SIGTERM or SIGINT to a daemon that serves: ipc.stop closes the server, which
\* takes the socket's path away.
Stop(d) ==
    /\ Command
    /\ At(d) = "serving"
    /\ To(d, "stopping")
    /\ socket' = None
    /\ UNCHANGED <<settingsVars, pidfile, disk, raced, told, saved, launchers>>

\* stop, once the watcher is closed: the pidfile goes if it is ours, then the process.
Exit(d) ==
    /\ At(d) = "stopping"
    /\ To(d, "gone")
    /\ pidfile' = IF pidfile = d THEN None ELSE pidfile
    /\ UNCHANGED <<settingsVars, socket, disk, raced, told, saved,
                   launchers, commands>>

\* A crash, or a signal before the handlers are set: the files stay.
Crash(d) ==
    /\ Command
    /\ Alive(d)
    /\ To(d, "gone")
    /\ UNCHANGED <<settingsVars, pidfile, socket, disk, raced, told, saved,
                   launchers>>

-----------------------------------------------------------------------------
(* The launcher. *)

Does(l, step) == launchers' = [launchers EXCEPT ![l] = step]

Spawn == \E d \in Daemons :
    /\ At(d) = "unborn"
    /\ \A e \in Daemons : At(e) = "unborn" => d <= e
    /\ To(d, "spawned")
    /\ UNCHANGED <<pidfile, socket, disk, raced, told, saved>>

\* ccidled started by hand.
RunDaemon ==
    /\ Command
    /\ Spawn
    /\ UNCHANGED <<settingsVars, launchers>>

\* ccidle up: ensureDaemonRunning believes the pidfile, or spawns and waits.
Up(l) ==
    /\ Command
    /\ launchers[l] = "idle"
    /\ IF PidAlive(pidfile)
       THEN Does(l, "register-game") /\ UNCHANGED daemonVars
       ELSE Spawn /\ Does(l, "wait")
    /\ UNCHANGED settingsVars

\* waitForSocket: the path appeared, whoever bound it, or the time ran out; then the
\* layout, or only an attach to the tmux session that is there already.
WaitForSocket(l) ==
    /\ launchers[l] = "wait"
    /\ Does(l, "register-game") \/ Does(l, "idle")
    /\ UNCHANGED <<settingsVars, daemonVars, commands>>

\* ccidle attach and ccidle register.
Attach(l) ==
    /\ Command
    /\ launchers[l] = "idle"
    /\ Does(l, "register-cc") \/ Does(l, "register-only")
    /\ UNCHANGED <<settingsVars, daemonVars>>

\* ccidle doctor, of the daemon: a live process in the pidfile and a socket in its place.
DaemonCheck == IF PidAlive(pidfile) /\ socket # None THEN "ok" ELSE "warn"

\* What the running daemon d makes of a registration; persist is best effort.
Takes(d, data, t) ==
    /\ daemons' = [daemons EXCEPT ![d].data = data]
    /\ told' = t
    /\ \/ disk' = data /\ saved' = t
       \/ UNCHANGED <<disk, saved>>

Listening == socket # None /\ At(socket) = "serving"

\* Nothing listens, the connection takes too long, or the daemon dies with the line unread.
Lost == UNCHANGED <<daemons, disk, told, saved>>

\* sendRegister for the game pane.
RegisterGame(l, pane) ==
    /\ launchers[l] \in {"register-game", "register-only"}
    /\ Does(l, IF launchers[l] = "register-game" THEN "register-cc" ELSE "idle")
    /\ \/ Listening /\ Takes(socket, [daemons[socket].data EXCEPT !.game = pane],
                                [told EXCEPT !.game = pane])
       \/ Lost
    /\ UNCHANGED <<settingsVars, pidfile, socket, raced, commands>>

\* sendRegister for a pane of Claude Code.
Register(l, entry) ==
    /\ launchers[l] \in {"register-cc", "register-only"}
    /\ launchers[l] = "register-cc" => entry.pane # None /\ entry.session = None
    /\ Does(l, "idle")
    /\ \/ Listening /\ Takes(socket, RegisterCc(daemons[socket].data, entry), Tell(told, entry))
       \/ Lost
    /\ UNCHANGED <<settingsVars, pidfile, socket, raced, commands>>

\* ccidle install and uninstall, and what the user does to the settings and checkouts.
Installer ==
    /\ Command
    /\ SettingsNext
    /\ UNCHANGED <<daemonVars, launchers>>

-----------------------------------------------------------------------------
Init ==
    /\ SettingsInit
    /\ daemons = [d \in Daemons |-> [at |-> "unborn", data |-> Empty]]
    /\ pidfile = None /\ socket = None
    /\ disk = Empty
    /\ launchers = [l \in Launchers |-> "idle"]
    /\ commands = 0
    /\ raced = FALSE
    /\ told = NothingTold /\ saved = NothingTold

DaemonStep(d) ==
    \/ CheckPidfile(d) \/ ClaimPidfile(d)
    \/ UnlinkSocket(d) \/ Listen(d)
    \/ Stop(d) \/ Exit(d) \/ Crash(d)

LauncherStep(l) ==
    \/ Up(l) \/ WaitForSocket(l) \/ Attach(l)
    \/ \E pane \in Panes : RegisterGame(l, pane)
    \/ \E entry \in Entries : Register(l, entry)

Next ==
    \/ \E d \in Daemons : DaemonStep(d)
    \/ \E l \in Launchers : LauncherStep(l)
    \/ RunDaemon
    \/ Installer

Spec == Init /\ [][Next]_vars

-----------------------------------------------------------------------------
\* "Single instance enforced via pidfile": unless two claims overlapped between
\* check and write, a process past its claim is the one the pidfile names, so there
\* is one at most, and while it serves the socket is its own, through crashes that
\* leave both files and restarts that find them.  The doctor finds nothing amiss
\* then, and only then or before a daemon that starts has removed an old socket.
OneDaemon ==
    ~raced => \A d \in Daemons :
        /\ At(d) \in Claimed => pidfile = d
        /\ At(d) = "serving" => socket = d
        /\ At(d) # "failed"
        /\ At(d) = "serving" => DaemonCheck = "ok"
        /\ DaemonCheck = "ok" /\ pidfile = d => At(d) \in {"replaying", "serving"}

\* These registrations answer what they were told: every session is in the pane that
\* holds for it, wherever it is asked from, and the game in its own.
Answers(data, t) ==
    /\ \A s \in Sessions, cwd \in Cwds \cup {None} :
         t.cc[s].pane # None => ResolvePaneForSession(data, s, cwd) = t.cc[s].pane
    /\ data.game = t.game

\* A daemon that serves finds every session in the pane it was last registered with,
\* whatever else was registered before and since, also after a restart ("so they survive
\* daemon restarts"), which goes back to the last write of the file that succeeded.  What
\* ends a session's claim is a registration of the session without a pane, of its pane, or
\* of its directory without a pane: it leaves no trace of the fields it does not give.
RegistrationHolds ==
    ~raced => \A d \in Daemons : At(d) = "serving" => Answers(daemons[d].data, told)

-----------------------------------------------------------------------------
(* The inductive invariant behind both. *)

Places == Claimed \cup {"unborn", "spawned", "checked", "gone"}
LauncherSteps == {"idle", "wait", "register-game", "register-cc", "register-only"}
Registrations == [game : Panes \cup {None}, cc : Seq(Entries)]
Promises == [game : Panes \cup {None}, cc : [Sessions -> Entries]]

TypeOK ==
    /\ daemons \in [Daemons -> [at : Places, data : Registrations]]
    /\ pidfile \in Daemons \cup {None} /\ socket \in Daemons \cup {None}
    /\ disk \in Registrations
    /\ launchers \in [Launchers -> LauncherSteps]
    /\ commands \in 0 .. MaxCommands
    /\ raced \in BOOLEAN
    /\ told \in Promises /\ saved \in Promises

\* The pidfile never names a process that has not claimed it.  While no two claims
\* have overlapped, a process that found the file free finds nobody else past a
\* claim, and the socket's path is whose the process's own progress says.
ClaimInv ==
    /\ pidfile # None => At(pidfile) \in Claimed \cup {"gone"}
    /\ ~raced => \A d \in Daemons :
         /\ At(d) \in Claimed => pidfile = d
         /\ At(d) = "checked" => \A e \in Daemons : At(e) \notin Claimed
         /\ At(d) \in {"unlinked", "stopping"} => socket = None
         /\ At(d) = "serving" => socket = d
         /\ At(d) # "failed"

\* What is told holds of these registrations, and the first of them that names a session
\* is the one that gave it its place.
Keeps(data, t) ==
    /\ \A s \in Sessions : t.cc[s].pane # None =>
         \E i \in 1..Len(data.cc) :
            /\ data.cc[i] = t.cc[s] /\ data.cc[i].session = s
            /\ \A j \in 1..(i-1) : data.cc[j].session # s
    /\ data.game = t.game

\* So it does of the daemon's memory, and of the file what was told when it was written.
MemoryInv ==
    ~raced =>
        /\ Keeps(disk, saved)
        /\ \A d \in Daemons : At(d) \in Claimed => Keeps(daemons[d].data, told)
================================================================================
