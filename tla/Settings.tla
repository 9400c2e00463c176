--------------------------------- MODULE Settings ---------------------------------
(***************************************************************************)
(* The installer's work on Claude Code's settings file                     *)
(* (packages/cli/src/settings.ts, installer.ts).                           *)
(*                                                                         *)
(* The hooks section gives every event a sequence of groups, each a        *)
(* sequence of commands.  A command is a script: the wrapper of a checkout *)
(* of cc-idle, or a script of the user's that bears a wrapper's file name. *)
(* Whether a command is ccidle's own is read off the disk.                 *)
(***************************************************************************)
EXTENDS Naturals, Sequences, SequencesExt, FiniteSets

CONSTANTS
    HookEvents,     \* the events ccidle hooks (EVENT_SCRIPTS)
    Checkouts,      \* places a checkout of cc-idle has had
    UserScripts     \* the user's own hooks, each named like a wrapper

ASSUME SettingsAssumption == HookEvents # {} /\ Checkouts \cap UserScripts = {}

VARIABLES
    settings,       \* the hooks section of settings.json
    files,          \* the checkouts and scripts that exist
    installed,      \* history: install ran after the last uninstall
    users           \* history: what the user put in, event by event

settingsVars == <<settings, files, installed, users>>

Commands == Checkouts \cup UserScripts

\* Beside a checkout's wrapper lies ccidle-hook.sh, beside a user's script it does not.
ShimBeside(command) == command \in Checkouts \cap files

\* Mutant: a wrapper that has gone with its checkout is taken for somebody else's.
IsOwnCommandHere(command) == ShimBeside(command)

\* isOwnCommand, of a command with a wrapper's name.
IsOwnCommand(command) == ShimBeside(command) \/ command \notin files

\* The elements of s that are in K, in their order.
Kept(s, K) ==
    LET kept[n \in 0..Len(s)] ==
            IF n = 0 THEN << >>
            ELSE IF s[n] \in K THEN Append(kept[n - 1], s[n]) ELSE kept[n - 1]
    IN  kept[Len(s)]

Foreign == {command \in Commands : ~IsOwnCommand(command)}
NonEmpty == Seq(Commands) \ {<< >>}

\* stripOwnHooks: groups left empty go too.
StripOwnHooks(groups) ==
    Kept([i \in DOMAIN groups |-> Kept(groups[i], Foreign)], NonEmpty)

MergeSettings(existing, checkout) ==
    [e \in HookEvents |-> Append(StripOwnHooks(existing[e]), <<checkout>>)]

UnmergeSettings(existing) == [e \in HookEvents |-> StripOwnHooks(existing[e])]

HooksInstalled(existing) ==
    \A e \in HookEvents : \E i \in DOMAIN existing[e] :
        \E j \in DOMAIN existing[e][i] : IsOwnCommand(existing[e][i][j])

\* ccidle install, run from a checkout.
Install(checkout) ==
    /\ checkout \in files
    /\ settings' = MergeSettings(settings, checkout)
    /\ installed' = TRUE
    /\ UNCHANGED <<files, users>>

Uninstall ==
    /\ settings' = UnmergeSettings(settings)
    /\ installed' = FALSE
    /\ UNCHANGED <<files, users>>

\* The user adds a script to an event, in a group of its own or in the last one.
UserAdds(event, script) ==
    /\ script \in files
    /\ LET groups == settings[event] IN
       settings' \in {[settings EXCEPT ![event] = Append(groups, <<script>>)]}
            \cup {[settings EXCEPT ![event] = Front(groups) \o <<Append(g, script)>>] :
                     g \in IF groups = << >> THEN {} ELSE {Last(groups)}}
    /\ users' = [users EXCEPT ![event] = Append(@, script)]
    /\ UNCHANGED <<files, installed>>

\* A checkout is moved away, deleted, or cloned again.
MoveCheckout(checkout) ==
    /\ files' = IF checkout \in files THEN files \ {checkout} ELSE files \cup {checkout}
    /\ UNCHANGED <<settings, installed, users>>

SettingsInit ==
    /\ settings = [e \in HookEvents |-> << >>]
    /\ files = Checkouts \cup UserScripts
    /\ installed = FALSE
    /\ users = [e \in HookEvents |-> << >>]

SettingsNext ==
    \/ \E checkout \in Checkouts : Install(checkout) \/ MoveCheckout(checkout)
    \/ Uninstall
    \/ \E event \in HookEvents, script \in UserScripts : UserAdds(event, script)

-----------------------------------------------------------------------------
SettingsTypeOK ==
    /\ settings \in [HookEvents -> Seq(Seq(Commands))]
    /\ files \subseteq Commands /\ UserScripts \subseteq files
    /\ installed \in BOOLEAN
    /\ users \in [HookEvents -> Seq(UserScripts)]

Flat(event) == FlattenSeq(settings[event])

\* "Running install twice (or after a repo move) never yields duplicates" and
\* uninstall removes "exactly the entries install added" (mergeSettings,
\* unmergeSettings): whatever the order of installs, uninstalls, moves and the
\* user's edits, every event has ccidle's hook once while it is installed and not
\* at all otherwise, and the user's own hooks as the user left them.
HooksTidy ==
    /\ \A e \in HookEvents :
         /\ Len(Kept(Flat(e), Checkouts)) = IF installed THEN 1 ELSE 0
         /\ Kept(Flat(e), UserScripts) = users[e]
    /\ HooksInstalled(settings) <=> installed
================================================================================
