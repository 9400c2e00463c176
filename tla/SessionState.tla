---------------------------- MODULE SessionState ----------------------------
(***************************************************************************)
(* The per-session state machine of the daemon (state-machine.ts): pure    *)
(* functions from a state and an event, or the silence since the last      *)
(* event, to the next state.                                               *)
(***************************************************************************)
EXTENDS Naturals

SessionStates == {"HUMAN_ACTIVE", "CC_WORKING", "STALE", "DEAD"}

\* Events of one effect on the state share a name: "Activity" is every tool,
\* subagent, usage and unknown event, "Asks" a Stop, Notification or SessionStart.
StateEvents == {"UserPromptSubmit", "Asks", "SessionEnd", "Activity"}

\* initSnapshot: a session nobody has seen counts as waiting for its human.
InitialState == "HUMAN_ACTIVE"

\* Mutant: the switch has no default that keeps the state.
ReduceStateNoDefault(state, event) ==
  CASE event = "UserPromptSubmit" -> "CC_WORKING"
    [] event = "Asks" -> "HUMAN_ACTIVE"
    [] event = "SessionEnd" -> "DEAD"
    [] OTHER -> IF state = "STALE" THEN "CC_WORKING" ELSE "undefined"

\* reduce(state, event)
ReduceState(state, event) ==
  CASE event = "UserPromptSubmit" -> "CC_WORKING"
    [] event = "Asks" -> "HUMAN_ACTIVE"
    [] event = "SessionEnd" -> "DEAD"
    [] OTHER -> IF state = "STALE" THEN "CC_WORKING" ELSE state

\* checkStale, for some length of silence that is past the next threshold.
StaleStates(state) ==
  CASE state = "CC_WORKING" -> {"STALE", "DEAD"}
    [] state = "STALE" -> {"DEAD"}
    [] OTHER -> {}
=============================================================================
