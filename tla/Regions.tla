------------------------------ MODULE Regions ------------------------------
(***************************************************************************)
(* The part of the game's reducer (game/engine.ts) that says where each    *)
(* session works and what its region looks like: pure functions from a     *)
(* game and an input to the next game.  Conversion rates are left out: a   *)
(* unit of output tokens earns a unit of Compute, and a unit of accrual a  *)
(* unit of completion bonus.                                               *)
(***************************************************************************)
EXTENDS Naturals

CONSTANTS
  Sessions,
  RegionIds,     \* region ids, the project directories of the sessions
  Unassigned,  \* UNASSIGNED_REGION_ID
  None         \* absent from a map, no cwd

ASSUME RegionsAssumption == Unassigned \in RegionIds /\ None \notin RegionIds

RegionStatuses == {"hot", "idle", "dark"}
SessionStatuses == {"working", "idle", "dark"}
Telemetry == {"UserPromptSubmit", "Stop", "Asks", "SessionEnd", "Activity", "TokenUsage"}

Games == [sessionRegions : [Sessions -> RegionIds \cup {None}],
          sessionStatus : [Sessions -> SessionStatuses \cup {"none"}],
          status : [RegionIds -> RegionStatuses \cup {"none"}],   \* "none": not founded
          turnAccrual : [RegionIds -> Nat],
          computeFromTokens : Nat,
          completionBonus : Nat]

InitialGame ==
  [sessionRegions |-> [s \in Sessions |-> None],
   sessionStatus |-> [s \in Sessions |-> "none"],
   status |-> [r \in RegionIds |-> "none"],
   turnAccrual |-> [r \in RegionIds |-> 0],
   computeFromTokens |-> 0,
   completionBonus |-> 0]

SessionsIn(game, r) == {s \in Sessions : game.sessionRegions[s] = r}

DerivedStatus(game, r) ==
  LET statuses == {game.sessionStatus[s] : s \in SessionsIn(game, r)} \ {"none"} IN
  IF "working" \in statuses THEN "hot" ELSE IF statuses = {"dark"} THEN "dark" ELSE "idle"

\* refreshRegionStatus
RefreshRegionStatus(game, r) == [game EXCEPT !.status[r] = DerivedStatus(game, r)]

\* resolveRegion: the cwd of the envelope, or the region learned before.
RegionOf(game, s, cwd) ==
  IF cwd # None THEN cwd
  ELSE IF game.sessionRegions[s] # None THEN game.sessionRegions[s] ELSE Unassigned

\* ensureRegion, and the session's region is learned.
ResolveRegion(game, s, r) ==
  [game EXCEPT !.status[r] = IF @ = "none" THEN "idle" ELSE @,
               !.sessionRegions[s] = r]

\* The mirror of the daemon's state machine: what an event says of its session.
MirrorStatus(old, event) ==
  CASE event = "UserPromptSubmit" -> "working"
    [] event \in {"Stop", "Asks"} -> "idle"
    [] event = "SessionEnd" -> old
    [] OTHER -> IF old \in {"dark", "none"} THEN "working" ELSE old

\* Mutant: applyStop pays the bonus and keeps the accrual.
StopKeepsAccrual(game, r) ==
  [game EXCEPT !.completionBonus = @ + game.turnAccrual[r]]

\* applyStop: the completion bonus on what the region has accrued.
ApplyStop(game, r) ==
  [game EXCEPT !.completionBonus = @ + game.turnAccrual[r],
               !.turnAccrual[r] = 0]

\* applyTokenUsage
ApplyTokenUsage(game, r, tokens) ==
  [game EXCEPT !.computeFromTokens = @ + tokens,
               !.turnAccrual[r] = @ + tokens]

\* What the event does beyond the status of its session.
ApplyEffect(game, s, r, event, tokens) ==
  CASE event = "UserPromptSubmit" -> [game EXCEPT !.turnAccrual[r] = 0]
    [] event = "TokenUsage" -> ApplyTokenUsage(game, r, tokens)
    [] event = "Stop" -> ApplyStop(game, r)
    [] event = "SessionEnd" -> [game EXCEPT !.sessionRegions[s] = None,
                                            !.sessionStatus[s] = "none"]
    [] OTHER -> game

\* applyTelemetry
ApplyTelemetry(game, s, cwd, event, tokens) ==
  LET r == RegionOf(game, s, cwd)
      resolved == ResolveRegion(game, s, r)
      mirrored == [resolved EXCEPT !.sessionStatus[s] = MirrorStatus(@, event)]
  IN RefreshRegionStatus(ApplyEffect(mirrored, s, r, event, tokens), r)

\* What a state of the daemon's machine is to the game.
StatusOfState(state) ==
  CASE state = "CC_WORKING" -> "working"
    [] state \in {"STALE", "DEAD"} -> "dark"
    [] OTHER -> "idle"

\* Mutant: applySessionState leaves the region's status for the next event.
SetSessionStatusOnly(game, s, state) ==
  [game EXCEPT !.sessionStatus[s] = StatusOfState(state)]

\* applySessionState
ApplySessionState(game, s, state) ==
  LET told == [game EXCEPT !.sessionStatus[s] = StatusOfState(state)] IN
  IF game.sessionRegions[s] = None THEN told
  ELSE RefreshRegionStatus(told, game.sessionRegions[s])

\* actionShipGeneration, of what is modelled here.
ShipRegions(game) == [game EXCEPT !.turnAccrual = [r \in RegionIds |-> 0]]
=============================================================================
