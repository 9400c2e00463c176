----------------------------- MODULE GameEconomy -----------------------------
(***************************************************************************)
(* The economy of the game's reducer (game/engine.ts) with its tuning      *)
(* (balance.ts, content.ts): what telemetry earns, what the player and     *)
(* the procurement bots spend, and what shipping a generation resets.      *)
(* Regions.tla has the other half of the reducer, who works where.         *)
(*                                                                         *)
(* Amounts are whole units, so a rate rounds down.  Prices and thresholds  *)
(* grow linearly here and geometrically in the code: nothing below tells   *)
(* the two apart.                                                          *)
(***************************************************************************)
EXTENDS Integers, FiniteSetsExt

CONSTANTS
  Regions,
  Balance,    \* the tuning constants of balance.ts
  Tokens,     \* the output tokens one TokenUsage may carry
  Times,      \* the timestamps envelopes may carry, in any order
  Wanted,     \* bound: the breakthroughs the player may buy
  MaxEvents   \* bound on the telemetry of a behaviour

Tiers == {"gpu", "rack", "datacenter"}   \* INFRA_TIERS
Nodes == {"quantization", "synthetic-data", "scaling-laws", "self-healing", "procurement", "blueprints"}

Positive == Nat \ {0}

ASSUME EconomyAssumption ==
  /\ Balance \in [baseCost : [Tiers -> Positive],
                  requiresPrevious : [Tiers -> Nat],
                  multiplier : [Tiers -> Nat],            \* per cent per unit
                  fullRateTokensPerWindow : Positive, windowMs : Nat,
                  stopAllRegionBonus : Nat, perToolCall : [{"engineering", "research"} -> Nat], postMortem : Nat,
                  hireBaseCost : Positive, reputationPerHireSlot : Positive,
                  experimentDataCost : Nat, experimentEngineeringCost : Nat,
                  experimentProgress : Nat, trainingDataCost : Positive,
                  trainingProgress : Nat, trainingCompute : Nat,
                  baseProgress : Positive, breakthroughsPerShip : Nat,
                  overshootBonusCap : Nat, maxActivePerRegion : Nat, minIntervalMs : Nat]
  /\ Tokens \subseteq Positive /\ Times \subseteq Positive /\ Wanted \subseteq Nodes /\ MaxEvents \in Nat
  /\ IsFiniteSet(Regions)  \* the directories of the sessions there have been

VARIABLES
  resources,        \* state.resources
  lab,              \* researchers and model progress
  generation,
  levels,           \* breakthroughLevels
  infrastructure,   \* per region, units owned of each tier
  incidents,        \* per region, how many are active
  lastIncidentAt,   \* per region, 0 after a reset
  window,           \* per region, the diminishing-returns window
  turnAccrual,      \* per region
  status,           \* per region; "none" is not founded
  totals,           \* per region, what it has earned
  stats,            \* EconomyStats: what each resource has earned and spent
  spawned, acked,   \* EconomyStats: incidents
  eventsProcessed,  \* EconomyStats
  writtenOff        \* history: what shipping has reset to zero, active incidents included

perRegion == <<infrastructure, incidents, lastIncidentAt, window, turnAccrual, status, totals>>
vars == <<resources, lab, generation, levels, perRegion, stats, spawned, acked,
          eventsProcessed, writtenOff>>

Resources == {"compute", "engineering", "research", "reputation", "breakthroughs"}
Earnable == {"compute", "engineering", "research"}   \* per region, and lost when a generation ships

\* balance.ts
TierCost(tier, owned) == Balance.baseCost[tier] * (owned + 1)
HireCost(researchers) == Balance.hireBaseCost * (researchers + 1)
HireCap(reputation) == 1 + (reputation \div Balance.reputationPerHireSlot)
GenerationThreshold(gen) == Balance.baseProgress * gen
Previous(tier) == IF tier = "datacenter" THEN "rack" ELSE "gpu"

\* BREAKTHROUGH_NODES
MaxLevel(node) ==
  CASE node \in {"quantization", "synthetic-data", "scaling-laws"} -> 5
    [] node \in {"self-healing", "procurement"} -> 1
    [] node = "blueprints" -> 3
NodeCost(node, level) ==
  CASE node \in {"quantization", "synthetic-data", "scaling-laws"} -> 1 + level
    [] node \in {"self-healing", "procurement"} -> 2
    [] node = "blueprints" -> 2 + level

Larger(a, b) == IF a >= b THEN a ELSE b
Smaller(a, b) == IF a <= b THEN a ELSE b
Monus(a, b) == IF a >= b THEN a - b ELSE 0
Percent(amount, rate) == (amount * rate) \div 100

\* The amplifiers, in per cent.
RegionMultiplier(r) ==
  LET units(tier) == infrastructure[r][tier] * Balance.multiplier[tier] IN
  Percent(100 + units("gpu") + units("rack") + units("datacenter"),
          Larger(50, Monus(100, 8 * incidents[r])))
ConversionMultiplier == 100 + 20 * levels["quantization"]
ResearchMultiplier == 100 + 25 * levels["synthetic-data"]
LabMultiplier == 100 + 25 * lab.researchers + 25 * levels["scaling-laws"]

SumOver(amounts) == MapThenSumSet(LAMBDA r : amounts[r], Regions)

\* What one resource gains and loses in a step, in the balance and in the statistics.
Books(gain, loss) ==
  /\ resources' = [x \in Resources |-> (resources[x] + gain[x]) - loss[x]]
  /\ stats' = [stats EXCEPT !.earned = [x \in Resources |-> @[x] + gain[x]],
                            !.spent = [x \in Resources |-> @[x] + loss[x]]]

Nothing == [x \in Resources |-> 0]
Only(resource, amount) == [Nothing EXCEPT ![resource] = amount]

-----------------------------------------------------------------------------
\* Telemetry.  Every event of a session wakes its region, and founds it if it is new.
Arrives(r) ==
  /\ eventsProcessed < MaxEvents
  /\ eventsProcessed' = eventsProcessed + 1
  /\ status' = [status EXCEPT ![r] = "live"]

\* Mutant: a dark region, whose multipliers are suspended, is not credited either.
CreditsLiveOnly(r, resource, amount) ==
  totals' = IF status[r] = "dark" THEN totals ELSE [totals EXCEPT ![r][resource] = @ + amount]

Credits(r, resource, amount) == totals' = [totals EXCEPT ![r][resource] = @ + amount]

\* applyToolCall, a call that succeeded, by the class of its tool.
ToolCall(r, resource) ==
  LET gain == IF resource = "engineering" THEN Balance.perToolCall[resource]
              ELSE Percent(Balance.perToolCall[resource], ResearchMultiplier) IN
  /\ Arrives(r)
  /\ Books(Only(resource, gain), Nothing)
  /\ Credits(r, resource, gain)
  /\ UNCHANGED <<lab, generation, levels, infrastructure, incidents, lastIncidentAt, window,
                 turnAccrual, spawned, acked, writtenOff>>

IncidentAllowed(r, now) ==
  /\ incidents[r] < Balance.maxActivePerRegion
  /\ \/ lastIncidentAt[r] = 0
     \/ now >= lastIncidentAt[r] + Balance.minIntervalMs

\* applyToolCall of a failed call, spawnIncident.
ToolFailure(r, now) ==
  /\ Arrives(r)
  /\ IF ~IncidentAllowed(r, now)
     THEN UNCHANGED <<resources, stats, totals, incidents, lastIncidentAt, spawned, acked>>
     ELSE /\ spawned' = spawned + 1
          /\ lastIncidentAt' = [lastIncidentAt EXCEPT ![r] = now]
          /\ IF levels["self-healing"] >= 1
             THEN /\ acked' = acked + 1
                  /\ Books(Only("engineering", Balance.postMortem), Nothing)
                  /\ Credits(r, "engineering", Balance.postMortem)
                  /\ UNCHANGED incidents
             ELSE /\ incidents' = [incidents EXCEPT ![r] = @ + 1]
                  /\ UNCHANGED <<resources, stats, totals, acked>>
  /\ UNCHANGED <<lab, generation, levels, infrastructure, window, turnAccrual, writtenOff>>

\* The window an output counts in: a new one when the old one is over.
WindowAt(r, now) ==
  IF window[r].startMs = 0 \/ now > window[r].startMs + Balance.windowMs
  THEN [startMs |-> now, outputTokens |-> 0]
  ELSE window[r]

\* Tokens at full rate, and the rest at half (in the code at a falling rate below one).
Weighted(tokens, counted) ==
  LET full == Smaller(tokens, Monus(Balance.fullRateTokensPerWindow, counted)) IN
  full + (tokens - full) \div 2

\* What the bots pay for n GPUs on top of those owned.
BotsPay(owned, n) == Balance.baseCost["gpu"] * (n * owned + (n * (n + 1)) \div 2)

\* autoProcure: up to ten, each while the next can be paid.
Procured(compute, owned, n) ==
  IF levels["procurement"] < 1 THEN n = 0
  ELSE /\ BotsPay(owned, n) <= compute
       /\ n = 10 \/ BotsPay(owned, n + 1) > compute

\* applyTokenUsage
TokenUsage(r, tokens, now) ==
  LET current == WindowAt(r, now)
      gained == Percent(Percent(Weighted(tokens, current.outputTokens), RegionMultiplier(r)),
                        ConversionMultiplier)
      owned == infrastructure[r]["gpu"]
  IN /\ Arrives(r)
     /\ window' = [window EXCEPT ![r] = [current EXCEPT !.outputTokens = @ + tokens]]
     /\ turnAccrual' = [turnAccrual EXCEPT ![r] = @ + gained]
     /\ Credits(r, "compute", gained)
     /\ \E n \in 0..10 :
          /\ Procured(resources["compute"] + gained, owned, n)
          /\ Books(Only("compute", gained), Only("compute", BotsPay(owned, n)))
          /\ infrastructure' = [infrastructure EXCEPT ![r]["gpu"] = owned + n]
     /\ UNCHANGED <<lab, generation, levels, incidents, lastIncidentAt, spawned, acked, writtenOff>>

\* The prompt that begins a turn.
Prompt(r) ==
  /\ Arrives(r)
  /\ turnAccrual' = [turnAccrual EXCEPT ![r] = 0]
  /\ UNCHANGED <<resources, lab, generation, levels, infrastructure, incidents, lastIncidentAt,
                 window, totals, stats, spawned, acked, writtenOff>>

\* applyStop: the turn's bonus, and a cheer from every region that is not dark.
Stop(r) ==
  LET bonus == Percent(turnAccrual[r], 25)
      cheering == {o \in Regions : status[o] = "live" \/ (o = r /\ status[o] = "none")}
      cheer == Balance.stopAllRegionBonus
  IN /\ Arrives(r)
     /\ turnAccrual' = [turnAccrual EXCEPT ![r] = 0]
     /\ Books([Nothing EXCEPT !["compute"] = bonus + cheer * Cardinality(cheering),
                              !["reputation"] = 1], Nothing)
     /\ totals' = [o \in Regions |->
          [totals[o] EXCEPT !["compute"] = @ + (IF o \in cheering THEN cheer ELSE 0)
                                             + (IF o = r THEN bonus ELSE 0)]]
     /\ UNCHANGED <<lab, generation, levels, infrastructure, incidents, lastIncidentAt, window,
                    spawned, acked, writtenOff>>

\* Mutant: a run takes its price in data whether or not the lab has it.
TrainingTakesPrice(research) == Balance.trainingDataCost

\* A training run takes what data there is, up to its price.
DataConsumed(research) == Smaller(research, Balance.trainingDataCost)

\* applyTrainingRun
TrainingRun(r) ==
  LET consumed == DataConsumed(resources["research"])
      efficiency == 25 + (75 * consumed) \div Balance.trainingDataCost
      payout == Percent(Percent(Percent(Balance.trainingCompute, efficiency), RegionMultiplier(r)),
                        ConversionMultiplier)
  IN /\ Arrives(r)
     /\ lab' = [lab EXCEPT !.modelProgress =
                  @ + Percent(Percent(Balance.trainingProgress, efficiency), LabMultiplier)]
     /\ Books(Only("compute", payout), Only("research", consumed))
     /\ Credits(r, "compute", payout)
     /\ UNCHANGED <<generation, levels, infrastructure, incidents, lastIncidentAt, window,
                    turnAccrual, spawned, acked, writtenOff>>

\* An event the economy only counts.
OtherEvent(r) ==
  /\ Arrives(r)
  /\ UNCHANGED <<resources, lab, generation, levels, infrastructure, incidents, lastIncidentAt,
                 window, turnAccrual, totals, stats, spawned, acked, writtenOff>>

\* applySessionState: the last session of a region ends or goes stale.
GoesDark(r) ==
  /\ status[r] = "live"
  /\ status' = [status EXCEPT ![r] = "dark"]
  /\ UNCHANGED <<resources, lab, generation, levels, infrastructure, incidents, lastIncidentAt,
                 window, turnAccrual, totals, stats, spawned, acked, eventsProcessed, writtenOff>>

-----------------------------------------------------------------------------
\* The player's actions.  One that is refused only narrates.
\* requiresPrevious: the tier below must carry one more unit.
Supports(r, tier) ==
  \/ tier = "gpu"
  \/ infrastructure[r][Previous(tier)] >= Balance.requiresPrevious[tier] * (infrastructure[r][tier] + 1)

\* actionBuy
Buy(r, tier) ==
  LET cost == TierCost(tier, infrastructure[r][tier]) IN
  /\ status[r] # "none"
  /\ Supports(r, tier)
  /\ resources["compute"] >= cost
  /\ Books(Nothing, Only("compute", cost))
  /\ infrastructure' = [infrastructure EXCEPT ![r][tier] = @ + 1]
  /\ UNCHANGED <<lab, generation, levels, incidents, lastIncidentAt, window, turnAccrual, status,
                 totals, spawned, acked, eventsProcessed, writtenOff>>

\* actionHire
Hire ==
  LET cost == HireCost(lab.researchers) IN
  /\ lab.researchers < HireCap(resources["reputation"])
  /\ resources["engineering"] >= cost
  /\ Books(Nothing, Only("engineering", cost))
  /\ lab' = [lab EXCEPT !.researchers = @ + 1]
  /\ UNCHANGED <<generation, levels, perRegion, spawned, acked, eventsProcessed, writtenOff>>

\* actionExperiment
Experiment ==
  /\ resources["research"] >= Balance.experimentDataCost
  /\ resources["engineering"] >= Balance.experimentEngineeringCost
  /\ Books(Nothing, [Nothing EXCEPT !["research"] = Balance.experimentDataCost,
                                    !["engineering"] = Balance.experimentEngineeringCost])
  /\ lab' = [lab EXCEPT !.modelProgress = @ + Percent(Balance.experimentProgress, LabMultiplier)]
  /\ UNCHANGED <<generation, levels, perRegion, spawned, acked, eventsProcessed, writtenOff>>

\* actionAckIncident
AckIncident(r) ==
  /\ incidents[r] > 0
  /\ incidents' = [incidents EXCEPT ![r] = @ - 1]
  /\ acked' = acked + 1
  /\ Books(Only("engineering", Balance.postMortem), Nothing)
  /\ Credits(r, "engineering", Balance.postMortem)
  /\ UNCHANGED <<lab, generation, levels, infrastructure, lastIncidentAt, window, turnAccrual,
                 status, spawned, eventsProcessed, writtenOff>>

\* Mutant: shipping keeps the units of the upper tiers.
ShippedKeepsRacks(r) == [infrastructure[r] EXCEPT !["gpu"] = 4 * levels["blueprints"]]

\* What a new generation starts with.
ShippedInfrastructure(r) ==
  [tier \in Tiers |-> IF tier = "gpu" THEN 4 * levels["blueprints"] ELSE 0]

\* Breakthroughs for shipping, and for overshooting the threshold.
ShipEarns ==
  Balance.breakthroughsPerShip
    + Smaller(Balance.overshootBonusCap,
              Monus(lab.modelProgress \div GenerationThreshold(generation), 1))

\* Mutant: the breakthroughs go with the rest.
LostWhenShippingAll == Resources

LostWhenShipping == Earnable

\* actionShipGeneration
ShipGeneration ==
  /\ lab.modelProgress >= GenerationThreshold(generation)
  /\ generation' = generation + 1
  /\ LET earned == [resources EXCEPT !["breakthroughs"] = @ + ShipEarns] IN
     /\ resources' = [x \in Resources |-> IF x \in LostWhenShipping THEN 0 ELSE earned[x]]
     /\ stats' = [stats EXCEPT !.earned["breakthroughs"] = @ + ShipEarns]
     /\ writtenOff' = [x \in DOMAIN writtenOff |->
          writtenOff[x] + (CASE x \in LostWhenShipping -> earned[x]
                             [] x = "incidents" -> SumOver(incidents)
                             [] OTHER -> 0)]
  /\ lab' = [researchers |-> 0, modelProgress |-> 0]
  /\ infrastructure' = [r \in Regions |->
       IF status[r] = "none" THEN infrastructure[r] ELSE ShippedInfrastructure(r)]
  /\ incidents' = [r \in Regions |-> 0]
  /\ window' = [r \in Regions |-> [startMs |-> 0, outputTokens |-> 0]]
  /\ turnAccrual' = [r \in Regions |-> 0]
  /\ lastIncidentAt' = [r \in Regions |-> 0]
  /\ UNCHANGED <<levels, status, totals, spawned, acked, eventsProcessed>>

\* Mutant: a node is sold past its maximum.
BuyBreakthroughUncapped(node) ==
  LET cost == NodeCost(node, levels[node]) IN
  /\ resources["breakthroughs"] >= cost
  /\ Books(Nothing, Only("breakthroughs", cost))
  /\ levels' = [levels EXCEPT ![node] = @ + 1]
  /\ UNCHANGED <<lab, generation, perRegion, spawned, acked, eventsProcessed, writtenOff>>

\* actionBuyBreakthrough
BuyBreakthrough(node) ==
  LET cost == NodeCost(node, levels[node]) IN
  /\ levels[node] < MaxLevel(node)
  /\ resources["breakthroughs"] >= cost
  /\ Books(Nothing, Only("breakthroughs", cost))
  /\ levels' = [levels EXCEPT ![node] = @ + 1]
  /\ UNCHANGED <<lab, generation, perRegion, spawned, acked, eventsProcessed, writtenOff>>

-----------------------------------------------------------------------------
\* view.ts: the buttons the mod's pane leaves bright, by its own copy of the rules.
\* infraActions
InfraReady(r, tier) == resources["compute"] >= TierCost(tier, infrastructure[r][tier])

\* Mutant: the cap on the staff is the engine's business only.
LabReadyUncapped ==
  [h |-> resources["engineering"] >= HireCost(lab.researchers),
   e |-> /\ resources["research"] >= Balance.experimentDataCost
         /\ resources["engineering"] >= Balance.experimentEngineeringCost,
   s |-> lab.modelProgress >= GenerationThreshold(generation)]

\* labView, by hotkey
LabReady ==
  [h |-> /\ lab.researchers < HireCap(resources["reputation"])
         /\ resources["engineering"] >= HireCost(lab.researchers),
   e |-> /\ resources["research"] >= Balance.experimentDataCost
         /\ resources["engineering"] >= Balance.experimentEngineeringCost,
   s |-> lab.modelProgress >= GenerationThreshold(generation)]

\* breakthroughRows
BreakthroughReady(node) ==
  levels[node] < MaxLevel(node) /\ resources["breakthroughs"] >= NodeCost(node, levels[node])

\* The hints of nextStep, the more urgent first.
Hints(r) ==
  LET noSource == lab.researchers > 0 /\ lab.modelProgress = 0 IN
  << [move |-> "a", due |-> incidents[r] > 0],
     [move |-> "g", due |-> infrastructure[r]["gpu"] = 0 /\ InfraReady(r, "gpu")],
     [move |-> "h", due |-> lab.researchers = 0 /\ LabReady.h],
     [move |-> "s", due |-> LabReady.s],
     [move |-> "e", due |-> noSource /\ LabReady.e],
     [move |-> "subagent", due |-> noSource /\ resources["research"] < Balance.experimentDataCost] >>

\* nextStep: the one move worth making next.
NextStep(r) ==
  LET hints == Hints(r)
      due == {i \in DOMAIN hints : hints[i].due}
  IN IF due = {} THEN "none" ELSE hints[Min(due)].move

-----------------------------------------------------------------------------
Init ==
  /\ resources = Nothing
  /\ lab = [researchers |-> 0, modelProgress |-> 0]
  /\ generation = 1
  /\ levels = [node \in Nodes |-> 0]
  /\ infrastructure = [r \in Regions |-> [tier \in Tiers |-> 0]]
  /\ incidents = [r \in Regions |-> 0]
  /\ lastIncidentAt = [r \in Regions |-> 0]
  /\ window = [r \in Regions |-> [startMs |-> 0, outputTokens |-> 0]]
  /\ turnAccrual = [r \in Regions |-> 0]
  /\ status = [r \in Regions |-> "none"]
  /\ totals = [r \in Regions |-> [x \in Earnable |-> 0]]
  /\ stats = [earned |-> Nothing, spent |-> Nothing]
  /\ spawned = 0 /\ acked = 0 /\ eventsProcessed = 0
  /\ writtenOff = [x \in Resources \cup {"incidents"} |-> 0]

\* applyAction: what the player may do.
PlayerAction ==
  \/ \E r \in Regions : AckIncident(r) \/ \E tier \in Tiers : Buy(r, tier)
  \/ Hire \/ Experiment \/ ShipGeneration
  \/ \E node \in Wanted : BuyBreakthrough(node)

Next ==
  \/ \E r \in Regions :
       \/ \E resource \in {"engineering", "research"} : ToolCall(r, resource)
       \/ \E now \in Times : ToolFailure(r, now)
       \/ \E now \in Times, tokens \in Tokens : TokenUsage(r, tokens, now)
       \/ Prompt(r) \/ Stop(r) \/ TrainingRun(r) \/ OtherEvent(r) \/ GoesDark(r)
  \/ PlayerAction

Spec == Init /\ [][Next]_vars

-----------------------------------------------------------------------------
(* What the save schema (state.ts) demands of every number: none is        *)
(* negative, or the next load rejects the whole save.                      *)
TypeOK ==
  /\ resources \in [Resources -> Nat]
  /\ lab \in [researchers : Nat, modelProgress : Nat]
  /\ generation \in Positive
  /\ levels \in [Nodes -> Nat]
  /\ infrastructure \in [Regions -> [Tiers -> Nat]]
  /\ incidents \in [Regions -> 0..Balance.maxActivePerRegion]
  /\ lastIncidentAt \in [Regions -> Nat]
  /\ window \in [Regions -> [startMs : Nat, outputTokens : Nat]]
  /\ turnAccrual \in [Regions -> Nat]
  /\ status \in [Regions -> {"none", "live", "dark"}]
  /\ totals \in [Regions -> [Earnable -> Nat]]
  /\ stats \in [earned : [Resources -> Nat], spent : [Resources -> Nat]]
  /\ spawned \in Nat /\ acked \in Nat /\ eventsProcessed \in Nat
  /\ writtenOff \in [Resources \cup {"incidents"} -> Nat]

(* What a purchase required when it was made holds for ever: each rack and *)
(* datacenter rests on enough units of the tier below, whatever is         *)
(* procured, shipped or seeded, and the lab employs no more researchers    *)
(* than its reputation allows (actionBuy, autoProcure, actionHire,         *)
(* actionShipGeneration).                                                  *)
GatesHold ==
  /\ \A r \in Regions : \A tier \in {"rack", "datacenter"} :
       infrastructure[r][Previous(tier)] >= Balance.requiresPrevious[tier] * infrastructure[r][tier]
  /\ lab.researchers <= HireCap(resources["reputation"])

(* A resource is what was earned of it, less what was spent and what       *)
(* shipping has written off; reputation and breakthroughs are never        *)
(* written off.                                                            *)
BooksBalance ==
  /\ \A x \in Resources : resources[x] + stats.spent[x] + writtenOff[x] = stats.earned[x]
  /\ writtenOff["reputation"] = 0 /\ writtenOff["breakthroughs"] = 0

(* The regions add up to the laboratory: they have earned together what it *)
(* has earned, and every incident is active in one of them, acknowledged   *)
(* once (by the player or by the self-healing breakthrough) or dropped by  *)
(* shipping, and none twice.                                               *)
RegionsAddUp ==
  /\ \A x \in Earnable : SumOver([r \in Regions |-> totals[r][x]]) = stats.earned[x]
  /\ spawned = acked + SumOver(incidents) + writtenOff["incidents"]

CostOfLevels(node) == MapThenSumSet(LAMBDA l : NodeCost(node, l), 0..(levels[node] - 1))

(* Every breakthrough spent bought a level that the laboratory still has,  *)
(* and no node is past its maximum: prestige takes neither away.           *)
LevelsArePaid ==
  /\ \A node \in Nodes : levels[node] <= MaxLevel(node)
  /\ stats.spent["breakthroughs"] = MapThenSumSet(CostOfLevels, Nodes)

(* The pane's copy of the rules (view.ts) agrees with the engine: what is   *)
(* bright for the lab and the breakthroughs is what the engine accepts, no *)
(* purchase it accepts is dim, and the move the pane names next is one the *)
(* engine would not refuse ("it never points at a dim one"), the advice to *)
(* use a subagent one that makes progress.                                 *)
PaneAgrees ==
  /\ LabReady.h <=> ENABLED Hire
  /\ LabReady.e <=> ENABLED Experiment
  /\ LabReady.s <=> ENABLED ShipGeneration
  /\ \A node \in Nodes : BreakthroughReady(node) <=> ENABLED BuyBreakthrough(node)
  /\ \A r \in Regions : status[r] # "none" =>
       /\ \A tier \in Tiers : ENABLED Buy(r, tier) => InfraReady(r, tier)
       /\ LET move == NextStep(r) IN
          CASE move = "a" -> ENABLED AckIncident(r)
            [] move = "g" -> ENABLED Buy(r, "gpu")
            [] move = "h" -> ENABLED Hire
            [] move = "e" -> ENABLED Experiment
            [] move = "s" -> ENABLED ShipGeneration
            [] move = "subagent" ->
                 eventsProcessed < MaxEvents => ENABLED (TrainingRun(r) /\ lab'.modelProgress > 0)
            [] OTHER -> TRUE
=============================================================================
