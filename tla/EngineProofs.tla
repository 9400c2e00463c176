---------------------------- MODULE EngineProofs ----------------------------
(***************************************************************************)
(* Theorems about the game engine. GameEconomy, for any balance, regions,  *)
(* telemetry and bounds: its types (nothing is ever overdrawn), what       *)
(* purchases rest on, that every book balances, that the regions add up to *)
(* the laboratory, and that the breakthroughs spent are the levels owned.  *)
(* RegionLife, for any sessions, directories and tokens: its types, that a *)
(* region's status is what its sessions make it, that the region of a      *)
(* working session is hot, and that no output token is paid a completion   *)
(* bonus twice.                                                            *)
(***************************************************************************)
EXTENDS GameEconomy, RegionLife, SumFacts, TLAPS

(***************************************************************************)
(* GameEconomy                                                             *)
(***************************************************************************)

-----------------------------------------------------------------------------
(* Prices and rates                                                        *)

LEMMA BalanceTypes ==
  /\ \A tier \in Tiers : /\ Balance.baseCost[tier] \in Nat \ {0}
                         /\ Balance.requiresPrevious[tier] \in Nat
                         /\ Balance.multiplier[tier] \in Nat
  /\ Balance.stopAllRegionBonus \in Nat /\ Balance.postMortem \in Nat
  /\ Balance.perToolCall["engineering"] \in Nat /\ Balance.perToolCall["research"] \in Nat
  /\ Balance.hireBaseCost \in Nat \ {0} /\ Balance.reputationPerHireSlot \in Nat \ {0}
  /\ Balance.experimentDataCost \in Nat /\ Balance.experimentEngineeringCost \in Nat
  /\ Balance.experimentProgress \in Nat /\ Balance.trainingDataCost \in Nat \ {0}
  /\ Balance.trainingProgress \in Nat /\ Balance.trainingCompute \in Nat
  /\ Balance.baseProgress \in Nat \ {0} /\ Balance.breakthroughsPerShip \in Nat
  /\ Balance.overshootBonusCap \in Nat /\ Balance.maxActivePerRegion \in Nat
  /\ Balance.fullRateTokensPerWindow \in Nat /\ Balance.windowMs \in Nat
BY EconomyAssumption DEF EconomyAssumption, Positive

LEMMA ProductType ==
  ASSUME NEW a \in Nat, NEW b \in Nat
  PROVE  a * b \in Nat
OBVIOUS

LEMMA QuotientType ==
  ASSUME NEW a \in Nat, NEW b \in Nat \ {0}
  PROVE  a \div b \in Nat
OBVIOUS

LEMMA QuotientGrows ==
  ASSUME NEW a \in Nat, NEW c \in Nat, a <= c, NEW b \in Nat \ {0}
  PROVE  a \div b <= c \div b
OBVIOUS

LEMMA PercentType ==
  ASSUME NEW amount \in Nat, NEW rate \in Nat
  PROVE  Percent(amount, rate) \in Nat
BY ProductType DEF Percent

LEMMA ResourceNames ==
  /\ "compute" \in Resources /\ "engineering" \in Resources /\ "research" \in Resources
  /\ "reputation" \in Resources /\ "breakthroughs" \in Resources /\ "incidents" \notin Resources
  /\ Earnable \subseteq Resources /\ "reputation" \notin Earnable /\ "breakthroughs" \notin Earnable
BY DEF Resources, Earnable

LEMMA TierNames ==
  /\ "gpu" \in Tiers /\ "rack" \in Tiers /\ "datacenter" \in Tiers
  /\ \A tier \in Tiers : (Previous(tier) \in Tiers /\ Previous(tier) # tier) \/ tier = "gpu"
BY DEF Tiers, Previous

LEMMA PriceTypes ==
  /\ \A tier \in Tiers, owned \in Nat : TierCost(tier, owned) \in Nat
  /\ \A researchers \in Nat : HireCost(researchers) \in Nat
  /\ \A reputation \in Nat : HireCap(reputation) \in Nat
  /\ \A gen \in Positive : GenerationThreshold(gen) \in Nat \ {0}
  /\ \A node \in Nodes, level \in Nat : NodeCost(node, level) \in Nat
<1>1. \A tier \in Tiers, owned \in Nat : TierCost(tier, owned) \in Nat
  <2> SUFFICES ASSUME NEW tier \in Tiers, NEW owned \in Nat PROVE TierCost(tier, owned) \in Nat
    OBVIOUS
  <2>1. Balance.baseCost[tier] \in Nat /\ owned + 1 \in Nat
    BY BalanceTypes
  <2> QED  BY <2>1, ProductType DEF TierCost
<1>2. \A researchers \in Nat : HireCost(researchers) \in Nat
  <2> SUFFICES ASSUME NEW researchers \in Nat PROVE HireCost(researchers) \in Nat
    OBVIOUS
  <2>1. Balance.hireBaseCost \in Nat /\ researchers + 1 \in Nat
    BY BalanceTypes
  <2> QED  BY <2>1, ProductType DEF HireCost
<1>3. \A reputation \in Nat : HireCap(reputation) \in Nat
  <2> SUFFICES ASSUME NEW reputation \in Nat PROVE HireCap(reputation) \in Nat
    OBVIOUS
  <2>1. reputation \div Balance.reputationPerHireSlot \in Nat
    BY BalanceTypes, QuotientType
  <2> QED  BY <2>1 DEF HireCap
<1>4. \A gen \in Positive : GenerationThreshold(gen) \in Nat \ {0}
  <2> SUFFICES ASSUME NEW gen \in Positive PROVE GenerationThreshold(gen) \in Nat \ {0}
    OBVIOUS
  <2>1. \A a \in Nat \ {0}, b \in Nat \ {0} : a * b \in Nat \ {0}
    OBVIOUS
  <2> QED  BY <2>1, BalanceTypes DEF GenerationThreshold, Positive
<1>5. \A node \in Nodes, level \in Nat : NodeCost(node, level) \in Nat
  BY DEF NodeCost, Nodes
<1> QED  BY <1>1, <1>2, <1>3, <1>4, <1>5

LEMMA Least ==
  ASSUME NEW a \in Nat, NEW b \in Nat
  PROVE  /\ Larger(a, b) \in Nat /\ Smaller(a, b) \in Nat /\ Monus(a, b) \in Nat
         /\ Smaller(a, b) <= a /\ Smaller(a, b) <= b
BY DEF Larger, Smaller, Monus

LEMMA AmplifierTypes ==
  ASSUME TypeOK
  PROVE  /\ ConversionMultiplier \in Nat /\ ResearchMultiplier \in Nat /\ LabMultiplier \in Nat
         /\ \A r \in Regions : RegionMultiplier(r) \in Nat
<1>1. /\ levels["quantization"] \in Nat /\ levels["synthetic-data"] \in Nat
      /\ levels["scaling-laws"] \in Nat /\ lab.researchers \in Nat
  BY DEF TypeOK, Nodes
<1>2. ConversionMultiplier \in Nat /\ ResearchMultiplier \in Nat /\ LabMultiplier \in Nat
  BY <1>1 DEF ConversionMultiplier, ResearchMultiplier, LabMultiplier
<1>3. ASSUME NEW r \in Regions PROVE RegionMultiplier(r) \in Nat
  <2> DEFINE units(tier) == infrastructure[r][tier] * Balance.multiplier[tier]
  <2>1. \A tier \in Tiers : units(tier) \in Nat
    <3>1. \A tier \in Tiers : infrastructure[r][tier] \in Nat /\ Balance.multiplier[tier] \in Nat
      BY BalanceTypes DEF TypeOK
    <3> QED  BY <3>1, ProductType
  <2>2. 8 * incidents[r] \in Nat
    BY DEF TypeOK
  <2>3. Larger(50, Monus(100, 8 * incidents[r])) \in Nat
    <3>1. 100 \in Nat /\ 50 \in Nat
      OBVIOUS
    <3>2. Monus(100, 8 * incidents[r]) \in Nat
      BY <2>2, <3>1, Least
    <3> QED  BY <3>1, <3>2, Least
  <2>4. units("gpu") \in Nat /\ units("rack") \in Nat /\ units("datacenter") \in Nat
    BY <2>1, TierNames
  <2> DEFINE total == 100 + units("gpu") + units("rack") + units("datacenter")
  <2>5. RegionMultiplier(r) = Percent(total, Larger(50, Monus(100, 8 * incidents[r])))
    BY DEF RegionMultiplier
  <2>6. total \in Nat
    <3> HIDE DEF units
    <3> QED  BY <2>4
  <2> HIDE DEF total
  <2> QED  BY <2>3, <2>5, <2>6, PercentType
<1> QED  BY <1>2, <1>3

\* The window of an output and the tokens it counts for are well typed.
LEMMA OutputTypes ==
  ASSUME TypeOK, NEW r \in Regions, NEW now \in Times, NEW tokens \in Tokens
  PROVE  /\ WindowAt(r, now) \in [startMs : Nat, outputTokens : Nat]
         /\ Weighted(tokens, WindowAt(r, now).outputTokens) \in Nat
         /\ tokens \in Nat
<1>1. now \in Nat /\ tokens \in Nat
  BY EconomyAssumption DEF EconomyAssumption, Positive
<1>2. WindowAt(r, now) \in [startMs : Nat, outputTokens : Nat]
  BY <1>1 DEF WindowAt, TypeOK
<1> DEFINE counted == WindowAt(r, now).outputTokens
           full == Smaller(tokens, Monus(Balance.fullRateTokensPerWindow, counted))
<1>3. counted \in Nat
  BY <1>2
<1> HIDE DEF counted
<1>4. full \in Nat /\ full <= tokens
  BY <1>1, <1>3, BalanceTypes, Least
<1> HIDE DEF full
<1>5. full + (tokens - full) \div 2 \in Nat
  BY <1>1, <1>4
<1>6. Weighted(tokens, counted) \in Nat
  BY <1>5 DEF Weighted, full
<1> QED  BY <1>1, <1>2, <1>6 DEF counted

\* What the bots pay is a price, and nothing when they buy nothing.
LEMMA BotsPayType ==
  ASSUME NEW owned \in Nat, NEW n \in Nat
  PROVE  BotsPay(owned, n) \in Nat /\ BotsPay(owned, 0) = 0
<1>1. Balance.baseCost["gpu"] \in Nat
  BY BalanceTypes, TierNames
<1>2. n * owned \in Nat /\ n * (n + 1) \in Nat
  BY ProductType
<1>3. n * owned + (n * (n + 1)) \div 2 \in Nat
  BY <1>2, QuotientType
<1>4. BotsPay(owned, n) \in Nat
  BY <1>1, <1>3, ProductType DEF BotsPay
<1>5. 0 * owned = 0 /\ (0 * (0 + 1)) \div 2 = 0
  OBVIOUS
<1>6. BotsPay(owned, 0) = Balance.baseCost["gpu"] * 0
  BY <1>5 DEF BotsPay
<1>7. Balance.baseCost["gpu"] * 0 = 0
  BY <1>1
<1> QED  BY <1>4, <1>6, <1>7

-----------------------------------------------------------------------------
(* What a step earns and spends                                            *)

\* A step settles: it spends no more than there is with what it earns.
Settles(gain, loss) ==
  /\ gain \in [Resources -> Nat] /\ loss \in [Resources -> Nat]
  /\ \A x \in Resources : loss[x] <= resources[x] + gain[x]
  /\ Books(gain, loss)

\* A step that trades writes nothing off, spends no reputation, and spends
\* breakthroughs on levels only.
Trades ==
  /\ UNCHANGED writtenOff
  /\ \E gain, loss :
       /\ Settles(gain, loss)
       /\ loss["reputation"] = 0
       /\ UNCHANGED levels => loss["breakthroughs"] = 0

LEMMA AmountTypes ==
  /\ Nothing \in [Resources -> Nat] /\ \A x \in Resources : Nothing[x] = 0
  /\ \A resource \in Resources, amount \in Nat :
       /\ Only(resource, amount) \in [Resources -> Nat]
       /\ Only(resource, amount)[resource] = amount
       /\ \A x \in Resources \ {resource} : Only(resource, amount)[x] = 0
<1>1. Nothing \in [Resources -> Nat] /\ \A x \in Resources : Nothing[x] = 0
  BY DEF Nothing
<1> QED  BY <1>1 DEF Only

LEMMA Settlement ==
  ASSUME TypeOK, NEW gain, NEW loss, Settles(gain, loss)
  PROVE  /\ resources' \in [Resources -> Nat]
         /\ stats' \in [earned : [Resources -> Nat], spent : [Resources -> Nat]]
         /\ \A x \in Resources : /\ resources'[x] = (resources[x] + gain[x]) - loss[x]
                                 /\ stats'.earned[x] = stats.earned[x] + gain[x]
                                 /\ stats'.spent[x] = stats.spent[x] + loss[x]
<1>1. \A x \in Resources : /\ gain[x] \in Nat /\ loss[x] \in Nat /\ loss[x] <= resources[x] + gain[x]
                           /\ resources[x] \in Nat
                           /\ stats.earned[x] \in Nat /\ stats.spent[x] \in Nat
  BY DEF Settles, TypeOK
<1>2. resources' = [x \in Resources |-> (resources[x] + gain[x]) - loss[x]]
  BY DEF Settles, Books
<1>3. \A x \in Resources : resources'[x] = (resources[x] + gain[x]) - loss[x]
  BY <1>2
<1>4. \A x \in Resources : (resources[x] + gain[x]) - loss[x] \in Nat
  BY <1>1
<1>5. resources' \in [Resources -> Nat]
  BY <1>2, <1>4
<1>6. stats' = [earned |-> [x \in Resources |-> stats.earned[x] + gain[x]],
                spent |-> [x \in Resources |-> stats.spent[x] + loss[x]]]
  BY DEF Settles, Books, TypeOK
<1>7. \A x \in Resources : stats.earned[x] + gain[x] \in Nat /\ stats.spent[x] + loss[x] \in Nat
  BY <1>1
<1>8. /\ stats' \in [earned : [Resources -> Nat], spent : [Resources -> Nat]]
      /\ \A x \in Resources : /\ stats'.earned[x] = stats.earned[x] + gain[x]
                              /\ stats'.spent[x] = stats.spent[x] + loss[x]
  BY <1>6, <1>7
<1> QED  BY <1>3, <1>5, <1>8

\* A step that only earns settles.
LEMMA EarningSettles ==
  ASSUME TypeOK, NEW gain \in [Resources -> Nat], Books(gain, Nothing), UNCHANGED writtenOff
  PROVE  Settles(gain, Nothing) /\ Trades
<1>1. \A x \in Resources : resources[x] \in Nat /\ gain[x] \in Nat /\ Nothing[x] = 0
  BY AmountTypes DEF TypeOK
<1>2. Settles(gain, Nothing)
  BY <1>1, AmountTypes DEF Settles
<1> QED  BY <1>2, AmountTypes, ResourceNames DEF Trades

\* Spending one resource that there is enough of settles.
LEMMA SpendingSettles ==
  ASSUME TypeOK, NEW resource \in Resources, NEW amount \in Nat, amount <= resources[resource],
         Books(Nothing, Only(resource, amount)), UNCHANGED writtenOff, resource # "reputation",
         resource = "breakthroughs" => levels' # levels
  PROVE  Settles(Nothing, Only(resource, amount)) /\ Trades
<1>1. \A x \in Resources : resources[x] \in Nat /\ Nothing[x] = 0
  BY AmountTypes DEF TypeOK
<1>2. /\ Only(resource, amount)[resource] = amount
      /\ \A x \in Resources \ {resource} : Only(resource, amount)[x] = 0
      /\ Only(resource, amount) \in [Resources -> Nat]
  BY AmountTypes
<1>3. \A x \in Resources : Only(resource, amount)[x] <= resources[x] + Nothing[x]
  BY <1>1, <1>2
<1>4. Settles(Nothing, Only(resource, amount))
  BY <1>2, <1>3, AmountTypes DEF Settles
<1>5. Only(resource, amount)["reputation"] = 0
  BY <1>2, ResourceNames
<1>6. UNCHANGED levels => Only(resource, amount)["breakthroughs"] = 0
  BY <1>2, ResourceNames
<1> QED  BY <1>4, <1>5, <1>6 DEF Trades

\* A step that leaves the books alone settles.
LEMMA IdleSettles ==
  ASSUME TypeOK, UNCHANGED <<resources, stats, writtenOff>>
  PROVE  Settles(Nothing, Nothing) /\ Trades
<1>1. /\ \A x \in Resources : resources[x] \in Nat /\ Nothing[x] = 0 /\ stats.earned[x] \in Nat
                              /\ stats.spent[x] \in Nat
      /\ resources \in [Resources -> Nat] /\ stats.earned \in [Resources -> Nat]
      /\ stats.spent \in [Resources -> Nat] /\ stats = [earned |-> stats.earned, spent |-> stats.spent]
  BY AmountTypes DEF TypeOK
<1>2. resources' = [x \in Resources |-> (resources[x] + Nothing[x]) - Nothing[x]]
  BY <1>1
<1>3. /\ stats.earned = [x \in Resources |-> stats.earned[x] + Nothing[x]]
      /\ stats.spent = [x \in Resources |-> stats.spent[x] + Nothing[x]]
  BY <1>1
<1>4. stats' = [stats EXCEPT !.earned = [x \in Resources |-> @[x] + Nothing[x]],
                             !.spent = [x \in Resources |-> @[x] + Nothing[x]]]
  BY <1>1, <1>3
<1>5. Books(Nothing, Nothing)
  BY <1>2, <1>4 DEF Books
<1> QED  BY <1>5, AmountTypes, EarningSettles

LEMMA ArrivesTypes ==
  ASSUME TypeOK, NEW r \in Regions, Arrives(r)
  PROVE  /\ eventsProcessed' \in Nat
         /\ status' \in [Regions -> {"none", "live", "dark"}]
BY DEF TypeOK, Arrives

LEMMA CreditsTypes ==
  ASSUME TypeOK, NEW r \in Regions, NEW resource \in Earnable, NEW amount \in Nat,
         Credits(r, resource, amount)
  PROVE  /\ totals' \in [Regions -> [Earnable -> Nat]]
         /\ \A o \in Regions, x \in Earnable :
              totals'[o][x] = totals[o][x] + (IF o = r /\ x = resource THEN amount ELSE 0)
<1>1. totals \in [Regions -> [Earnable -> Nat]]
  BY DEF TypeOK
<1>2. totals' = [totals EXCEPT ![r][resource] = totals[r][resource] + amount]
  BY DEF Credits
<1>3. totals' \in [Regions -> [Earnable -> Nat]]
  BY <1>1, <1>2
<1>4. \A o \in Regions, x \in Earnable : totals[o][x] \in Nat
  BY <1>1
<1>5. ASSUME NEW o \in Regions, NEW x \in Earnable
      PROVE  totals'[o][x] = totals[o][x] + (IF o = r /\ x = resource THEN amount ELSE 0)
  BY <1>1, <1>2, <1>4
<1> QED  BY <1>3, <1>5

-----------------------------------------------------------------------------
(* Every step but shipping is well typed and trades.  The amounts of the   *)
(* steps that more than one proof needs:                                   *)

CallGain(resource) ==
  IF resource = "engineering" THEN Balance.perToolCall[resource]
  ELSE Percent(Balance.perToolCall[resource], ResearchMultiplier)

OutputGain(r, tokens, now) ==
  Percent(Percent(Weighted(tokens, WindowAt(r, now).outputTokens), RegionMultiplier(r)),
          ConversionMultiplier)

Cheering(r) == {o \in Regions : status[o] = "live" \/ (o = r /\ status[o] = "none")}
StopBonus(r) == Percent(turnAccrual[r], 25)
StopGain(r) == StopBonus(r) + Balance.stopAllRegionBonus * Cardinality(Cheering(r))

RunEfficiency == 25 + (75 * DataConsumed(resources["research"])) \div Balance.trainingDataCost
RunPayout(r) ==
  Percent(Percent(Percent(Balance.trainingCompute, RunEfficiency), RegionMultiplier(r)),
          ConversionMultiplier)

LEMMA GainTypes ==
  ASSUME TypeOK, NEW r \in Regions
  PROVE  /\ \A resource \in {"engineering", "research"} : CallGain(resource) \in Nat
         /\ \A now \in Times, tokens \in Tokens : OutputGain(r, tokens, now) \in Nat
         /\ IsFiniteSet(Cheering(r)) /\ Cardinality(Cheering(r)) \in Nat
         /\ StopBonus(r) \in Nat /\ StopGain(r) \in Nat
         /\ RunEfficiency \in Nat /\ RunPayout(r) \in Nat
         /\ DataConsumed(resources["research"]) \in Nat
         /\ DataConsumed(resources["research"]) <= resources["research"]
<1>1. \A resource \in {"engineering", "research"} : CallGain(resource) \in Nat
  <2>1. Percent(Balance.perToolCall["research"], ResearchMultiplier) \in Nat
    BY AmplifierTypes, BalanceTypes, PercentType
  <2> QED  BY <2>1, BalanceTypes DEF CallGain
<1>2. ASSUME NEW now \in Times, NEW tokens \in Tokens PROVE OutputGain(r, tokens, now) \in Nat
  <2>1. Weighted(tokens, WindowAt(r, now).outputTokens) \in Nat
    BY OutputTypes
  <2>2. Percent(Weighted(tokens, WindowAt(r, now).outputTokens), RegionMultiplier(r)) \in Nat
    BY <2>1, AmplifierTypes, PercentType
  <2> QED  BY <2>2, AmplifierTypes, PercentType DEF OutputGain
<1>3. IsFiniteSet(Cheering(r)) /\ Cardinality(Cheering(r)) \in Nat
  <2>1. Cheering(r) \in SUBSET Regions /\ IsFiniteSet(Regions)
    BY EconomyAssumption DEF Cheering, EconomyAssumption
  <2> QED  BY <2>1, FS_Subset, FS_CardinalityType
<1>4. StopBonus(r) \in Nat /\ StopGain(r) \in Nat
  <2>1. turnAccrual[r] \in Nat /\ 25 \in Nat
    BY DEF TypeOK
  <2>2. StopBonus(r) \in Nat
    BY <2>1, PercentType DEF StopBonus
  <2>3. Balance.stopAllRegionBonus * Cardinality(Cheering(r)) \in Nat
    BY <1>3, BalanceTypes, ProductType
  <2> QED  BY <2>2, <2>3 DEF StopGain
<1>5. /\ DataConsumed(resources["research"]) \in Nat
      /\ DataConsumed(resources["research"]) <= resources["research"]
  <2>1. resources["research"] \in Nat
    BY ResourceNames DEF TypeOK
  <2> QED  BY <2>1, BalanceTypes, Least DEF DataConsumed
<1>6. RunEfficiency \in Nat
  <2>1. 75 * DataConsumed(resources["research"]) \in Nat
    BY <1>5
  <2>2. (75 * DataConsumed(resources["research"])) \div Balance.trainingDataCost \in Nat
    BY <2>1, BalanceTypes, QuotientType
  <2> QED  BY <2>2 DEF RunEfficiency
<1>7. RunPayout(r) \in Nat
  <2>1. Percent(Balance.trainingCompute, RunEfficiency) \in Nat
    BY <1>6, BalanceTypes, PercentType
  <2>2. Percent(Percent(Balance.trainingCompute, RunEfficiency), RegionMultiplier(r)) \in Nat
    BY <2>1, AmplifierTypes, PercentType
  <2> QED  BY <2>2, AmplifierTypes, PercentType DEF RunPayout
<1> QED  BY <1>1, <1>2, <1>3, <1>4, <1>5, <1>6, <1>7

LEMMA LabTypes ==
  ASSUME TypeOK
  PROVE  /\ lab.researchers \in Nat /\ lab.modelProgress \in Nat
         /\ \A p \in Nat :
              LET next == [lab EXCEPT !.modelProgress = @ + p] IN
              /\ next \in [researchers : Nat, modelProgress : Nat]
              /\ next.researchers = lab.researchers
         /\ LET next == [lab EXCEPT !.researchers = @ + 1] IN
            /\ next \in [researchers : Nat, modelProgress : Nat]
            /\ next.researchers = lab.researchers + 1
<1>1. lab \in [researchers : Nat, modelProgress : Nat]
  BY DEF TypeOK
<1>2. lab.researchers \in Nat /\ lab.modelProgress \in Nat
  BY <1>1
<1>3. ASSUME NEW p \in Nat
      PROVE  /\ [lab EXCEPT !.modelProgress = @ + p] \in [researchers : Nat, modelProgress : Nat]
             /\ [lab EXCEPT !.modelProgress = @ + p].researchers = lab.researchers
  BY <1>1, <1>2
<1>4. /\ [lab EXCEPT !.researchers = @ + 1] \in [researchers : Nat, modelProgress : Nat]
      /\ [lab EXCEPT !.researchers = @ + 1].researchers = lab.researchers + 1
  BY <1>1, <1>2
<1> QED  BY <1>2, <1>3, <1>4

LEMMA ToolCallTrades ==
  ASSUME TypeOK, NEW r \in Regions, NEW resource \in {"engineering", "research"},
         ToolCall(r, resource)
  PROVE  TypeOK' /\ Trades /\ Settles(Only(resource, CallGain(resource)), Nothing)
<1>1. /\ Arrives(r) /\ Books(Only(resource, CallGain(resource)), Nothing)
      /\ Credits(r, resource, CallGain(resource))
      /\ UNCHANGED <<lab, generation, levels, infrastructure, incidents, lastIncidentAt, window,
                     turnAccrual, spawned, acked, writtenOff>>
  BY DEF ToolCall, CallGain
<1>2. CallGain(resource) \in Nat /\ resource \in Resources /\ resource \in Earnable
  BY GainTypes DEF Resources, Earnable
<1>3. Trades /\ Settles(Only(resource, CallGain(resource)), Nothing)
  BY <1>1, <1>2, AmountTypes, EarningSettles
<1>4. totals' \in [Regions -> [Earnable -> Nat]]
  BY <1>1, <1>2, CreditsTypes
<1>5. TypeOK'
  BY <1>1, <1>3, <1>4, ArrivesTypes, Settlement DEF TypeOK
<1> QED  BY <1>3, <1>5

LEMMA ToolFailureTrades ==
  ASSUME TypeOK, NEW r \in Regions, NEW now \in Times, ToolFailure(r, now)
  PROVE  TypeOK' /\ Trades
<1>1. /\ Arrives(r)
      /\ UNCHANGED <<lab, generation, levels, infrastructure, window, turnAccrual, writtenOff>>
  BY DEF ToolFailure
<1>2. CASE UNCHANGED <<resources, stats, totals, incidents, lastIncidentAt, spawned, acked>>
  <2>1. TypeOK'
    BY <1>1, <1>2, ArrivesTypes DEF TypeOK
  <2> QED  BY <1>1, <1>2, <2>1, IdleSettles
<1>3. CASE IncidentAllowed(r, now) /\ levels["self-healing"] >= 1
  <2>1. /\ spawned' = spawned + 1 /\ acked' = acked + 1
        /\ lastIncidentAt' = [lastIncidentAt EXCEPT ![r] = now]
        /\ Books(Only("engineering", Balance.postMortem), Nothing)
        /\ Credits(r, "engineering", Balance.postMortem)
        /\ UNCHANGED incidents
    BY <1>3 DEF ToolFailure
  <2>2. Trades /\ Settles(Only("engineering", Balance.postMortem), Nothing)
    BY <1>1, <2>1, AmountTypes, BalanceTypes, ResourceNames, EarningSettles
  <2>3. totals' \in [Regions -> [Earnable -> Nat]]
    <3>1. "engineering" \in Earnable
      BY DEF Earnable
    <3> QED  BY <2>1, <3>1, BalanceTypes, CreditsTypes
  <2>4. now \in Nat
    BY EconomyAssumption DEF EconomyAssumption, Positive
  <2>5. /\ lastIncidentAt' \in [Regions -> Nat]
        /\ spawned' \in Nat /\ acked' \in Nat
    BY <2>1, <2>4 DEF TypeOK
  <2>6. /\ resources' \in [Resources -> Nat]
        /\ stats' \in [earned : [Resources -> Nat], spent : [Resources -> Nat]]
    BY <2>2, Settlement
  <2>7. TypeOK'
    BY <1>1, <2>1, <2>3, <2>5, <2>6, ArrivesTypes DEF TypeOK
  <2> QED  BY <2>2, <2>7
<1>4. CASE IncidentAllowed(r, now) /\ ~(levels["self-healing"] >= 1)
  <2>1. /\ spawned' = spawned + 1
        /\ lastIncidentAt' = [lastIncidentAt EXCEPT ![r] = now]
        /\ incidents' = [incidents EXCEPT ![r] = @ + 1]
        /\ UNCHANGED <<resources, stats, totals, acked>>
    BY <1>4 DEF ToolFailure
  <2>2. now \in Nat
    BY EconomyAssumption DEF EconomyAssumption, Positive
  <2>3. incidents' \in [Regions -> 0..Balance.maxActivePerRegion]
    <3>1. incidents[r] \in 0..Balance.maxActivePerRegion /\ incidents[r] < Balance.maxActivePerRegion
      BY <1>4 DEF TypeOK, IncidentAllowed
    <3>2. incidents[r] + 1 \in 0..Balance.maxActivePerRegion
      BY <3>1, BalanceTypes
    <3> QED  BY <2>1, <3>2 DEF TypeOK
  <2>4. TypeOK'
    BY <1>1, <2>1, <2>2, <2>3, ArrivesTypes DEF TypeOK
  <2> QED  BY <1>1, <2>1, <2>4, IdleSettles
<1> QED  BY <1>2, <1>3, <1>4 DEF ToolFailure

LEMMA BotsAreSolvent ==
  ASSUME TypeOK, NEW n \in 0..10, NEW owned \in Nat, NEW compute \in Nat, Procured(compute, owned, n)
  PROVE  BotsPay(owned, n) \in Nat /\ BotsPay(owned, n) <= compute
<1>1. n \in Nat
  OBVIOUS
<1>2. BotsPay(owned, n) \in Nat /\ BotsPay(owned, 0) = 0
  BY <1>1, BotsPayType
<1>3. CASE levels["procurement"] < 1
  BY <1>2, <1>3 DEF Procured
<1>4. CASE ~(levels["procurement"] < 1)
  BY <1>2, <1>4 DEF Procured
<1> QED  BY <1>3, <1>4

LEMMA TokenUsageTrades ==
  ASSUME TypeOK, NEW r \in Regions, NEW now \in Times, NEW tokens \in Tokens,
         TokenUsage(r, tokens, now)
  PROVE  /\ TypeOK' /\ Trades
         /\ \E n \in 0..10 :
              /\ Settles(Only("compute", OutputGain(r, tokens, now)),
                         Only("compute", BotsPay(infrastructure[r]["gpu"], n)))
              /\ infrastructure' = [infrastructure EXCEPT ![r]["gpu"] = infrastructure[r]["gpu"] + n]
<1> DEFINE gained == OutputGain(r, tokens, now)
           owned == infrastructure[r]["gpu"]
<1>1. /\ Arrives(r)
      /\ window' = [window EXCEPT ![r] = [WindowAt(r, now) EXCEPT !.outputTokens = @ + tokens]]
      /\ turnAccrual' = [turnAccrual EXCEPT ![r] = @ + gained]
      /\ Credits(r, "compute", gained)
      /\ UNCHANGED <<lab, generation, levels, incidents, lastIncidentAt, spawned, acked, writtenOff>>
  BY DEF TokenUsage, OutputGain
<1>2. PICK n \in 0..10 : /\ Procured(resources["compute"] + gained, owned, n)
                         /\ Books(Only("compute", gained), Only("compute", BotsPay(owned, n)))
                         /\ infrastructure' = [infrastructure EXCEPT ![r]["gpu"] = owned + n]
  BY DEF TokenUsage, OutputGain
<1>3. gained \in Nat /\ owned \in Nat /\ resources["compute"] \in Nat
  BY GainTypes, TierNames, ResourceNames DEF TypeOK
<1> HIDE DEF gained
<1>4. BotsPay(owned, n) \in Nat /\ BotsPay(owned, n) <= resources["compute"] + gained
  BY <1>2, <1>3, BotsAreSolvent
<1> DEFINE pay == BotsPay(owned, n)
           gain == Only("compute", gained)
           loss == Only("compute", pay)
<1>5. /\ gain \in [Resources -> Nat] /\ loss \in [Resources -> Nat]
      /\ gain["compute"] = gained /\ loss["compute"] = pay
      /\ \A x \in Resources \ {"compute"} : loss[x] = 0
  <2> DEFINE payment == pay
  <2>1. payment \in Nat /\ gained \in Nat /\ "compute" \in Resources
    BY <1>3, <1>4, ResourceNames
  <2> HIDE DEF payment
  <2>2. /\ Only("compute", gained) \in [Resources -> Nat] /\ Only("compute", gained)["compute"] = gained
        /\ Only("compute", payment) \in [Resources -> Nat] /\ Only("compute", payment)["compute"] = payment
        /\ \A x \in Resources \ {"compute"} : Only("compute", payment)[x] = 0
    BY <2>1, AmountTypes
  <2> QED  BY <2>2 DEF payment
<1>6. Books(gain, loss)
  BY <1>2
<1>7. Settles(gain, loss)
  <2> HIDE DEF gain, loss, owned
  <2>1. ASSUME NEW x \in Resources PROVE loss[x] <= resources[x] + gain[x]
    <3>1. resources[x] \in Nat /\ gain[x] \in Nat
      BY <1>5 DEF TypeOK
    <3> QED  BY <1>3, <1>4, <1>5, <3>1
  <2> QED  BY <1>5, <1>6, <2>1 DEF Settles
<1>8. Trades
  <2>1. loss["reputation"] = 0 /\ loss["breakthroughs"] = 0
    BY <1>5, ResourceNames
  <2> HIDE DEF gain, loss
  <2> QED  BY <1>1, <1>7, <2>1 DEF Trades
<1>9. totals' \in [Regions -> [Earnable -> Nat]]
  <2>1. "compute" \in Earnable
    BY DEF Earnable
  <2> QED  BY <1>1, <1>3, <2>1, CreditsTypes
<1>10. window' \in [Regions -> [startMs : Nat, outputTokens : Nat]]
  <2>1. WindowAt(r, now) \in [startMs : Nat, outputTokens : Nat] /\ tokens \in Nat
    BY OutputTypes
  <2>2. [WindowAt(r, now) EXCEPT !.outputTokens = @ + tokens] \in [startMs : Nat, outputTokens : Nat]
    BY <2>1
  <2> QED  BY <1>1, <2>2 DEF TypeOK
<1>11. turnAccrual' \in [Regions -> Nat]
  BY <1>1, <1>3 DEF TypeOK
<1>12. infrastructure' \in [Regions -> [Tiers -> Nat]]
  <2>1. owned + n \in Nat
    BY <1>3
  <2> DEFINE more == owned + n
  <2>2. more \in Nat /\ infrastructure' = [infrastructure EXCEPT ![r]["gpu"] = more]
    BY <1>2, <2>1
  <2> HIDE DEF more
  <2> QED  BY <2>2 DEF TypeOK
<1>13. /\ resources' \in [Resources -> Nat]
       /\ stats' \in [earned : [Resources -> Nat], spent : [Resources -> Nat]]
  <2> HIDE DEF gain, loss
  <2> QED  BY <1>7, Settlement
<1>14. TypeOK'
  BY <1>1, <1>9, <1>10, <1>11, <1>12, <1>13, ArrivesTypes DEF TypeOK
<1> QED  BY <1>2, <1>7, <1>8, <1>14 DEF gained

LEMMA PromptTrades ==
  ASSUME TypeOK, NEW r \in Regions, Prompt(r) \/ OtherEvent(r) \/ GoesDark(r)
  PROVE  TypeOK' /\ Trades
<1>1. /\ UNCHANGED <<resources, lab, generation, levels, infrastructure, incidents, lastIncidentAt,
                     window, totals, stats, spawned, acked, writtenOff>>
      /\ turnAccrual' \in [Regions -> Nat]
  BY DEF Prompt, OtherEvent, GoesDark, TypeOK
<1>2. eventsProcessed' \in Nat /\ status' \in [Regions -> {"none", "live", "dark"}]
  BY ArrivesTypes DEF Prompt, OtherEvent, GoesDark, TypeOK
<1>3. TypeOK'
  BY <1>1, <1>2 DEF TypeOK
<1> QED  BY <1>1, <1>3, IdleSettles

LEMMA StopTrades ==
  ASSUME TypeOK, NEW r \in Regions, Stop(r)
  PROVE  /\ TypeOK' /\ Trades
         /\ Settles([Nothing EXCEPT !["compute"] = StopGain(r), !["reputation"] = 1], Nothing)
<1> DEFINE gain == [Nothing EXCEPT !["compute"] = StopGain(r), !["reputation"] = 1]
           credit(o) == (IF o \in Cheering(r) THEN Balance.stopAllRegionBonus ELSE 0)
           own(o) == IF o = r THEN StopBonus(r) ELSE 0
<1>1. /\ Arrives(r)
      /\ turnAccrual' = [turnAccrual EXCEPT ![r] = 0]
      /\ Books(gain, Nothing)
      /\ totals' = [o \in Regions |->
           [totals[o] EXCEPT !["compute"] = (@ + credit(o)) + own(o)]]
      /\ UNCHANGED <<lab, generation, levels, infrastructure, incidents, lastIncidentAt, window,
                     spawned, acked, writtenOff>>
  BY DEF Stop, StopGain, StopBonus, Cheering
<1>2. gain \in [Resources -> Nat]
  BY GainTypes, AmountTypes, ResourceNames
<1>3. Settles(gain, Nothing) /\ Trades
  <2> HIDE DEF gain
  <2> QED  BY <1>1, <1>2, EarningSettles
<1>4. totals' \in [Regions -> [Earnable -> Nat]]
  <2>1. \A o \in Regions : credit(o) \in Nat /\ own(o) \in Nat
    BY GainTypes, BalanceTypes
  <2> HIDE DEF credit, own
  <2>2. \A o \in Regions : totals[o] \in [Earnable -> Nat]
    BY DEF TypeOK
  <2>3. \A o \in Regions : (totals[o]["compute"] + credit(o)) + own(o) \in Nat
    <3>1. \A o \in Regions : totals[o]["compute"] \in Nat
      BY <2>2 DEF Earnable
    <3> QED  BY <2>1, <3>1
  <2>4. \A o \in Regions :
          [totals[o] EXCEPT !["compute"] = (@ + credit(o)) + own(o)] \in [Earnable -> Nat]
    BY <2>2, <2>3
  <2> QED  BY <1>1, <2>4
<1>5. /\ resources' \in [Resources -> Nat]
      /\ stats' \in [earned : [Resources -> Nat], spent : [Resources -> Nat]]
  <2> HIDE DEF gain
  <2> QED  BY <1>3, Settlement
<1>6. turnAccrual' \in [Regions -> Nat]
  BY <1>1 DEF TypeOK
<1>7. TypeOK'
  BY <1>1, <1>4, <1>5, <1>6, ArrivesTypes DEF TypeOK
<1> QED  BY <1>3, <1>7

LEMMA TrainingRunTrades ==
  ASSUME TypeOK, NEW r \in Regions, TrainingRun(r)
  PROVE  /\ TypeOK' /\ Trades
         /\ Settles(Only("compute", RunPayout(r)),
                    Only("research", DataConsumed(resources["research"])))
         /\ lab'.researchers = lab.researchers
<1> DEFINE payout == RunPayout(r)
           consumed == DataConsumed(resources["research"])
           gain == Only("compute", payout)
           loss == Only("research", consumed)
           progress == Percent(Percent(Balance.trainingProgress, RunEfficiency), LabMultiplier)
<1>1. /\ Arrives(r)
      /\ lab' = [lab EXCEPT !.modelProgress = @ + progress]
      /\ Books(gain, loss)
      /\ Credits(r, "compute", payout)
      /\ UNCHANGED <<generation, levels, infrastructure, incidents, lastIncidentAt, window,
                     turnAccrual, spawned, acked, writtenOff>>
  BY DEF TrainingRun, RunPayout, RunEfficiency
<1>2. payout \in Nat /\ consumed \in Nat /\ consumed <= resources["research"]
  BY GainTypes
<1> HIDE DEF payout, consumed
<1>3. /\ gain \in [Resources -> Nat] /\ loss \in [Resources -> Nat]
      /\ loss["research"] = consumed /\ \A x \in Resources \ {"research"} : loss[x] = 0
  <2>1. "compute" \in Resources /\ "research" \in Resources
    BY ResourceNames
  <2>2. gain \in [Resources -> Nat]
    BY <1>2, <2>1, AmountTypes
  <2>3. /\ loss \in [Resources -> Nat]
        /\ loss["research"] = consumed /\ \A x \in Resources \ {"research"} : loss[x] = 0
    BY <1>2, <2>1, AmountTypes
  <2> QED  BY <2>2, <2>3
<1> HIDE DEF gain, loss
<1>4. Settles(gain, loss)
  <2>1. ASSUME NEW x \in Resources PROVE loss[x] <= resources[x] + gain[x]
    <3>1. resources[x] \in Nat /\ gain[x] \in Nat
      BY <1>3 DEF TypeOK
    <3> QED  BY <1>2, <1>3, <3>1
  <2> QED  BY <1>1, <1>3, <2>1 DEF Settles
<1>5. Trades
  <2>1. loss["reputation"] = 0 /\ loss["breakthroughs"] = 0
    BY <1>3, ResourceNames
  <2> QED  BY <1>1, <1>4, <2>1 DEF Trades
<1>6. totals' \in [Regions -> [Earnable -> Nat]]
  <2>1. "compute" \in Earnable
    BY DEF Earnable
  <2> QED  BY <1>1, <1>2, <2>1, CreditsTypes
<1>7. progress \in Nat
  <2>1. Percent(Balance.trainingProgress, RunEfficiency) \in Nat
    BY GainTypes, BalanceTypes, PercentType
  <2> QED  BY <2>1, AmplifierTypes, PercentType
<1> HIDE DEF progress
<1>8. lab' \in [researchers : Nat, modelProgress : Nat] /\ lab'.researchers = lab.researchers
  BY <1>1, <1>7, LabTypes
<1>9. /\ resources' \in [Resources -> Nat]
      /\ stats' \in [earned : [Resources -> Nat], spent : [Resources -> Nat]]
  BY <1>4, Settlement
<1>10. TypeOK'
  BY <1>1, <1>6, <1>8, <1>9, ArrivesTypes DEF TypeOK
<1> QED  BY <1>4, <1>5, <1>8, <1>10 DEF gain, loss, payout, consumed

LEMMA BuyTrades ==
  ASSUME TypeOK, NEW r \in Regions, NEW tier \in Tiers, Buy(r, tier)
  PROVE  TypeOK' /\ Trades
<1> DEFINE cost == TierCost(tier, infrastructure[r][tier])
<1>1. /\ cost \in Nat /\ cost <= resources["compute"]
      /\ Books(Nothing, Only("compute", cost))
      /\ infrastructure' = [infrastructure EXCEPT ![r][tier] = @ + 1]
      /\ UNCHANGED <<lab, generation, levels, incidents, lastIncidentAt, window, turnAccrual, status,
                     totals, spawned, acked, eventsProcessed, writtenOff>>
  <2>1. infrastructure[r][tier] \in Nat /\ resources["compute"] \in Nat
    BY ResourceNames DEF TypeOK
  <2>2. cost \in Nat
    BY <2>1, PriceTypes
  <2> QED  BY <2>1, <2>2 DEF Buy
<1> HIDE DEF cost
<1>2. Settles(Nothing, Only("compute", cost)) /\ Trades
  BY <1>1, ResourceNames, SpendingSettles
<1>3. /\ resources' \in [Resources -> Nat]
      /\ stats' \in [earned : [Resources -> Nat], spent : [Resources -> Nat]]
  BY <1>2, Settlement
<1>4. infrastructure' \in [Regions -> [Tiers -> Nat]]
  BY <1>1 DEF TypeOK
<1>5. TypeOK'
  BY <1>1, <1>3, <1>4 DEF TypeOK
<1> QED  BY <1>2, <1>5

LEMMA HireTrades ==
  ASSUME TypeOK, Hire
  PROVE  TypeOK' /\ Trades
<1> DEFINE cost == HireCost(lab.researchers)
<1>1. /\ cost \in Nat /\ cost <= resources["engineering"]
      /\ Books(Nothing, Only("engineering", cost))
      /\ lab' = [lab EXCEPT !.researchers = @ + 1]
      /\ UNCHANGED <<generation, levels, perRegion, spawned, acked, eventsProcessed, writtenOff>>
  <2>1. lab.researchers \in Nat /\ resources["engineering"] \in Nat
    BY ResourceNames DEF TypeOK
  <2>2. cost \in Nat
    BY <2>1, PriceTypes
  <2> QED  BY <2>1, <2>2 DEF Hire
<1> HIDE DEF cost
<1>2. Settles(Nothing, Only("engineering", cost)) /\ Trades
  BY <1>1, ResourceNames, SpendingSettles
<1>3. /\ resources' \in [Resources -> Nat]
      /\ stats' \in [earned : [Resources -> Nat], spent : [Resources -> Nat]]
  BY <1>2, Settlement
<1>4. lab' \in [researchers : Nat, modelProgress : Nat]
  BY <1>1, LabTypes
<1>5. TypeOK'
  BY <1>1, <1>3, <1>4 DEF TypeOK, perRegion
<1> QED  BY <1>2, <1>5

LEMMA ExperimentTrades ==
  ASSUME TypeOK, Experiment
  PROVE  TypeOK' /\ Trades /\ lab'.researchers = lab.researchers
<1> DEFINE loss == [Nothing EXCEPT !["research"] = Balance.experimentDataCost,
                                   !["engineering"] = Balance.experimentEngineeringCost]
           progress == Percent(Balance.experimentProgress, LabMultiplier)
<1>1. /\ Balance.experimentDataCost <= resources["research"]
      /\ Balance.experimentEngineeringCost <= resources["engineering"]
      /\ Books(Nothing, loss)
      /\ lab' = [lab EXCEPT !.modelProgress = @ + progress]
      /\ UNCHANGED <<generation, levels, perRegion, spawned, acked, eventsProcessed, writtenOff>>
  <2>1. resources["research"] \in Nat /\ resources["engineering"] \in Nat
    BY ResourceNames DEF TypeOK
  <2> QED  BY <2>1, BalanceTypes DEF Experiment
<1>2. /\ loss \in [Resources -> Nat]
      /\ loss["research"] = Balance.experimentDataCost
      /\ loss["engineering"] = Balance.experimentEngineeringCost
      /\ \A x \in Resources \ {"research", "engineering"} : loss[x] = 0
  BY AmountTypes, BalanceTypes, ResourceNames
<1> HIDE DEF loss
<1>3. Settles(Nothing, loss)
  <2>1. ASSUME NEW x \in Resources PROVE loss[x] <= resources[x] + Nothing[x]
    <3>1. resources[x] \in Nat /\ Nothing[x] = 0
      BY AmountTypes DEF TypeOK
    <3> QED  BY <1>1, <1>2, <3>1
  <2> QED  BY <1>1, <1>2, <2>1, AmountTypes DEF Settles
<1>4. Trades
  <2>1. loss["reputation"] = 0 /\ loss["breakthroughs"] = 0
    BY <1>2, ResourceNames
  <2> QED  BY <1>1, <1>3, <2>1 DEF Trades
<1>5. progress \in Nat
  BY AmplifierTypes, BalanceTypes, PercentType
<1> HIDE DEF progress
<1>6. lab' \in [researchers : Nat, modelProgress : Nat] /\ lab'.researchers = lab.researchers
  BY <1>1, <1>5, LabTypes
<1>7. /\ resources' \in [Resources -> Nat]
      /\ stats' \in [earned : [Resources -> Nat], spent : [Resources -> Nat]]
  BY <1>3, Settlement
<1>8. TypeOK'
  BY <1>1, <1>6, <1>7 DEF TypeOK, perRegion
<1> QED  BY <1>4, <1>6, <1>8

LEMMA AckIncidentTrades ==
  ASSUME TypeOK, NEW r \in Regions, AckIncident(r)
  PROVE  TypeOK' /\ Trades /\ Settles(Only("engineering", Balance.postMortem), Nothing)
<1>1. /\ incidents[r] > 0
      /\ incidents' = [incidents EXCEPT ![r] = @ - 1]
      /\ acked' = acked + 1
      /\ Books(Only("engineering", Balance.postMortem), Nothing)
      /\ Credits(r, "engineering", Balance.postMortem)
      /\ UNCHANGED <<lab, generation, levels, infrastructure, lastIncidentAt, window, turnAccrual,
                     status, spawned, eventsProcessed, writtenOff>>
  BY DEF AckIncident
<1>2. Trades /\ Settles(Only("engineering", Balance.postMortem), Nothing)
  BY <1>1, AmountTypes, BalanceTypes, ResourceNames, EarningSettles
<1>3. totals' \in [Regions -> [Earnable -> Nat]]
  <2>1. "engineering" \in Earnable
    BY DEF Earnable
  <2> QED  BY <1>1, <2>1, BalanceTypes, CreditsTypes
<1>4. incidents' \in [Regions -> 0..Balance.maxActivePerRegion]
  <2>1. incidents[r] \in 0..Balance.maxActivePerRegion
    BY DEF TypeOK
  <2>2. incidents[r] - 1 \in 0..Balance.maxActivePerRegion
    BY <1>1, <2>1, BalanceTypes
  <2> QED  BY <1>1, <2>2 DEF TypeOK
<1>5. /\ resources' \in [Resources -> Nat]
      /\ stats' \in [earned : [Resources -> Nat], spent : [Resources -> Nat]]
      /\ acked' \in Nat
  BY <1>1, <1>2, Settlement DEF TypeOK
<1>6. TypeOK'
  BY <1>1, <1>3, <1>4, <1>5 DEF TypeOK
<1> QED  BY <1>2, <1>6

LEMMA BuyBreakthroughTrades ==
  ASSUME TypeOK, NEW node \in Nodes, BuyBreakthrough(node)
  PROVE  /\ TypeOK' /\ Trades
         /\ Settles(Nothing, Only("breakthroughs", NodeCost(node, levels[node])))
<1> DEFINE cost == NodeCost(node, levels[node])
<1>1. /\ cost \in Nat /\ cost <= resources["breakthroughs"]
      /\ Books(Nothing, Only("breakthroughs", cost))
      /\ levels' = [levels EXCEPT ![node] = @ + 1]
      /\ UNCHANGED <<lab, generation, perRegion, spawned, acked, eventsProcessed, writtenOff>>
  <2>1. levels[node] \in Nat /\ resources["breakthroughs"] \in Nat
    BY ResourceNames DEF TypeOK
  <2>2. cost \in Nat
    BY <2>1, PriceTypes
  <2> QED  BY <2>1, <2>2 DEF BuyBreakthrough
<1> HIDE DEF cost
<1>2. levels' \in [Nodes -> Nat] /\ levels' # levels
  BY <1>1 DEF TypeOK
<1>3. Settles(Nothing, Only("breakthroughs", cost)) /\ Trades
  BY <1>1, <1>2, ResourceNames, SpendingSettles
<1>4. /\ resources' \in [Resources -> Nat]
      /\ stats' \in [earned : [Resources -> Nat], spent : [Resources -> Nat]]
  BY <1>3, Settlement
<1>5. TypeOK'
  BY <1>1, <1>2, <1>4 DEF TypeOK, perRegion
<1> QED  BY <1>3, <1>5 DEF cost

-----------------------------------------------------------------------------
(* Shipping                                                                *)

\* The sums over the regions are sums in the sense of SumFacts.
LEMMA RegionSums ==
  ASSUME NEW f \in [Regions -> Nat]
  PROVE  SumOver(f) = Total(f, Regions) /\ SumOver(f) \in Nat
<1>1. SumOver(f) = Total(f, Regions)
  BY DEF SumOver, MapThenSumSet, MapThenFoldSet, Total, Sums, Summing, Pick
<1>2. Total(f, Regions) \in Nat
  BY EconomyAssumption, TotalType DEF EconomyAssumption
<1> QED  BY <1>1, <1>2

LEMMA Shipment ==
  ASSUME TypeOK, ShipGeneration
  PROVE  /\ TypeOK' /\ UNCHANGED <<levels, status, totals, spawned, acked, eventsProcessed>>
         /\ \A x \in Earnable : /\ resources'[x] = 0
                                /\ stats'.earned[x] = stats.earned[x]
                                /\ writtenOff'[x] = writtenOff[x] + resources[x]
         /\ resources'["reputation"] = resources["reputation"]
         /\ stats'.earned["reputation"] = stats.earned["reputation"]
         /\ resources'["breakthroughs"] = resources["breakthroughs"] + ShipEarns
         /\ stats'.earned["breakthroughs"] = stats.earned["breakthroughs"] + ShipEarns
         /\ ShipEarns \in Nat
         /\ writtenOff'["reputation"] = writtenOff["reputation"]
         /\ writtenOff'["breakthroughs"] = writtenOff["breakthroughs"]
         /\ writtenOff'["incidents"] = writtenOff["incidents"] + SumOver(incidents)
         /\ stats'.spent = stats.spent
         /\ lab'.researchers = 0
         /\ incidents' = [r \in Regions |-> 0]
         /\ infrastructure' = [r \in Regions |->
              IF status[r] = "none" THEN infrastructure[r] ELSE ShippedInfrastructure(r)]
<1>1. ShipEarns \in Nat
  <2>1. lab.modelProgress \in Nat /\ GenerationThreshold(generation) \in Nat \ {0}
    BY LabTypes, PriceTypes DEF TypeOK
  <2>2. lab.modelProgress \div GenerationThreshold(generation) \in Nat
    BY <2>1, QuotientType
  <2>3. Monus(lab.modelProgress \div GenerationThreshold(generation), 1) \in Nat
    BY <2>2, Least
  <2>4. Smaller(Balance.overshootBonusCap,
                Monus(lab.modelProgress \div GenerationThreshold(generation), 1)) \in Nat
    BY <2>3, BalanceTypes, Least
  <2> QED  BY <2>4, BalanceTypes DEF ShipEarns
<1> DEFINE earned == [resources EXCEPT !["breakthroughs"] = @ + ShipEarns]
<1>2. /\ generation' = generation + 1
      /\ resources' = [x \in Resources |-> IF x \in Earnable THEN 0 ELSE earned[x]]
      /\ stats' = [stats EXCEPT !.earned["breakthroughs"] = @ + ShipEarns]
      /\ writtenOff' = [x \in DOMAIN writtenOff |->
           writtenOff[x] + (CASE x \in Earnable -> earned[x]
                              [] x = "incidents" -> SumOver(incidents)
                              [] OTHER -> 0)]
      /\ lab' = [researchers |-> 0, modelProgress |-> 0]
      /\ infrastructure' = [r \in Regions |->
           IF status[r] = "none" THEN infrastructure[r] ELSE ShippedInfrastructure(r)]
      /\ incidents' = [r \in Regions |-> 0]
      /\ window' = [r \in Regions |-> [startMs |-> 0, outputTokens |-> 0]]
      /\ turnAccrual' = [r \in Regions |-> 0]
      /\ lastIncidentAt' = [r \in Regions |-> 0]
      /\ UNCHANGED <<levels, status, totals, spawned, acked, eventsProcessed>>
  BY DEF ShipGeneration, LostWhenShipping
<1>3. /\ resources \in [Resources -> Nat]
      /\ stats \in [earned : [Resources -> Nat], spent : [Resources -> Nat]]
      /\ writtenOff \in [Resources \cup {"incidents"} -> Nat]
      /\ \A x \in Resources : resources[x] \in Nat /\ stats.earned[x] \in Nat
  BY DEF TypeOK
<1>4. /\ earned \in [Resources -> Nat]
      /\ earned["breakthroughs"] = resources["breakthroughs"] + ShipEarns
      /\ \A x \in Resources \ {"breakthroughs"} : earned[x] = resources[x]
  BY <1>1, <1>3, ResourceNames
<1> HIDE DEF earned
<1>5. resources' \in [Resources -> Nat]
  BY <1>2, <1>4
<1>6. /\ \A x \in Earnable : resources'[x] = 0
      /\ resources'["reputation"] = resources["reputation"]
      /\ resources'["breakthroughs"] = resources["breakthroughs"] + ShipEarns
  BY <1>2, <1>4, ResourceNames
<1>7. /\ stats' \in [earned : [Resources -> Nat], spent : [Resources -> Nat]]
      /\ stats'.spent = stats.spent
      /\ \A x \in Resources \ {"breakthroughs"} : stats'.earned[x] = stats.earned[x]
      /\ stats'.earned["breakthroughs"] = stats.earned["breakthroughs"] + ShipEarns
  <2>1. stats' = [earned |-> [stats.earned EXCEPT !["breakthroughs"] = @ + ShipEarns],
                  spent |-> stats.spent]
    BY <1>2, <1>3
  <2>2. [stats.earned EXCEPT !["breakthroughs"] = @ + ShipEarns] \in [Resources -> Nat]
    BY <1>1, <1>3, ResourceNames
  <2> QED  BY <1>3, <2>1, <2>2, ResourceNames
<1>8. SumOver(incidents) \in Nat
  <2>1. incidents \in [Regions -> Nat]
    BY BalanceTypes DEF TypeOK
  <2> QED  BY <2>1, RegionSums
<1> DEFINE dropped(x) == CASE x \in Earnable -> earned[x]
                           [] x = "incidents" -> SumOver(incidents)
                           [] OTHER -> 0
<1>9. /\ \A x \in Earnable : dropped(x) = resources[x]
      /\ dropped("incidents") = SumOver(incidents)
      /\ dropped("reputation") = 0 /\ dropped("breakthroughs") = 0
      /\ \A x \in Resources \cup {"incidents"} : dropped(x) \in Nat
  <2>1. \A x \in Earnable : dropped(x) = resources[x]
    BY <1>4, ResourceNames
  <2>2. "incidents" \notin Earnable
    BY ResourceNames
  <2>3. dropped("incidents") = SumOver(incidents)
    BY <2>2
  <2>4. dropped("reputation") = 0 /\ dropped("breakthroughs") = 0
    BY ResourceNames
  <2>5. Resources = Earnable \cup {"reputation", "breakthroughs"}
    BY DEF Resources, Earnable
  <2> HIDE DEF dropped
  <2> QED  BY <1>3, <1>8, <2>1, <2>3, <2>4, <2>5
<1>10. writtenOff' = [x \in Resources \cup {"incidents"} |-> writtenOff[x] + dropped(x)]
  BY <1>2, <1>3
<1> HIDE DEF dropped
<1>11. /\ writtenOff' \in [Resources \cup {"incidents"} -> Nat]
       /\ \A x \in Resources \cup {"incidents"} : writtenOff'[x] = writtenOff[x] + dropped(x)
  BY <1>3, <1>9, <1>10
<1>12. /\ \A x \in Earnable : writtenOff'[x] = writtenOff[x] + resources[x]
       /\ writtenOff'["reputation"] = writtenOff["reputation"]
       /\ writtenOff'["breakthroughs"] = writtenOff["breakthroughs"]
       /\ writtenOff'["incidents"] = writtenOff["incidents"] + SumOver(incidents)
  <2>1. writtenOff["reputation"] \in Nat /\ writtenOff["breakthroughs"] \in Nat
    BY <1>3, ResourceNames
  <2> QED  BY <1>9, <1>11, <2>1, ResourceNames
<1>13. infrastructure' \in [Regions -> [Tiers -> Nat]]
  <2>1. 4 * levels["blueprints"] \in Nat
    BY DEF TypeOK, Nodes
  <2>2. \A r \in Regions : ShippedInfrastructure(r) \in [Tiers -> Nat]
    BY <2>1 DEF ShippedInfrastructure
  <2> QED  BY <1>2, <2>2 DEF TypeOK
<1>14. lab' \in [researchers : Nat, modelProgress : Nat] /\ lab'.researchers = 0
  BY <1>2
<1>15. incidents' \in [Regions -> 0..Balance.maxActivePerRegion]
  BY <1>2, BalanceTypes
<1>16. TypeOK'
  <2>1. /\ window' \in [Regions -> [startMs : Nat, outputTokens : Nat]]
        /\ turnAccrual' \in [Regions -> Nat] /\ lastIncidentAt' \in [Regions -> Nat]
    BY <1>2
  <2>2. /\ generation' \in Positive /\ levels' \in [Nodes -> Nat]
        /\ status' \in [Regions -> {"none", "live", "dark"}]
        /\ totals' \in [Regions -> [Earnable -> Nat]]
        /\ spawned' \in Nat /\ acked' \in Nat /\ eventsProcessed' \in Nat
    BY <1>2 DEF TypeOK, Positive
  <2> QED  BY <1>5, <1>7, <1>11, <1>13, <1>14, <1>15, <2>1, <2>2 DEF TypeOK
<1> QED  BY <1>1, <1>2, <1>6, <1>7, <1>12, <1>14, <1>16, ResourceNames

-----------------------------------------------------------------------------
(* Every step                                                              *)

LEMMA EveryStep ==
  ASSUME TypeOK, Next
  PROVE  TypeOK' /\ (Trades \/ ShipGeneration)
<1>1. ASSUME NEW r \in Regions, NEW resource \in {"engineering", "research"}, ToolCall(r, resource)
      PROVE  TypeOK' /\ Trades
  BY <1>1, ToolCallTrades
<1>2. ASSUME NEW r \in Regions, NEW now \in Times, ToolFailure(r, now)
      PROVE  TypeOK' /\ Trades
  BY <1>2, ToolFailureTrades
<1>3. ASSUME NEW r \in Regions, NEW now \in Times, NEW tokens \in Tokens, TokenUsage(r, tokens, now)
      PROVE  TypeOK' /\ Trades
  BY <1>3, TokenUsageTrades
<1>4. ASSUME NEW r \in Regions, Prompt(r) \/ OtherEvent(r) \/ GoesDark(r)
      PROVE  TypeOK' /\ Trades
  BY <1>4, PromptTrades
<1>5. ASSUME NEW r \in Regions, Stop(r) PROVE TypeOK' /\ Trades
  BY <1>5, StopTrades
<1>6. ASSUME NEW r \in Regions, TrainingRun(r) PROVE TypeOK' /\ Trades
  BY <1>6, TrainingRunTrades
<1>7. ASSUME NEW r \in Regions, AckIncident(r) PROVE TypeOK' /\ Trades
  BY <1>7, AckIncidentTrades
<1>8. ASSUME NEW r \in Regions, NEW tier \in Tiers, Buy(r, tier) PROVE TypeOK' /\ Trades
  BY <1>8, BuyTrades
<1>9. ASSUME NEW node \in Wanted, BuyBreakthrough(node) PROVE TypeOK' /\ Trades
  <2>1. node \in Nodes
    BY EconomyAssumption DEF EconomyAssumption
  <2> QED  BY <1>9, <2>1, BuyBreakthroughTrades
<1>10. ASSUME Hire PROVE TypeOK' /\ Trades
  BY <1>10, HireTrades
<1>11. ASSUME Experiment PROVE TypeOK' /\ Trades
  BY <1>11, ExperimentTrades
<1>12. ASSUME ShipGeneration PROVE TypeOK'
  BY <1>12, Shipment
<1> QED
  BY <1>1, <1>2, <1>3, <1>4, <1>5, <1>6, <1>7, <1>8, <1>9, <1>10, <1>11, <1>12
     DEF Next, PlayerAction

LEMMA InitType == Init => TypeOK
<1> SUFFICES ASSUME Init PROVE TypeOK
  OBVIOUS
<1>1. 0 \in 0..Balance.maxActivePerRegion
  BY BalanceTypes
<1> QED  BY <1>1, AmountTypes DEF Init, TypeOK, Positive

(* No number of the save is ever negative, whatever order telemetry and    *)
(* the player's actions come in: nothing is bought, spent on a training    *)
(* run or procured by the bots that cannot be paid (engine.ts), so the     *)
(* save schema of state.ts never rejects what was written.                 *)
THEOREM EconomyTypeCorrect == Spec => []TypeOK
<1>1. Init => TypeOK
  BY InitType
<1>2. TypeOK /\ [Next]_vars => TypeOK'
  <2>1. TypeOK /\ UNCHANGED vars => TypeOK'
    BY DEF vars, perRegion, TypeOK
  <2> QED  BY <2>1, EveryStep
<1> QED  BY <1>1, <1>2, PTL DEF Spec

LEMMA BooksStep ==
  ASSUME TypeOK, BooksBalance, Next
  PROVE  BooksBalance'
<1>1. \A x \in Resources : /\ resources[x] \in Nat /\ stats.spent[x] \in Nat
                           /\ stats.earned[x] \in Nat /\ writtenOff[x] \in Nat
  BY DEF TypeOK
<1>2. CASE Trades
  <2>1. PICK gain, loss : Settles(gain, loss) /\ writtenOff' = writtenOff
    BY <1>2 DEF Trades
  <2>2. \A x \in Resources : gain[x] \in Nat /\ loss[x] \in Nat
    BY <2>1 DEF Settles
  <2>3. \A x \in Resources : /\ resources'[x] = (resources[x] + gain[x]) - loss[x]
                             /\ stats'.earned[x] = stats.earned[x] + gain[x]
                             /\ stats'.spent[x] = stats.spent[x] + loss[x]
    BY <2>1, Settlement
  <2>4. \A x \in Resources : resources'[x] + stats'.spent[x] + writtenOff'[x] = stats'.earned[x]
    BY <1>1, <2>1, <2>2, <2>3 DEF BooksBalance
  <2> QED  BY <2>1, <2>4 DEF BooksBalance
<1>3. CASE ShipGeneration
  <2>1. \A x \in Earnable : resources'[x] + stats'.spent[x] + writtenOff'[x] = stats'.earned[x]
    BY <1>1, <1>3, Shipment, ResourceNames DEF BooksBalance
  <2>2. \A x \in {"reputation", "breakthroughs"} :
          resources'[x] + stats'.spent[x] + writtenOff'[x] = stats'.earned[x]
    BY <1>1, <1>3, Shipment, ResourceNames DEF BooksBalance
  <2>3. Resources = Earnable \cup {"reputation", "breakthroughs"}
    BY DEF Resources, Earnable
  <2> QED  BY <1>3, <2>1, <2>2, <2>3, Shipment DEF BooksBalance
<1> QED  BY <1>2, <1>3, EveryStep

(* Every resource is what was earned of it less what was spent and what a  *)
(* shipped generation wrote off: no handler of engine.ts moves a balance   *)
(* without recording it in the statistics, and prestige takes neither      *)
(* reputation nor breakthroughs.                                           *)
THEOREM BooksAlwaysBalance == Spec => []BooksBalance
<1>1. Init => BooksBalance
  <2> SUFFICES ASSUME Init PROVE BooksBalance
    OBVIOUS
  <2>1. \A x \in Resources : resources[x] = 0 /\ stats.spent[x] = 0 /\ stats.earned[x] = 0 /\ writtenOff[x] = 0
    BY AmountTypes DEF Init
  <2> QED  BY <2>1, ResourceNames DEF BooksBalance
<1>2. TypeOK /\ BooksBalance /\ [Next]_vars => BooksBalance'
  <2>1. BooksBalance /\ UNCHANGED vars => BooksBalance'
    BY DEF vars, BooksBalance
  <2> QED  BY <2>1, BooksStep
<1> QED  BY <1>1, <1>2, EconomyTypeCorrect, PTL DEF Spec

-----------------------------------------------------------------------------
(* What a purchase required                                                *)

\* The units of a region rest on each other.
Rests(units) ==
  \A tier \in {"rack", "datacenter"} :
    units[Previous(tier)] >= Balance.requiresPrevious[tier] * units[tier]

LEMMA RestsOn ==
  ASSUME NEW units
  PROVE  Rests(units) <=> /\ units["gpu"] >= Balance.requiresPrevious["rack"] * units["rack"]
                          /\ units["rack"] >= Balance.requiresPrevious["datacenter"] * units["datacenter"]
<1>1. Previous("rack") = "gpu" /\ Previous("datacenter") = "rack"
  BY DEF Previous
<1> QED  BY <1>1 DEF Rests

\* More GPUs, bought by the player or by the bots.
LEMMA MoreGpus ==
  ASSUME NEW units \in [Tiers -> Nat], Rests(units), NEW n \in Nat
  PROVE  Rests([units EXCEPT !["gpu"] = units["gpu"] + n])
<1> DEFINE next == [units EXCEPT !["gpu"] = units["gpu"] + n]
<1>1. /\ next["gpu"] = units["gpu"] + n /\ next["rack"] = units["rack"]
      /\ next["datacenter"] = units["datacenter"]
  BY TierNames
<1>2. /\ units["gpu"] \in Nat /\ Balance.requiresPrevious["rack"] * units["rack"] \in Nat
  BY TierNames, BalanceTypes, ProductType
<1> HIDE DEF next
<1>3. Rests(next)
  BY <1>1, <1>2, RestsOn
<1> QED  BY <1>3 DEF next

\* One more unit of a tier that the tier below supports.
LEMMA OneMoreUnit ==
  ASSUME NEW units \in [Tiers -> Nat], Rests(units), NEW tier \in Tiers,
         \/ tier = "gpu"
         \/ units[Previous(tier)] >= Balance.requiresPrevious[tier] * (units[tier] + 1)
  PROVE  Rests([units EXCEPT ![tier] = @ + 1])
<1> DEFINE next == [units EXCEPT ![tier] = @ + 1]
<1>1. CASE tier = "gpu"
  <2>1. next = [units EXCEPT !["gpu"] = units["gpu"] + 1]
    BY <1>1
  <2> HIDE DEF next
  <2>2. Rests(next)
    BY <2>1, MoreGpus
  <2> QED  BY <2>2 DEF next
<1>2. CASE tier = "rack"
  <2>1. /\ next["gpu"] = units["gpu"] /\ next["rack"] = units["rack"] + 1
        /\ next["datacenter"] = units["datacenter"]
    BY <1>2, TierNames
  <2>2. units["gpu"] >= Balance.requiresPrevious["rack"] * (units["rack"] + 1)
    BY <1>2 DEF Previous
  <2>3. units["rack"] \in Nat /\ Balance.requiresPrevious["datacenter"] * units["datacenter"] \in Nat
    BY TierNames, BalanceTypes, ProductType
  <2> HIDE DEF next
  <2>4. Rests(next)
    BY <2>1, <2>2, <2>3, RestsOn
  <2> QED  BY <2>4 DEF next
<1>3. CASE tier = "datacenter"
  <2>1. /\ next["gpu"] = units["gpu"] /\ next["rack"] = units["rack"]
        /\ next["datacenter"] = units["datacenter"] + 1
    BY <1>3, TierNames
  <2>2. units["rack"] >= Balance.requiresPrevious["datacenter"] * (units["datacenter"] + 1)
    BY <1>3 DEF Previous
  <2> HIDE DEF next
  <2>3. Rests(next)
    BY <2>1, <2>2, RestsOn
  <2> QED  BY <2>3 DEF next
<1> QED  BY <1>1, <1>2, <1>3 DEF Tiers

\* The seed racks of a new generation rest on nothing.
LEMMA SeededRests ==
  ASSUME TypeOK, NEW r \in Regions
  PROVE  Rests(ShippedInfrastructure(r))
<1> DEFINE units == ShippedInfrastructure(r)
<1>1. units["gpu"] = 4 * levels["blueprints"] /\ units["rack"] = 0 /\ units["datacenter"] = 0
  BY TierNames DEF ShippedInfrastructure
<1>2. units["gpu"] \in Nat
  BY <1>1 DEF TypeOK, Nodes
<1>3. Balance.requiresPrevious["rack"] * 0 = 0 /\ Balance.requiresPrevious["datacenter"] * 0 = 0
  BY TierNames, BalanceTypes
<1> HIDE DEF units
<1>4. Rests(units)
  BY <1>1, <1>2, <1>3, RestsOn
<1> QED  BY <1>4 DEF units

\* What a step does to the units and to the staff.
Grows ==
  /\ \/ UNCHANGED infrastructure
     \/ \E r \in Regions, n \in Nat :
          infrastructure' = [infrastructure EXCEPT ![r]["gpu"] = infrastructure[r]["gpu"] + n]
     \/ \E r \in Regions, tier \in Tiers :
          /\ Supports(r, tier)
          /\ infrastructure' = [infrastructure EXCEPT ![r][tier] = @ + 1]
     \/ infrastructure' = [r \in Regions |->
          IF status[r] = "none" THEN infrastructure[r] ELSE ShippedInfrastructure(r)]
  /\ \/ lab'.researchers = lab.researchers
     \/ lab'.researchers = 0
     \/ /\ lab'.researchers = lab.researchers + 1
        /\ lab.researchers < HireCap(resources["reputation"])

LEMMA EveryStepGrows ==
  ASSUME TypeOK, Next
  PROVE  Grows
<1>1. ASSUME NEW r \in Regions, NEW resource \in {"engineering", "research"}, ToolCall(r, resource)
      PROVE  Grows
  BY <1>1 DEF ToolCall, Grows
<1>2. ASSUME NEW r \in Regions, NEW now \in Times, ToolFailure(r, now) PROVE Grows
  BY <1>2 DEF ToolFailure, Grows
<1>3. ASSUME NEW r \in Regions, NEW now \in Times, NEW tokens \in Tokens, TokenUsage(r, tokens, now)
      PROVE  Grows
  <2>1. PICK n \in 0..10 : infrastructure' = [infrastructure EXCEPT ![r]["gpu"] = infrastructure[r]["gpu"] + n]
    BY <1>3, TokenUsageTrades
  <2>2. n \in Nat /\ lab'.researchers = lab.researchers
    BY <1>3 DEF TokenUsage
  <2> QED  BY <2>1, <2>2 DEF Grows
<1>4. ASSUME NEW r \in Regions, Prompt(r) \/ OtherEvent(r) \/ GoesDark(r) PROVE Grows
  BY <1>4 DEF Prompt, OtherEvent, GoesDark, Grows
<1>5. ASSUME NEW r \in Regions, Stop(r) PROVE Grows
  BY <1>5 DEF Stop, Grows
<1>6. ASSUME NEW r \in Regions, TrainingRun(r) PROVE Grows
  <2>1. infrastructure' = infrastructure
    BY <1>6 DEF TrainingRun
  <2> QED  BY <1>6, <2>1, TrainingRunTrades DEF Grows
<1>7. ASSUME NEW r \in Regions, AckIncident(r) PROVE Grows
  BY <1>7 DEF AckIncident, Grows
<1>8. ASSUME NEW r \in Regions, NEW tier \in Tiers, Buy(r, tier) PROVE Grows
  BY <1>8 DEF Buy, Grows
<1>9. ASSUME NEW node \in Wanted, BuyBreakthrough(node) PROVE Grows
  BY <1>9 DEF BuyBreakthrough, perRegion, Grows
<1>10. ASSUME Hire PROVE Grows
  <2>1. lab'.researchers = lab.researchers + 1
    BY <1>10, LabTypes DEF Hire
  <2> QED  BY <1>10, <2>1 DEF Hire, perRegion, Grows
<1>11. ASSUME Experiment PROVE Grows
  <2>1. infrastructure' = infrastructure
    BY <1>11 DEF Experiment, perRegion
  <2> QED  BY <1>11, <2>1, ExperimentTrades DEF Grows
<1>12. ASSUME ShipGeneration PROVE Grows
  <2>1. /\ lab'.researchers = 0
        /\ infrastructure' = [r \in Regions |->
             IF status[r] = "none" THEN infrastructure[r] ELSE ShippedInfrastructure(r)]
    BY <1>12, Shipment
  <2> QED  BY <2>1 DEF Grows
<1> QED
  BY <1>1, <1>2, <1>3, <1>4, <1>5, <1>6, <1>7, <1>8, <1>9, <1>10, <1>11, <1>12
     DEF Next, PlayerAction

\* Reputation is never spent or lost, so the cap on the staff never falls.
LEMMA ReputationGrows ==
  ASSUME TypeOK, Next
  PROVE  /\ resources["reputation"] \in Nat /\ resources'["reputation"] \in Nat
         /\ resources["reputation"] <= resources'["reputation"]
         /\ HireCap(resources["reputation"]) <= HireCap(resources'["reputation"])
<1>1. resources["reputation"] \in Nat
  BY ResourceNames DEF TypeOK
<1>2. CASE Trades
  <2>1. PICK gain, loss : Settles(gain, loss) /\ loss["reputation"] = 0
    BY <1>2 DEF Trades
  <2>2. resources'["reputation"] = (resources["reputation"] + gain["reputation"]) - loss["reputation"]
    BY <2>1, Settlement, ResourceNames
  <2>3. gain["reputation"] \in Nat
    BY <2>1, ResourceNames DEF Settles
  <2>4. resources'["reputation"] \in Nat /\ resources["reputation"] <= resources'["reputation"]
    BY <1>1, <2>1, <2>2, <2>3
  <2> QED  BY <1>1, <2>4, BalanceTypes, QuotientGrows, QuotientType DEF HireCap
<1>3. CASE ShipGeneration
  <2>1. resources'["reputation"] = resources["reputation"]
    BY <1>3, Shipment
  <2> QED  BY <1>1, <2>1, PriceTypes
<1> QED  BY <1>2, <1>3, EveryStep

LEMMA GatesStep ==
  ASSUME TypeOK, GatesHold, Next
  PROVE  GatesHold'
<1>1. /\ \A r \in Regions : Rests(infrastructure[r]) /\ infrastructure[r] \in [Tiers -> Nat]
      /\ infrastructure \in [Regions -> [Tiers -> Nat]]
      /\ lab.researchers <= HireCap(resources["reputation"])
  BY DEF GatesHold, Rests, TypeOK
<1>2. Grows
  BY EveryStepGrows
<1>3. lab'.researchers <= HireCap(resources'["reputation"])
  <2>1. /\ HireCap(resources["reputation"]) \in Nat /\ HireCap(resources'["reputation"]) \in Nat
        /\ HireCap(resources["reputation"]) <= HireCap(resources'["reputation"])
        /\ lab.researchers \in Nat
    BY ReputationGrows, PriceTypes, LabTypes
  <2> QED  BY <1>1, <1>2, <2>1 DEF Grows
<1>4. \A r \in Regions : Rests(infrastructure'[r])
  <2>1. CASE UNCHANGED infrastructure
    BY <1>1, <2>1
  <2>2. ASSUME NEW r \in Regions, NEW n \in Nat,
               infrastructure' = [infrastructure EXCEPT ![r]["gpu"] = infrastructure[r]["gpu"] + n]
        PROVE  \A o \in Regions : Rests(infrastructure'[o])
    <3>1. /\ infrastructure'[r] = [infrastructure[r] EXCEPT !["gpu"] = infrastructure[r]["gpu"] + n]
          /\ \A o \in Regions \ {r} : infrastructure'[o] = infrastructure[o]
      BY <1>1, <2>2
    <3>2. Rests(infrastructure'[r])
      BY <1>1, <3>1, MoreGpus
    <3> QED  BY <1>1, <3>1, <3>2
  <2>3. ASSUME NEW r \in Regions, NEW tier \in Tiers, Supports(r, tier),
               infrastructure' = [infrastructure EXCEPT ![r][tier] = @ + 1]
        PROVE  \A o \in Regions : Rests(infrastructure'[o])
    <3>1. /\ infrastructure'[r] = [infrastructure[r] EXCEPT ![tier] = @ + 1]
          /\ \A o \in Regions \ {r} : infrastructure'[o] = infrastructure[o]
      BY <1>1, <2>3
    <3>2. \/ tier = "gpu"
          \/ infrastructure[r][Previous(tier)] >= Balance.requiresPrevious[tier] * (infrastructure[r][tier] + 1)
      BY <2>3 DEF Supports
    <3>3. Rests(infrastructure'[r])
      BY <1>1, <3>1, <3>2, OneMoreUnit
    <3> QED  BY <1>1, <3>1, <3>3
  <2>4. CASE infrastructure' = [r \in Regions |->
               IF status[r] = "none" THEN infrastructure[r] ELSE ShippedInfrastructure(r)]
    BY <1>1, <2>4, SeededRests
  <2> QED  BY <1>2, <2>1, <2>2, <2>3, <2>4 DEF Grows
<1> QED  BY <1>3, <1>4 DEF GatesHold, Rests

(* What a purchase required when it was made holds for ever: racks rest on *)
(* GPUs and datacenters on racks, and the lab never employs more than its  *)
(* reputation allows, through procurement, seeding and prestige            *)
(* (actionBuy, actionHire, autoProcure, actionShipGeneration).             *)
THEOREM PurchasesStaySupported == Spec => []GatesHold
<1>1. Init => GatesHold
  <2> SUFFICES ASSUME Init PROVE GatesHold
    OBVIOUS
  <2>1. \A r \in Regions : Rests(infrastructure[r])
    <3> SUFFICES ASSUME NEW r \in Regions PROVE Rests(infrastructure[r])
      OBVIOUS
    <3>1. \A tier \in Tiers : infrastructure[r][tier] = 0
      BY DEF Init
    <3>2. Balance.requiresPrevious["rack"] * 0 = 0 /\ Balance.requiresPrevious["datacenter"] * 0 = 0
      BY TierNames, BalanceTypes
    <3> QED  BY <3>1, <3>2, TierNames, RestsOn
  <2>2. lab.researchers = 0 /\ HireCap(resources["reputation"]) \in Nat
    BY InitType, ResourceNames, PriceTypes DEF Init, TypeOK
  <2> QED  BY <2>1, <2>2 DEF GatesHold, Rests
<1>2. TypeOK /\ GatesHold /\ [Next]_vars => GatesHold'
  <2>1. GatesHold /\ UNCHANGED vars => GatesHold'
    BY DEF vars, perRegion, GatesHold
  <2> QED  BY <2>1, GatesStep
<1> QED  BY <1>1, <1>2, EconomyTypeCorrect, PTL DEF Spec

-----------------------------------------------------------------------------
(* The regions add up to the laboratory                                    *)

\* What a step books, told apart.
LEMMA Booked ==
  ASSUME TypeOK, NEW gain, NEW loss, Books(gain, loss)
  PROVE  \A x \in Resources : /\ stats'.earned[x] = stats.earned[x] + gain[x]
                              /\ stats'.spent[x] = stats.spent[x] + loss[x]
<1>1. stats' = [earned |-> [x \in Resources |-> stats.earned[x] + gain[x]],
                spent |-> [x \in Resources |-> stats.spent[x] + loss[x]]]
  BY DEF Books, TypeOK
<1> QED  BY <1>1

LEMMA EarnsNothing ==
  ASSUME TypeOK, NEW loss, Books(Nothing, loss)
  PROVE  \A x \in Resources : stats'.earned[x] = stats.earned[x]
<1>1. \A x \in Resources : stats.earned[x] \in Nat /\ Nothing[x] = 0
  BY AmountTypes DEF TypeOK
<1> QED  BY <1>1, Booked

\* What a step earns, it earns for the regions.
AllotsNothing ==
  /\ UNCHANGED totals
  /\ \A x \in Earnable : stats'.earned[x] = stats.earned[x]
AllotsOne(r, resource, amount) ==
  /\ Credits(r, resource, amount)
  /\ \A x \in Earnable :
       stats'.earned[x] = stats.earned[x] + (IF x = resource THEN amount ELSE 0)
AllotsTurn(r) ==
  /\ totals' = [o \in Regions |->
       [totals[o] EXCEPT !["compute"] =
          (@ + (IF o \in Cheering(r) THEN Balance.stopAllRegionBonus ELSE 0))
             + (IF o = r THEN StopBonus(r) ELSE 0)]]
  /\ \A x \in Earnable :
       stats'.earned[x] = stats.earned[x] + (IF x = "compute" THEN StopGain(r) ELSE 0)
Allots ==
  \/ AllotsNothing
  \/ \E r \in Regions, resource \in Earnable, amount \in Nat : AllotsOne(r, resource, amount)
  \/ \E r \in Regions : AllotsTurn(r)

LEMMA OneIsAllotted ==
  ASSUME TypeOK, NEW r \in Regions, NEW resource \in Earnable, NEW amount \in Nat, NEW loss,
         Books(Only(resource, amount), loss), Credits(r, resource, amount)
  PROVE  Allots
<1>1. \A x \in Resources : stats'.earned[x] = stats.earned[x] + Only(resource, amount)[x]
  BY Booked
<1>2. /\ resource \in Resources
      /\ \A x \in Earnable : Only(resource, amount)[x] = IF x = resource THEN amount ELSE 0
  <2>1. resource \in Resources /\ Earnable \subseteq Resources
    BY ResourceNames
  <2>2. /\ Only(resource, amount)[resource] = amount
        /\ \A x \in Resources \ {resource} : Only(resource, amount)[x] = 0
    BY <2>1, AmountTypes
  <2> QED  BY <2>1, <2>2
<1>3. AllotsOne(r, resource, amount)
  BY <1>1, <1>2, ResourceNames DEF AllotsOne
<1> QED  BY <1>3 DEF Allots

LEMMA EveryStepAllots ==
  ASSUME TypeOK, Next
  PROVE  Allots
<1> USE ResourceNames
<1>1. ASSUME NEW r \in Regions, NEW resource \in {"engineering", "research"}, ToolCall(r, resource)
      PROVE  Allots
  <2>1. CallGain(resource) \in Nat /\ resource \in Earnable
    BY GainTypes DEF Earnable
  <2>2. /\ Books(Only(resource, CallGain(resource)), Nothing)
        /\ Credits(r, resource, CallGain(resource))
    BY <1>1 DEF ToolCall, CallGain
  <2> QED  BY <2>1, <2>2, OneIsAllotted
<1>2. ASSUME NEW r \in Regions, NEW now \in Times, ToolFailure(r, now) PROVE Allots
  <2>1. CASE UNCHANGED <<stats, totals>>
    BY <2>1 DEF Allots, AllotsNothing
  <2>2. CASE /\ Books(Only("engineering", Balance.postMortem), Nothing)
             /\ Credits(r, "engineering", Balance.postMortem)
    <3>1. "engineering" \in Earnable /\ Balance.postMortem \in Nat
      BY BalanceTypes DEF Earnable
    <3> QED  BY <2>2, <3>1, OneIsAllotted
  <2>3. CASE Books(Nothing, Nothing) /\ UNCHANGED totals
    BY <2>3, EarnsNothing DEF Allots, AllotsNothing
  <2> QED  BY <1>2, <2>1, <2>2 DEF ToolFailure
<1>3. ASSUME NEW r \in Regions, NEW now \in Times, NEW tokens \in Tokens, TokenUsage(r, tokens, now)
      PROVE  Allots
  <2>1. PICK n \in 0..10 : Books(Only("compute", OutputGain(r, tokens, now)),
                                 Only("compute", BotsPay(infrastructure[r]["gpu"], n)))
    BY <1>3 DEF TokenUsage, OutputGain
  <2>2. Credits(r, "compute", OutputGain(r, tokens, now))
    BY <1>3 DEF TokenUsage, OutputGain
  <2>3. OutputGain(r, tokens, now) \in Nat /\ "compute" \in Earnable
    BY GainTypes DEF Earnable
  <2> QED  BY <2>1, <2>2, <2>3, OneIsAllotted
<1>4. ASSUME NEW r \in Regions, Prompt(r) \/ OtherEvent(r) \/ GoesDark(r) PROVE Allots
  BY <1>4 DEF Prompt, OtherEvent, GoesDark, Allots, AllotsNothing
<1>5. ASSUME NEW r \in Regions, Stop(r) PROVE Allots
  <2> DEFINE gain == [Nothing EXCEPT !["compute"] = StopGain(r), !["reputation"] = 1]
  <2>1. /\ Books(gain, Nothing)
        /\ totals' = [o \in Regions |->
             [totals[o] EXCEPT !["compute"] =
                (@ + (IF o \in Cheering(r) THEN Balance.stopAllRegionBonus ELSE 0))
                   + (IF o = r THEN StopBonus(r) ELSE 0)]]
    BY <1>5 DEF Stop, StopGain, StopBonus, Cheering
  <2>2. \A x \in Earnable : gain[x] = IF x = "compute" THEN StopGain(r) ELSE 0
    BY AmountTypes DEF Earnable
  <2> HIDE DEF gain
  <2>3. \A x \in Earnable : stats'.earned[x] = stats.earned[x] + gain[x]
    BY <2>1, Booked
  <2>4. AllotsTurn(r)
    BY <2>1, <2>2, <2>3 DEF AllotsTurn
  <2> QED  BY <2>4 DEF Allots
<1>6. ASSUME NEW r \in Regions, TrainingRun(r) PROVE Allots
  <2>1. /\ Books(Only("compute", RunPayout(r)), Only("research", DataConsumed(resources["research"])))
        /\ Credits(r, "compute", RunPayout(r))
    BY <1>6 DEF TrainingRun, RunPayout, RunEfficiency
  <2>2. RunPayout(r) \in Nat /\ "compute" \in Earnable
    BY GainTypes DEF Earnable
  <2> QED  BY <2>1, <2>2, OneIsAllotted
<1>7. ASSUME NEW r \in Regions, AckIncident(r) PROVE Allots
  <2>1. "engineering" \in Earnable /\ Balance.postMortem \in Nat
    BY BalanceTypes DEF Earnable
  <2> QED  BY <1>7, <2>1, OneIsAllotted DEF AckIncident
<1>8. ASSUME NEW r \in Regions, NEW tier \in Tiers, Buy(r, tier) PROVE Allots
  BY <1>8, EarnsNothing DEF Buy, Allots, AllotsNothing
<1>9. ASSUME NEW node \in Wanted, BuyBreakthrough(node) PROVE Allots
  BY <1>9, EarnsNothing DEF BuyBreakthrough, perRegion, Allots, AllotsNothing
<1>10. ASSUME Hire PROVE Allots
  BY <1>10, EarnsNothing DEF Hire, perRegion, Allots, AllotsNothing
<1>11. ASSUME Experiment PROVE Allots
  BY <1>11, EarnsNothing DEF Experiment, perRegion, Allots, AllotsNothing
<1>12. ASSUME ShipGeneration PROVE Allots
  BY <1>12, Shipment DEF Allots, AllotsNothing
<1> QED
  BY <1>1, <1>2, <1>3, <1>4, <1>5, <1>6, <1>7, <1>8, <1>9, <1>10, <1>11, <1>12
     DEF Next, PlayerAction

\* What the regions have earned of one resource.
Column(x) == [r \in Regions |-> totals[r][x]]

LEMMA ColumnTypes ==
  ASSUME TypeOK, Next
  PROVE  \A x \in Earnable : Column(x) \in [Regions -> Nat] /\ Column(x)' \in [Regions -> Nat]
<1>1. totals \in [Regions -> [Earnable -> Nat]]
  BY DEF TypeOK
<1>2. totals' \in [Regions -> [Earnable -> Nat]]
  BY EveryStep DEF TypeOK
<1> QED  BY <1>1, <1>2 DEF Column

LEMMA TotalsStep ==
  ASSUME TypeOK, Next, NEW x \in Earnable, Total(Column(x), Regions) = stats.earned[x]
  PROVE  Total(Column(x)', Regions) = stats'.earned[x]
<1> DEFINE old == Column(x)
           new == Column(x)'
<1>1. /\ old \in [Regions -> Nat] /\ new \in [Regions -> Nat] /\ IsFiniteSet(Regions)
      /\ old \in [Regions -> Int] /\ new \in [Regions -> Int]
      /\ \A r \in Regions : old[r] \in Nat /\ new[r] \in Nat
  <2>1. old \in [Regions -> Nat] /\ new \in [Regions -> Nat]
    BY ColumnTypes
  <2> HIDE DEF old, new
  <2> QED  BY <2>1, EconomyAssumption DEF EconomyAssumption
<1>2. \A r \in Regions : old[r] = totals[r][x] /\ new[r] = totals'[r][x]
  BY DEF Column
<1>3. Total(old, Regions) \in Nat /\ Total(old, Regions) = stats.earned[x]
  <2>1. Total(old, Regions) = stats.earned[x]
    OBVIOUS
  <2> HIDE DEF old
  <2> QED  BY <1>1, <2>1, TotalType
<1>4. totals \in [Regions -> [Earnable -> Nat]]
  BY DEF TypeOK
<1> HIDE DEF old, new
<1>5. CASE AllotsNothing
  <2>1. \A r \in Regions : old[r] = new[r]
    BY <1>2, <1>5 DEF AllotsNothing
  <2> QED  BY <1>1, <1>3, <1>5, <2>1, TotalSame DEF AllotsNothing, new
<1>6. ASSUME NEW r \in Regions, NEW resource \in Earnable, NEW amount \in Nat,
             AllotsOne(r, resource, amount)
      PROVE  Total(new, Regions) = stats'.earned[x]
  <2>1. \A o \in Regions : new[o] = old[o] + (IF o = r /\ x = resource THEN amount ELSE 0)
    BY <1>2, <1>6, CreditsTypes DEF AllotsOne
  <2>2. \A o \in Regions \ {r} : new[o] = old[o]
    BY <1>1, <2>1
  <2>3. Total(new, Regions) = (Total(old, Regions) - old[r]) + new[r]
    BY <1>1, <2>2, TotalChange
  <2>4. new[r] = old[r] + (IF x = resource THEN amount ELSE 0)
    BY <2>1
  <2>5. stats'.earned[x] = stats.earned[x] + (IF x = resource THEN amount ELSE 0)
    BY <1>6 DEF AllotsOne
  <2> QED  BY <1>1, <1>3, <2>3, <2>4, <2>5
<1>7. ASSUME NEW r \in Regions, AllotsTurn(r)
      PROVE  Total(new, Regions) = stats'.earned[x]
  <2> DEFINE c == Balance.stopAllRegionBonus
             C == Cheering(r)
             bonus == StopBonus(r)
             cheered == [o \in Regions |-> old[o] + (IF o \in C THEN c ELSE 0)]
  <2>1. /\ c \in Nat /\ C \in SUBSET Regions /\ bonus \in Nat /\ Cardinality(C) \in Nat
        /\ StopGain(r) = bonus + c * Cardinality(C)
    BY GainTypes, BalanceTypes DEF Cheering, StopGain
  <2>2. \A o \in Regions : totals'[o] = [totals[o] EXCEPT !["compute"] =
                              (@ + (IF o \in C THEN c ELSE 0)) + (IF o = r THEN bonus ELSE 0)]
    BY <1>7 DEF AllotsTurn
  <2>3. stats'.earned[x] = stats.earned[x] + (IF x = "compute" THEN StopGain(r) ELSE 0)
    BY <1>7 DEF AllotsTurn
  <2> HIDE DEF c, C, bonus
  <2>4. CASE x = "compute"
    <3>1. \A o \in Regions : new[o] = (old[o] + (IF o \in C THEN c ELSE 0)) + (IF o = r THEN bonus ELSE 0)
      <4> SUFFICES ASSUME NEW o \in Regions
                   PROVE  new[o] = (old[o] + (IF o \in C THEN c ELSE 0)) + (IF o = r THEN bonus ELSE 0)
        OBVIOUS
      <4>1. totals[o] \in [Earnable -> Nat] /\ "compute" \in Earnable
        BY <1>4 DEF Earnable
      <4>2. totals'[o]["compute"] =
              (totals[o]["compute"] + (IF o \in C THEN c ELSE 0)) + (IF o = r THEN bonus ELSE 0)
        BY <2>2, <4>1
      <4> QED  BY <1>2, <2>4, <4>2
    <3>2. /\ cheered \in [Regions -> Int]
          /\ \A o \in Regions : cheered[o] = old[o] + (IF o \in C THEN c ELSE 0)
      BY <1>1, <2>1
    <3> HIDE DEF cheered
    <3>3. Total(cheered, Regions) = Total(old, Regions) + c * Cardinality(C)
      BY <1>1, <2>1, <3>2, TotalRaise
    <3>4. \A o \in Regions : cheered[o] \in Int
      BY <3>2
    <3>5. \A o \in Regions \ {r} : new[o] = cheered[o]
      BY <3>1, <3>2, <3>4
    <3>6. Total(new, Regions) = (Total(cheered, Regions) - cheered[r]) + new[r]
      BY <1>1, <3>2, <3>5, TotalChange
    <3>7. new[r] = cheered[r] + bonus
      BY <3>1, <3>2
    <3>8. c * Cardinality(C) \in Nat
      BY <2>1, ProductType
    <3> QED  BY <1>3, <2>1, <2>3, <2>4, <3>3, <3>4, <3>6, <3>7, <3>8
  <2>5. CASE x # "compute"
    <3>1. \A o \in Regions : old[o] = new[o]
      <4> SUFFICES ASSUME NEW o \in Regions PROVE old[o] = new[o]
        OBVIOUS
      <4>1. totals[o] \in [Earnable -> Nat]
        BY <1>4
      <4>2. totals'[o][x] = totals[o][x]
        BY <2>2, <2>5, <4>1
      <4> QED  BY <1>2, <4>2
    <3>2. Total(new, Regions) = Total(old, Regions)
      BY <1>1, <3>1, TotalSame
    <3> QED  BY <1>3, <2>3, <2>5, <3>2
  <2> QED  BY <2>4, <2>5
<1>8. Total(new, Regions) = stats'.earned[x]
  BY <1>5, <1>6, <1>7, EveryStepAllots DEF Allots, new
<1> QED  BY <1>8 DEF new

\* What a step does to the incidents.
Tracks ==
  \/ /\ UNCHANGED <<incidents, writtenOff>>
     /\ \/ UNCHANGED <<spawned, acked>>
        \/ spawned' = spawned + 1 /\ acked' = acked + 1
  \/ \E r \in Regions :
       /\ UNCHANGED writtenOff
       /\ \/ /\ incidents' = [incidents EXCEPT ![r] = @ + 1]
             /\ spawned' = spawned + 1 /\ UNCHANGED acked
          \/ /\ incidents' = [incidents EXCEPT ![r] = @ - 1]
             /\ acked' = acked + 1 /\ UNCHANGED spawned
  \/ /\ incidents' = [r \in Regions |-> 0]
     /\ writtenOff'["incidents"] = writtenOff["incidents"] + SumOver(incidents)
     /\ UNCHANGED <<spawned, acked>>

LEMMA EveryStepTracks ==
  ASSUME TypeOK, Next
  PROVE  Tracks
<1>1. ASSUME NEW r \in Regions, NEW resource \in {"engineering", "research"}, ToolCall(r, resource)
      PROVE  Tracks
  BY <1>1 DEF ToolCall, Tracks
<1>2. ASSUME NEW r \in Regions, NEW now \in Times, ToolFailure(r, now) PROVE Tracks
  BY <1>2 DEF ToolFailure, Tracks
<1>3. ASSUME NEW r \in Regions, NEW now \in Times, NEW tokens \in Tokens, TokenUsage(r, tokens, now)
      PROVE  Tracks
  BY <1>3 DEF TokenUsage, Tracks
<1>4. ASSUME NEW r \in Regions, Prompt(r) \/ OtherEvent(r) \/ GoesDark(r) PROVE Tracks
  BY <1>4 DEF Prompt, OtherEvent, GoesDark, Tracks
<1>5. ASSUME NEW r \in Regions, Stop(r) PROVE Tracks
  BY <1>5 DEF Stop, Tracks
<1>6. ASSUME NEW r \in Regions, TrainingRun(r) PROVE Tracks
  BY <1>6 DEF TrainingRun, Tracks
<1>7. ASSUME NEW r \in Regions, AckIncident(r) PROVE Tracks
  BY <1>7 DEF AckIncident, Tracks
<1>8. ASSUME NEW r \in Regions, NEW tier \in Tiers, Buy(r, tier) PROVE Tracks
  BY <1>8 DEF Buy, Tracks
<1>9. ASSUME NEW node \in Wanted, BuyBreakthrough(node) PROVE Tracks
  BY <1>9 DEF BuyBreakthrough, perRegion, Tracks
<1>10. ASSUME Hire PROVE Tracks
  BY <1>10 DEF Hire, perRegion, Tracks
<1>11. ASSUME Experiment PROVE Tracks
  BY <1>11 DEF Experiment, perRegion, Tracks
<1>12. ASSUME ShipGeneration PROVE Tracks
  BY <1>12, Shipment DEF Tracks
<1> QED
  BY <1>1, <1>2, <1>3, <1>4, <1>5, <1>6, <1>7, <1>8, <1>9, <1>10, <1>11, <1>12
     DEF Next, PlayerAction

LEMMA IncidentsStep ==
  ASSUME TypeOK, Next, spawned = acked + Total(incidents, Regions) + writtenOff["incidents"]
  PROVE  spawned' = acked' + Total(incidents', Regions) + writtenOff'["incidents"]
<1> DEFINE old == incidents
           new == incidents'
<1>1. /\ old \in [Regions -> Int] /\ new \in [Regions -> Int] /\ old \in [Regions -> Nat]
      /\ IsFiniteSet(Regions)
      /\ \A r \in Regions : old[r] \in Int /\ new[r] \in Int
  <2>1. TypeOK'
    BY EveryStep
  <2>2. \A n \in 0..Balance.maxActivePerRegion : n \in Nat
    BY BalanceTypes
  <2> QED  BY <2>1, <2>2, EconomyAssumption DEF EconomyAssumption, TypeOK
<1>2. /\ Total(old, Regions) \in Int /\ Total(new, Regions) \in Int
      /\ spawned \in Int /\ acked \in Int /\ writtenOff["incidents"] \in Int
  <2>1. writtenOff["incidents"] \in Nat /\ spawned \in Nat /\ acked \in Nat
    BY DEF TypeOK
  <2> HIDE DEF old, new
  <2> QED  BY <1>1, <2>1, TotalType
<1>3. spawned = acked + Total(old, Regions) + writtenOff["incidents"]
  OBVIOUS
<1>4. CASE UNCHANGED <<incidents, writtenOff>> /\ (UNCHANGED <<spawned, acked>> \/ (spawned' = spawned + 1 /\ acked' = acked + 1))
  <2>1. Total(new, Regions) = Total(old, Regions) /\ writtenOff'["incidents"] = writtenOff["incidents"]
    BY <1>4
  <2> HIDE DEF old, new
  <2>2. spawned' = acked' + Total(new, Regions) + writtenOff'["incidents"]
    BY <1>2, <1>3, <1>4, <2>1
  <2> QED  BY <2>2 DEF new
<1>5. ASSUME NEW r \in Regions, UNCHANGED writtenOff,
             incidents' = [incidents EXCEPT ![r] = @ + 1], spawned' = spawned + 1, UNCHANGED acked
      PROVE  spawned' = acked' + Total(new, Regions) + writtenOff'["incidents"]
  <2>1. new[r] = old[r] + 1 /\ \A o \in Regions \ {r} : new[o] = old[o]
    BY <1>1, <1>5
  <2> HIDE DEF old, new
  <2>2. Total(new, Regions) = (Total(old, Regions) - old[r]) + new[r]
    BY <1>1, <2>1, TotalChange
  <2>3. Total(new, Regions) = Total(old, Regions) + 1
    BY <1>1, <1>2, <2>1, <2>2
  <2>4. writtenOff'["incidents"] = writtenOff["incidents"] /\ acked' = acked
    BY <1>5
  <2> QED  BY <1>2, <1>3, <1>5, <2>3, <2>4
<1>6. ASSUME NEW r \in Regions, UNCHANGED writtenOff,
             incidents' = [incidents EXCEPT ![r] = @ - 1], acked' = acked + 1, UNCHANGED spawned
      PROVE  spawned' = acked' + Total(new, Regions) + writtenOff'["incidents"]
  <2>1. new[r] = old[r] - 1 /\ \A o \in Regions \ {r} : new[o] = old[o]
    BY <1>1, <1>6
  <2> HIDE DEF old, new
  <2>2. Total(new, Regions) = (Total(old, Regions) - old[r]) + new[r]
    BY <1>1, <2>1, TotalChange
  <2>3. Total(new, Regions) = Total(old, Regions) - 1
    BY <1>1, <1>2, <2>1, <2>2
  <2>4. writtenOff'["incidents"] = writtenOff["incidents"] /\ spawned' = spawned
    BY <1>6
  <2> QED  BY <1>2, <1>3, <1>6, <2>3, <2>4
<1>7. CASE /\ incidents' = [r \in Regions |-> 0]
           /\ writtenOff'["incidents"] = writtenOff["incidents"] + SumOver(incidents)
           /\ UNCHANGED <<spawned, acked>>
  <2>1. \A r \in Regions : new[r] = 0
    BY <1>7
  <2>2. writtenOff'["incidents"] = writtenOff["incidents"] + Total(old, Regions)
    BY <1>1, <1>7, RegionSums
  <2>3. spawned' = spawned /\ acked' = acked
    BY <1>7
  <2> HIDE DEF old, new
  <2>4. Total(new, Regions) = 0
    BY <1>1, <2>1, TotalOfZeros
  <2>5. spawned' = acked' + Total(new, Regions) + writtenOff'["incidents"]
    BY <1>2, <1>3, <2>2, <2>3, <2>4
  <2> QED  BY <2>5 DEF new
<1> QED  BY <1>4, <1>5, <1>6, <1>7, EveryStepTracks DEF Tracks

\* The invariant in terms of the sums of SumFacts, before and after a step.
LEMMA AddUpMeans ==
  ASSUME TypeOK
  PROVE  RegionsAddUp <=> /\ \A x \in Earnable : Total(Column(x), Regions) = stats.earned[x]
                          /\ spawned = acked + Total(incidents, Regions) + writtenOff["incidents"]
<1>1. incidents \in [Regions -> Nat]
  BY BalanceTypes DEF TypeOK
<1>2. SumOver(incidents) = Total(incidents, Regions)
  BY <1>1, RegionSums
<1>3. \A x \in Earnable : Column(x) \in [Regions -> Nat]
  BY DEF TypeOK, Column
<1>4. \A x \in Earnable : SumOver(Column(x)) = Total(Column(x), Regions)
  BY <1>3, RegionSums
<1>5. \A x \in Earnable : SumOver([r \in Regions |-> totals[r][x]]) = SumOver(Column(x))
  BY DEF Column
<1> QED  BY <1>2, <1>4, <1>5 DEF RegionsAddUp

LEMMA AddUpMeansAfter ==
  ASSUME TypeOK', \A x \in Earnable : Total(Column(x)', Regions) = stats'.earned[x],
         spawned' = acked' + Total(incidents', Regions) + writtenOff'["incidents"]
  PROVE  RegionsAddUp'
<1>1. incidents' \in [Regions -> Nat]
  BY BalanceTypes DEF TypeOK
<1>2. SumOver(incidents') = Total(incidents', Regions)
  BY <1>1, RegionSums
<1>3. \A x \in Earnable : Column(x)' \in [Regions -> Nat]
  BY DEF TypeOK, Column
<1>4. \A x \in Earnable : SumOver(Column(x)') = Total(Column(x)', Regions)
  BY <1>3, RegionSums
<1>5. \A x \in Earnable : SumOver([r \in Regions |-> totals'[r][x]]) = SumOver(Column(x)')
  BY DEF Column
<1>6. \A x \in Earnable : SumOver([r \in Regions |-> totals'[r][x]]) = stats'.earned[x]
  BY <1>4, <1>5
<1> QED  BY <1>2, <1>6 DEF RegionsAddUp

(* The regions add up to the laboratory: what they have earned together is *)
(* what the statistics say was earned, the cheers of a finished turn       *)
(* included, and every incident spawned is active in one region, has been  *)
(* acknowledged once, or was dropped by shipping (engine.ts).              *)
THEOREM RegionsAlwaysAddUp == Spec => []RegionsAddUp
<1>1. Init => RegionsAddUp
  <2> SUFFICES ASSUME Init PROVE RegionsAddUp
    OBVIOUS
  <2>1. TypeOK /\ IsFiniteSet(Regions)
    BY InitType, EconomyAssumption DEF EconomyAssumption
  <2>2. ASSUME NEW x \in Earnable PROVE Total(Column(x), Regions) = stats.earned[x]
    <3> DEFINE column == Column(x)
    <3>1. \A r \in Regions : column[r] = 0
      BY DEF Column, Init
    <3> HIDE DEF column
    <3>2. Total(column, Regions) = 0
      BY <2>1, <3>1, TotalOfZeros
    <3>3. stats.earned[x] = 0
      BY AmountTypes, ResourceNames DEF Init
    <3> QED  BY <3>2, <3>3 DEF column
  <2>3. Total(incidents, Regions) = 0
    <3> DEFINE none == incidents
    <3>1. \A r \in Regions : none[r] = 0
      BY DEF Init
    <3> HIDE DEF none
    <3>2. Total(none, Regions) = 0
      BY <2>1, <3>1, TotalOfZeros
    <3> QED  BY <3>2 DEF none
  <2>4. spawned = acked + Total(incidents, Regions) + writtenOff["incidents"]
    <3>1. spawned = 0 /\ acked = 0 /\ writtenOff["incidents"] = 0
      BY DEF Init
    <3> QED  BY <2>3, <3>1
  <2> QED  BY <2>1, <2>2, <2>4, AddUpMeans
<1>2. TypeOK /\ RegionsAddUp /\ [Next]_vars => RegionsAddUp'
  <2>1. ASSUME TypeOK, RegionsAddUp, Next PROVE RegionsAddUp'
    <3>1. /\ \A x \in Earnable : Total(Column(x), Regions) = stats.earned[x]
          /\ spawned = acked + Total(incidents, Regions) + writtenOff["incidents"]
      BY <2>1, AddUpMeans
    <3>2. TypeOK'
      BY <2>1, EveryStep
    <3>3. \A x \in Earnable : Total(Column(x)', Regions) = stats'.earned[x]
      BY <2>1, <3>1, TotalsStep
    <3>4. spawned' = acked' + Total(incidents', Regions) + writtenOff'["incidents"]
      BY <2>1, <3>1, IncidentsStep
    <3> QED  BY <3>2, <3>3, <3>4, AddUpMeansAfter
  <2>2. RegionsAddUp /\ UNCHANGED vars => RegionsAddUp'
    BY DEF vars, perRegion, RegionsAddUp
  <2> QED  BY <2>1, <2>2
<1> QED  BY <1>1, <1>2, EconomyTypeCorrect, PTL DEF Spec

-----------------------------------------------------------------------------
(* The breakthroughs spent are the levels owned                            *)

LEMMA NodesFinite == IsFiniteSet(Nodes)
<1>1. IsFiniteSet({})
  BY FS_EmptySet
<1>2. IsFiniteSet({} \cup {"quantization"})
  BY <1>1, FS_AddElement
<1>3. IsFiniteSet(({} \cup {"quantization"}) \cup {"synthetic-data"})
  BY <1>2, FS_AddElement
<1>4. IsFiniteSet({"quantization", "synthetic-data"} \cup {"scaling-laws"})
  <2>1. {"quantization", "synthetic-data"} = ({} \cup {"quantization"}) \cup {"synthetic-data"}
    OBVIOUS
  <2> QED  BY <1>3, <2>1, FS_AddElement
<1>5. IsFiniteSet(({"quantization", "synthetic-data"} \cup {"scaling-laws"}) \cup {"self-healing"})
  BY <1>4, FS_AddElement
<1> DEFINE four == {"quantization", "synthetic-data", "scaling-laws", "self-healing"}
<1>6. IsFiniteSet(four)
  <2>1. four = ({"quantization", "synthetic-data"} \cup {"scaling-laws"}) \cup {"self-healing"}
    OBVIOUS
  <2> QED  BY <1>5, <2>1
<1>7. Nodes = (four \cup {"procurement"}) \cup {"blueprints"}
  BY DEF Nodes
<1> HIDE DEF four
<1>8. IsFiniteSet(four \cup {"procurement"})
  BY <1>6, FS_AddElement
<1> QED  BY <1>7, <1>8, FS_AddElement

\* What the first n levels of a node cost, and what all levels owned are worth.
Prices(node) == [l \in Nat |-> NodeCost(node, l)]
Paid(node, n) == Total(Prices(node), 0..(n - 1))
Worth(owned) == [node \in Nodes |-> Paid(node, owned[node])]

LEMMA PaidIsSum ==
  ASSUME NEW node, NEW n \in Nat
  PROVE  MapThenSumSet(LAMBDA l : NodeCost(node, l), 0..(n - 1)) = Paid(node, n)
<1> DEFINE S == 0..(n - 1)
           f == Prices(node)
           Rec(sum) == sum = [s \in SUBSET S |->
             IF s = {} THEN 0
             ELSE NodeCost(node, CHOOSE x \in s : TRUE) + sum[s \ {CHOOSE x \in s : TRUE}]]
           it == CHOOSE sum : Rec(sum)
<1>1. MapThenSumSet(LAMBDA l : NodeCost(node, l), S) = it[S]
  BY DEF MapThenSumSet, MapThenFoldSet
<1>2. IsFiniteSet(S) /\ S \subseteq Nat
  BY FS_Interval
<1>3. ASSUME NEW sum, NEW s \in SUBSET S
      PROVE  Summing(f, s, sum) =
               (IF s = {} THEN 0 ELSE NodeCost(node, CHOOSE x \in s : TRUE) + sum[s \ {CHOOSE x \in s : TRUE}])
  <2>1. s # {} => Pick(s) \in Nat
    BY <1>2, PickInSet
  <2> QED  BY <2>1 DEF Summing, Pick, Prices
<1> HIDE DEF f, S
<1>4. \A sum : Rec(sum) <=> sum = [s \in SUBSET S |-> Summing(f, s, sum)]
  BY <1>3
<1>5. Sums(f, S) = [s \in SUBSET S |-> Summing(f, s, Sums(f, S))]
  BY <1>2, SumsRecur
<1> HIDE DEF Rec
<1>6. Rec(it)
  <2>1. Rec(Sums(f, S))
    BY <1>4, <1>5
  <2> QED  BY <2>1
<1> HIDE DEF it
<1>7. it = [s \in SUBSET S |-> Summing(f, s, it)]
  BY <1>4, <1>6
<1>8. it[S] = Total(f, S)
  BY <1>2, <1>7, SumsUnique
<1> QED  BY <1>1, <1>8 DEF f, S, Paid

LEMMA WorthIsSum ==
  ASSUME NEW owned \in [Nodes -> Nat]
  PROVE  MapThenSumSet(LAMBDA node : MapThenSumSet(LAMBDA l : NodeCost(node, l), 0..(owned[node] - 1)), Nodes)
           = Total(Worth(owned), Nodes)
<1> DEFINE S == Nodes
           f == Worth(owned)
           Cost(node) == MapThenSumSet(LAMBDA l : NodeCost(node, l), 0..(owned[node] - 1))
           Rec(sum) == sum = [s \in SUBSET S |->
             IF s = {} THEN 0
             ELSE Cost(CHOOSE x \in s : TRUE) + sum[s \ {CHOOSE x \in s : TRUE}]]
           it == CHOOSE sum : Rec(sum)
<1>1. MapThenSumSet(Cost, S) = it[S]
  <2> HIDE DEF Cost
  <2> QED  BY DEF MapThenSumSet, MapThenFoldSet
<1>2. IsFiniteSet(S)
  BY NodesFinite
<1>3. \A node \in S : Cost(node) = f[node]
  BY PaidIsSum DEF Worth
<1> HIDE DEF Cost, f, S
<1>4. ASSUME NEW sum, NEW s \in SUBSET S
      PROVE  Summing(f, s, sum) =
               (IF s = {} THEN 0 ELSE Cost(CHOOSE x \in s : TRUE) + sum[s \ {CHOOSE x \in s : TRUE}])
  <2>1. s # {} => Pick(s) \in S
    BY PickInSet
  <2> QED  BY <1>3, <2>1 DEF Summing, Pick
<1>5. \A sum : Rec(sum) <=> sum = [s \in SUBSET S |-> Summing(f, s, sum)]
  BY <1>4
<1>6. Sums(f, S) = [s \in SUBSET S |-> Summing(f, s, Sums(f, S))]
  BY <1>2, SumsRecur
<1> HIDE DEF Rec
<1>7. Rec(it)
  <2>1. Rec(Sums(f, S))
    BY <1>5, <1>6
  <2> QED  BY <2>1
<1> HIDE DEF it
<1>8. it = [s \in SUBSET S |-> Summing(f, s, it)]
  BY <1>5, <1>7
<1>9. it[S] = Total(f, S)
  BY <1>2, <1>8, SumsUnique
<1> QED  BY <1>1, <1>9 DEF f, S, Cost

LEMMA PaidMeans ==
  ASSUME TypeOK
  PROVE  MapThenSumSet(CostOfLevels, Nodes) = Total(Worth(levels), Nodes)
<1>1. levels \in [Nodes -> Nat]
  BY DEF TypeOK
<1>2. MapThenSumSet(LAMBDA node : MapThenSumSet(LAMBDA l : NodeCost(node, l), 0..(levels[node] - 1)), Nodes)
        = Total(Worth(levels), Nodes)
  BY <1>1, WorthIsSum
<1> QED  BY <1>2 DEF CostOfLevels

LEMMA PaidMeansAfter ==
  ASSUME TypeOK'
  PROVE  MapThenSumSet(CostOfLevels, Nodes)' = Total(Worth(levels'), Nodes)
<1>1. levels' \in [Nodes -> Nat]
  BY DEF TypeOK
<1>2. MapThenSumSet(LAMBDA node : MapThenSumSet(LAMBDA l : NodeCost(node, l), 0..(levels'[node] - 1)), Nodes)
        = Total(Worth(levels'), Nodes)
  BY <1>1, WorthIsSum
<1> QED  BY <1>2 DEF CostOfLevels, MapThenSumSet, MapThenFoldSet

LEMMA PaidTypes ==
  ASSUME NEW node \in Nodes, NEW n \in Nat
  PROVE  /\ Paid(node, n) \in Nat
         /\ Paid(node, n + 1) = Paid(node, n) + NodeCost(node, n)
<1> DEFINE f == Prices(node)
           S == 0..n
           T == 0..(n - 1)
<1>1. \A l \in Nat : f[l] = NodeCost(node, l) /\ f[l] \in Nat
  BY PriceTypes DEF Prices
<1>2. /\ IsFiniteSet(S) /\ IsFiniteSet(T) /\ n \in S /\ S \subseteq Nat /\ T \subseteq Nat
      /\ S \ {n} = T /\ 0..((n + 1) - 1) = S
  BY FS_Interval
<1> DEFINE g == [l \in S |-> f[l]]
           h == [l \in T |-> f[l]]
<1> HIDE DEF f, S, T
<1>3. g \in [S -> Int] /\ g \in [S -> Nat] /\ h \in [T -> Nat]
  BY <1>1, <1>2
<1>4. /\ \A l \in S : g[l] = f[l]
      /\ \A l \in T : h[l] = f[l]
  OBVIOUS
<1> HIDE DEF g, h
<1>5. Total(g, S) = Total(f, S) /\ Total(h, T) = Total(f, T)
  BY <1>2, <1>4, TotalSame
<1>6. Total(g, S) = Total(f, T) + g[n]
  <2>1. \A l \in S \ {n} : f[l] = g[l]
    BY <1>4
  <2>2. Total(g, S) = Total(f, S \ {n}) + g[n]
    BY <1>2, <1>3, <2>1, TotalRemove
  <2> QED  BY <1>2, <2>2
<1>7. Total(f, T) \in Nat
  <2>1. Total(h, T) \in Nat
    BY <1>2, <1>3, TotalType
  <2> QED  BY <1>5, <2>1
<1>8. Total(f, S) = Total(f, T) + NodeCost(node, n)
  BY <1>1, <1>2, <1>4, <1>5, <1>6
<1>9. Paid(node, n) = Total(f, T) /\ Paid(node, n + 1) = Total(f, S)
  BY <1>2 DEF Paid, f, T
<1> QED  BY <1>7, <1>8, <1>9

LEMMA WorthTypes ==
  ASSUME NEW owned \in [Nodes -> Nat]
  PROVE  /\ Worth(owned) \in [Nodes -> Nat] /\ Worth(owned) \in [Nodes -> Int]
         /\ \A node \in Nodes : Worth(owned)[node] = Paid(node, owned[node])
<1>1. \A node \in Nodes : Paid(node, owned[node]) \in Nat
  BY PaidTypes
<1> QED  BY <1>1 DEF Worth

\* A level more is worth what it costs.
LEMMA WorthOfOneMore ==
  ASSUME NEW owned \in [Nodes -> Nat], NEW node \in Nodes
  PROVE  Total(Worth([owned EXCEPT ![node] = @ + 1]), Nodes)
           = Total(Worth(owned), Nodes) + NodeCost(node, owned[node])
<1> DEFINE next == [owned EXCEPT ![node] = @ + 1]
           f == Worth(owned)
           g == Worth(next)
<1>1. /\ next \in [Nodes -> Nat] /\ next[node] = owned[node] + 1 /\ owned[node] \in Nat
      /\ \A o \in Nodes \ {node} : next[o] = owned[o]
  OBVIOUS
<1> HIDE DEF next
<1>2. /\ f \in [Nodes -> Int] /\ g \in [Nodes -> Int] /\ f \in [Nodes -> Nat]
      /\ f[node] = Paid(node, owned[node]) /\ g[node] = Paid(node, owned[node] + 1)
      /\ \A o \in Nodes \ {node} : g[o] = f[o]
  BY <1>1, WorthTypes
<1> HIDE DEF f, g
<1>3. Total(g, Nodes) = (Total(f, Nodes) - f[node]) + g[node]
  BY <1>2, NodesFinite, TotalChange
<1>4. Total(f, Nodes) \in Nat
  BY <1>2, NodesFinite, TotalType
<1>5. /\ Paid(node, owned[node] + 1) = Paid(node, owned[node]) + NodeCost(node, owned[node])
      /\ Paid(node, owned[node]) \in Nat /\ NodeCost(node, owned[node]) \in Nat
  BY <1>1, PaidTypes, PriceTypes
<1>6. Total(g, Nodes) = Total(f, Nodes) + NodeCost(node, owned[node])
  BY <1>2, <1>3, <1>4, <1>5
<1> QED  BY <1>6 DEF f, g, next

\* Breakthroughs are spent on levels and on nothing else.
LEMMA SpentOnLevels ==
  ASSUME TypeOK, Next
  PROVE  \/ UNCHANGED levels /\ stats'.spent["breakthroughs"] = stats.spent["breakthroughs"]
         \/ \E node \in Nodes :
              /\ levels[node] < MaxLevel(node)
              /\ levels' = [levels EXCEPT ![node] = @ + 1]
              /\ stats'.spent["breakthroughs"] =
                   stats.spent["breakthroughs"] + NodeCost(node, levels[node])
<1>1. ASSUME NEW node \in Wanted, BuyBreakthrough(node)
      PROVE  /\ node \in Nodes
             /\ levels[node] < MaxLevel(node)
             /\ levels' = [levels EXCEPT ![node] = @ + 1]
             /\ stats'.spent["breakthroughs"] =
                  stats.spent["breakthroughs"] + NodeCost(node, levels[node])
  <2> DEFINE cost == NodeCost(node, levels[node])
  <2>1. node \in Nodes
    BY EconomyAssumption DEF EconomyAssumption
  <2>2. cost \in Nat
    BY <2>1, PriceTypes DEF TypeOK
  <2>3. Settles(Nothing, Only("breakthroughs", cost))
    BY <1>1, <2>1, BuyBreakthroughTrades
  <2>4. stats'.spent["breakthroughs"] =
          stats.spent["breakthroughs"] + Only("breakthroughs", cost)["breakthroughs"]
    BY <2>3, Settlement, ResourceNames
  <2> HIDE DEF cost
  <2>5. Only("breakthroughs", cost)["breakthroughs"] = cost
    BY <2>2, AmountTypes, ResourceNames
  <2>6. levels[node] < MaxLevel(node) /\ levels' = [levels EXCEPT ![node] = @ + 1]
    BY <1>1 DEF BuyBreakthrough
  <2> QED  BY <2>1, <2>4, <2>5, <2>6 DEF cost
<1>2. CASE UNCHANGED levels
  <2>1. CASE Trades
    <3>1. PICK gain, loss : Settles(gain, loss) /\ loss["breakthroughs"] = 0
      BY <1>2, <2>1 DEF Trades
    <3>2. stats'.spent["breakthroughs"] = stats.spent["breakthroughs"] + loss["breakthroughs"]
      BY <3>1, Settlement, ResourceNames
    <3>3. stats.spent["breakthroughs"] \in Nat
      BY ResourceNames DEF TypeOK
    <3> QED  BY <1>2, <3>1, <3>2, <3>3
  <2>2. CASE ShipGeneration
    BY <1>2, <2>2, Shipment
  <2> QED  BY <2>1, <2>2, EveryStep
<1>3. UNCHANGED levels \/ \E node \in Wanted : BuyBreakthrough(node)
  <2>1. CASE PlayerAction
    BY <2>1 DEF PlayerAction, AckIncident, Buy, Hire, Experiment, ShipGeneration
  <2>2. CASE \E r \in Regions : \/ \E resource \in {"engineering", "research"} : ToolCall(r, resource)
                               \/ \E now \in Times : ToolFailure(r, now)
                               \/ \E at \in Times, tokens \in Tokens : TokenUsage(r, tokens, at)
    BY <2>2 DEF ToolCall, ToolFailure, TokenUsage
  <2>3. CASE \E r \in Regions : \/ Prompt(r) \/ Stop(r) \/ TrainingRun(r) \/ OtherEvent(r)
                               \/ GoesDark(r)
    BY <2>3 DEF Prompt, Stop, TrainingRun, OtherEvent, GoesDark
  <2> QED  BY <2>1, <2>2, <2>3 DEF Next
<1> QED  BY <1>1, <1>2, <1>3

LEMMA LevelsStep ==
  ASSUME TypeOK, LevelsArePaid, Next
  PROVE  LevelsArePaid'
<1>1. /\ \A node \in Nodes : levels[node] <= MaxLevel(node)
      /\ stats.spent["breakthroughs"] = Total(Worth(levels), Nodes)
  BY PaidMeans DEF LevelsArePaid
<1>2. TypeOK' /\ levels \in [Nodes -> Nat]
  BY EveryStep DEF TypeOK
<1>3. CASE UNCHANGED levels /\ stats'.spent["breakthroughs"] = stats.spent["breakthroughs"]
  <2>1. stats'.spent["breakthroughs"] = Total(Worth(levels'), Nodes)
    BY <1>1, <1>3
  <2> QED  BY <1>1, <1>2, <1>3, <2>1, PaidMeansAfter DEF LevelsArePaid
<1>4. ASSUME NEW node \in Nodes,
             levels[node] < MaxLevel(node),
             levels' = [levels EXCEPT ![node] = @ + 1],
             stats'.spent["breakthroughs"] =
               stats.spent["breakthroughs"] + NodeCost(node, levels[node])
      PROVE  LevelsArePaid'
  <2>1. Total(Worth(levels'), Nodes) = Total(Worth(levels), Nodes) + NodeCost(node, levels[node])
    BY <1>2, <1>4, WorthOfOneMore
  <2>2. \A o \in Nodes : levels'[o] <= MaxLevel(o)
    <3>1. levels'[node] = levels[node] + 1 /\ \A o \in Nodes \ {node} : levels'[o] = levels[o]
      BY <1>2, <1>4
    <3>2. levels[node] \in Nat /\ MaxLevel(node) \in Nat
      BY <1>2 DEF MaxLevel, Nodes
    <3> QED  BY <1>1, <1>4, <3>1, <3>2
  <2>3. stats'.spent["breakthroughs"] = Total(Worth(levels'), Nodes)
    BY <1>1, <1>4, <2>1
  <2> QED  BY <1>2, <2>2, <2>3, PaidMeansAfter DEF LevelsArePaid
<1> QED  BY <1>3, <1>4, SpentOnLevels

(* Every breakthrough ever spent bought a level that the laboratory still  *)
(* has, and no node is past its maximum, whatever ships in between         *)
(* (actionBuyBreakthrough, actionShipGeneration).                          *)
THEOREM LevelsStayPaid == Spec => []LevelsArePaid
<1>1. Init => LevelsArePaid
  <2> SUFFICES ASSUME Init PROVE LevelsArePaid
    OBVIOUS
  <2>1. TypeOK /\ levels \in [Nodes -> Nat]
    BY InitType DEF TypeOK
  <2>2. \A node \in Nodes : levels[node] = 0 /\ 0 <= MaxLevel(node)
    BY DEF Init, MaxLevel, Nodes
  <2>3. \A node \in Nodes : Paid(node, 0) = 0
    <3>1. 0..(0 - 1) = {}
      OBVIOUS
    <3> QED  BY <3>1, TotalOfNone DEF Paid
  <2>4. \A node \in Nodes : Worth(levels)[node] = 0
    BY <2>1, <2>2, <2>3, WorthTypes
  <2>5. Total(Worth(levels), Nodes) = 0
    <3> DEFINE f == Worth(levels)
    <3>1. \A node \in Nodes : f[node] = 0
      BY <2>4
    <3> HIDE DEF f
    <3>2. Total(f, Nodes) = 0
      BY <3>1, NodesFinite, TotalOfZeros
    <3> QED  BY <3>2 DEF f
  <2>6. stats.spent["breakthroughs"] = 0
    BY AmountTypes, ResourceNames DEF Init
  <2> QED  BY <2>1, <2>2, <2>5, <2>6, PaidMeans DEF LevelsArePaid
<1>2. TypeOK /\ LevelsArePaid /\ [Next]_vars => LevelsArePaid'
  <2>1. ASSUME TypeOK, LevelsArePaid, UNCHANGED vars PROVE LevelsArePaid'
    <3>1. TypeOK' /\ levels' = levels /\ stats' = stats
      BY <2>1 DEF vars, perRegion, TypeOK
    <3>2. stats'.spent["breakthroughs"] = Total(Worth(levels'), Nodes)
      BY <2>1, <3>1, PaidMeans DEF LevelsArePaid
    <3> QED  BY <2>1, <3>1, <3>2, PaidMeansAfter DEF LevelsArePaid
  <2> QED  BY <2>1, LevelsStep
<1> QED  BY <1>1, <1>2, EconomyTypeCorrect, PTL DEF Spec

(***************************************************************************)
(* RegionLife                                                              *)
(***************************************************************************)

USE RegionsAssumption, RegionLifeAssumption

-----------------------------------------------------------------------------
(* The status of a region                                                  *)

LEMMA DerivedType ==
  ASSUME NEW g, NEW r
  PROVE  DerivedStatus(g, r) \in RegionStatuses
BY DEF DerivedStatus, RegionStatuses

\* One working session makes a region hot.
LEMMA DerivedHot ==
  ASSUME NEW g, NEW r, NEW s \in Sessions,
         g.sessionRegions[s] = r, g.sessionStatus[s] = "working"
  PROVE  DerivedStatus(g, r) = "hot"
<1>1. s \in SessionsIn(g, r)
  BY DEF SessionsIn
<1>2. "working" \in {g.sessionStatus[t] : t \in SessionsIn(g, r)} \ {"none"}
  BY <1>1
<1> QED  BY <1>2 DEF DerivedStatus

\* The status depends on the sessions of the region and on nothing else.
LEMMA DerivedSame ==
  ASSUME NEW g, NEW h, NEW r,
         \A s \in Sessions : g.sessionRegions[s] = r <=> h.sessionRegions[s] = r,
         \A s \in Sessions : g.sessionRegions[s] = r => g.sessionStatus[s] = h.sessionStatus[s]
  PROVE  DerivedStatus(g, r) = DerivedStatus(h, r)
<1>1. SessionsIn(g, r) = SessionsIn(h, r)
  BY DEF SessionsIn
<1>2. \A s \in SessionsIn(g, r) : g.sessionStatus[s] = h.sessionStatus[s]
  BY DEF SessionsIn
<1>3. {g.sessionStatus[s] : s \in SessionsIn(g, r)} = {h.sessionStatus[s] : s \in SessionsIn(h, r)}
  BY <1>1, <1>2
<1> QED  BY <1>3 DEF DerivedStatus

-----------------------------------------------------------------------------
(* What each part of the reducer does to a game                            *)

\* h is g but for the status of r, which is the one its sessions give it.
Refreshed(g, h, r) ==
  /\ h \in Games
  /\ h.sessionRegions = g.sessionRegions /\ h.sessionStatus = g.sessionStatus
  /\ \A q \in RegionIds \ {r} : h.status[q] = g.status[q]
  /\ h.status[r] = DerivedStatus(h, r)
  /\ h.completionBonus = g.completionBonus

LEMMA RefreshFacts ==
  ASSUME NEW g \in Games, NEW r \in RegionIds, NEW h, h = RefreshRegionStatus(g, r)
  PROVE  Refreshed(g, h, r)
<1>1. h = [g EXCEPT !.status = [g.status EXCEPT ![r] = DerivedStatus(g, r)]]
  BY DEF RefreshRegionStatus, Games
<1>2. /\ h.sessionRegions = g.sessionRegions /\ h.sessionStatus = g.sessionStatus
      /\ h.status = [g.status EXCEPT ![r] = DerivedStatus(g, r)]
      /\ h.completionBonus = g.completionBonus
  BY <1>1 DEF Games
<1>3. g.status \in [RegionIds -> RegionStatuses \cup {"none"}]
  BY DEF Games
<1>4. h.status \in [RegionIds -> RegionStatuses \cup {"none"}]
  BY <1>2, <1>3, DerivedType
<1>5. h \in Games
  BY <1>1, <1>2, <1>4 DEF Games
<1>6. h.status[r] = DerivedStatus(g, r) /\ \A q \in RegionIds \ {r} : h.status[q] = g.status[q]
  BY <1>2, <1>3
<1>7. DerivedStatus(g, r) = DerivedStatus(h, r)
  BY <1>2, DerivedSame
<1> QED  BY <1>2, <1>5, <1>6, <1>7 DEF Refreshed

LEMMA RegionOfType ==
  ASSUME NEW g \in Games, NEW s \in Sessions, NEW cwd \in RegionIds \cup {None}
  PROVE  RegionOf(g, s, cwd) \in RegionIds
<1>1. g.sessionRegions[s] \in RegionIds \cup {None}
  BY DEF Games
<1> QED  BY <1>1 DEF RegionOf

LEMMA ResolveFacts ==
  ASSUME NEW g \in Games, NEW s \in Sessions, NEW r \in RegionIds,
         NEW h, h = ResolveRegion(g, s, r)
  PROVE  /\ h \in Games
         /\ h.sessionRegions = [g.sessionRegions EXCEPT ![s] = r]
         /\ h.sessionStatus = g.sessionStatus
         /\ \A q \in RegionIds \ {r} : h.status[q] = g.status[q]
         /\ h.completionBonus = g.completionBonus
<1>1. h = [g EXCEPT !.status = [g.status EXCEPT ![r] = IF g.status[r] = "none" THEN "idle" ELSE g.status[r]],
                    !.sessionRegions = [g.sessionRegions EXCEPT ![s] = r]]
  BY DEF ResolveRegion, Games
<1>2. /\ h.sessionRegions = [g.sessionRegions EXCEPT ![s] = r]
      /\ h.sessionStatus = g.sessionStatus
      /\ h.status = [g.status EXCEPT ![r] = IF g.status[r] = "none" THEN "idle" ELSE g.status[r]]
      /\ h.completionBonus = g.completionBonus
  BY <1>1 DEF Games
<1>3. /\ g.status \in [RegionIds -> RegionStatuses \cup {"none"}]
      /\ g.sessionRegions \in [Sessions -> RegionIds \cup {None}]
  BY DEF Games
<1>4. h.status \in [RegionIds -> RegionStatuses \cup {"none"}]
  BY <1>2, <1>3 DEF RegionStatuses
<1>5. h.sessionRegions \in [Sessions -> RegionIds \cup {None}]
  BY <1>2, <1>3
<1>6. h \in Games
  BY <1>1, <1>2, <1>4, <1>5 DEF Games
<1> QED  BY <1>2, <1>3, <1>6

LEMMA MirrorType ==
  ASSUME NEW old \in SessionStatuses \cup {"none"}, NEW e
  PROVE  MirrorStatus(old, e) \in SessionStatuses \cup {"none"}
BY DEF MirrorStatus, SessionStatuses

WithStatus(g, s, new) == [g EXCEPT !.sessionStatus = [g.sessionStatus EXCEPT ![s] = new]]

LEMMA StatusSetFacts ==
  ASSUME NEW g \in Games, NEW s \in Sessions, NEW new \in SessionStatuses \cup {"none"},
         NEW h, h = WithStatus(g, s, new)
  PROVE  /\ h \in Games
         /\ h.sessionRegions = g.sessionRegions /\ h.status = g.status
         /\ h.sessionStatus = [g.sessionStatus EXCEPT ![s] = new]
         /\ h.completionBonus = g.completionBonus
<1>2. /\ h.sessionRegions = g.sessionRegions /\ h.status = g.status
      /\ h.sessionStatus = [g.sessionStatus EXCEPT ![s] = new]
      /\ h.completionBonus = g.completionBonus
  BY DEF Games, WithStatus
<1>3. g.sessionStatus \in [Sessions -> SessionStatuses \cup {"none"}]
  BY DEF Games
<1>4. h.sessionStatus \in [Sessions -> SessionStatuses \cup {"none"}]
  BY <1>2, <1>3
<1>5. h \in Games
  BY <1>4 DEF Games, WithStatus
<1> QED  BY <1>2, <1>5

\* An event changes accruals and bonuses, and a SessionEnd forgets the session.
LEMMA EffectFacts ==
  ASSUME NEW g \in Games, NEW s \in Sessions, NEW r \in RegionIds, NEW e \in Telemetry,
         NEW tokens \in Nat, NEW h, h = ApplyEffect(g, s, r, e, tokens)
  PROVE  /\ h \in Games
         /\ h.sessionRegions = IF e = "SessionEnd" THEN [g.sessionRegions EXCEPT ![s] = None]
                                                   ELSE g.sessionRegions
         /\ h.sessionStatus = IF e = "SessionEnd" THEN [g.sessionStatus EXCEPT ![s] = "none"]
                                                  ELSE g.sessionStatus
         /\ h.status = g.status
         /\ h.completionBonus >= g.completionBonus
<1>1. /\ g.turnAccrual \in [RegionIds -> Nat] /\ g.completionBonus \in Nat
      /\ g.computeFromTokens \in Nat /\ g.turnAccrual[r] \in Nat
  BY DEF Games
<1>2. CASE e = "UserPromptSubmit"
  <2>1. h = [g EXCEPT !.turnAccrual = [g.turnAccrual EXCEPT ![r] = 0]]
    BY <1>2 DEF ApplyEffect, Games
  <2>2. [g.turnAccrual EXCEPT ![r] = 0] \in [RegionIds -> Nat]
    BY <1>1
  <2>3. /\ h.sessionRegions = g.sessionRegions /\ h.sessionStatus = g.sessionStatus
        /\ h.status = g.status /\ h.completionBonus = g.completionBonus
    BY <2>1 DEF Games
  <2>4. h \in Games
    BY <2>1, <2>2 DEF Games
  <2> QED  BY <1>1, <1>2, <2>3, <2>4
<1>3. CASE e = "TokenUsage"
  <2>1. h = [g EXCEPT !.computeFromTokens = g.computeFromTokens + tokens,
                      !.turnAccrual = [g.turnAccrual EXCEPT ![r] = g.turnAccrual[r] + tokens]]
    BY <1>3 DEF ApplyEffect, ApplyTokenUsage, Games
  <2>2. [g.turnAccrual EXCEPT ![r] = g.turnAccrual[r] + tokens] \in [RegionIds -> Nat]
    BY <1>1
  <2>3. g.computeFromTokens + tokens \in Nat
    BY <1>1
  <2>4. /\ h.sessionRegions = g.sessionRegions /\ h.sessionStatus = g.sessionStatus
        /\ h.status = g.status /\ h.completionBonus = g.completionBonus
    BY <2>1 DEF Games
  <2>5. h \in Games
    BY <2>1, <2>2, <2>3 DEF Games
  <2> QED  BY <1>1, <1>3, <2>4, <2>5
<1>4. CASE e = "Stop"
  <2>1. h = [g EXCEPT !.completionBonus = g.completionBonus + g.turnAccrual[r],
                      !.turnAccrual = [g.turnAccrual EXCEPT ![r] = 0]]
    BY <1>4 DEF ApplyEffect, ApplyStop, Games
  <2>2. [g.turnAccrual EXCEPT ![r] = 0] \in [RegionIds -> Nat]
    BY <1>1
  <2>3. /\ g.completionBonus + g.turnAccrual[r] \in Nat
        /\ g.completionBonus + g.turnAccrual[r] >= g.completionBonus
    BY <1>1
  <2>4. /\ h.sessionRegions = g.sessionRegions /\ h.sessionStatus = g.sessionStatus
        /\ h.status = g.status /\ h.completionBonus = g.completionBonus + g.turnAccrual[r]
    BY <2>1 DEF Games
  <2>5. h \in Games
    BY <2>1, <2>2, <2>3 DEF Games
  <2> QED  BY <1>1, <1>4, <2>3, <2>4, <2>5
<1>5. CASE e = "SessionEnd"
  <2>1. h = [g EXCEPT !.sessionRegions = [g.sessionRegions EXCEPT ![s] = None],
                      !.sessionStatus = [g.sessionStatus EXCEPT ![s] = "none"]]
    BY <1>5 DEF ApplyEffect, Games
  <2>2. [g.sessionRegions EXCEPT ![s] = None] \in [Sessions -> RegionIds \cup {None}]
    BY DEF Games
  <2>3. [g.sessionStatus EXCEPT ![s] = "none"] \in [Sessions -> SessionStatuses \cup {"none"}]
    BY DEF Games
  <2>4. /\ h.sessionRegions = [g.sessionRegions EXCEPT ![s] = None]
        /\ h.sessionStatus = [g.sessionStatus EXCEPT ![s] = "none"]
        /\ h.status = g.status /\ h.completionBonus = g.completionBonus
    BY <2>1 DEF Games
  <2>5. h \in Games
    BY <2>1, <2>2, <2>3 DEF Games
  <2> QED  BY <1>1, <1>5, <2>4, <2>5
<1>6. CASE e \in {"Asks", "Activity"}
  <2>1. h = g
    BY <1>6 DEF ApplyEffect
  <2> QED  BY <1>1, <1>6, <2>1
<1> QED  BY <1>2, <1>3, <1>4, <1>5, <1>6 DEF Telemetry

LEMMA TelemetryFacts ==
  ASSUME NEW g \in Games, NEW s \in Sessions, NEW cwd \in RegionIds \cup {None},
         NEW e \in Telemetry, NEW tokens \in Nat,
         NEW r, r = RegionOf(g, s, cwd), NEW h, h = ApplyTelemetry(g, s, cwd, e, tokens)
  PROVE  /\ h \in Games /\ r \in RegionIds
         /\ h.sessionRegions = [g.sessionRegions EXCEPT ![s] = IF e = "SessionEnd" THEN None ELSE r]
         /\ h.sessionStatus = [g.sessionStatus EXCEPT ![s] =
                                 IF e = "SessionEnd" THEN "none"
                                 ELSE MirrorStatus(g.sessionStatus[s], e)]
         /\ \A q \in RegionIds \ {r} : h.status[q] = g.status[q]
         /\ h.status[r] = DerivedStatus(h, r)
         /\ h.completionBonus >= g.completionBonus
<1>1. r \in RegionIds
  BY RegionOfType
<1>2. PICK a : a = ResolveRegion(g, s, r)
  OBVIOUS
<1>3. /\ a \in Games
      /\ a.sessionRegions = [g.sessionRegions EXCEPT ![s] = r]
      /\ a.sessionStatus = g.sessionStatus
      /\ \A q \in RegionIds \ {r} : a.status[q] = g.status[q]
      /\ a.completionBonus = g.completionBonus
  BY <1>1, <1>2, ResolveFacts
<1>4. PICK m : m = MirrorStatus(g.sessionStatus[s], e)
  OBVIOUS
<1>5. /\ g.sessionStatus \in [Sessions -> SessionStatuses \cup {"none"}]
      /\ g.sessionRegions \in [Sessions -> RegionIds \cup {None}]
  BY DEF Games
<1>6. m \in SessionStatuses \cup {"none"}
  <2>1. g.sessionStatus[s] \in SessionStatuses \cup {"none"}
    BY <1>5
  <2> QED  BY <1>4, <2>1, MirrorType
<1>7. PICK b : b = WithStatus(a, s, m)
  OBVIOUS
<1>a. a \in Games
  BY <1>3
<1>8. /\ b \in Games
      /\ b.sessionRegions = a.sessionRegions /\ b.status = a.status
      /\ b.sessionStatus = [a.sessionStatus EXCEPT ![s] = m]
      /\ b.completionBonus = a.completionBonus
  BY <1>a, <1>6, <1>7, StatusSetFacts
<1>9. PICK c : c = ApplyEffect(b, s, r, e, tokens)
  OBVIOUS
<1>10. /\ c \in Games
       /\ c.sessionRegions = IF e = "SessionEnd" THEN [b.sessionRegions EXCEPT ![s] = None]
                                                 ELSE b.sessionRegions
       /\ c.sessionStatus = IF e = "SessionEnd" THEN [b.sessionStatus EXCEPT ![s] = "none"]
                                                ELSE b.sessionStatus
       /\ c.status = b.status
       /\ c.completionBonus >= b.completionBonus
  BY <1>1, <1>8, <1>9, EffectFacts
<1>11. h = RefreshRegionStatus(c, r)
  <2>1. [a EXCEPT !.sessionStatus[s] = MirrorStatus(@, e)] = b
    BY <1>3, <1>4, <1>7 DEF Games, WithStatus
  <2> QED  BY <1>2, <1>9, <2>1 DEF ApplyTelemetry
<1>c. c \in Games
  BY <1>10
<1>d. Refreshed(c, h, r)
  BY <1>1, <1>c, <1>11, RefreshFacts
<1>12. /\ h \in Games
       /\ h.sessionRegions = c.sessionRegions /\ h.sessionStatus = c.sessionStatus
       /\ \A q \in RegionIds \ {r} : h.status[q] = c.status[q]
       /\ h.status[r] = DerivedStatus(h, r)
       /\ h.completionBonus = c.completionBonus
  BY <1>d DEF Refreshed
<1>13. h.sessionRegions = [g.sessionRegions EXCEPT ![s] = IF e = "SessionEnd" THEN None ELSE r]
  BY <1>3, <1>5, <1>8, <1>10, <1>12
<1>14. h.sessionStatus = [g.sessionStatus EXCEPT ![s] = IF e = "SessionEnd" THEN "none" ELSE m]
  BY <1>3, <1>5, <1>8, <1>10, <1>12
<1>15. h.completionBonus >= g.completionBonus
  BY <1>3, <1>8, <1>10, <1>12
<1> QED  BY <1>1, <1>3, <1>4, <1>8, <1>10, <1>12, <1>13, <1>14, <1>15

\* A change of state sets the session's status and refreshes its region, if it has one.
LEMMA SessionStateFacts ==
  ASSUME NEW g \in Games, NEW s \in Sessions, NEW state,
         NEW h, h = ApplySessionState(g, s, state)
  PROVE  /\ h \in Games
         /\ h.sessionRegions = g.sessionRegions
         /\ h.sessionStatus = [g.sessionStatus EXCEPT ![s] = StatusOfState(state)]
         /\ \A q \in RegionIds : q # g.sessionRegions[s] => h.status[q] = g.status[q]
         /\ g.sessionRegions[s] # None =>
              h.status[g.sessionRegions[s]] = DerivedStatus(h, g.sessionRegions[s])
         /\ h.completionBonus = g.completionBonus
<1>1. StatusOfState(state) \in SessionStatuses
  BY DEF StatusOfState, SessionStatuses
<1>2. PICK a : a = WithStatus(g, s, StatusOfState(state))
  OBVIOUS
<1>3. /\ a \in Games
      /\ a.sessionRegions = g.sessionRegions /\ a.status = g.status
      /\ a.sessionStatus = [g.sessionStatus EXCEPT ![s] = StatusOfState(state)]
      /\ a.completionBonus = g.completionBonus
  BY <1>1, <1>2, StatusSetFacts
<1>a. a \in Games
  BY <1>3
<1>4. g.sessionRegions[s] \in RegionIds \cup {None}
  BY DEF Games
<1>5. CASE g.sessionRegions[s] = None
  <2>1. h = a
    BY <1>2, <1>5 DEF ApplySessionState, WithStatus, Games
  <2> QED  BY <1>3, <1>5, <2>1
<1>6. CASE g.sessionRegions[s] # None
  <2>1. PICK r \in RegionIds : r = g.sessionRegions[s]
    BY <1>4, <1>6
  <2>2. h = RefreshRegionStatus(a, r)
    BY <1>2, <1>3, <1>6, <2>1 DEF ApplySessionState, WithStatus, Games
  <2>3. Refreshed(a, h, r)
    BY <1>a, <2>1, <2>2, RefreshFacts
  <2> QED  BY <1>3, <2>1, <2>3 DEF Refreshed
<1> QED  BY <1>5, <1>6

-----------------------------------------------------------------------------
(* What a handler does for one session                                     *)

\* From g to h only session s is touched, and the regions of R, one of which it is in
\* afterwards if it is in any, have the status their sessions give them.
Touches(g, h, s, R) ==
  /\ g \in Games /\ h \in Games /\ R \subseteq RegionIds
  /\ \A t \in Sessions \ {s} : /\ h.sessionRegions[t] = g.sessionRegions[t]
                               /\ h.sessionStatus[t] = g.sessionStatus[t]
  /\ h.sessionRegions[s] \in R \cup {None}
  /\ \A q \in R : h.status[q] = DerivedStatus(h, q)
  /\ \A q \in RegionIds \ R : h.status[q] = g.status[q]
  /\ h.completionBonus >= g.completionBonus

\* A region that only others are in keeps its derived status.
LEMMA TouchesDerived ==
  ASSUME NEW g, NEW h, NEW s \in Sessions, NEW R, NEW q,
         Touches(g, h, s, R), g.sessionRegions[s] # q, h.sessionRegions[s] # q
  PROVE  DerivedStatus(g, q) = DerivedStatus(h, q)
<1>1. \A t \in Sessions : g.sessionRegions[t] = q <=> h.sessionRegions[t] = q
  BY DEF Touches
<1>2. \A t \in Sessions : g.sessionRegions[t] = q => g.sessionStatus[t] = h.sessionStatus[t]
  BY DEF Touches
<1> QED  BY <1>1, <1>2, DerivedSame

\* Two handlers in a row for one session.
LEMMA TouchesTwice ==
  ASSUME NEW g, NEW a, NEW h, NEW s \in Sessions, NEW R, NEW Q,
         Touches(g, a, s, R), Touches(a, h, s, Q), a.sessionRegions[s] \in Q \cup {None}
  PROVE  Touches(g, h, s, R \cup Q)
<1>1. /\ g \in Games /\ h \in Games /\ R \cup Q \subseteq RegionIds
      /\ h.sessionRegions[s] \in R \cup Q \cup {None}
  BY DEF Touches
<1>2. \A t \in Sessions \ {s} : /\ h.sessionRegions[t] = g.sessionRegions[t]
                                /\ h.sessionStatus[t] = g.sessionStatus[t]
  BY DEF Touches
<1>3. ASSUME NEW q \in R \cup Q
      PROVE  h.status[q] = DerivedStatus(h, q)
  <2>1. CASE q \in Q
    BY <2>1 DEF Touches
  <2>2. CASE q \notin Q
    <3>1. q \in RegionIds /\ q # None
      BY <1>1, <1>3, RegionsAssumption
    <3>2. a.sessionRegions[s] # q /\ h.sessionRegions[s] # q
      BY <2>2, <3>1 DEF Touches
    <3>3. DerivedStatus(a, q) = DerivedStatus(h, q)
      BY <3>2, TouchesDerived
    <3>4. h.status[q] = a.status[q] /\ a.status[q] = DerivedStatus(a, q)
      BY <1>3, <2>2, <3>1 DEF Touches
    <3> QED  BY <3>3, <3>4
  <2> QED  BY <2>1, <2>2
<1>4. \A q \in RegionIds \ (R \cup Q) : h.status[q] = g.status[q]
  BY DEF Touches
<1>5. h.completionBonus >= g.completionBonus
  <2>1. g.completionBonus \in Nat /\ a.completionBonus \in Nat /\ h.completionBonus \in Nat
    BY DEF Touches, Games
  <2>2. a.completionBonus >= g.completionBonus /\ h.completionBonus >= a.completionBonus
    BY DEF Touches
  <2> QED  BY <2>1, <2>2
<1> QED  BY <1>1, <1>2, <1>3, <1>4, <1>5 DEF Touches

\* No status is left unexplained, unless in a region that s was in and has left.
LEMMA TouchesExplained ==
  ASSUME NEW g, NEW h, NEW s \in Sessions, NEW R, NEW left, NEW left2,
         Touches(g, h, s, R), Explained(g, left), left \ R \subseteq left2,
         g.sessionRegions[s] \in R \cup left2 \cup {None}
  PROVE  Explained(h, left2)
<1> SUFFICES ASSUME NEW q \in RegionIds \ left2, h.status[q] # "none"
             PROVE  h.status[q] = DerivedStatus(h, q)
  BY DEF Explained
<1>1. CASE q \in R
  BY <1>1 DEF Touches
<1>2. CASE q \notin R
  <2>1. q # None
    BY RegionsAssumption
  <2>2. g.sessionRegions[s] # q /\ h.sessionRegions[s] # q
    BY <1>2, <2>1 DEF Touches
  <2>3. DerivedStatus(g, q) = DerivedStatus(h, q)
    BY ONLY <2>2, TouchesDerived, Touches(g, h, s, R), s \in Sessions
  <2>4. h.status[q] = g.status[q]
    BY <1>2 DEF Touches
  <2> QED  BY <1>2, <2>3, <2>4 DEF Explained
<1> QED  BY <1>1, <1>2

\* A region with a session that is idle or works does not turn dark.
LEMMA DerivedDark ==
  ASSUME NEW g, NEW r, NEW s \in Sessions, DerivedStatus(g, r) = "dark", g.sessionRegions[s] = r
  PROVE  g.sessionStatus[s] \in {"dark", "none"}
<1>1. s \in SessionsIn(g, r)
  BY DEF SessionsIn
<1>2. {g.sessionStatus[t] : t \in SessionsIn(g, r)} \ {"none"} = {"dark"}
  BY DEF DerivedStatus
<1> QED  BY <1>1, <1>2

LEMMA TouchesDark ==
  ASSUME NEW g, NEW h, NEW s \in Sessions, NEW R, Touches(g, h, s, R), DarkIsDark(g)
  PROVE  DarkIsDark(h)
<1> SUFFICES ASSUME NEW r \in RegionIds, NEW t \in Sessions,
                    h.status[r] = "dark", h.sessionRegions[t] = r
             PROVE  h.sessionStatus[t] \in {"dark", "none"}
  BY DEF DarkIsDark
<1>1. CASE r \in R
  <2>1. DerivedStatus(h, r) = "dark"
    BY <1>1 DEF Touches
  <2> QED  BY <2>1, DerivedDark
<1>2. CASE r \notin R
  <2>1. t # s
    BY <1>2, RegionsAssumption DEF Touches
  <2>2. /\ g.status[r] = "dark" /\ g.sessionRegions[t] = r
        /\ g.sessionStatus[t] = h.sessionStatus[t]
    BY <1>2, <2>1 DEF Touches
  <2> QED  BY <2>2 DEF DarkIsDark
<1> QED  BY <1>1, <1>2

\* The regions of the other sessions that work stay hot, and so is that of s if it works.
LEMMA TouchesAgrees ==
  ASSUME NEW g, NEW h, NEW s \in Sessions, NEW R, NEW state,
         NEW states \in [Sessions -> SessionStates \cup {"none"}],
         Touches(g, h, s, R), Agrees(states, g),
         state = "CC_WORKING" => h.sessionRegions[s] # None /\ h.sessionStatus[s] = "working"
  PROVE  Agrees([states EXCEPT ![s] = state], h)
<1> SUFFICES ASSUME NEW t \in Sessions, [states EXCEPT ![s] = state][t] = "CC_WORKING"
             PROVE  WorksIn(h, t)
  BY DEF Agrees
<1>1. h.sessionRegions[t] # None /\ h.sessionStatus[t] = "working"
  <2>1. CASE t = s
    BY <2>1
  <2>2. CASE t # s
    BY <2>2 DEF Touches, Agrees, WorksIn
  <2> QED  BY <2>1, <2>2
<1>2. PICK q : q = h.sessionRegions[t]
  OBVIOUS
<1>3. h.status[q] = "hot"
  <2>1. CASE q \in R
    <3>1. DerivedStatus(h, q) = "hot"
      BY <1>1, <1>2, DerivedHot
    <3> QED  BY <2>1, <3>1 DEF Touches
  <2>2. CASE q \notin R
    <3>1. t # s
      BY <1>1, <1>2, <2>2 DEF Touches
    <3>2. g.sessionRegions[t] = q /\ WorksIn(g, t)
      BY <1>2, <3>1 DEF Touches, Agrees
    <3>3. q \in RegionIds
      <4>1. h.sessionRegions \in [Sessions -> RegionIds \cup {None}]
        BY DEF Touches, Games
      <4> QED  BY <1>1, <1>2, <4>1
    <3> QED  BY <2>2, <3>2, <3>3 DEF Touches, WorksIn
  <2> QED  BY <2>1, <2>2
<1> QED  BY <1>1, <1>2, <1>3 DEF WorksIn

-----------------------------------------------------------------------------
(* The handlers                                                            *)

\* transition() touches the session's region, if it has one.
LEMMA StateTouches ==
  ASSUME NEW g \in Games, NEW s \in Sessions, NEW state,
         NEW h, h = ApplySessionState(g, s, state)
  PROVE  /\ Touches(g, h, s, {g.sessionRegions[s]} \ {None})
         /\ h.sessionRegions = g.sessionRegions
         /\ h.sessionStatus = [g.sessionStatus EXCEPT ![s] = StatusOfState(state)]
<1>1. /\ h \in Games
      /\ h.sessionRegions = g.sessionRegions
      /\ h.sessionStatus = [g.sessionStatus EXCEPT ![s] = StatusOfState(state)]
      /\ \A q \in RegionIds : q # g.sessionRegions[s] => h.status[q] = g.status[q]
      /\ g.sessionRegions[s] # None =>
           h.status[g.sessionRegions[s]] = DerivedStatus(h, g.sessionRegions[s])
      /\ h.completionBonus = g.completionBonus
  BY SessionStateFacts
<1>2. PICK R : R = {g.sessionRegions[s]} \ {None}
  OBVIOUS
<1>3. /\ g.sessionRegions \in [Sessions -> RegionIds \cup {None}]
      /\ g.sessionStatus \in [Sessions -> SessionStatuses \cup {"none"}]
      /\ g.completionBonus \in Nat
  BY DEF Games
<1>4. R \subseteq RegionIds /\ h.sessionRegions[s] \in R \cup {None}
  BY <1>1, <1>2, <1>3
<1>5. \A t \in Sessions \ {s} : /\ h.sessionRegions[t] = g.sessionRegions[t]
                                /\ h.sessionStatus[t] = g.sessionStatus[t]
  BY <1>1, <1>3
<1>6. \A q \in R : h.status[q] = DerivedStatus(h, q)
  BY <1>1, <1>2
<1>7. \A q \in RegionIds \ R : h.status[q] = g.status[q]
  BY <1>1, <1>2, RegionsAssumption
<1>8. h.completionBonus >= g.completionBonus
  BY <1>1, <1>3
<1>9. Touches(g, h, s, R)
  BY <1>1, <1>4, <1>5, <1>6, <1>7, <1>8 DEF Touches
<1> QED  BY <1>1, <1>2, <1>9

\* The game's reducer touches the region of the event.
LEMMA TelemetryTouches ==
  ASSUME NEW g \in Games, NEW s \in Sessions, NEW cwd \in RegionIds \cup {None},
         NEW e \in Telemetry, NEW tokens \in Nat,
         NEW r, r = RegionOf(g, s, cwd), NEW h, h = ApplyTelemetry(g, s, cwd, e, tokens)
  PROVE  /\ Touches(g, h, s, {r})
         /\ r \in RegionIds
         /\ h.sessionRegions[s] = IF e = "SessionEnd" THEN None ELSE r
         /\ h.sessionStatus[s] = IF e = "SessionEnd" THEN "none"
                                 ELSE MirrorStatus(g.sessionStatus[s], e)
<1>1. PICK m : m = IF e = "SessionEnd" THEN "none" ELSE MirrorStatus(g.sessionStatus[s], e)
  OBVIOUS
<1>2. /\ h \in Games /\ r \in RegionIds
      /\ h.sessionRegions = [g.sessionRegions EXCEPT ![s] = IF e = "SessionEnd" THEN None ELSE r]
      /\ h.sessionStatus = [g.sessionStatus EXCEPT ![s] = m]
      /\ \A q \in RegionIds \ {r} : h.status[q] = g.status[q]
      /\ h.status[r] = DerivedStatus(h, r)
      /\ h.completionBonus >= g.completionBonus
  BY <1>1, TelemetryFacts
<1>3. /\ g.sessionRegions \in [Sessions -> RegionIds \cup {None}]
      /\ g.sessionStatus \in [Sessions -> SessionStatuses \cup {"none"}]
  BY DEF Games
<1>4. h.sessionRegions[s] = (IF e = "SessionEnd" THEN None ELSE r) /\ h.sessionStatus[s] = m
  BY <1>2, <1>3
<1>5. \A t \in Sessions \ {s} : /\ h.sessionRegions[t] = g.sessionRegions[t]
                                /\ h.sessionStatus[t] = g.sessionStatus[t]
  BY <1>2, <1>3
<1>6. h.sessionRegions[s] \in {r} \cup {None}
  BY <1>4
<1>7. Touches(g, h, s, {r})
  BY <1>2, <1>5, <1>6 DEF Touches
<1> QED  BY <1>1, <1>2, <1>4, <1>7

LEMMA NextStateType ==
  ASSUME NEW state \in SessionStates \cup {"none"}, NEW e \in Telemetry
  PROVE  NextState(state, e) \in SessionStates
BY DEF NextState, ReduceState, StateEvent, InitialState, SessionStates, Telemetry

\* An event after which a session works is a prompt, or an activity of a session that
\* was working or silent.
LEMMA WorkingAfter ==
  ASSUME NEW state \in SessionStates \cup {"none"}, NEW e \in Telemetry,
         NextState(state, e) = "CC_WORKING"
  PROVE  \/ e = "UserPromptSubmit"
         \/ e \in {"Activity", "TokenUsage"} /\ state \in {"CC_WORKING", "STALE"}
BY DEF NextState, ReduceState, StateEvent, InitialState, SessionStates, Telemetry

\* The 'event' handler: the state machine's next state, the session in the region of the
\* event, and a game that knows when the session works.
LEMMA HandleFacts ==
  ASSUME NEW g \in Games, NEW state \in SessionStates \cup {"none"},
         NEW s \in Sessions, NEW cwd \in RegionIds \cup {None},
         NEW e \in Telemetry, NEW tokens \in Nat,
         state = "CC_WORKING" => g.sessionStatus[s] = "working",
         NEW r, r = RegionOf(g, s, cwd),
         NEW h, h = HandleEvent([state |-> state, game |-> g], s, e, cwd, tokens)
  PROVE  /\ Touches(g, h.game, s, {r}) /\ r \in RegionIds
         /\ h.state = NextState(state, e)
         /\ h.state \in SessionStates
         /\ e # "SessionEnd" => h.game.sessionRegions[s] = r
         /\ h.state = "CC_WORKING" => h.game.sessionRegions[s] = r /\ h.game.sessionStatus[s] = "working"
<1>1. PICK a : a = ApplyTelemetry(g, s, cwd, e, tokens)
  OBVIOUS
<1>2. PICK from : from = IF state = "none" THEN InitialState ELSE state
  OBVIOUS
<1>3. PICK to : to = NextState(state, e)
  OBVIOUS
<1>4. h.state = to /\ h.game = Transition(a, s, from, to)
  BY <1>1, <1>2, <1>3 DEF HandleEvent
<1>5. to \in SessionStates
  BY <1>3, NextStateType
<1>6. /\ Touches(g, a, s, {r}) /\ r \in RegionIds
      /\ a.sessionRegions[s] = IF e = "SessionEnd" THEN None ELSE r
      /\ a.sessionStatus[s] = IF e = "SessionEnd" THEN "none"
                              ELSE MirrorStatus(g.sessionStatus[s], e)
  BY <1>1, TelemetryTouches
<1>7. a \in Games
  BY <1>6 DEF Touches
<1>8. to = "CC_WORKING" =>
        \/ e = "UserPromptSubmit"
        \/ e \in {"Activity", "TokenUsage"} /\ state \in {"CC_WORKING", "STALE"}
  BY <1>3, WorkingAfter
<1>9. CASE from = to
  <2>1. h.game = a
    BY <1>4, <1>9 DEF Transition
  <2>2. to = "CC_WORKING" => a.sessionRegions[s] = r /\ a.sessionStatus[s] = "working"
    <3> SUFFICES ASSUME to = "CC_WORKING"
                 PROVE  a.sessionRegions[s] = r /\ a.sessionStatus[s] = "working"
      OBVIOUS
    <3>1. state = "CC_WORKING"
      BY <1>2, <1>9 DEF InitialState
    <3>2. e \in {"UserPromptSubmit", "Activity", "TokenUsage"}
      BY <1>8
    <3>3. MirrorStatus("working", e) = "working"
      BY <3>2 DEF MirrorStatus
    <3> QED  BY <1>6, <3>1, <3>2, <3>3
  <2> QED  BY <1>3, <1>4, <1>5, <1>6, <2>1, <2>2
<1>10. CASE from # to
  <2>1. h.game = ApplySessionState(a, s, to)
    BY <1>4, <1>10 DEF Transition
  <2>2. PICK b : b = h.game
    OBVIOUS
  <2>3. /\ Touches(a, b, s, {a.sessionRegions[s]} \ {None})
        /\ b.sessionRegions = a.sessionRegions
        /\ b.sessionStatus = [a.sessionStatus EXCEPT ![s] = StatusOfState(to)]
    <3>1. b = ApplySessionState(a, s, to)
      BY <2>1, <2>2
    <3> QED  BY ONLY <1>7, <3>1, s \in Sessions, StateTouches
  <2>4. PICK Q : Q = {a.sessionRegions[s]} \ {None}
    OBVIOUS
  <2>5. Touches(g, b, s, {r} \cup Q)
    <3>1. Touches(a, b, s, Q) /\ a.sessionRegions[s] \in Q \cup {None}
      BY <2>3, <2>4
    <3>2. Touches(g, a, s, {r})
      BY <1>6
    <3> QED  BY ONLY <3>1, <3>2, s \in Sessions, TouchesTwice
  <2>6. {r} \cup Q = {r}
    BY <1>6, <2>4
  <2>7. to = "CC_WORKING" => b.sessionRegions[s] = r /\ b.sessionStatus[s] = "working"
    <3>1. a.sessionStatus \in [Sessions -> SessionStatuses \cup {"none"}]
      BY <1>7 DEF Games
    <3>2. StatusOfState("CC_WORKING") = "working"
      BY DEF StatusOfState
    <3> QED  BY <1>6, <1>8, <2>3, <3>1, <3>2
  <2>8. e # "SessionEnd" => b.sessionRegions[s] = r
    BY <1>6, <2>3
  <2>9. Touches(g, b, s, {r})
    BY <2>5, <2>6
  <2> QED  BY <1>3, <1>4, <1>5, <1>6, <2>2, <2>7, <2>8, <2>9
<1> QED  BY <1>9, <1>10

\* What a poll of s makes of a state and a game.
Polled(state, g, s, r, h) ==
  \/ unread[s] = 0 /\ h = [state |-> state, game |-> g]
  \/ /\ unread[s] > 0
     /\ Touches(g, h.game, s, {r}) /\ r \in RegionIds
     /\ h.state = NextState(state, "TokenUsage")
     /\ h.state \in SessionStates
     /\ h.game.sessionRegions[s] = r
     /\ h.state = "CC_WORKING" => h.game.sessionRegions[s] = r /\ h.game.sessionStatus[s] = "working"

\* A poll that finds tokens is an event of the session's own region, or of Unassigned.
LEMMA PollFacts ==
  ASSUME NEW g \in Games, NEW state \in SessionStates \cup {"none"}, NEW s \in Sessions,
         unread[s] \in Nat,
         state = "CC_WORKING" => g.sessionStatus[s] = "working",
         NEW r, r = RegionOf(g, s, None),
         NEW h, h = Poll([state |-> state, game |-> g], s)
  PROVE  Polled(state, g, s, r, h)
<1>1. CASE unread[s] = 0
  BY <1>1 DEF Poll, Polled
<1>2. CASE unread[s] # 0
  <2> PICK tokens : tokens = unread[s]
    OBVIOUS
  <2> PICK e : e = "TokenUsage"
    OBVIOUS
  <2> PICK cwd : cwd = None
    OBVIOUS
  <2>1. h = HandleEvent([state |-> state, game |-> g], s, e, cwd, tokens)
    BY <1>2 DEF Poll
  <2>2. e \in Telemetry /\ cwd \in RegionIds \cup {None} /\ tokens \in Nat /\ r = RegionOf(g, s, cwd)
    BY DEF Telemetry
  <2>3. /\ Touches(g, h.game, s, {r}) /\ r \in RegionIds
        /\ h.state = NextState(state, e)
        /\ h.state \in SessionStates
        /\ e # "SessionEnd" => h.game.sessionRegions[s] = r
        /\ h.state = "CC_WORKING" => h.game.sessionRegions[s] = r /\ h.game.sessionStatus[s] = "working"
    BY ONLY <2>1, <2>2, HandleFacts, g \in Games, state \in SessionStates \cup {"none"}, s \in Sessions,
       state = "CC_WORKING" => g.sessionStatus[s] = "working"
  <2> QED  BY <1>2, <2>3 DEF Polled
<1> QED  BY <1>1, <1>2

\* What the handler leaves of its session: where the game has it, and what as.
LEMMA HandleSession ==
  ASSUME NEW g \in Games, NEW state, NEW s \in Sessions, NEW cwd \in RegionIds \cup {None},
         NEW e \in Telemetry, NEW tokens \in Nat,
         NEW h, h = HandleEvent([state |-> state, game |-> g], s, e, cwd, tokens)
  PROVE  /\ h.state = NextState(state, e)
         /\ e = "SessionEnd" => h.game.sessionRegions[s] = None
         /\ e # "SessionEnd" => h.game.sessionRegions[s] # None
         /\ h.game.sessionStatus[s] =
              IF h.state # IF state = "none" THEN InitialState ELSE state
                THEN StatusOfState(h.state)
                ELSE IF e = "SessionEnd" THEN "none" ELSE MirrorStatus(g.sessionStatus[s], e)
<1>1. PICK a : a = ApplyTelemetry(g, s, cwd, e, tokens)
  OBVIOUS
<1>2. PICK from : from = IF state = "none" THEN InitialState ELSE state
  OBVIOUS
<1>3. PICK r : r = RegionOf(g, s, cwd)
  OBVIOUS
<1>4. h.state = NextState(state, e) /\ h.game = Transition(a, s, from, h.state)
  BY <1>1, <1>2 DEF HandleEvent
<1>5. /\ Touches(g, a, s, {r}) /\ r \in RegionIds
      /\ a.sessionRegions[s] = IF e = "SessionEnd" THEN None ELSE r
      /\ a.sessionStatus[s] = IF e = "SessionEnd" THEN "none"
                              ELSE MirrorStatus(g.sessionStatus[s], e)
  BY <1>1, <1>3, TelemetryTouches
<1>6. a \in Games
  BY <1>5 DEF Touches
<1>7. r # None
  BY <1>5, RegionsAssumption
<1>8. CASE from = h.state
  <2>1. h.game = a
    BY <1>4, <1>8 DEF Transition
  <2> QED  BY <1>2, <1>4, <1>5, <1>7, <1>8, <2>1
<1>9. CASE from # h.state
  <2>1. PICK to, b : to = h.state /\ b = h.game
    OBVIOUS
  <2>2. b = ApplySessionState(a, s, to)
    BY <1>4, <1>9, <2>1 DEF Transition
  <2>3. /\ Touches(a, b, s, {a.sessionRegions[s]} \ {None})
        /\ b.sessionRegions = a.sessionRegions
        /\ b.sessionStatus = [a.sessionStatus EXCEPT ![s] = StatusOfState(to)]
    BY ONLY <1>6, <2>2, s \in Sessions, StateTouches
  <2>4. a.sessionStatus \in [Sessions -> SessionStatuses \cup {"none"}]
    BY <1>6 DEF Games
  <2>5. b.sessionRegions[s] = a.sessionRegions[s] /\ b.sessionStatus[s] = StatusOfState(to)
    BY <2>3, <2>4
  <2> QED  BY <1>2, <1>4, <1>5, <1>7, <1>9, <2>1, <2>5
<1> QED  BY <1>8, <1>9

\* The game's copy of a session follows the state machine through an event, or wakes.
LEMMA HandleMirrors ==
  ASSUME NEW g \in Games, NEW state \in SessionStates \cup {"none"},
         NEW s \in Sessions, NEW cwd \in RegionIds \cup {None},
         NEW e \in Telemetry, NEW tokens \in Nat, NEW awake,
         NEW h, h = HandleEvent([state |-> state, game |-> g], s, e, cwd, tokens),
         MirrorsOne(state, s \in awake, g, s)
  PROVE  MirrorsOne(h.state, s \in Woken(awake, s, state, e), h.game, s)
<1>1. /\ h.state = NextState(state, e)
      /\ e = "SessionEnd" => h.game.sessionRegions[s] = None
      /\ e # "SessionEnd" => h.game.sessionRegions[s] # None
      /\ h.game.sessionStatus[s] =
           IF h.state # IF state = "none" THEN InitialState ELSE state
             THEN StatusOfState(h.state)
             ELSE IF e = "SessionEnd" THEN "none" ELSE MirrorStatus(g.sessionStatus[s], e)
  BY HandleSession
<1>2. PICK old : old = g.sessionStatus[s]
  OBVIOUS
<1>3. \/ state \in {"none", "DEAD"} /\ old \in {"none", "dark"}
      \/ state # "none" /\ old = Shown(state, s \in awake)
  BY <1>2 DEF MirrorsOne
<1>4. CASE e = "UserPromptSubmit"
  <2>1. h.state = "CC_WORKING"
    BY <1>1, <1>4 DEF NextState, ReduceState, StateEvent
  <2>2. h.game.sessionStatus[s] = "working"
    BY <1>1, <1>4, <2>1 DEF MirrorStatus, StatusOfState
  <2> QED  BY <1>1, <1>4, <2>1, <2>2 DEF MirrorsOne, Shown, Woken, StatusOfState
<1>5. CASE e \in {"Stop", "Asks"}
  <2>1. h.state = "HUMAN_ACTIVE"
    BY <1>1, <1>5 DEF NextState, ReduceState, StateEvent
  <2>2. h.game.sessionStatus[s] = "idle"
    BY <1>1, <1>5, <2>1 DEF MirrorStatus, StatusOfState
  <2> QED  BY <1>1, <1>5, <2>1, <2>2 DEF MirrorsOne, Shown, Woken, StatusOfState
<1>6. CASE e = "SessionEnd"
  <2>1. h.state = "DEAD"
    BY <1>1, <1>6 DEF NextState, ReduceState, StateEvent
  <2>2. h.game.sessionStatus[s] \in {"none", "dark"}
    BY <1>1, <1>6, <2>1 DEF StatusOfState
  <2> QED  BY <1>1, <1>6, <2>1, <2>2 DEF MirrorsOne
<1>7. CASE e \in {"Activity", "TokenUsage"}
  <2>1. h.state = IF state = "none" THEN "HUMAN_ACTIVE" ELSE IF state = "STALE" THEN "CC_WORKING" ELSE state
    BY <1>1, <1>7 DEF NextState, ReduceState, StateEvent, InitialState
  <2>2. h.game.sessionStatus[s] = IF state = "STALE" THEN "working"
                                  ELSE IF old \in {"dark", "none"} THEN "working" ELSE old
    BY <1>1, <1>2, <1>7, <2>1 DEF MirrorStatus, StatusOfState, InitialState
  <2>3. s \in Woken(awake, s, state, e) <=> s \in awake \/ state \in {"none", "DEAD"}
    BY <1>7 DEF Woken
  <2>4. h.game.sessionStatus[s] = Shown(h.state, s \in Woken(awake, s, state, e))
    <3>1. CASE state \in {"none", "DEAD"}
      <4>1. old \in {"none", "dark", "working"}
        BY <1>3, <3>1 DEF Shown, StatusOfState
      <4>2. h.game.sessionStatus[s] = "working"
        BY <2>2, <3>1, <4>1
      <4> QED  BY <2>3, <3>1, <4>2 DEF Shown
    <3>2. CASE state \in {"HUMAN_ACTIVE", "CC_WORKING", "STALE"}
      BY <1>3, <2>1, <2>2, <2>3, <3>2 DEF Shown, StatusOfState
    <3> QED  BY <3>1, <3>2 DEF SessionStates
  <2>5. h.state # "none" /\ h.game.sessionRegions[s] # None
    BY <1>1, <1>7, <2>1
  <2> QED  BY <2>4, <2>5 DEF MirrorsOne
<1> QED  BY <1>4, <1>5, <1>6, <1>7 DEF Telemetry

\* And so it does through a poll.
LEMMA PollMirrors ==
  ASSUME NEW g \in Games, NEW state \in SessionStates \cup {"none"}, NEW s \in Sessions,
         unread[s] \in Nat, NEW awake, MirrorsOne(state, s \in awake, g, s),
         NEW h, h = Poll([state |-> state, game |-> g], s)
  PROVE  MirrorsOne(h.state, s \in IF unread[s] = 0 THEN awake ELSE Woken(awake, s, state, "TokenUsage"),
                    h.game, s)
<1>1. CASE unread[s] = 0
  <2>1. h.state = state /\ h.game = g
    BY <1>1 DEF Poll
  <2> QED  BY <1>1, <2>1
<1>2. CASE unread[s] # 0
  <2> PICK tokens : tokens = unread[s]
    OBVIOUS
  <2> PICK e : e = "TokenUsage"
    OBVIOUS
  <2> PICK cwd : cwd = None
    OBVIOUS
  <2>1. h = HandleEvent([state |-> state, game |-> g], s, e, cwd, tokens)
    BY <1>2 DEF Poll
  <2>2. e \in Telemetry /\ cwd \in RegionIds \cup {None} /\ tokens \in Nat
    BY DEF Telemetry
  <2>3. MirrorsOne(h.state, s \in Woken(awake, s, state, e), h.game, s)
    BY ONLY <2>1, <2>2, HandleMirrors, g \in Games, state \in SessionStates \cup {"none"}, s \in Sessions,
       MirrorsOne(state, s \in awake, g, s)
  <2> QED  BY <1>2, <2>3
<1> QED  BY <1>1, <1>2

-----------------------------------------------------------------------------
(* The handlers keep the invariant                                         *)

\* A handler of session s that says what the session's state is and what its events fold to.
LEMMA HandlerKeepsLifeInv ==
  ASSUME RegionTypeOK, LifeInv, NEW s \in Sessions, NEW R, NEW state, NEW fold,
         Touches(game, game', s, R),
         moved \ R \subseteq moved', game.sessionRegions[s] \in R \cup moved' \cup {None},
         sessions' = [sessions EXCEPT ![s] = state], folded' = [folded EXCEPT ![s] = fold],
         \A t \in Sessions \ {s} : t \in woken' <=> t \in woken,
         state = "CC_WORKING" => game'.sessionRegions[s] # None /\ game'.sessionStatus[s] = "working",
         MirrorsOne(state, s \in woken', game', s),
         ResumesOne(fold, game', s)
  PROVE  LifeInv'
<1>1. Explained(game', moved')
  <2>1. Explained(game, moved)
    BY DEF LifeInv
  <2> QED  BY <2>1, TouchesExplained
<1>2. Agrees([sessions EXCEPT ![s] = state], game')
  <2>1. Agrees(sessions, game) /\ sessions \in [Sessions -> SessionStates \cup {"none"}]
    BY DEF LifeInv, RegionTypeOK
  <2> QED  BY <2>1, TouchesAgrees
<1>3. DarkIsDark(game')
  <2>1. DarkIsDark(game)
    BY DEF LifeInv
  <2> QED  BY <2>1, TouchesDark
<1>4. \A t \in Sessions \ {s} : /\ game'.sessionRegions[t] = game.sessionRegions[t]
                                /\ game'.sessionStatus[t] = game.sessionStatus[t]
  BY DEF Touches
<1>5. Mirrors(sessions', woken', game')
  <2> SUFFICES ASSUME NEW t \in Sessions
               PROVE  MirrorsOne(sessions'[t], t \in woken', game', t)
    BY DEF Mirrors
  <2>1. sessions \in [Sessions -> SessionStates \cup {"none"}] /\ Mirrors(sessions, woken, game)
    BY DEF RegionTypeOK, LifeInv
  <2>2. CASE t = s
    BY <2>1, <2>2
  <2>3. CASE t # s
    <3>1. /\ sessions'[t] = sessions[t] /\ (t \in woken' <=> t \in woken)
          /\ game'.sessionRegions[t] = game.sessionRegions[t]
          /\ game'.sessionStatus[t] = game.sessionStatus[t]
      BY <1>4, <2>1, <2>3
    <3>2. MirrorsOne(sessions[t], t \in woken, game, t)
      BY <2>1 DEF Mirrors
    <3> QED  BY <3>1, <3>2 DEF MirrorsOne, Shown
  <2> QED  BY <2>2, <2>3
<1>6. Resumable(folded', game')
  <2> SUFFICES ASSUME NEW t \in Sessions
               PROVE  ResumesOne(folded'[t], game', t)
    BY DEF Resumable
  <2>1. folded \in [Sessions -> SessionStates \cup {"none"}] /\ Resumable(folded, game)
    BY DEF RegionTypeOK, LifeInv
  <2>2. CASE t = s
    BY <2>1, <2>2
  <2>3. CASE t # s
    <3>1. folded'[t] = folded[t] /\ game'.sessionRegions[t] = game.sessionRegions[t]
      BY <1>4, <2>1, <2>3
    <3> QED  BY <2>1, <3>1 DEF Resumable, ResumesOne
  <2> QED  BY <2>2, <2>3
<1> QED  BY <1>1, <1>2, <1>3, <1>5, <1>6 DEF LifeInv

LEMMA MovesFacts ==
  ASSUME RegionTypeOK, NEW s \in Sessions, NEW cwd \in RegionIds \cup {None}, Moves(s, cwd)
  PROVE  /\ moved \ {RegionOf(game, s, cwd)} \subseteq moved' /\ moved' \subseteq RegionIds
         /\ game.sessionRegions[s] \in {RegionOf(game, s, cwd)} \cup moved' \cup {None}
<1>1. moved \subseteq RegionIds /\ game.sessionRegions[s] \in RegionIds \cup {None}
  BY DEF RegionTypeOK, Games
<1> QED  BY <1>1 DEF Moves

\* What an event makes of the fold agrees with where the game has the session afterwards.
LEMMA EventResumes ==
  ASSUME NEW g, NEW s \in Sessions, NEW state \in SessionStates \cup {"none"}, NEW e \in Telemetry,
         e = "SessionEnd" => g.sessionRegions[s] = None,
         e # "SessionEnd" => g.sessionRegions[s] # None
  PROVE  ResumesOne(NextState(state, e), g, s)
<1>1. NextState(state, e) \in SessionStates
  BY NextStateType
<1>2. e = "SessionEnd" => NextState(state, e) = "DEAD"
  BY DEF NextState, ReduceState, StateEvent
<1> QED  BY <1>1, <1>2 DEF ResumesOne, SessionStates

LEMMA WokenFacts ==
  ASSUME NEW awake, NEW s \in Sessions, NEW state, NEW e
  PROVE  /\ \A t \in Sessions \ {s} : t \in Woken(awake, s, state, e) <=> t \in awake
         /\ awake \subseteq Sessions => Woken(awake, s, state, e) \subseteq Sessions
BY DEF Woken

LEMMA HookEventKeeps ==
  ASSUME RegionTypeOK, LifeInv, NEW s \in Sessions, NEW cwd \in RegionIds \cup {None},
         NEW e \in {"UserPromptSubmit", "Asks", "SessionEnd", "Activity"}, HookEvent(s, e, cwd)
  PROVE  RegionTypeOK' /\ LifeInv'
<1>1. PICK r : r = RegionOf(game, s, cwd)
  OBVIOUS
<1>2. PICK h : h = HandleEvent([state |-> sessions[s], game |-> game], s, e, cwd, 0)
  OBVIOUS
<1>3. /\ game \in Games
      /\ sessions \in [Sessions -> SessionStates \cup {"none"}]
      /\ folded \in [Sessions -> SessionStates \cup {"none"}]
      /\ sessions[s] \in SessionStates \cup {"none"}
      /\ folded[s] \in SessionStates \cup {"none"}
  BY DEF RegionTypeOK
<1>4. sessions[s] = "CC_WORKING" => game.sessionStatus[s] = "working"
  BY DEF LifeInv, Agrees, WorksIn
<1>5. e \in Telemetry /\ 0 \in Nat
  BY DEF Telemetry
<1>6. /\ Touches(game, h.game, s, {r}) /\ r \in RegionIds
      /\ h.state = NextState(sessions[s], e)
      /\ h.state \in SessionStates
      /\ e # "SessionEnd" => h.game.sessionRegions[s] = r
      /\ h.state = "CC_WORKING" => h.game.sessionRegions[s] = r /\ h.game.sessionStatus[s] = "working"
  <2>1. sessions[s] \in SessionStates \cup {"none"} /\ game \in Games
    BY <1>3
  <2>2. /\ Touches(game, h.game, s, {r}) /\ r \in RegionIds
        /\ h.state = NextState(sessions[s], e)
        /\ h.state \in SessionStates
        /\ e # "SessionEnd" => h.game.sessionRegions[s] = r
        /\ h.state = "CC_WORKING" => h.game.sessionRegions[s] = r /\ h.game.sessionStatus[s] = "working"
    BY ONLY <1>1, <1>2, <1>4, <1>5, <2>1, s \in Sessions, cwd \in RegionIds \cup {None}, HandleFacts
  <2> QED  BY <2>2
<1>7. sessions' = [sessions EXCEPT ![s] = h.state] /\ game' = h.game
  BY <1>2 DEF HookEvent, Becomes, Now
<1>8. folded' = [folded EXCEPT ![s] = NextState(folded[s], e)]
  BY <1>3 DEF HookEvent, Fold
<1>9. /\ moved \ {r} \subseteq moved' /\ moved' \subseteq RegionIds
      /\ game.sessionRegions[s] \in {r} \cup moved' \cup {None}
  <2>1. Moves(s, cwd)
    BY DEF HookEvent
  <2> QED  BY <1>1, <2>1, MovesFacts
<1>w. woken' = Woken(woken, s, sessions[s], e)
  BY DEF HookEvent
<1>m. /\ MirrorsOne(h.state, s \in woken', h.game, s)
      /\ e = "SessionEnd" => h.game.sessionRegions[s] = None
      /\ e # "SessionEnd" => h.game.sessionRegions[s] # None
  <2>1. MirrorsOne(sessions[s], s \in woken, game, s)
    BY DEF LifeInv, Mirrors
  <2>2. sessions[s] \in SessionStates \cup {"none"} /\ game \in Games
    BY <1>3
  <2>3. MirrorsOne(h.state, s \in Woken(woken, s, sessions[s], e), h.game, s)
    BY ONLY <1>2, <1>5, <2>1, <2>2, s \in Sessions, cwd \in RegionIds \cup {None}, HandleMirrors
  <2>4. /\ h.state = NextState(sessions[s], e)
        /\ e = "SessionEnd" => h.game.sessionRegions[s] = None
        /\ e # "SessionEnd" => h.game.sessionRegions[s] # None
        /\ h.game.sessionStatus[s] =
             IF h.state # IF sessions[s] = "none" THEN InitialState ELSE sessions[s]
               THEN StatusOfState(h.state)
               ELSE IF e = "SessionEnd" THEN "none" ELSE MirrorStatus(game.sessionStatus[s], e)
    BY ONLY <1>2, <1>5, <2>2, s \in Sessions, cwd \in RegionIds \cup {None}, HandleSession
  <2> QED  BY <1>w, <2>3, <2>4
<1>10. LifeInv'
  <2>1. r # None
    BY <1>6, RegionsAssumption
  <2>2. h.state = "CC_WORKING" => game'.sessionRegions[s] # None /\ game'.sessionStatus[s] = "working"
    BY <1>6, <1>7, <2>1
  <2>3. ResumesOne(NextState(folded[s], e), game', s)
    BY <1>3, <1>5, <1>7, <1>m, EventResumes
  <2>4. Touches(game, game', s, {r})
    BY <1>6, <1>7
  <2>5. MirrorsOne(h.state, s \in woken', game', s)
    BY <1>7, <1>m
  <2>6. \A t \in Sessions \ {s} : t \in woken' <=> t \in woken
    BY <1>w, WokenFacts
  <2> QED  BY <1>7, <1>8, <1>9, <2>2, <2>3, <2>4, <2>5, <2>6, HandlerKeepsLifeInv
<1>11. RegionTypeOK'
  <2>1. game' \in Games
    BY <1>6, <1>7 DEF Touches
  <2>2. sessions' \in [Sessions -> SessionStates \cup {"none"}]
    BY <1>3, <1>6, <1>7
  <2>3. folded' \in [Sessions -> SessionStates \cup {"none"}]
    <3>1. NextState(folded[s], e) \in SessionStates
      BY <1>3, <1>5, NextStateType
    <3> QED  BY <1>3, <1>8, <3>1
  <2>4. unread' \in [Sessions -> Nat] /\ spent' \in 0..MaxTokens
    BY DEF HookEvent, RegionTypeOK
  <2>5. inTurn' \subseteq Sessions
    BY DEF HookEvent, RegionTypeOK
  <2>6. woken' \subseteq Sessions
    BY <1>w, WokenFacts DEF RegionTypeOK
  <2> QED  BY <1>9, <2>1, <2>2, <2>3, <2>4, <2>5, <2>6 DEF RegionTypeOK
<1> QED  BY <1>10, <1>11

\* The poll at the end of a Stop is about the region of the Stop.
LEMMA StopEventKeeps ==
  ASSUME RegionTypeOK, LifeInv, NEW s \in Sessions, NEW cwd \in RegionIds \cup {None}, StopEvent(s, cwd)
  PROVE  RegionTypeOK' /\ LifeInv'
<1>1. PICK r : r = RegionOf(game, s, cwd)
  OBVIOUS
<1>2. PICK a : a = HandleEvent([state |-> sessions[s], game |-> game], s, "Stop", cwd, 0)
  OBVIOUS
<1>3. PICK h : h = Poll([state |-> a.state, game |-> a.game], s)
  OBVIOUS
<1>4. /\ sessions \in [Sessions -> SessionStates \cup {"none"}]
      /\ folded \in [Sessions -> SessionStates \cup {"none"}]
      /\ folded[s] \in SessionStates \cup {"none"}
      /\ unread \in [Sessions -> Nat] /\ unread[s] \in Nat
  BY DEF RegionTypeOK
<1>5. sessions[s] = "CC_WORKING" => game.sessionStatus[s] = "working"
  BY DEF LifeInv, Agrees, WorksIn
<1>6. "Stop" \in Telemetry /\ 0 \in Nat
  BY DEF Telemetry
<1>7. /\ Touches(game, a.game, s, {r}) /\ r \in RegionIds
      /\ a.state \in SessionStates
      /\ "Stop" # "SessionEnd" => a.game.sessionRegions[s] = r
      /\ a.state = "CC_WORKING" => a.game.sessionRegions[s] = r /\ a.game.sessionStatus[s] = "working"
  <2>1. sessions[s] \in SessionStates \cup {"none"} /\ game \in Games
    BY DEF RegionTypeOK
  <2> QED  BY ONLY <1>1, <1>2, <1>5, <1>6, <2>1, s \in Sessions, cwd \in RegionIds \cup {None}, HandleFacts
<1>8. a.game.sessionRegions[s] = r /\ r # None
  BY <1>7, RegionsAssumption
<1>9. RegionOf(a.game, s, None) = r
  BY <1>8 DEF RegionOf
<1>10. /\ Touches(game, h.game, s, {r})
       /\ h.state \in SessionStates
       /\ h.game.sessionRegions[s] = r
       /\ h.state = "CC_WORKING" => h.game.sessionStatus[s] = "working"
  <2>1. a.game \in Games /\ a.state \in SessionStates \cup {"none"}
    BY <1>7 DEF Touches
  <2>2. a.state = "CC_WORKING" => a.game.sessionStatus[s] = "working"
    BY <1>7
  <2>p. Polled(a.state, a.game, s, r, h)
    BY ONLY <1>3, <1>4, <1>9, <2>1, <2>2, s \in Sessions, PollFacts
  <2>3. \/ h = [state |-> a.state, game |-> a.game]
        \/ /\ Touches(a.game, h.game, s, {r})
           /\ h.state \in SessionStates
           /\ h.game.sessionRegions[s] = r
           /\ h.state = "CC_WORKING" => h.game.sessionRegions[s] = r /\ h.game.sessionStatus[s] = "working"
    BY <2>p DEF Polled
  <2>4. CASE h = [state |-> a.state, game |-> a.game]
    BY <1>7, <1>8, <2>4
  <2>5. CASE /\ Touches(a.game, h.game, s, {r})
             /\ h.state \in SessionStates
             /\ h.game.sessionRegions[s] = r
             /\ h.state = "CC_WORKING" => h.game.sessionRegions[s] = r /\ h.game.sessionStatus[s] = "working"
    <3>1. Touches(game, a.game, s, {r}) /\ Touches(a.game, h.game, s, {r})
      BY <1>7, <2>5
    <3>2. a.game.sessionRegions[s] \in {r} \cup {None}
      BY <1>8
    <3>3. Touches(game, h.game, s, {r} \cup {r})
      BY ONLY <3>1, <3>2, s \in Sessions, TouchesTwice
    <3>4. {r} \cup {r} = {r}
      OBVIOUS
    <3> QED  BY <2>5, <3>3, <3>4
  <2> QED  BY <2>3, <2>4, <2>5
<1>11. sessions' = [sessions EXCEPT ![s] = h.state] /\ game' = h.game
  <2>1. a = [state |-> a.state, game |-> a.game]
    BY <1>2 DEF HandleEvent
  <2>2. Becomes(s, Poll(HandleEvent(Now(s), s, "Stop", cwd, 0), s))
    BY DEF StopEvent
  <2>3. Becomes(s, Poll(a, s))
    BY <1>2, <2>2 DEF Now
  <2> QED  BY <1>3, <2>1, <2>3 DEF Becomes
<1>12. folded' = [folded EXCEPT ![s] = NextState(folded[s], "Stop")]
  BY <1>4 DEF StopEvent, Fold
<1>13. /\ moved \ {r} \subseteq moved' /\ moved' \subseteq RegionIds
       /\ game.sessionRegions[s] \in {r} \cup moved' \cup {None}
  <2>1. Moves(s, cwd)
    BY DEF StopEvent
  <2> QED  BY <1>1, <2>1, MovesFacts
<1>w. woken' = Woken(woken, s, sessions[s], "Stop")
  BY DEF StopEvent
<1>m. MirrorsOne(h.state, s \in woken', h.game, s)
  <2>1. MirrorsOne(sessions[s], s \in woken, game, s)
    BY DEF LifeInv, Mirrors
  <2>2. sessions[s] \in SessionStates \cup {"none"} /\ game \in Games
    BY DEF RegionTypeOK
  <2>3. MirrorsOne(a.state, s \in Woken(woken, s, sessions[s], "Stop"), a.game, s)
    BY ONLY <1>2, <1>6, <2>1, <2>2, s \in Sessions, cwd \in RegionIds \cup {None}, HandleMirrors
  <2>4. MirrorsOne(a.state, s \in woken', a.game, s)
    BY <1>w, <2>3
  <2>5. a.game \in Games /\ a.state \in SessionStates \cup {"none"}
    BY <1>7 DEF Touches
  <2>6. PICK awake : awake = woken'
    OBVIOUS
  <2>7. MirrorsOne(a.state, s \in awake, a.game, s)
    BY <2>4, <2>6
  <2>8. MirrorsOne(h.state, s \in IF unread[s] = 0 THEN awake ELSE Woken(awake, s, a.state, "TokenUsage"),
                   h.game, s)
    BY ONLY <1>3, <1>4, <2>5, <2>7, s \in Sessions, PollMirrors
  <2>9. a.state = "HUMAN_ACTIVE"
    BY <1>2 DEF HandleEvent, NextState, ReduceState, StateEvent
  <2> QED  BY <2>6, <2>8, <2>9 DEF Woken
<1>14. LifeInv'
  <2>1. h.state = "CC_WORKING" => game'.sessionRegions[s] # None /\ game'.sessionStatus[s] = "working"
    BY <1>8, <1>10, <1>11
  <2>2. ResumesOne(NextState(folded[s], "Stop"), game', s)
    <3>1. game'.sessionRegions[s] # None
      BY <1>8, <1>10, <1>11
    <3> QED  BY <1>4, <1>6, <3>1, EventResumes
  <2>3. Touches(game, game', s, {r})
    BY <1>10, <1>11
  <2>4. MirrorsOne(h.state, s \in woken', game', s)
    BY <1>11, <1>m
  <2>5. \A t \in Sessions \ {s} : t \in woken' <=> t \in woken
    BY <1>w, WokenFacts
  <2> QED  BY <1>11, <1>12, <1>13, <2>1, <2>2, <2>3, <2>4, <2>5, HandlerKeepsLifeInv
<1>15. RegionTypeOK'
  <2>1. game \in Games /\ game' \in Games /\ game'.completionBonus >= game.completionBonus
    BY <1>10, <1>11 DEF Touches
  <2>2. sessions' \in [Sessions -> SessionStates \cup {"none"}]
    BY <1>4, <1>10, <1>11
  <2>3. folded' \in [Sessions -> SessionStates \cup {"none"}]
    <3>1. NextState(folded[s], "Stop") \in SessionStates
      BY <1>4, <1>6, NextStateType
    <3> QED  BY <1>4, <1>12, <3>1
  <2>4. unread' \in [Sessions -> Nat]
    BY <1>4 DEF StopEvent
  <2>5. /\ spent' \in 0..MaxTokens /\ inTurn' \subseteq Sessions
    BY DEF StopEvent, RegionTypeOK
  <2>6. woken' \subseteq Sessions
    BY <1>w, WokenFacts DEF RegionTypeOK
  <2> QED  BY <1>13, <2>1, <2>2, <2>3, <2>4, <2>5, <2>6 DEF RegionTypeOK
<1> QED  BY <1>14, <1>15

\* The timer before the poll it may do: a session that has gone silent is in a region.
LEMMA SilenceFacts ==
  ASSUME RegionTypeOK, LifeInv, NEW s \in Sessions, sessions[s] # "none",
         NEW to \in StaleStates(sessions[s]) \cup {sessions[s]},
         NEW a, a = Transition(game, s, sessions[s], to),
         NEW asleep, asleep = IF to = sessions[s] THEN woken ELSE woken \ {s}
  PROVE  /\ a \in Games /\ to \in SessionStates
         /\ a.sessionRegions = game.sessionRegions
         /\ to = "CC_WORKING" => a.sessionRegions[s] # None /\ a.sessionStatus[s] = "working"
         /\ MirrorsOne(to, s \in asleep, a, s)
         /\ \/ to = sessions[s] /\ a = game
            \/ /\ to # sessions[s] /\ game.sessionRegions[s] # None
               /\ Touches(game, a, s, {game.sessionRegions[s]})
<1>1. /\ game \in Games /\ sessions[s] \in SessionStates
      /\ game.sessionStatus \in [Sessions -> SessionStatuses \cup {"none"}]
  BY DEF RegionTypeOK, Games
<1>2. sessions[s] = "CC_WORKING" => game.sessionRegions[s] # None /\ game.sessionStatus[s] = "working"
  BY DEF LifeInv, Agrees, WorksIn
<1>3. to \in SessionStates /\ (to # sessions[s] => to \in {"STALE", "DEAD"} /\ sessions[s] # "DEAD")
  BY <1>1 DEF StaleStates, SessionStates
<1>m. MirrorsOne(sessions[s], s \in woken, game, s)
  BY DEF LifeInv, Mirrors
<1>4. CASE to = sessions[s]
  <2>1. a = game
    BY <1>4 DEF Transition
  <2>2. MirrorsOne(to, s \in asleep, a, s)
    BY <1>4, <1>m, <2>1
  <2> QED  BY <1>1, <1>2, <1>3, <1>4, <2>1, <2>2
<1>5. CASE to # sessions[s]
  <2>1. a = ApplySessionState(game, s, to)
    BY <1>5 DEF Transition
  <2>2. /\ Touches(game, a, s, {game.sessionRegions[s]} \ {None})
        /\ a.sessionRegions = game.sessionRegions
        /\ a.sessionStatus = [game.sessionStatus EXCEPT ![s] = StatusOfState(to)]
    <3>1. PICK g \in Games : g = game
      BY <1>1
    <3>2. a = ApplySessionState(g, s, to)
      BY <2>1, <3>1
    <3>3. /\ Touches(g, a, s, {g.sessionRegions[s]} \ {None})
          /\ a.sessionRegions = g.sessionRegions
          /\ a.sessionStatus = [g.sessionStatus EXCEPT ![s] = StatusOfState(to)]
      BY ONLY g \in Games, <3>2, s \in Sessions, StateTouches
    <3> QED  BY <3>1, <3>3
  <2>3. a \in Games
    BY <2>2 DEF Touches
  <2>4. game.sessionRegions[s] # None
    BY <1>1, <1>3, <1>5, <1>m DEF MirrorsOne
  <2>5. {game.sessionRegions[s]} \ {None} = {game.sessionRegions[s]}
    BY <2>4
  <2>6. a.sessionStatus[s] = "dark" /\ s \notin asleep
    BY <1>1, <1>3, <1>5, <2>2 DEF StatusOfState
  <2>7. MirrorsOne(to, s \in asleep, a, s)
    BY <1>3, <1>5, <2>2, <2>4, <2>6 DEF MirrorsOne, Shown, StatusOfState
  <2> QED  BY <1>3, <1>5, <2>2, <2>3, <2>4, <2>5, <2>7
<1> QED  BY <1>4, <1>5

\* What the timer does with the poll: nothing, or one session's event in its own region.
LEMMA StaleTimerTouches ==
  ASSUME RegionTypeOK, LifeInv, NEW s \in Sessions, sessions[s] # "none",
         NEW to \in StaleStates(sessions[s]) \cup {sessions[s]},
         NEW polls \in BOOLEAN, polls => sessions[s] = "CC_WORKING",
         NEW d, d = [state |-> to, game |-> Transition(game, s, sessions[s], to)],
         NEW h, h = IF polls THEN Poll(d, s) ELSE d,
         NEW asleep, asleep = IF to = sessions[s] THEN woken ELSE woken \ {s},
         NEW awake, awake = IF polls /\ unread[s] > 0 THEN Woken(asleep, s, to, "TokenUsage") ELSE asleep
  PROVE  /\ h.state \in SessionStates
         /\ h.state = "CC_WORKING" => h.game.sessionRegions[s] # None /\ h.game.sessionStatus[s] = "working"
         /\ MirrorsOne(h.state, s \in awake, h.game, s)
         /\ h.game.sessionRegions[s] = game.sessionRegions[s]
         /\ polls /\ unread[s] > 0 => game.sessionRegions[s] # None
         /\ \/ /\ ~(polls /\ unread[s] > 0) /\ to = sessions[s]
               /\ h.state = sessions[s] /\ h.game = game
            \/ /\ (polls /\ unread[s] > 0) \/ to # sessions[s]
               /\ Touches(game, h.game, s, {game.sessionRegions[s]})
<1>1. PICK a : a = Transition(game, s, sessions[s], to)
  OBVIOUS
<1>2. /\ a \in Games /\ to \in SessionStates
      /\ a.sessionRegions = game.sessionRegions
      /\ to = "CC_WORKING" => a.sessionRegions[s] # None /\ a.sessionStatus[s] = "working"
      /\ MirrorsOne(to, s \in asleep, a, s)
      /\ \/ to = sessions[s] /\ a = game
         \/ /\ to # sessions[s] /\ game.sessionRegions[s] # None
            /\ Touches(game, a, s, {game.sessionRegions[s]})
  BY ONLY RegionTypeOK, LifeInv, s \in Sessions, sessions[s] # "none",
          to \in StaleStates(sessions[s]) \cup {sessions[s]}, <1>1, SilenceFacts,
          asleep = IF to = sessions[s] THEN woken ELSE woken \ {s}
<1>3. d = [state |-> to, game |-> a]
  BY <1>1
<1>4. unread[s] \in Nat
  BY DEF RegionTypeOK
<1>5. sessions[s] = "CC_WORKING" => game.sessionRegions[s] # None
  BY DEF LifeInv, Agrees, WorksIn
<1>6. CASE ~(polls /\ unread[s] > 0)
  <2>1. h.state = to /\ h.game = a
    BY <1>3, <1>4, <1>6 DEF Poll
  <2> QED  BY <1>2, <1>6, <2>1
<1>7. CASE polls /\ unread[s] > 0
  <2>1. game.sessionRegions[s] # None
    BY <1>5, <1>7
  <2>2. PICK r : r = RegionOf(a, s, None)
    OBVIOUS
  <2>3. r = game.sessionRegions[s]
    BY <1>2, <2>1, <2>2 DEF RegionOf
  <2>4. h = Poll([state |-> to, game |-> a], s)
    BY <1>3, <1>7
  <2>5. to \in SessionStates \cup {"none"} /\ a \in Games
    BY <1>2
  <2>6. to = "CC_WORKING" => a.sessionStatus[s] = "working"
    BY <1>2
  <2>7. Polled(to, a, s, r, h)
    BY ONLY <1>4, <2>2, <2>4, <2>5, <2>6, s \in Sessions, PollFacts
  <2>8. /\ Touches(a, h.game, s, {r}) /\ r \in RegionIds
        /\ h.state \in SessionStates
        /\ h.game.sessionRegions[s] = r
        /\ h.state = "CC_WORKING" => h.game.sessionStatus[s] = "working"
    BY <1>7, <2>7 DEF Polled
  <2>9. MirrorsOne(to, s \in asleep, a, s)
    BY <1>2
  <2>10. MirrorsOne(h.state, s \in IF unread[s] = 0 THEN asleep ELSE Woken(asleep, s, to, "TokenUsage"),
                    h.game, s)
    BY ONLY <1>4, <2>4, <2>5, <2>9, s \in Sessions, PollMirrors
  <2>11. MirrorsOne(h.state, s \in awake, h.game, s)
    <3>1. unread[s] # 0
      BY <1>4, <1>7
    <3> QED  BY <1>7, <2>10, <3>1
  <2>12. Touches(game, h.game, s, {r})
    <3>1. CASE a = game
      BY <2>8, <3>1
    <3>2. CASE Touches(game, a, s, {r})
      <4>1. Touches(game, a, s, {r}) /\ Touches(a, h.game, s, {r}) /\ a.sessionRegions[s] \in {r} \cup {None}
        BY <1>2, <2>3, <2>8, <3>2
      <4>2. Touches(game, h.game, s, {r} \cup {r})
        BY ONLY <4>1, s \in Sessions, TouchesTwice
      <4>3. {r} \cup {r} = {r}
        OBVIOUS
      <4> QED  BY <4>2, <4>3
    <3> QED  BY <1>2, <2>3, <3>1, <3>2
  <2> QED  BY <1>7, <2>1, <2>3, <2>8, <2>11, <2>12
<1> QED  BY <1>6, <1>7

LEMMA StaleTimerKeeps ==
  ASSUME RegionTypeOK, LifeInv, NEW s \in Sessions, StaleTimer(s)
  PROVE  RegionTypeOK' /\ LifeInv'
<1>1. PICK to \in StaleStates(sessions[s]) \cup {sessions[s]}, polls \in BOOLEAN :
        LET silent == [state |-> to, game |-> Transition(game, s, sessions[s], to)]
            asleep == IF to = sessions[s] THEN woken ELSE woken \ {s}
            found  == polls /\ unread[s] > 0
        IN
        /\ sessions[s] # "none"
        /\ polls => sessions[s] = "CC_WORKING"
        /\ Becomes(s, IF polls THEN Poll(silent, s) ELSE silent)
        /\ unread' = IF polls THEN [unread EXCEPT ![s] = 0] ELSE unread
        /\ folded' = IF found THEN [folded EXCEPT ![s] = NextState(@, "TokenUsage")] ELSE folded
        /\ moved' = IF found \/ to # sessions[s] THEN moved \ {game.sessionRegions[s]} ELSE moved
        /\ woken' = IF found THEN Woken(asleep, s, to, "TokenUsage") ELSE asleep
        /\ UNCHANGED <<inTurn, spent>>
  BY DEF StaleTimer
<1>2. PICK d : d = [state |-> to, game |-> Transition(game, s, sessions[s], to)]
  OBVIOUS
<1>3. PICK h : h = IF polls THEN Poll(d, s) ELSE d
  OBVIOUS
<1>a. PICK asleep : asleep = IF to = sessions[s] THEN woken ELSE woken \ {s}
  OBVIOUS
<1>b. PICK awake : awake = IF polls /\ unread[s] > 0 THEN Woken(asleep, s, to, "TokenUsage") ELSE asleep
  OBVIOUS
<1>4. /\ sessions[s] # "none" /\ (polls => sessions[s] = "CC_WORKING")
      /\ woken' = awake
  BY <1>1, <1>a, <1>b
<1>5. sessions' = [sessions EXCEPT ![s] = h.state] /\ game' = h.game
  <2>1. Becomes(s, h)
    BY <1>1, <1>2, <1>3
  <2> QED  BY <2>1 DEF Becomes
<1>6. /\ h.state \in SessionStates
      /\ h.state = "CC_WORKING" => h.game.sessionRegions[s] # None /\ h.game.sessionStatus[s] = "working"
      /\ MirrorsOne(h.state, s \in awake, h.game, s)
      /\ h.game.sessionRegions[s] = game.sessionRegions[s]
      /\ polls /\ unread[s] > 0 => game.sessionRegions[s] # None
      /\ \/ /\ ~(polls /\ unread[s] > 0) /\ to = sessions[s]
            /\ h.state = sessions[s] /\ h.game = game
         \/ /\ (polls /\ unread[s] > 0) \/ to # sessions[s]
            /\ Touches(game, h.game, s, {game.sessionRegions[s]})
  <2>1. polls => sessions[s] = "CC_WORKING"
    BY <1>4
  <2>2. sessions[s] # "none"
    BY <1>4
  <2> QED  BY ONLY RegionTypeOK, LifeInv, s \in Sessions, to \in StaleStates(sessions[s]) \cup {sessions[s]},
          polls \in BOOLEAN, <1>2, <1>3, <1>a, <1>b, <2>1, <2>2, StaleTimerTouches
<1>7. /\ sessions \in [Sessions -> SessionStates \cup {"none"}]
      /\ folded \in [Sessions -> SessionStates \cup {"none"}]
      /\ folded[s] \in SessionStates \cup {"none"}
      /\ unread \in [Sessions -> Nat] /\ game \in Games
      /\ woken \subseteq Sessions /\ moved \subseteq RegionIds
  BY DEF RegionTypeOK
<1>8. PICK fold : /\ folded' = [folded EXCEPT ![s] = fold]
                  /\ fold \in SessionStates \cup {"none"}
                  /\ ResumesOne(fold, game', s)
  <2>1. CASE polls /\ unread[s] > 0
    <3>1. folded' = [folded EXCEPT ![s] = NextState(folded[s], "TokenUsage")]
      BY <1>1, <1>7, <2>1
    <3>2. NextState(folded[s], "TokenUsage") \in SessionStates
      BY <1>7, NextStateType DEF Telemetry
    <3>3. ResumesOne(NextState(folded[s], "TokenUsage"), game', s)
      <4>1. game'.sessionRegions[s] # None /\ "TokenUsage" \in Telemetry
        BY <1>5, <1>6, <2>1 DEF Telemetry
      <4> QED  BY <1>7, <4>1, EventResumes
    <3> QED  BY <3>1, <3>2, <3>3
  <2>2. CASE ~(polls /\ unread[s] > 0)
    <3>1. folded' = [folded EXCEPT ![s] = folded[s]]
      BY <1>1, <1>7, <2>2
    <3>2. ResumesOne(folded[s], game, s)
      BY DEF LifeInv, Resumable
    <3>3. ResumesOne(folded[s], game', s)
      BY <1>5, <1>6, <3>2 DEF ResumesOne
    <3> QED  BY <1>7, <3>1, <3>3
  <2> QED  BY <2>1, <2>2
<1>w. /\ \A t \in Sessions \ {s} : t \in woken' <=> t \in woken
      /\ woken' \subseteq Sessions
  <2>1. /\ \A t \in Sessions \ {s} : t \in asleep <=> t \in woken
        /\ asleep \subseteq Sessions
    BY <1>7, <1>a
  <2>2. /\ \A t \in Sessions \ {s} : t \in awake <=> t \in asleep
        /\ awake \subseteq Sessions
    BY <1>b, <2>1, WokenFacts
  <2> QED  BY <1>4, <2>1, <2>2
<1>9. LifeInv'
  <2>1. moved' = IF (polls /\ unread[s] > 0) \/ to # sessions[s]
                   THEN moved \ {game.sessionRegions[s]} ELSE moved
    BY <1>1
  <2>2. CASE /\ (polls /\ unread[s] > 0) \/ to # sessions[s]
             /\ Touches(game, h.game, s, {game.sessionRegions[s]})
    <3>1. PICK R : R = {game.sessionRegions[s]}
      OBVIOUS
    <3>2. Touches(game, game', s, R)
      BY <1>5, <2>2, <3>1
    <3>3. moved \ R \subseteq moved' /\ game.sessionRegions[s] \in R \cup moved' \cup {None}
      BY <2>1, <2>2, <3>1
    <3>4. h.state = "CC_WORKING" => game'.sessionRegions[s] # None /\ game'.sessionStatus[s] = "working"
      BY <1>5, <1>6
    <3>5. MirrorsOne(h.state, s \in woken', game', s)
      BY <1>4, <1>5, <1>6
    <3> QED  BY <1>5, <1>8, <1>w, <3>2, <3>3, <3>4, <3>5, HandlerKeepsLifeInv
  <2>3. CASE /\ ~(polls /\ unread[s] > 0) /\ to = sessions[s]
             /\ h.state = sessions[s] /\ h.game = game
    <3>1. sessions' = sessions /\ game' = game
      BY <1>5, <1>7, <2>3
    <3>2. folded' = folded /\ moved' = moved
      BY <1>1, <2>1, <2>3
    <3>3. woken' = woken
      BY <1>4, <1>a, <1>b, <2>3
    <3> QED  BY <3>1, <3>2, <3>3 DEF LifeInv
  <2> QED  BY <1>6, <2>2, <2>3
<1>10. RegionTypeOK'
  <2>1. game' \in Games
    BY <1>5, <1>6, <1>7 DEF Touches
  <2>2. sessions' \in [Sessions -> SessionStates \cup {"none"}]
    BY <1>5, <1>6, <1>7
  <2>3. folded' \in [Sessions -> SessionStates \cup {"none"}]
    BY <1>7, <1>8
  <2>4. unread' \in [Sessions -> Nat]
    BY <1>1, <1>7
  <2>5. /\ spent' \in 0..MaxTokens /\ inTurn' \subseteq Sessions
        /\ moved' \subseteq RegionIds
    BY <1>1 DEF RegionTypeOK
  <2> QED  BY <1>w, <2>1, <2>2, <2>3, <2>4, <2>5 DEF RegionTypeOK
<1> QED  BY <1>9, <1>10

\* Shipping a generation leaves the sessions and the regions alone.
LEMMA ShipKeeps ==
  ASSUME RegionTypeOK, LifeInv, Ship
  PROVE  RegionTypeOK' /\ LifeInv'
<1>1. game \in Games
  BY DEF RegionTypeOK
<1>2. /\ game' \in Games
      /\ game'.sessionRegions = game.sessionRegions /\ game'.sessionStatus = game.sessionStatus
      /\ game'.status = game.status
  BY <1>1 DEF Ship, ShipRegions, Games
<1>3. sessions' = sessions /\ folded' = folded /\ moved' = moved /\ woken' = woken
  BY DEF Ship, historyVars
<1>4. Explained(game', moved')
  <2>1. \A r \in RegionIds : DerivedStatus(game', r) = DerivedStatus(game, r)
    BY <1>2, DerivedSame
  <2> QED  BY <1>2, <1>3, <2>1 DEF LifeInv, Explained
<1>5. Agrees(sessions', game') /\ Resumable(folded', game')
  BY <1>2, <1>3 DEF LifeInv, Agrees, WorksIn, Resumable, ResumesOne
<1>6. DarkIsDark(game')
  BY <1>2 DEF LifeInv, DarkIsDark
<1>7. Mirrors(sessions', woken', game')
  BY <1>2, <1>3 DEF LifeInv, Mirrors, MirrorsOne
<1>8. RegionTypeOK'
  BY <1>2 DEF Ship, historyVars, RegionTypeOK
<1> QED  BY <1>4, <1>5, <1>6, <1>7, <1>8 DEF LifeInv

LEMMA WriteUsageKeeps ==
  ASSUME RegionTypeOK, LifeInv, NEW s \in Sessions, WriteUsage(s)
  PROVE  RegionTypeOK' /\ LifeInv'
<1>1. LifeInv'
  BY DEF WriteUsage, LifeInv
<1>2. RegionTypeOK'
  <2>1. /\ spent \in Nat /\ spent + 1 \in 0..MaxTokens
        /\ unread[s] + 1 \in Nat
    BY RegionLifeAssumption DEF WriteUsage, RegionTypeOK
  <2>2. /\ unread' = [unread EXCEPT ![s] = unread[s] + 1]
        /\ spent' = spent + 1
        /\ sessions' = sessions /\ game' = game /\ folded' = folded
        /\ inTurn' = inTurn /\ moved' = moved /\ woken' = woken
    BY DEF WriteUsage
  <2>3. unread' \in [Sessions -> Nat]
    BY <2>1, <2>2 DEF RegionTypeOK
  <2> QED  BY <2>1, <2>2, <2>3 DEF RegionTypeOK
<1> QED  BY <1>1, <1>2

\* A restart: the game is told every state that the events fold to, and every region with
\* such a session is refreshed.
LEMMA HandOverFacts ==
  ASSUME NEW g \in Games, NEW states \in [Sessions -> SessionStates \cup {"none"}],
         NEW old, NEW awake, Mirrors(old, awake, g),
         NEW left, Explained(g, left), Resumable(states, g), DarkIsDark(g),
         NEW h, h = HandOver(g, states)
  PROVE  /\ h \in Games /\ Agrees(states, h) /\ Resumable(states, h)
         /\ Explained(h, {r \in left : \A s \in SessionsIn(g, r) : states[s] = "none"})
         /\ DarkIsDark(h)
         /\ Mirrors(states, {}, h)
<1>1. PICK told : told = [g EXCEPT !.sessionStatus =
        [s \in Sessions |-> IF states[s] = "none" THEN g.sessionStatus[s] ELSE StatusOfState(states[s])]]
  OBVIOUS
<1>2. PICK f : f = [r \in RegionIds |-> IF \E s \in SessionsIn(told, r) : states[s] # "none"
                                        THEN DerivedStatus(told, r) ELSE told.status[r]]
  OBVIOUS
<1>3. told \in Games
  <2>1. [s \in Sessions |-> IF states[s] = "none" THEN g.sessionStatus[s] ELSE StatusOfState(states[s])]
          \in [Sessions -> SessionStatuses \cup {"none"}]
    BY DEF Games, StatusOfState, SessionStatuses
  <2> QED  BY <1>1, <2>1 DEF Games
<1>4. /\ told.sessionRegions = g.sessionRegions /\ told.status = g.status
      /\ \A s \in Sessions : told.sessionStatus[s] =
           IF states[s] = "none" THEN g.sessionStatus[s] ELSE StatusOfState(states[s])
  BY <1>1 DEF Games
<1>5. h = [told EXCEPT !.status = f]
  <2>1. h = [told EXCEPT !.status =
              [r \in RegionIds |-> IF \E s \in SessionsIn(told, r) : states[s] # "none"
                                   THEN DerivedStatus(told, r) ELSE told.status[r]]]
    BY <1>1 DEF HandOver, Games
  <2> QED  BY <1>2, <2>1
<1>6. f \in [RegionIds -> RegionStatuses \cup {"none"}]
  <2>1. \A r \in RegionIds : told.status[r] \in RegionStatuses \cup {"none"}
    BY <1>3 DEF Games
  <2>2. \A r \in RegionIds : DerivedStatus(told, r) \in RegionStatuses
    BY DerivedType
  <2> QED  BY <1>2, <2>1, <2>2
<1>7. /\ h \in Games /\ h.status = f
      /\ h.sessionRegions = told.sessionRegions /\ h.sessionStatus = told.sessionStatus
  BY <1>3, <1>5, <1>6 DEF Games
<1>8. \A r \in RegionIds : DerivedStatus(told, r) = DerivedStatus(h, r)
  BY <1>7, DerivedSame
<1>a. \A r : SessionsIn(told, r) = SessionsIn(g, r)
  BY <1>4 DEF SessionsIn
<1>9. Explained(h, {r \in left : \A s \in SessionsIn(g, r) : states[s] = "none"})
  <2> SUFFICES ASSUME NEW r \in RegionIds \ {q \in left : \A s \in SessionsIn(g, q) : states[s] = "none"},
                      h.status[r] # "none"
               PROVE  h.status[r] = DerivedStatus(h, r)
    BY DEF Explained
  <2>1. CASE \E s \in SessionsIn(told, r) : states[s] # "none"
    BY <1>2, <1>7, <1>8, <2>1
  <2>2. CASE ~\E s \in SessionsIn(told, r) : states[s] # "none"
    <3>1. \A s \in Sessions : g.sessionRegions[s] = r => g.sessionStatus[s] = told.sessionStatus[s]
      BY <1>4, <2>2 DEF SessionsIn
    <3>2. \A s \in Sessions : g.sessionRegions[s] = r <=> told.sessionRegions[s] = r
      BY <1>4
    <3>3. DerivedStatus(g, r) = DerivedStatus(told, r)
      BY <3>1, <3>2, DerivedSame
    <3>4. h.status[r] = g.status[r]
      BY <1>2, <1>4, <1>7, <2>2
    <3>5. r \notin left
      BY <1>a, <2>2
    <3> QED  BY <1>8, <3>3, <3>4, <3>5 DEF Explained
  <2> QED  BY <2>1, <2>2
<1>10. Resumable(states, h)
  BY <1>4, <1>7 DEF Resumable, ResumesOne
<1>11. Agrees(states, h)
  <2> SUFFICES ASSUME NEW s \in Sessions, states[s] = "CC_WORKING"
               PROVE  WorksIn(h, s)
    BY DEF Agrees
  <2>1. h.sessionRegions[s] # None
    BY <1>10 DEF Resumable, ResumesOne
  <2>2. h.sessionStatus[s] = "working"
    BY <1>4, <1>7 DEF StatusOfState
  <2>3. PICK r \in RegionIds : r = h.sessionRegions[s]
    BY <1>7, <2>1 DEF Games
  <2>4. s \in SessionsIn(told, r) /\ states[s] # "none"
    BY <1>7, <2>3 DEF SessionsIn
  <2>5. h.status[r] = DerivedStatus(told, r)
    BY <1>2, <1>7, <2>4
  <2>6. DerivedStatus(h, r) = "hot"
    BY <2>2, <2>3, DerivedHot
  <2> QED  BY <1>8, <2>1, <2>2, <2>3, <2>5, <2>6 DEF WorksIn
<1>12. DarkIsDark(h)
  <2> SUFFICES ASSUME NEW r \in RegionIds, NEW s \in Sessions,
                      h.status[r] = "dark", h.sessionRegions[s] = r
               PROVE  h.sessionStatus[s] \in {"dark", "none"}
    BY DEF DarkIsDark
  <2>1. h.sessionRegions[s] # None
    BY RegionsAssumption
  <2>2. s \in SessionsIn(told, r) /\ states[s] # "none"
    BY <1>7, <1>10, <2>1 DEF SessionsIn, Resumable, ResumesOne
  <2>3. DerivedStatus(h, r) = "dark"
    BY <1>2, <1>7, <1>8, <2>2
  <2> QED  BY <2>3, DerivedDark
<1>13. Mirrors(states, {}, h)
  <2> SUFFICES ASSUME NEW s \in Sessions
               PROVE  MirrorsOne(states[s], s \in {}, h, s)
    BY DEF Mirrors
  <2>1. ResumesOne(states[s], h, s) /\ MirrorsOne(old[s], s \in awake, g, s)
    BY <1>10 DEF Resumable, Mirrors
  <2>2. /\ h.sessionRegions[s] = g.sessionRegions[s]
        /\ h.sessionStatus[s] = IF states[s] = "none" THEN g.sessionStatus[s] ELSE StatusOfState(states[s])
    BY <1>4, <1>7
  <2>3. CASE h.sessionRegions[s] = None
    <3>1. states[s] \in {"none", "DEAD"} /\ g.sessionStatus[s] \in {"none", "dark"}
      BY <2>1, <2>2, <2>3 DEF ResumesOne, MirrorsOne
    <3> QED  BY <2>2, <2>3, <3>1 DEF MirrorsOne, StatusOfState
  <2>4. CASE h.sessionRegions[s] # None
    BY <2>1, <2>2, <2>4 DEF ResumesOne, MirrorsOne, Shown
  <2> QED  BY <2>3, <2>4
<1> QED  BY <1>7, <1>9, <1>10, <1>11, <1>12, <1>13

LEMMA RestartKeeps ==
  ASSUME RegionTypeOK, LifeInv, Restart
  PROVE  RegionTypeOK' /\ LifeInv'
<1>1. /\ game \in Games /\ folded \in [Sessions -> SessionStates \cup {"none"}]
      /\ Explained(game, moved) /\ Resumable(folded, game) /\ DarkIsDark(game)
      /\ Mirrors(sessions, woken, game)
  BY DEF RegionTypeOK, LifeInv
<1>2. /\ sessions' = folded /\ game' = HandOver(game, folded) /\ folded' = folded
      /\ moved' = {r \in moved : \A s \in SessionsIn(game, r) : folded[s] = "none"}
      /\ woken' = {}
  BY DEF Restart
<1>3. /\ game' \in Games /\ Agrees(folded, game') /\ Resumable(folded, game')
      /\ Explained(game', {r \in moved : \A s \in SessionsIn(game, r) : folded[s] = "none"})
      /\ DarkIsDark(game')
      /\ Mirrors(folded, {}, game')
  BY <1>1, <1>2, HandOverFacts
<1>4. RegionTypeOK'
  BY <1>2, <1>3 DEF Restart, RegionTypeOK
<1> QED  BY <1>2, <1>3, <1>4 DEF LifeInv

-----------------------------------------------------------------------------
(* The theorems                                                            *)

LEMMA LifeInit ==
  ASSUME RegionInit
  PROVE  RegionTypeOK /\ LifeInv
<1>1. game \in Games
  BY DEF RegionInit, InitialGame, Games
<1>2. RegionTypeOK
  BY <1>1, RegionLifeAssumption DEF RegionInit, RegionTypeOK
<1>3. Explained(game, moved)
  BY DEF RegionInit, InitialGame, Explained
<1>4. Agrees(sessions, game) /\ Resumable(folded, game)
  BY DEF RegionInit, InitialGame, Agrees, Resumable, ResumesOne
<1>5. DarkIsDark(game) /\ Mirrors(sessions, woken, game)
  BY DEF RegionInit, InitialGame, DarkIsDark, Mirrors, MirrorsOne
<1> QED  BY <1>2, <1>3, <1>4, <1>5 DEF LifeInv

LEMMA LifeNext ==
  ASSUME RegionTypeOK, LifeInv, [RegionNext]_lifeVars
  PROVE  RegionTypeOK' /\ LifeInv'
<1>1. ASSUME NEW s \in Sessions, NEW cwd \in (RegionIds \ {Unassigned}) \cup {None},
             NEW e \in {"UserPromptSubmit", "Asks", "SessionEnd", "Activity"}, HookEvent(s, e, cwd)
      PROVE  RegionTypeOK' /\ LifeInv'
  BY <1>1, HookEventKeeps
<1>2. ASSUME NEW s \in Sessions, NEW cwd \in (RegionIds \ {Unassigned}) \cup {None}, StopEvent(s, cwd)
      PROVE  RegionTypeOK' /\ LifeInv'
  BY <1>2, StopEventKeeps
<1>3. ASSUME NEW s \in Sessions, StaleTimer(s)
      PROVE  RegionTypeOK' /\ LifeInv'
  BY <1>3, StaleTimerKeeps
<1>4. ASSUME NEW s \in Sessions, WriteUsage(s)
      PROVE  RegionTypeOK' /\ LifeInv'
  BY <1>4, WriteUsageKeeps
<1>5. CASE Ship
  BY <1>5, ShipKeeps
<1>6. CASE Restart
  BY <1>6, RestartKeeps
<1>7. CASE UNCHANGED lifeVars
  BY <1>7 DEF lifeVars, historyVars, RegionTypeOK, LifeInv
<1> QED  BY <1>1, <1>2, <1>3, <1>4, <1>5, <1>6, <1>7 DEF RegionNext

\* The types hold, and with them the inductive invariant: the mirror of the state machine
\* that the game keeps agrees with the daemon wherever the daemon says "working".
THEOREM LifeTypeCorrect == RegionSpec => [](RegionTypeOK /\ LifeInv)
<1>1. RegionInit => RegionTypeOK /\ LifeInv
  BY LifeInit
<1>2. RegionTypeOK /\ LifeInv /\ [RegionNext]_lifeVars => (RegionTypeOK /\ LifeInv)'
  BY LifeNext
<1> QED  BY <1>1, <1>2, PTL DEF RegionSpec

\* For any sessions, directories and tokens, a region that no session has left since its
\* last refresh is hot, idle or dark as the daemon's state machine has its sessions, and
\* no region is dark while a session in it lives.
THEOREM StatusAlwaysTracksSessions == RegionSpec => []StatusTracksSessions
<1>1. RegionTypeOK /\ LifeInv => StatusTracksSessions
  <2> SUFFICES ASSUME RegionTypeOK, LifeInv, NEW r \in RegionIds, game.status[r] # "none",
                      NEW here, here = {Shown(sessions[s], s \in woken) : s \in SessionsIn(game, r)}
               PROVE  /\ r \notin moved => /\ game.status[r] = "hot" <=> "working" \in here
                                           /\ game.status[r] = "dark" <=> here = {"dark"}
                      /\ game.status[r] = "dark" => here \subseteq {"dark"}
    BY DEF StatusTracksSessions
  <2>1. \A s \in SessionsIn(game, r) : game.sessionStatus[s] = Shown(sessions[s], s \in woken)
    <3> SUFFICES ASSUME NEW s \in Sessions, game.sessionRegions[s] = r
                 PROVE  game.sessionStatus[s] = Shown(sessions[s], s \in woken)
      BY DEF SessionsIn
    <3>1. game.sessionRegions[s] # None
      BY RegionsAssumption
    <3> QED  BY <3>1 DEF LifeInv, Mirrors, MirrorsOne
  <2>2. here = {game.sessionStatus[s] : s \in SessionsIn(game, r)}
    BY <2>1
  <2>3. \A s \in SessionsIn(game, r) : game.sessionStatus[s] \in {"working", "idle", "dark"}
    BY <2>1 DEF Shown, StatusOfState
  <2>4. "none" \notin here
    BY <2>2, <2>3
  <2>5. ASSUME r \notin moved
        PROVE  game.status[r] = IF "working" \in here THEN "hot" ELSE IF here = {"dark"} THEN "dark" ELSE "idle"
    <3>1. game.status[r] = DerivedStatus(game, r)
      BY <2>5 DEF LifeInv, Explained
    <3>2. {game.sessionStatus[s] : s \in SessionsIn(game, r)} \ {"none"} = here
      BY <2>2, <2>4
    <3> QED  BY <3>1, <3>2 DEF DerivedStatus
  <2>6. ASSUME game.status[r] = "dark"
        PROVE  here \subseteq {"dark"}
    <3>1. \A s \in SessionsIn(game, r) : game.sessionStatus[s] \in {"dark", "none"}
      BY <2>6 DEF LifeInv, DarkIsDark, SessionsIn
    <3> QED  BY <2>2, <2>4, <3>1
  <2> QED  BY <2>5, <2>6
<1> QED  BY <1>1, LifeTypeCorrect, PTL

\* For any sessions, directories and tokens, the region of a session the daemon holds
\* working is hot.
THEOREM AlwaysHotWhileWorking == RegionSpec => []HotWhileWorking
<1>1. LifeInv => HotWhileWorking
  BY DEF LifeInv, Agrees, WorksIn, HotWhileWorking
<1> QED  BY <1>1, LifeTypeCorrect, PTL

-----------------------------------------------------------------------------
(* The completion bonus                                                    *)

\* What has been paid and what is still accrued comes out of the tokens of the game.
Solvent(g) ==
  /\ g \in Games
  /\ g.completionBonus + Total(g.turnAccrual, RegionIds) <= g.computeFromTokens

SameAccounts(g, h) ==
  /\ h.completionBonus = g.completionBonus
  /\ h.turnAccrual = g.turnAccrual
  /\ h.computeFromTokens = g.computeFromTokens

LEMMA SolventIsBonus ==
  ASSUME game \in Games
  PROVE  Solvent(game) <=> BonusAtMostOnce
<1>1. MapThenSumSet(LAMBDA r : game.turnAccrual[r], RegionIds) = Total(game.turnAccrual, RegionIds)
  BY DEF MapThenSumSet, MapThenFoldSet, Total, Sums, Summing, Pick
<1> QED  BY <1>1 DEF Solvent, BonusAtMostOnce

LEMMA AccountTypes ==
  ASSUME NEW g \in Games
  PROVE  /\ g.turnAccrual \in [RegionIds -> Nat] /\ g.turnAccrual \in [RegionIds -> Int]
         /\ Total(g.turnAccrual, RegionIds) \in Nat
         /\ g.completionBonus \in Nat /\ g.computeFromTokens \in Nat
<1>1. /\ g.turnAccrual \in [RegionIds -> Nat]
      /\ g.completionBonus \in Nat /\ g.computeFromTokens \in Nat
  BY DEF Games
<1>2. g.turnAccrual \in [RegionIds -> Int]
  BY <1>1
<1> QED  BY <1>1, <1>2, TotalType

\* What an event does to the accounts: a prompt drops the accrual of its region, usage adds
\* to it as much as to the tokens, and a Stop pays it.
LEMMA EffectSolvent ==
  ASSUME NEW g, Solvent(g), NEW s \in Sessions, NEW r \in RegionIds, NEW e \in Telemetry,
         NEW tokens \in Nat, NEW h, h = ApplyEffect(g, s, r, e, tokens)
  PROVE  Solvent(h)
<1>1. g \in Games
  BY DEF Solvent
<1>2. h \in Games
  BY <1>1, EffectFacts
<1> DEFINE old == Total(g.turnAccrual, RegionIds)
           new == Total(h.turnAccrual, RegionIds)
<1>3. /\ g.turnAccrual \in [RegionIds -> Int] /\ g.turnAccrual[r] \in Nat
      /\ h.turnAccrual \in [RegionIds -> Int]
      /\ old \in Nat /\ new \in Nat /\ g.completionBonus \in Nat /\ g.computeFromTokens \in Nat
  BY <1>1, <1>2, AccountTypes
<1>4. g.completionBonus + old <= g.computeFromTokens
  BY DEF Solvent
<1>5. ASSUME \A q \in RegionIds \ {r} : h.turnAccrual[q] = g.turnAccrual[q]
      PROVE  new = (old - g.turnAccrual[r]) + h.turnAccrual[r]
  BY <1>3, <1>5, TotalChange
<1> HIDE DEF old, new
<1>6. h.completionBonus + new <= h.computeFromTokens
  <2>1. CASE e = "UserPromptSubmit"
    <3>1. h = [g EXCEPT !.turnAccrual = [g.turnAccrual EXCEPT ![r] = 0]]
      BY <1>1, <2>1 DEF ApplyEffect, Games
    <3>2. /\ h.completionBonus = g.completionBonus /\ h.computeFromTokens = g.computeFromTokens
          /\ h.turnAccrual = [g.turnAccrual EXCEPT ![r] = 0]
      BY <1>1, <3>1 DEF Games
    <3>3. h.turnAccrual[r] = 0 /\ \A q \in RegionIds \ {r} : h.turnAccrual[q] = g.turnAccrual[q]
      BY <1>3, <3>2
    <3>4. new = old - g.turnAccrual[r]
      BY <1>3, <1>5, <3>3
    <3> QED  BY <1>3, <1>4, <3>2, <3>4
  <2>2. CASE e = "TokenUsage"
    <3>1. h = [g EXCEPT !.computeFromTokens = g.computeFromTokens + tokens,
                        !.turnAccrual = [g.turnAccrual EXCEPT ![r] = g.turnAccrual[r] + tokens]]
      BY <1>1, <2>2 DEF ApplyEffect, ApplyTokenUsage, Games
    <3>2. /\ h.completionBonus = g.completionBonus
          /\ h.computeFromTokens = g.computeFromTokens + tokens
          /\ h.turnAccrual = [g.turnAccrual EXCEPT ![r] = g.turnAccrual[r] + tokens]
      BY <1>1, <3>1 DEF Games
    <3>3. /\ h.turnAccrual[r] = g.turnAccrual[r] + tokens
          /\ \A q \in RegionIds \ {r} : h.turnAccrual[q] = g.turnAccrual[q]
      BY <1>3, <3>2
    <3>4. new = old + tokens
      BY <1>3, <1>5, <3>3
    <3> QED  BY <1>3, <1>4, <3>2, <3>4
  <2>3. CASE e = "Stop"
    <3>1. h = [g EXCEPT !.completionBonus = g.completionBonus + g.turnAccrual[r],
                        !.turnAccrual = [g.turnAccrual EXCEPT ![r] = 0]]
      BY <1>1, <2>3 DEF ApplyEffect, ApplyStop, Games
    <3>2. /\ h.completionBonus = g.completionBonus + g.turnAccrual[r]
          /\ h.computeFromTokens = g.computeFromTokens
          /\ h.turnAccrual = [g.turnAccrual EXCEPT ![r] = 0]
      BY <1>1, <3>1 DEF Games
    <3>3. h.turnAccrual[r] = 0 /\ \A q \in RegionIds \ {r} : h.turnAccrual[q] = g.turnAccrual[q]
      BY <1>3, <3>2
    <3>4. new = old - g.turnAccrual[r]
      BY <1>3, <1>5, <3>3
    <3> QED  BY <1>3, <1>4, <3>2, <3>4
  <2>4. CASE e \notin {"UserPromptSubmit", "TokenUsage", "Stop"}
    <3>1. SameAccounts(g, h)
      BY <1>1, <2>4 DEF ApplyEffect, Games, Telemetry, SameAccounts
    <3> QED  BY <1>4, <3>1 DEF SameAccounts, old, new
  <2> QED  BY <2>1, <2>2, <2>3, <2>4
<1> QED  BY <1>2, <1>6 DEF Solvent, new

LEMMA SameSolvent ==
  ASSUME NEW g, NEW h \in Games, Solvent(g), SameAccounts(g, h)
  PROVE  Solvent(h)
BY DEF Solvent, SameAccounts

LEMMA TelemetrySolvent ==
  ASSUME NEW g, Solvent(g), NEW s \in Sessions, NEW cwd \in RegionIds \cup {None},
         NEW e \in Telemetry, NEW tokens \in Nat,
         NEW h, h = ApplyTelemetry(g, s, cwd, e, tokens)
  PROVE  Solvent(h)
<1>1. g \in Games
  BY DEF Solvent
<1>2. PICK r \in RegionIds : r = RegionOf(g, s, cwd)
  BY <1>1, RegionOfType
<1>3. PICK a : a = ResolveRegion(g, s, r)
  OBVIOUS
<1>4. a \in Games
  BY <1>1, <1>3, ResolveFacts
<1>5. SameAccounts(g, a)
  BY <1>1, <1>3 DEF ResolveRegion, Games, SameAccounts
<1>6. PICK m : m = MirrorStatus(a.sessionStatus[s], e)
  OBVIOUS
<1>7. m \in SessionStatuses \cup {"none"}
  <2>1. a.sessionStatus[s] \in SessionStatuses \cup {"none"}
    BY <1>4 DEF Games
  <2> QED  BY <1>6, <2>1, MirrorType
<1>8. PICK b : b = WithStatus(a, s, m)
  OBVIOUS
<1>9. b \in Games
  BY <1>4, <1>7, <1>8, StatusSetFacts
<1>10. SameAccounts(a, b)
  BY <1>4, <1>8 DEF WithStatus, Games, SameAccounts
<1>11. PICK c : c = ApplyEffect(b, s, r, e, tokens)
  OBVIOUS
<1>12. Solvent(a)
  BY <1>4, <1>5, SameSolvent
<1>13. Solvent(b)
  BY <1>9, <1>10, <1>12, SameSolvent
<1>14. Solvent(c)
  BY <1>11, <1>13, EffectSolvent
<1>15. c \in Games
  BY <1>14 DEF Solvent
<1>16. h = RefreshRegionStatus(c, r)
  <2>1. [a EXCEPT !.sessionStatus[s] = MirrorStatus(@, e)] = b
    BY <1>4, <1>6, <1>8 DEF Games, WithStatus
  <2> QED  BY <1>2, <1>3, <1>11, <2>1 DEF ApplyTelemetry
<1>17. h \in Games
  BY <1>15, <1>16, RefreshFacts DEF Refreshed
<1>18. SameAccounts(c, h)
  BY <1>15, <1>16 DEF RefreshRegionStatus, Games, SameAccounts
<1> QED  BY <1>14, <1>17, <1>18, SameSolvent

\* A change of state pays nothing.
LEMMA StateSolvent ==
  ASSUME NEW g, Solvent(g), NEW s \in Sessions, NEW from, NEW to,
         NEW h, h = Transition(g, s, from, to)
  PROVE  Solvent(h)
<1>1. g \in Games
  BY DEF Solvent
<1>2. CASE from = to
  BY <1>2 DEF Transition
<1>3. CASE from # to
  <2>1. h = ApplySessionState(g, s, to)
    BY <1>3 DEF Transition
  <2>2. h \in Games
    BY <1>1, <2>1, SessionStateFacts
  <2>3. SameAccounts(g, h)
    BY <1>1, <2>1 DEF ApplySessionState, RefreshRegionStatus, Games, SameAccounts
  <2> QED  BY <2>2, <2>3, SameSolvent
<1> QED  BY <1>2, <1>3

LEMMA HandleSolvent ==
  ASSUME NEW d, Solvent(d.game), NEW s \in Sessions, NEW cwd \in RegionIds \cup {None},
         NEW e \in Telemetry, NEW tokens \in Nat, NEW h, h = HandleEvent(d, s, e, cwd, tokens)
  PROVE  Solvent(h.game)
<1> DEFINE from == IF d.state = "none" THEN InitialState ELSE d.state
           to == NextState(d.state, e)
<1>1. PICK a : a = ApplyTelemetry(d.game, s, cwd, e, tokens)
  OBVIOUS
<1>2. h.game = Transition(a, s, from, to)
  BY <1>1 DEF HandleEvent
<1>3. Solvent(a)
  BY <1>1, TelemetrySolvent
<1> HIDE DEF from, to
<1> QED  BY <1>2, <1>3, StateSolvent

LEMMA PollSolvent ==
  ASSUME NEW d, Solvent(d.game), NEW s \in Sessions, unread[s] \in Nat,
         NEW h, h = Poll(d, s)
  PROVE  Solvent(h.game)
<1>1. "TokenUsage" \in Telemetry /\ None \in RegionIds \cup {None}
  BY DEF Telemetry
<1>2. CASE unread[s] = 0
  BY <1>2 DEF Poll
<1>3. CASE unread[s] # 0
  <2>1. h = HandleEvent(d, s, "TokenUsage", None, unread[s])
    BY <1>3 DEF Poll
  <2> QED  BY <1>1, <2>1, HandleSolvent
<1> QED  BY <1>2, <1>3

LEMMA SolventStep ==
  ASSUME RegionTypeOK, RegionTypeOK', Solvent(game), [RegionNext]_lifeVars
  PROVE  Solvent(game')
<1>1. game \in Games /\ game' \in Games /\ \A s \in Sessions : unread[s] \in Nat
  BY DEF RegionTypeOK
<1>2. \A s \in Sessions : Now(s).game = game
  BY DEF Now
<1>3. ASSUME NEW s \in Sessions, NEW cwd \in (RegionIds \ {Unassigned}) \cup {None},
             NEW e \in {"UserPromptSubmit", "Asks", "SessionEnd", "Activity"}, HookEvent(s, e, cwd)
      PROVE  Solvent(game')
  <2>1. PICK h : h = HandleEvent(Now(s), s, e, cwd, 0)
    OBVIOUS
  <2>2. game' = h.game
    BY <1>3, <2>1 DEF HookEvent, Becomes
  <2>3. e \in Telemetry /\ 0 \in Nat /\ cwd \in RegionIds \cup {None}
    BY DEF Telemetry
  <2>4. Solvent(Now(s).game)
    BY <1>2
  <2>5. Solvent(h.game)
    BY <2>1, <2>3, <2>4, HandleSolvent
  <2> QED  BY <2>2, <2>5
<1>4. ASSUME NEW s \in Sessions, NEW cwd \in (RegionIds \ {Unassigned}) \cup {None}, StopEvent(s, cwd)
      PROVE  Solvent(game')
  <2>1. PICK h : h = HandleEvent(Now(s), s, "Stop", cwd, 0)
    OBVIOUS
  <2>2. PICK p : p = Poll(h, s)
    OBVIOUS
  <2>3. game' = p.game
    BY <1>4, <2>1, <2>2 DEF StopEvent, Becomes
  <2>4. "Stop" \in Telemetry /\ 0 \in Nat /\ cwd \in RegionIds \cup {None}
    BY DEF Telemetry
  <2>5. Solvent(Now(s).game)
    BY <1>2
  <2>6. Solvent(h.game)
    BY <2>1, <2>4, <2>5, HandleSolvent
  <2>7. Solvent(p.game)
    BY <1>1, <2>2, <2>6, PollSolvent
  <2> QED  BY <2>3, <2>7
<1>5. ASSUME NEW s \in Sessions, StaleTimer(s) PROVE Solvent(game')
  <2>1. PICK to \in StaleStates(sessions[s]) \cup {sessions[s]}, polls \in BOOLEAN :
          Becomes(s, IF polls THEN Poll([state |-> to, game |-> Transition(game, s, sessions[s], to)], s)
                     ELSE [state |-> to, game |-> Transition(game, s, sessions[s], to)])
    BY <1>5 DEF StaleTimer
  <2>2. PICK silent : silent = [state |-> to, game |-> Transition(game, s, sessions[s], to)]
    OBVIOUS
  <2>3. PICK p : p = Poll(silent, s)
    OBVIOUS
  <2>4. silent.game = Transition(game, s, sessions[s], to)
    BY <2>2
  <2>5. Solvent(silent.game)
    BY <2>4, StateSolvent
  <2>6. Solvent(p.game)
    BY <1>1, <2>3, <2>5, PollSolvent
  <2>7. game' = IF polls THEN p.game ELSE silent.game
    BY <2>1, <2>2, <2>3 DEF Becomes
  <2> QED  BY <2>5, <2>6, <2>7
<1>6. ASSUME NEW s \in Sessions, WriteUsage(s) PROVE Solvent(game')
  BY <1>6 DEF WriteUsage
<1>7. CASE Ship
  <2>1. /\ game'.completionBonus = game.completionBonus
        /\ game'.computeFromTokens = game.computeFromTokens
        /\ game'.turnAccrual = [r \in RegionIds |-> 0]
    BY <1>1, <1>7 DEF Ship, ShipRegions, Games
  <2>2. \A r \in RegionIds : game'.turnAccrual[r] = 0
    BY <2>1
  <2>3. Total(game'.turnAccrual, RegionIds) = 0
    BY <2>2, TotalOfZeros
  <2>4. /\ Total(game.turnAccrual, RegionIds) \in Nat
        /\ game.completionBonus \in Nat /\ game.computeFromTokens \in Nat
    BY <1>1, AccountTypes
  <2> QED  BY <1>1, <2>1, <2>3, <2>4 DEF Solvent
<1>8. CASE Restart
  <2>1. SameAccounts(game, game')
    BY <1>1, <1>8 DEF Restart, HandOver, Games, SameAccounts
  <2> QED  BY <1>1, <2>1, SameSolvent
<1>9. CASE UNCHANGED lifeVars
  BY <1>9 DEF lifeVars
<1> QED  BY <1>3, <1>4, <1>5, <1>6, <1>7, <1>8, <1>9 DEF RegionNext

\* For any sessions, directories and tokens, no unit of output tokens is paid a completion
\* bonus twice, whatever sessions share a region and in whatever order their turns end.
THEOREM BonusPaidOnce == RegionSpec => []BonusAtMostOnce
<1>1. RegionInit => Solvent(game)
  <2> SUFFICES ASSUME RegionInit PROVE Solvent(game)
    OBVIOUS
  <2>1. game \in Games
    BY LifeInit DEF RegionTypeOK
  <2>2. game.completionBonus = 0 /\ game.computeFromTokens = 0 /\ \A r \in RegionIds : game.turnAccrual[r] = 0
    BY DEF RegionInit, InitialGame
  <2>3. Total(game.turnAccrual, RegionIds) = 0
    BY <2>2, TotalOfZeros
  <2> QED  BY <2>1, <2>2, <2>3 DEF Solvent
<1>2. RegionTypeOK /\ RegionTypeOK' /\ Solvent(game) /\ [RegionNext]_lifeVars => Solvent(game)'
  BY SolventStep
<1>3. RegionTypeOK /\ Solvent(game) => BonusAtMostOnce
  BY SolventIsBonus DEF RegionTypeOK
<1> QED  BY <1>1, <1>2, <1>3, LifeTypeCorrect, PTL DEF RegionSpec

=============================================================================
