---------------------------- MODULE MCGameEconomy ----------------------------
(* Two project directories and a balance in which everything is near. *)
EXTENDS GameEconomy, TLC

MCBalance ==
  [baseCost |-> [gpu |-> 1, rack |-> 1, datacenter |-> 1],
   requiresPrevious |-> [gpu |-> 0, rack |-> 2, datacenter |-> 1],
   multiplier |-> [gpu |-> 2, rack |-> 30, datacenter |-> 200],
   fullRateTokensPerWindow |-> 4, windowMs |-> 1,
   stopAllRegionBonus |-> 1,
   perToolCall |-> [engineering |-> 2, research |-> 1], postMortem |-> 1,
   hireBaseCost |-> 1, reputationPerHireSlot |-> 1,
   experimentDataCost |-> 1, experimentEngineeringCost |-> 1, experimentProgress |-> 1,
   trainingDataCost |-> 2, trainingProgress |-> 8, trainingCompute |-> 4,
   baseProgress |-> 1, breakthroughsPerShip |-> 2, overshootBonusCap |-> 1,
   maxActivePerRegion |-> 2, minIntervalMs |-> 2]

Symmetry == Permutations(Regions)
=============================================================================
