SPECIFICATION FairSyncSpec
CONSTANTS
  Writers = {w1, w2}
  MaxPushes = 3
  MaxQueued = 2
  MaxUpsets = 1
INVARIANTS SyncTypeOK ViewIsBasePlusQueue AppliedInOrder EveryInputAccounted
PROPERTIES LossNeedsOverlap Converges
