SPECIFICATION RegionSpec
CONSTANTS
  Sessions = {s1, s2}
  RegionIds = {unassigned, r1, r2}
  Unassigned = unassigned
  None = none
  MaxTokens = 2
SYMMETRY Symmetry
INVARIANTS RegionTypeOK StatusTracksSessions HotWhileWorking BonusAtMostOnce
