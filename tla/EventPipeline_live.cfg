SPECIFICATION FairSpec
CONSTANTS
  Sessions = {s1}
  Hooks = {h1}
  MaxLines = 2
  MaxRestarts = 2
  MaxTruncations = 1
  RotateAbove = 0
  FsErrors = TRUE
CHECK_DEADLOCK FALSE
INVARIANTS
  DoubleCountNeedsNestedDrain
  NothingLostOnDisk
PROPERTY
  EveryLineCounted
