SPECIFICATION Spec
CONSTANTS
  Sessions = {s1}
  Hooks = {h1}
  MaxLines = 3
  MaxRestarts = 2
  MaxTruncations = 1
  RotateAbove = 0
  FsErrors = FALSE
CHECK_DEADLOCK FALSE
INVARIANTS
  TypeOK
  EmittedOncePerRun
  ExactlyOnce
PROPERTY
  KeepsLedger
