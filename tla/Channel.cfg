SPECIFICATION FairSpec
CONSTANTS
  None = none
  MaxInputs = 3
  MaxRestarts = 2
CHECK_DEADLOCK FALSE
INVARIANT InStep
PROPERTY Converges
