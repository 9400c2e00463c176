SPECIFICATION Spec
CONSTANTS
  None = none
  MaxResponses = 3
  MaxLines = 3
  MaxEvents = 3
  MaxRestarts = 2
  MaxTruncations = 1
  MaxRotations = 1
CHECK_DEADLOCK FALSE
INVARIANTS CountedOnce NothingPassedOver
