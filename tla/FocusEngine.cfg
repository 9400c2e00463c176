SPECIFICATION FairSpec
CONSTANTS
  Sessions = {s1, s2}
  GamePane = game
  Elsewhere = elsewhere
  None = none
  FocusEnabled = TRUE
  MaxEvents = 2
  MaxCalls = 2
  MaxUpsets = 1
CHECK_DEADLOCK FALSE
INVARIANTS QueueTracksState QueueIsFifo
PROPERTIES AutoFocusFromSource BackToSession
