SPECIFICATION CorpusSpec
CONSTANTS
  Null = none
  Sources <- MCSources
  SessionOf <- MCSessionOf
  CwdOf <- MCCwdOf
  Chunks <- MCChunks
  Tools <- MCTools
  Histories <- MCHistories
  RuleSets <- MCRuleSets
  Windows <- MCWindows
  MinTurns = {0, 1}
  ModelOf <- MCModelOf
  Prices <- MCPrices
  ShortHistory = 2
  MaxChanges = 2
  MaxRuns = 3
CHECK_DEADLOCK FALSE
INVARIANTS StreamsFaithful NothingStale ReportMatches
