CONSTANTS
  Heights = {1, 2, 3}
  WithStmt = {}
  Width = 2
  Torn = Torn
  NoBlock = NoBlock
  Failures = {}
  MaxRuns = 1
SPECIFICATION FairSpec
CHECK_DEADLOCK FALSE
INVARIANT ChainHistoryKept
