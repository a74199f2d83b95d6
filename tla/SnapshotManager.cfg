CONSTANTS
  Ops = {o1, o2}
  Kinds = {"create", "local", "remote"}
  Formats = {"tar", "xz"}
  Files = {f1, f2}
  Archive = {f1}
  None = None
SPECIFICATION FairSpec
CHECK_DEADLOCK FALSE
INVARIANTS TypeOK BusyMeansActive CompletedMeansRestored FailedLeavesNothing NodeOutOfTheWay
PROPERTIES CancelledEnds PausedNodeReturns
