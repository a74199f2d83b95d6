CONSTANTS
  Ops = {o1, o2}
  Kinds = {"remote"}
  Formats = {"tar"}
  Files = {f1}
  Archive = {f1}
  None = None
SPECIFICATION FairSpec
CHECK_DEADLOCK FALSE
INVARIANT OneAtATime
