SPECIFICATION Spec
CONSTANTS
  N = 2
  PageSize = 1
  Margin = 2
  FirstSpan = 2
  MaxSpan = 5
  Days = {}
  Stale = 1
  Skew = 1
  Start = 2
  MaxTime = 8
  MaxRuns = 3
  Faults = {"other"}
  MaxFaults = 1
CHECK_DEADLOCK FALSE
INVARIANTS
  NothingFallsBehind
