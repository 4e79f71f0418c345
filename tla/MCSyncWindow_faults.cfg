SPECIFICATION Spec
CONSTANTS
  N = 2
  PageSize = 1
  Margin = 2
  FirstSpan = 2
  MaxSpan = 4
  Days = {1}
  Stale = 1
  Skew = 1
  Start = 2
  MaxTime = 5
  MaxRuns = 3
  Faults = {"ows", "other", "death", "duplicate"}
  MaxFaults = 2
INVARIANTS
  CountedFailuresLoseNothing
PROPERTIES
  WalkIsComplete
CHECK_DEADLOCK FALSE
