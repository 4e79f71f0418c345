SPECIFICATION Spec
CONSTANTS
  Roots = {r1, r2, r3}
  Writers = {"daily"}
  NoResume = FALSE
  Published = 1
  Loaded = TRUE
  MaxId = 5
  PageSize = 2
  MaxPages = 9
  MaxFailures = 1
INVARIANTS
  NoGap
