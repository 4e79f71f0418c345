\* One worker crash between a DECR and the acknowledgement of its message.
CONSTANTS
  Annos = {a1, a2}
  MaxRetries = 1
  ListingRetries = 0
  SameRun = FALSE
  Faults <- CrashOnly
  MaxFaults = 1
  TimeLimit = 1
  StaleAfter = 2
  NoKey = NoKey
SPECIFICATION Spec
SYMMETRY Symmetry
INVARIANTS NoEarlyClose
CHECK_DEADLOCK FALSE
