\* Every fault, a run reused by the retries of its listing actor.
CONSTANTS
  Annos = {a1, a2}
  MaxRetries = 1
  ListingRetries = 1
  SameRun = TRUE
  Faults <- AllFaults
  MaxFaults = 1
  TimeLimit = 1
  StaleAfter = 2
  NoKey = NoKey
SPECIFICATION FairSpec
INVARIANTS ReaperSparesAttempts KeyIsCleanedUp
PROPERTIES RunIsFinished
CHECK_DEADLOCK FALSE
