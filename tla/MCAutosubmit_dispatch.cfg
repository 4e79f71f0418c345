\* Two overlapping ticks; two deaths of the dispatcher or restarts of the agent.
SPECIFICATION FairSpec
CONSTANTS
  Subs = {s1}
  Ticks = {t1, t2}
  MaxAttempts = 3
  MaxFaults = 2
  NoSub = NoSub
INVARIANTS
  LicensedRedispatch
  OneDispatcher
  OneRunPerLife
  ArmedIsWithTheAgent
PROPERTIES
  PlannedIsLeft
CHECK_DEADLOCK FALSE
