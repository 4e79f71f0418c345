\* One submission, no death of any process: only the report can be lost.
SPECIFICATION FairSpec
CONSTANTS
  Subs = {s1}
  Ticks = {t1}
  MaxAttempts = 2
  MaxFaults = 0
  NoSub = NoSub
PROPERTIES
  ArmedIsResolved
CHECK_DEADLOCK FALSE
