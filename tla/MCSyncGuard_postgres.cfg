SPECIFICATION Spec
CONSTANTS
  Threads = {t1, t2}
  MaxDeaths = 0
INVARIANTS
  OneWorks
CHECK_DEADLOCK FALSE
