SPECIFICATION Spec
CONSTANTS
  Subs = {s1}
  Ticks = {t1}
  MaxAttempts = 2
  MaxFaults = 0
  NoSub = NoSub
PROPERTIES
  TerminalIsFinal
CHECK_DEADLOCK FALSE
