\* A volley of three messages, two deaths.
SPECIFICATION FairSpec
CONSTANTS
  Threads = {t1, t2, t3}
  MaxDeaths = 2
INVARIANTS
  OneWorksInOrder
  VolleyIsNotLost
PROPERTIES
  RowsAreClosed
CHECK_DEADLOCK FALSE
