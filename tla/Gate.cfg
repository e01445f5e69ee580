CONSTANTS
  Fd = {s1, s2}
  MaxActivity = 2
  maxclient = 1
SPECIFICATION FairSpec
CHECK_DEADLOCK FALSE
INVARIANTS ClosedOnce CountBalances
PROPERTIES PlaceReturned
