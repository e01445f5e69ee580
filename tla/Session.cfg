CONSTANTS
  User = {u1}
  Fd = {f1, f2}
  logind = logind
  watchdog = watchdog
  gate = gate
  aoi = aoi
  Nil = Nil
  MaxActivity = 4
SPECIFICATION FairSpec
CHECK_DEADLOCK FALSE
INVARIANTS NeverAlreadyOnline OnlineHasSecret MapHasAgent
PROPERTIES LoginEnds AgentExits
