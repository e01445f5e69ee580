CONSTANTS
  Event = {e1, e2}
  NearShift = 1
  LevelShift = 1
  MaxDiff = 2
SPECIFICATION FairSpec
PROPERTIES ImplementsAlarm FiresInOrder EveryTimerFires
