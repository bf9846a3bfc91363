CONSTANTS
  Wing = {w1}
  Call = {c1}
  MaxChild = 3
  Threshold = 2
  None = None
SPECIFICATION FairSpec
INVARIANTS TypeOK OneProcess Invalidated
PROPERTIES NoFalseAlarm WatchedAgain
CHECK_DEADLOCK FALSE
