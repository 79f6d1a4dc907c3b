SPECIFICATION FairSpec
CONSTANTS
  Calls = {c1}
  PreStop = 1
  Budget = 2
  ExitMargin = 3
  Grace = 6
  Lateness = 1
  Unread = Unread
  MaxSwaps = 1
  MaxOutages = 0
  MaxFailures = 0
PROPERTIES RotationsAreNoticed
CHECK_DEADLOCK FALSE
