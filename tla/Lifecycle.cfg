SPECIFICATION FairSpec
CONSTANTS
  Calls = {c1, c2}
  PreStop = 1
  Budget = 2
  ExitMargin = 3
  Grace = 6
  Lateness = 1
  Unread = Unread
  MaxSwaps = 2
  MaxOutages = 1
  MaxFailures = 1
INVARIANTS NotKilledOnceHeard
PROPERTIES CutsAreEarned SettlesOnTheMount
CHECK_DEADLOCK FALSE
