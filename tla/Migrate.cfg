SPECIFICATION FairSpec
CONSTANTS
  acme = acme
  ACME = ACME
  mine = mine
  Rows <- MCRows
  Key <- MCKey
  Private <- MCPrivate
  Stores <- Found
  Replicas = {r1, r2}
  MaxCrashes = 2
INVARIANTS ServesOnlyWhole LedgerIsTrue ServedRowsAreClassed
PROPERTIES BootsDoNotCollide BootsEnd
CHECK_DEADLOCK FALSE
