SPECIFICATION FairSpec
CONSTANTS
  p1 = p1
  p2 = p2
  old = old
  k1 = k1
  k2 = k2
  n1 = n1
  n2 = n2
  r1 = r1
  r2 = r2
  r3 = r3
  NoKey = NoKey
  NoCall = NoCall
  NoClaim = NoClaim
  Paths = {p1, p2, old}
  Former = {old}
  Keys = {k1, k2}
  Names = {n1, n2}
  Calls = {r1, r2, r3}
  Requests <- MCRequests
  OldClaims <- MCOldClaims
INVARIANTS RecordedIffWritten OkIsTheCommittedRow ConflictIsForeign
PROPERTIES ImplementsRegistration CallsEnd
CHECK_DEADLOCK FALSE
