SPECIFICATION FairSpec
CONSTANTS
  Calls = {c1, c2, c3}
  Conns = {k1, k2}
  NoConn = NoConn
  NoDeadline = NoDeadline
  Budgets <- SomeBudgets
  Ceiling = 3
  Margin = 2
  Lateness = 1
INVARIANTS HandsOutClean HeldByOne AnsweredBeforeDeadline
PROPERTY WaitingEnds
CHECK_DEADLOCK FALSE
