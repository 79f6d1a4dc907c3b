SPECIFICATION ReadSpec
CONSTANTS
  acme = acme
  api = api
  web = web
  old = old
  c1 = c1
  c2 = c2
  t1 = t1
  NoRow = NoRow
  Paths <- MCPaths
  Root <- MCRoot
  Aliases <- MCAliases
  AliasOf <- MCAliasOf
  Everything = Everything
  Unders <- MCUnders
  Rank <- MCRank
  Contents = {c1, c2}
  Levels = {1, 2}
  Teams = {t1}
  Syncs = {s1, s2}
  Flushes = {f1}
  Gets = {g1}
  Walks = {w1}
  PageSize = 1
  Declarations <- MCDeclarations
  FlushRequests <- MCFlushes
  InitialStores <- MCStores
INVARIANTS WalksTellEachRowOnce
CHECK_DEADLOCK FALSE
VIEW Unanswered
