SPECIFICATION Spec
CONSTANTS
  acme = acme
  api = api
  web = web
  old = old
  c1 = c1
  c2 = c2
  t1 = t1
  NoRow = NoRow
  NoTx = NoTx
  Paths <- MCPaths
  Root <- MCRoot
  Aliases <- MCAliases
  AliasOf <- MCAliasOf
  Contents = {c1, c2}
  Levels = {1, 2}
  Teams = {t1}
  Syncs = {s1}
  Flushes = {f1}
  Declarations <- FewDeclarations
  FlushRequests <- AliasFlushes
  InitialStores <- TwoStores
PROPERTIES WarningIsTrue
CHECK_DEADLOCK FALSE
