SPECIFICATION FewCalls
CONSTANTS
  acme = acme
  api = api
  web = web
  old = old
  c1 = c1
  c2 = c2
  t1 = t1
  NoRow = NoRow
  NoTx = NoTx
  Paths <- MCPaths
  Root <- MCRoot
  Aliases <- MCAliases
  AliasOf <- MCAliasOf
  Contents = {c1, c2}
  Levels = {1, 2}
  Teams = {t1}
  Syncs = {s1, s2}
  Flushes = {f1, f2}
  f1 = f1
  f2 = f2
  s1 = s1
  s2 = s2
  Declarations <- FewDeclarations
  FlushRequests <- MCFlushes2
  InitialStores <- TwoStores
INVARIANTS FlushesLast
PROPERTIES CallsEnd RowsEvolve
CHECK_DEADLOCK FALSE
