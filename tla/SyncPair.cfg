SPECIFICATION Spec
CONSTANTS
  acme = acme
  api = api
  web = web
  old = old
  c1 = c1
  c2 = c2
  t1 = t1
  NoRow = NoRow
  NoTx = NoTx
  Paths <- MCPaths
  Root <- MCRoot
  Aliases <- MCAliases
  AliasOf <- MCAliasOf
  Contents = {c1, c2}
  Levels = {1, 2}
  Teams = {t1}
  Syncs = {s1, s2}
  Flushes = {f1}
  Declarations <- MCDeclarations
  FlushRequests <- MCFlushes1
  InitialStores <- MCStores
INVARIANTS TypeOK ViewIsCurrent GrantsFollowTheirRow FormerPathsStayFree NoSyncCollides SyncsNeverDeadlock
PROPERTIES CountsAreTrue ImplementsRegistry
CHECK_DEADLOCK FALSE
