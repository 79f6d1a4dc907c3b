------------------------------- MODULE MCMigrate -------------------------------
(* The stores that releases left behind, for TLC. *)
EXTENDS Migrate, TLC

CONSTANTS acme, ACME, mine

MCRows == {acme, ACME, mine}
MCKey == (acme :> acme) @@ (ACME :> acme) @@ (mine :> mine)
MCPrivate == {mine}

NoRows == [p \in MCRows |-> "absent"]
With(p, class) == [NoRows EXCEPT ![p] = class]
Store(n, parts, stored, is_old) ==
  [ledger |-> 1..n, schema |-> parts, rows |-> stored, old |-> is_old]

\* Before #33, create_project made the table alone.
FirstTables == {"project", "project_alias", "project_write"}
V0_1 == FirstTables \cup {"path_ci", "alias_ci"}
V0_2 == Complete \ {"sync_lock", "sync_lock_row", "project_grant"}
SyncLock == {"sync_lock", "sync_lock_row"}

Found ==
  {Store(0, {}, NoRows, FALSE),                               \* fresh
   Store(4, V0_1, NoRows, TRUE),                              \* v0.1.x, still serving
   Store(4, V0_1, With(mine, "unclassed"), FALSE),            \* v0.1.x with a row
   Store(3, FirstTables,                                      \* a case-sensitive one
         [With(acme, "unclassed") EXCEPT ![ACME] = "unclassed"], FALSE),
   Store(4, V0_2, With(mine, "private"), FALSE),              \* v0.2 to v0.6
   Store(5, V0_1 \cup SyncLock, NoRows, FALSE),               \* v0.7.0 on a v0.1.x store
   Store(6, V0_2 \cup SyncLock, With(acme, "org"), FALSE),    \* v0.7.1
   Store(8, Complete \cup {"newer"}, NoRows, FALSE)}          \* a later release
=============================================================================
