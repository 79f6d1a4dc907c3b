--------------------------- MODULE MCSyncProjects ---------------------------
(* A namespace `acme' with two projects and a former path, for TLC. *)
EXTENDS SyncProjects, TLC

CONSTANTS acme, api, web, old, c1, c2, t1

MCPaths   == {acme, api, web, old}
MCRoot    == [p \in MCPaths |-> acme]
MCAliases == {old}
MCAliasOf == (old :> api)

Grades(f) == [p \in MCPaths |-> [t \in Teams |->
                IF <<p, t>> \in DOMAIN f THEN f[<<p, t>>] ELSE NoGrant]]
Decl(names, content, grades, archiveOk, revokeOk) ==
  [names |-> names, content |-> [p \in MCPaths |-> IF p \in DOMAIN content THEN content[p] ELSE c1],
   level |-> Grades(grades),
   allow_mass_archive |-> archiveOk, allow_mass_revoke |-> revokeOk]

None == <<>>
Full      == Decl({acme, api, web}, None, (<<api, t1>> :> 1), FALSE, FALSE)
Changed   == Decl({acme, api, web}, (api :> c2), (<<api, t1>> :> 2) @@ (<<web, t1>> :> 1), FALSE, FALSE)
Smaller   == Decl({acme, api}, None, (<<api, t1>> :> 1), FALSE, FALSE)
Truncated == Decl({acme}, None, None, FALSE, TRUE)
Silent    == Decl({acme, api, web}, None, None, FALSE, FALSE)
Purge     == Decl({acme}, None, None, TRUE, TRUE)
Reclaim   == Decl({acme, old}, None, None, TRUE, TRUE)

ActiveRow(c, v)   == [status |-> "ACTIVE", content |-> c, version |-> v, seen |-> 0]
ArchivedRow(c, v) == [status |-> "ARCHIVED", content |-> c, version |-> v, seen |-> 1]
EmptyStore == [rows |-> [p \in MCPaths |-> NoRow], grants |-> Grades(None)]
UsedStore  == [rows |-> (acme :> ActiveRow(c1, 1)) @@ (api :> ActiveRow(c1, 2))
                        @@ (web :> ArchivedRow(c2, 3)) @@ (old :> NoRow),
               grants |-> Grades(<<api, t1>> :> 1)]
FullStore  == [rows |-> (acme :> ActiveRow(c1, 1)) @@ (api :> ActiveRow(c1, 1))
                        @@ (web :> ActiveRow(c1, 1)) @@ (old :> NoRow),
               grants |-> Grades((<<api, t1>> :> 1) @@ (<<web, t1>> :> 2))]

\* two syncs beside one flush
MCDeclarations == {Full, Changed, Smaller, Truncated, Silent, Purge, Reclaim}
MCFlushes1     == {[names |-> {api, web}, seen_at |-> 2]}
MCStores       == {EmptyStore, UsedStore, FullStore}

\* one sync beside two flushes, one late (MCSyncCalls)
FewDeclarations == {Full, Changed, Purge}
MCFlushes2      == {[names |-> {api, web}, seen_at |-> 1], [names |-> {old, web}, seen_at |-> 3]}
AliasFlushes    == {[names |-> {old, api}, seen_at |-> 2]}
TwoStores       == {UsedStore, FullStore}
=============================================================================
