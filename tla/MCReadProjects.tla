--------------------------- MODULE MCReadProjects ---------------------------
(* The namespace of MCSyncProjects, ordered for paging, for TLC. *)
EXTENDS ReadProjects, TLC

CONSTANTS acme, api, web, old, c1, c2, t1

MCPaths   == {acme, api, web, old}
MCRoot    == [p \in MCPaths |-> acme]
MCAliases == {old}
MCAliasOf == (old :> api)
MCUnders  == {Everything, api}
MCRank    == (acme :> 1) @@ (api :> 2) @@ (old :> 3) @@ (web :> 4)

Grades(f) == [p \in MCPaths |-> [t \in Teams |->
                IF <<p, t>> \in DOMAIN f THEN f[<<p, t>>] ELSE NoGrant]]
Decl(names, content, grades) ==
  [names |-> names, content |-> [p \in MCPaths |-> IF p \in DOMAIN content THEN content[p] ELSE c1],
   level |-> Grades(grades), allow_mass_archive |-> TRUE, allow_mass_revoke |-> TRUE]

None == <<>>
MCDeclarations ==
  {Decl({acme, api, web}, None, <<api, t1>> :> 1),
   Decl({acme, web}, None, None),
   Decl({acme, api}, api :> c2, <<api, t1>> :> 2)}
MCFlushes == {[names |-> {api}, seen_at |-> 1]}

ActiveRow(c, v) == [status |-> "ACTIVE", content |-> c, version |-> v, seen |-> 0]
MCStores ==
  {[rows |-> [p \in MCPaths |-> NoRow], grants |-> Grades(None)],
   [rows |-> (acme :> ActiveRow(c1, 1)) @@ (api :> ActiveRow(c1, 2))
             @@ (web :> ActiveRow(c2, 1)) @@ (old :> NoRow),
    grants |-> Grades(<<api, t1>> :> 1)]}

\* The status a writer was answered says nothing about the store and is read by
\* no guard: two states that differ in nothing else are one to every property.
Unanswered == <<get_vars, walk_vars, project, project_grant, call, declared, flush>>
=============================================================================
