---------------------------- MODULE ReadProjects ----------------------------
(***************************************************************************)
(* GetProject and ListProjects (src/src/read.rs) beside the writers.  A    *)
(* read takes no lock and sees committed rows only, so the writers are     *)
(* here as Registry.tla has them, one step per call; each SELECT of a read *)
(* is an autocommit statement of its own, and a paged walk is one such     *)
(* read after another.                                                     *)
(***************************************************************************)
EXTENDS Registry, Sequences

CONSTANTS
  Gets,        \* GetProject calls
  Walks,       \* callers reading ListProjects page after page
  Everything,  \* a list with no under_path
  Unders,      \* what a walk may list under: Everything, paths
  Rank,        \* the order of paths under the column's collation
  PageSize     \* what page_size clamps the request to

ASSUME ReadAssumption ==
  /\ Rank \in [Paths -> Nat \ {0}]
  /\ \A p, q \in Paths : Rank[p] = Rank[q] => p = q
  /\ PageSize \in Nat \ {0}
  /\ Everything \notin Paths /\ Unders \subseteq Paths \cup {Everything}

VARIABLES
  get_pc, get_path,
  get_row,       \* the project row the first SELECT answered
  get_level,     \* the grants the last SELECT answered
  get_states,    \* history: (row, grants) pairs committed while it runs
  walk_pc,
  walk_status,   \* the status filter: "any", or one status
  walk_under,
  walk_page,     \* paths of the page being filled
  walk_token,    \* rank of next_page_token; 0 is the empty token
  walk_more,     \* the page found one row more than it returns
  walk_rows,     \* paths returned so far, in order
  walk_steady    \* history: paths the filter matched in every state since

walk_filter == <<walk_status, walk_under>>
get_vars  == <<get_pc, get_path, get_row, get_level, get_states>>
walk_vars == <<walk_pc, walk_filter, walk_page, walk_token, walk_more, walk_rows, walk_steady>>
read_vars == <<get_vars, walk_vars, vars>>

\* The named project and what is strictly beneath it: a path here is a root or
\* lies under one.
IsUnder(p, under) == under \in {Everything, p, Root[p]}

Matches(rows, w, p) ==
  Exists(rows, p) /\ walk_status[w] \in {"any", rows[p].status} /\ IsUnder(p, walk_under[w])

NoLevel == [t \in Teams |-> NoGrant]

ReadInit ==
  /\ Init
  /\ get_pc = [g \in Gets |-> "idle"]
  /\ get_path \in [Gets -> Paths]
  /\ get_row = [g \in Gets |-> NoRow]
  /\ get_level = [g \in Gets |-> NoLevel]
  /\ get_states = [g \in Gets |-> {}]
  /\ walk_pc = [w \in Walks |-> "idle"]
  /\ walk_status \in [Walks -> {"any", "ACTIVE"}]
  /\ walk_under \in [Walks -> Unders]
  /\ walk_page = [w \in Walks |-> <<>>]
  /\ walk_token = [w \in Walks |-> 0]
  /\ walk_more = [w \in Walks |-> FALSE]
  /\ walk_rows = [w \in Walks |-> <<>>]
  /\ walk_steady = [w \in Walks |-> {}]

(***************************************************************************)
(*                               GetProject                                *)
(***************************************************************************)
\* WHERE path = ? OR id = (SELECT ... alias_path = ?), a live path first.
Named(rows, p) == IF ~Exists(rows, p) /\ p \in Aliases THEN AliasOf[p] ELSE p

Committed(rows, g, p) == <<rows[p], g[p]>>

SelectProject(g) ==
  LET p == Named(project, get_path[g]) IN
  /\ get_pc[g] = "idle"
  /\ get_row' = [get_row EXCEPT ![g] = project[p]]
  /\ get_states' = [get_states EXCEPT ![g] = {Committed(project, project_grant, p)}]
  /\ get_pc' = [get_pc EXCEPT ![g] = IF Exists(project, p) THEN "aliases" ELSE "not_found"]
  /\ UNCHANGED <<get_path, get_level, walk_vars, vars>>

\* with_aliases: no served verb writes project_alias, so its rows are fixed.
SelectAliases(g) ==
  /\ get_pc[g] = "aliases"
  /\ get_pc' = [get_pc EXCEPT ![g] = "grants"]
  /\ UNCHANGED <<get_path, get_row, get_level, get_states, walk_vars, vars>>

\* with_grants, by the row's id.
SelectGrants(g) ==
  /\ get_pc[g] = "grants"
  /\ get_level' = [get_level EXCEPT ![g] = project_grant[Named(project, get_path[g])]]
  /\ get_pc' = [get_pc EXCEPT ![g] = "ok"]
  /\ UNCHANGED <<get_path, get_row, get_states, walk_vars, vars>>

(***************************************************************************)
(*                              ListProjects                               *)
(***************************************************************************)
\* ORDER BY path LIMIT n, over the rows past the token.
Past(rows, w) == {p \in Paths : Matches(rows, w, p) /\ Rank[p] > walk_token[w]}

Ordered(set) ==
  [i \in 1..Cardinality(set) |->
     CHOOSE p \in set : Cardinality({q \in set : Rank[q] < Rank[p]}) = i - 1]
Limited(seq, n) == SubSeq(seq, 1, IF Len(seq) < n THEN Len(seq) ELSE n)

BeginWalk(w) ==
  /\ walk_pc[w] = "idle"
  /\ walk_pc' = [walk_pc EXCEPT ![w] = "rows"]
  /\ walk_steady' = [walk_steady EXCEPT ![w] =
                       {p \in Paths : Matches(project, w, p)}]
  /\ UNCHANGED <<walk_filter, walk_page, walk_token, walk_more, walk_rows, get_vars, vars>>

\* Mutant: the token is the path of the row beyond the page.
SelectShortPage(w) ==
  LET fetched == Limited(Ordered(Past(project, w)), PageSize + 1)
      page    == Limited(fetched, PageSize) IN
  /\ walk_pc[w] = "rows"
  /\ walk_more' = [walk_more EXCEPT ![w] = Len(fetched) > PageSize]
  /\ walk_page' = [walk_page EXCEPT ![w] = page]
  /\ walk_token' = [walk_token EXCEPT ![w] =
                      IF Len(fetched) > PageSize THEN Rank[fetched[Len(fetched)]] ELSE 0]
  /\ walk_pc' = [walk_pc EXCEPT ![w] = "fill"]
  /\ UNCHANGED <<walk_filter, walk_rows, walk_steady, get_vars, vars>>

\* One row more than asked for is fetched and dropped: it says there is a next
\* page, whose token is the last path kept.
SelectPage(w) ==
  LET fetched == Limited(Ordered(Past(project, w)), PageSize + 1)
      page    == Limited(fetched, PageSize) IN
  /\ walk_pc[w] = "rows"
  /\ walk_more' = [walk_more EXCEPT ![w] = Len(fetched) > PageSize]
  /\ walk_page' = [walk_page EXCEPT ![w] = page]
  /\ walk_token' = [walk_token EXCEPT ![w] =
                      IF Len(fetched) > PageSize THEN Rank[page[Len(page)]] ELSE 0]
  /\ walk_pc' = [walk_pc EXCEPT ![w] = "fill"]
  /\ UNCHANGED <<walk_filter, walk_rows, walk_steady, get_vars, vars>>

\* with_aliases and with_grants fill the page; the caller asks for the next
\* one if there is a token.
FillPage(w) ==
  /\ walk_pc[w] = "fill"
  /\ walk_rows' = [walk_rows EXCEPT ![w] = @ \o walk_page[w]]
  /\ walk_page' = [walk_page EXCEPT ![w] = <<>>]
  /\ walk_more' = [walk_more EXCEPT ![w] = FALSE]
  /\ walk_pc' = [walk_pc EXCEPT ![w] = IF walk_more[w] THEN "rows" ELSE "end"]
  /\ UNCHANGED <<walk_filter, walk_token, walk_steady, get_vars, vars>>

(***************************************************************************)
(*                       Writers, and the whole                            *)
(***************************************************************************)
\* A call of Registry; the histories follow what it commits.
Written ==
  /\ Next
  /\ get_states' = [g \in Gets |->
       IF get_pc[g] \in {"aliases", "grants"}
       THEN get_states[g] \union
              {Committed(project', project_grant', Named(project', get_path[g]))}
       ELSE get_states[g]]
  /\ walk_steady' = [w \in Walks |->
       IF walk_pc[w] \in {"rows", "fill"}
       THEN {p \in walk_steady[w] : Matches(project', w, p)}
       ELSE walk_steady[w]]
  /\ UNCHANGED <<get_pc, get_path, get_row, get_level,
                 walk_pc, walk_filter, walk_page, walk_token, walk_more, walk_rows>>

ReadNext ==
  \/ \E g \in Gets : SelectProject(g) \/ SelectAliases(g) \/ SelectGrants(g)
  \/ \E w \in Walks : BeginWalk(w) \/ SelectPage(w) \/ FillPage(w)
  \/ Written

ReadSpec == ReadInit /\ [][ReadNext]_read_vars

(***************************************************************************)
(*                               Properties                                *)
(***************************************************************************)
\* A paging caller is told each project at most once, in pages no longer than it
\* asked for, and by the end every project its filter matched from the first page
\* on, whatever is inserted, archived or revived meanwhile (read.rs, list).
WalksTellEachRowOnce ==
  \A w \in Walks :
    /\ Len(walk_page[w]) <= PageSize
    /\ \A i, j \in DOMAIN walk_rows[w] :
         i < j => Rank[walk_rows[w][i]] < Rank[walk_rows[w][j]]
    /\ walk_pc[w] = "end" =>
         \A p \in walk_steady[w] : \E i \in DOMAIN walk_rows[w] : walk_rows[w][i] = p

\* service.rs: "One RPC is one transaction (D5)".  What GetProject answers, the
\* row and its grants, stood together in one committed state of its call.
GetIsOneState ==
  \A g \in Gets : get_pc[g] = "ok" => <<get_row[g], get_level[g]>> \in get_states[g]
=============================================================================
