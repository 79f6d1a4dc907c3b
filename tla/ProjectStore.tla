---------------------------- MODULE ProjectStore ----------------------------
(***************************************************************************)
(* The two tables a sync writes, `project` (org-class rows) and            *)
(* `project_grant`, and what one declaration means for them.               *)
(*                                                                         *)
(* Paths are the case-folded keys of org-class paths: the column collates  *)
(* utf8mb4_general_ci and every comparison in the code folds ASCII case,   *)
(* so two spellings of one path are one element here.  display_name and    *)
(* source_repo are always written together and compared as a pair, so a    *)
(* row carries one `content'.  created_by, updated_by and updated_at are   *)
(* written by the same statements as `version' and are left out.           *)
(***************************************************************************)
EXTENDS Naturals, FiniteSets

CONSTANTS
  Paths,      \* case-folded paths of the organisation namespace
  Root,       \* Root[p]: the one-segment path p sits under; a root is its own
  Aliases,    \* former paths held by project_alias; no verb writes that table
  AliasOf,    \* AliasOf[a]: the live path the former path a resolves to
  Contents,   \* (display_name, source_repo) pairs
  Teams,      \* team ids
  Levels,     \* READ = 1, READ_WRITE = 2
  NoRow       \* "no project row with this path"

\* project_grant has no row for the pair.
NoGrant == 0
Grade == Levels \union {NoGrant}

Row == [status  : {"ACTIVE", "ARCHIVED"},
        content : Contents,
        version : Nat \ {0},
        seen    : Nat]          \* last_seen_at; 0 is SQL NULL

ProjectTable == [Paths -> Row \union {NoRow}]
GrantTable   == [Paths -> [Teams -> Grade]]

ASSUME StoreAssumption ==
  /\ IsFiniteSet(Paths) /\ IsFiniteSet(Teams)
  /\ Root \in [Paths -> Paths]
  /\ \A p \in Paths : Root[Root[p]] = Root[p]
  /\ Aliases \subseteq Paths
  /\ AliasOf \in [Aliases -> Paths \ Aliases]
  /\ Levels \subseteq Nat \ {0}
  /\ NoRow \notin Row

Exists(rows, p) == rows[p] # NoRow
IsActive(rows, p) == Exists(rows, p) /\ rows[p].status = "ACTIVE"
ActiveRows(rows) == {p \in Paths : IsActive(rows, p)}

\* The stored grant rows, as (path, team) pairs.
GrantRows(g) == {pt \in Paths \X Teams : g[pt[1]][pt[2]] # NoGrant}

(***************************************************************************)
(* A declaration.  content and level mean something at declared names      *)
(* only; grants arrive inside a declared row, so no other name has any.    *)
(***************************************************************************)
Declaration == [names   : SUBSET Paths,
                content : [Paths -> Contents],
                level   : [Paths -> [Teams -> Grade]],
                allow_mass_archive : BOOLEAN,
                allow_mass_revoke  : BOOLEAN]

\* What `validate' lets through: at least one root, each project strictly
\* under a declared root (grants of a row not declared cannot be expressed).
Admissible(d) ==
  /\ d.names # {}
  /\ \A p \in d.names : Root[p] \in d.names
  /\ \A p \in Paths \ d.names : \A t \in Teams : d.level[p][t] = NoGrant

\* A flush answered by `touch': the names it offers and its seen_at.
FlushRequest == [names : (SUBSET Paths) \ {{}}, seen_at : Nat \ {0}]

\* What a flush's predicate selects: path IN names OR the id behind an alias
\* IN names.
Reached(names) == names \union {AliasOf[a] : a \in names \intersect Aliases}

\* No grant outlives its row's activity: a grant hangs on an ACTIVE row.
GrantsOnActiveRows(rows, g) ==
  \A p \in Paths : \A t \in Teams : g[p][t] # NoGrant => IsActive(rows, p)

\* Nothing lives at a former path: one path means one thing (D53).
NothingAtFormerPaths(rows) == \A a \in Aliases : ~Exists(rows, a)
=============================================================================
