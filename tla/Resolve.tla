--------------------------------- MODULE Resolve ---------------------------------
(***************************************************************************)
(* ResolveProject (src/src/read.rs) over a store that registrations and     *)
(* declarations fill: an unregistered path resolves to its nearest          *)
(* registered ancestor, by its live path or by a former one.  One call is   *)
(* one SELECT, so one step.                                                 *)
(***************************************************************************)
EXTENDS Paths, FiniteSets

CONSTANTS
  Names,     \* paths that writers offer
  Asked,     \* candidates a caller may send
  Legacy,    \* stores this build may find: records of rows and former paths
  MaxRows    \* bound: rows of the store

\* Every store found was written under uq_project_path, uq_alias_path and
\* the check of one table against the other, and no rename took a project out of
\* its account: RenameProject is not served (write.rs).
ASSUME ResolveAssumption ==
  /\ Names \subseteq Seq(Chars) /\ Asked \subseteq Seq(Chars)
  /\ \A s \in Legacy :
    /\ s.rows \subseteq [path : Seq(Chars), status : {"active", "archived"}]
    /\ s.former \subseteq [alias : Seq(Chars), path : Seq(Chars)]
    /\ \A r, q \in s.rows : SameKey(r.path, q.path) => r = q
    /\ \A f \in s.former : \E r \in s.rows : r.path = f.path
    /\ \A f, g \in s.former : SameKey(f.alias, g.alias) => f = g
    /\ \A f \in s.former, r \in s.rows : ~SameKey(f.alias, r.path)
    /\ \A f \in s.former, u \in Users :
         IsUnderOwnRoot(Fold(f.alias), Account[u]) => IsUnderOwnRoot(Fold(f.path), Account[u])

VARIABLES
  rows,    \* project: path and status
  former,  \* project_alias: alias_path and the live path of its project
  answer   \* what the last call was told, while the store has not changed

vars == <<rows, former, answer>>

None == [says |-> "nothing"]

\* Mutant: a former path is not a key.
TakenLive(p) == \E r \in rows : SameKey(r.path, p)

\* A key of the store, by its live path or a former one.
Taken(p) == (\E r \in rows : SameKey(r.path, p)) \/ (\E f \in former : SameKey(f.alias, p))

Init ==
  /\ \E s \in Legacy : rows = s.rows /\ former = s.former
  /\ answer = None

(***************************************************************************)
(*                              The other writers                           *)
(***************************************************************************)
\* A private registration, after its checks.
Register(u, p) ==
  /\ RegisterAdmits(p, u)
  /\ Cardinality(rows) < MaxRows
  /\ ~Taken(p)
  /\ rows' = rows \cup {[path |-> p, status |-> "active"]}
  /\ answer' = None
  /\ UNCHANGED former

\* A whole declaration: no key twice, and a root for every project.
IsDeclaration(D) ==
  /\ \A p \in D : SyncAdmits(p)
  /\ \A p, q \in D : SameKey(p, q) => p = q
  /\ \E p \in D : Slashes(p) = {}
  /\ \A p \in D : Slashes(p) # {} => \E q \in D : SameKey(q, SubSeq(p, 1, FirstSlash(p) - 1))

\* SyncProjects, when its guards let it write: the organisation rows become the
\* declared ones, an existing row keeping its spelling, the others archived.
Sync(D) ==
  LET org == {r \in rows : ~IsPrivateClass(r.path)}
      Declared(r) == \E p \in D : SameKey(p, r.path)
      new == {p \in D : ~\E r \in org : SameKey(p, r.path)} IN
  /\ IsDeclaration(D)
  /\ \A f \in former : \A p \in D : ~SameKey(p, f.alias)
  /\ Cardinality(rows) + Cardinality(new) <= MaxRows
  /\ rows' = (rows \ org)
       \cup {[r EXCEPT !.status = IF Declared(r) THEN "active" ELSE "archived"] : r \in org}
       \cup {[path |-> p, status |-> "active"] : p \in new}
  /\ answer' = None
  /\ UNCHANGED former

(***************************************************************************)
(*                              ResolveProject                              *)
(***************************************************************************)
\* validate, refuse_reserved_root.
Refused(c) == ~IsPath(c) \/ IsReservedRoot(c)

\* Mutant: the filter compares byte by byte.
ChainBytes(c) == {Ancestors(c)[i] : i \in DOMAIN Ancestors(c)} \ {ReservedRoot}

\* The ancestor chain, without the reserved segment.
Chain(c) == {a \in {Ancestors(c)[i] : i \in DOMAIN Ancestors(c)} : ~IsReservedRoot(a)}

\* Mutant: the second arm is forgotten.
AncestorRowsLive(chain) ==
  {[matched |-> r.path, row |-> r, via_alias |-> 0] :
     r \in {q \in rows : \E a \in chain : SameKey(q.path, a)}}

\* ancestor_rows: one statement, the live paths and the former ones in the chain.
AncestorRows(chain) ==
  LET In(p) == \E a \in chain : SameKey(p, a) IN
  {[matched |-> r.path, row |-> r, via_alias |-> 0] : r \in {q \in rows : In(q.path)}}
    \cup
  {[matched |-> p[1].alias, row |-> p[2], via_alias |-> 1] :
     p \in {q \in former \X rows : q[2].path = q[1].path /\ In(q[1].alias)}}

\* max_by_key (matched.len(), -via_alias): the deepest, a live path first.
Best(found) ==
  CHOOSE x \in found : \A y \in found :
    \/ Len(y.matched) < Len(x.matched)
    \/ Len(y.matched) = Len(x.matched) /\ y.via_alias >= x.via_alias

\* Mutant: exact compares byte by byte.
ExactBytes(best, c) == best.matched = c

Exact(best, c) == SameKey(best.matched, c)

AnswerTo(c) ==
  IF Refused(c) THEN [says |-> "invalid_argument", asked |-> c]
  ELSE LET found == AncestorRows(Chain(c)) IN
       \* IN () is a syntax error
       IF Chain(c) = {} THEN [says |-> "internal", asked |-> c]
       ELSE IF found = {} THEN [says |-> "not_found", asked |-> c]
       ELSE LET best == Best(found) IN
            [says |-> "ok", asked |-> c, row |-> best.row, exact |-> Exact(best, c),
             via_alias |-> Exact(best, c) /\ best.via_alias = 1]

Resolve(c) == answer' = AnswerTo(c) /\ UNCHANGED <<rows, former>>

Next ==
  \/ \E u \in Users, p \in Names : Register(u, p)
  \/ \E D \in SUBSET {p \in Names : SyncAdmits(p)} : Sync(D)
  \/ \E c \in Asked : Resolve(c)

Spec == Init /\ [][Next]_vars

(***************************************************************************)
(*                                Properties                                *)
(***************************************************************************)
\* The store and the last answer; a key of the store names one project.
TypeOK ==
  /\ rows \subseteq [path : Seq(Chars), status : {"active", "archived"}]
  /\ former \subseteq [alias : Seq(Chars), path : Seq(Chars)]
  /\ answer.says \in {"nothing", "invalid_argument", "internal", "not_found", "ok"}
  /\ \A r, q \in rows : SameKey(r.path, q.path) => r = q
  /\ \A f \in former, r \in rows : ~SameKey(f.alias, r.path)

Answered == answer.says \in {"ok", "not_found"}

\* The names of the store above a path, the reserved segment aside.
NamesAbove(c) == {a \in Above(c) : Taken(a) /\ ~IsReservedRoot(a)}

\* An answer is the project of the nearest name above the candidate, live or
\* former, archived or not, and not_found says there is none (read.rs, resolve).
NearestNameWins ==
  Answered =>
    LET names == NamesAbove(answer.asked) IN
    /\ answer.says = "not_found" <=> names = {}
    /\ answer.says = "ok" =>
         \E a \in names :
           /\ \A b \in names : Len(b) <= Len(a)
           /\ \/ SameKey(answer.row.path, a)
              \/ \E f \in former : SameKey(f.alias, a) /\ f.path = answer.row.path
           /\ answer.exact <=> SameKey(a, answer.asked)

\* A path under an account's root resolves to that account's projects only, also
\* in a store where an earlier build let somebody take the reserved segment
\* (read.rs, the chain filter).
PrivatePathsStayPrivate ==
  answer.says = "ok" =>
    \A u \in Users :
      IsUnderOwnRoot(Fold(answer.asked), Account[u]) =>
        IsUnderOwnRoot(Fold(answer.row.path), Account[u])

\* Two spellings of one key are told the same (the three folds of resolve).
SpellingsAgree ==
  answer # None =>
    \A s \in Spellings(answer.asked) : AnswerTo(s) = [answer EXCEPT !.asked = s]

\* A caller told that nothing is registered at the path, which the notice tells
\* an operator to register, does not then meet ALREADY_EXISTS (read.rs, exact).
NoticeIsNoDeadEnd ==
  Answered /\ ~(answer.says = "ok" /\ answer.exact) => ~Taken(answer.asked)
=============================================================================
