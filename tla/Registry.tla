------------------------------ MODULE Registry ------------------------------
(***************************************************************************)
(* What the verbs that write org-class rows promise: "One RPC is one       *)
(* transaction (D5)".  A SyncProjects call takes effect at one instant or  *)
(* not at all, and the store it leaves is the declaration; a TouchProjects *)
(* call advances last_seen_at at one instant or not at all.  There are no  *)
(* locks, no read views and no steps inside a call here: SyncProjects.tla  *)
(* is the code, and is shown to implement this module.                     *)
(***************************************************************************)
EXTENDS ProjectStore

CONSTANTS Syncs, Flushes, Declarations, FlushRequests, InitialStores

VARIABLES
  project, project_grant,   \* the committed tables
  call,                     \* call[c]: "idle", "open" or "answered"
  declared,                 \* declared[s]: what sync s was sent
  flush,                    \* flush[f]: what flush f was sent
  answer                    \* answer[c]: the status the caller got

vars == <<project, project_grant, call, declared, flush, answer>>
Calls == Syncs \union Flushes

\* The store a declaration describes, given the one it is applied to.
ConvergedRow(d, rows, p) ==
  IF p \in d.names
  THEN CASE ~Exists(rows, p) ->
              [status |-> "ACTIVE", content |-> d.content[p], version |-> 1, seen |-> 0]
         [] IsActive(rows, p) /\ rows[p].content = d.content[p] -> rows[p]
         [] OTHER ->
              [rows[p] EXCEPT !.status = "ACTIVE", !.content = d.content[p], !.version = @ + 1]
  ELSE IF IsActive(rows, p)
       THEN [rows[p] EXCEPT !.status = "ARCHIVED", !.version = @ + 1]
       ELSE rows[p]

Converged(d, rows) == [p \in Paths |-> ConvergedRow(d, rows, p)]

\* What an accepted sync may do.  Never a project at a former path; and,
\* unless the caller said so, never more than half of the active rows
\* archived (ADR-0939), never more than half of the grants deleted (ADR-0963).
Archived(before, after) == {p \in ActiveRows(before) : ~IsActive(after, p)}
Permitted(d, rows, g) ==
  /\ d.names \intersect Aliases = {}
  /\ ~d.allow_mass_archive =>
       2 * Cardinality(Archived(rows, Converged(d, rows))) <= Cardinality(ActiveRows(rows))
  /\ ~d.allow_mass_revoke =>
       2 * Cardinality(GrantRows(g) \ GrantRows(d.level)) <= Cardinality(GrantRows(g))

Advanced(rows, reached, at) ==
  [p \in Paths |->
     IF p \in reached /\ Exists(rows, p) /\ rows[p].seen < at
     THEN [rows[p] EXCEPT !.seen = at] ELSE rows[p]]

Init ==
  /\ \E store \in InitialStores :
       project = store.rows /\ project_grant = store.grants
  /\ call = [c \in Calls |-> "idle"]
  /\ declared \in [Syncs -> Declarations]
  /\ flush \in [Flushes -> FlushRequests]
  /\ answer = [c \in Calls |-> "none"]

Open(c) ==
  /\ call[c] = "idle"
  /\ call' = [call EXCEPT ![c] = "open"]
  /\ UNCHANGED <<project, project_grant, declared, flush, answer>>

Answer(c, a) ==
  /\ call' = [call EXCEPT ![c] = "answered"]
  /\ answer' = [answer EXCEPT ![c] = a]
  /\ UNCHANGED <<declared, flush>>

\* The call takes effect.  The caller may still not hear of it.
Sync(s) ==
  /\ call[s] = "open"
  /\ Permitted(declared[s], project, project_grant)
  /\ project' = Converged(declared[s], project)
  /\ project_grant' = declared[s].level
  /\ \E a \in {"ok", "internal", "gone"} : Answer(s, a)

\* A refusal states a fact of the store at that instant, and writes nothing.
Refuse(s) ==
  /\ call[s] = "open"
  /\ ~Permitted(declared[s], project, project_grant)
  /\ Answer(s, IF declared[s].names \intersect Aliases # {}
               THEN "already_exists" ELSE "failed_precondition")
  /\ UNCHANGED <<project, project_grant>>

\* The flush takes effect on rows it names.  A row registered while it runs
\* may be missed, so the rows reached are a subset of the named ones.
Touch(f) ==
  /\ call[f] = "open"
  /\ \E reached \in SUBSET Reached(flush[f].names) :
       project' = Advanced(project, reached, flush[f].seen_at)
  /\ UNCHANGED project_grant
  /\ \E a \in {"ok", "internal", "gone"} : Answer(f, a)

\* Turned away before it opened a transaction, or rolled back: no effect.
NoEffect(c) ==
  /\ call[c] # "answered"
  /\ \E a \in {"permission_denied", "invalid_argument", "unavailable",
               "deadline_exceeded", "aborted", "internal", "gone"} : Answer(c, a)
  /\ UNCHANGED <<project, project_grant>>

Next ==
  \/ \E c \in Calls : Open(c) \/ NoEffect(c)
  \/ \E s \in Syncs : Sync(s) \/ Refuse(s)
  \/ \E f \in Flushes : Touch(f)

Spec == Init /\ [][Next]_vars
=============================================================================
