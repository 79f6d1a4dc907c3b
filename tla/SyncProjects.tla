---------------------------- MODULE SyncProjects ----------------------------
(***************************************************************************)
(* SyncProjects (src/src/write/sync.rs, grants.rs) statement by statement, *)
(* several calls at once, beside TouchProjects flushes (touch.rs) that     *)
(* take no sentinel, over one MariaDB/InnoDB store.                        *)
(*                                                                         *)
(* The engine, as far as the code depends on it: a write is private to its *)
(* transaction until COMMIT and its row stays locked until then; the first *)
(* plain SELECT opens the read view that every later plain SELECT of the   *)
(* transaction reads; an UPDATE locks and reads the newest committed row,  *)
(* and raises ER_CHECKREAD (1020) if that row is newer than an open read   *)
(* view (touch.rs measures this); a wait ends in 1205 or 1213 when the     *)
(* lock never comes.  A dropped connection or handler rolls back.          *)
(***************************************************************************)
EXTENDS ProjectStore

CONSTANTS
  Syncs, Flushes,    \* the calls that may be made, each at most once
  NoTx,              \* owner of a free lock
  Declarations,      \* what a sync may be sent, past `validate'
  FlushRequests,     \* what a flush may be sent, past its own checks
  InitialStores      \* stores the process may find at boot

Txs == Syncs \union Flushes
Store == [rows : ProjectTable, grants : GrantTable]

ASSUME CallAssumption ==
  /\ Syncs \intersect Flushes = {}
  /\ NoTx \notin Txs

ASSUME InputAssumption ==
  /\ Declarations \subseteq {d \in Declaration : Admissible(d)}
  /\ FlushRequests \subseteq FlushRequest
  /\ InitialStores \subseteq
       {store \in Store : /\ GrantsOnActiveRows(store.rows, store.grants)
                          /\ NothingAtFormerPaths(store.rows)}

VARIABLES
  \* committed tables and the engine's locks
  project, project_grant,
  sync_lock,      \* owner of the project_sync_lock row
  row_lock,       \* row_lock[p]: owner of the row lock on path p
  \* each sync call
  pc, declared,
  view,           \* view[s]: project as its read view shows it
  view_grant,     \* view_grant[s]: project_grant in that read view
  stale,          \* stale[s]: rows others committed since the read view
  outcome,        \* outcome[s][p]: how s counts row p in its response
  draft,          \* draft[s][p]: the row s wrote at p, not committed
  \* each flush call
  fpc, flush,
  scanned,        \* scanned[f]: rows the UPDATE has passed over
  touched,        \* touched[f]: rows it rewrote, not committed
  matched,        \* matched[f]: what COUNT(*) answered
  covered,        \* history: rows an OK flush found when its UPDATE ran
  \* both
  answer,         \* the status on the wire
  error           \* the engine error number it was made from; 0 for none

store_vars == <<project, project_grant>>
sync_vars  == <<pc, view, view_grant, stale, outcome, draft>>
flush_vars == <<fpc, scanned, touched, matched, covered>>
vars == <<project, project_grant, sync_lock, row_lock, pc, declared, view,
          view_grant, stale, outcome, draft, fpc, flush, scanned, touched,
          matched, covered, answer, error>>

(***************************************************************************)
(*                                  Types                                  *)
(***************************************************************************)
SyncPc   == {"idle", "lock", "read", "write", "commit", "done"}
FlushPc  == {"idle", "update", "commit", "done"}
Outcomes == {"none", "inserted", "updated", "reactivated", "unchanged", "archived"}
Statuses == {"none", "ok", "permission_denied", "invalid_argument", "already_exists",
             "failed_precondition", "unavailable", "deadline_exceeded", "aborted",
             "internal", "gone"}      \* "gone": nobody is left to hear it

LockWaitTimeout == 1205
Deadlock        == 1213
CheckRead       == 1020
DupEntry        == 1062
LostConnection  == 2013
Errors == {0, LockWaitTimeout, Deadlock, CheckRead, DupEntry, LostConnection}

NoRows   == [p \in Paths |-> NoRow]
NoGrants == [p \in Paths |-> [t \in Teams |-> NoGrant]]
Untried  == [p \in Paths |-> "none"]

TypeOK ==
  /\ project \in ProjectTable
  /\ project_grant \in GrantTable
  /\ sync_lock \in Syncs \union {NoTx}
  /\ row_lock \in [Paths -> Txs \union {NoTx}]
  /\ pc \in [Syncs -> SyncPc]
  /\ declared \in [Syncs -> Declarations]
  /\ view \in [Syncs -> ProjectTable]
  /\ view_grant \in [Syncs -> GrantTable]
  /\ stale \in [Syncs -> SUBSET Paths]
  /\ outcome \in [Syncs -> [Paths -> Outcomes]]
  /\ draft \in [Syncs -> ProjectTable]
  /\ fpc \in [Flushes -> FlushPc]
  /\ flush \in [Flushes -> FlushRequests]
  /\ scanned \in [Flushes -> SUBSET Paths]
  /\ touched \in [Flushes -> SUBSET Paths]
  /\ matched \in [Flushes -> Nat]
  /\ covered \in [Flushes -> SUBSET Paths]
  /\ answer \in [Txs -> Statuses]
  /\ error \in [Txs -> Errors]

Init ==
  /\ \E store \in InitialStores :
       project = store.rows /\ project_grant = store.grants
  /\ sync_lock = NoTx
  /\ row_lock = [p \in Paths |-> NoTx]
  /\ pc = [s \in Syncs |-> "idle"]
  /\ declared \in [Syncs -> Declarations]
  /\ view = [s \in Syncs |-> NoRows]
  /\ view_grant = [s \in Syncs |-> NoGrants]
  /\ stale = [s \in Syncs |-> {}]
  /\ outcome = [s \in Syncs |-> Untried]
  /\ draft = [s \in Syncs |-> NoRows]
  /\ fpc = [f \in Flushes |-> "idle"]
  /\ flush \in [Flushes -> FlushRequests]
  /\ scanned = [f \in Flushes |-> {}]
  /\ touched = [f \in Flushes |-> {}]
  /\ matched = [f \in Flushes |-> 0]
  /\ covered = [f \in Flushes |-> {}]
  /\ answer = [x \in Txs |-> "none"]
  /\ error = [x \in Txs |-> 0]

(***************************************************************************)
(*                           Locks and endings                             *)
(***************************************************************************)
Free(x, p) == row_lock[p] \in {NoTx, x}
TakeRow(x, p) == row_lock' = [row_lock EXCEPT ![p] = x]
\* Mutant: the transaction goes back to the pool with its locks.
ReleaseNothing(x) == UNCHANGED row_lock
ReleaseRows(x) ==
  row_lock' = [p \in Paths |-> IF row_lock[p] = x THEN NoTx ELSE row_lock[p]]

\* sql::internal: what the caller is told of an engine error.
Internal(e) == IF e \in {LockWaitTimeout, Deadlock} THEN "aborted" ELSE "internal"

\* The transaction of sync s is over; nothing of it is left.
EndSync(s, a, e) ==
  /\ pc' = [pc EXCEPT ![s] = "done"]
  /\ sync_lock' = IF sync_lock = s THEN NoTx ELSE sync_lock
  /\ ReleaseRows(s)
  /\ view' = [view EXCEPT ![s] = NoRows]
  /\ view_grant' = [view_grant EXCEPT ![s] = NoGrants]
  /\ outcome' = [outcome EXCEPT ![s] = Untried]
  /\ draft' = [draft EXCEPT ![s] = NoRows]
  /\ answer' = [answer EXCEPT ![s] = a]
  /\ error' = [error EXCEPT ![s] = e]
  /\ UNCHANGED <<declared, flush, flush_vars>>

RollbackSync(s, a, e) ==
  /\ EndSync(s, a, e)
  /\ stale' = [stale EXCEPT ![s] = {}]
  /\ UNCHANGED store_vars

EndFlush(f, a, e) ==
  /\ fpc' = [fpc EXCEPT ![f] = "done"]
  /\ ReleaseRows(f)
  /\ scanned' = [scanned EXCEPT ![f] = {}]
  /\ touched' = [touched EXCEPT ![f] = {}]
  /\ answer' = [answer EXCEPT ![f] = a]
  /\ error' = [error EXCEPT ![f] = e]
  /\ UNCHANGED <<project_grant, sync_lock, pc, declared, view, view_grant,
                 outcome, draft, flush, matched>>

RollbackFlush(f, a, e) ==
  /\ EndFlush(f, a, e)
  /\ UNCHANGED <<project, stale, covered>>

(***************************************************************************)
(*                              SyncProjects                               *)
(***************************************************************************)
InTransaction(s) == pc[s] \in {"lock", "read", "write", "commit"}
HasReadView(s)   == pc[s] \in {"write", "commit"}

\* admitted, validate and Pooled::acquire may each refuse before a
\* transaction exists.
TurnAway(s) ==
  /\ pc[s] = "idle"
  /\ \E a \in {"permission_denied", "invalid_argument", "unavailable", "deadline_exceeded"} :
       RollbackSync(s, a, 0)

Begin(s) ==
  /\ pc[s] = "idle"
  /\ pc' = [pc EXCEPT ![s] = "lock"]
  /\ UNCHANGED <<store_vars, sync_lock, row_lock, declared, view, view_grant, stale,
                 outcome, draft, flush, flush_vars, answer, error>>

\* Mutant: the sentinel row is read without FOR UPDATE.
LockNothing(s) ==
  /\ pc[s] = "lock"
  /\ sync_lock' = s
  /\ pc' = [pc EXCEPT ![s] = "read"]
  /\ UNCHANGED <<store_vars, row_lock, declared, view, view_grant, stale,
                 outcome, draft, flush, flush_vars, answer, error>>

\* SELECT id FROM project_sync_lock WHERE id = 1 FOR UPDATE
LockSentinel(s) ==
  /\ pc[s] = "lock"
  /\ sync_lock = NoTx
  /\ sync_lock' = s
  /\ pc' = [pc EXCEPT ![s] = "read"]
  /\ UNCHANGED <<store_vars, row_lock, declared, view, view_grant, stale,
                 outcome, draft, flush, flush_vars, answer, error>>

\* Mutant: the alias rule is not applied to roots.
OnFormerProjectPath(d) == \E p \in d.names : p \in Aliases /\ Root[p] = p

\* refuse_aliases: a declared name is a former path.
OnFormerPath(d) == \E p \in d.names : p \in Aliases

\* to_archive: active rows the declaration does not name.
ToArchive(d, rows) == ActiveRows(rows) \ d.names

\* Mutant: exactly half trips the guard.
MassArchiveAtHalf(d, rows) ==
  /\ ~d.allow_mass_archive
  /\ Cardinality(ToArchive(d, rows)) * 2 >= Cardinality(ActiveRows(rows))

\* guard (ADR-0939): strictly more than half of the active rows.
MassArchive(d, rows) ==
  /\ ~d.allow_mass_archive
  /\ Cardinality(ToArchive(d, rows)) * 2 > Cardinality(ActiveRows(rows))

\* Mutant: only declared rows lose grants; an archived row keeps its own.
RevokedOnDeclared(d, g) ==
  {pt \in GrantRows(g) : pt[1] \in d.names /\ d.level[pt[1]][pt[2]] = NoGrant}

\* GrantPlan.deletes: stored pairs the declaration does not name.
Revoked(d, g) == {pt \in GrantRows(g) : d.level[pt[1]][pt[2]] = NoGrant}

\* revoke_guard (ADR-0963 (6)): strictly more than half of the grant rows.
MassRevoke(d, g) ==
  /\ ~d.allow_mass_revoke
  /\ Cardinality(Revoked(d, g)) * 2 > Cardinality(GrantRows(g))

\* The refusals apply reaches from its reads, in its order: a former path,
\* then the mass-archive guard, then the mass-revoke guard.
Refusal(d, rows, g) ==
  CASE OnFormerPath(d)     -> "already_exists"
    [] ~OnFormerPath(d) /\ (MassArchive(d, rows) \/ MassRevoke(d, g)) -> "failed_precondition"
    [] OTHER               -> "none"

\* Mutant: the reads come before the sentinel lock is waited for, so that the
\* lock is no longer held when they have been made.
PlanAndUnlock(s) ==
  /\ pc[s] = "read"
  /\ Refusal(declared[s], project, project_grant) = "none"
  /\ sync_lock' = NoTx
  /\ view' = [view EXCEPT ![s] = project]
  /\ view_grant' = [view_grant EXCEPT ![s] = project_grant]
  /\ stale' = [stale EXCEPT ![s] = {}]
  /\ pc' = [pc EXCEPT ![s] = "write"]
  /\ UNCHANGED <<store_vars, row_lock, declared, outcome, draft,
                 flush, flush_vars, answer, error>>

\* The three plain SELECTs share one read view, so they are one step; what
\* they decide is decided before any write.
ReadAndRefuse(s) ==
  /\ pc[s] = "read"
  /\ Refusal(declared[s], project, project_grant) # "none"
  /\ RollbackSync(s, Refusal(declared[s], project, project_grant), 0)

ReadAndPlan(s) ==
  /\ pc[s] = "read"
  /\ Refusal(declared[s], project, project_grant) = "none"
  /\ view' = [view EXCEPT ![s] = project]
  /\ view_grant' = [view_grant EXCEPT ![s] = project_grant]
  /\ stale' = [stale EXCEPT ![s] = {}]
  /\ pc' = [pc EXCEPT ![s] = "write"]
  /\ UNCHANGED <<store_vars, sync_lock, row_lock, declared, outcome, draft,
                 flush, flush_vars, answer, error>>

Untreated(s, p) == pc[s] = "write" /\ outcome[s][p] = "none"
Differs(s, p)   == view[s][p].content # declared[s].content[p]

\* One row's share of the response and, unless it is unchanged, its write.
Write(s, p, how, row) ==
  /\ TakeRow(s, p)
  /\ draft' = [draft EXCEPT ![s][p] = row]
  /\ outcome' = [outcome EXCEPT ![s][p] = how]
  /\ UNCHANGED <<store_vars, sync_lock, pc, declared, view, view_grant, stale,
                 flush, flush_vars, answer, error>>

\* Mutant: a new row starts at version 0.
InsertAtZero(s, p) ==
  /\ Untreated(s, p) /\ p \in declared[s].names
  /\ ~Exists(view[s], p)
  /\ Free(s, p)
  /\ IF Exists(project, p)
     THEN RollbackSync(s, Internal(DupEntry), DupEntry)
     ELSE Write(s, p, "inserted", [status |-> "ACTIVE", content |-> declared[s].content[p],
                                   version |-> 0, seen |-> 0])

\* write_one with no stored row: INSERT, refused by uq_project_path if the
\* path exists by now.
Insert(s, p) ==
  /\ Untreated(s, p) /\ p \in declared[s].names
  /\ ~Exists(view[s], p)
  /\ Free(s, p)
  /\ IF Exists(project, p)
     THEN RollbackSync(s, Internal(DupEntry), DupEntry)
     ELSE Write(s, p, "inserted", [status |-> "ACTIVE", content |-> declared[s].content[p],
                                   version |-> 1, seen |-> 0])

\* Mutant: a reactivated row that also differs counts as updated.
OverwriteMiscounted(s, p) ==
  /\ Untreated(s, p) /\ p \in declared[s].names
  /\ Exists(view[s], p)
  /\ Differs(s, p) \/ ~IsActive(view[s], p)
  /\ Free(s, p)
  /\ p \notin stale[s]
  /\ Write(s, p, IF Differs(s, p) THEN "updated" ELSE "reactivated",
           [project[p] EXCEPT !.status = "ACTIVE", !.content = declared[s].content[p],
                              !.version = @ + 1])

\* Mutant: REPLACE instead of UPDATE, which resets the columns it does not name.
OverwriteByReplace(s, p) ==
  /\ Untreated(s, p) /\ p \in declared[s].names
  /\ Exists(view[s], p)
  /\ Differs(s, p) \/ ~IsActive(view[s], p)
  /\ Free(s, p)
  /\ p \notin stale[s]
  /\ Write(s, p, IF IsActive(view[s], p) THEN "updated" ELSE "reactivated",
           [status |-> "ACTIVE", content |-> declared[s].content[p],
            version |-> project[p].version + 1, seen |-> 0])

\* write_one on a row that differs or is archived: one UPDATE, of the newest
\* committed row and of these columns only.
Overwrite(s, p) ==
  /\ Untreated(s, p) /\ p \in declared[s].names
  /\ Exists(view[s], p)
  /\ Differs(s, p) \/ ~IsActive(view[s], p)
  /\ Free(s, p)
  /\ p \notin stale[s]
  /\ Write(s, p, IF IsActive(view[s], p) THEN "updated" ELSE "reactivated",
           [project[p] EXCEPT !.status = "ACTIVE", !.content = declared[s].content[p],
                              !.version = @ + 1])

\* write_one on a row that already is as declared: no statement at all.
Leave(s, p) ==
  /\ Untreated(s, p) /\ p \in declared[s].names
  /\ IsActive(view[s], p)
  /\ ~Differs(s, p)
  /\ outcome' = [outcome EXCEPT ![s][p] = "unchanged"]
  /\ UNCHANGED <<store_vars, sync_lock, row_lock, pc, declared, view, view_grant, stale,
                 draft, flush, flush_vars, answer, error>>

\* archive: after every declared row, one UPDATE over the undeclared active
\* rows of the view, which it locks one after the other.
RowsWritten(s) == \A p \in declared[s].names : outcome[s][p] # "none"
Archive(s, p) ==
  /\ Untreated(s, p) /\ p \in ToArchive(declared[s], view[s])
  /\ RowsWritten(s)
  /\ Free(s, p)
  /\ p \notin stale[s]
  /\ Write(s, p, "archived",
           [project[p] EXCEPT !.status = "ARCHIVED", !.version = @ + 1])

\* Either UPDATE meets a row committed since the read view.
UpdateFails(s, p) ==
  /\ Untreated(s, p)
  /\ Free(s, p)
  /\ p \in stale[s]
  /\ \/ /\ p \in declared[s].names
        /\ Exists(view[s], p)
        /\ Differs(s, p) \/ ~IsActive(view[s], p)
     \/ p \in ToArchive(declared[s], view[s]) /\ RowsWritten(s)
  /\ RollbackSync(s, Internal(CheckRead), CheckRead)

\* grants::plan over the view; declared pairs not stored.
NewGrants(s) ==
  {pt \in Paths \X Teams : /\ declared[s].level[pt[1]][pt[2]] # NoGrant
                           /\ view_grant[s][pt[1]][pt[2]] = NoGrant}
\* Stored pairs declared with the same level.
UnchangedGrants(s) ==
  {pt \in GrantRows(view_grant[s]) :
     declared[s].level[pt[1]][pt[2]] = view_grant[s][pt[1]][pt[2]]}
ParentsOfNewGrants(s) == {pt[1] : pt \in NewGrants(s)}
AllWritten(s) ==
  /\ RowsWritten(s)
  /\ \A p \in ToArchive(declared[s], view[s]) : outcome[s][p] # "none"

\* grants::write: deletes, level changes, inserts.  Each INSERT locks its
\* parent row for the foreign key, and is refused if the pair exists.  The
\* source does not say whether that lock, too, raises 1020 on a row newer than
\* the read view: both outcomes are allowed.
WriteGrants(s) ==
  /\ pc[s] = "write"
  /\ AllWritten(s)
  /\ \A p \in ParentsOfNewGrants(s) : Free(s, p)
  /\ \A pt \in NewGrants(s) : project_grant[pt[1]][pt[2]] = NoGrant
  /\ row_lock' = [p \in Paths |-> IF p \in ParentsOfNewGrants(s) THEN s ELSE row_lock[p]]
  /\ pc' = [pc EXCEPT ![s] = "commit"]
  /\ UNCHANGED <<store_vars, sync_lock, declared, view, view_grant, stale, outcome, draft,
                 flush, flush_vars, answer, error>>

WriteGrantsFails(s) ==
  /\ pc[s] = "write"
  /\ AllWritten(s)
  /\ \A p \in ParentsOfNewGrants(s) : Free(s, p)
  /\ \/ /\ \E pt \in NewGrants(s) : project_grant[pt[1]][pt[2]] # NoGrant
        /\ RollbackSync(s, Internal(DupEntry), DupEntry)
     \/ /\ ParentsOfNewGrants(s) \intersect stale[s] # {}
        /\ RollbackSync(s, Internal(CheckRead), CheckRead)

\* The grant table once s has committed: each statement names its pair, so a
\* pair the plan does not mention keeps what it has.
GrantsAfter(s) ==
  [p \in Paths |-> [t \in Teams |->
     IF <<p, t>> \in Revoked(declared[s], view_grant[s]) THEN NoGrant
     ELSE IF declared[s].level[p][t] # NoGrant THEN declared[s].level[p][t]
     ELSE project_grant[p][t]]]

Commit(s) ==
  /\ pc[s] = "commit"
  /\ project' = [p \in Paths |-> IF Exists(draft[s], p) THEN draft[s][p] ELSE project[p]]
  /\ project_grant' = GrantsAfter(s)
  /\ stale' = [r \in Syncs |-> IF r # s /\ HasReadView(r)
                               THEN stale[r] \union {p \in Paths : Exists(draft[s], p)}
                               ELSE IF r = s THEN {} ELSE stale[r]]
  /\ \/ EndSync(s, "ok", 0)
     \/ EndSync(s, "gone", 0)             \* dropped with COMMIT on the wire
     \/ EndSync(s, Internal(LostConnection), LostConnection)

\* The deadline, the caller or the replica goes away between statements, or
\* the connection does: the engine rolls back.
AbandonSync(s) ==
  /\ InTransaction(s)
  /\ \/ RollbackSync(s, "gone", 0)
     \/ RollbackSync(s, Internal(LostConnection), LostConnection)

(***************************************************************************)
(*                              TouchProjects                              *)
(***************************************************************************)
TurnAwayFlush(f) ==
  /\ fpc[f] = "idle"
  /\ \E a \in {"invalid_argument", "unavailable", "deadline_exceeded"} :
       RollbackFlush(f, a, 0)

BeginFlush(f) ==
  /\ fpc[f] = "idle"
  /\ fpc' = [fpc EXCEPT ![f] = "update"]
  /\ UNCHANGED <<store_vars, sync_lock, row_lock, declared, sync_vars, flush, scanned,
                 touched, matched, covered, answer, error>>

Targets(f) == Reached(flush[f].names)

\* Mutant: last_seen_at is written unconditionally.
TouchBackwards(f, p) ==
  /\ fpc[f] = "update"
  /\ p \in Targets(f) \ scanned[f]
  /\ Free(f, p)
  /\ scanned' = [scanned EXCEPT ![f] = @ \union {p}]
  /\ IF Exists(project, p)
     THEN TakeRow(f, p)
     ELSE UNCHANGED row_lock
  /\ touched' = IF Exists(project, p) THEN [touched EXCEPT ![f] = @ \union {p}] ELSE touched
  /\ UNCHANGED <<store_vars, sync_lock, declared, sync_vars, fpc, flush, matched,
                 covered, answer, error>>

\* The UPDATE passes over a named row: it waits for the row's lock, keeps
\* it, and rewrites the row only if that moves last_seen_at forward.
Touch(f, p) ==
  /\ fpc[f] = "update"
  /\ p \in Targets(f) \ scanned[f]
  /\ Free(f, p)
  /\ scanned' = [scanned EXCEPT ![f] = @ \union {p}]
  /\ IF Exists(project, p)
     THEN TakeRow(f, p)
     ELSE UNCHANGED row_lock
  /\ touched' = IF Exists(project, p) /\ project[p].seen < flush[f].seen_at
                THEN [touched EXCEPT ![f] = @ \union {p}] ELSE touched
  /\ UNCHANGED <<store_vars, sync_lock, declared, sync_vars, fpc, flush, matched,
                 covered, answer, error>>

\* SELECT COUNT(*): the first consistent read, over committed rows.
Count(f) ==
  /\ fpc[f] = "update"
  /\ Targets(f) \subseteq scanned[f]
  /\ matched' = [matched EXCEPT ![f] = Cardinality({p \in Targets(f) : Exists(project, p)})]
  /\ fpc' = [fpc EXCEPT ![f] = "commit"]
  /\ UNCHANGED <<store_vars, sync_lock, row_lock, declared, sync_vars, flush, scanned,
                 touched, covered, answer, error>>

CommitFlush(f) ==
  /\ fpc[f] = "commit"
  /\ project' = [p \in Paths |-> IF p \in touched[f]
                                 THEN [project[p] EXCEPT !.seen = flush[f].seen_at]
                                 ELSE project[p]]
  /\ stale' = [s \in Syncs |-> IF HasReadView(s) THEN stale[s] \union touched[f] ELSE stale[s]]
  /\ \/ /\ EndFlush(f, "ok", 0)
        /\ covered' = [covered EXCEPT ![f] = {p \in Targets(f) : row_lock[p] = f}]
     \/ /\ \/ EndFlush(f, "gone", 0)
           \/ EndFlush(f, Internal(LostConnection), LostConnection)
        /\ UNCHANGED covered

AbandonFlush(f) ==
  /\ fpc[f] \in {"update", "commit"}
  /\ \/ RollbackFlush(f, "gone", 0)
     \/ RollbackFlush(f, Internal(LostConnection), LostConnection)

(***************************************************************************)
(*                     Waiting, and how the engine ends it                 *)
(***************************************************************************)
\* The rows whose locks x's next statements need.
Wanted(x) ==
  IF x \in Syncs
  THEN CASE pc[x] = "write" /\ ~RowsWritten(x) ->
              {p \in declared[x].names : /\ outcome[x][p] = "none"
                                         /\ ~(IsActive(view[x], p) /\ ~Differs(x, p))}
         [] pc[x] = "write" /\ RowsWritten(x) /\ ~AllWritten(x) ->
              {p \in ToArchive(declared[x], view[x]) : outcome[x][p] = "none"}
         [] pc[x] = "write" /\ AllWritten(x) -> ParentsOfNewGrants(x)
         [] OTHER -> {}
  ELSE IF fpc[x] = "update" THEN Targets(x) \ scanned[x] ELSE {}

\* The transactions x may have to wait for.
WaitsFor(x) ==
  {row_lock[p] : p \in {q \in Wanted(x) : ~Free(x, q)}}
    \union (IF x \in Syncs /\ pc[x] = "lock" /\ sync_lock # NoTx THEN {sync_lock} ELSE {})

\* A flush that found no row at a path may hold the gap there, which an INSERT
\* would wait for.  The source does not say whether it does, so the INSERT may
\* be refused after a wait, and may go ahead.
MeetsGap(x) ==
  /\ x \in Syncs
  /\ \E p \in Wanted(x) : ~Exists(view[x], p) /\ \E f \in Flushes : p \in scanned[f]

\* The engine ends a wait: lock wait timeout, or the victim of a deadlock.
WaitFails(x) ==
  /\ WaitsFor(x) # {} \/ MeetsGap(x)
  /\ \E e \in {LockWaitTimeout, Deadlock} :
       IF x \in Syncs THEN RollbackSync(x, Internal(e), e) ELSE RollbackFlush(x, Internal(e), e)

\* Every lock x could go on to take is held by somebody else.
Blocked(x) ==
  /\ WaitsFor(x) # {}
  /\ \A p \in Wanted(x) : ~Free(x, p)

\* A set of transactions each waiting for another of the set.
InDeadlock(x) ==
  \E cycle \in SUBSET Txs :
    /\ x \in cycle
    /\ \A y \in cycle : Blocked(y) /\ WaitsFor(y) \subseteq cycle

(***************************************************************************)
(*                             Specification                               *)
(***************************************************************************)
SyncStep(s) ==
  \/ LockSentinel(s) \/ ReadAndRefuse(s) \/ ReadAndPlan(s)
  \/ \E p \in Paths : \/ Insert(s, p) \/ Overwrite(s, p) \/ Leave(s, p)
                      \/ Archive(s, p) \/ UpdateFails(s, p)
  \/ WriteGrants(s) \/ WriteGrantsFails(s) \/ Commit(s)

FlushStep(f) == (\E p \in Paths : Touch(f, p)) \/ Count(f) \/ CommitFlush(f)

Next ==
  \/ \E s \in Syncs : TurnAway(s) \/ Begin(s) \/ SyncStep(s) \/ AbandonSync(s)
  \/ \E f \in Flushes : TurnAwayFlush(f) \/ BeginFlush(f) \/ FlushStep(f) \/ AbandonFlush(f)
  \/ \E x \in Txs : WaitFails(x)

Spec == Init /\ [][Next]_vars

\* A handler whose statement can run is polled and its connection answers;
\* InnoDB detects a deadlock when it forms.  Nothing makes a caller call, a
\* client leave or an innodb_lock_wait_timeout expire.
Fairness ==
  /\ \A s \in Syncs : WF_vars(SyncStep(s))
  /\ \A f \in Flushes : WF_vars(FlushStep(f))
  /\ WF_vars(\E x \in Txs : InDeadlock(x) /\ WaitFails(x))

FairSpec == Spec /\ Fairness

(***************************************************************************)
(*                               Properties                                *)
(***************************************************************************)
SameOrgColumns(old, new) ==
  /\ (old = NoRow) <=> (new = NoRow)
  /\ old # NoRow => /\ new.status = old.status
                    /\ new.content = old.content
                    /\ new.version = old.version

\* What a sync decided from stays true until it commits: between its read and
\* its commit no other call changes an org row's columns (last_seen_at apart)
\* or a grant.  This is what the sentinel is for (sync.rs, "the order").
ViewIsCurrent ==
  \A s \in Syncs : HasReadView(s) =>
    /\ \A p \in Paths : SameOrgColumns(view[s][p], project[p])
    /\ view_grant[s] = project_grant

\* No committed state has a grant on an archived or missing row: an archived
\* row's grants go in the transaction that archives it (grants.rs, plan).
GrantsFollowTheirRow == GrantsOnActiveRows(project, project_grant)

\* No project appears at a former path of another (refuse_aliases, D53).
FormerPathsStayFree == NothingAtFormerPaths(project)

\* Two syncs, two first syncs into an empty store included, never collide on
\* a unique index (sync.rs: "Two syncs serialise on it").
NoSyncCollides == \A s \in Syncs : error[s] # DupEntry

\* Syncs write rows in the order each declares them, and never wait for each
\* other's rows: a deadlock has a flush in it (sync.rs: "Two syncs serialise").
SyncsNeverDeadlock ==
  \A cycle \in SUBSET Syncs :
    (\A s \in cycle : Blocked(s) /\ WaitsFor(s) \subseteq cycle) => cycle = {}

\* A flush answered OK left every row it found at or past its seen_at, and no
\* later sync or late flush undoes that (touch.rs, "the advance is monotonic").
FlushesLast ==
  \A f \in Flushes : \A p \in covered[f] :
    Exists(project, p) /\ project[p].seen >= flush[f].seen_at

\* A committed row is never deleted (ADR-0934), its last_seen_at never moves
\* back, and its version counts exactly the changes of its status or content:
\* flushes, grant changes and unchanged declarations leave it (D8).
RowEvolves(p) ==
  Exists(project, p) =>
    /\ Exists(project', p)
    /\ project'[p].seen >= project[p].seen
    /\ project'[p].version =
         IF project'[p].status = project[p].status /\ project'[p].content = project[p].content
         THEN project[p].version ELSE project[p].version + 1
RowsEvolve == [][\A p \in Paths : RowEvolves(p)]_project

\* How the commit of this step changed row p, in the response's words.
Happened(d, p) ==
  CASE ~Exists(project, p) /\ Exists(project', p) -> "inserted"
    [] Exists(project, p) /\ ~IsActive(project, p) /\ IsActive(project', p) -> "reactivated"
    [] IsActive(project, p) /\ ~IsActive(project', p) -> "archived"
    [] IsActive(project, p) /\ IsActive(project', p) /\ project'[p] # project[p] -> "updated"
    [] OTHER -> IF p \in d.names THEN "unchanged" ELSE "none"

\* The counts of an OK answer are what its commit did: inserted, updated,
\* reactivated, unchanged and archived row by row, grants_declared, _inserted,
\* _deleted and _unchanged pair by pair (SyncProjectsResponse).
AnswerCounts(s) ==
  answer[s] = "none" /\ answer'[s] = "ok" =>
    /\ \A p \in Paths : outcome[s][p] = Happened(declared[s], p)
    /\ GrantRows(declared[s].level) = GrantRows(project_grant')
    /\ NewGrants(s) = GrantRows(project_grant') \ GrantRows(project_grant)
    /\ Revoked(declared[s], view_grant[s])
         = GrantRows(project_grant) \ GrantRows(project_grant')
    /\ UnchangedGrants(s) = {pt \in GrantRows(project_grant) :
                               project_grant'[pt[1]][pt[2]] = project_grant[pt[1]][pt[2]]}
CountsAreTrue == [][\A s \in Syncs : AnswerCounts(s)]_vars

\* Each call takes effect at one instant or not at all, on the store as it is
\* at that instant: "One RPC is one transaction (D5)" (service.rs).
CallState(idle) == IF idle = "idle" THEN "idle" ELSE IF idle = "done" THEN "answered" ELSE "open"
Promise == INSTANCE Registry WITH
  call <- [x \in Txs |-> IF x \in Syncs THEN CallState(pc[x]) ELSE CallState(fpc[x])]
ImplementsRegistry == Promise!Spec

\* Every call that began is answered: no lock outlives its call, and a
\* deadlock of syncs and flushes is broken.
CallsEnd ==
  /\ \A s \in Syncs : pc[s] = "lock" ~> pc[s] = "done"
  /\ \A f \in Flushes : fpc[f] = "update" ~> fpc[f] = "done"

\* sql.rs: "flattening it into `INTERNAL` tells a caller that a retryable wait
\* is a permanent failure".  1020 asks for a restart of the transaction, as
\* 1205 and 1213 do.
RetryableIsAborted ==
  \A x \in Txs : error[x] \in {LockWaitTimeout, Deadlock, CheckRead} => answer[x] = "aborted"

\* touch.rs: the warning names "paths that resolve to no registered project";
\* it is logged only if some name offered resolves to none.
WarningIsTrue ==
  [][\A f \in Flushes :
       fpc[f] = "update" /\ fpc'[f] = "commit" /\ matched'[f] < Cardinality(flush[f].names)
         => \E n \in flush[f].names : \A p \in Reached({n}) : ~Exists(project, p)]_fpc
=============================================================================
