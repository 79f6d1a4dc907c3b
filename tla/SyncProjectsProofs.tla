------------------------- MODULE SyncProjectsProofs -------------------------
(***************************************************************************)
(* Theorems about SyncProjects, for every set of calls, paths, teams,      *)
(* declarations and initial stores that its assumptions admit.             *)
(***************************************************************************)
EXTENDS SyncProjects, FiniteSetTheorems, TLAPS

(***************************************************************************)
(*                            Type correctness                             *)
(***************************************************************************)
\* The empty tables a call starts and ends with have their types.
LEMMA BlankTypes ==
  /\ NoRows \in ProjectTable
  /\ NoGrants \in GrantTable
  /\ Untried \in [Paths -> Outcomes]
  BY DEF NoRows, NoGrants, Untried, ProjectTable, GrantTable, Grade, Outcomes

\* sql::internal answers one of the statuses, and never OK.
LEMMA InternalType == \A e : Internal(e) \in Statuses \ {"ok"}
  BY DEF Internal, Statuses

\* The initial state is well typed.
LEMMA TypeInit == Init => TypeOK
  <1> SUFFICES ASSUME Init PROVE TypeOK
    OBVIOUS
  <1>1. PICK store \in InitialStores : project = store.rows /\ project_grant = store.grants
    BY DEF Init
  <1>2. project \in ProjectTable /\ project_grant \in GrantTable
    BY <1>1, InputAssumption DEF Store
  <1> QED
    BY <1>2, BlankTypes
    DEF Init, TypeOK, SyncPc, FlushPc, Statuses, Errors, Txs

\* The end of a sync, committed or rolled back, keeps every type but those of
\* the tables it may have replaced.
LEMMA EndSyncType ==
  ASSUME TypeOK, NEW s \in Syncs, NEW a \in Statuses, NEW e \in Errors, EndSync(s, a, e),
         project' \in ProjectTable, project_grant' \in GrantTable,
         stale' \in [Syncs -> SUBSET Paths]
  PROVE  TypeOK'
  <1>1. row_lock' \in [Paths -> Txs \union {NoTx}] /\ sync_lock' \in Syncs \union {NoTx}
    BY DEF TypeOK, EndSync, ReleaseRows
  <1>2. /\ pc' \in [Syncs -> SyncPc]
        /\ view' \in [Syncs -> ProjectTable]
        /\ view_grant' \in [Syncs -> GrantTable]
        /\ outcome' \in [Syncs -> [Paths -> Outcomes]]
        /\ draft' \in [Syncs -> ProjectTable]
    BY BlankTypes DEF TypeOK, EndSync, SyncPc
  <1>3. answer' \in [Txs -> Statuses] /\ error' \in [Txs -> Errors]
    BY DEF TypeOK, EndSync
  <1> QED
    BY <1>1, <1>2, <1>3 DEF TypeOK, EndSync, flush_vars

\* A rolled back sync keeps every type.
LEMMA RollbackSyncType ==
  ASSUME TypeOK, NEW s \in Syncs, NEW a \in Statuses, NEW e \in Errors, RollbackSync(s, a, e)
  PROVE  TypeOK'
  <1>1. stale' \in [Syncs -> SUBSET Paths]
    BY DEF TypeOK, RollbackSync
  <1>2. project' \in ProjectTable /\ project_grant' \in GrantTable
    BY DEF TypeOK, RollbackSync, store_vars
  <1> QED
    BY <1>1, <1>2, EndSyncType DEF RollbackSync

\* The end of a flush, committed or rolled back, keeps every type but those
\* of what it may have replaced.
LEMMA EndFlushType ==
  ASSUME TypeOK, NEW f \in Flushes, NEW a \in Statuses, NEW e \in Errors, EndFlush(f, a, e),
         project' \in ProjectTable, stale' \in [Syncs -> SUBSET Paths],
         covered' \in [Flushes -> SUBSET Paths]
  PROVE  TypeOK'
  <1>1. row_lock' \in [Paths -> Txs \union {NoTx}]
    BY DEF TypeOK, EndFlush, ReleaseRows
  <1>2. /\ fpc' \in [Flushes -> FlushPc]
        /\ scanned' \in [Flushes -> SUBSET Paths]
        /\ touched' \in [Flushes -> SUBSET Paths]
    BY DEF TypeOK, EndFlush, FlushPc
  <1>3. answer' \in [Txs -> Statuses] /\ error' \in [Txs -> Errors]
    BY DEF TypeOK, EndFlush
  <1> QED
    BY <1>1, <1>2, <1>3 DEF TypeOK, EndFlush

\* A rolled back flush keeps every type.
LEMMA RollbackFlushType ==
  ASSUME TypeOK, NEW f \in Flushes, NEW a \in Statuses, NEW e \in Errors, RollbackFlush(f, a, e)
  PROVE  TypeOK'
  <1>1. /\ stale' \in [Syncs -> SUBSET Paths]
        /\ project' \in ProjectTable
        /\ covered' \in [Flushes -> SUBSET Paths]
    BY DEF TypeOK, RollbackFlush
  <1> QED
    BY <1>1, EndFlushType DEF RollbackFlush

\* A row a sync writes has the row type, so its drafts do.
LEMMA WriteType ==
  ASSUME TypeOK, NEW s \in Syncs, NEW p \in Paths, NEW how \in Outcomes, NEW row \in Row,
         Write(s, p, how, row)
  PROVE  TypeOK'
  <1>1. row_lock' \in [Paths -> Txs \union {NoTx}]
    BY DEF TypeOK, Write, TakeRow, Txs
  <1>2. draft' \in [Syncs -> ProjectTable]
    BY DEF TypeOK, Write, ProjectTable
  <1>3. outcome' \in [Syncs -> [Paths -> Outcomes]]
    BY DEF TypeOK, Write
  <1> QED
    BY <1>1, <1>2, <1>3 DEF TypeOK, Write, store_vars, flush_vars

\* No row a call knows of ever goes away (ADR-0934): an UPDATE by id always
\* finds its row.
KnownRows ==
  /\ \A s \in Syncs : \A p \in Paths : Exists(view[s], p) => Exists(project, p)
  /\ \A f \in Flushes : \A p \in touched[f] : Exists(project, p)

\* The initial state knows no rows.
LEMMA KnownRowsInit == Init => KnownRows
  BY DEF Init, KnownRows, Exists, NoRows

\* The version an UPDATE of a sync writes.
LEMMA NextVersion == \A row \in Row : row.version \in Nat /\ row.version + 1 \in Nat \ {0}
  <1>1. \A row \in Row : row.version \in Nat
    BY DEF Row
  <1> QED
    BY <1>1

\* A flush reaches paths, finitely many.
LEMMA TargetsType ==
  ASSUME TypeOK, NEW f \in Flushes
  PROVE  Targets(f) \subseteq Paths /\ IsFiniteSet(Targets(f))
  <1>1. Targets(f) \subseteq Paths
    BY InputAssumption, StoreAssumption DEF TypeOK, Targets, Reached, FlushRequest
  <1> QED
    BY <1>1, StoreAssumption, FS_Subset

\* What Commit stores is well typed, and everything that was there stays.
LEMMA CommitStores ==
  ASSUME TypeOK, NEW s \in Syncs, Commit(s)
  PROVE  /\ project' \in ProjectTable
         /\ project_grant' \in GrantTable
         /\ stale' \in [Syncs -> SUBSET Paths]
         /\ \A p \in Paths : Exists(project, p) => Exists(project', p)
  <1>1. project' \in ProjectTable
    BY DEF TypeOK, Commit, ProjectTable
  <1>2. declared[s].level \in GrantTable
    BY InputAssumption DEF TypeOK, Declaration, GrantTable
  <1>3. project_grant' \in GrantTable
    BY <1>2 DEF TypeOK, Commit, GrantsAfter, GrantTable, Grade
  <1>4. stale' \in [Syncs -> SUBSET Paths]
    BY DEF TypeOK, Commit
  <1>5. \A p \in Paths : Exists(project, p) => Exists(project', p)
    BY DEF Commit, Exists
  <1> QED
    BY <1>1, <1>3, <1>4, <1>5

\* What CommitFlush stores is well typed, and everything that was there stays.
LEMMA CommitFlushStores ==
  ASSUME TypeOK, KnownRows, NEW f \in Flushes, CommitFlush(f)
  PROVE  /\ project' \in ProjectTable
         /\ stale' \in [Syncs -> SUBSET Paths]
         /\ covered' \in [Flushes -> SUBSET Paths]
         /\ \A p \in Paths : Exists(project, p) => Exists(project', p)
  <1>1. flush[f].seen_at \in Nat
    BY InputAssumption DEF TypeOK, FlushRequest
  <1>2. \A p \in touched[f] : p \in Paths /\ project[p] \in Row
    BY DEF TypeOK, KnownRows, Exists, ProjectTable
  <1>3. \A p \in touched[f] : [project[p] EXCEPT !.seen = flush[f].seen_at] \in Row
    BY <1>1, <1>2 DEF Row
  <1>4. project' \in ProjectTable
    BY <1>3 DEF TypeOK, CommitFlush, ProjectTable
  <1>5. stale' \in [Syncs -> SUBSET Paths]
    BY DEF TypeOK, CommitFlush
  <1>6. covered' \in [Flushes -> SUBSET Paths]
    BY TargetsType DEF TypeOK, CommitFlush, EndFlush
  <1>7. \A p \in Paths : Exists(project, p) => Exists(project', p)
    BY <1>3, StoreAssumption DEF CommitFlush, Exists
  <1> QED
    BY <1>4, <1>5, <1>6, <1>7

\* Every action keeps the types.
LEMMA TypeNext == TypeOK /\ KnownRows /\ [Next]_vars => TypeOK'
  <1> SUFFICES ASSUME TypeOK, KnownRows, [Next]_vars PROVE TypeOK'
    OBVIOUS
  <1> USE BlankTypes, InternalType
  <1>1. ASSUME NEW s \in Syncs, TurnAway(s) PROVE TypeOK'
    BY <1>1, RollbackSyncType DEF TurnAway, Statuses, Errors
  <1>2. ASSUME NEW s \in Syncs, Begin(s) PROVE TypeOK'
    BY <1>2 DEF TypeOK, Begin, SyncPc, store_vars, flush_vars
  <1>3. ASSUME NEW s \in Syncs, LockSentinel(s) PROVE TypeOK'
    BY <1>3 DEF TypeOK, LockSentinel, SyncPc, store_vars, flush_vars
  <1>4. ASSUME NEW s \in Syncs, ReadAndRefuse(s) PROVE TypeOK'
    <2>1. Refusal(declared[s], project, project_grant) \in Statuses
      BY DEF Refusal, Statuses
    <2> QED
      BY <1>4, <2>1, RollbackSyncType DEF ReadAndRefuse, Errors
  <1>5. ASSUME NEW s \in Syncs, ReadAndPlan(s) PROVE TypeOK'
    BY <1>5 DEF TypeOK, ReadAndPlan, SyncPc, store_vars, flush_vars
  <1>6. ASSUME NEW s \in Syncs, NEW p \in Paths, Insert(s, p) PROVE TypeOK'
    <2>1. declared[s].content[p] \in Contents
      BY InputAssumption DEF TypeOK, Declaration
    <2>2. [status |-> "ACTIVE", content |-> declared[s].content[p],
           version |-> 1, seen |-> 0] \in Row
      BY <2>1 DEF Row
    <2>3. CASE Exists(project, p)
      BY <1>6, <2>3, RollbackSyncType DEF Insert, Errors
    <2>4. CASE ~Exists(project, p)
      BY <1>6, <2>2, <2>4, WriteType DEF Insert, Outcomes
    <2> QED
      BY <2>3, <2>4
  <1>8. ASSUME NEW s \in Syncs, NEW p \in Paths, Overwrite(s, p) PROVE TypeOK'
    <2>1. declared[s].content[p] \in Contents
      BY InputAssumption DEF TypeOK, Declaration
    <2>2. project[p] \in Row
      BY <1>8 DEF TypeOK, ProjectTable, Exists, KnownRows, Overwrite
    <2>3. [project[p] EXCEPT !.status = "ACTIVE", !.content = declared[s].content[p],
                             !.version = @ + 1] \in Row
      BY <2>1, <2>2, NextVersion DEF Row
    <2> QED
      BY <1>8, <2>3, WriteType DEF Overwrite, Outcomes
  <1>9. ASSUME NEW s \in Syncs, NEW p \in Paths, Leave(s, p) PROVE TypeOK'
    BY <1>9 DEF TypeOK, Leave, Outcomes, store_vars, flush_vars
  <1>10. ASSUME NEW s \in Syncs, NEW p \in Paths, Archive(s, p) PROVE TypeOK'
    <2>1. project[p] \in Row
      BY <1>10 DEF TypeOK, ProjectTable, Exists, KnownRows, Archive, ToArchive, ActiveRows, IsActive
    <2>2. declared[s].content[p] \in Contents
      BY InputAssumption DEF TypeOK, Declaration
    <2>3. [project[p] EXCEPT !.status = "ARCHIVED", !.version = @ + 1] \in Row
      BY <2>1, <2>2, NextVersion DEF Row
    <2> QED
      BY <1>10, <2>3, WriteType DEF Archive, Outcomes
  <1>11. ASSUME NEW s \in Syncs, NEW p \in Paths, UpdateFails(s, p) PROVE TypeOK'
    BY <1>11, RollbackSyncType DEF UpdateFails, Errors
  <1>12. ASSUME NEW s \in Syncs, WriteGrants(s) PROVE TypeOK'
    BY <1>12 DEF TypeOK, WriteGrants, SyncPc, Txs, store_vars, flush_vars
  <1>13. ASSUME NEW s \in Syncs, WriteGrantsFails(s) PROVE TypeOK'
    BY <1>13, RollbackSyncType DEF WriteGrantsFails, Errors
  <1>14. ASSUME NEW s \in Syncs, Commit(s) PROVE TypeOK'
    BY <1>14, CommitStores, EndSyncType DEF Commit, Errors, Statuses
  <1>15. ASSUME NEW s \in Syncs, AbandonSync(s) PROVE TypeOK'
    BY <1>15, RollbackSyncType DEF AbandonSync, Errors, Statuses
  <1>16. ASSUME NEW f \in Flushes, TurnAwayFlush(f) PROVE TypeOK'
    BY <1>16, RollbackFlushType DEF TurnAwayFlush, Errors, Statuses
  <1>17. ASSUME NEW f \in Flushes, BeginFlush(f) PROVE TypeOK'
    BY <1>17 DEF TypeOK, BeginFlush, FlushPc, store_vars, sync_vars
  <1>18. ASSUME NEW f \in Flushes, NEW p \in Paths, Touch(f, p) PROVE TypeOK'
    <2>1. scanned' \in [Flushes -> SUBSET Paths] /\ touched' \in [Flushes -> SUBSET Paths]
      BY <1>18 DEF TypeOK, Touch
    <2>2. row_lock' \in [Paths -> Txs \union {NoTx}]
      BY <1>18 DEF TypeOK, Touch, TakeRow, Txs
    <2> QED
      BY <1>18, <2>1, <2>2 DEF TypeOK, Touch, store_vars, sync_vars
  <1>19. ASSUME NEW f \in Flushes, Count(f) PROVE TypeOK'
    <2>1. IsFiniteSet({p \in Targets(f) : Exists(project, p)})
      BY TargetsType, FS_Subset
    <2>2. Cardinality({p \in Targets(f) : Exists(project, p)}) \in Nat
      BY <2>1, FS_CardinalityType
    <2> QED
      BY <1>19, <2>2 DEF TypeOK, Count, FlushPc, store_vars, sync_vars
  <1>20. ASSUME NEW f \in Flushes, CommitFlush(f) PROVE TypeOK'
    <2>1. project_grant' \in GrantTable
      BY <1>20 DEF TypeOK, CommitFlush, EndFlush
    <2> QED
      BY <1>20, <2>1, CommitFlushStores, EndFlushType DEF CommitFlush, Errors, Statuses
  <1>21. ASSUME NEW f \in Flushes, AbandonFlush(f) PROVE TypeOK'
    BY <1>21, RollbackFlushType DEF AbandonFlush, Errors, Statuses
  <1>22. ASSUME NEW x \in Txs, WaitFails(x) PROVE TypeOK'
    BY <1>22, RollbackSyncType, RollbackFlushType DEF WaitFails, Errors, Txs
  <1>23. CASE UNCHANGED vars
    BY <1>23 DEF TypeOK, vars
  <1> QED
    BY <1>1, <1>2, <1>3, <1>4, <1>5, <1>6, <1>8, <1>9, <1>10, <1>11, <1>12, <1>13,
       <1>14, <1>15, <1>16, <1>17, <1>18, <1>19, <1>20, <1>21, <1>22, <1>23
    DEF Next, SyncStep, FlushStep

(***************************************************************************)
(*                         The inductive invariant                         *)
(***************************************************************************)
Written == {"inserted", "updated", "reactivated", "archived"}

\* A sync is past its first statement exactly while it holds the sentinel.
SentinelHeld ==
  \A s \in Syncs : pc[s] \in {"read", "write", "commit"} <=> sync_lock = s

\* What sync s has done with row p so far: a row it wrote is locked by it, was
\* counted, and is made from the row that is committed.
DraftIsHeld(s, p) ==
  /\ outcome[s][p] # "none" => HasReadView(s)
  /\ Exists(draft[s], p) <=> outcome[s][p] \in Written
  /\ outcome[s][p] \in Written => row_lock[p] = s
  /\ outcome[s][p] = "unchanged" => IsActive(view[s], p) /\ ~Differs(s, p)
  /\ outcome[s][p] \in {"unchanged", "inserted", "updated", "reactivated"} => p \in declared[s].names
  /\ outcome[s][p] = "archived" => p \notin declared[s].names
  /\ outcome[s][p] = "inserted" =>
       /\ ~Exists(view[s], p)
       /\ draft[s][p] = [status |-> "ACTIVE", content |-> declared[s].content[p],
                         version |-> 1, seen |-> 0]
  /\ outcome[s][p] \in {"updated", "reactivated"} =>
       /\ outcome[s][p] = IF IsActive(view[s], p) THEN "updated" ELSE "reactivated"
       /\ Differs(s, p) \/ ~IsActive(view[s], p)
       /\ Exists(view[s], p)
       /\ draft[s][p] = [project[p] EXCEPT !.status = "ACTIVE",
                                           !.content = declared[s].content[p],
                                           !.version = @ + 1]
  /\ outcome[s][p] = "archived" =>
       /\ IsActive(view[s], p)
       /\ draft[s][p] = [project[p] EXCEPT !.status = "ARCHIVED", !.version = @ + 1]

DraftsAreHeld == \A s \in Syncs : \A p \in Paths : DraftIsHeld(s, p)

\* A flush keeps the lock of every row it rewrote, and moves it forward.
TouchesAreHeld ==
  \A f \in Flushes : \A p \in touched[f] :
    /\ p \in Targets(f)
    /\ row_lock[p] = f
    /\ project[p].seen < flush[f].seen_at

\* A sync that writes was not refused, and one that commits has treated every
\* declared row and every row to archive.
SyncsAreDecided ==
  \A s \in Syncs :
    /\ HasReadView(s) => Refusal(declared[s], view[s], view_grant[s]) = "none"
    /\ pc[s] = "commit" => AllWritten(s)

IInv ==
  /\ TypeOK
  /\ KnownRows
  /\ SentinelHeld
  /\ ViewIsCurrent
  /\ DraftsAreHeld
  /\ TouchesAreHeld
  /\ SyncsAreDecided
  /\ GrantsFollowTheirRow
  /\ FormerPathsStayFree
  /\ NoSyncCollides

\* Seven actions end a sync without effect, and three end a flush so.
RollsBackSync(s)  == \E a \in Statuses \ {"ok"} : \E e \in Errors : RollbackSync(s, a, e)
RollsBackFlush(f) == \E a \in Statuses : \E e \in Errors : RollbackFlush(f, a, e)

\* The INSERT that is not refused.
Inserts(s, p) == Insert(s, p) /\ ~Exists(project, p)

\* The cases of a step, rollbacks taken together.
LEMMA StepCases ==
  ASSUME [Next]_vars
  PROVE  \/ \E s \in Syncs : RollsBackSync(s)
         \/ \E s \in Syncs : Begin(s) \/ LockSentinel(s) \/ ReadAndPlan(s)
         \/ \E s \in Syncs : \E p \in Paths :
              Inserts(s, p) \/ Overwrite(s, p) \/ Leave(s, p) \/ Archive(s, p)
         \/ \E s \in Syncs : WriteGrants(s) \/ Commit(s)
         \/ \E f \in Flushes : RollsBackFlush(f)
         \/ \E f \in Flushes : BeginFlush(f) \/ Count(f) \/ CommitFlush(f)
         \/ \E f \in Flushes : \E p \in Paths : Touch(f, p)
         \/ UNCHANGED vars
  <1> USE InternalType
  <1>1. ASSUME NEW s \in Syncs, TurnAway(s) PROVE RollsBackSync(s)
    BY <1>1 DEF TurnAway, RollsBackSync, Statuses, Errors
  <1>2. ASSUME NEW s \in Syncs, ReadAndRefuse(s) PROVE RollsBackSync(s)
    <2>1. Refusal(declared[s], project, project_grant) \in Statuses \ {"ok"}
      BY DEF Refusal, Statuses
    <2> QED
      BY <1>2, <2>1 DEF ReadAndRefuse, RollsBackSync, Errors
  <1>3. ASSUME NEW s \in Syncs, NEW p \in Paths,
               UpdateFails(s, p) \/ (Insert(s, p) /\ Exists(project, p))
        PROVE  RollsBackSync(s)
    BY <1>3 DEF Insert, UpdateFails, RollsBackSync, Errors
  <1>4. ASSUME NEW s \in Syncs, WriteGrantsFails(s) PROVE RollsBackSync(s)
    BY <1>4 DEF WriteGrantsFails, RollsBackSync, Errors
  <1>5. ASSUME NEW s \in Syncs, AbandonSync(s) PROVE RollsBackSync(s)
    BY <1>5 DEF AbandonSync, RollsBackSync, Statuses, Errors
  <1>6. ASSUME NEW f \in Flushes, TurnAwayFlush(f) \/ AbandonFlush(f) PROVE RollsBackFlush(f)
    BY <1>6 DEF TurnAwayFlush, AbandonFlush, RollsBackFlush, Statuses, Errors
  <1>7. ASSUME NEW x \in Txs, WaitFails(x)
        PROVE  (x \in Syncs /\ RollsBackSync(x)) \/ (x \in Flushes /\ RollsBackFlush(x))
    BY <1>7 DEF WaitFails, RollsBackSync, RollsBackFlush, Txs, Errors
  <1> QED
    BY <1>1, <1>2, <1>3, <1>4, <1>5, <1>6, <1>7 DEF Next, SyncStep, FlushStep, Inserts

\* A rolled back call leaves the tables as they were.
LEMMA RollbackKeepsStore ==
  /\ \A s \in Syncs : RollsBackSync(s) => UNCHANGED store_vars
  /\ \A f \in Flushes : RollsBackFlush(f) => UNCHANGED store_vars
  BY DEF RollsBackSync, RollbackSync, RollsBackFlush, RollbackFlush, EndFlush, store_vars

\* Commits delete nothing, and Touch rewrites only a row that exists.
LEMMA KnownRowsNext == TypeOK /\ KnownRows /\ [Next]_vars => KnownRows'
  <1> SUFFICES ASSUME TypeOK, KnownRows, [Next]_vars PROVE KnownRows'
    OBVIOUS
  <1> USE DEF KnownRows, Exists
  <1>1. ASSUME NEW s \in Syncs, RollsBackSync(s) PROVE KnownRows'
    BY <1>1 DEF TypeOK, RollsBackSync, RollbackSync, EndSync, NoRows, store_vars, flush_vars
  <1>2. ASSUME NEW s \in Syncs, Begin(s) \/ LockSentinel(s) \/ WriteGrants(s) PROVE KnownRows'
    BY <1>2 DEF Begin, LockSentinel, WriteGrants, store_vars, flush_vars
  <1>3. ASSUME NEW s \in Syncs, ReadAndPlan(s) PROVE KnownRows'
    BY <1>3 DEF TypeOK, ReadAndPlan, store_vars, flush_vars
  <1>4. ASSUME NEW s \in Syncs, NEW p \in Paths,
               Inserts(s, p) \/ Overwrite(s, p) \/ Leave(s, p) \/ Archive(s, p)
        PROVE  KnownRows'
    BY <1>4 DEF Inserts, Insert, Overwrite, Leave, Archive, Write, store_vars, flush_vars
  <1>5. ASSUME NEW s \in Syncs, Commit(s) PROVE KnownRows'
    <2>1. \A p \in Paths : Exists(project, p) => Exists(project', p)
      BY <1>5, CommitStores
    <2>2. view' = [view EXCEPT ![s] = NoRows] /\ touched' = touched
      BY <1>5 DEF Commit, EndSync, flush_vars
    <2>3. touched \in [Flushes -> SUBSET Paths] /\ view \in [Syncs -> ProjectTable]
      BY DEF TypeOK
    <2> QED
      BY <2>1, <2>2, <2>3 DEF NoRows
  <1>6. ASSUME NEW f \in Flushes, RollsBackFlush(f) PROVE KnownRows'
    BY <1>6 DEF TypeOK, RollsBackFlush, RollbackFlush, EndFlush
  <1>7. ASSUME NEW f \in Flushes, BeginFlush(f) \/ Count(f) PROVE KnownRows'
    BY <1>7 DEF BeginFlush, Count, store_vars, sync_vars
  <1>8. ASSUME NEW f \in Flushes, CommitFlush(f) PROVE KnownRows'
    <2>1. \A p \in Paths : Exists(project, p) => Exists(project', p)
      BY <1>8, CommitFlushStores
    <2>2. touched' = [touched EXCEPT ![f] = {}] /\ view' = view
      BY <1>8 DEF CommitFlush, EndFlush
    <2>3. touched \in [Flushes -> SUBSET Paths]
      BY DEF TypeOK
    <2> QED
      BY <2>1, <2>2, <2>3
  <1>9. ASSUME NEW f \in Flushes, NEW p \in Paths, Touch(f, p) PROVE KnownRows'
    BY <1>9 DEF TypeOK, Touch, store_vars, sync_vars
  <1>10. CASE UNCHANGED vars
    BY <1>10 DEF vars
  <1> QED
    BY <1>1, <1>2, <1>3, <1>4, <1>5, <1>6, <1>7, <1>8, <1>9, <1>10, StepCases

\* Only its holder is past LockSentinel, and an end gives the sentinel back.
LEMMA SentinelHeldNext == TypeOK /\ SentinelHeld /\ [Next]_vars => SentinelHeld'
  <1> SUFFICES ASSUME TypeOK, SentinelHeld, [Next]_vars PROVE SentinelHeld'
    OBVIOUS
  <1>0. NoTx \notin Syncs
    BY CallAssumption DEF Txs
  <1> USE <1>0 DEF SentinelHeld, TypeOK, SyncPc
  <1>1. ASSUME NEW s \in Syncs, RollsBackSync(s) \/ Commit(s) PROVE SentinelHeld'
    <2>1. /\ pc' = [pc EXCEPT ![s] = "done"]
          /\ sync_lock' = IF sync_lock = s THEN NoTx ELSE sync_lock
      BY <1>1 DEF RollsBackSync, RollbackSync, Commit, EndSync
    <2> QED
      BY <2>1
  <1>2. ASSUME NEW s \in Syncs,
               Begin(s) \/ LockSentinel(s) \/ ReadAndPlan(s) \/ WriteGrants(s)
        PROVE  SentinelHeld'
    BY <1>2 DEF Begin, LockSentinel, ReadAndPlan, WriteGrants
  <1>3. ASSUME NEW s \in Syncs, NEW p \in Paths,
               Inserts(s, p) \/ Overwrite(s, p) \/ Leave(s, p) \/ Archive(s, p)
        PROVE  SentinelHeld'
    BY <1>3 DEF Inserts, Insert, Overwrite, Leave, Archive, Write
  <1>4. ASSUME NEW f \in Flushes,
               RollsBackFlush(f) \/ BeginFlush(f) \/ Count(f) \/ CommitFlush(f)
                 \/ \E p \in Paths : Touch(f, p)
        PROVE  SentinelHeld'
    BY <1>4 DEF RollsBackFlush, RollbackFlush, EndFlush, BeginFlush, Count, CommitFlush,
                Touch, sync_vars
  <1>5. CASE UNCHANGED vars
    BY <1>5 DEF vars
  <1> QED
    BY <1>1, <1>2, <1>3, <1>4, <1>5, StepCases

\* While a sync has its read view only the holder of the sentinel commits
\* columns or grants, and the holder is that sync; a flush changes neither.
LEMMA ViewIsCurrentNext ==
  TypeOK /\ KnownRows /\ SentinelHeld /\ ViewIsCurrent /\ [Next]_vars => ViewIsCurrent'
  <1> SUFFICES ASSUME TypeOK, KnownRows, SentinelHeld, ViewIsCurrent, [Next]_vars
               PROVE  ViewIsCurrent'
    OBVIOUS
  <1> USE DEF ViewIsCurrent, HasReadView
  <1>0. pc \in [Syncs -> SyncPc] /\ view \in [Syncs -> ProjectTable] /\ view_grant \in [Syncs -> GrantTable]
    BY DEF TypeOK
  <1>1. ASSUME NEW s \in Syncs, RollsBackSync(s) PROVE ViewIsCurrent'
    <2>1. /\ pc' = [pc EXCEPT ![s] = "done"]
          /\ view' = [view EXCEPT ![s] = NoRows]
          /\ view_grant' = [view_grant EXCEPT ![s] = NoGrants]
          /\ UNCHANGED store_vars
      BY <1>1 DEF RollsBackSync, RollbackSync, EndSync
    <2> QED
      BY <1>0, <2>1 DEF store_vars
  <1>2. ASSUME NEW s \in Syncs, Begin(s) \/ LockSentinel(s) \/ WriteGrants(s) PROVE ViewIsCurrent'
    BY <1>0, <1>2 DEF Begin, LockSentinel, WriteGrants, store_vars, AllWritten
  <1>3. ASSUME NEW s \in Syncs, ReadAndPlan(s) PROVE ViewIsCurrent'
    BY <1>0, <1>3 DEF ReadAndPlan, store_vars, SameOrgColumns
  <1>4. ASSUME NEW s \in Syncs, NEW p \in Paths,
               Inserts(s, p) \/ Overwrite(s, p) \/ Leave(s, p) \/ Archive(s, p)
        PROVE  ViewIsCurrent'
    BY <1>4 DEF Inserts, Insert, Overwrite, Leave, Archive, Write, store_vars
  <1>5. ASSUME NEW s \in Syncs, Commit(s) PROVE ViewIsCurrent'
    <2>1. pc' = [pc EXCEPT ![s] = "done"] /\ pc[s] = "commit"
      BY <1>5 DEF Commit, EndSync
    <2>2. \A r \in Syncs : ~HasReadView(r)'
      BY <1>0, <2>1 DEF SentinelHeld
    <2> QED
      BY <2>2
  <1>6. ASSUME NEW f \in Flushes, RollsBackFlush(f) \/ BeginFlush(f) \/ Count(f)
        PROVE  ViewIsCurrent'
    BY <1>6 DEF RollsBackFlush, RollbackFlush, EndFlush, BeginFlush, Count, store_vars, sync_vars
  <1>7. ASSUME NEW f \in Flushes, CommitFlush(f) PROVE ViewIsCurrent'
    <2>1. \A p \in Paths : SameOrgColumns(project[p], project'[p])
      <3> SUFFICES ASSUME NEW p \in Paths PROVE SameOrgColumns(project[p], project'[p])
        OBVIOUS
      <3>1. CASE p \in touched[f]
        <4>1. project[p] \in Row
          BY <3>1 DEF TypeOK, KnownRows, Exists, ProjectTable
        <4>2. project'[p] = [project[p] EXCEPT !.seen = flush[f].seen_at]
          BY <1>7, <3>1 DEF CommitFlush
        <4>3. flush[f].seen_at \in Nat
          BY InputAssumption DEF TypeOK, FlushRequest
        <4>4. project'[p] \in Row
          BY <4>1, <4>2, <4>3 DEF Row
        <4> QED
          BY <4>1, <4>2, <4>4, StoreAssumption DEF SameOrgColumns, Row
      <3>2. CASE p \notin touched[f]
        BY <1>7, <3>2 DEF CommitFlush, SameOrgColumns
      <3> QED
        BY <3>1, <3>2
    <2>2. UNCHANGED <<pc, view, view_grant, project_grant>>
      BY <1>7 DEF CommitFlush, EndFlush
    <2>3. \A s \in Syncs : HasReadView(s) => \A p \in Paths : SameOrgColumns(view[s][p], project'[p])
      BY <2>1 DEF SameOrgColumns
    <2> QED
      BY <2>2, <2>3
  <1>8. ASSUME NEW f \in Flushes, NEW p \in Paths, Touch(f, p) PROVE ViewIsCurrent'
    BY <1>8 DEF Touch, store_vars, sync_vars
  <1>9. CASE UNCHANGED vars
    BY <1>9 DEF vars
  <1> QED
    BY <1>1, <1>2, <1>3, <1>4, <1>5, <1>6, <1>7, <1>8, <1>9, StepCases

\* What a draft rests on is left alone.
LEMMA DraftFrame ==
  ASSUME NEW s \in Syncs, NEW p \in Paths, DraftIsHeld(s, p),
         outcome'[s][p] = outcome[s][p], draft'[s][p] = draft[s][p],
         view'[s] = view[s], declared'[s] = declared[s],
         HasReadView(s) => HasReadView(s)',
         row_lock[p] = s => row_lock'[p] = s /\ project'[p] = project[p]
  PROVE  DraftIsHeld(s, p)'
  BY DEF DraftIsHeld, Differs, Exists, IsActive, Written

\* A row a sync has no outcome for it has not written.
LEMMA BlankDraft ==
  ASSUME NEW s \in Syncs, NEW p \in Paths, outcome'[s] = Untried, draft'[s] = NoRows
  PROVE  DraftIsHeld(s, p)'
  BY DEF DraftIsHeld, Exists, Written, Untried, NoRows

\* The end of a call frees its own rows only.
LEMMA ReleaseOwn ==
  ASSUME NEW x, ReleaseRows(x), row_lock \in [Paths -> Txs \union {NoTx}], NEW p \in Paths, row_lock[p] # x
  PROVE  row_lock'[p] = row_lock[p]
  BY DEF ReleaseRows

\* A commit replaces rows its own transaction holds.
LEMMA CommitsOwnRows ==
  ASSUME TypeOK, DraftsAreHeld, TouchesAreHeld, NEW p \in Paths
  PROVE  /\ \A s \in Syncs : Commit(s) /\ row_lock[p] # s => project'[p] = project[p]
         /\ \A f \in Flushes : CommitFlush(f) /\ row_lock[p] # f => project'[p] = project[p]
  <1>1. ASSUME NEW s \in Syncs, Commit(s), row_lock[p] # s PROVE project'[p] = project[p]
    <2>1. ~Exists(draft[s], p)
      BY <1>1 DEF DraftsAreHeld, DraftIsHeld
    <2> QED
      BY <1>1, <2>1 DEF Commit
  <1>2. ASSUME NEW f \in Flushes, CommitFlush(f), row_lock[p] # f PROVE project'[p] = project[p]
    <2>1. p \notin touched[f]
      BY <1>2 DEF TouchesAreHeld
    <2> QED
      BY <1>2, <2>1 DEF CommitFlush
  <1> QED
    BY <1>1, <1>2

\* A sync's drafts stay what they are until it ends: the rows are locked, and
\* no other call can lock or commit them.
LEMMA DraftsAreHeldNext ==
  TypeOK /\ KnownRows /\ DraftsAreHeld /\ TouchesAreHeld /\ [Next]_vars => DraftsAreHeld'
  <1> SUFFICES ASSUME TypeOK, KnownRows, DraftsAreHeld, TouchesAreHeld, [Next]_vars,
                      NEW r \in Syncs, NEW q \in Paths
               PROVE  DraftIsHeld(r, q)'
    BY DEF DraftsAreHeld
  <1>0. /\ DraftIsHeld(r, q)
        /\ pc \in [Syncs -> SyncPc] /\ view \in [Syncs -> ProjectTable]
        /\ outcome \in [Syncs -> [Paths -> Outcomes]] /\ draft \in [Syncs -> ProjectTable]
        /\ row_lock \in [Paths -> Txs \union {NoTx}]
        /\ r # NoTx
        /\ \A f \in Flushes : r # f
    BY CallAssumption DEF DraftsAreHeld, TypeOK, Txs
  <1>1. ASSUME NEW s \in Syncs, RollsBackSync(s) PROVE DraftIsHeld(r, q)'
    <2>1. /\ pc' = [pc EXCEPT ![s] = "done"]
          /\ view' = [view EXCEPT ![s] = NoRows]
          /\ outcome' = [outcome EXCEPT ![s] = Untried]
          /\ draft' = [draft EXCEPT ![s] = NoRows]
          /\ declared' = declared /\ project' = project
          /\ ReleaseRows(s)
      BY <1>1 DEF RollsBackSync, RollbackSync, EndSync, store_vars
    <2>2. CASE r = s
      BY <1>0, <2>1, <2>2, BlankDraft
    <2>3. CASE r # s
      BY <1>0, <2>1, <2>3, DraftFrame, ReleaseOwn DEF HasReadView
    <2> QED
      BY <2>2, <2>3
  <1>2. ASSUME NEW s \in Syncs, Begin(s) \/ LockSentinel(s) PROVE DraftIsHeld(r, q)'
    BY <1>0, <1>2, DraftFrame DEF Begin, LockSentinel, HasReadView, store_vars
  <1>3. ASSUME NEW s \in Syncs, ReadAndPlan(s) PROVE DraftIsHeld(r, q)'
    <2>1. CASE r = s
      <3>1. outcome[s][q] = "none"
        BY <1>0, <1>3, <2>1 DEF DraftIsHeld, HasReadView, ReadAndPlan
      <3>2. outcome'[s][q] = "none" /\ ~Exists(draft'[s], q)
        BY <1>0, <1>3, <2>1, <3>1 DEF DraftIsHeld, ReadAndPlan, Written, Exists
      <3> QED
        BY <2>1, <3>2 DEF DraftIsHeld, Written, Exists
    <2>2. CASE r # s
      BY <1>0, <1>3, <2>2, DraftFrame DEF ReadAndPlan, HasReadView, store_vars
    <2> QED
      BY <2>1, <2>2
  <1>4. ASSUME NEW s \in Syncs, NEW p \in Paths, NEW how \in Outcomes, NEW row \in Row,
               Write(s, p, how, row), Free(s, p), r # s \/ q # p
        PROVE  DraftIsHeld(r, q)'
    <2>1. outcome'[r][q] = outcome[r][q] /\ draft'[r][q] = draft[r][q]
      BY <1>0, <1>4 DEF Write, ProjectTable
    <2>2. row_lock[q] = r => row_lock'[q] = r
      BY <1>0, <1>4 DEF Write, TakeRow, Free
    <2> QED
      BY <1>0, <1>4, <2>1, <2>2, DraftFrame DEF Write, HasReadView, store_vars
  <1>5. ASSUME NEW s \in Syncs, NEW p \in Paths, NEW how \in Outcomes, NEW row \in Row,
               Write(s, p, how, row), pc[s] = "write"
        PROVE  /\ outcome'[s][p] = how /\ draft'[s][p] = row /\ row_lock'[p] = s
               /\ HasReadView(s)'
               /\ UNCHANGED <<project, declared, view>>
    BY <1>0, <1>5 DEF Write, TakeRow, ProjectTable, HasReadView, store_vars
  <1>6. ASSUME NEW s \in Syncs, NEW p \in Paths, Inserts(s, p) PROVE DraftIsHeld(r, q)'
    <2> DEFINE row == [status |-> "ACTIVE", content |-> declared[s].content[p],
                       version |-> 1, seen |-> 0]
    <2>1. row \in Row
      BY InputAssumption DEF TypeOK, Declaration, Row
    <2>2. /\ Write(s, p, "inserted", row) /\ Free(s, p) /\ pc[s] = "write"
          /\ p \in declared[s].names /\ ~Exists(view[s], p)
      BY <1>6 DEF Inserts, Insert, Untreated
    <2>3. CASE r # s \/ q # p
      BY <1>4, <2>1, <2>2, <2>3 DEF Outcomes
    <2>4. CASE r = s /\ q = p
      <3>1. /\ outcome'[r][q] = "inserted" /\ draft'[r][q] = row /\ row_lock'[q] = r
            /\ HasReadView(r)'
            /\ UNCHANGED <<project, declared, view>>
        BY <1>5, <2>1, <2>2, <2>4 DEF Outcomes
      <3> QED
        BY <2>1, <2>2, <2>4, <3>1, StoreAssumption DEF DraftIsHeld, Written, Exists
    <2> QED
      BY <2>3, <2>4
  <1>7. ASSUME NEW s \in Syncs, NEW p \in Paths, Overwrite(s, p) PROVE DraftIsHeld(r, q)'
    <2> DEFINE row == [project[p] EXCEPT !.status = "ACTIVE", !.content = declared[s].content[p],
                                         !.version = @ + 1]
               how == IF IsActive(view[s], p) THEN "updated" ELSE "reactivated"
    <2>1. row \in Row
      <3>1. declared[s].content[p] \in Contents
        BY InputAssumption DEF TypeOK, Declaration
      <3>2. project[p] \in Row
        BY <1>7 DEF TypeOK, ProjectTable, Exists, KnownRows, Overwrite
      <3> QED
        BY <3>1, <3>2, NextVersion DEF Row
    <2>2. /\ Write(s, p, how, row) /\ Free(s, p) /\ pc[s] = "write" /\ p \in declared[s].names
          /\ Differs(s, p) \/ ~IsActive(view[s], p)
          /\ Exists(view[s], p)
      BY <1>7 DEF Overwrite, Untreated
    <2>3. how \in {"updated", "reactivated"}
      OBVIOUS
    <2> HIDE DEF how, row
    <2>4. CASE r # s \/ q # p
      BY <1>4, <2>1, <2>2, <2>3, <2>4 DEF Outcomes
    <2>5. CASE r = s /\ q = p
      <3>1. /\ outcome'[r][q] = how /\ draft'[r][q] = row /\ row_lock'[q] = r
            /\ HasReadView(r)'
            /\ UNCHANGED <<project, declared, view>>
        BY <1>5, <2>1, <2>2, <2>3, <2>5 DEF Outcomes
      <3>2. Exists(draft'[r], q)
        BY <2>1, <3>1, StoreAssumption DEF Exists
      <3>3. draft'[r][q] = [project'[q] EXCEPT !.status = "ACTIVE",
                                             !.content = declared'[r].content[q],
                                             !.version = @ + 1]
        BY <2>5, <3>1 DEF row
      <3>4. outcome'[r][q] = IF IsActive(view[r], q)' THEN "updated" ELSE "reactivated"
        BY <2>5, <3>1 DEF how, IsActive, Exists
      <3> QED
        BY <2>2, <2>3, <2>5, <3>1, <3>2, <3>3, <3>4
        DEF DraftIsHeld, Written, Differs, Exists, IsActive
    <2> QED
      BY <2>4, <2>5
  <1>8. ASSUME NEW s \in Syncs, NEW p \in Paths, Leave(s, p) PROVE DraftIsHeld(r, q)'
    <2>1. CASE r # s \/ q # p
      <3>1. outcome'[r][q] = outcome[r][q]
        BY <1>0, <1>8, <2>1 DEF Leave
      <3> QED
        BY <1>0, <1>8, <3>1, DraftFrame DEF Leave, HasReadView, store_vars
    <2>2. CASE r = s /\ q = p
      <3>1. outcome'[r][q] = "unchanged"
        BY <1>0, <1>8, <2>2 DEF Leave
      <3>2. ~Exists(draft[r], q)
        BY <1>0, <1>8, <2>2 DEF DraftIsHeld, Leave, Untreated, Written
      <3> QED
        BY <1>0, <1>8, <2>2, <3>1, <3>2
        DEF DraftIsHeld, Leave, Untreated, HasReadView, Written, Exists, IsActive, Differs
    <2> QED
      BY <2>1, <2>2
  <1>9. ASSUME NEW s \in Syncs, NEW p \in Paths, Archive(s, p) PROVE DraftIsHeld(r, q)'
    <2> DEFINE row == [project[p] EXCEPT !.status = "ARCHIVED", !.version = @ + 1]
    <2>1. row \in Row
      <3>1. declared[s].content[p] \in Contents
        BY InputAssumption DEF TypeOK, Declaration
      <3>2. project[p] \in Row
        BY <1>9 DEF TypeOK, ProjectTable, Exists, KnownRows, Archive, ToArchive, ActiveRows, IsActive
      <3> QED
        BY <3>1, <3>2, NextVersion DEF Row
    <2>2. /\ Write(s, p, "archived", row) /\ Free(s, p) /\ pc[s] = "write"
          /\ p \notin declared[s].names /\ IsActive(view[s], p)
      BY <1>9 DEF Archive, Untreated, ToArchive, ActiveRows
    <2> HIDE DEF row
    <2>3. CASE r # s \/ q # p
      BY <1>4, <2>1, <2>2, <2>3 DEF Outcomes
    <2>4. CASE r = s /\ q = p
      <3>1. /\ outcome'[r][q] = "archived" /\ draft'[r][q] = row /\ row_lock'[q] = r
            /\ HasReadView(r)'
            /\ UNCHANGED <<project, declared, view>>
        BY <1>5, <2>1, <2>2, <2>4 DEF Outcomes
      <3>2. Exists(draft'[r], q)
        BY <2>1, <3>1, StoreAssumption DEF Exists
      <3>3. draft'[r][q] = [project'[q] EXCEPT !.status = "ARCHIVED", !.version = @ + 1]
        BY <2>4, <3>1 DEF row
      <3> QED
        BY <2>2, <2>4, <3>1, <3>2, <3>3 DEF DraftIsHeld, Written, Exists, IsActive
    <2> QED
      BY <2>3, <2>4
  <1>10. ASSUME NEW s \in Syncs, WriteGrants(s) PROVE DraftIsHeld(r, q)'
    <2>1. row_lock[q] = r => row_lock'[q] = r
      BY <1>0, <1>10 DEF WriteGrants, Free
    <2> QED
      BY <1>0, <1>10, <2>1, DraftFrame DEF WriteGrants, HasReadView, store_vars
  <1>11. ASSUME NEW s \in Syncs, Commit(s) PROVE DraftIsHeld(r, q)'
    <2>1. /\ pc' = [pc EXCEPT ![s] = "done"]
          /\ view' = [view EXCEPT ![s] = NoRows]
          /\ outcome' = [outcome EXCEPT ![s] = Untried]
          /\ draft' = [draft EXCEPT ![s] = NoRows]
          /\ declared' = declared
          /\ ReleaseRows(s)
      BY <1>11 DEF Commit, EndSync
    <2>2. CASE r = s
      BY <1>0, <2>1, <2>2, BlankDraft
    <2>3. CASE r # s
      <3>1. row_lock[q] = r => row_lock'[q] = r /\ project'[q] = project[q]
        BY <1>0, <1>11, <2>1, <2>3, ReleaseOwn, CommitsOwnRows
      <3> QED
        BY <1>0, <2>1, <2>3, <3>1, DraftFrame DEF HasReadView
    <2> QED
      BY <2>2, <2>3
  <1>12. ASSUME NEW f \in Flushes, RollsBackFlush(f) \/ CommitFlush(f) PROVE DraftIsHeld(r, q)'
    <2>1. UNCHANGED <<pc, view, outcome, draft, declared>> /\ ReleaseRows(f)
      BY <1>12 DEF RollsBackFlush, RollbackFlush, CommitFlush, EndFlush
    <2>2. row_lock[q] = r => project'[q] = project[q]
      BY <1>0, <1>12, CommitsOwnRows DEF RollsBackFlush, RollbackFlush
    <2> QED
      BY <1>0, <2>1, <2>2, DraftFrame, ReleaseOwn DEF HasReadView
  <1>13. ASSUME NEW f \in Flushes, BeginFlush(f) \/ Count(f) PROVE DraftIsHeld(r, q)'
    BY <1>0, <1>13, DraftFrame DEF BeginFlush, Count, HasReadView, store_vars, sync_vars
  <1>14. ASSUME NEW f \in Flushes, NEW p \in Paths, Touch(f, p) PROVE DraftIsHeld(r, q)'
    <2>1. row_lock[q] = r => row_lock'[q] = r
      BY <1>0, <1>14 DEF Touch, TakeRow, Free
    <2> QED
      BY <1>0, <1>14, <2>1, DraftFrame DEF Touch, HasReadView, store_vars, sync_vars
  <1>15. CASE UNCHANGED vars
    BY <1>0, <1>15, DraftFrame DEF vars, HasReadView
  <1> QED
    BY <1>1, <1>2, <1>3, <1>6, <1>7, <1>8, <1>9, <1>10, <1>11, <1>12, <1>13, <1>14, <1>15, StepCases

\* A row a flush rewrote stays locked, and so stays behind its seen_at, until
\* the flush ends.
LEMMA TouchesAreHeldNext ==
  TypeOK /\ DraftsAreHeld /\ TouchesAreHeld /\ [Next]_vars => TouchesAreHeld'
  <1> SUFFICES ASSUME TypeOK, DraftsAreHeld, TouchesAreHeld, [Next]_vars,
                      NEW g \in Flushes, NEW q \in touched'[g]
               PROVE  /\ q \in Targets(g)'
                      /\ row_lock'[q] = g
                      /\ project'[q].seen < flush'[g].seen_at
    BY DEF TouchesAreHeld
  <1> DEFINE IsHeld == q \in Targets(g) /\ row_lock[q] = g /\ project[q].seen < flush[g].seen_at
  <1>0. /\ touched \in [Flushes -> SUBSET Paths]
        /\ row_lock \in [Paths -> Txs \union {NoTx}]
        /\ g # NoTx
        /\ \A s \in Syncs : g # s
    BY CallAssumption DEF TypeOK, Txs
  <1>a. ASSUME q \in touched[g], flush' = flush,
               row_lock[q] = g => row_lock'[q] = g /\ project'[q] = project[q]
        PROVE  IsHeld'
    BY <1>a DEF TouchesAreHeld, Targets
  <1>1. ASSUME NEW s \in Syncs, RollsBackSync(s) \/ Commit(s)
        PROVE  IsHeld'
    <2>1. UNCHANGED <<touched, flush>> /\ ReleaseRows(s)
      BY <1>1 DEF RollsBackSync, RollbackSync, Commit, EndSync, flush_vars
    <2>2. row_lock[q] = g => project'[q] = project[q]
      BY <1>0, <1>1, <2>1, CommitsOwnRows DEF RollsBackSync, RollbackSync, store_vars
    <2> QED
      BY <1>0, <1>a, <2>1, <2>2, ReleaseOwn
  <1>2. ASSUME NEW s \in Syncs, Begin(s) \/ LockSentinel(s) \/ ReadAndPlan(s)
        PROVE  IsHeld'
    BY <1>a, <1>2 DEF Begin, LockSentinel, ReadAndPlan, store_vars, flush_vars
  <1>3. ASSUME NEW s \in Syncs, NEW p \in Paths, Inserts(s, p) \/ Overwrite(s, p) \/ Archive(s, p)
        PROVE  IsHeld'
    <2>1. /\ UNCHANGED <<touched, flush, project>>
          /\ TakeRow(s, p) /\ Free(s, p)
      BY <1>3 DEF Inserts, Insert, Overwrite, Archive, Write, store_vars, flush_vars
    <2>2. row_lock[q] = g => row_lock'[q] = g
      BY <1>0, <2>1 DEF TakeRow, Free
    <2> QED
      BY <1>a, <2>1, <2>2
  <1>4. ASSUME NEW s \in Syncs, NEW p \in Paths, Leave(s, p)
        PROVE  IsHeld'
    BY <1>a, <1>4 DEF Leave, store_vars, flush_vars
  <1>5. ASSUME NEW s \in Syncs, WriteGrants(s)
        PROVE  IsHeld'
    <2>1. UNCHANGED <<touched, flush, project>>
      BY <1>5 DEF WriteGrants, store_vars, flush_vars
    <2>2. row_lock[q] = g => row_lock'[q] = g
      BY <1>0, <1>5, <2>1 DEF WriteGrants, Free
    <2> QED
      BY <1>a, <2>1, <2>2
  <1>6. ASSUME NEW f \in Flushes, RollsBackFlush(f) \/ CommitFlush(f)
        PROVE  IsHeld'
    <2>1. touched' = [touched EXCEPT ![f] = {}] /\ flush' = flush /\ ReleaseRows(f)
      BY <1>6 DEF RollsBackFlush, RollbackFlush, CommitFlush, EndFlush
    <2>2. g # f /\ q \in touched[g] /\ q \in Paths
      BY <1>0, <2>1
    <2>3. row_lock[q] = g => project'[q] = project[q]
      BY <1>0, <1>6, <2>2, CommitsOwnRows DEF RollsBackFlush, RollbackFlush
    <2> QED
      BY <1>0, <1>a, <2>1, <2>2, <2>3, ReleaseOwn
  <1>7. ASSUME NEW f \in Flushes, BeginFlush(f) \/ Count(f)
        PROVE  IsHeld'
    BY <1>a, <1>7 DEF BeginFlush, Count, store_vars
  <1>8. ASSUME NEW f \in Flushes, NEW p \in Paths, Touch(f, p)
        PROVE  IsHeld'
    <2>1. UNCHANGED <<flush, project>>
      BY <1>8 DEF Touch, store_vars
    <2>2. CASE q \in touched[g]
      <3>1. row_lock[q] = g => row_lock'[q] = g
        BY <1>0, <1>8 DEF Touch, TakeRow, Free
      <3> QED
        BY <1>a, <2>1, <2>2, <3>1
    <2>3. CASE q \notin touched[g]
      <3>1. g = f /\ q = p /\ q \in Targets(g) /\ Exists(project, p) /\ project[p].seen < flush[f].seen_at
        BY <1>0, <1>8, <2>3 DEF Touch
      <3>2. row_lock'[q] = g
        BY <1>0, <1>8, <3>1 DEF Touch, TakeRow
      <3> QED
        BY <2>1, <3>1, <3>2 DEF Targets
    <2> QED
      BY <2>2, <2>3
  <1>9. CASE UNCHANGED vars
    BY <1>a, <1>9 DEF vars
  <1> QED
    BY <1>1, <1>2, <1>3, <1>4, <1>5, <1>6, <1>7, <1>8, <1>9, StepCases

\* The decisions of a sync stand while it writes, and it commits only once
\* every row has its outcome.
LEMMA SyncsAreDecidedNext ==
  TypeOK /\ SyncsAreDecided /\ [Next]_vars => SyncsAreDecided'
  <1> SUFFICES ASSUME TypeOK, SyncsAreDecided, [Next]_vars, NEW r \in Syncs
               PROVE  /\ HasReadView(r)' => (Refusal(declared[r], view[r], view_grant[r]) = "none")'
                      /\ (pc[r] = "commit")' => AllWritten(r)'
    BY DEF SyncsAreDecided
  <1> DEFINE Decided == /\ HasReadView(r) => Refusal(declared[r], view[r], view_grant[r]) = "none"
                        /\ pc[r] = "commit" => AllWritten(r)
  <1>0. /\ Decided
        /\ pc \in [Syncs -> SyncPc] /\ view \in [Syncs -> ProjectTable]
        /\ view_grant \in [Syncs -> GrantTable]
        /\ outcome \in [Syncs -> [Paths -> Outcomes]]
    BY DEF SyncsAreDecided, TypeOK
  <1>a. ASSUME pc'[r] = pc[r], view'[r] = view[r], view_grant'[r] = view_grant[r],
               declared'[r] = declared[r], pc[r] = "commit" => outcome'[r] = outcome[r]
        PROVE  Decided'
    BY <1>0, <1>a DEF HasReadView, Refusal, OnFormerPath, MassArchive, MassRevoke, ToArchive,
                      ActiveRows, IsActive, Exists, Revoked, GrantRows, AllWritten, RowsWritten
  <1>1. ASSUME NEW s \in Syncs, RollsBackSync(s) \/ Commit(s) PROVE Decided'
    <2>1. /\ pc' = [pc EXCEPT ![s] = "done"]
          /\ view' = [view EXCEPT ![s] = NoRows]
          /\ view_grant' = [view_grant EXCEPT ![s] = NoGrants]
          /\ outcome' = [outcome EXCEPT ![s] = Untried]
          /\ declared' = declared
      BY <1>1 DEF RollsBackSync, RollbackSync, Commit, EndSync
    <2>2. CASE r = s
      BY <1>0, <2>1, <2>2 DEF HasReadView
    <2>3. CASE r # s
      BY <1>0, <1>a, <2>1, <2>3
    <2> QED
      BY <2>2, <2>3
  <1>2. ASSUME NEW s \in Syncs, Begin(s) \/ LockSentinel(s) PROVE Decided'
    <2>1. UNCHANGED <<view, view_grant, outcome, declared>>
      BY <1>2 DEF Begin, LockSentinel
    <2>2. CASE r = s
      BY <1>0, <1>2, <2>2 DEF Begin, LockSentinel, HasReadView
    <2>3. CASE r # s
      BY <1>0, <1>a, <1>2, <2>1, <2>3 DEF Begin, LockSentinel
    <2> QED
      BY <2>2, <2>3
  <1>3. ASSUME NEW s \in Syncs, ReadAndPlan(s) PROVE Decided'
    <2>1. CASE r = s
      <3>1. /\ view'[r] = project /\ view_grant'[r] = project_grant /\ declared' = declared
            /\ pc'[r] = "write"
            /\ Refusal(declared[r], project, project_grant) = "none"
        BY <1>0, <1>3, <2>1 DEF ReadAndPlan
      <3>2. (Refusal(declared[r], view[r], view_grant[r]))' = Refusal(declared[r], project, project_grant)
        BY <3>1 DEF Refusal, OnFormerPath, MassArchive, MassRevoke, ToArchive,
                    ActiveRows, IsActive, Exists, Revoked, GrantRows
      <3> QED
        BY <3>1, <3>2
    <2>2. CASE r # s
      BY <1>0, <1>3, <1>a, <2>2 DEF ReadAndPlan
    <2> QED
      BY <2>1, <2>2
  <1>4. ASSUME NEW s \in Syncs, NEW p \in Paths,
               Inserts(s, p) \/ Overwrite(s, p) \/ Leave(s, p) \/ Archive(s, p)
        PROVE  Decided'
    <2>1. UNCHANGED <<pc, view, view_grant, declared>> /\ pc[s] = "write"
      BY <1>4 DEF Inserts, Insert, Overwrite, Leave, Archive, Write, Untreated
    <2>2. r # s => outcome'[r] = outcome[r]
      BY <1>0, <1>4 DEF Inserts, Insert, Overwrite, Leave, Archive, Write
    <2> QED
      BY <1>a, <2>1, <2>2
  <1>5. ASSUME NEW s \in Syncs, WriteGrants(s) PROVE Decided'
    <2>1. UNCHANGED <<view, view_grant, outcome, declared>> /\ pc' = [pc EXCEPT ![s] = "commit"]
      BY <1>5 DEF WriteGrants
    <2>2. CASE r = s
      <3>1. AllWritten(r) /\ HasReadView(r)
        BY <1>5, <2>2 DEF WriteGrants, HasReadView
      <3>2. AllWritten(r)'
        BY <2>1, <3>1 DEF AllWritten, RowsWritten, ToArchive, ActiveRows, IsActive, Exists
      <3>3. (Refusal(declared[r], view[r], view_grant[r]))' = Refusal(declared[r], view[r], view_grant[r])
        BY <2>1 DEF Refusal, OnFormerPath, MassArchive, MassRevoke, ToArchive,
                    ActiveRows, IsActive, Exists, Revoked, GrantRows
      <3> QED
        BY <1>0, <3>1, <3>2, <3>3
    <2>3. CASE r # s
      BY <1>0, <1>a, <2>1, <2>3
    <2> QED
      BY <2>2, <2>3
  <1>6. ASSUME NEW f \in Flushes,
               RollsBackFlush(f) \/ BeginFlush(f) \/ Count(f) \/ CommitFlush(f)
                 \/ \E p \in Paths : Touch(f, p)
        PROVE  Decided'
    <2>1. UNCHANGED <<pc, view, view_grant, outcome, declared>>
      BY <1>6 DEF RollsBackFlush, RollbackFlush, EndFlush, BeginFlush, Count, CommitFlush,
                  Touch, sync_vars
    <2> QED
      BY <1>a, <2>1
  <1>7. CASE UNCHANGED vars
    BY <1>a, <1>7 DEF vars
  <1> QED
    BY <1>1, <1>2, <1>3, <1>4, <1>5, <1>6, <1>7, StepCases

(***************************************************************************)
(*                     What a commit does to the tables                    *)
(***************************************************************************)
\* A row whose organisation columns agree is active in both tables or neither.
LEMMA SameActivity ==
  ASSUME NEW rows, NEW other, NEW p \in Paths, SameOrgColumns(rows[p], other[p])
  PROVE  /\ Exists(rows, p) <=> Exists(other, p)
         /\ IsActive(rows, p) <=> IsActive(other, p)
  BY DEF SameOrgColumns, Exists, IsActive

\* How a sync's commit leaves each row, told from what was committed before.
LEMMA CommitByRow ==
  ASSUME IInv, NEW s \in Syncs, Commit(s), NEW p \in Paths
  PROVE  \/ /\ project'[p] = project[p]
            /\ p \in declared[s].names =>
                 /\ IsActive(project, p)
                 /\ project[p].content = declared[s].content[p]
                 /\ outcome[s][p] = "unchanged"
            /\ p \notin declared[s].names => ~IsActive(project, p) /\ outcome[s][p] = "none"
         \/ /\ p \in declared[s].names
            /\ ~Exists(project, p)
            /\ project'[p] = [status |-> "ACTIVE", content |-> declared[s].content[p],
                              version |-> 1, seen |-> 0]
            /\ outcome[s][p] = "inserted"
         \/ /\ p \in declared[s].names
            /\ Exists(project, p)
            /\ project[p].content # declared[s].content[p] \/ ~IsActive(project, p)
            /\ project'[p] = [project[p] EXCEPT !.status = "ACTIVE",
                                                !.content = declared[s].content[p],
                                                !.version = @ + 1]
            /\ outcome[s][p] = IF IsActive(project, p) THEN "updated" ELSE "reactivated"
         \/ /\ p \notin declared[s].names
            /\ IsActive(project, p)
            /\ project'[p] = [project[p] EXCEPT !.status = "ARCHIVED", !.version = @ + 1]
            /\ outcome[s][p] = "archived"
  <1>0. pc[s] = "commit" /\ HasReadView(s)
    BY DEF Commit, HasReadView
  <1>1. SameOrgColumns(view[s][p], project[p])
    BY <1>0 DEF IInv, ViewIsCurrent
  <1>2. DraftIsHeld(s, p) /\ AllWritten(s)
    BY <1>0 DEF IInv, DraftsAreHeld, SyncsAreDecided
  <1>3. /\ Exists(view[s], p) <=> Exists(project, p)
        /\ IsActive(view[s], p) <=> IsActive(project, p)
    BY <1>1, SameActivity
  <1>4. outcome[s][p] \in Outcomes
    BY DEF IInv, TypeOK
  <1>5. CASE outcome[s][p] \in {"none", "unchanged"}
    <2>1. project'[p] = project[p]
      BY <1>2, <1>5 DEF Commit, DraftIsHeld, Written
    <2>2. CASE p \in declared[s].names
      <3>1. outcome[s][p] = "unchanged"
        BY <1>2, <1>5, <2>2 DEF AllWritten, RowsWritten
      <3>2. IsActive(project, p) /\ ~Differs(s, p)
        BY <1>2, <1>3, <3>1 DEF DraftIsHeld
      <3>3. project[p].content = declared[s].content[p]
        BY <1>1, <3>2 DEF Differs, SameOrgColumns, IsActive, Exists
      <3> QED
        BY <2>1, <2>2, <3>1, <3>2, <3>3
    <2>3. CASE p \notin declared[s].names
      <3>1. outcome[s][p] = "none"
        BY <1>2, <1>5, <2>3 DEF DraftIsHeld
      <3>2. ~IsActive(project, p)
        BY <1>2, <1>3, <2>3, <3>1 DEF AllWritten, ToArchive, ActiveRows
      <3> QED
        BY <2>1, <2>3, <3>1, <3>2
    <2> QED
      BY <2>2, <2>3
  <1>6. CASE outcome[s][p] \in Written
    <2>1. project'[p] = draft[s][p]
      BY <1>2, <1>6 DEF Commit, DraftIsHeld
    <2>2. CASE outcome[s][p] = "inserted"
      BY <1>2, <1>3, <2>1, <2>2 DEF DraftIsHeld
    <2>3. CASE outcome[s][p] \in {"updated", "reactivated"}
      <3>1. /\ p \in declared[s].names /\ Exists(project, p)
            /\ Differs(s, p) \/ ~IsActive(project, p)
            /\ project'[p] = [project[p] EXCEPT !.status = "ACTIVE",
                                                !.content = declared[s].content[p],
                                                !.version = @ + 1]
            /\ outcome[s][p] = IF IsActive(project, p) THEN "updated" ELSE "reactivated"
        BY <1>2, <1>3, <2>1, <2>3 DEF DraftIsHeld
      <3>2. view[s][p].content = project[p].content
        BY <1>1, <1>3, <3>1 DEF SameOrgColumns, Exists
      <3> QED
        BY <3>1, <3>2 DEF Differs
    <2>4. CASE outcome[s][p] = "archived"
      BY <1>2, <1>3, <2>1, <2>4 DEF DraftIsHeld
    <2> QED
      BY <1>6, <2>2, <2>3, <2>4 DEF Written
  <1> QED
    BY <1>4, <1>5, <1>6 DEF Outcomes, Written

\* The grants a sync's commit leaves are the declared ones: the plan was made
\* from the grants that are committed.
LEMMA CommitGrants ==
  ASSUME IInv, NEW s \in Syncs, Commit(s)
  PROVE  \A p \in Paths : \A t \in Teams : project_grant'[p][t] = declared[s].level[p][t]
  <1>1. view_grant[s] = project_grant
    BY DEF IInv, ViewIsCurrent, Commit, HasReadView
  <1> SUFFICES ASSUME NEW p \in Paths, NEW t \in Teams
               PROVE  project_grant'[p][t] = declared[s].level[p][t]
    OBVIOUS
  <1>2. project_grant'[p][t] =
          IF <<p, t>> \in Revoked(declared[s], project_grant) THEN NoGrant
          ELSE IF declared[s].level[p][t] # NoGrant THEN declared[s].level[p][t]
          ELSE project_grant[p][t]
    BY <1>1 DEF Commit, GrantsAfter
  <1>3. <<p, t>> \in Revoked(declared[s], project_grant)
          <=> project_grant[p][t] # NoGrant /\ declared[s].level[p][t] = NoGrant
    BY DEF Revoked, GrantRows
  <1> QED
    BY <1>2, <1>3

\* A flush's commit keeps every organisation column and moves last_seen_at
\* forward, if it moves it.
LEMMA CommitFlushByRow ==
  ASSUME IInv, NEW f \in Flushes, CommitFlush(f), NEW p \in Paths
  PROVE  \/ project'[p] = project[p]
         \/ /\ Exists(project, p)
            /\ project'[p] = [project[p] EXCEPT !.seen = flush[f].seen_at]
            /\ project[p].seen < flush[f].seen_at
  <1>1. CASE p \in touched[f]
    BY <1>1 DEF IInv, KnownRows, TouchesAreHeld, CommitFlush
  <1>2. CASE p \notin touched[f]
    BY <1>2 DEF CommitFlush
  <1> QED
    BY <1>1, <1>2

\* The steps that are no commit change no table.
LEMMA OnlyCommitsWrite ==
  ASSUME [Next]_vars
  PROVE  \/ UNCHANGED store_vars
         \/ \E s \in Syncs : Commit(s)
         \/ \E f \in Flushes : CommitFlush(f) /\ UNCHANGED project_grant
  <1>1. ASSUME NEW s \in Syncs, Begin(s) \/ LockSentinel(s) \/ ReadAndPlan(s) \/ WriteGrants(s)
        PROVE  UNCHANGED store_vars
    BY <1>1 DEF Begin, LockSentinel, ReadAndPlan, WriteGrants
  <1>2. ASSUME NEW s \in Syncs, NEW p \in Paths,
               Inserts(s, p) \/ Overwrite(s, p) \/ Leave(s, p) \/ Archive(s, p)
        PROVE  UNCHANGED store_vars
    BY <1>2 DEF Inserts, Insert, Overwrite, Leave, Archive, Write
  <1>3. ASSUME NEW f \in Flushes, BeginFlush(f) \/ Count(f) \/ \E p \in Paths : Touch(f, p)
        PROVE  UNCHANGED store_vars
    BY <1>3 DEF BeginFlush, Count, Touch
  <1>4. ASSUME NEW f \in Flushes, CommitFlush(f) PROVE UNCHANGED project_grant
    BY <1>4 DEF CommitFlush, EndFlush
  <1>5. UNCHANGED vars => UNCHANGED store_vars
    BY DEF vars, store_vars
  <1> QED
    BY <1>1, <1>2, <1>3, <1>4, <1>5, StepCases, RollbackKeepsStore

\* A commit leaves grants on active rows only: those on rows it archives are
\* in its plan, and those it writes are on rows it declared, hence active.
LEMMA GrantsFollowTheirRowNext == IInv /\ [Next]_vars => GrantsFollowTheirRow'
  <1> SUFFICES ASSUME IInv, [Next]_vars, NEW p \in Paths, NEW t \in Teams,
                      project_grant'[p][t] # NoGrant
               PROVE  IsActive(project', p)
    BY DEF GrantsFollowTheirRow, GrantsOnActiveRows, IsActive, Exists
  <1>1. CASE UNCHANGED store_vars
    BY <1>1 DEF IInv, GrantsFollowTheirRow, GrantsOnActiveRows, store_vars
  <1>2. ASSUME NEW s \in Syncs, Commit(s) PROVE IsActive(project', p)
    <2>1. declared[s].level[p][t] # NoGrant
      BY <1>2, CommitGrants
    <2>2. p \in declared[s].names
      BY <2>1, InputAssumption DEF IInv, TypeOK, Admissible
    <2>3. CASE project'[p] = project[p] /\ IsActive(project, p)
      BY <2>3 DEF IsActive, Exists
    <2>4. CASE project'[p] = [status |-> "ACTIVE", content |-> declared[s].content[p],
                              version |-> 1, seen |-> 0]
      <3>1. project'[p] \in Row
        BY <2>4, InputAssumption DEF IInv, TypeOK, Declaration, Row
      <3> QED
        BY <2>4, <3>1, StoreAssumption DEF IsActive, Exists
    <2>5. CASE /\ Exists(project, p)
               /\ project'[p] = [project[p] EXCEPT !.status = "ACTIVE",
                                                   !.content = declared[s].content[p],
                                                   !.version = @ + 1]
      <3>1. project[p] \in Row
        BY <2>5 DEF IInv, TypeOK, ProjectTable, Exists
      <3>2. declared[s].content[p] \in Contents
        BY InputAssumption DEF IInv, TypeOK, Declaration
      <3>3. project'[p] \in Row /\ project'[p].status = "ACTIVE"
        BY <2>5, <3>1, <3>2, NextVersion DEF Row
      <3> QED
        BY <3>3, StoreAssumption DEF IsActive, Exists
    <2> QED
      BY <1>2, <2>2, <2>3, <2>4, <2>5, CommitByRow
  <1>3. ASSUME NEW f \in Flushes, CommitFlush(f), UNCHANGED project_grant
        PROVE  IsActive(project', p)
    <2>1. IsActive(project, p)
      BY <1>3 DEF IInv, GrantsFollowTheirRow, GrantsOnActiveRows
    <2>2. project[p] \in Row
      BY <2>1 DEF IInv, TypeOK, ProjectTable, IsActive, Exists
    <2>3. project'[p] = project[p] \/ project'[p] = [project[p] EXCEPT !.seen = flush[f].seen_at]
      BY <1>3, CommitFlushByRow
    <2>4. flush[f].seen_at \in Nat
      BY InputAssumption DEF IInv, TypeOK, FlushRequest
    <2>5. project'[p] \in Row /\ project'[p].status = project[p].status
      BY <2>2, <2>3, <2>4 DEF Row
    <2> QED
      BY <2>1, <2>5, StoreAssumption DEF IsActive, Exists
  <1> QED
    BY <1>1, <1>2, <1>3, OnlyCommitsWrite

\* Rows appear by insertion only, at declared names, and no declaration that
\* names a former path gets past ReadAndPlan.
LEMMA FormerPathsStayFreeNext == IInv /\ [Next]_vars => FormerPathsStayFree'
  <1> SUFFICES ASSUME IInv, [Next]_vars, NEW a \in Aliases PROVE ~Exists(project', a)
    BY DEF FormerPathsStayFree, NothingAtFormerPaths, Exists
  <1>0. a \in Paths /\ ~Exists(project, a)
    BY StoreAssumption DEF IInv, FormerPathsStayFree, NothingAtFormerPaths
  <1>1. CASE UNCHANGED store_vars
    BY <1>0, <1>1 DEF store_vars, Exists
  <1>2. ASSUME NEW s \in Syncs, Commit(s) PROVE ~Exists(project', a)
    <2>1. Refusal(declared[s], view[s], view_grant[s]) = "none"
      BY <1>2 DEF IInv, SyncsAreDecided, Commit, HasReadView
    <2>2. a \notin declared[s].names
      BY <2>1 DEF Refusal, OnFormerPath
    <2> QED
      BY <1>0, <1>2, <2>2, CommitByRow DEF IsActive, Exists
  <1>3. ASSUME NEW f \in Flushes, CommitFlush(f) PROVE ~Exists(project', a)
    BY <1>0, <1>3, CommitFlushByRow DEF Exists
  <1> QED
    BY <1>1, <1>2, <1>3, OnlyCommitsWrite

\* A unique index refuses nothing: the rows and grants a sync found missing in
\* its read view are still missing when it inserts them.
LEMMA NoSyncCollidesNext == IInv /\ [Next]_vars => NoSyncCollides'
  <1> SUFFICES ASSUME IInv, [Next]_vars, NEW r \in Syncs PROVE error'[r] # DupEntry
    BY DEF NoSyncCollides
  <1>0. /\ error \in [Txs -> Errors] /\ error[r] # DupEntry /\ r \in Txs
        /\ \A f \in Flushes : r # f
    BY CallAssumption DEF IInv, TypeOK, NoSyncCollides, Txs
  <1>a. ASSUME NEW s \in Syncs, NEW a, NEW e, RollbackSync(s, a, e), e # DupEntry
        PROVE  error'[r] # DupEntry
    BY <1>0, <1>a DEF RollbackSync, EndSync
  <1>b. ASSUME NEW f \in Flushes, NEW a, NEW e, EndFlush(f, a, e)
        PROVE  error'[r] # DupEntry
    BY <1>0, <1>b DEF EndFlush
  <1> USE DEF LockWaitTimeout, Deadlock, CheckRead, DupEntry, LostConnection
  <1>1. ASSUME NEW s \in Syncs,
               TurnAway(s) \/ ReadAndRefuse(s) \/ AbandonSync(s)
        PROVE  error'[r] # DupEntry
    BY <1>a, <1>1 DEF TurnAway, ReadAndRefuse, AbandonSync
  <1>2. ASSUME NEW s \in Syncs,
               Begin(s) \/ LockSentinel(s) \/ ReadAndPlan(s) \/ WriteGrants(s)
        PROVE  error'[r] # DupEntry
    BY <1>0, <1>2 DEF Begin, LockSentinel, ReadAndPlan, WriteGrants
  <1>3. ASSUME NEW s \in Syncs, NEW p \in Paths,
               Overwrite(s, p) \/ Leave(s, p) \/ Archive(s, p)
        PROVE  error'[r] # DupEntry
    BY <1>0, <1>3 DEF Overwrite, Leave, Archive, Write
  <1>4. ASSUME NEW s \in Syncs, NEW p \in Paths, Insert(s, p) PROVE error'[r] # DupEntry
    <2>1. SameOrgColumns(view[s][p], project[p])
      BY <1>4 DEF IInv, ViewIsCurrent, Insert, Untreated, HasReadView
    <2>2. ~Exists(project, p)
      BY <1>4, <2>1 DEF Insert, SameOrgColumns, Exists
    <2> QED
      BY <1>0, <1>4, <2>2 DEF Insert, Write
  <1>5. ASSUME NEW s \in Syncs, NEW p \in Paths, UpdateFails(s, p) PROVE error'[r] # DupEntry
    BY <1>a, <1>5 DEF UpdateFails
  <1>6. ASSUME NEW s \in Syncs, WriteGrantsFails(s) PROVE error'[r] # DupEntry
    <2>1. view_grant[s] = project_grant
      BY <1>6 DEF IInv, ViewIsCurrent, WriteGrantsFails, HasReadView
    <2>2. \A pt \in NewGrants(s) : project_grant[pt[1]][pt[2]] = NoGrant
      BY <2>1 DEF NewGrants
    <2> QED
      BY <1>a, <1>6, <2>2 DEF WriteGrantsFails
  <1>7. ASSUME NEW s \in Syncs, Commit(s) PROVE error'[r] # DupEntry
    BY <1>0, <1>7 DEF Commit, EndSync
  <1>8. ASSUME NEW f \in Flushes, TurnAwayFlush(f) \/ AbandonFlush(f) \/ CommitFlush(f)
        PROVE  error'[r] # DupEntry
    BY <1>b, <1>8 DEF TurnAwayFlush, AbandonFlush, CommitFlush, RollbackFlush
  <1>9. ASSUME NEW f \in Flushes, BeginFlush(f) \/ Count(f) \/ \E p \in Paths : Touch(f, p)
        PROVE  error'[r] # DupEntry
    BY <1>0, <1>9 DEF BeginFlush, Count, Touch
  <1>10. ASSUME NEW x \in Txs, WaitFails(x) PROVE error'[r] # DupEntry
    BY <1>a, <1>b, <1>10 DEF WaitFails, RollbackFlush, Txs
  <1>11. CASE UNCHANGED vars
    BY <1>0, <1>11 DEF vars
  <1> QED
    BY <1>1, <1>2, <1>3, <1>4, <1>5, <1>6, <1>7, <1>8, <1>9, <1>10, <1>11
    DEF Next, SyncStep, FlushStep

(***************************************************************************)
(*                                Theorems                                 *)
(***************************************************************************)
\* The invariant holds at boot.
LEMMA InvariantInit == Init => IInv
  <1> SUFFICES ASSUME Init PROVE IInv
    OBVIOUS
  <1>1. TypeOK /\ KnownRows
    BY TypeInit, KnownRowsInit
  <1>2. SentinelHeld /\ SyncsAreDecided /\ ViewIsCurrent
    BY CallAssumption DEF Init, SentinelHeld, SyncsAreDecided, ViewIsCurrent, HasReadView, Txs
  <1>3. DraftsAreHeld /\ TouchesAreHeld
    BY DEF Init, DraftsAreHeld, DraftIsHeld, TouchesAreHeld, Written, Exists, NoRows, Untried
  <1>4. GrantsFollowTheirRow /\ FormerPathsStayFree
    BY InputAssumption DEF Init, GrantsFollowTheirRow, FormerPathsStayFree
  <1>5. NoSyncCollides
    BY DEF Init, NoSyncCollides, DupEntry, Txs
  <1> QED
    BY <1>1, <1>2, <1>3, <1>4, <1>5 DEF IInv

\* Every step keeps the invariant.
LEMMA InvariantNext == IInv /\ [Next]_vars => IInv'
  BY TypeNext, KnownRowsNext, SentinelHeldNext, ViewIsCurrentNext, DraftsAreHeldNext,
     TouchesAreHeldNext, SyncsAreDecidedNext, GrantsFollowTheirRowNext,
     FormerPathsStayFreeNext, NoSyncCollidesNext
  DEF IInv

\* The inductive invariant of the specification.
THEOREM Invariance == Spec => []IInv
  BY InvariantInit, InvariantNext, PTL DEF Spec

\* Type correctness: every call answers a status, every commit stores rows.
THEOREM TypeCorrectness == Spec => []TypeOK
  <1>1. IInv => TypeOK
    BY DEF IInv
  <1> QED
    BY <1>1, Invariance, PTL

\* The sentinel does what sync.rs takes it for: what a sync decided from its
\* reads is still so when it commits, whatever other syncs and flushes do.
THEOREM SentinelSerializesSyncs == Spec => []ViewIsCurrent
  <1>1. IInv => ViewIsCurrent
    BY DEF IInv
  <1> QED
    BY <1>1, Invariance, PTL

\* No grant survives on a row that is archived (grants.rs, plan).
THEOREM GrantsNeverOutliveTheirRow == Spec => []GrantsFollowTheirRow
  <1>1. IInv => GrantsFollowTheirRow
    BY DEF IInv
  <1> QED
    BY <1>1, Invariance, PTL

\* No project is ever registered at a former path (refuse_aliases, D53).
THEOREM FormerPathsAreNeverReclaimed == Spec => []FormerPathsStayFree
  <1>1. IInv => FormerPathsStayFree
    BY DEF IInv
  <1> QED
    BY <1>1, Invariance, PTL

\* No sync is refused by a unique index, two first syncs included.
THEOREM SyncsNeverCollide == Spec => []NoSyncCollides
  <1>1. IInv => NoSyncCollides
    BY DEF IInv
  <1> QED
    BY <1>1, Invariance, PTL

\* What a step may do to a row.
LEMMA RowsEvolveNext == IInv /\ [Next]_vars => \A p \in Paths : RowEvolves(p)
  <1>1. ASSUME IInv, [Next]_vars, NEW p \in Paths, Exists(project, p) PROVE RowEvolves(p)
    <2>0. project[p] \in Row
      BY <1>1 DEF IInv, TypeOK, ProjectTable, Exists
    <2>1. CASE UNCHANGED store_vars
      BY <1>1, <2>0, <2>1 DEF store_vars, RowEvolves, Exists, Row
    <2>2. ASSUME NEW s \in Syncs, Commit(s) PROVE RowEvolves(p)
      <3>1. declared[s].content[p] \in Contents
        BY <1>1, InputAssumption DEF IInv, TypeOK, Declaration
      <3>2. CASE project'[p] = project[p]
        BY <1>1, <2>0, <3>2 DEF RowEvolves, Exists, Row
      <3>3. CASE /\ project[p].content # declared[s].content[p] \/ ~IsActive(project, p)
                 /\ project'[p] = [project[p] EXCEPT !.status = "ACTIVE",
                                                     !.content = declared[s].content[p],
                                                     !.version = @ + 1]
        <4>1. project'[p] \in Row
          BY <2>0, <3>1, <3>3, NextVersion DEF Row
        <4>2. /\ project'[p].seen = project[p].seen
              /\ project'[p].version = project[p].version + 1
              /\ project'[p].status = "ACTIVE"
              /\ project'[p].content = declared[s].content[p]
          BY <2>0, <3>3 DEF Row
        <4>3. Exists(project', p) /\ project[p].seen \in Nat
          BY <2>0, <4>1, StoreAssumption DEF Exists, Row
        <4> QED
          BY <1>1, <3>3, <4>2, <4>3 DEF RowEvolves, IsActive
      <3>4. CASE /\ IsActive(project, p)
                 /\ project'[p] = [project[p] EXCEPT !.status = "ARCHIVED", !.version = @ + 1]
        <4>1. project'[p] \in Row
          BY <2>0, <3>1, <3>4, NextVersion DEF Row
        <4>2. /\ project'[p].seen = project[p].seen
              /\ project'[p].version = project[p].version + 1
              /\ project'[p].status = "ARCHIVED"
          BY <2>0, <3>4 DEF Row
        <4>3. Exists(project', p) /\ project[p].seen \in Nat
          BY <2>0, <4>1, StoreAssumption DEF Exists, Row
        <4> QED
          BY <1>1, <3>4, <4>2, <4>3 DEF RowEvolves, IsActive
      <3> QED
        BY <1>1, <2>2, <3>2, <3>3, <3>4, CommitByRow
    <2>3. ASSUME NEW f \in Flushes, CommitFlush(f) PROVE RowEvolves(p)
      <3>1. flush[f].seen_at \in Nat
        BY <1>1, InputAssumption DEF IInv, TypeOK, FlushRequest
      <3>2. CASE project'[p] = project[p]
        BY <1>1, <2>0, <3>2 DEF RowEvolves, Exists, Row
      <3>3. CASE /\ project'[p] = [project[p] EXCEPT !.seen = flush[f].seen_at]
                 /\ project[p].seen < flush[f].seen_at
        <4>1. project'[p] \in Row
          BY <2>0, <3>1, <3>3 DEF Row
        <4> QED
          BY <1>1, <2>0, <3>1, <3>3, <4>1, StoreAssumption DEF RowEvolves, Exists, Row
      <3> QED
        BY <1>1, <2>3, <3>2, <3>3, CommitFlushByRow
    <2> QED
      BY <1>1, <2>1, <2>2, <2>3, OnlyCommitsWrite
  <1> QED
    BY <1>1 DEF RowEvolves

\* What a row may become: it stays, its last_seen_at moves forward or stays,
\* and its version counts the changes of its status or content (D8, ADR-0934).
THEOREM RowsOnlyEvolve == Spec => RowsEvolve
  <1>1. IInv /\ [Next]_vars => [\A p \in Paths : RowEvolves(p)]_project
    BY RowsEvolveNext
  <1> QED
    BY <1>1, Invariance, PTL DEF Spec, RowsEvolve

\* A row a flush holds exists, and is rewritten by it or at its seen_at already.
HeldRowsAreForward ==
  \A f \in Flushes : \A p \in Paths : row_lock[p] = f =>
    /\ Exists(project, p)
    /\ p \in touched[f] \/ project[p].seen >= flush[f].seen_at

\* A flush locks a row as it compares it, and no row moves back after that.
LEMMA HeldRowsAreForwardNext ==
  IInv /\ HeldRowsAreForward /\ [Next]_vars => HeldRowsAreForward'
  <1> SUFFICES ASSUME IInv, HeldRowsAreForward, [Next]_vars,
                      NEW g \in Flushes, NEW q \in Paths, row_lock'[q] = g
               PROVE  /\ project'[q] # NoRow
                      /\ q \in touched'[g] \/ project'[q].seen >= flush'[g].seen_at
    BY DEF HeldRowsAreForward, Exists
  <1> DEFINE IsForward ==
               /\ project[q] # NoRow
               /\ q \in touched[g] \/ project[q].seen >= flush[g].seen_at
  <1>0. /\ touched \in [Flushes -> SUBSET Paths] /\ row_lock \in [Paths -> Txs \union {NoTx}]
        /\ g # NoTx
        /\ \A s \in Syncs : g # s
        /\ flush[g].seen_at \in Nat
    BY CallAssumption, InputAssumption DEF IInv, TypeOK, Txs, FlushRequest
  <1>a. ASSUME row_lock[q] = g, flush' = flush, q \in touched[g] => q \in touched'[g]
        PROVE  IsForward'
    <2>1. IsForward
      BY <1>a DEF HeldRowsAreForward, Exists
    <2>2. /\ Exists(project', q) /\ project'[q].seen >= project[q].seen
          /\ project[q].seen \in Nat
      BY <2>1, RowsEvolveNext DEF RowEvolves, IInv, TypeOK, ProjectTable, Exists, Row
    <2>3. project'[q].seen \in Nat
      BY <2>2, TypeNext DEF IInv, TypeOK, ProjectTable, Exists, Row
    <2> QED
      BY <1>0, <1>a, <2>1, <2>2, <2>3 DEF Exists
  <1>1. ASSUME NEW s \in Syncs, RollsBackSync(s) \/ Commit(s) PROVE IsForward'
    <2>1. UNCHANGED <<touched, flush>> /\ ReleaseRows(s)
      BY <1>1 DEF RollsBackSync, RollbackSync, Commit, EndSync, flush_vars
    <2> QED
      BY <1>0, <1>a, <2>1 DEF ReleaseRows
  <1>2. ASSUME NEW s \in Syncs, Begin(s) \/ LockSentinel(s) \/ ReadAndPlan(s) PROVE IsForward'
    BY <1>a, <1>2 DEF Begin, LockSentinel, ReadAndPlan, flush_vars
  <1>3. ASSUME NEW s \in Syncs, NEW p \in Paths, Inserts(s, p) \/ Overwrite(s, p) \/ Archive(s, p)
        PROVE  IsForward'
    <2>1. UNCHANGED <<touched, flush>> /\ TakeRow(s, p)
      BY <1>3 DEF Inserts, Insert, Overwrite, Archive, Write, flush_vars
    <2> QED
      BY <1>0, <1>a, <2>1 DEF TakeRow
  <1>4. ASSUME NEW s \in Syncs, NEW p \in Paths, Leave(s, p) PROVE IsForward'
    BY <1>a, <1>4 DEF Leave, flush_vars
  <1>5. ASSUME NEW s \in Syncs, WriteGrants(s) PROVE IsForward'
    BY <1>0, <1>a, <1>5 DEF WriteGrants, flush_vars
  <1>6. ASSUME NEW f \in Flushes, RollsBackFlush(f) \/ CommitFlush(f) PROVE IsForward'
    <2>1. touched' = [touched EXCEPT ![f] = {}] /\ flush' = flush /\ ReleaseRows(f)
      BY <1>6 DEF RollsBackFlush, RollbackFlush, CommitFlush, EndFlush
    <2>2. g # f /\ row_lock[q] = g
      BY <1>0, <2>1, CallAssumption DEF ReleaseRows
    <2> QED
      BY <1>0, <1>a, <2>1, <2>2
  <1>7. ASSUME NEW f \in Flushes, BeginFlush(f) \/ Count(f) PROVE IsForward'
    BY <1>a, <1>7 DEF BeginFlush, Count
  <1>8. ASSUME NEW f \in Flushes, NEW p \in Paths, Touch(f, p) PROVE IsForward'
    <2>1. UNCHANGED <<flush, project>>
      BY <1>8 DEF Touch, store_vars
    <2>2. CASE row_lock[q] = g
      BY <1>0, <1>8, <1>a, <2>1, <2>2 DEF Touch
    <2>3. CASE row_lock[q] # g
      <3>1. g = f /\ q = p /\ Exists(project, p)
        BY <1>0, <1>8, <2>3 DEF Touch, TakeRow
      <3>2. project[q].seen \in Nat
        BY <3>1 DEF IInv, TypeOK, ProjectTable, Exists, Row
      <3>3. project[q].seen < flush[g].seen_at => q \in touched'[g]
        BY <1>0, <1>8, <3>1 DEF Touch
      <3> QED
        BY <1>0, <2>1, <3>1, <3>2, <3>3 DEF Exists
    <2> QED
      BY <2>2, <2>3
  <1>9. CASE UNCHANGED vars
    <2>1. UNCHANGED <<touched, flush, row_lock>>
      BY <1>9 DEF vars
    <2> QED
      BY <1>a, <2>1
  <1> QED
    BY <1>1, <1>2, <1>3, <1>4, <1>5, <1>6, <1>7, <1>8, <1>9, StepCases

\* Requests stay as they were sent, and only a flush's own commit says what
\* the flush covered.
LEMMA OnlyCommitsCover ==
  ASSUME [Next]_vars
  PROVE  /\ flush' = flush
         /\ \/ covered' = covered
            \/ \E f \in Flushes :
                 /\ CommitFlush(f)
                 /\ covered' = [covered EXCEPT ![f] = {p \in Targets(f) : row_lock[p] = f}]
  <1> DEFINE Kept == UNCHANGED <<flush, covered>>
  <1>1. ASSUME NEW s \in Syncs, RollsBackSync(s) \/ Commit(s) PROVE Kept
    BY <1>1 DEF RollsBackSync, RollbackSync, Commit, EndSync, flush_vars
  <1>2. ASSUME NEW s \in Syncs, Begin(s) \/ LockSentinel(s) \/ ReadAndPlan(s) \/ WriteGrants(s)
        PROVE  Kept
    BY <1>2 DEF Begin, LockSentinel, ReadAndPlan, WriteGrants, flush_vars
  <1>3. ASSUME NEW s \in Syncs, NEW p \in Paths,
               Inserts(s, p) \/ Overwrite(s, p) \/ Leave(s, p) \/ Archive(s, p)
        PROVE  Kept
    BY <1>3 DEF Inserts, Insert, Overwrite, Leave, Archive, Write, flush_vars
  <1>4. ASSUME NEW f \in Flushes, RollsBackFlush(f) PROVE Kept
    BY <1>4 DEF RollsBackFlush, RollbackFlush, EndFlush
  <1>5. ASSUME NEW f \in Flushes, BeginFlush(f) \/ Count(f) \/ \E p \in Paths : Touch(f, p)
        PROVE  Kept
    BY <1>5 DEF BeginFlush, Count, Touch
  <1>6. ASSUME NEW f \in Flushes, CommitFlush(f)
        PROVE  /\ flush' = flush
               /\ \/ covered' = covered
                  \/ covered' = [covered EXCEPT ![f] = {p \in Targets(f) : row_lock[p] = f}]
    BY <1>6 DEF CommitFlush, EndFlush
  <1>7. CASE UNCHANGED vars
    BY <1>7 DEF vars
  <1> QED
    BY <1>1, <1>2, <1>3, <1>4, <1>5, <1>6, <1>7, StepCases

\* What a flush was told is done stays done.
LEMMA FlushesLastNext ==
  IInv /\ HeldRowsAreForward /\ FlushesLast /\ [Next]_vars => FlushesLast'
  <1> SUFFICES ASSUME IInv, HeldRowsAreForward, FlushesLast, [Next]_vars,
                      NEW g \in Flushes, NEW q \in covered'[g]
               PROVE  Exists(project', q) /\ project'[q].seen >= flush'[g].seen_at
    BY DEF FlushesLast, Exists
  <1>0. /\ covered \in [Flushes -> SUBSET Paths] /\ flush[g].seen_at \in Nat
        /\ q \in Paths
    BY TypeNext, InputAssumption DEF IInv, TypeOK, FlushRequest
  <1>1. flush' = flush
    BY OnlyCommitsCover
  <1>2. ASSUME Exists(project, q), project[q].seen >= flush[g].seen_at
        PROVE  Exists(project', q) /\ project'[q].seen >= flush'[g].seen_at
    <2>1. /\ Exists(project', q) /\ project'[q].seen >= project[q].seen
          /\ project[q].seen \in Nat
      BY <1>0, <1>2, RowsEvolveNext DEF RowEvolves, IInv, TypeOK, ProjectTable, Exists, Row
    <2>2. project'[q].seen \in Nat
      BY <1>0, <2>1, TypeNext DEF IInv, TypeOK, ProjectTable, Exists, Row
    <2> QED
      BY <1>0, <1>1, <1>2, <2>1, <2>2
  <1>3. CASE q \in covered[g]
    BY <1>2, <1>3 DEF FlushesLast
  <1>4. CASE q \notin covered[g]
    <2>1. CommitFlush(g) /\ row_lock[q] = g
      BY <1>0, <1>4, OnlyCommitsCover DEF CommitFlush
    <2>2. /\ Exists(project, q)
          /\ q \in touched[g] \/ project[q].seen >= flush[g].seen_at
      BY <1>0, <2>1 DEF HeldRowsAreForward
    <2>3. CASE q \in touched[g]
      <3>1. project'[q] = [project[q] EXCEPT !.seen = flush[g].seen_at] /\ project[q] \in Row
        BY <1>0, <2>1, <2>2, <2>3 DEF CommitFlush, IInv, TypeOK, ProjectTable, Exists
      <3>2. project'[q].seen = flush[g].seen_at
        BY <3>1 DEF Row
      <3>3. Exists(project', q)
        BY <1>0, <2>2, RowsEvolveNext DEF RowEvolves
      <3> QED
        BY <1>0, <1>1, <3>2, <3>3
    <2>4. CASE q \notin touched[g]
      BY <1>2, <2>2, <2>4
    <2> QED
      BY <2>3, <2>4
  <1> QED
    BY <1>3, <1>4

\* A flush answered OK lasts: every row it found is at or past its seen_at, and
\* no later sync or late flush undoes that (touch.rs).
THEOREM OkFlushesLast == Spec => []FlushesLast
  <1> DEFINE FInv == IInv /\ HeldRowsAreForward /\ FlushesLast
  <1>1. Init => FInv
    BY InvariantInit, CallAssumption DEF Init, HeldRowsAreForward, FlushesLast, Txs
  <1>2. FInv /\ [Next]_vars => FInv'
    BY InvariantNext, HeldRowsAreForwardNext, FlushesLastNext
  <1>3. FInv => FlushesLast
    OBVIOUS
  <1> QED
    BY <1>1, <1>2, <1>3, PTL DEF Spec

\* How the commit of a sync changes a row is what it counted.
LEMMA CommitHappened ==
  ASSUME IInv, NEW s \in Syncs, Commit(s), NEW p \in Paths
  PROVE  outcome[s][p] = Happened(declared[s], p)
  <1>1. CASE Exists(project, p)
    <2>0. project[p] \in Row
      BY <1>1 DEF IInv, TypeOK, ProjectTable, Exists
    <2>1. declared[s].content[p] \in Contents
      BY InputAssumption DEF IInv, TypeOK, Declaration
    <2>2. CASE project'[p] = project[p] /\ outcome[s][p] = IF p \in declared[s].names THEN "unchanged" ELSE "none"
      BY <1>1, <2>2 DEF Happened, Exists, IsActive
    <2>3. CASE /\ project'[p] = [project[p] EXCEPT !.status = "ACTIVE",
                                                   !.content = declared[s].content[p],
                                                   !.version = @ + 1]
               /\ outcome[s][p] = IF IsActive(project, p) THEN "updated" ELSE "reactivated"
      <3>1. /\ project'[p] \in Row /\ project'[p].status = "ACTIVE"
            /\ project'[p].version = project[p].version + 1
            /\ project[p].version \in Nat
        <4>1. project[p].version \in Nat
          BY <2>0 DEF Row
        <4> QED
          BY <2>0, <2>1, <2>3, <4>1, NextVersion DEF Row
      <3>2. project'[p] # project[p] /\ project'[p] # NoRow
        BY <3>1, StoreAssumption
      <3> QED
        BY <1>1, <2>3, <3>1, <3>2 DEF Happened, Exists, IsActive
    <2>4. CASE /\ IsActive(project, p)
               /\ project'[p] = [project[p] EXCEPT !.status = "ARCHIVED", !.version = @ + 1]
               /\ outcome[s][p] = "archived"
      <3>1. project'[p] \in Row /\ project'[p].status = "ARCHIVED"
        BY <2>0, <2>1, <2>4, NextVersion DEF Row
      <3> QED
        BY <1>1, <2>4, <3>1 DEF Happened, Exists, IsActive
    <2> QED
      BY <1>1, <2>2, <2>3, <2>4, CommitByRow
  <1>2. CASE ~Exists(project, p)
    <2>1. declared[s].content[p] \in Contents
      BY InputAssumption DEF IInv, TypeOK, Declaration
    <2>2. CASE project'[p] = project[p] /\ p \notin declared[s].names /\ outcome[s][p] = "none"
      BY <1>2, <2>2 DEF Happened, Exists, IsActive
    <2>3. CASE /\ project'[p] = [status |-> "ACTIVE", content |-> declared[s].content[p],
                                 version |-> 1, seen |-> 0]
               /\ outcome[s][p] = "inserted"
      <3>1. project'[p] \in Row
        BY <2>1, <2>3 DEF Row
      <3>2. Exists(project', p)
        BY <3>1, StoreAssumption DEF Exists
      <3> QED
        BY <1>2, <2>3, <3>2 DEF Happened, IsActive
    <2> QED
      BY <1>2, <2>2, <2>3, CommitByRow DEF IsActive
  <1> QED
    BY <1>1, <1>2

\* The grants a commit adds, removes and keeps are those it planned, and what
\* is stored then is what was declared.
LEMMA CommitGrantRows ==
  ASSUME IInv, NEW s \in Syncs, Commit(s)
  PROVE  /\ GrantRows(declared[s].level) = GrantRows(project_grant')
         /\ NewGrants(s) = GrantRows(project_grant') \ GrantRows(project_grant)
         /\ Revoked(declared[s], view_grant[s])
              = GrantRows(project_grant) \ GrantRows(project_grant')
         /\ UnchangedGrants(s) = {pt \in GrantRows(project_grant) :
                                    project_grant'[pt[1]][pt[2]] = project_grant[pt[1]][pt[2]]}
  <1>1. view_grant[s] = project_grant
    BY DEF IInv, ViewIsCurrent, Commit, HasReadView
  <1>2. \A pt \in Paths \X Teams : project_grant'[pt[1]][pt[2]] = declared[s].level[pt[1]][pt[2]]
    BY CommitGrants
  <1>3. GrantRows(declared[s].level) = GrantRows(project_grant')
    BY <1>2 DEF GrantRows
  <1>4. /\ NewGrants(s) = GrantRows(project_grant') \ GrantRows(project_grant)
        /\ Revoked(declared[s], view_grant[s])
             = GrantRows(project_grant) \ GrantRows(project_grant')
    BY <1>1, <1>2 DEF NewGrants, Revoked, GrantRows
  <1>5. UnchangedGrants(s) = {pt \in GrantRows(project_grant) :
                                project_grant'[pt[1]][pt[2]] = project_grant[pt[1]][pt[2]]}
    BY <1>1, <1>2 DEF UnchangedGrants, GrantRows
  <1> QED
    BY <1>3, <1>4, <1>5

\* An OK answer counts what its commit did (SyncProjectsResponse).
THEOREM CountsNeverLie == Spec => CountsAreTrue
  <1>1. ASSUME IInv, [Next]_vars, NEW r \in Syncs PROVE AnswerCounts(r)
    <2>0. /\ answer \in [Txs -> Statuses] /\ r \in Txs /\ \A f \in Flushes : r # f
      BY <1>1, CallAssumption DEF IInv, TypeOK, Txs
    <2>1. ASSUME NEW s \in Syncs, RollsBackSync(s) PROVE AnswerCounts(r)
      BY <2>0, <2>1 DEF RollsBackSync, RollbackSync, EndSync, AnswerCounts
    <2>2. ASSUME NEW s \in Syncs,
                 Begin(s) \/ LockSentinel(s) \/ ReadAndPlan(s) \/ WriteGrants(s)
          PROVE  AnswerCounts(r)
      BY <2>2 DEF Begin, LockSentinel, ReadAndPlan, WriteGrants, AnswerCounts
    <2>3. ASSUME NEW s \in Syncs, NEW p \in Paths,
                 Inserts(s, p) \/ Overwrite(s, p) \/ Leave(s, p) \/ Archive(s, p)
          PROVE  AnswerCounts(r)
      BY <2>3 DEF Inserts, Insert, Overwrite, Leave, Archive, Write, AnswerCounts
    <2>4. ASSUME NEW s \in Syncs, Commit(s) PROVE AnswerCounts(r)
      <3>1. CASE r = s
        BY <1>1, <2>4, <3>1, CommitHappened, CommitGrantRows DEF AnswerCounts
      <3>2. CASE r # s
        BY <2>0, <2>4, <3>2 DEF Commit, EndSync, AnswerCounts
      <3> QED
        BY <3>1, <3>2
    <2>5. ASSUME NEW f \in Flushes, RollsBackFlush(f) \/ CommitFlush(f) PROVE AnswerCounts(r)
      BY <2>0, <2>5 DEF RollsBackFlush, RollbackFlush, CommitFlush, EndFlush, AnswerCounts
    <2>6. ASSUME NEW f \in Flushes, BeginFlush(f) \/ Count(f) \/ \E p \in Paths : Touch(f, p)
          PROVE  AnswerCounts(r)
      BY <2>6 DEF BeginFlush, Count, Touch, AnswerCounts
    <2>7. CASE UNCHANGED vars
      BY <2>7 DEF vars, AnswerCounts
    <2> QED
      BY <1>1, <2>1, <2>2, <2>3, <2>4, <2>5, <2>6, <2>7, StepCases
  <1>2. IInv /\ [Next]_vars => [\A s \in Syncs : AnswerCounts(s)]_vars
    BY <1>1
  <1> QED
    BY <1>2, Invariance, PTL DEF Spec, CountsAreTrue

(***************************************************************************)
(*                                Deadlocks                                 *)
(***************************************************************************)
\* A sync that holds a row has its read view.
RowsOfWriters == \A s \in Syncs : \A p \in Paths : row_lock[p] = s => HasReadView(s)

\* A sync takes rows after its reads, and gives all of them back when it ends.
LEMMA RowsOfWritersNext == IInv /\ RowsOfWriters /\ [Next]_vars => RowsOfWriters'
  <1> SUFFICES ASSUME IInv, RowsOfWriters, [Next]_vars,
                      NEW r \in Syncs, NEW q \in Paths, row_lock'[q] = r
               PROVE  pc'[r] \in {"write", "commit"}
    BY DEF RowsOfWriters, HasReadView
  <1>0. /\ pc \in [Syncs -> SyncPc] /\ row_lock \in [Paths -> Txs \union {NoTx}]
        /\ r # NoTx
        /\ \A f \in Flushes : r # f
        /\ row_lock[q] = r => pc[r] \in {"write", "commit"}
    BY CallAssumption DEF IInv, TypeOK, Txs, RowsOfWriters, HasReadView
  <1>1. ASSUME NEW s \in Syncs, RollsBackSync(s) \/ Commit(s)
        PROVE  pc'[r] \in {"write", "commit"}
    <2>1. pc' = [pc EXCEPT ![s] = "done"] /\ ReleaseRows(s)
      BY <1>1 DEF RollsBackSync, RollbackSync, Commit, EndSync
    <2>2. r # s /\ row_lock[q] = r
      BY <1>0, <2>1 DEF ReleaseRows
    <2> QED
      BY <1>0, <2>1, <2>2
  <1>2. ASSUME NEW s \in Syncs, Begin(s) \/ LockSentinel(s) \/ ReadAndPlan(s)
        PROVE  pc'[r] \in {"write", "commit"}
    <2>1. /\ row_lock' = row_lock /\ pc[s] \in {"idle", "lock", "read"}
          /\ \E label \in {"lock", "read", "write"} : pc' = [pc EXCEPT ![s] = label]
      BY <1>2 DEF Begin, LockSentinel, ReadAndPlan
    <2> QED
      BY <1>0, <2>1
  <1>3. ASSUME NEW s \in Syncs, NEW p \in Paths, Inserts(s, p) \/ Overwrite(s, p) \/ Archive(s, p)
        PROVE  pc'[r] \in {"write", "commit"}
    <2>1. TakeRow(s, p) /\ pc' = pc /\ pc[s] = "write"
      BY <1>3 DEF Inserts, Insert, Overwrite, Archive, Untreated, Write
    <2> QED
      BY <1>0, <2>1 DEF TakeRow
  <1>4. ASSUME NEW s \in Syncs, NEW p \in Paths, Leave(s, p) PROVE pc'[r] \in {"write", "commit"}
    BY <1>0, <1>4 DEF Leave
  <1>5. ASSUME NEW s \in Syncs, WriteGrants(s) PROVE pc'[r] \in {"write", "commit"}
    <2>1. /\ row_lock'[q] \in {s, row_lock[q]}
          /\ pc[s] = "write" /\ pc' = [pc EXCEPT ![s] = "commit"]
      BY <1>5 DEF WriteGrants
    <2> QED
      BY <1>0, <2>1
  <1>6. ASSUME NEW f \in Flushes, RollsBackFlush(f) \/ CommitFlush(f)
        PROVE  pc'[r] \in {"write", "commit"}
    <2>1. pc' = pc /\ ReleaseRows(f)
      BY <1>6 DEF RollsBackFlush, RollbackFlush, CommitFlush, EndFlush
    <2> QED
      BY <1>0, <2>1 DEF ReleaseRows
  <1>7. ASSUME NEW f \in Flushes, BeginFlush(f) \/ Count(f) PROVE pc'[r] \in {"write", "commit"}
    BY <1>0, <1>7 DEF BeginFlush, Count, sync_vars
  <1>8. ASSUME NEW f \in Flushes, NEW p \in Paths, Touch(f, p) PROVE pc'[r] \in {"write", "commit"}
    <2>1. pc' = pc /\ (TakeRow(f, p) \/ row_lock' = row_lock)
      BY <1>8 DEF Touch, sync_vars
    <2> QED
      BY <1>0, <2>1 DEF TakeRow
  <1>9. CASE UNCHANGED vars
    BY <1>0, <1>9 DEF vars
  <1> QED
    BY <1>1, <1>2, <1>3, <1>4, <1>5, <1>6, <1>7, <1>8, <1>9, StepCases

\* A sync that waits for syncs only waits for the sentinel: any row it meets
\* is held by the holder of the sentinel, and that is itself.
LEMMA WaitsForTheSentinel ==
  ASSUME IInv, RowsOfWriters, NEW s \in Syncs, Blocked(s), WaitsFor(s) \subseteq Syncs
  PROVE  pc[s] = "lock" /\ sync_lock \in WaitsFor(s)
  <1>1. CASE pc[s] = "lock"
    <2>1. Wanted(s) = {}
      BY <1>1 DEF Wanted
    <2> QED
      BY <1>1, <2>1 DEF Blocked, WaitsFor
  <1>2. CASE pc[s] # "lock"
    <2>1. PICK p \in Wanted(s) : ~Free(s, p) /\ row_lock[p] \in WaitsFor(s)
      BY <1>2 DEF Blocked, WaitsFor
    <2>2. p \in Paths /\ pc[s] = "write"
      BY <2>1, InputAssumption
      DEF Wanted, IInv, TypeOK, Admissible, Declaration, ToArchive, ActiveRows, ParentsOfNewGrants,
          NewGrants, GrantRows
    <2>3. sync_lock = s
      BY <2>2 DEF IInv, SentinelHeld
    <2>4. row_lock[p] \in Syncs /\ row_lock[p] # s
      BY <2>1 DEF Free
    <2>5. sync_lock = row_lock[p]
      BY <2>2, <2>4 DEF RowsOfWriters, HasReadView, IInv, SentinelHeld
    <2> QED
      BY <2>3, <2>4, <2>5
  <1> QED
    BY <1>1, <1>2

\* Concurrent syncs of any declarations, in whatever order each writes its
\* rows, never deadlock with each other: "Two syncs serialise on it" (sync.rs).
THEOREM SyncsDoNotDeadlock == Spec => []SyncsNeverDeadlock
  <1>1. Init => RowsOfWriters
    BY CallAssumption DEF Init, RowsOfWriters, Txs
  <1>2. IInv /\ RowsOfWriters /\ [Next]_vars => RowsOfWriters'
    BY RowsOfWritersNext
  <1>3. IInv /\ RowsOfWriters => SyncsNeverDeadlock
    <2> SUFFICES ASSUME IInv, RowsOfWriters, NEW cycle \in SUBSET Syncs, NEW s \in cycle,
                        \A t \in cycle : Blocked(t) /\ WaitsFor(t) \subseteq cycle
                 PROVE  FALSE
      BY DEF SyncsNeverDeadlock
    <2>1. sync_lock \in cycle
      BY WaitsForTheSentinel
    <2>2. pc[sync_lock] = "lock"
      BY <2>1, WaitsForTheSentinel
    <2> QED
      BY <2>1, <2>2 DEF IInv, SentinelHeld
  <1> QED
    BY <1>1, <1>2, <1>3, Invariance, PTL DEF Spec

=============================================================================
