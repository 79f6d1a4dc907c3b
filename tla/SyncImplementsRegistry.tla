----------------------- MODULE SyncImplementsRegistry -----------------------
(***************************************************************************)
(* SyncProjects implements Registry: "One RPC is one transaction (D5)",    *)
(* for every set of calls, declarations and initial stores.                *)
(***************************************************************************)
EXTENDS SyncProjectsProofs

\* The calls as Registry sees them.
CallOf == [x \in Txs |-> IF x \in Syncs THEN CallState(pc[x]) ELSE CallState(fpc[x])]

\* What a step does to the calls, told of the one whose program counter moves.
LEMMA SyncCall ==
  ASSUME NEW s \in Syncs, NEW label, TypeOK, pc' = [pc EXCEPT ![s] = label], fpc' = fpc
  PROVE  CallOf' = [CallOf EXCEPT ![s] = CallState(label)]
  <1>1. \A x \in Syncs : pc'[x] = IF x = s THEN label ELSE pc[x]
    BY DEF TypeOK
  <1>2. CallOf' = [x \in Txs |-> IF x \in Syncs THEN CallState(pc'[x]) ELSE CallState(fpc'[x])]
    BY DEF CallOf
  <1>3. [CallOf EXCEPT ![s] = CallState(label)]
          = [x \in Txs |-> IF x = s THEN CallState(label) ELSE CallOf[x]]
    BY DEF CallOf
  <1>4. \A x \in Txs : (IF x \in Syncs THEN CallState(pc'[x]) ELSE CallState(fpc'[x]))
                         = IF x = s THEN CallState(label) ELSE CallOf[x]
    BY <1>1 DEF CallOf
  <1> QED
    BY <1>2, <1>3, <1>4, Zenon

\* The same of a flush.
LEMMA FlushCall ==
  ASSUME NEW f \in Flushes, NEW label, TypeOK, fpc' = [fpc EXCEPT ![f] = label], pc' = pc
  PROVE  CallOf' = [CallOf EXCEPT ![f] = CallState(label)]
  <1>1. \A x \in Flushes : fpc'[x] = IF x = f THEN label ELSE fpc[x]
    BY DEF TypeOK
  <1>2. CallOf' = [x \in Txs |-> IF x \in Syncs THEN CallState(pc'[x]) ELSE CallState(fpc'[x])]
    BY DEF CallOf
  <1>3. f \notin Syncs /\ \A x \in Txs : x \notin Syncs => x \in Flushes
    BY CallAssumption DEF Txs
  <1>4. [CallOf EXCEPT ![f] = CallState(label)]
          = [x \in Txs |-> IF x = f THEN CallState(label) ELSE CallOf[x]]
    BY DEF CallOf
  <1>5. \A x \in Txs : (IF x \in Syncs THEN CallState(pc'[x]) ELSE CallState(fpc'[x]))
                         = IF x = f THEN CallState(label) ELSE CallOf[x]
    BY <1>1, <1>3 DEF CallOf
  <1> QED
    BY <1>2, <1>4, <1>5, Zenon

\* The end of a call is the answer Registry gives it.
LEMMA SyncAnswers ==
  ASSUME TypeOK, NEW s \in Syncs, NEW a, NEW e, EndSync(s, a, e)
  PROVE  Promise!Answer(s, a)
  <1>1. CallOf' = [CallOf EXCEPT ![s] = "answered"]
    BY SyncCall DEF EndSync, flush_vars, CallState
  <1> QED
    BY <1>1 DEF EndSync, Promise!Answer, CallOf

\* The end of a flush is the answer Registry gives it, too.
LEMMA FlushAnswers ==
  ASSUME TypeOK, NEW f \in Flushes, NEW a, NEW e, EndFlush(f, a, e)
  PROVE  Promise!Answer(f, a)
  <1>1. CallOf' = [CallOf EXCEPT ![f] = "answered"]
    BY FlushCall DEF EndFlush, CallState
  <1> QED
    BY <1>1 DEF EndFlush, Promise!Answer, CallOf

\* The statuses of a call that had no effect.
Failures == {"permission_denied", "invalid_argument", "unavailable",
             "deadline_exceeded", "aborted", "internal", "gone"}

\* sql::internal answers one of them.
LEMMA InternalFails == \A e : Internal(e) \in Failures
  BY DEF Internal, Failures

\* A call that is rolled back before its end had no effect.
LEMMA RollbackHasNoEffect ==
  ASSUME TypeOK, NEW x \in Txs, NEW a \in Failures, NEW e,
         \/ x \in Syncs /\ pc[x] # "done" /\ RollbackSync(x, a, e)
         \/ x \in Flushes /\ fpc[x] # "done" /\ RollbackFlush(x, a, e)
  PROVE  Promise!NoEffect(x)
  <1>1. CASE x \in Syncs /\ pc[x] # "done" /\ RollbackSync(x, a, e)
    <2>1. Promise!Answer(x, a)
      BY <1>1, SyncAnswers DEF RollbackSync
    <2>2. CallOf[x] # "answered"
      BY <1>1 DEF CallOf, CallState
    <2> QED
      BY <1>1, <2>1, <2>2 DEF Promise!NoEffect, CallOf, Failures, RollbackSync, store_vars
  <1>2. CASE x \in Flushes /\ fpc[x] # "done" /\ RollbackFlush(x, a, e)
    <2>1. Promise!Answer(x, a)
      BY <1>2, FlushAnswers DEF RollbackFlush
    <2>2. CallOf[x] # "answered"
      BY <1>2, CallAssumption DEF CallOf, CallState
    <2> QED
      BY <1>2, <2>1, <2>2 DEF Promise!NoEffect, CallOf, Failures, RollbackFlush, EndFlush
  <1> QED
    BY <1>1, <1>2

\* The rows to archive are those the converged store no longer has active.
LEMMA ArchivedRows ==
  ASSUME NEW d \in Declaration, NEW rows \in ProjectTable
  PROVE  Promise!Archived(rows, Promise!Converged(d, rows)) = ToArchive(d, rows)
  <1> DEFINE after == Promise!Converged(d, rows)
  <1>1. ASSUME NEW p \in Paths, IsActive(rows, p)
        PROVE  IsActive(after, p) <=> p \in d.names
    <2>0. rows[p] \in Row /\ d.content[p] \in Contents /\ rows[p].status = "ACTIVE"
      BY <1>1 DEF ProjectTable, IsActive, Exists, Declaration
    <2>1. after[p] = Promise!ConvergedRow(d, rows, p)
      BY DEF Promise!Converged
    <2>2. CASE p \in d.names
      <3>1. \/ after[p] = rows[p]
            \/ after[p] = [rows[p] EXCEPT !.status = "ACTIVE", !.content = d.content[p], !.version = @ + 1]
        BY <1>1, <2>1, <2>2 DEF Promise!ConvergedRow, Promise!Exists, Promise!IsActive, IsActive, Exists
      <3>2. after[p] \in Row /\ after[p].status = "ACTIVE"
        <4>1. CASE after[p] = rows[p]
          BY <2>0, <4>1
        <4>2. CASE after[p] = [rows[p] EXCEPT !.status = "ACTIVE", !.content = d.content[p], !.version = @ + 1]
          <5>1. rows[p].version + 1 \in Nat \ {0}
            BY <2>0, NextVersion
          <5>2. after[p] \in Row
            BY <2>0, <4>2, <5>1 DEF Row
          <5>3. after[p].status = "ACTIVE"
            BY <2>0, <4>2 DEF Row
          <5> QED
            BY <5>2, <5>3
        <4> QED
          BY <3>1, <4>1, <4>2
      <3> QED
        BY <2>2, <3>2, StoreAssumption DEF IsActive, Exists
    <2>3. CASE p \notin d.names
      <3>1. after[p] = [rows[p] EXCEPT !.status = "ARCHIVED", !.version = @ + 1]
        BY <1>1, <2>1, <2>3 DEF Promise!ConvergedRow, Promise!Exists, Promise!IsActive, IsActive, Exists
      <3>2. after[p].status = "ARCHIVED"
        BY <2>0, <3>1 DEF Row
      <3> QED
        BY <2>3, <3>2 DEF IsActive
    <2> QED
      BY <2>2, <2>3
  <1> QED
    BY <1>1 DEF Promise!Archived, Promise!ActiveRows, Promise!IsActive, Promise!Exists,
                ToArchive, ActiveRows, IsActive, Exists

\* Registry counts as SyncProjects does.
LEMMA SameCardinality == \A S : Promise!Cardinality(S) = Cardinality(S)
  BY DEF Promise!Cardinality, Cardinality

\* What a sync refuses is what Registry does not permit.
LEMMA RefusedIffNotPermitted ==
  ASSUME NEW d \in Declaration, NEW rows \in ProjectTable, NEW g \in GrantTable
  PROVE  /\ Refusal(d, rows, g) = "none" <=> Promise!Permitted(d, rows, g)
         /\ Refusal(d, rows, g) # "none" =>
              Refusal(d, rows, g) = IF d.names \intersect Aliases # {}
                                    THEN "already_exists" ELSE "failed_precondition"
  <1>1. OnFormerPath(d) <=> d.names \intersect Aliases # {}
    BY DEF OnFormerPath
  <1>2. MassArchive(d, rows) <=>
          ~(~d.allow_mass_archive =>
              2 * Cardinality(Promise!Archived(rows, Promise!Converged(d, rows)))
                <= Cardinality(Promise!ActiveRows(rows)))
    <2>1. Promise!ActiveRows(rows) = ActiveRows(rows)
      BY DEF Promise!ActiveRows, Promise!IsActive, Promise!Exists, ActiveRows, IsActive, Exists
    <2>2. IsFiniteSet(ActiveRows(rows)) /\ IsFiniteSet(ToArchive(d, rows))
      BY StoreAssumption, FS_Subset DEF ActiveRows, ToArchive
    <2>3. Cardinality(ActiveRows(rows)) \in Nat /\ Cardinality(ToArchive(d, rows)) \in Nat
      BY <2>2, FS_CardinalityType
    <2> QED
      BY <2>1, <2>3, ArchivedRows DEF MassArchive
  <1>3. MassRevoke(d, g) <=>
          ~(~d.allow_mass_revoke =>
              2 * Cardinality(Promise!GrantRows(g) \ Promise!GrantRows(d.level))
                <= Cardinality(Promise!GrantRows(g)))
    <2>1. /\ Promise!GrantRows(g) = GrantRows(g)
          /\ Promise!GrantRows(g) \ Promise!GrantRows(d.level) = Revoked(d, g)
      BY DEF Promise!GrantRows, Promise!NoGrant, GrantRows, NoGrant, Revoked
    <2>2. IsFiniteSet(Paths \X Teams)
      BY StoreAssumption, FS_Product
    <2>3. IsFiniteSet(GrantRows(g)) /\ IsFiniteSet(Revoked(d, g))
      BY <2>2, FS_Subset DEF GrantRows, Revoked
    <2>4. Cardinality(GrantRows(g)) \in Nat /\ Cardinality(Revoked(d, g)) \in Nat
      BY <2>3, FS_CardinalityType
    <2> QED
      BY <2>1, <2>4 DEF MassRevoke
  <1>4. Promise!Permitted(d, rows, g)
          <=> ~OnFormerPath(d) /\ ~MassArchive(d, rows) /\ ~MassRevoke(d, g)
    BY <1>1, <1>2, <1>3, SameCardinality DEF Promise!Permitted
  <1> QED
    BY <1>1, <1>4 DEF Refusal

\* A sync's commit is Registry's Sync: the draft of a store that did not
\* change underneath it is the converged store.
LEMMA CommitIsSync ==
  ASSUME IInv, NEW s \in Syncs, Commit(s)
  PROVE  Promise!Sync(s)
  <1>0. /\ declared[s] \in Declaration /\ project \in ProjectTable /\ project_grant \in GrantTable
        /\ view[s] \in ProjectTable /\ pc[s] = "commit" /\ HasReadView(s)
    BY InputAssumption DEF IInv, TypeOK, Commit, HasReadView
  <1>1. CallOf[s] = "open"
    BY <1>0 DEF CallOf, CallState, Txs
  <1>2. Promise!Permitted(declared[s], project, project_grant)
    <2>1. /\ Refusal(declared[s], view[s], view_grant[s]) = "none"
          /\ view_grant[s] = project_grant
          /\ \A p \in Paths : SameOrgColumns(view[s][p], project[p])
      BY <1>0 DEF IInv, SyncsAreDecided, ViewIsCurrent
    <2>2. ActiveRows(view[s]) = ActiveRows(project)
      BY <2>1, SameActivity DEF ActiveRows
    <2>3. Refusal(declared[s], project, project_grant) = "none"
      BY <2>1, <2>2 DEF Refusal, MassArchive, ToArchive
    <2> QED
      BY <1>0, <2>3, RefusedIffNotPermitted
  <1>3. project' = Promise!Converged(declared[s], project)
    <2>1. ASSUME NEW p \in Paths PROVE project'[p] = Promise!ConvergedRow(declared[s], project, p)
      BY CommitByRow
      DEF Promise!ConvergedRow, Promise!Exists, Promise!IsActive, IsActive, Exists
    <2>2. project' = [p \in Paths |-> project'[p]]
      BY DEF Commit
    <2> QED
      BY <2>1, <2>2 DEF Promise!Converged
  <1>4. project_grant' = declared[s].level
    <2>1. project_grant' \in GrantTable /\ declared[s].level \in GrantTable
      BY <1>0, CommitStores DEF IInv, Declaration, GrantTable
    <2>2. \A p \in Paths : \A t \in Teams : project_grant'[p][t] = declared[s].level[p][t]
      BY CommitGrants
    <2>3. \A p \in Paths : project_grant'[p] = declared[s].level[p]
      BY <2>1, <2>2 DEF GrantTable
    <2> QED
      BY <2>1, <2>3 DEF GrantTable
  <1>5. \E a \in {"ok", "internal", "gone"} : EndSync(s, a, 0) \/ EndSync(s, a, LostConnection)
    BY DEF Commit, Internal, LockWaitTimeout, Deadlock, LostConnection
  <1>6. \E a \in {"ok", "internal", "gone"} : Promise!Answer(s, a)
    BY <1>5, SyncAnswers DEF IInv
  <1> QED
    BY <1>1, <1>2, <1>3, <1>4, <1>6 DEF Promise!Sync, CallOf

\* A flush's commit is Registry's Touch, of the rows it rewrote.
LEMMA CommitFlushIsTouch ==
  ASSUME IInv, NEW f \in Flushes, CommitFlush(f)
  PROVE  Promise!Touch(f)
  <1>1. CallOf[f] = "open"
    BY CallAssumption DEF CommitFlush, CallOf, CallState, Txs
  <1>2. touched[f] \in SUBSET Promise!Reached(flush[f].names)
    BY DEF IInv, TouchesAreHeld, Targets, Reached, Promise!Reached
  <1>3. project' = Promise!Advanced(project, touched[f], flush[f].seen_at)
    BY DEF IInv, KnownRows, TouchesAreHeld, CommitFlush, Promise!Advanced, Promise!Exists, Exists
  <1>4. project_grant' = project_grant
    BY DEF CommitFlush, EndFlush
  <1>5. \E a \in {"ok", "internal", "gone"} : EndFlush(f, a, 0) \/ EndFlush(f, a, LostConnection)
    BY DEF CommitFlush, Internal, LockWaitTimeout, Deadlock, LostConnection
  <1>6. \E a \in {"ok", "internal", "gone"} : Promise!Answer(f, a)
    BY <1>5, FlushAnswers DEF IInv
  <1> QED
    BY <1>1, <1>2, <1>3, <1>4, <1>6 DEF Promise!Touch, CallOf

\* The initial states are Registry's.
LEMMA InitImplements == Init => Promise!Init
  <1>1. Init => CallOf = [c \in Txs |-> "idle"]
    BY DEF Init, CallOf, CallState, Txs
  <1> QED
    BY <1>1 DEF Init, Promise!Init, Promise!Calls, CallOf, Txs

\* Every step of the code is a step of Registry or none: the statements of a
\* sync and a flush change nothing there but the first and the last.
LEMMA StepImplements == IInv /\ [Next]_vars => [Promise!Next]_(Promise!vars)
  <1> SUFFICES ASSUME IInv, [Next]_vars PROVE [Promise!Next]_(Promise!vars)
    OBVIOUS
  <1>0. TypeOK
    BY DEF IInv
  <1> USE InternalFails
  <1> DEFINE Stutters == UNCHANGED <<project, project_grant, CallOf, declared, flush, answer>>
  <1>a. Stutters => UNCHANGED Promise!vars
    BY DEF Promise!vars, CallOf
  <1>b. ASSUME NEW x \in Txs, Promise!NoEffect(x) PROVE Promise!Next
    BY <1>b DEF Promise!Next, Promise!Calls, Txs
  <1>c. ASSUME NEW s \in Syncs, NEW label \in {"read", "write", "commit"},
               pc[s] \in {"lock", "read", "write"}, pc' = [pc EXCEPT ![s] = label],
               UNCHANGED <<fpc, project, project_grant, declared, flush, answer>>
        PROVE  Stutters
    <2>1. CallOf' = [CallOf EXCEPT ![s] = "open"]
      BY <1>0, <1>c, SyncCall DEF CallState
    <2>2. CallOf[s] = "open"
      BY <1>c DEF CallOf, CallState, Txs
    <2> QED
      BY <1>c, <2>1, <2>2 DEF CallOf
  <1>1. ASSUME NEW s \in Syncs, TurnAway(s) PROVE Promise!Next
    BY <1>0, <1>1, <1>b, RollbackHasNoEffect DEF TurnAway, Failures, Txs
  <1>2. ASSUME NEW s \in Syncs, Begin(s) PROVE Promise!Next
    <2>0. pc' = [pc EXCEPT ![s] = "lock"] /\ fpc' = fpc
      BY <1>2 DEF Begin, flush_vars
    <2>a. CallOf' = [CallOf EXCEPT ![s] = CallState("lock")]
      BY <1>0, <2>0, SyncCall
    <2>1. CallOf' = [CallOf EXCEPT ![s] = "open"]
      BY <2>a DEF CallState
    <2>2. CallOf[s] = "idle"
      BY <1>2 DEF Begin, CallOf, CallState, Txs
    <2>3. Promise!Open(s)
      BY <1>2, <2>1, <2>2 DEF Promise!Open, Begin, store_vars, CallOf
    <2> QED
      BY <2>3 DEF Promise!Next, Promise!Calls
  <1>3. ASSUME NEW s \in Syncs, LockSentinel(s) \/ ReadAndPlan(s) \/ WriteGrants(s) PROVE Stutters
    BY <1>3, <1>c DEF LockSentinel, ReadAndPlan, WriteGrants, store_vars, flush_vars
  <1>4. ASSUME NEW s \in Syncs, ReadAndRefuse(s) PROVE Promise!Next
    <2>1. /\ declared[s] \in Declaration /\ project \in ProjectTable /\ project_grant \in GrantTable
      BY <1>0, InputAssumption DEF TypeOK
    <2>2. /\ ~Promise!Permitted(declared[s], project, project_grant)
          /\ Refusal(declared[s], project, project_grant) =
               IF declared[s].names \intersect Aliases # {}
               THEN "already_exists" ELSE "failed_precondition"
      BY <1>4, <2>1, RefusedIffNotPermitted DEF ReadAndRefuse
    <2>3. PICK a \in {"already_exists", "failed_precondition"} :
            a = Refusal(declared[s], project, project_grant) /\ EndSync(s, a, 0)
      BY <1>4, <2>2 DEF ReadAndRefuse, RollbackSync
    <2>5. Promise!Answer(s, a)
      BY <1>0, <2>3, SyncAnswers
    <2>4. CallOf[s] = "open"
      BY <1>4 DEF ReadAndRefuse, CallOf, CallState, Txs
    <2>6. UNCHANGED <<project, project_grant>>
      BY <1>4 DEF ReadAndRefuse, RollbackSync, store_vars
    <2>7. Promise!Refuse(s)
      BY <2>2, <2>3, <2>4, <2>5, <2>6 DEF Promise!Refuse, Promise!Answer, CallOf
    <2> QED
      BY <2>7 DEF Promise!Next
  <1>5. ASSUME NEW s \in Syncs, NEW p \in Paths, Insert(s, p)
        PROVE  Promise!Next \/ Stutters
    <2>1. CASE Exists(project, p)
      BY <1>0, <1>5, <1>b, <2>1, RollbackHasNoEffect DEF Insert, Untreated, Txs
    <2>2. CASE ~Exists(project, p)
      BY <1>5, <2>2 DEF Insert, Write, store_vars, flush_vars, CallOf
    <2> QED
      BY <2>1, <2>2
  <1>6. ASSUME NEW s \in Syncs, NEW p \in Paths, Overwrite(s, p) \/ Leave(s, p) \/ Archive(s, p)
        PROVE  Stutters
    BY <1>6 DEF Overwrite, Leave, Archive, Write, store_vars, flush_vars, CallOf
  <1>7. ASSUME NEW s \in Syncs, NEW p \in Paths, UpdateFails(s, p) PROVE Promise!Next
    BY <1>0, <1>7, <1>b, RollbackHasNoEffect DEF UpdateFails, Untreated, Txs
  <1>8. ASSUME NEW s \in Syncs, WriteGrantsFails(s) PROVE Promise!Next
    BY <1>0, <1>8, <1>b, RollbackHasNoEffect DEF WriteGrantsFails, Txs
  <1>9. ASSUME NEW s \in Syncs, Commit(s) PROVE Promise!Next
    BY <1>9, CommitIsSync DEF Promise!Next
  <1>10. ASSUME NEW s \in Syncs, AbandonSync(s) PROVE Promise!Next
    BY <1>0, <1>10, <1>b, RollbackHasNoEffect DEF AbandonSync, InTransaction, Failures, Txs
  <1>11. ASSUME NEW f \in Flushes, TurnAwayFlush(f) \/ AbandonFlush(f) PROVE Promise!Next
    BY <1>0, <1>11, <1>b, RollbackHasNoEffect DEF TurnAwayFlush, AbandonFlush, Failures, Txs
  <1>12. ASSUME NEW f \in Flushes, BeginFlush(f) PROVE Promise!Next
    <2>0. fpc' = [fpc EXCEPT ![f] = "update"] /\ pc' = pc
      BY <1>12 DEF BeginFlush, sync_vars
    <2>a. CallOf' = [CallOf EXCEPT ![f] = CallState("update")]
      BY <1>0, <2>0, FlushCall
    <2>1. CallOf' = [CallOf EXCEPT ![f] = "open"]
      BY <2>a DEF CallState
    <2>2. CallOf[f] = "idle"
      BY <1>12, CallAssumption DEF BeginFlush, CallOf, CallState, Txs
    <2>3. Promise!Open(f)
      BY <1>12, <2>1, <2>2 DEF Promise!Open, BeginFlush, store_vars, CallOf
    <2> QED
      BY <2>3 DEF Promise!Next, Promise!Calls
  <1>13. ASSUME NEW f \in Flushes, NEW p \in Paths, Touch(f, p) PROVE Stutters
    BY <1>13 DEF Touch, store_vars, sync_vars, CallOf
  <1>14. ASSUME NEW f \in Flushes, Count(f) PROVE Stutters
    <2>1. CallOf' = [CallOf EXCEPT ![f] = "open"]
      BY <1>0, <1>14, FlushCall DEF Count, sync_vars, CallState
    <2>2. CallOf[f] = "open"
      BY <1>14, CallAssumption DEF Count, CallOf, CallState, Txs
    <2> QED
      BY <1>14, <2>1, <2>2 DEF Count, store_vars, CallOf
  <1>15. ASSUME NEW f \in Flushes, CommitFlush(f) PROVE Promise!Next
    BY <1>15, CommitFlushIsTouch DEF Promise!Next
  <1>16. ASSUME NEW x \in Txs, WaitFails(x) PROVE Promise!Next
    <2>1. CASE x \in Syncs
      <3>1. pc[x] # "done"
        BY <1>16, <2>1 DEF WaitFails, WaitsFor, MeetsGap, Wanted
      <3> QED
        BY <1>0, <1>16, <1>b, <2>1, <3>1, RollbackHasNoEffect DEF WaitFails
    <2>2. CASE x \notin Syncs
      <3>1. x \in Flushes /\ fpc[x] # "done"
        BY <1>16, <2>2 DEF WaitFails, WaitsFor, MeetsGap, Wanted, Txs
      <3> QED
        BY <1>0, <1>16, <1>b, <2>2, <3>1, RollbackHasNoEffect DEF WaitFails
    <2> QED
      BY <2>1, <2>2
  <1>17. CASE UNCHANGED vars
    BY <1>17 DEF vars, Promise!vars
  <1> QED
    BY <1>a, <1>1, <1>2, <1>3, <1>4, <1>5, <1>6, <1>7, <1>8, <1>9, <1>10, <1>11, <1>12, <1>13,
       <1>14, <1>15, <1>16, <1>17
    DEF Next, SyncStep, FlushStep

\* Each SyncProjects and TouchProjects call takes effect at one instant or not
\* at all, and what it leaves is what it declared: "One RPC is one transaction
\* (D5)" (service.rs).
THEOREM OneRpcIsOneTransaction == Spec => ImplementsRegistry
  BY InitImplements, StepImplements, Invariance, PTL DEF Spec, ImplementsRegistry, Promise!Spec
=============================================================================
