----------------------------- MODULE MigrateProofs -----------------------------
(***************************************************************************)
(* Theorems about Migrate: whatever store a release left, however many      *)
(* replicas boot over it and wherever they are killed, no ledger row lies,  *)
(* no replica serves on half a schema or on unclassed rows, and replicas    *)
(* that boot together do not refuse one another's statements.               *)
(***************************************************************************)
EXTENDS Migrate, FiniteSetTheorems, TLAPS

\* A session is at work on the first migration the ledger lacks, and what it
\* passed of that migration is in the schema.
Working(position, versions, parts) ==
  /\ versions = 1..(position[1] - 1)
  /\ \A i \in 1..(position[2] - 1) : all[position[1]][i].makes \subseteq parts

\* That session is the one under the lock, a dead replica's included.
OneAtWork ==
  /\ \A r \in Replicas : pc[r] = "run" => Working(at[r], ledger, schema)
  /\ lock = "orphan" => Working(orphan, ledger, schema)

\* The ledger has no holes.
LedgerHasNoHoles == \E n \in Nat : ledger = 1..n

\* Short of a newer release's store, the schema has nothing this release did not make.
SchemaIsOurs == ledger \subseteq Versions => schema \subseteq Complete

\* A replica that is past its boot has every migration recorded.
PastMeansRecorded ==
  \A r \in Replicas : pc[r] \in {"migrated", "serving"} => ledger = Versions

\* The rows obey the schema.
RowsObey == Obeys(rows, schema)

IInv ==
  /\ TypeOK /\ OneAtWork /\ LedgerHasNoHoles /\ SchemaIsOurs
  /\ PastMeansRecorded /\ LedgerIsTrue /\ RowsObey

\* Until somebody crashes, what a bare CREATE makes is there only if its ledger
\* row is, or is about to be.
BareIsFresh ==
  crashes = 0 =>
    /\ lock # "orphan"
    /\ \A v \in Versions \ ledger, i \in 1..4 :
         /\ i \in DOMAIN all[v] /\ all[v][i].bare /\ all[v][i].makes \cap schema # {}
         => \E r \in Replicas : pc[r] = "run" /\ at[r][1] = v /\ at[r][2] > i

(***************************************************************************)
(*                          What the migrations are                         *)
(***************************************************************************)
\* Seven migrations, of one to three statements.
LEMMA Catalogue ==
  /\ Versions = 1..7
  /\ all[1] = create_project /\ all[2] = project_alias
  /\ all[3] = project_write_idempotency /\ all[4] = pin_the_path_collation
  /\ all[5] = project_sync_lock /\ all[6] = project_class_columns
  /\ all[7] = project_grant
  BY DEF Versions, all

LEMMA Lengths ==
  /\ DOMAIN all[1] = 1..1 /\ Len(all[1]) = 1
  /\ DOMAIN all[2] = 1..1 /\ Len(all[2]) = 1
  /\ DOMAIN all[3] = 1..1 /\ Len(all[3]) = 1
  /\ DOMAIN all[4] = 1..2 /\ Len(all[4]) = 2
  /\ DOMAIN all[5] = 1..2 /\ Len(all[5]) = 2
  /\ DOMAIN all[6] = 1..3 /\ Len(all[6]) = 3
  /\ DOMAIN all[7] = 1..1 /\ Len(all[7]) = 1
  BY Catalogue DEF create_project, project_alias, project_write_idempotency,
                   pin_the_path_collation, project_sync_lock, project_class_columns,
                   project_grant

LEMMA Statements ==
  /\ all[1][1] = Bare({"project", "path_ci", "class_columns", "ck_class", "ck_class_path"})
  /\ all[2][1] = Bare({"project_alias"})
  /\ all[3][1] = Bare({"project_write"})
  /\ all[4][1] = Guarded({"path_ci"}) /\ all[4][2] = Guarded({"alias_ci"})
  /\ all[5][1] = Guarded({"sync_lock"}) /\ all[5][2] = Guarded({"sync_lock_row"})
  /\ all[6][1] = Guarded({"class_columns"}) /\ all[6][2] = Guarded({"ck_class"})
  /\ all[6][3] = Guarded({"ck_class_path"})
  /\ all[7][1] = Guarded({"project_grant"})
  BY Catalogue DEF create_project, project_alias, project_write_idempotency,
                   pin_the_path_collation, project_sync_lock, project_class_columns,
                   project_grant

\* A statement has a place and a shape; only the first three migrations are bare.
LEMMA Shape ==
  \A v \in Versions :
    /\ Len(all[v]) \in 1..3 /\ DOMAIN all[v] = 1..Len(all[v])
    /\ \A i \in 1..Len(all[v]) :
         /\ all[v][i].makes \subseteq Complete
         /\ all[v][i].bare \in BOOLEAN
         /\ all[v][i].bare => v \in 1..3 /\ i = 1
  <1>1. \A v \in Versions : Len(all[v]) \in 1..3 /\ DOMAIN all[v] = 1..Len(all[v])
    BY Catalogue, Lengths
  <1>2. \A v \in Versions : \A i \in DOMAIN all[v] : all[v][i].makes \subseteq Complete
    BY DEF Complete, Effects
  <1>3. \A v \in Versions : \A i \in DOMAIN all[v] :
          all[v][i].bare \in BOOLEAN /\ (all[v][i].bare => v \in 1..3 /\ i = 1)
    <2>1. /\ \A v \in 1..3 : all[v][1].bare = TRUE
          /\ \A v \in 4..5 : all[v][1].bare = FALSE /\ all[v][2].bare = FALSE
          /\ all[6][1].bare = FALSE /\ all[6][2].bare = FALSE /\ all[6][3].bare = FALSE
          /\ all[7][1].bare = FALSE
      BY Statements DEF Bare, Guarded
    <2>2. /\ \A v \in 1..3 : DOMAIN all[v] = 1..1
          /\ \A v \in 4..5 : DOMAIN all[v] = 1..2
          /\ DOMAIN all[6] = 1..3 /\ DOMAIN all[7] = 1..1
      BY Lengths
    <2> SUFFICES ASSUME NEW v \in 1..7, NEW i \in DOMAIN all[v]
                 PROVE  all[v][i].bare \in BOOLEAN /\ (all[v][i].bare => v \in 1..3 /\ i = 1)
      BY Catalogue
    <2>3. CASE v \in 1..3
      <3>1. i = 1
        BY <2>2, <2>3
      <3>2. all[v][i].bare = TRUE
        BY <2>1, <2>3, <3>1
      <3> QED
        BY <2>3, <3>1, <3>2
    <2>4. CASE v \in 4..5
      <3>1. i = 1 \/ i = 2
        BY <2>2, <2>4
      <3>2. all[v][i].bare = FALSE
        BY <2>1, <2>4, <3>1
      <3> QED
        BY <3>2
    <2>5. CASE v \in 6..7
      <3>1. (v = 6 /\ i \in {1, 2, 3}) \/ (v = 7 /\ i = 1)
        BY <2>2, <2>5
      <3>2. all[v][i].bare = FALSE
        BY <2>1, <3>1
      <3> QED
        BY <3>2
    <2> QED
      BY <2>3, <2>4, <2>5
  <1> QED
    BY <1>1, <1>2, <1>3

\* What the migrations that meet in one table make.
LEMMA EffectsAre ==
  /\ Effects(1) = {"project", "path_ci", "class_columns", "ck_class", "ck_class_path"}
  /\ "path_ci" \in Effects(4)
  /\ Effects(6) = {"class_columns", "ck_class", "ck_class_path"}
  BY Lengths, Statements DEF Effects, Bare, Guarded

\* A migration whose every statement was passed has its effects.
LEMMA PassedMakes ==
  ASSUME NEW v \in Versions, NEW parts,
         \A i \in 1..Len(all[v]) : all[v][i].makes \subseteq parts
  PROVE  Effects(v) \subseteq parts
  BY Shape DEF Effects

\* The whole ledger stands for the whole schema.
LEMMA WholeLedger ==
  ASSUME NEW parts, IsTrue(Versions, parts)
  PROVE  Complete \subseteq parts
  <1>1. \A v \in Versions : Effects(v) \subseteq parts
    BY Catalogue DEF IsTrue
  <1> QED
    BY <1>1 DEF Complete

\* A true ledger stays true when parts are added.
LEMMA TrueOfMore ==
  ASSUME NEW versions, NEW parts, NEW more, IsTrue(versions, parts), parts \subseteq more
  PROVE  IsTrue(versions, more)
  BY DEF IsTrue

\* The row of the first migration missing may be written once its effects are there.
LEMMA TrueOfNext ==
  ASSUME NEW v \in Versions, NEW parts, IsTrue(1..(v - 1), parts), Effects(v) \subseteq parts
  PROVE  /\ IsTrue(1..v, parts)
         /\ (1..(v - 1)) \cup {v} = 1..v
  <1>1. v \in 1..7
    BY Catalogue
  <1>2. (1..(v - 1)) \cup {v} = 1..v
    BY <1>1
  <1>3. \A w \in ((1..v) \cap Versions) \ {1} : Effects(w) \subseteq parts
    BY <1>1, <1>2 DEF IsTrue
  <1>4. "project" \in parts
    <2>1. CASE v = 1
      BY <2>1, EffectsAre
    <2>2. CASE v # 1
      BY <1>1, <2>2 DEF IsTrue
    <2> QED
      BY <2>1, <2>2
  <1>5. {1, 6} \subseteq 1..v => Effects(1) \subseteq parts
    <2> SUFFICES ASSUME 6 \in 1..v PROVE Effects(1) \subseteq parts
      BY <1>1
    <2>1. Effects(4) \subseteq parts /\ Effects(6) \subseteq parts
      BY <1>1, <1>3, Catalogue
    <2> QED
      BY <1>4, <2>1, EffectsAre
  <1> QED
    BY <1>2, <1>3, <1>4, <1>5 DEF IsTrue

\* Places in a migration.
LEMMA Places ==
  /\ \A v \in Versions : <<v, 1>> \in Position /\ ~IsRecord(<<v, 1>>)
  /\ \A p \in Position :
       /\ p = <<p[1], p[2]>> /\ p[1] \in Versions /\ p[2] \in 1..4 /\ p[1] \in Nat
       /\ IsRecord(p) => p[2] = Len(all[p[1]]) + 1
       /\ ~IsRecord(p) => p[2] \in 1..Len(all[p[1]]) /\ Following(p) \in Position
  <1>1. \A v \in Versions : <<v, 1>> \in Position /\ ~IsRecord(<<v, 1>>)
    BY Shape DEF Position, IsRecord
  <1>2. ASSUME NEW p \in Position
        PROVE  /\ p = <<p[1], p[2]>> /\ p[1] \in Versions /\ p[2] \in 1..4 /\ p[1] \in Nat
               /\ IsRecord(p) => p[2] = Len(all[p[1]]) + 1
               /\ ~IsRecord(p) => p[2] \in 1..Len(all[p[1]]) /\ Following(p) \in Position
    <2>1. p = <<p[1], p[2]>> /\ p[1] \in Versions /\ p[2] \in 1..4 /\ p[1] \in Nat
      BY Catalogue DEF Position
    <2>2. p[2] <= Len(all[p[1]]) + 1 /\ Len(all[p[1]]) \in 1..3
      BY <2>1, Shape DEF Position
    <2>3. IsRecord(p) => p[2] = Len(all[p[1]]) + 1
      BY <2>1, <2>2 DEF IsRecord
    <2>4. ~IsRecord(p) => p[2] \in 1..Len(all[p[1]])
      BY <2>1, <2>2 DEF IsRecord
    <2>5. ~IsRecord(p) => Following(p) \in Position
      <3> SUFFICES ASSUME ~IsRecord(p)
                   PROVE  <<p[1], p[2] + 1>> \in {q \in Versions \X (1..4) : q[2] <= Len(all[q[1]]) + 1}
        BY DEF Following, Position
      <3>1. p[2] + 1 \in 1..4 /\ p[2] + 1 <= Len(all[p[1]]) + 1
        <4> DEFINE i == p[2]
                   n == Len(all[p[1]])
        <4>1. i \in 1..n /\ n \in 1..3
          BY <2>2, <2>4
        <4> HIDE DEF i, n
        <4>2. i + 1 \in 1..4 /\ i + 1 <= n + 1
          BY <4>1
        <4> QED
          BY <4>2 DEF i, n
      <3> QED
        BY <2>1, <3>1
    <2> QED
      BY <2>1, <2>3, <2>4, <2>5
  <1> QED
    BY <1>1, <1>2

(***************************************************************************)
(*                              Type correctness                            *)
(***************************************************************************)
\* The cases of a step.
LEMMA StepCases ==
  ASSUME [Next]_vars
  PROVE  \/ \E r \in Replicas : Boot(r)
         \/ \E r \in Replicas : TakeLock(r)
         \/ \E r \in Replicas : LockTimesOut(r)
         \/ \E r \in Replicas : ReadLedger(r)
         \/ \E r \in Replicas : RunStatement(r)
         \/ \E r \in Replicas : StatementRefused(r)
         \/ \E r \in Replicas : Record(r)
         \/ \E r \in Replicas : Serve(r)
         \/ \E r \in Replicas : Crash(r)
         \/ \E r \in Replicas, p \in Rows : Write(r, p)
         \/ \E p \in Rows : OldWrites(p)
         \/ \E p \in Rows : Settle(p)
         \/ OrphanRuns
         \/ OrphanEnds
         \/ OldEnds
         \/ UNCHANGED vars
  BY DEF Next, BootStep

\* A session that finds migrations pending starts the first of them.
LEMMA FirstPending ==
  ASSUME LedgerHasNoHoles, ledger \subseteq Versions, ledger # Versions
  PROVE  /\ Cardinality(ledger) + 1 \in Versions
         /\ ledger = 1..Cardinality(ledger)
         /\ Cardinality(ledger) \in Nat
  <1>1. PICK n \in Nat : ledger = 1..n
    BY DEF LedgerHasNoHoles
  <1>2. Cardinality(ledger) = n
    BY <1>1, FS_Interval
  <1>3. n < 7
    <2>1. n > 7 => 8 \in ledger
      BY <1>1
    <2>2. n = 7 => ledger = 1..7
      BY <1>1
    <2> QED
      BY <1>1, <2>1, <2>2, Catalogue
  <1> QED
    BY <1>1, <1>2, <1>3, Catalogue

\* Giving the lock back, or not having it, keeps its holder at work and alone.
LEMMA LeaveType ==
  ASSUME TypeOK, NEW r \in Replicas, NEW label \in {"down", "migrated"}, Leave(r, label)
  PROVE  /\ lock' \in Replicas \cup {"free", "orphan"}
         /\ pc' \in [Replicas -> {"down", "lock", "ledger", "run", "migrated", "serving"}]
         /\ \A s \in Replicas : pc'[s] \in {"ledger", "run"} <=> lock' = s
  BY MigrateAssumption DEF TypeOK, Leave, Goto

\* Every step keeps the types, and one session at work.
LEMMA TypeNext == TypeOK /\ LedgerHasNoHoles /\ [Next]_vars => TypeOK'
  <1> SUFFICES ASSUME TypeOK, LedgerHasNoHoles, [Next]_vars PROVE TypeOK'
    OBVIOUS
  <1> USE MigrateAssumption
  <1>1. ASSUME NEW r \in Replicas, Boot(r) \/ LockTimesOut(r) \/ Serve(r) PROVE TypeOK'
    <2>1. CASE Boot(r)
      BY <2>1 DEF TypeOK, Boot, Goto
    <2>2. CASE LockTimesOut(r)
      BY <2>2 DEF TypeOK, LockTimesOut, Goto
    <2>3. CASE Serve(r)
      BY <2>3 DEF TypeOK, Serve, Goto
    <2> QED
      BY <1>1, <2>1, <2>2, <2>3
  <1>2. ASSUME NEW r \in Replicas, TakeLock(r) PROVE TypeOK'
    BY <1>2 DEF TypeOK, TakeLock, Goto
  <1>3. ASSUME NEW r \in Replicas, ReadLedger(r) PROVE TypeOK'
    <2>1. CASE Leave(r, "down") /\ UNCHANGED at
      BY <1>3, <2>1, LeaveType DEF TypeOK, ReadLedger
    <2>2. CASE Leave(r, "migrated") /\ UNCHANGED at
      BY <1>3, <2>2, LeaveType DEF TypeOK, ReadLedger
    <2>3. CASE /\ ledger # Versions /\ ledger \subseteq Versions
               /\ Goto(r, "run")
               /\ at' = [at EXCEPT ![r] = <<Cardinality(ledger) + 1, 1>>]
               /\ UNCHANGED lock
      <3>1. <<Cardinality(ledger) + 1, 1>> \in Position
        BY <2>3, FirstPending, Places
      <3> QED
        BY <1>3, <2>3, <3>1 DEF TypeOK, ReadLedger, Goto
    <2> QED
      BY <1>3, <2>1, <2>2, <2>3 DEF ReadLedger
  <1>4. ASSUME NEW r \in Replicas, RunStatement(r) PROVE TypeOK'
    <2>1. at[r] \in Position /\ ~IsRecord(at[r])
      BY <1>4 DEF TypeOK, RunStatement
    <2>2. Following(at[r]) \in Position /\ StatementAt(at[r]).makes \subseteq Part
      BY <2>1, Places, Shape DEF StatementAt, Part
    <2> QED
      BY <1>4, <2>2 DEF TypeOK, RunStatement
  <1>5. ASSUME NEW r \in Replicas, StatementRefused(r) PROVE TypeOK'
    BY <1>5, LeaveType DEF TypeOK, StatementRefused
  <1>6. ASSUME NEW r \in Replicas, Record(r) PROVE TypeOK'
    <2>1. at[r] \in Position
      BY DEF TypeOK
    <2>2. at[r][1] \in Nat
      BY <2>1, Places
    <2>3. ledger' \subseteq Nat
      BY <1>6, <2>2 DEF TypeOK, Record
    <2>4. CASE at[r][1] + 1 \in Versions /\ at' = [at EXCEPT ![r] = <<at[r][1] + 1, 1>>] /\ UNCHANGED <<pc, lock>>
      <3>1. <<at[r][1] + 1, 1>> \in Position
        BY <2>4, Places
      <3> QED
        BY <1>6, <2>3, <2>4, <3>1 DEF TypeOK, Record
    <2>5. CASE Leave(r, "migrated") /\ UNCHANGED at
      BY <1>6, <2>3, <2>5, LeaveType DEF TypeOK, Record
    <2> QED
      BY <1>6, <2>4, <2>5 DEF Record
  <1>7. ASSUME NEW r \in Replicas, Crash(r) PROVE TypeOK'
    <2>1. crashes' \in 0..MaxCrashes /\ UNCHANGED <<schema, ledger, rows, at, old>>
      BY <1>7 DEF TypeOK, Crash
    <2>2. CASE Leave(r, "down") /\ UNCHANGED orphan
      BY <2>1, <2>2, LeaveType DEF TypeOK
    <2>3. CASE lock = r /\ Goto(r, "down") /\ lock' = "orphan" /\ orphan' = at[r]
      BY <2>1, <2>3 DEF TypeOK, Goto
    <2> QED
      BY <1>7, <2>2, <2>3 DEF Crash
  <1>8. ASSUME NEW p \in Rows, OldWrites(p) \/ Settle(p) \/ \E r \in Replicas : Write(r, p)
        PROVE TypeOK'
    <2>1. PICK class \in Class \cup {"absent", "unclassed"} : rows' = [rows EXCEPT ![p] = class]
      BY <1>8 DEF Write, OldWrites, Settle, ClassOf, Class
    <2>2. old' = old /\ UNCHANGED <<schema, ledger, lock, orphan, pc, at, crashes>>
      BY <1>8 DEF Write, OldWrites, Settle, boot_vars
    <2>3. rows' \in [Rows -> Class \cup {"absent", "unclassed"}]
      BY <2>1 DEF TypeOK
    <2> QED
      BY <2>2, <2>3 DEF TypeOK
  <1>9. CASE OrphanRuns
    <2>1. orphan \in Position /\ orphan[1] \in Nat
      BY Places DEF TypeOK
    <2>2. ~IsRecord(orphan) => /\ StatementAt(orphan).makes \subseteq Part
                               /\ Following(orphan) \in Position
      BY <2>1, Places, Shape DEF StatementAt, Part
    <2>3. /\ rows \in [Rows -> Class \cup {"absent", "unclassed"}]
          /\ old \in BOOLEAN /\ crashes \in 0..MaxCrashes
          /\ UNCHANGED <<rows, pc, at, old, crashes>>
      BY <1>9 DEF TypeOK, OrphanRuns
    <2>4. ledger' \subseteq Nat
      <3>1. ledger' = ledger \/ ledger' = ledger \cup {orphan[1]}
        BY <1>9 DEF OrphanRuns
      <3> QED
        BY <2>1, <3>1 DEF TypeOK
    <2>5. schema' \subseteq Part
      <3>1. schema' = schema \/ (~IsRecord(orphan) /\ schema' = schema \cup StatementAt(orphan).makes)
        BY <1>9 DEF OrphanRuns
      <3> QED
        BY <2>2, <3>1 DEF TypeOK
    <2>6. orphan' \in Position /\ lock' \in {lock, "free"} /\ lock \notin Replicas
      BY <1>9, <2>1, <2>2 DEF TypeOK, OrphanRuns
    <2>7. \A r \in Replicas : pc[r] \in {"ledger", "run"} <=> lock' = r
      BY <2>6, MigrateAssumption DEF TypeOK
    <2> QED
      BY <2>3, <2>4, <2>5, <2>6, <2>7 DEF TypeOK
  <1>10. CASE OrphanEnds \/ OldEnds
    BY <1>10 DEF TypeOK, OrphanEnds, OldEnds, boot_vars
  <1>11. CASE UNCHANGED vars
    BY <1>11 DEF TypeOK, vars
  <1> QED
    BY <1>1, <1>2, <1>3, <1>4, <1>5, <1>6, <1>7, <1>8, <1>9, <1>10, <1>11, StepCases

(***************************************************************************)
(*                               The database                               *)
(***************************************************************************)
\* A statement that passes adds to the schema, and leaves its session past it.
LEMMA StatementPasses ==
  ASSUME IInv, NEW q \in Position, ~IsRecord(q), Working(q, ledger, schema), ~Refuses(StatementAt(q)),
         schema' = schema \cup StatementAt(q).makes, UNCHANGED <<ledger, rows>>
  PROVE  SchemaIsOurs' /\ LedgerIsTrue' /\ RowsObey' /\ Working(Following(q), ledger', schema')
  <1>1. /\ q[1] \in Versions /\ q[2] \in 1..Len(all[q[1]]) /\ q[2] \in Nat
        /\ StatementAt(q) = all[q[1]][q[2]]
    BY Places DEF StatementAt
  <1>2. StatementAt(q).makes \subseteq Complete
    BY <1>1, Shape
  <1>3. SchemaIsOurs'
    BY <1>2 DEF IInv, SchemaIsOurs
  <1>4. LedgerIsTrue'
    BY TrueOfMore DEF IInv, LedgerIsTrue
  <1>5. RowsObey'
    <2>1. CASE StatementAt(q).makes \subseteq schema
      <3>1. schema' = schema
        BY <2>1
      <3> QED
        BY <3>1 DEF IInv, RowsObey
    <2>2. CASE Obeys(rows, schema \cup StatementAt(q).makes)
      BY <2>2 DEF RowsObey
    <2> QED
      BY <2>1, <2>2 DEF Refuses
  <1>6. Working(Following(q), ledger', schema')
    <2> DEFINE v == q[1]
               i == q[2]
    <2>1. Following(q)[1] = v /\ Following(q)[2] = i + 1
      BY DEF Following
    <2>2. /\ i \in Nat
          /\ \A j \in 1..(i - 1) : all[v][j].makes \subseteq schema
          /\ schema' = schema \cup all[v][i].makes
      BY <1>1 DEF Working
    <2> HIDE DEF v, i
    <2>3. \A j \in 1..((i + 1) - 1) : all[v][j].makes \subseteq schema'
      <3> SUFFICES ASSUME NEW j \in 1..((i + 1) - 1) PROVE all[v][j].makes \subseteq schema'
        OBVIOUS
      <3>1. j = i \/ j \in 1..(i - 1)
        BY <2>2
      <3> QED
        BY <2>2, <3>1
    <2>4. ledger' = 1..(v - 1)
      BY DEF Working, v
    <2> QED
      BY <2>1, <2>3, <2>4 DEF Working
  <1> QED
    BY <1>3, <1>4, <1>5, <1>6

\* A ledger row is written once all of its migration is in the schema.
LEMMA RowIsWritten ==
  ASSUME IInv, NEW q \in Position, IsRecord(q), Working(q, ledger, schema),
         ledger' = ledger \cup {q[1]}, UNCHANGED <<schema, rows>>
  PROVE  /\ SchemaIsOurs' /\ LedgerIsTrue' /\ RowsObey' /\ LedgerHasNoHoles'
         /\ q[1] + 1 \in Versions => Working(<<q[1] + 1, 1>>, ledger', schema')
         /\ q[1] + 1 \notin Versions => ledger' = Versions
  <1> DEFINE v == q[1]
  <1>0. v \in Versions /\ v \in 1..7
    BY Places, Catalogue
  <1>1. q[2] = Len(all[v]) + 1 /\ Len(all[v]) \in 1..3
    BY <1>0, Places, Shape
  <1>2. ledger = 1..(v - 1) /\ \A i \in 1..(q[2] - 1) : all[v][i].makes \subseteq schema
    BY DEF Working
  <1>3. \A i \in 1..Len(all[v]) : all[v][i].makes \subseteq schema
    BY <1>1, <1>2
  <1>4. Effects(v) \subseteq schema
    BY <1>0, <1>3, PassedMakes
  <1>5. ledger' = 1..v /\ IsTrue(1..v, schema)
    BY <1>0, <1>2, <1>4, TrueOfNext DEF IInv, LedgerIsTrue
  <1> HIDE DEF v
  <1>6. ledger \subseteq Versions
    BY <1>0, <1>2, Catalogue
  <1>7. SchemaIsOurs' /\ LedgerIsTrue' /\ RowsObey' /\ LedgerHasNoHoles'
    <2>1. SchemaIsOurs' /\ RowsObey'
      BY <1>6 DEF IInv, SchemaIsOurs, RowsObey
    <2>2. LedgerIsTrue'
      BY <1>5 DEF LedgerIsTrue
    <2>3. LedgerHasNoHoles'
      BY <1>0, <1>5 DEF LedgerHasNoHoles
    <2> QED
      BY <2>1, <2>2, <2>3
  <1>8. v + 1 \in Versions => Working(<<v + 1, 1>>, ledger', schema')
    BY <1>0, <1>5 DEF Working
  <1>9. v + 1 \notin Versions => ledger' = Versions
    <2>1. v + 1 \notin Versions => v = 7
      BY <1>0, Catalogue
    <2> QED
      BY <1>5, <2>1, Catalogue
  <1> QED
    BY <1>7, <1>8, <1>9 DEF v

\* Who works on a pending migration works over an unfinished ledger.
LEMMA WorkingIsUnfinished ==
  ASSUME NEW q \in Position, Working(q, ledger, schema)
  PROVE  ledger # Versions /\ ledger \subseteq Versions
  <1> DEFINE v == q[1]
  <1>1. v \in 1..7 /\ ledger = 1..(v - 1)
    BY Places, Catalogue DEF Working
  <1> HIDE DEF v
  <1>2. 7 \notin ledger /\ ledger \subseteq 1..7
    BY <1>1
  <1> QED
    BY <1>2, Catalogue

Database ==
  OneAtWork /\ LedgerHasNoHoles /\ SchemaIsOurs /\ PastMeansRecorded /\ LedgerIsTrue /\ RowsObey

\* A step of booting that leaves the database alone.
LEMMA BootFrame ==
  ASSUME IInv, UNCHANGED <<schema, ledger, rows>>, OneAtWork', PastMeansRecorded'
  PROVE  Database'
  BY DEF IInv, Database, LedgerHasNoHoles, SchemaIsOurs, LedgerIsTrue, RowsObey

\* A replica that leaves the database with what it knows.
LEMMA LeaveFrame ==
  ASSUME IInv, UNCHANGED <<schema, ledger, rows, at, orphan>>, NEW r \in Replicas,
         NEW label \in {"down", "lock", "ledger", "migrated", "serving"}, Goto(r, label),
         label \in {"migrated", "serving"} => ledger = Versions,
         lock' # "orphan" \/ lock = "orphan"
  PROVE  Database'
  <1>1. \A s \in Replicas : pc'[s] = IF s = r THEN label ELSE pc[s]
    BY DEF IInv, TypeOK, Goto
  <1>2. OneAtWork'
    BY <1>1 DEF IInv, OneAtWork, Working
  <1>3. PastMeansRecorded'
    BY <1>1 DEF IInv, PastMeansRecorded
  <1> QED
    BY <1>2, <1>3, BootFrame

\* Every step keeps the database in order.
LEMMA DatabaseNext == IInv /\ [Next]_vars => Database'
  <1> SUFFICES ASSUME IInv, [Next]_vars PROVE Database'
    OBVIOUS
  <1>0. TypeOK
    BY DEF IInv
  <1>1. ASSUME NEW r \in Replicas, Boot(r) \/ LockTimesOut(r) PROVE Database'
    BY <1>1, LeaveFrame DEF Boot, LockTimesOut
  <1>2. ASSUME NEW r \in Replicas, TakeLock(r) PROVE Database'
    BY <1>2, LeaveFrame, MigrateAssumption DEF TakeLock
  <1>3. ASSUME NEW r \in Replicas, Serve(r) PROVE Database'
    BY <1>3, LeaveFrame DEF Serve, IInv, PastMeansRecorded
  <1>4. ASSUME NEW r \in Replicas, NEW label \in {"down", "migrated"}, Leave(r, label),
               UNCHANGED <<schema, ledger, rows, at, orphan>>,
               label = "migrated" => ledger = Versions
        PROVE Database'
    BY <1>4, LeaveFrame DEF Leave
  <1>5. ASSUME NEW r \in Replicas, ReadLedger(r) PROVE Database'
    <2>1. CASE \E label \in {"down", "migrated"} :
                 Leave(r, label) /\ UNCHANGED at /\ (label = "migrated" => ledger = Versions)
      BY <1>4, <1>5, <2>1 DEF ReadLedger
    <2>2. CASE /\ ledger # Versions /\ ledger \subseteq Versions
               /\ Goto(r, "run")
               /\ at' = [at EXCEPT ![r] = <<Cardinality(ledger) + 1, 1>>]
               /\ UNCHANGED lock
      <3>1. UNCHANGED <<schema, ledger, rows, orphan>>
        BY <1>5 DEF ReadLedger
      <3>2. LedgerHasNoHoles
        BY DEF IInv
      <3>3. at'[r] = <<Cardinality(ledger) + 1, 1>> /\ \A s \in Replicas \ {r} : at'[s] = at[s]
        BY <1>0, <2>2 DEF TypeOK
      <3>4. Working(at'[r], ledger', schema')
        <4> DEFINE n == Cardinality(ledger)
        <4>1. ledger = 1..n /\ n \in Nat
          BY <2>2, <3>2, FirstPending
        <4>2. at'[r][1] = n + 1 /\ at'[r][2] = 1
          BY <3>3
        <4> HIDE DEF n
        <4>3. ledger = 1..((n + 1) - 1)
          BY <4>1
        <4> QED
          BY <3>1, <4>2, <4>3 DEF Working
      <3>5. pc'[r] = "run" /\ \A s \in Replicas \ {r} : pc'[s] = pc[s]
        BY <1>0, <2>2 DEF TypeOK, Goto
      <3>6. OneAtWork'
        BY <2>2, <3>1, <3>3, <3>4, <3>5 DEF IInv, OneAtWork, Working
      <3>7. PastMeansRecorded'
        BY <3>1, <3>5 DEF IInv, PastMeansRecorded
      <3> QED
        BY <3>1, <3>6, <3>7, BootFrame
    <2> QED
      BY <1>5, <2>1, <2>2 DEF ReadLedger
  <1>6. ASSUME NEW r \in Replicas, RunStatement(r) PROVE Database'
    <2>1. at[r] \in Position /\ Working(at[r], ledger, schema) /\ ~IsRecord(at[r]) /\ pc[r] = "run"
      BY <1>0, <1>6 DEF IInv, OneAtWork, RunStatement, TypeOK
    <2>2. lock = r /\ r # "orphan" /\ \A s \in Replicas : pc[s] = "run" => s = r
      BY <1>0, <2>1, MigrateAssumption DEF TypeOK
    <2>3. SchemaIsOurs' /\ LedgerIsTrue' /\ RowsObey' /\ Working(Following(at[r]), ledger', schema')
      BY <1>6, <2>1, StatementPasses DEF RunStatement
    <2>4. at'[r] = Following(at[r])
      BY <1>0, <1>6 DEF RunStatement, TypeOK
    <2>5. OneAtWork'
      <3>1. \A s \in Replicas : pc'[s] = "run" => s = r
        BY <1>6, <2>2 DEF RunStatement
      <3>2. Working(at'[r], ledger', schema')
        BY <2>3, <2>4 DEF Working
      <3> QED
        BY <1>6, <2>2, <3>1, <3>2 DEF OneAtWork, RunStatement
    <2>6. PastMeansRecorded' /\ LedgerHasNoHoles'
      BY <1>6 DEF IInv, PastMeansRecorded, LedgerHasNoHoles, RunStatement
    <2> QED
      BY <2>3, <2>5, <2>6 DEF Database
  <1>7. ASSUME NEW r \in Replicas, StatementRefused(r) PROVE Database'
    BY <1>4, <1>7 DEF StatementRefused
  <1>8. ASSUME NEW r \in Replicas, Record(r) PROVE Database'
    <2>1. at[r] \in Position /\ Working(at[r], ledger, schema) /\ IsRecord(at[r]) /\ pc[r] = "run"
      BY <1>0, <1>8 DEF IInv, OneAtWork, Record, TypeOK
    <2>2. lock = r /\ r # "orphan" /\ \A s \in Replicas : pc[s] = "run" => s = r
      BY <1>0, <2>1, MigrateAssumption DEF TypeOK
    <2>3. /\ SchemaIsOurs' /\ LedgerIsTrue' /\ RowsObey' /\ LedgerHasNoHoles'
          /\ at[r][1] + 1 \in Versions => Working(<<at[r][1] + 1, 1>>, ledger', schema')
          /\ at[r][1] + 1 \notin Versions => ledger' = Versions
      BY <1>8, <2>1, RowIsWritten DEF Record
    <2>4. \A s \in Replicas : pc[s] \notin {"migrated", "serving"}
      BY <2>1, WorkingIsUnfinished DEF IInv, PastMeansRecorded
    <2>5. CASE /\ at[r][1] + 1 \in Versions
               /\ at' = [at EXCEPT ![r] = <<at[r][1] + 1, 1>>]
               /\ UNCHANGED <<pc, lock>>
      <3>1. at'[r] = <<at[r][1] + 1, 1>>
        BY <1>0, <2>5 DEF TypeOK
      <3>2. Working(at'[r], ledger', schema')
        BY <2>3, <2>5, <3>1 DEF Working
      <3>3. OneAtWork' /\ PastMeansRecorded'
        BY <2>2, <2>4, <2>5, <3>2 DEF OneAtWork, PastMeansRecorded
      <3> QED
        BY <2>3, <3>3 DEF Database
    <2>6. CASE at[r][1] + 1 \notin Versions /\ Leave(r, "migrated") /\ UNCHANGED at
      <3>1. ledger' = Versions /\ lock' = "free"
        BY <2>2, <2>3, <2>6 DEF Leave
      <3>2. \A s \in Replicas : pc'[s] # "run"
        BY <1>0, <2>2, <2>6 DEF Leave, Goto, TypeOK
      <3>3. OneAtWork' /\ PastMeansRecorded'
        BY <3>1, <3>2 DEF OneAtWork, PastMeansRecorded
      <3> QED
        BY <2>3, <3>3 DEF Database
    <2> QED
      BY <1>8, <2>5, <2>6 DEF Record
  <1>9. ASSUME NEW r \in Replicas, Crash(r) PROVE Database'
    <2>1. CASE Leave(r, "down") /\ UNCHANGED orphan
      BY <1>4, <1>9, <2>1 DEF Crash
    <2>2. CASE lock = r /\ pc[r] = "run" /\ Goto(r, "down") /\ lock' = "orphan" /\ orphan' = at[r]
      <3>1. Working(at[r], ledger, schema) /\ UNCHANGED <<schema, ledger, rows, at>>
        BY <1>9, <2>2 DEF IInv, OneAtWork, Crash
      <3>2. Working(orphan', ledger', schema')
        BY <2>2, <3>1 DEF Working
      <3>3. \A s \in Replicas : pc'[s] = IF s = r THEN "down" ELSE pc[s]
        BY <1>0, <2>2 DEF TypeOK, Goto
      <3>4. \A s \in Replicas : pc'[s] # "run"
        BY <1>0, <2>2, <3>3 DEF TypeOK
      <3>5. OneAtWork' /\ PastMeansRecorded'
        BY <3>1, <3>2, <3>3, <3>4 DEF IInv, OneAtWork, PastMeansRecorded
      <3> QED
        BY <3>1, <3>5, BootFrame
    <2> QED
      BY <1>9, <2>1, <2>2 DEF Crash
  <1>10. ASSUME NEW p \in Rows, OldWrites(p) \/ Settle(p) \/ \E r \in Replicas : Write(r, p)
         PROVE Database'
    <2>1. UNCHANGED <<schema, ledger, boot_vars>> /\ \E class : Fits(p, class) /\ rows' = [rows EXCEPT ![p] = class]
      BY <1>10 DEF OldWrites, Settle, Write
    <2>2. RowsObey'
      BY <2>1 DEF RowsObey, Fits
    <2>3. /\ OneAtWork' /\ LedgerHasNoHoles' /\ SchemaIsOurs'
          /\ PastMeansRecorded' /\ LedgerIsTrue'
      BY <2>1 DEF boot_vars, IInv, OneAtWork, Working, LedgerHasNoHoles, SchemaIsOurs,
                  PastMeansRecorded, LedgerIsTrue
    <2> QED
      BY <2>2, <2>3 DEF Database
  <1>11. CASE OrphanRuns
    <2>1. orphan \in Position /\ Working(orphan, ledger, schema) /\ lock = "orphan"
      BY <1>0, <1>11 DEF IInv, OneAtWork, OrphanRuns, TypeOK
    <2>2. \A s \in Replicas : pc[s] # "run"
      BY <1>0, <2>1, MigrateAssumption DEF TypeOK
    <2>3. \A s \in Replicas : pc[s] \notin {"migrated", "serving"}
      BY <2>1, WorkingIsUnfinished DEF IInv, PastMeansRecorded
    <2>4. UNCHANGED <<rows, pc, at>>
      BY <1>11 DEF OrphanRuns
    <2>5. PastMeansRecorded'
      BY <2>3, <2>4 DEF PastMeansRecorded
    <2>6. CASE IsRecord(orphan)
      <3>1. ledger' = ledger \cup {orphan[1]} /\ lock' = "free" /\ UNCHANGED schema
        BY <1>11, <2>6 DEF OrphanRuns
      <3>2. SchemaIsOurs' /\ LedgerIsTrue' /\ RowsObey' /\ LedgerHasNoHoles'
        BY <2>1, <2>4, <2>6, <3>1, RowIsWritten
      <3>3. OneAtWork'
        BY <2>2, <2>4, <3>1 DEF OneAtWork
      <3> QED
        BY <2>5, <3>2, <3>3 DEF Database
    <2>7. CASE ~IsRecord(orphan) /\ Refuses(StatementAt(orphan))
      <3>1. lock' = "free" /\ UNCHANGED <<schema, ledger>>
        BY <1>11, <2>7 DEF OrphanRuns
      <3>2. OneAtWork'
        BY <2>2, <2>4, <3>1 DEF OneAtWork
      <3> QED
        BY <2>4, <2>5, <3>1, <3>2, BootFrame
    <2>8. CASE ~IsRecord(orphan) /\ ~Refuses(StatementAt(orphan))
      <3>1. /\ schema' = schema \cup StatementAt(orphan).makes
            /\ UNCHANGED ledger
            /\ lock' = "free" \/ orphan' = Following(orphan)
        BY <1>11, <2>8 DEF OrphanRuns
      <3>2. SchemaIsOurs' /\ LedgerIsTrue' /\ RowsObey' /\ Working(Following(orphan), ledger', schema')
        BY <2>1, <2>4, <2>8, <3>1, StatementPasses
      <3>3. OneAtWork'
        <4>1. orphan' = Following(orphan) => Working(orphan', ledger', schema')
          BY <3>2 DEF Working
        <4> QED
          BY <2>2, <2>4, <3>1, <4>1 DEF OneAtWork
      <3>4. LedgerHasNoHoles'
        BY <3>1 DEF IInv, LedgerHasNoHoles
      <3> QED
        BY <2>5, <3>2, <3>3, <3>4 DEF Database
    <2> QED
      BY <2>6, <2>7, <2>8
  <1>12. CASE OrphanEnds
    <2>1. OneAtWork' /\ PastMeansRecorded' /\ UNCHANGED <<schema, ledger, rows>>
      BY <1>12 DEF OrphanEnds, IInv, OneAtWork, Working, PastMeansRecorded
    <2> QED
      BY <2>1, BootFrame
  <1>13. CASE OldEnds \/ UNCHANGED vars
    <2>1. OneAtWork' /\ PastMeansRecorded' /\ UNCHANGED <<schema, ledger, rows>>
      BY <1>13 DEF OldEnds, vars, boot_vars, IInv, OneAtWork, Working, PastMeansRecorded
    <2> QED
      BY <2>1, BootFrame
  <1> QED
    BY <1>1, <1>2, <1>3, <1>5, <1>6, <1>7, <1>8, <1>9, <1>10, <1>11, <1>12, <1>13, StepCases

\* A store a release left is in order, and nobody has booted over it yet.
LEMMA InitIInv == Init => IInv /\ BareIsFresh
  <1> SUFFICES ASSUME Init PROVE IInv /\ BareIsFresh
    OBVIOUS
  <1>1. PICK s \in Stores : schema = s.schema /\ ledger = s.ledger /\ rows = s.rows /\ old = s.old
    BY DEF Init
  <1>2. /\ rows \in [Rows -> Class \cup {"absent", "unclassed"}]
        /\ old \in BOOLEAN
        /\ IsFiniteSet(ledger) /\ ledger = 1..Cardinality(ledger)
        /\ schema \subseteq Part
        /\ ledger \subseteq Versions => schema \subseteq Complete
        /\ IsTrue(ledger, schema)
        /\ Obeys(rows, schema)
        /\ \A v \in Versions \ ledger :
             \A i \in DOMAIN all[v] : all[v][i].bare => all[v][i].makes \cap schema = {}
    BY <1>1, MigrateAssumption
  <1>3. LedgerHasNoHoles
    BY <1>2, FS_CardinalityType DEF LedgerHasNoHoles
  <1>4. ledger \subseteq Nat
    BY <1>3 DEF LedgerHasNoHoles
  <1>5. Nowhere \in Position
    BY Places, Catalogue DEF Nowhere
  <1>6. TypeOK
    BY <1>2, <1>4, <1>5, MigrateAssumption DEF Init, TypeOK
  <1>7. OneAtWork /\ PastMeansRecorded
    BY DEF Init, OneAtWork, PastMeansRecorded
  <1>8. SchemaIsOurs /\ LedgerIsTrue /\ RowsObey
    BY <1>2 DEF SchemaIsOurs, LedgerIsTrue, RowsObey
  <1>9. BareIsFresh
    BY <1>2 DEF Init, BareIsFresh
  <1> QED
    BY <1>3, <1>6, <1>7, <1>8, <1>9 DEF IInv

LEMMA NextIInv == IInv /\ [Next]_vars => IInv'
  BY TypeNext, DatabaseNext DEF IInv, Database

LEMMA AlwaysIInv == Spec => []IInv
  <1>1. Init => IInv
    BY InitIInv
  <1> QED
    BY <1>1, NextIInv, PTL DEF Spec

(***************************************************************************)
(*                             Boots that collide                           *)
(***************************************************************************)
\* The bare statements, and what else is made over a ledger that lacks them.
LEMMA BareStatements ==
  ASSUME NEW v \in Versions, NEW i \in 1..Len(all[v]), all[v][i].bare,
         NEW w \in Versions, w <= v, NEW j \in 1..Len(all[w]),
         all[w][j].makes \cap all[v][i].makes # {}
  PROVE  w = v /\ j = i /\ i = 1 /\ Len(all[v]) = 1
  <1>1. v \in 1..3 /\ i = 1
    BY Shape
  <1>2. w \in 1..3
    BY <1>1, Catalogue
  <1>3. Len(all[w]) = 1 /\ Len(all[v]) = 1
    BY <1>1, <1>2, Lengths
  <1>4. j = 1
    BY <1>3
  <1>5. /\ all[1][1].makes \cap all[2][1].makes = {}
        /\ all[1][1].makes \cap all[3][1].makes = {}
        /\ all[2][1].makes \cap all[3][1].makes = {}
    BY Statements DEF Bare
  <1>6. w = v
    BY <1>1, <1>2, <1>4, <1>5
  <1> QED
    BY <1>1, <1>3, <1>4, <1>6

\* A boot step that leaves the schema, and what others are at, keeps that.
LEMMA BareFrame ==
  ASSUME IInv, BareIsFresh, UNCHANGED <<schema, crashes>>, ledger \subseteq ledger',
         lock' # "orphan" \/ UNCHANGED lock,
         \A v \in Versions \ ledger', r \in Replicas :
           pc[r] = "run" /\ at[r][1] = v /\ at[r][2] > 1 => pc'[r] = "run" /\ at'[r] = at[r]
  PROVE  BareIsFresh'
  <1> SUFFICES ASSUME crashes = 0, NEW v \in Versions \ ledger', NEW i \in 1..4,
                      i \in DOMAIN all[v], all[v][i].bare, all[v][i].makes \cap schema # {}
               PROVE  \E r \in Replicas : pc'[r] = "run" /\ at'[r][1] = v /\ at'[r][2] > i
    BY DEF BareIsFresh
  <1>1. PICK r \in Replicas : pc[r] = "run" /\ at[r][1] = v /\ at[r][2] > i
    BY DEF BareIsFresh
  <1>2. i = 1
    BY Shape
  <1> QED
    BY <1>1, <1>2

\* Until somebody crashes, a table that is there has its ledger row, or its
\* session is about to write it.
LEMMA BareIsFreshNext == IInv /\ BareIsFresh /\ [Next]_vars => BareIsFresh'
  <1> SUFFICES ASSUME IInv, BareIsFresh, [Next]_vars PROVE BareIsFresh'
    OBVIOUS
  <1>0. TypeOK /\ OneAtWork
    BY DEF IInv
  <1>1. ASSUME NEW r \in Replicas, Boot(r) \/ LockTimesOut(r) \/ Serve(r) PROVE BareIsFresh'
    BY <1>0, <1>1, BareFrame DEF Boot, LockTimesOut, Serve, Goto, TypeOK
  <1>2. ASSUME NEW r \in Replicas, TakeLock(r) PROVE BareIsFresh'
    <2>1. lock' # "orphan" /\ UNCHANGED <<schema, ledger, crashes, at>>
      BY <1>2, MigrateAssumption DEF TakeLock
    <2>2. \A s \in Replicas : pc[s] = "run" => pc'[s] = "run"
      BY <1>0, <1>2 DEF TakeLock, Goto, TypeOK
    <2> QED
      BY <2>1, <2>2, BareFrame
  <1>3. ASSUME NEW r \in Replicas, ReadLedger(r) PROVE BareIsFresh'
    <2>1. pc[r] = "ledger" /\ UNCHANGED <<schema, ledger, crashes>>
      BY <1>3 DEF ReadLedger
    <2>2. lock' # "orphan" \/ UNCHANGED lock
      BY <1>3 DEF ReadLedger, Leave
    <2>3. \A s \in Replicas \ {r} : pc'[s] = pc[s] /\ at'[s] = at[s]
      BY <1>0, <1>3 DEF ReadLedger, Leave, Goto, TypeOK
    <2> QED
      BY <2>1, <2>2, <2>3, BareFrame
  <1>4. ASSUME NEW r \in Replicas, RunStatement(r) PROVE BareIsFresh'
    <2>1. /\ at[r] \in Position /\ ~IsRecord(at[r]) /\ pc[r] = "run" /\ lock = r
          /\ Working(at[r], ledger, schema)
          /\ \A s \in Replicas : pc[s] = "run" => s = r
      BY <1>0, <1>4, MigrateAssumption DEF RunStatement, OneAtWork, TypeOK
    <2>2. /\ UNCHANGED <<ledger, crashes, pc, lock>>
          /\ schema' = schema \cup StatementAt(at[r]).makes
          /\ at'[r] = Following(at[r])
      BY <1>0, <1>4 DEF RunStatement, TypeOK
    <2> DEFINE w == at[r][1]
               j == at[r][2]
    <2>3. /\ w \in Versions /\ w \in 1..7 /\ j \in 1..Len(all[w]) /\ j \in Nat
          /\ StatementAt(at[r]) = all[w][j]
          /\ at'[r][1] = w /\ at'[r][2] = j + 1
          /\ ledger = 1..(w - 1)
      BY <2>1, <2>2, Places, Catalogue DEF StatementAt, Following, Working
    <2> HIDE DEF w, j
    <2> SUFFICES ASSUME crashes = 0, NEW v \in Versions \ ledger, NEW i \in 1..4,
                        i \in DOMAIN all[v], all[v][i].bare, all[v][i].makes \cap schema' # {}
                 PROVE  at'[r][1] = v /\ at'[r][2] > i
      BY <2>1, <2>2 DEF BareIsFresh
    <2>4. i \in 1..Len(all[v])
      BY Shape
    <2>5. CASE all[v][i].makes \cap schema # {}
      <3>1. w = v /\ j > i
        BY <2>1, <2>5 DEF BareIsFresh, w, j
      <3> QED
        BY <2>3, <3>1
    <2>6. CASE all[v][i].makes \cap all[w][j].makes # {}
      <3>1. w <= v
        BY <2>3, Catalogue
      <3>2. w = v /\ j = i
        BY <2>3, <2>4, <2>6, <3>1, BareStatements
      <3> QED
        BY <2>3, <3>2
    <2> QED
      BY <2>2, <2>3, <2>5, <2>6
  <1>5. ASSUME NEW r \in Replicas, StatementRefused(r) PROVE BareIsFresh'
    <2>1. /\ at[r] \in Position /\ ~IsRecord(at[r]) /\ pc[r] = "run" /\ lock = r
          /\ \A s \in Replicas : pc[s] = "run" => s = r
      BY <1>0, <1>5, MigrateAssumption DEF StatementRefused, TypeOK
    <2>2. UNCHANGED <<schema, ledger, crashes>> /\ lock' = "free"
      BY <1>5, <2>1 DEF StatementRefused, Leave
    <2>3. at[r][1] \in Versions /\ at[r][2] \in 1..Len(all[at[r][1]])
      BY <2>1, Places
    <2> SUFFICES ASSUME crashes = 0, NEW v \in Versions \ ledger, NEW i \in 1..4,
                        i \in DOMAIN all[v], all[v][i].bare, all[v][i].makes \cap schema # {}
                 PROVE  FALSE
      BY <2>2 DEF BareIsFresh
    <2>4. at[r][1] = v /\ at[r][2] > i
      BY <2>1 DEF BareIsFresh
    <2>5. v \in 1..3 /\ i = 1
      BY Shape
    <2>6. Len(all[v]) = 1
      BY <2>5, Lengths
    <2> QED
      BY <2>3, <2>4, <2>5, <2>6
  <1>6. ASSUME NEW r \in Replicas, Record(r) PROVE BareIsFresh'
    <2>1. pc[r] = "run" /\ UNCHANGED <<schema, crashes>> /\ ledger' = ledger \cup {at[r][1]}
      BY <1>6 DEF Record
    <2>2. lock' # "orphan" \/ UNCHANGED lock
      BY <1>6 DEF Record, Leave
    <2>3. \A s \in Replicas \ {r} : pc'[s] = pc[s] /\ at'[s] = at[s]
      BY <1>0, <1>6 DEF Record, Leave, Goto, TypeOK
    <2> QED
      BY <2>1, <2>2, <2>3, BareFrame
  <1>7. ASSUME NEW r \in Replicas, Crash(r) PROVE BareIsFresh'
    <2>1. crashes' = crashes + 1 /\ crashes \in Nat
      BY <1>0, <1>7, MigrateAssumption DEF Crash, TypeOK
    <2>2. crashes' # 0
      BY <2>1
    <2> QED
      BY <2>2 DEF BareIsFresh
  <1>8. CASE OrphanRuns \/ OrphanEnds
    <2>1. crashes # 0 /\ UNCHANGED crashes
      BY <1>8 DEF OrphanRuns, OrphanEnds, BareIsFresh
    <2> QED
      BY <2>1 DEF BareIsFresh
  <1>9. ASSUME UNCHANGED <<schema, ledger, boot_vars>> PROVE BareIsFresh'
    BY <1>9, BareFrame DEF boot_vars
  <1> QED
    BY <1>1, <1>2, <1>3, <1>4, <1>5, <1>6, <1>7, <1>8, <1>9, StepCases
    DEF Write, OldWrites, Settle, OldEnds, vars, boot_vars

(***************************************************************************)
(*                                Theorems                                  *)
(***************************************************************************)
\* Every variable keeps its type, and at most one session is at work in the
\* database at a time: the one that holds GET_LOCK (migrate::apply).
THEOREM TypeCorrect == Spec => []TypeOK
  <1>1. IInv => TypeOK
    BY DEF IInv
  <1> QED
    BY <1>1, AlwaysIInv, PTL

\* No ledger row lies: in every state between two statements, whoever died
\* wherever, a recorded migration's effects are in the schema (schema.rs).
THEOREM LedgersAreTrue == Spec => []LedgerIsTrue
  <1>1. IInv => LedgerIsTrue
    BY DEF IInv
  <1> QED
    BY <1>1, AlwaysIInv, PTL

\* A replica that serves has the whole schema under it, and no other one,
\* whatever release the store is from (main.rs, run; tests/upgrade.rs).
THEOREM ServesWhole == Spec => []ServesOnlyWhole
  <1>1. IInv => ServesOnlyWhole
    <2> SUFFICES ASSUME IInv, NEW r \in Replicas, pc[r] = "serving" PROVE schema = Complete
      BY DEF ServesOnlyWhole
    <2>1. ledger = Versions
      BY DEF IInv, PastMeansRecorded
    <2>2. schema \subseteq Complete
      BY <2>1 DEF IInv, SchemaIsOurs
    <2>3. Complete \subseteq schema
      BY <2>1, WholeLedger DEF IInv, LedgerIsTrue
    <2> QED
      BY <2>2, <2>3
  <1> QED
    BY <1>1, AlwaysIInv, PTL

\* While a replica serves, the rows are classed by their paths and no two share
\* a key, though v0.1.x still writes and an operator settles rows by hand.
THEOREM RowsAreClassed == Spec => []ServedRowsAreClassed
  <1>1. IInv /\ ServesOnlyWhole => ServedRowsAreClassed
    <2> SUFFICES ASSUME IInv, schema = Complete
                 PROVE  NoTwins(rows) /\ \A p \in Stored(rows) : rows[p] = ClassOf(p)
      BY DEF ServesOnlyWhole, ServedRowsAreClassed
    <2>1. {"path_ci", "class_columns", "ck_class", "ck_class_path"} \subseteq schema
      BY EffectsAre, Catalogue DEF Complete
    <2>2. NoTwins(rows) /\ Classed(rows) /\ ClassFits(rows)
      BY <2>1 DEF IInv, RowsObey, Obeys
    <2> QED
      BY <2>2 DEF Classed, ClassFits, ClassOf, Class
  <1> QED
    BY <1>1, AlwaysIInv, ServesWhole, PTL

\* Replicas that boot together do not refuse one another's statements: short of
\* a crash, a boot is refused on account of rows, and of nothing else.
THEOREM BootsAgree == Spec => BootsDoNotCollide
  <1>1. ASSUME IInv, BareIsFresh, NEW r \in Replicas, StatementRefused(r)
        PROVE  RowsRefuse \/ crashes > 0
    <2>0. TypeOK
      BY <1>1 DEF IInv
    <2> SUFFICES ASSUME crashes = 0 PROVE RowsRefuse
      BY <2>0, MigrateAssumption DEF TypeOK
    <2>1. /\ at[r] \in Position /\ ~IsRecord(at[r]) /\ pc[r] = "run"
          /\ Working(at[r], ledger, schema)
          /\ \A s \in Replicas : pc[s] = "run" => s = r
      BY <1>1, <2>0, MigrateAssumption DEF StatementRefused, TypeOK, IInv, OneAtWork
    <2> DEFINE w == at[r][1]
               j == at[r][2]
    <2>2. /\ w \in Versions /\ w \in 1..7 /\ j \in 1..Len(all[w])
          /\ StatementAt(at[r]) = all[w][j]
          /\ ledger = 1..(w - 1)
      BY <2>1, Places, Catalogue DEF StatementAt, Working
    <2>3. Len(all[w]) \in 1..3 /\ DOMAIN all[w] = 1..Len(all[w])
      BY <2>2, Shape
    <2>4. w \notin ledger /\ j \in 1..4 /\ j \in DOMAIN all[w]
      <3> HIDE DEF w, j
      <3> QED
        BY <2>2, <2>3
    <2>5. ~(all[w][j].bare /\ all[w][j].makes \cap schema # {})
      <3> SUFFICES ASSUME all[w][j].bare, all[w][j].makes \cap schema # {} PROVE FALSE
        OBVIOUS
      <3>1. PICK s \in Replicas : pc[s] = "run" /\ at[s][1] = w /\ at[s][2] > j
        <4>1. /\ w \in Versions \ ledger /\ j \in 1..4 /\ j \in DOMAIN all[w]
              /\ all[w][j].bare /\ all[w][j].makes \cap schema # {} /\ crashes = 0
          BY <2>2, <2>4
        <4> HIDE DEF w, j
        <4> QED
          BY <1>1, <4>1, Zenon DEF BareIsFresh
      <3>2. j > j /\ j \in Int
        BY <2>1, <2>4, <3>1
      <3> HIDE DEF j
      <3> QED
        BY <3>2
    <2>6. ~Obeys(rows, schema \cup all[w][j].makes)
      BY <1>1, <2>2, <2>5 DEF StatementRefused, Refuses
    <2>7. Obeys(rows, schema)
      BY <1>1 DEF IInv, RowsObey
    <2> QED
      BY <2>6, <2>7 DEF RowsRefuse, Obeys
  <1>2. IInv /\ BareIsFresh /\ [Next]_vars =>
          [\A r \in Replicas : StatementRefused(r) => RowsRefuse \/ crashes > 0]_vars
    BY <1>1
  <1>3. Spec => []BareIsFresh
    <2>1. Init => BareIsFresh
      BY InitIInv
    <2> QED
      BY <2>1, BareIsFreshNext, AlwaysIInv, PTL DEF Spec
  <1> QED
    BY <1>2, <1>3, AlwaysIInv, PTL DEF Spec, BootsDoNotCollide
=============================================================================
