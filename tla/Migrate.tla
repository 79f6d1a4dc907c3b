-------------------------------- MODULE Migrate --------------------------------
(***************************************************************************)
(* The seven migrations of src/src/schema.rs, applied by replicas that boot *)
(* over one database: a fresh one, or one an earlier release left.  The     *)
(* runner (yadgar-store, migrate::apply) is external.  A migration's        *)
(* statements commit one by one, its ledger row follows the last of them,   *)
(* and a replica may die between any two.                                   *)
(***************************************************************************)
EXTENDS Naturals, Sequences, FiniteSets

CONSTANTS
  Replicas,    \* pods of this release
  Rows,        \* project paths, each in one spelling
  Key,         \* Key[p]: the case-folded key of p
  Private,     \* the paths under local/
  Stores,      \* databases this release may find
  MaxCrashes   \* bound: replicas killed while they boot or serve

(***************************************************************************)
(* The migrations.  A statement makes parts of the schema; a bare one is   *)
(* refused where they exist, any other one is a no-op there.               *)
(***************************************************************************)
Bare(parts)    == [makes |-> parts, bare |-> TRUE]
Guarded(parts) == [makes |-> parts, bare |-> FALSE]

create_project == <<Bare({"project", "path_ci", "class_columns", "ck_class", "ck_class_path"})>>
project_alias == <<Bare({"project_alias"})>>
project_write_idempotency == <<Bare({"project_write"})>>
pin_the_path_collation == <<Guarded({"path_ci"}), Guarded({"alias_ci"})>>
project_sync_lock == <<Guarded({"sync_lock"}), Guarded({"sync_lock_row"})>>

\* Mutant: the columns, without their constraints.
project_class_columns_only == <<Guarded({"class_columns"})>>

project_class_columns ==
  <<Guarded({"class_columns"}), Guarded({"ck_class"}), Guarded({"ck_class_path"})>>
project_grant == <<Guarded({"project_grant"})>>

all == <<create_project, project_alias, project_write_idempotency, pin_the_path_collation,
         project_sync_lock, project_class_columns, project_grant>>

Versions == DOMAIN all
Effects(v) == UNION {all[v][i].makes : i \in DOMAIN all[v]}
Complete == UNION {Effects(v) : v \in Versions}
Part == Complete \cup {"newer"}   \* what a later release's migration made

(***************************************************************************)
(*                            Rows and constraints                          *)
(***************************************************************************)
Class == {"org", "private"}
ClassOf(p) == IF p \in Private THEN "private" ELSE "org"
Stored(rows) == {p \in Rows : rows[p] # "absent"}

NoTwins(rows)    == \A p, q \in Stored(rows) : Key[p] = Key[q] => p = q
Classed(rows)    == \A p \in Stored(rows) : rows[p] \in Class
ClassFits(rows)  == \A p \in Stored(rows) : rows[p] = "private" <=> p \in Private

\* What the constraints of a schema say of its rows.
Obeys(rows, schema) ==
  /\ "path_ci" \in schema => NoTwins(rows)
  /\ "ck_class" \in schema => Classed(rows)
  /\ "ck_class_path" \in schema => ClassFits(rows)
  /\ "class_columns" \notin schema => \A p \in Stored(rows) : rows[p] = "unclassed"
  /\ "project" \notin schema => Stored(rows) = {}

\* A ledger row stands for its migration, except that v0.1.x's create_project
\* made no class columns; project_class_columns makes up for that.
IsTrue(ledger, schema) ==
  /\ \A v \in (ledger \cap Versions) \ {1} : Effects(v) \subseteq schema
  /\ 1 \in ledger => "project" \in schema
  /\ {1, 6} \subseteq ledger => Effects(1) \subseteq schema

ASSUME MigrateAssumption ==
  /\ "free" \notin Replicas /\ "orphan" \notin Replicas
  /\ Key \in [Rows -> Rows]
  /\ Private \subseteq Rows
  /\ MaxCrashes \in Nat
  /\ \A s \in Stores :
       /\ s.rows \in [Rows -> Class \cup {"absent", "unclassed"}]
       /\ s.old \in BOOLEAN
       /\ IsFiniteSet(s.ledger) /\ s.ledger = 1..Cardinality(s.ledger)
       /\ s.schema \subseteq Part
       /\ s.ledger \subseteq Versions => s.schema \subseteq Complete
       /\ ~(s.ledger \subseteq Versions) => "newer" \in s.schema
       /\ IsTrue(s.ledger, s.schema)
       /\ Obeys(s.rows, s.schema)
       /\ \A v \in Versions \ s.ledger :
            \A i \in DOMAIN all[v] : all[v][i].bare => all[v][i].makes \cap s.schema = {}

VARIABLES
  schema,    \* what the database has
  ledger,    \* yadgar_schema_migrations: versions recorded
  rows,      \* project: each path's class
  lock,      \* GET_LOCK: "free", a replica, or "orphan", a dead replica's session
  orphan,    \* where that session still is
  pc,        \* pc[r]: "down", "lock", "ledger", "run", "migrated", "serving"
  at,        \* at[r]: the migration, and the next of its statements
  old,       \* a v0.1.x replica still serves
  crashes

vars == <<schema, ledger, rows, lock, orphan, pc, at, old, crashes>>
boot_vars == <<lock, orphan, pc, at, crashes>>

\* Position i of migration v; one past its last statement is its ledger row.
Position == {p \in Versions \X (1..4) : p[2] <= Len(all[p[1]]) + 1}
Nowhere == <<1, 1>>
IsRecord(position) == position[2] > Len(all[position[1]])
StatementAt(position) == all[position[1]][position[2]]
Following(position) == <<position[1], position[2] + 1>>

Init ==
  /\ \E s \in Stores :
       schema = s.schema /\ ledger = s.ledger /\ rows = s.rows /\ old = s.old
  /\ lock = "free"
  /\ orphan = Nowhere
  /\ pc = [r \in Replicas |-> "down"]
  /\ at = [r \in Replicas |-> Nowhere]
  /\ crashes = 0

(***************************************************************************)
(*                             One statement                                *)
(***************************************************************************)
\* Mutant: a constraint is added without looking at the rows.
RefusesNoRow(statement) == statement.bare /\ statement.makes \cap schema # {}

\* 1050, the table exists; 1062, two rows become one; 4025, a row in no class,
\* or in the other one.
Refuses(statement) ==
  \/ statement.bare /\ statement.makes \cap schema # {}
  \/ ~(statement.makes \subseteq schema) /\ ~Obeys(rows, schema \cup statement.makes)

(***************************************************************************)
(*                             One replica boots                            *)
(***************************************************************************)
Goto(r, label) == pc' = [pc EXCEPT ![r] = label]

\* Configuration, watch set and probe; the kubelet restarts what exits.
Boot(r) ==
  /\ pc[r] = "down"
  /\ Goto(r, "lock")
  /\ UNCHANGED <<schema, ledger, rows, lock, orphan, at, old, crashes>>

\* Mutant: nobody waits.
TakeNoLock(r) ==
  /\ pc[r] = "lock"
  /\ lock' = r
  /\ Goto(r, "ledger")
  /\ UNCHANGED <<schema, ledger, rows, orphan, at, old, crashes>>

TakeLock(r) ==
  /\ pc[r] = "lock"
  /\ lock = "free"
  /\ lock' = r
  /\ Goto(r, "ledger")
  /\ UNCHANGED <<schema, ledger, rows, orphan, at, old, crashes>>

\* DB_MIGRATION_LOCK_TIMEOUT_SECONDS run out: the boot fails.
LockTimesOut(r) ==
  /\ pc[r] = "lock"
  /\ lock # "free"
  /\ Goto(r, "down")
  /\ UNCHANGED <<schema, ledger, rows, lock, orphan, at, old, crashes>>

\* Mutant: an error path that returns before RELEASE_LOCK.
LeaveLocked(r, label) == Goto(r, label) /\ UNCHANGED lock

\* apply returns, or fails: either way the session gives the lock back.
Leave(r, label) ==
  /\ Goto(r, label)
  /\ lock' = IF lock = r THEN "free" ELSE lock

\* LedgerUnknown, NotApplied, nothing pending, or the first pending migration.
ReadLedger(r) ==
  LET newest == Cardinality(ledger) IN
  /\ pc[r] = "ledger"
  /\ \/ /\ ~(ledger \subseteq Versions) \/ ledger # 1..newest
        /\ Leave(r, "down")
        /\ UNCHANGED at
     \/ /\ ledger = Versions
        /\ Leave(r, "migrated")
        /\ UNCHANGED at
     \/ /\ ledger # Versions /\ ledger \subseteq Versions /\ ledger = 1..newest
        /\ Goto(r, "run")
        /\ at' = [at EXCEPT ![r] = <<newest + 1, 1>>]
        /\ UNCHANGED lock
  /\ UNCHANGED <<schema, ledger, rows, orphan, old, crashes>>

\* Mutant: an error is logged and the next statement runs.
RunStatementRegardless(r) ==
  /\ pc[r] = "run"
  /\ ~IsRecord(at[r])
  /\ schema' = IF Refuses(StatementAt(at[r])) THEN schema
               ELSE schema \cup StatementAt(at[r]).makes
  /\ at' = [at EXCEPT ![r] = Following(at[r])]
  /\ UNCHANGED <<ledger, rows, lock, orphan, pc, old, crashes>>

\* Each DDL statement commits by itself.
RunStatement(r) ==
  /\ pc[r] = "run"
  /\ ~IsRecord(at[r])
  /\ ~Refuses(StatementAt(at[r]))
  /\ schema' = schema \cup StatementAt(at[r]).makes
  /\ at' = [at EXCEPT ![r] = Following(at[r])]
  /\ UNCHANGED <<ledger, rows, lock, orphan, pc, old, crashes>>

StatementRefused(r) ==
  /\ pc[r] = "run"
  /\ ~IsRecord(at[r])
  /\ Refuses(StatementAt(at[r]))
  /\ Leave(r, "down")
  /\ UNCHANGED <<schema, ledger, rows, orphan, at, old, crashes>>

\* The ledger row; then the next migration, or none.
Record(r) ==
  LET version == at[r][1] IN
  /\ pc[r] = "run"
  /\ IsRecord(at[r])
  /\ ledger' = ledger \cup {version}
  /\ \/ /\ version + 1 \in Versions
        /\ at' = [at EXCEPT ![r] = <<version + 1, 1>>]
        /\ UNCHANGED <<pc, lock>>
     \/ /\ version + 1 \notin Versions
        /\ Leave(r, "migrated")
        /\ UNCHANGED at
  /\ UNCHANGED <<schema, rows, orphan, old, crashes>>

Serve(r) ==
  /\ pc[r] = "migrated"
  /\ Goto(r, "serving")
  /\ UNCHANGED <<schema, ledger, rows, lock, orphan, at, old, crashes>>

(***************************************************************************)
(*                                 Crashes                                  *)
(***************************************************************************)
\* A replica is killed.  What it had sent may still be running in a session
\* that holds the lock as long as it lives.
Crash(r) ==
  /\ pc[r] # "down"
  /\ crashes < MaxCrashes
  /\ crashes' = crashes + 1
  /\ \/ /\ Leave(r, "down")
        /\ UNCHANGED orphan
     \/ /\ lock = r /\ pc[r] = "run"
        /\ Goto(r, "down")
        /\ lock' = "orphan"
        /\ orphan' = at[r]
  /\ UNCHANGED <<schema, ledger, rows, at, old>>

\* The rest of a migration's text may have been sent with the statement.
OrphanRuns ==
  /\ lock = "orphan"
  /\ IF IsRecord(orphan) THEN /\ ledger' = ledger \cup {orphan[1]}
                              /\ lock' = "free"
                              /\ UNCHANGED <<schema, orphan>>
     ELSE IF Refuses(StatementAt(orphan))
          THEN lock' = "free" /\ UNCHANGED <<schema, ledger, orphan>>
          ELSE /\ schema' = schema \cup StatementAt(orphan).makes
               /\ UNCHANGED ledger
               /\ IF IsRecord(Following(orphan))
                  THEN lock' = "free" /\ UNCHANGED orphan
                  ELSE orphan' = Following(orphan) /\ UNCHANGED lock
  /\ UNCHANGED <<rows, pc, at, old, crashes>>

OrphanEnds ==
  /\ lock = "orphan"
  /\ lock' = "free"
  /\ UNCHANGED <<schema, ledger, rows, orphan, pc, at, old, crashes>>

(***************************************************************************)
(*                        Writers and the operator                          *)
(***************************************************************************)
Fits(p, class) == Obeys([rows EXCEPT ![p] = class], schema)

\* A sync or a registration of this release; 1054 without the class columns.
Write(r, p) ==
  /\ pc[r] = "serving"
  /\ rows[p] = "absent"
  /\ "class_columns" \in schema
  /\ Fits(p, ClassOf(p))
  /\ rows' = [rows EXCEPT ![p] = ClassOf(p)]
  /\ UNCHANGED <<schema, ledger, boot_vars, old>>

\* v0.1.x, until the rolling update ends it, registers as it always has; the
\* engine may take the row as long as no constraint names the columns.
OldWrites(p) ==
  /\ old
  /\ "project" \in schema
  /\ rows[p] = "absent"
  /\ Fits(p, "unclassed")
  /\ rows' = [rows EXCEPT ![p] = "unclassed"]
  /\ UNCHANGED <<schema, ledger, boot_vars, old>>

OldEnds ==
  /\ old
  /\ old' = FALSE
  /\ UNCHANGED <<schema, ledger, rows, boot_vars>>

\* MIGRATION_NOTES.md: a refused boot is settled row by row, and the class
\* an operator types may be the wrong one.
Settle(p) ==
  /\ rows[p] # "absent"
  /\ \E class \in Class \cup {"absent"} :
       /\ class # "absent" => "class_columns" \in schema /\ rows[p] # ClassOf(p)
       /\ class = "absent" => rows[p] # ClassOf(p) \/ ~NoTwins(rows)
       /\ Fits(p, class)
       /\ rows' = [rows EXCEPT ![p] = class]
  /\ UNCHANGED <<schema, ledger, boot_vars, old>>

BootStep(r) ==
  \/ Boot(r) \/ TakeLock(r) \/ LockTimesOut(r) \/ ReadLedger(r)
  \/ RunStatement(r) \/ StatementRefused(r) \/ Record(r) \/ Serve(r)

Next ==
  \/ \E r \in Replicas : BootStep(r) \/ Crash(r)
  \/ \E r \in Replicas, p \in Rows : Write(r, p)
  \/ \E p \in Rows : OldWrites(p) \/ Settle(p)
  \/ OrphanRuns \/ OrphanEnds \/ OldEnds

Spec == Init /\ [][Next]_vars

\* A pod that exits is started again and its boot goes on; a session without
\* a client ends.  Nobody must write, settle rows or end the old release.
Fairness ==
  /\ \A r \in Replicas : WF_vars(BootStep(r))
  /\ WF_vars(OrphanRuns \/ OrphanEnds)

FairSpec == Spec /\ Fairness

(***************************************************************************)
(*                                Properties                                *)
(***************************************************************************)
\* Types; the lock is held by the one replica that is at work in the database.
TypeOK ==
  /\ schema \subseteq Part
  /\ ledger \subseteq Nat
  /\ rows \in [Rows -> Class \cup {"absent", "unclassed"}]
  /\ lock \in Replicas \cup {"free", "orphan"}
  /\ orphan \in Position
  /\ pc \in [Replicas -> {"down", "lock", "ledger", "run", "migrated", "serving"}]
  /\ at \in [Replicas -> Position]
  /\ old \in BOOLEAN
  /\ crashes \in 0..MaxCrashes
  /\ \A r \in Replicas : pc[r] \in {"ledger", "run"} <=> lock = r

\* A replica serves on the whole schema and on no other, whatever release left
\* the store and wherever boots died on the way (main.rs, run; tests/upgrade.rs:
\* an upgraded store has exactly the schema a fresh one has).
ServesOnlyWhole == \A r \in Replicas : pc[r] = "serving" => schema = Complete

\* No ledger row lies: what it stands for is in the schema, in every state
\* between two statements (schema.rs, the RE-RUNNABLE paragraphs).
LedgerIsTrue == IsTrue(ledger, schema)

\* While a replica serves, every row is in one class, the one its path says, and
\* no two rows share a key, though the old release may still be writing and an
\* operator has been at the rows (create_project, project_class_columns).
ServedRowsAreClassed ==
  (\E r \in Replicas : pc[r] = "serving") =>
    NoTwins(rows) /\ \A p \in Stored(rows) : rows[p] = ClassOf(p)

\* Rows that a constraint still to be made would refuse.
RowsRefuse == ~Obeys(rows, schema \cup {"path_ci", "class_columns", "ck_class", "ck_class_path"})

\* Replicas that boot together do not refuse one another's statements: a boot
\* is refused because of rows, or after a crash (migrate::apply under GET_LOCK;
\* the CREATEs of migrations 1 to 3 carry no IF NOT EXISTS).
BootsDoNotCollide ==
  [][\A r \in Replicas : StatementRefused(r) => RowsRefuse \/ crashes > 0]_vars

\* A table of migrations 1 to 3 whose ledger row was lost: the CREATE is bare, so
\* no boot passes it.
Stranded ==
  \E v \in Versions \ ledger :
    /\ \E i \in DOMAIN all[v] : all[v][i].bare /\ all[v][i].makes \cap schema # {}
    /\ ~\E r \in Replicas : pc[r] = "run" /\ at[r] = <<v, Len(all[v]) + 1>>

Blocked == ~(ledger \subseteq Versions) \/ Stranded \/ RowsRefuse

\* Unless a newer release, a stranded CREATE or rows to be settled stand in the
\* way, every replica comes to serve for good: a crash anywhere in migrations 4
\* to 7 is made good by the next boot, and a dead session's lock is let go.
BootsEnd == <>[]~Blocked => <>[](\A r \in Replicas : pc[r] = "serving")
=============================================================================
