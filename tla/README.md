# A verification project for project-db

`project-db` is the store of Yadgar's projects: a Rust gRPC server over one
MariaDB (InnoDB) database, run as several replicas.  This directory holds TLA+
modules translated from its source (`src/`), the TLC configurations that check
them on small instances, and theorems that the TLA+ proof system checks for
every instance.  Paths below are relative to the repository (`src/src/read.rs`
is the crate's `read.rs`).

## 1. Inventory

| Component | Source | State it keeps | Operations | Modelled in |
|---|---|---|---|---|
| SyncProjects | `write/sync.rs`, `write/grants.rs` | tables `project`, `project_grant`; the sentinel row `project_sync_lock` | one declaration of the whole organisation namespace: insert, update, reactivate, archive, grant, revoke | `Requests` (its checks), `SyncProjects`, `Registry`, `ProjectStore` |
| TouchProjects | `write/touch.rs` | `project.last_seen_at` | one flush: check, deduplicate, advance, count, warn | `Requests`, `SyncProjects`, `Registry` |
| RegisterProject | `write/register.rs`, `idem.rs` | `project` (one account's rows), `project_write` (the D9 idempotency record) | check, claim, replay, refuse, insert, record | `Requests` (its checks), `RegisterProject`, `Registration` |
| GetProject, ListProjects | `read.rs` | none; reads three tables | one get of three SELECTs; pages of a list | `ReadProjects` |
| ResolveProject | `read.rs` | none; reads two tables | nearest registered ancestor of a path, live or former | `Resolve` |
| Path grammar, classes | `path.rs` | none | validate, fold, classify, own, walk up; the LIKE pattern of a subtree | `Paths`, `PathLaws` |
| Pooled connections | `pooled.rs` | the sqlx pool; a flag per connection | acquire within a deadline, cancel-safe BEGIN, close or return on drop | `Pool` |
| Schema | `schema.rs` | the tables, the migration ledger | seven migrations at boot, eleven statements | `Migrate` |
| Boot, serve, rotation, drain | `main.rs`, `boot.rs`, `boot/`, `rotate.rs` | what it read at boot, the watch set, the signal handlers, the drain's budget | read, hash, probe, migrate, arm, serve, notice, stop, drain | `Lifecycle` (all but the parsing of knobs), `Migrate` |
| RPC surface | `service.rs`, `rows.rs`, `sql.rs`, `write.rs` | none | decode, call, map errors to statuses | `Internal` in each module |
| Deployment | `chart/`, `scripts/`, `proto/` | none at run time | rendering, contracts | out of scope |

How they interact.  Handlers share nothing in memory but the connection pool:
every interaction goes through the database.  Each writing verb takes one pooled
connection, opens one transaction, and either commits or is rolled back; tonic
drops a handler at the caller's deadline wherever it awaits, which rolls back
too, unless COMMIT is already on the wire.  Syncs serialise on the sentinel row.
Flushes do not take it, so they interleave with a sync statement by statement and
meet it only at row locks.  Reads take no lock.  `project_alias` (former paths)
is written by no verb this build serves: RenameProject and ArchiveProject answer
UNIMPLEMENTED (`write.rs`), so former paths are constants here.

What is hard.  Two syncs deciding from reads; a flush committing between a sync's
read and its UPDATE; a sync and a flush locking rows in different orders; a
commit whose answer is lost, and the retry; two retries of one key at once; a
refusal after the key has been claimed; a read made of several autocommit
statements; pages of a list while the namespace changes; two spellings of one name
in one request; a boot killed between two DDL statements, and the session it leaves
behind; an old release writing while the new one migrates; a mounted file replaced
while the process reads it, a SIGTERM during a drain.  `PROJECT.json` lists
each at its line, under "hazards".

What makes each component correct:

* SyncProjects: it takes effect at one instant or not at all, on the store as it
  is at that instant, and the store it leaves is the declaration; it refuses to
  archive, or to revoke, more than half unless told to; its counts are true; no
  grant outlives the activity of its row; no project appears at a former path.
* TouchProjects: `last_seen_at` never moves back, by nobody's hand; a flush that
  was answered OK lasts; `version` does not count it.
* RegisterProject: one row per key; an answer, its row and its record stand or
  fall together; a retry is never told that its own row is a conflict; each call takes
  effect at one instant or not at all.  A race may deadlock in the engine: its victim
  is told to try again and has had no effect, and every call is answered.
* Reads: a page walk repeats nothing and loses nothing that was there all along.
* ResolveProject: the nearest name wins; a private path never resolves out of its
  account; all spellings of a key are told the same; nobody is told to register
  what is taken.
* Paths: a path has one class, the engine's; a key has one writer.
* Pool: a connection that comes back is clean, none is lost, and a caller that
  waits for one is answered before its deadline.
* Requests: what the checks admit is what the transactions are written for.
* Schema: whoever serves has the whole schema, and the ledger never lies, wherever a
  boot was cut off; a boot ends in serving unless something named stands in its way.
* Lifecycle: a call is cut only when its drain's budget is spent; a process that
  heard SIGTERM is not killed; a changed mount is noticed, and once.
* All: every call that began is answered.

## 2. Modules

| Module | What it is |
|---|---|
| `ProjectStore` | the two tables a sync writes, declarations and flush requests, and the vocabulary of both |
| `Registry` | the abstract specification: what a sync and a flush promise, one step per call |
| `SyncProjects` | `write/sync.rs`, `write/grants.rs` and `write/touch.rs` statement by statement; shown to implement `Registry` |
| `SyncProjectsProofs` | the theorems about `SyncProjects`: its inductive invariant, its invariants and action properties |
| `SyncImplementsRegistry` | the theorem that `SyncProjects` implements `Registry` |
| `Registration` | the abstract specification of RegisterProject under D9: open, register, replay, refuse, or no effect, one step per call |
| `RegisterProject` | `write/register.rs` and `idem.rs` statement by statement; shown to implement `Registration` |
| `RegisterProjectProofs` | the theorems about `RegisterProject`, that it implements `Registration` among them |
| `ReadProjects` | the reads of `read.rs` beside `Registry`'s writers |
| `ReadProjectsProofs` | the theorem about its paging |
| `Paths` | `path.rs`, the admission rules of both writers, and the LIKE pattern of `sql.rs`, as operators |
| `PathLaws` | a caller that types every short string, and what the operators of `Paths` owe each other |
| `Resolve` | `resolve` and `ancestor_rows` of `read.rs`, over stores that registrations and declarations fill |
| `Requests` | the checks of `sync.rs` (`validate`, `row`, `refuse_duplicates`), `grants.rs` (`validate`), `register.rs` (`register`, `Class::of`) and `touch.rs`, with `deduplicated`; composes `Paths` with `ProjectStore` |
| `PathProofs` | the theorems about `PathLaws`, `Resolve` and `Requests`, with the inductions over strings they need |
| `Migrate` | the migrations of `schema.rs`, replicas booting over one database, and the stores earlier releases left |
| `MigrateProofs` | the theorems about `Migrate` |
| `Lifecycle` | one pod of `main.rs`, `rotate.rs` and `boot::shutdown`, from its first read to its exit |
| `LifecycleProofs` | the theorems about `Lifecycle` |
| `Pool` | `pooled.rs`, with sqlx's pool, the engine's sessions and tonic's deadline around it |
| `PoolProofs` | the theorems about `Pool` |
| `MCSyncProjects`, `MCSyncCalls`, `MCReadProjects`, `MCRegisterProject`, `MCPaths`, `MCMigrate`, `MCLifecycle`, `MCPool` | instances for TLC; `MCPaths` composes `PathLaws`, `Resolve` and `Requests` over one alphabet |

**SyncProjects.** `project` and `project_grant` are the committed tables.  A
transaction's own writes are in `draft` and `outcome` until `Commit`.  One action
per statement: `LockSentinel` (`SELECT ... FOR UPDATE`, sync.rs:287), `ReadAndPlan`
and `ReadAndRefuse` (the three SELECTs of sync.rs:292-321, which share one read
view, and everything decided from them), `Insert`/`Overwrite`/`Leave` (`write_one`
on one declared row), `Archive` (one row of the UPDATE in `archive`; its row locks
come one by one), `WriteGrants` (`grants::write`), `Commit`.  Their failures are
actions too: `UpdateFails`, `WriteGrantsFails`, `WaitFails`,
`AbandonSync`.  Declared rows are written in no fixed order, because a caller may
declare them in any.  A flush is `BeginFlush`, `Touch` once per row its UPDATE
scans, `Count`, `CommitFlush`; `touched` are the rows it rewrote and has not
committed.  `answer` is the status on the wire and `error` the engine's number it
was made from; `Internal` is `sql::internal`.  `covered` is a history variable.

**RegisterProject.** `claim` → (`alias` → `insert` → `record` → `commit`) or
`claim` → `replay`.  `slot_lock` holds an uncommitted claim, `path_lock` an
uncommitted row.  Calls whose INSERT is queued behind one of these (`Rivals`) may be
granted a shared lock, in `slot_share` or `path_share`, when its transaction ends
(`GrantShares`).  Behind a COMMIT they find a duplicate.  Behind a ROLLBACK
(register.rs:156, 188) there is none, and each may insert only once the others have
let go (`AloneAtClaim`, `AloneAtPath`): two or more are a deadlock, at the claim or at
the path.  `WaitFails` may end any statement that locks, because the gap locks beside
a key are not kept track of.  A row's id is the call that wrote it, so "the same row" is
"the same call".  To `Registration` a call is `idle`, `open` (from BEGIN on) or `answered`
(`CallState` of its program counter); the tables, requests and answers are themselves.

**ReadProjects.** Each SELECT is a step; the writers are `Registry`'s, one step
per call.  `walk_under` and `walk_status` are what a walk asks for, the same on
every page.  `get_states` and `walk_steady` are history variables.

**Paths, PathLaws, Resolve.** A path is a sequence of characters, since the grammar
and the case fold are what these modules are about; the alphabet, the reserved
segment, the width and the accounts' segments are constants.  `Resolve` is one step
per call because `ancestor_rows` is one statement: `Refused`, `Chain`,
`AncestorRows`, `Best` and `Exact` are the parts of `resolve`, in its order.  Its
stores start as one of `Legacy`, stores an earlier build may have left (with a row
or a former path at the reserved segment, and renamed projects), and grow by
`Register` and `Sync`; `Sync` is the effect of a whole declaration whose guards let
it write, its statements being `SyncProjects`' subject.  `answer` is dropped when
the store changes: an answer speaks of the store it was read from.

**Pool.** `pc` says where a call awaits.  `Acquire` computes the one timer that
bounds its wait (`Deadline::bound`) or refuses at once; `Take`, `TimeOut` and
`CutOffWaiting` end the wait, the last for a handler that is dropped and for an
acquire that fails other than by its timeout.  `Send` arms the connection while BEGIN is in flight
(`Pooled::armed`), `BeginReturns` disarms it.  `Release` is `Drop for Pooled`: an
armed connection is closed, any other goes back on a task of its own (`Return`).
`CutOff` may happen at every await.  The engine executes what is on the wire
whether or not anybody awaits it (`Execute`); sqlx rolls back on the way to the pool
only a transaction it counted, which it does once BEGIN has returned: that is the
gap the flag closes.  Time is a number of ticks and matters only while a call
waits; after that (`StopClock`) it may be cut off at any moment.

**Requests.** A caller puts a declaration or a flush together (`Declare`, `Offer`),
or sends a registration (`AskToRegister`).
`Admitted` is the verdict of `sync.rs:validate`, with `RowIsLegal` for `row` and
`GrantsAreLegal` for `grants::validate`; `TouchAdmitted` is the checks of `touch`,
`Deduplicated` is `sort_by_key`, which is stable (`Sorted`), and `dedup_by` (`Dedup`).  The properties
relate them to `ProjectStore`: a request that is admitted, read by folded key, is a
`Declaration` that is `Admissible`, or a `FlushRequest`, which is what
`SyncProjects` and `Registry` take for granted (`InputAssumption`); and the row either
writer inserts passes both CHECKs of `create_project` as the engine evaluates them
(`ProjectChecks`).

**Migrate.** `all` is the list of `schema.rs`, each migration a sequence of
statements, each statement the parts of the schema it makes and whether it is bare
(no `IF NOT EXISTS`).  A replica goes `down` → `lock` → `ledger` → `run` →
`migrated` → `serving`.  `RunStatement` commits one DDL statement, `StatementRefused`
is one the engine refuses, because the part exists or because a row breaks the
constraint it adds; `Record` writes the ledger row.  `Crash` kills a replica at any
moment; its session may live on (`orphan`), hold the lock, and finish what was sent.
Rows come from replicas that serve (`Write`), from a v0.1.x pod during a rolling
update (`OldWrites`), and from the operator MIGRATION_NOTES.md asks to settle them.
The stores found are one of each kind a release left: fresh, v0.1.x empty, v0.1.x
with an unclassed row, one whose columns compare case, v0.2 to v0.6, the two v0.7,
and one that a later release has migrated further.

**Lifecycle.** `pc` is the step of `run` and `serve` the process is at.  `used` is
the version of each file it works with, `baseline` the version it hashed, `disk` the
one mounted.  A file that cannot be read fails the boot step that reads it
(`BootFails`); one that cannot be read when it is hashed has the hash `Unread`, as in
`unread_at_boot` of tests/assembly.rs, and `MeetUnread` is the watcher's first look at
it.  `Notice` is a poll that reads a change, `StopOnRotation` and
`StopOnSignal` the arms of the `select!`, `Overrun` and `Finish` the two results of
`drain_within`.  Time passes in ticks while a drain or the grace period runs.

### What the engine is taken to do

The database is outside the repository; it is modelled from how the code uses it
and from what its comments say they measured, and its rows in the map are marked
external.  A write is private to its transaction until COMMIT, and its row locked
until then.  The first plain SELECT of a transaction opens the read view all later
ones read.  An UPDATE locks and reads the newest committed row, and raises 1020
when that row is newer than an open read view (touch.rs measured this; it is why
`touch` counts after it updates).  An INSERT into a unique index waits for a
transaction that inserted the same value.  When that one ends, the INSERTs queued
behind it are granted a shared lock, which they keep, duplicate or not.
A wait that does not end ends in 1205 or 1213.  Where the source does not settle
what the engine does, both outcomes are allowed: whether a grant's foreign-key
lock raises 1020 (`WriteGrantsFails`), whether an INSERT over a row newer than the
read view answers 1062 or 1020 (`RefuseTakenPath`), and whether a flush that found
no row holds the gap (`MeetsGap`).

The migration runner (yadgar-store), kubelet, tokio and yadgar-lifecycle are outside
it too.  The runner takes `GET_LOCK` on one session, which holds it until it is
released or ends, reads the ledger, refuses one that is ahead or has holes, and runs
what is pending, the ledger row last.  DDL commits by itself.  kubelet restarts a
container that exits, sends SIGTERM after the preStop sleep and SIGKILL at the end
of the grace period, and replaces mounted files at any moment.  A process without a
handler dies of SIGTERM, or, where it runs as PID 1, does not notice it: both are
allowed.  Whether the listener's own type keeps the hash of the bytes it parsed or
reads the file again is not settled by the source: `Hash` allows both.  Nor is what the
watcher makes of a file that has no hash: `MeetUnread` lets it be a change or the new
hash, or happen never, and `SettlesOnTheMount` promises nothing while there is one.

### What is abstracted

* Paths are case-folded keys: the column's collation and every comparison fold
  ASCII case.  A path is a model value, except in `Paths`, `PathLaws` and `Resolve`.
* `display_name` and `source_repo` are written and compared together: one
  `content`.  `created_by`, `updated_by`, `updated_at` follow `version`.
* In `SyncProjects` every check before a transaction exists is one refusing action,
  `TurnAway`, and a declaration is `Admissible`; `Requests` has the checks and shows
  that they leave nothing else.
* In `Requests` a width is kept or exceeded, a repository given or empty, and a
  level or a team id legal or not; in `Migrate` a table and each constraint that
  a migration is about are one part, and a row is its path and its class.
* In `Lifecycle` the listener's certificate, key and client CA are one file, and the
  engine's CA is left out (it has the password's life).
* Times are naturals, 0 for SQL NULL.  Versions are unbounded naturals (the column
  is a BIGINT UNSIGNED; it grows by one a call).
* Each call is made at most once, so a run ends when all are answered: this is why
  every configuration says `CHECK_DEADLOCK FALSE`.  That no call is left waiting
  is checked as the liveness property `CallsEnd` instead.

## 3. Runs

| Run | Instance | What it shows |
|---|---|---|
| `SyncPair` | two syncs, one flush; 4 paths (a root, two projects, a former path), 1 team, 2 levels, 2 contents; 7 declarations; an empty, a used and a full store | types; the sentinel makes reads stay true (`ViewIsCurrent`); `GrantsFollowTheirRow`; `FormerPathsStayFree`; `NoSyncCollides`; `SyncsNeverDeadlock`; `CountsAreTrue`; the refinement `ImplementsRegistry` |
| `SyncCalls` | two syncs and a flush, or one sync and two flushes with different times, one naming a former path; `FairSpec` | `FlushesLast`, `RowsEvolve`, `CallsEnd` |
| `Register` | three calls over a key and its retries, the key on another path, the path under another key, the path without a key, the key on a former path; a record left by another build's rpc | `RecordedIffWritten`, `OkIsTheCommittedRow`, `ConflictIsForeign`, the refinement `ImplementsRegistration`, and under `FairSpec` `CallsEnd`, through the deadlocks of retries at a spent key and of calls queued behind one that rolls back |
| `Reads` | two syncs, a flush, one get, one walk of everything or of one project, with and without a status, pages of one | `WalksTellEachRowOnce`: no boundary repeats or loses a row, no page is too long |
| `Paths` | every string of up to 6 characters over 7 (two letters, the reserved one in both cases, `_`, `/`, a blank), width 5, two accounts, listing under every string of up to 3; 10 names and 18 candidates, 9 stores found, up to 4 rows; declarations of up to two roots and two projects from 13 rows, flushes of up to 3 names of 6 at 4 times; 216 registrations | `WalksTheAncestors`, `ListsTheSubtree`, `ClassIsTheEngines`, `OneWriterPerKey`; `NearestNameWins`, `PrivatePathsStayPrivate`, `SpellingsAgree`, `NoticeIsNoDeadEnd`, types with the uniqueness of keys; `AdmittedIsAdmissible`, `FlushNamesAreCounted` |
| `Pool` | three calls, two connections, five budgets around the margin and the ceiling | `HandsOutClean`, `HeldByOne`, `AnsweredBeforeDeadline`, and under `FairSpec` `WaitingEnds` |
| `Migrate` | two replicas, eight stores found, three paths of which two are one key and one is private, two crashes | `ServesOnlyWhole`, `LedgerIsTrue`, `ServedRowsAreClassed`, `BootsDoNotCollide`, and under `FairSpec` `BootsEnd` |
| `Lifecycle` | one pod, two calls, two swaps, one outage of a mount at any moment, boot included, one failed boot | `NotKilledOnceHeard`, `CutsAreEarned`, and under `FairSpec` `SettlesOnTheMount` |
| `SyncStale` | one sync, one flush | violated: see the findings |
| `FlushWarning` | one sync, one flush naming a path and its former path | violated |
| `GetTorn` | two syncs, one get | violated |
| `RotationBaseline` | the pod of `Lifecycle`, `FairSpec` | violated |

Bounds, and why they are enough.  Two syncs are the fewest that can collide, and
three add no new pair: a sync meets others only through the sentinel, which one
holds at a time.  Two flushes are the fewest that can arrive out of order.  Three
registrations are the fewest with two losers of one key or path, which is what it takes
to deadlock on a record or on the place of one; they differ in their requests only, so the instance takes
each assignment of requests once for all its permutations.  Four paths give
a root, two projects that can be split by the guards, and a former path; the declarations include the exact boundary of the
mass-archive guard (one of two active rows archived) on either side.  Pages of one
put a boundary between any two rows.  The reserved segment is one letter in the path
models, so that private paths of two accounts and something beneath one fit, and
`MaxLen` is one below the longest string typed, so that the width is met from both
sides.  `Resolve`'s names hold every relation that matters: a root, a child, a
grandchild, two spellings of one key, a string prefix that is no ancestor, the
reserved segment and private paths of two accounts.  Three calls over two
connections are the fewest where one waits while another's connection is on its way
back; the budgets are spent, just past the margin, on both sides of where the
ceiling takes over, and none.  Two replicas
are the fewest that can meet at the migration lock, and two crashes let the repair of
one crash be cut off by another.  Two swaps are one before and one after the baseline
is hashed, or one during the drain; a preStop sleep of one tick, a budget of two and
a margin of three are the smallest that satisfy the chart's test with a runtime one
tick late.  The names of a flush include two spellings of one with a name that sorts
between them byte by byte, and three names are the fewest that need it.  The
theorems below need none of these bounds.

### Fairness

`SyncStep`, `FlushStep` and `Step` are weakly fair per call: tokio polls a handler
whose connection has answered, and the engine answers a statement whose locks are
free.  Deadlock victims are weakly fair as one action, because InnoDB detects a
deadlock when it forms and rolls one member back.  Nothing else is: no caller must
call, no client must leave, no connection must fail, and no
`innodb_lock_wait_timeout` must expire.  So `CallsEnd` says that waiting ends
without any timeout.  Locks are not handed out in order, and need not be, since
each call is made once.

`Pool`'s `FairSpec` is fair to `Tick` and `TimeOut` only: time passes and a due timer
is polled.  No holder need end, no connection need come back, and a free connection
need not be handed over; `WaitingEnds` holds in spite of that.

`Migrate`'s `FairSpec` is fair to each replica's boot (kubelet restarts what exits)
and to the end of a session without a client.  A writer need not write, an operator
need not settle anything, and the old release need not go: so `BootsEnd` has a
premise, `Blocked`, that names what may stand in the way for good.  One such thing is
a crash between a bare CREATE of migrations 1 to 3 and its ledger row: the CREATE is
refused ever after.  No comment of `schema.rs` promises otherwise.

`Lifecycle`'s `FairSpec` is fair to boot, the watcher, what ends the process, time
and kubelet.  No call need be answered, no file replaced or become readable again, no
pod deleted.

## 4. Proofs

Every safety property that a run checks, invariant or action property, is proved for
every value of the constants that satisfies the named assumptions, and so are both
refinements; TLC's runs show the same on their instances, and the liveness properties.

| Theorem | Module | Property | What it establishes |
|---|---|---|---|
| `Invariance` | `SyncProjectsProofs` |  | The inductive invariant of the syncs and flushes: types, the sentinel's owner, what each open transaction has written and locked, and the five properties below. |
| `TypeCorrectness` | `SyncProjectsProofs` | `TypeOK` | Every commit stores rows and every call answers a status, whatever the calls and stores. |
| `SentinelSerializesSyncs` | `SyncProjectsProofs` | `ViewIsCurrent` | Between a sync's reads and its commit no other call changes a row's org columns or a grant. |
| `GrantsNeverOutliveTheirRow` | `SyncProjectsProofs` | `GrantsFollowTheirRow` | No committed state has a grant on an archived or missing row. |
| `FormerPathsAreNeverReclaimed` | `SyncProjectsProofs` | `FormerPathsStayFree` | No project is registered at a former path of another. |
| `SyncsNeverCollide` | `SyncProjectsProofs` | `NoSyncCollides` | No sync is refused by a unique index, two first syncs into an empty store included. |
| `RowsOnlyEvolve` | `SyncProjectsProofs` | `RowsEvolve` | No row disappears, last_seen_at never moves back, and version grows by one exactly when a status or content changes. |
| `OkFlushesLast` | `SyncProjectsProofs` | `FlushesLast` | A row that a flush answered OK found stays at or past the flush's seen_at, whatever syncs and late flushes follow. |
| `CountsNeverLie` | `SyncProjectsProofs` | `CountsAreTrue` | Every count of an OK SyncProjectsResponse is the number of rows its commit changed that way. |
| `SyncsDoNotDeadlock` | `SyncProjectsProofs` | `SyncsNeverDeadlock` | Concurrent syncs of any declarations, written in any order, never wait for each other in a cycle. |
| `OneRpcIsOneTransaction` | `SyncImplementsRegistry` | `ImplementsRegistry` | The statements of the syncs and flushes, however they interleave and fail, implement Registry: each call takes effect at one instant or not at all. |
| `ConnectionsComeBackClean` | `PoolProofs` | `HandsOutClean` | Wherever a call is cut off, its connection is handed out again only outside any transaction, with nothing on the wire. |
| `ConnectionsHaveOneHolder` | `PoolProofs` | `HeldByOne` | No connection is handed out twice and none is lost to the pool. |
| `StoreAnswersFirst` | `PoolProofs` | `AnsweredBeforeDeadline` | For every ceiling and budget, a margin larger than the runtime's lateness makes the store answer before the caller's deadline. |
| `TypeCorrect` | `RegisterProjectProofs` |  | Rows, records, locks and answers keep their shapes under every interleaving of registrations. |
| `RecordsMatchRows` | `RegisterProjectProofs` | `RecordedIffWritten` | A row is committed exactly when the record that a retry replays is, and the record names that row. |
| `KeysPayOnce` | `RegisterProjectProofs` |  | However many calls carry one idempotency key, one of them at most has written a row. |
| `OkIsDurable` | `RegisterProjectProofs` | `OkIsTheCommittedRow` | Whoever is answered OK, first call or replay, is told a committed row of its own request. |
| `ConflictsAreForeign` | `RegisterProjectProofs` | `ConflictIsForeign` | ALREADY_EXISTS is never about a row that the caller's own key wrote. |
| `RegistrationIsIdempotent` | `RegisterProjectProofs` | `ImplementsRegistration` | RegisterProject implements Registration, step by step: a call takes effect at one instant or not at all, replays its own request under a spent key and refuses any other, for every set of calls, paths, keys and requests. |
| `TypeCorrect` | `MigrateProofs` |  | At most one session holds the migration lock, and each replica is at a statement of a migration. |
| `LedgersAreTrue` | `MigrateProofs` | `LedgerIsTrue` | A recorded migration has made everything it makes, wherever boots were cut off and whatever sessions they left behind. |
| `ServesWhole` | `MigrateProofs` | `ServesOnlyWhole` | A replica that serves has the whole schema, for every set of replicas and every store found. |
| `RowsAreClassed` | `MigrateProofs` | `ServedRowsAreClassed` | No replica serves a store with a row of no class, old releases writing meanwhile included. |
| `BootsAgree` | `MigrateProofs` | `BootsDoNotCollide` | No two boots run statements in turns, so no DDL is refused because of the other's. |
| `TypeCorrect` | `LifecycleProofs` |  | The process, its files, its handlers and its clocks keep their shapes. |
| `HeardIsNotKilled` | `LifecycleProofs` | `NotKilledOnceHeard` | For every preStop sleep, budget and grace period within the chart's margin, a process that heard SIGTERM exits by itself. |
| `CutsAreDue` | `LifecycleProofs` | `CutsAreEarned` | A call in flight is cut only by a spent budget, an unheard signal, or the end of the grace period. |
| `KeysHaveOneWriter` | `PathProofs` | `OneWriterPerKey` | For every string: all its spellings together are open to one writer at most, the declaration or one account. |
| `ChainsAreTheAncestors` | `PathProofs` | `WalksTheAncestors` | For every string: what resolve walks is the path and its ancestors, deepest first, and each a path. |
| `ClassesAreTheEngines` | `PathProofs` | `ClassIsTheEngines` | For every string: the class the code reads off a path is the one the engine's LIKE 'local/%' reads off the row. |
| `ListsAreSubtrees` | `PathProofs` | `ListsTheSubtree` | For every two strings: the escaped LIKE pattern selects the subtree, metacharacters and case notwithstanding. |
| `TypeCorrect` | `PathProofs` | `TypeOK` | Every store keeps one project per key, live or former, whatever is registered and declared. |
| `NearestWins` | `PathProofs` | `NearestNameWins` | For every store and candidate: the answer is the project of the nearest name above it, or not_found when there is none. |
| `SpellingsAreTold` | `PathProofs` | `SpellingsAgree` | For every store and candidate: all spellings of a key are told the same. |
| `NoticesLeadSomewhere` | `PathProofs` | `NoticeIsNoDeadEnd` | For every store and candidate: a path told to be unregistered is free to register. |
| `PrivateStaysPrivate` | `PathProofs` | `PrivatePathsStayPrivate` | For every store and candidate: a path under an account's root resolves within that account. |
| `RequestsAreAdmissible` | `PathProofs` | `AdmittedIsAdmissible` | For every declaration and registration: what the checks admit is what the transactions are written for and what the tables' CHECKs take. |
| `FlushesAreCounted` | `PathProofs` | `FlushNamesAreCounted` | For every flush: what is admitted writes no NULL, and sorting by key and dropping equal neighbours leaves one name of each key. |
| `WalksAreComplete` | `ReadProjectsProofs` | `WalksTellEachRowOnce` | For every page size and every history of syncs and flushes, a finished walk told every row that matched all along, and told none twice, in pages no longer than asked for. |

The theorems without a property state an inductive invariant (`Invariance`), type
correctness where no run lists it (`TypeCorrect`), or what follows from a property that a run checks
(`KeysPayOnce`, from `RecordedIffWritten`).  Those about
`PathLaws` assume only that the name is a string over `Chars`; the others are
theorems of a specification (`Spec`, `ReadSpec`, `AskSpec`) without its fairness.

### Assumptions

TLC evaluates each of them in a passing run, so its instance satisfies it.

* `StoreAssumption`: finitely many paths and teams, every path has a root, former
  paths resolve to live ones.  `CallAssumption`: syncs and flushes are different
  calls.  `InputAssumption`: declarations passed `validate` and flushes `touch`'s
  checks (what `RequestsAreAdmissible` and `FlushesAreCounted` establish); a store
  found at boot has no grant on an archived row and no project at a former path,
  which is what earlier commits left.
* `RegisterAssumption`: requests and old records have their types, and the values
  that stand for "no call", "no key" and "no record" are none.  A record found
  at boot is another build's rpc.
* `ReadAssumption`: paths have an order in which no two are equal (`uq_project_path`
  under the column's collation), and a page holds at least one row (`page_size`
  clamps the request to that).
* `PathAssumption`: lower case is idempotent, keeps `/`, `.` and the segment
  characters apart from the rest, and no segment character is `/`, `%` or a
  backslash; the reserved root and the accounts' segments are lower case, the
  reserved one without `_` or `.` (it is `local`), and no two accounts have one
  segment (they are uuids).  ASCII satisfies all of it.
* `TypingAssumption`, `ResolveAssumption`, `RequestAssumption`: what is typed, asked,
  declared, flushed and registered are strings over `Chars`; the byte order tells
  characters apart; a store found has one project per key, former paths
  included (the two unique indexes, and the alias checks of the writers), and
  each former path leads to a row, within the same account if it is private.
  The last holds because no served verb writes `project_alias`: whoever adds
  RenameProject has to keep it.
* `MigrateAssumption`: a store found is one some release left: the ledger has no
  holes and does not lie, the rows obey the constraints that are there, and what a
  bare CREATE makes is there only when its ledger row is.
* `LifecycleAssumption`: the chart's arithmetic, `Grace = PreStop + Budget +
  ExitMargin`, and twice the runtime's lateness is less than `ExitMargin` (the
  signal may be polled that late, and so may the end of the budget).
* `PoolAssumption` and `TimeAssumption`: the runtime polls a due timer within
  `Lateness`, which is less than the margin (`DEADLINE_MARGIN` is there to cover
  it; a runtime later than that is outside the theorem).

### The arguments

Each of these proof modules has one inductive invariant, `IInv`, which TLC checked
on the component's instance before it was proved, a lemma per group of its
conjuncts, and under it a step per kind of action.

**SyncProjects.** None of the properties is inductive.  A commit keeps grants on
active rows only because what it decided from is still the store (`ViewIsCurrent`),
because what it wrote is what it decided (`DraftsAreHeld`), because the rows it
wrote are still locked by it, and because it treated every row (`SyncsAreDecided`).
`ViewIsCurrent` in turn needs that only the owner of the sentinel is past its first
statement (`SentinelHeld`), and that a flush changes no org column
(`TouchesAreHeld`).  An UPDATE always finds its row because nothing is deleted
(`KnownRows`).  `StepCases` takes the ten rollbacks together, and three lemmas say
what a commit does row by row (`CommitByRow`, `CommitGrants`, `CommitFlushByRow`).
Three theorems need more than `IInv`.  `OkFlushesLast` also rests on
`HeldRowsAreForward`: a row an open flush has locked is one it rewrote or one that
was already at its `seen_at`, and nobody moves a row back meanwhile; after the
commit `RowsOnlyEvolve` keeps it there.  `CountsNeverLie` compares the tables
before and after a commit with what the call counted while it wrote
(`CommitHappened` row by row, `CommitGrantRows` for the grants).  `SyncsDoNotDeadlock`
adds `RowsOfWriters`, that a sync which holds a row is past its reads, hence owns the
sentinel: a sync that waits for a sync can then only wait for the sentinel
(`WaitsForTheSentinel`), whose owner does not.  Flushes take no sentinel, so a sync and
a flush may deadlock; the engine ends that (`WaitFails`) and both are answered
(`CallsEnd`).

**SyncProjects implements Registry.** A call is mapped to `idle`, `open`
or `answered` by its program counter (`CallState`), the tables to themselves.  Every
statement of a transaction is then a stutter, but the first (`Open`) and the last.
`RefusedIffNotPermitted`: what the code refuses from its reads is what `Registry`
does not permit in the store as it is; `CommitIsSync`: the drafts, together with
the rows left alone, are `Converged` of that store (this is where `ViewIsCurrent`,
`DraftsAreHeld` and `SyncsAreDecided` are used); `CommitFlushIsTouch` is the same
for a flush; and a rolled back call answers something other than OK and changes
nothing (`RollbackHasNoEffect`).

**RegisterProject.** The answers follow from the tables, the tables from the locks.
`SlotOwners` and `PathOwners`: exactly the calls between their INSERT and their
COMMIT hold the lock of what they inserted.  So nobody commits a claim or a row under
a call in flight (`InFlightIsNew`), and when a call commits both, the record is of the
request that claimed the key and the row is at its path (`RecordsAreTrue`,
`RowsAreRecorded`); that is the pair a replay reads.  A conflict is foreign because a
call reaches the INSERT of its row only with its key's claim uncommitted, so no row
that key wrote can be there.  Shared locks decide
only who waits and who deadlocks: the argument needs nothing of them but their types
(`ReleaseFacts`), so that none of it rests on how the engine hands them out.

**RegisterProject implements Registration.** Between `Begin`, which is `Open`, and the
last statement every step is a stutter (`StatementsStutter`): what it writes is
uncommitted.  `Commit` is `Register` (`CommitRegisters`) because what the call inserted is
new (`InFlightIsNew`) and its path passed the alias check and cannot have become a
former one since (`PastAlias`).  A call that meets a record has a spent key, so its
answer is `Replay` or `Refuse` by `SameRequest` (`SpentKeyAnswers`); one refused at the
alias check or the INSERT holds its key's claim uncommitted, so its key is not spent and
its path is taken (`TakenPathAnswers`); whatever else ends a call changes nothing
(`CutOffHasNoEffect`).

**Paging.** `Sound` says of one walk that what it has returned ascends and ends at
the token, and that no row up to the token that matched all along is missing; it is
kept by `PageFacts`: a page is the first `PageSize` rows after the token in the order of
`Rank`, and when one more row was found, the last of the page bounds what is still to
come.  That rows can be listed in that order at all is a counting argument
(`EveryPlaceIsTaken`, from `FS_Injection`).  The writers enter only through
`SteadyIsThere`: what counts as seen all along is what still matches.

**Paths.** The library's induction theorems take an operator and cannot be used, so
inductions are over a set of naturals instead: every nonempty set of them has a least
element (`LeastNumber`, from the well-foundedness of `<`), and a counterexample's least
length or place is refuted.  A recursive function of `Paths` is a CHOOSE until a
function that satisfies its equation is shown to exist: `ChainsExist`, `EscapesExist`
and `TablesExist` build one of every length, after which `AncestorsAreAChain`,
`EscapesAreBuilt` and `LikeIsATable` are its equations.  `ChainsWalkTheCuts` then
gives the ancestors.  For LIKE, `PatternsMatchBeneath` says which strings a pattern
matches that spells a string (`Spells`: each of its characters literal or escaped) and
goes on with `/%`; `local/%` and every escaped path are such patterns.  A key has one
writer because all spellings of a path have the same slashes (`KeysHaveTheSameSlashes`),
hence one class and, the segment after the reserved one being cut at a slash, one
account (`KeysHaveOneAccount`).

**Resolve.** The invariant says that the last answer is the one the store gives
(`AnswerIsCurrent`), that a key names one project, live or former (`TypeOK`), and that
former paths lead to a row of their own account.  The properties are then facts about
one answer: `BestFacts`, that the row chosen is of a deepest name found;
`TakenIsFound`, that every name of the chain that is taken is found;
`ChainSpellings`, that spellings have spellings above them.

**Requests.** `RequestTypes` is all the invariant there is; the rest is about one
request.  In an admitted declaration a key is one row's (`OneRowPerDeclaredKey`), the
root of a row's key is the key of its root (`RootsOfKeys`), and a team has one level
(`LevelFacts`).  For a flush, `ByteOrder` is that comparing bytes orders strings
strictly, so `KeyUpTo` orders names up to spelling; `PlacesAreTaken` is that counting
what is at or before an element numbers any finite order without a gap, which the sort
and the removal of neighbours both do; and between two names of one key in sorted order
there are only names of that key (`DedupFacts`).

**Migrate.** `OneAtWork`: the session under the lock, alive or orphaned, is at the first
migration the ledger lacks, and what it passed of it is in the schema, so recording
it tells the truth and nobody else is at work.  `ServesWhole` follows because a replica past
its boot has seen a full ledger (`PastMeansRecorded`) and the ledger never shrinks.
`RowsAreClassed` needs that rows obey whatever constraint the schema has (`RowsObey`),
whoever writes them.  `BootsAgree` also needs `BareIsFresh`: until somebody crashes, a
part that a bare CREATE makes is there only if its ledger row is there or about to be.

**Lifecycle.** `HeardInTime` is an account of the grace period: the sleep, at most
`Lateness` until the signal is polled, what the drain has used of its budget, at most
`Lateness` until its end is polled.  It stays below `Grace` by the chart's margin.  A cut
call has its reason in what led to the step: a drain has a cause
(`StopsHaveReasons`), and calls are open only while the process serves or drains.

**Pool.** `HandsOutClean` speaks of connections in the pool, and nothing in it says how
they came there.  `CallsHold` says what each await leaves on the session and that exactly
the one inside BEGIN is armed; `ReturnsAreCounted` that a connection on its way back
has no BEGIN on the wire and that sqlx counts the transaction it is in, so that
`Return` rolls it back.  `ClocksAgree` keeps the caller's deadline `Margin` behind
the timer of its wait, from which `StoreAnswersFirst` follows by `Lateness < Margin`.

### Only model-checked

The liveness properties `CallsEnd`, `WaitingEnds`, `BootsEnd` and `SettlesOnTheMount`
(fairness and ENABLED are outside the prover), and the four violations of section 5,
which are counterexamples.

## 5. Findings

* **`SyncStale`**: a sync whose row was flushed between its read and its UPDATE is
  refused with 1020, which `sql::internal` answers as INTERNAL, a permanent fault;
  `sql.rs:143-146` says that is what its own mapping avoids for 1205 and 1213, and
  `touch.rs:82-84` calls the same outcome wrong for a flush.
* **`GetTorn`**: `GetProject` runs its SELECTs as autocommit statements, so a
  row and grants that no committed state held together can be one answer;
  `service.rs:4` says one RPC is one transaction.
* **`FlushWarning`**: a flush naming a project by its path and by its former path
  is logged as naming paths "that resolve to no registered project", though both do.
* **`RotationBaseline`**: the password is read at `main.rs:145` and hashed by a second
  read at `main.rs:165`; a swap between the two becomes the baseline, and the pod
  serves on the replaced password without ever noticing.  `main.rs:154-159` says the
  set is hashed as the process reads it, so that this cannot happen; it closes the
  window from the hashing on, not the one before it.

## 6. Not modelled, and the plan

Not modelled: the parsing of knobs and addresses in `boot.rs` (pure decisions over
environment strings; a refused one is `BootFails`), TLS, telemetry and the scope it
records, decoding, the chart, scripts and contracts (no state over time, or outside
the program's own logic), and the insides of yadgar-store, yadgar-lifecycle and
yadgar-dial, which live in other repositories.  GET_LOCK is server-wide; another
database that uses the same lock name could make a boot wait, and is not modelled.
The alias check of a registration (`register.rs:371`) reads without a lock, which is
sound only while no served verb writes `project_alias`; the models say so by making
former paths a constant, and would have to change with RenameProject.

What is left:

1. A composition of registrations with a sync over the same rows, statement by
   statement: today `Resolve` has both as single steps, and each is modelled in
   detail with the other's effects as inputs.
2. `Resolve` and the reads beside `Registration`'s calls, as the reads stand beside
   `Registry`'s.
3. The CHECKs and unique indexes of the migrated schema (`Migrate`) as the source of
   what `StoreAssumption` and `ResolveAssumption` take for granted.
