-------------------------- MODULE RegisterProject --------------------------
(***************************************************************************)
(* RegisterProject (src/src/write/register.rs) and the D9 idempotency      *)
(* record it keeps (src/src/idem.rs), statement by statement: concurrent   *)
(* retries of one key, answers that are lost, and refusals that come after *)
(* the key was claimed.  One account's private paths, case folded; the     *)
(* claim slot (project_id, user_id, idem_key) of that account is its key.  *)
(*                                                                         *)
(* The engine: an INSERT into a unique index that meets the same value, in *)
(* flight or committed, asks for a shared lock on it.  When a transaction  *)
(* ends, every INSERT queued behind its record is granted that lock.  It   *)
(* is then refused as a duplicate, or, if the record is gone, may insert   *)
(* once nobody else has such a lock there; a FOR UPDATE waits for them     *)
(* too.  A row id is a fresh UUIDv7: here, the call itself.                *)
(***************************************************************************)
EXTENDS Naturals, FiniteSets

CONSTANTS
  Calls,         \* RegisterProject calls, retries included, each made once
  Paths,         \* private paths of the account, case folded
  Former,        \* paths project_alias holds; no served verb writes it
  Keys,          \* idempotency keys
  NoKey,         \* the caller sent none, or an empty one
  Names,         \* display names: the rest of the fingerprinted payload
  Requests,      \* what the calls may be sent, past `register''s first checks
  OldClaims,     \* what project_write may hold at boot
  NoCall, NoClaim

Request == [path : Paths, name : Names, key : Keys \union {NoKey}]
Payload(r) == [path |-> r.path, name |-> r.name]   \* Scope and key cleared
Payloads == [path : Paths, name : Names]

\* A committed project_write row.  Another build may have claimed the key for
\* another rpc; its response is not one of ours.
Claim == [rpc : {"RegisterProject"}, payload : Payloads, id : Calls]
           \union [rpc : {"ArchiveProject"}, payload : Payloads, id : {NoCall}]

ASSUME RegisterAssumption ==
  /\ Requests \subseteq [Calls -> Request]
  /\ Former \subseteq Paths
  /\ NoCall \notin Calls /\ NoKey \notin Keys /\ NoClaim \notin Claim
  /\ OldClaims \subseteq [Keys -> {c \in Claim : c.rpc # "RegisterProject"} \union {NoClaim}]

VARIABLES
  project,        \* project[p]: the call whose row is committed at p
  project_write,  \* project_write[k]: the committed claim of key k
  path_lock,      \* path_lock[p]: the call holding an uncommitted INSERT at p
  slot_lock,      \* slot_lock[k]: the call holding an uncommitted claim of k
  path_share,     \* path_share[p]: calls with a shared lock there, past a wait
  slot_share,     \* slot_share[k]: calls with a shared lock there, past a wait
                  \* or refused as duplicates
  pc, request,
  stale,          \* paths others committed since this call's read view
  answer, answer_id, error

vars == <<project, project_write, path_lock, slot_lock, path_share, slot_share, pc, request, stale,
          answer, answer_id, error>>

Pc == {"idle", "claim", "replay", "alias", "insert", "record", "commit", "done"}
Statuses == {"none", "ok", "permission_denied", "invalid_argument", "failed_precondition",
             "already_exists", "unavailable", "deadline_exceeded", "aborted", "internal", "gone"}
LockWaitTimeout == 1205
Deadlock        == 1213
CheckRead       == 1020
LostConnection  == 2013
Errors == {0, LockWaitTimeout, Deadlock, CheckRead, LostConnection}

TypeOK ==
  /\ project \in [Paths -> Calls \union {NoCall}]
  /\ project_write \in [Keys -> Claim \union {NoClaim}]
  /\ path_lock \in [Paths -> Calls \union {NoCall}]
  /\ slot_lock \in [Keys -> Calls \union {NoCall}]
  /\ path_share \in [Paths -> SUBSET Calls]
  /\ slot_share \in [Keys -> SUBSET Calls]
  /\ pc \in [Calls -> Pc]
  /\ request \in [Calls -> Request]
  /\ stale \in [Calls -> SUBSET Paths]
  /\ answer \in [Calls -> Statuses]
  /\ answer_id \in [Calls -> Calls \union {NoCall}]
  /\ error \in [Calls -> Errors]

Init ==
  /\ project = [p \in Paths |-> NoCall]
  /\ project_write \in OldClaims
  /\ path_lock = [p \in Paths |-> NoCall]
  /\ slot_lock = [k \in Keys |-> NoCall]
  /\ path_share = [p \in Paths |-> {}]
  /\ slot_share = [k \in Keys |-> {}]
  /\ pc = [c \in Calls |-> "idle"]
  /\ request \in Requests
  /\ stale = [c \in Calls |-> {}]
  /\ answer = [c \in Calls |-> "none"]
  /\ answer_id = [c \in Calls |-> NoCall]
  /\ error = [c \in Calls |-> 0]

Keyed(c) == request[c].key # NoKey
Path(c)  == request[c].path
Slot(c)  == request[c].key

\* sql::internal
Internal(e) == IF e \in {LockWaitTimeout, Deadlock} THEN "aborted" ELSE "internal"

\* The calls whose INSERT is for a record that c has in flight.
Rivals(c) == {d \in Calls : \/ pc[d] = "claim" /\ Keyed(d) /\ slot_lock[Slot(d)] = c
                            \/ pc[d] = "insert" /\ path_lock[Path(d)] = c}

\* c's shared locks go, and those of its rivals that had sent their INSERT are
\* granted theirs, on the record or, if c rolled it back, on its place.
GrantShares(c) ==
  \E queued \in SUBSET Rivals(c) :
    /\ path_share' = [p \in Paths |-> (path_share[p] \ {c})
                        \union {d \in queued : pc[d] = "insert" /\ Path(d) = p}]
    /\ slot_share' = [k \in Keys |-> (slot_share[k] \ {c})
                        \union {d \in queued : pc[d] = "claim" /\ Slot(d) = k}]

\* Mutant: the claim stays in flight when its call is over.
ReleasePath(c) ==
  /\ path_lock' = [p \in Paths |-> IF path_lock[p] = c THEN NoCall ELSE path_lock[p]]
  /\ GrantShares(c)
  /\ UNCHANGED slot_lock

Release(c) ==
  /\ path_lock' = [p \in Paths |-> IF path_lock[p] = c THEN NoCall ELSE path_lock[p]]
  /\ slot_lock' = [k \in Keys |-> IF slot_lock[k] = c THEN NoCall ELSE slot_lock[k]]
  /\ GrantShares(c)

Answer(c, a, id, e) ==
  /\ pc' = [pc EXCEPT ![c] = "done"]
  /\ answer' = [answer EXCEPT ![c] = a]
  /\ answer_id' = [answer_id EXCEPT ![c] = id]
  /\ error' = [error EXCEPT ![c] = e]
  /\ UNCHANGED request

\* tx.rollback(), or the drop of the transaction, which rolls back too.
Rollback(c, a, id, e) ==
  /\ Release(c)
  /\ Answer(c, a, id, e)
  /\ stale' = [stale EXCEPT ![c] = {}]
  /\ UNCHANGED <<project, project_write>>

Goto(c, label) ==
  /\ pc' = [pc EXCEPT ![c] = label]
  /\ UNCHANGED <<project, project_write, request, answer, answer_id, error>>

(***************************************************************************)
(*                                Actions                                  *)
(***************************************************************************)
\* admit, scope_of, validate, refuse_reserved_root, Class::of and
\* Pooled::acquire may each refuse before a transaction exists.
TurnAway(c) ==
  /\ pc[c] = "idle"
  /\ \E a \in {"permission_denied", "invalid_argument", "failed_precondition",
               "unavailable", "deadline_exceeded"} : Rollback(c, a, NoCall, 0)

Begin(c) ==
  /\ pc[c] = "idle"
  /\ Goto(c, "claim")
  /\ UNCHANGED <<path_lock, slot_lock, path_share, slot_share, stale>>

\* Mutant: the key is not looked at.
ClaimNothingEver(c) ==
  /\ pc[c] = "claim"
  /\ Goto(c, "alias")
  /\ UNCHANGED <<path_lock, slot_lock, path_share, slot_share, stale>>

\* idem::claim without a key: the caller does not participate.
ClaimNothing(c) ==
  /\ pc[c] = "claim"
  /\ ~Keyed(c)
  /\ Goto(c, "alias")
  /\ UNCHANGED <<path_lock, slot_lock, path_share, slot_share, stale>>

SlotFree(c) == Keyed(c) /\ slot_lock[Slot(c)] = NoCall

\* No other call has a shared lock on the claim, or on the place of one.
AloneAtClaim(c) == slot_share[Slot(c)] \subseteq {c}

\* Mutant: read, then insert if absent; a claim in flight is not waited for.
ClaimIfUnseen(c) ==
  /\ pc[c] = "claim"
  /\ Keyed(c)
  /\ project_write[Slot(c)] = NoClaim
  /\ slot_lock' = [slot_lock EXCEPT ![Slot(c)] = c]
  /\ Goto(c, "alias")
  /\ UNCHANGED <<path_lock, path_share, slot_share, stale>>

\* Mutant: the claim is committed at once, outside the transaction.
ClaimOnItsOwn(c) ==
  /\ pc[c] = "claim"
  /\ SlotFree(c)
  /\ project_write[Slot(c)] = NoClaim
  /\ project_write' = [project_write EXCEPT ![Slot(c)] =
       [rpc |-> "RegisterProject", payload |-> Payload(request[c]), id |-> c]]
  /\ pc' = [pc EXCEPT ![c] = "alias"]
  /\ UNCHANGED <<project, path_lock, slot_lock, path_share, slot_share, request, stale, answer,
                 answer_id, error>>

\* INSERT INTO project_write, which no other transaction has in flight.
ClaimSlot(c) ==
  /\ pc[c] = "claim"
  /\ SlotFree(c)
  /\ AloneAtClaim(c)
  /\ project_write[Slot(c)] = NoClaim
  /\ slot_lock' = [slot_lock EXCEPT ![Slot(c)] = c]
  /\ Goto(c, "alias")
  /\ UNCHANGED <<path_lock, path_share, slot_share, stale>>

\* ... or which is refused as a duplicate of a committed claim.
MeetClaim(c) ==
  /\ pc[c] = "claim"
  /\ SlotFree(c)
  /\ project_write[Slot(c)] # NoClaim
  /\ slot_share' = [slot_share EXCEPT ![Slot(c)] = @ \union {c}]
  /\ Goto(c, "replay")
  /\ UNCHANGED <<path_lock, slot_lock, path_share, stale>>

\* Mutant: the payload fingerprint is not compared.
SameOperation(c, claim) == claim.rpc = "RegisterProject"

SameRequest(c, claim) == claim.rpc = "RegisterProject" /\ claim.payload = Payload(request[c])

\* SELECT ... FOR UPDATE of a key spent on this very request: the recorded
\* outcome, no write.
Replay(c) ==
  /\ pc[c] = "replay"
  /\ AloneAtClaim(c)
  /\ SameRequest(c, project_write[Slot(c)])
  /\ Rollback(c, "ok", project_write[Slot(c)].id, 0)

\* ... on another operation, or another payload: refused, never replayed.
RefuseKey(c) ==
  /\ pc[c] = "replay"
  /\ AloneAtClaim(c)
  /\ ~SameRequest(c, project_write[Slot(c)])
  /\ Rollback(c, "invalid_argument", NoCall, 0)

\* alias_owner: the first plain SELECT, which opens the read view.
RefuseFormerPath(c) ==
  /\ pc[c] = "alias"
  /\ Path(c) \in Former
  /\ Rollback(c, "already_exists", NoCall, 0)

PassAlias(c) ==
  /\ pc[c] = "alias"
  /\ Path(c) \notin Former
  /\ stale' = [stale EXCEPT ![c] = {}]
  /\ Goto(c, "insert")
  /\ UNCHANGED <<path_lock, slot_lock, path_share, slot_share>>

PathFree(c) == path_lock[Path(c)] = NoCall
AloneAtPath(c) == path_share[Path(c)] \subseteq {c}

\* INSERT INTO project
InsertRow(c) ==
  /\ pc[c] = "insert"
  /\ PathFree(c)
  /\ AloneAtPath(c)
  /\ project[Path(c)] = NoCall
  /\ path_lock' = [path_lock EXCEPT ![Path(c)] = c]
  /\ Goto(c, "record")
  /\ UNCHANGED <<slot_lock, path_share, slot_share, stale>>

\* uq_project_path refuses it.  Of a row committed since the read view the
\* source does not say whether the engine answers 1062 or 1020.
RefuseTakenPath(c) ==
  /\ pc[c] = "insert"
  /\ PathFree(c)
  /\ project[Path(c)] # NoCall
  /\ \/ Rollback(c, "already_exists", NoCall, 0)
     \/ Path(c) \in stale[c] /\ Rollback(c, Internal(CheckRead), NoCall, CheckRead)

\* idem::record, in the same transaction.
Record(c) ==
  /\ pc[c] = "record"
  /\ Goto(c, "commit")
  /\ UNCHANGED <<path_lock, slot_lock, path_share, slot_share, stale>>

Commit(c) ==
  /\ pc[c] = "commit"
  /\ project' = [project EXCEPT ![Path(c)] = c]
  /\ project_write' =
       [k \in Keys |-> IF k = Slot(c)
                       THEN [rpc |-> "RegisterProject", payload |-> Payload(request[c]), id |-> c]
                       ELSE project_write[k]]
  /\ Release(c)
  /\ stale' = [d \in Calls |-> IF d # c /\ pc[d] \in {"insert", "record", "commit"}
                               THEN stale[d] \union {Path(c)} ELSE stale[d]]
  /\ \/ Answer(c, "ok", c, 0)
     \/ Answer(c, "gone", NoCall, 0)          \* dropped with COMMIT on the wire
     \/ Answer(c, Internal(LostConnection), NoCall, LostConnection)

\* The deadline, the caller or the replica goes away between statements.
Abandon(c) ==
  /\ pc[c] \in {"claim", "replay", "alias", "insert", "record", "commit"}
  /\ \/ Rollback(c, "gone", NoCall, 0)
     \/ Rollback(c, Internal(LostConnection), NoCall, LostConnection)

\* The calls c has to wait for: the one with its record in flight, or, where
\* there is none, those with a shared lock on its place.
WaitsFor(c) ==
  CASE pc[c] = "claim" /\ Keyed(c) ->
         ({slot_lock[Slot(c)]} \ {NoCall})
           \union {d \in slot_share[Slot(c)] \ {c} : project_write[Slot(c)] = NoClaim}
    [] pc[c] = "replay" -> slot_share[Slot(c)] \ {c}
    [] pc[c] = "insert" ->
         ({path_lock[Path(c)]} \ {NoCall})
           \union {d \in path_share[Path(c)] \ {c} : project[Path(c)] = NoCall}
    [] OTHER -> {}

\* The engine ends a wait: lock wait timeout, or the victim of a deadlock.  A
\* shared lock on a record that is gone covers the gap it was in, so that a
\* neighbour's INSERT may wait as well; any statement that locks may fail.
WaitFails(c) ==
  /\ \/ pc[c] \in {"replay", "insert"}
     \/ pc[c] = "claim" /\ Keyed(c)
  /\ \E e \in {LockWaitTimeout, Deadlock} : Rollback(c, Internal(e), NoCall, e)

\* A set of calls each waiting for others of the set only: retries that met one
\* claim, each asking to have it to itself, or INSERTs that were queued behind
\* a record its call rolled back, each waiting for the others' shared locks.
InDeadlock(c) ==
  \E cycle \in SUBSET Calls :
    /\ c \in cycle
    /\ \A d \in cycle : WaitsFor(d) # {} /\ WaitsFor(d) \subseteq cycle

Step(c) ==
  \/ ClaimNothing(c) \/ ClaimSlot(c) \/ MeetClaim(c) \/ Replay(c) \/ RefuseKey(c)
  \/ RefuseFormerPath(c) \/ PassAlias(c) \/ InsertRow(c) \/ RefuseTakenPath(c)
  \/ Record(c) \/ Commit(c)

Next == \E c \in Calls : TurnAway(c) \/ Begin(c) \/ Step(c) \/ Abandon(c) \/ WaitFails(c)

Spec == Init /\ [][Next]_vars

\* A handler that can run is polled and its connection answers; InnoDB
\* detects a deadlock when it forms.  No lock wait timeout need expire.
FairSpec ==
  /\ Spec
  /\ \A c \in Calls : WF_vars(Step(c))
  /\ WF_vars(\E c \in Calls : InDeadlock(c) /\ WaitFails(c))

(***************************************************************************)
(*                               Properties                                *)
(***************************************************************************)
\* The row a key paid for and the record of it are committed together: a
\* recorded id is the row at the recorded path, and a row registered under a
\* key has its record (idem.rs: "commit together or not at all").
RecordedIffWritten ==
  /\ \A k \in Keys :
       LET claim == project_write[k] IN
       claim # NoClaim /\ claim.rpc = "RegisterProject" => project[claim.payload.path] = claim.id
  /\ \A p \in Paths :
       LET c == project[p] IN
       c # NoCall /\ Keyed(c) =>
         /\ project_write[Slot(c)] # NoClaim
         /\ project_write[Slot(c)].id = c
         /\ Path(c) = p

\* OK is durable and the same to every caller of a key: it names the row
\* committed at the path that was asked for.
OkIsTheCommittedRow ==
  \A c \in Calls : answer[c] = "ok" =>
    /\ project[Path(c)] = answer_id[c]
    /\ answer_id[c] # NoCall
    /\ Payload(request[answer_id[c]]) = Payload(request[c])

\* ALREADY_EXISTS is about somebody else's row: the path is a former path, or
\* is registered by a call that was not this request under this key.  A retry
\* whose first answer was lost is never told its own row is a conflict.
ConflictIsForeign ==
  \A c \in Calls : answer[c] = "already_exists" =>
    \/ Path(c) \in Former
    \/ LET d == project[Path(c)] IN
       /\ d # NoCall
       /\ ~(Keyed(c) /\ Slot(d) = Slot(c) /\ Payload(request[d]) = Payload(request[c]))

\* Each call takes effect at one instant or not at all, and a spent key is a
\* replay for its own request and a refusal for any other (D9, idem.rs).
CallState(label) == IF label = "idle" THEN "idle" ELSE IF label = "done" THEN "answered" ELSE "open"
Promise == INSTANCE Registration WITH call <- [c \in Calls |-> CallState(pc[c])]
ImplementsRegistration == Promise!Spec

\* Every call that began is answered, without waiting for a timeout: a claim
\* never outlives its call, and calls that deadlock, on the record of a spent
\* key or behind a key or a path that was given up, are told to try again.
CallsEnd == \A c \in Calls : pc[c] = "claim" ~> pc[c] = "done"
=============================================================================
