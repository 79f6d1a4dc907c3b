------------------------ MODULE RegisterProjectProofs ------------------------
(***************************************************************************)
(* Theorems about RegisterProject: whatever the calls, their paths, keys    *)
(* and payloads, and wherever their transactions are cut off, the row and   *)
(* the record of a registration agree, a key pays for one row, and every    *)
(* answer a retry is given is true of its own earlier attempts.             *)
(***************************************************************************)
EXTENDS RegisterProject, TLAPS

\* Labels at which a call's claim, and its row, are inserted and uncommitted.
Claiming == {"alias", "insert", "record", "commit"}
Writing  == {"record", "commit"}

\* A claim in flight is locked by its call, and nothing else is locked.
SlotOwners ==
  \A k \in Keys, c \in Calls : slot_lock[k] = c <=> Slot(c) = k /\ pc[c] \in Claiming

\* So is a row in flight.
PathOwners ==
  \A p \in Paths, c \in Calls : path_lock[p] = c <=> Path(c) = p /\ pc[c] \in Writing

\* Nobody committed what a call in flight has inserted.
InFlightIsNew ==
  \A c \in Calls :
    /\ Keyed(c) /\ pc[c] \in Claiming => project_write[Slot(c)] = NoClaim
    /\ pc[c] \in Writing => project[Path(c)] = NoCall

\* A call that reads a claim has met one.
ReplaysMeetAClaim ==
  \A c \in Calls : pc[c] = "replay" => Keyed(c) /\ project_write[Slot(c)] # NoClaim

\* A row is at the path its call asked for, and has its record.
RowsAreRecorded ==
  \A p \in Paths : project[p] # NoCall =>
    /\ Path(project[p]) = p
    /\ Keyed(project[p]) =>
         /\ project_write[Slot(project[p])] # NoClaim
         /\ project_write[Slot(project[p])].id = project[p]

\* A record is of the request that claimed the key, whose row exists.
RecordsAreTrue ==
  \A k \in Keys :
    LET claim == project_write[k] IN
    claim # NoClaim /\ claim.rpc = "RegisterProject" =>
      /\ Slot(claim.id) = k
      /\ claim.payload = Payload(request[claim.id])
      /\ project[claim.payload.path] = claim.id

Locks  == SlotOwners /\ PathOwners
Tables == InFlightIsNew /\ ReplaysMeetAClaim /\ RowsAreRecorded /\ RecordsAreTrue
Answers == OkIsTheCommittedRow /\ ConflictIsForeign

IInv == TypeOK /\ Locks /\ Tables /\ Answers

(***************************************************************************)
(*                           The shapes of a step                           *)
(***************************************************************************)
\* A call that ends without a commit, and what its answer rests on.
Ends(c, a, id, e) ==
  /\ Rollback(c, a, id, e)
  /\ a \in Statuses /\ id \in Calls \union {NoCall} /\ e \in Errors
  /\ a = "ok" =>
       /\ pc[c] = "replay"
       /\ SameRequest(c, project_write[Slot(c)])
       /\ id = project_write[Slot(c)].id
  /\ a = "already_exists" =>
       \/ Path(c) \in Former
       \/ pc[c] = "insert" /\ project[Path(c)] # NoCall

\* A key is a key or none, and a claim is a claim.
LEMMA SlotType ==
  ASSUME TypeOK, NEW c \in Calls
  PROVE  /\ Path(c) \in Paths
         /\ Keyed(c) => Slot(c) \in Keys
         /\ ~Keyed(c) => Slot(c) = NoKey /\ Slot(c) \notin Keys
         /\ Payload(request[c]) \in Payloads
  BY RegisterAssumption DEF TypeOK, Request, Path, Slot, Keyed, Payload, Payloads

\* What the error of a lost connection, or of a wait, is told as.
LEMMA InternalType ==
  \A e \in Errors : Internal(e) \in {"aborted", "internal"}
  BY DEF Internal

\* Every action but the moves and Commit ends its call.
LEMMA EndCases ==
  ASSUME TypeOK, ReplaysMeetAClaim, NEW c \in Calls,
         TurnAway(c) \/ Replay(c) \/ RefuseKey(c) \/ RefuseFormerPath(c)
           \/ RefuseTakenPath(c) \/ Abandon(c) \/ WaitFails(c)
  PROVE  \E a \in Statuses, id \in Calls \union {NoCall}, e \in Errors : Ends(c, a, id, e)
  <1> USE DEF Ends, Statuses, Errors
  <1>1. CASE TurnAway(c)
    BY <1>1 DEF TurnAway
  <1>2. CASE Replay(c)
    <2>1. /\ project_write[Slot(c)] \in Claim
          /\ pc[c] = "replay"
          /\ SameRequest(c, project_write[Slot(c)])
          /\ Rollback(c, "ok", project_write[Slot(c)].id, 0)
      BY <1>2, SlotType DEF Replay, ReplaysMeetAClaim, TypeOK
    <2>2. project_write[Slot(c)].id \in Calls \union {NoCall}
      BY <2>1 DEF Claim
    <2> QED
      BY <2>1, <2>2
  <1>3. CASE RefuseKey(c)
    BY <1>3 DEF RefuseKey
  <1>4. CASE RefuseFormerPath(c)
    BY <1>4 DEF RefuseFormerPath
  <1>5. CASE RefuseTakenPath(c)
    <2>1. CASE Rollback(c, "already_exists", NoCall, 0)
      BY <1>5, <2>1 DEF RefuseTakenPath
    <2>2. CASE Rollback(c, Internal(CheckRead), NoCall, CheckRead)
      BY <2>2, InternalType
    <2> QED
      BY <1>5, <2>1, <2>2 DEF RefuseTakenPath
  <1>6. CASE Abandon(c)
    <2>1. CASE Rollback(c, "gone", NoCall, 0)
      BY <2>1
    <2>2. CASE Rollback(c, Internal(LostConnection), NoCall, LostConnection)
      BY <2>2, InternalType
    <2> QED
      BY <1>6, <2>1, <2>2 DEF Abandon
  <1>7. CASE WaitFails(c)
    <2>1. PICK e \in {LockWaitTimeout, Deadlock} : Rollback(c, Internal(e), NoCall, e)
      BY <1>7 DEF WaitFails
    <2> QED
      BY <2>1, InternalType
  <1> QED
    BY <1>1, <1>2, <1>3, <1>4, <1>5, <1>6, <1>7

\* The cases of a step.
LEMMA StepCases ==
  ASSUME TypeOK, ReplaysMeetAClaim, [Next]_vars
  PROVE  \/ \E c \in Calls, a \in Statuses, id \in Calls \union {NoCall}, e \in Errors :
              Ends(c, a, id, e)
         \/ \E c \in Calls : Begin(c)
         \/ \E c \in Calls : ClaimNothing(c)
         \/ \E c \in Calls : ClaimSlot(c)
         \/ \E c \in Calls : MeetClaim(c)
         \/ \E c \in Calls : PassAlias(c)
         \/ \E c \in Calls : InsertRow(c)
         \/ \E c \in Calls : Record(c)
         \/ \E c \in Calls : Commit(c)
         \/ UNCHANGED vars
  BY EndCases DEF Next, Step

(***************************************************************************)
(*                              Type correctness                            *)
(***************************************************************************)
\* The end of a call frees what it inserted, and leaves shared locks to calls.
LEMMA ReleaseFacts ==
  ASSUME TypeOK, NEW c \in Calls, Release(c)
  PROVE  /\ path_lock' = [p \in Paths |-> IF path_lock[p] = c THEN NoCall ELSE path_lock[p]]
         /\ slot_lock' = [k \in Keys |-> IF slot_lock[k] = c THEN NoCall ELSE slot_lock[k]]
         /\ path_lock' \in [Paths -> Calls \union {NoCall}]
         /\ slot_lock' \in [Keys -> Calls \union {NoCall}]
         /\ path_share' \in [Paths -> SUBSET Calls]
         /\ slot_share' \in [Keys -> SUBSET Calls]
  <1>1. /\ path_lock' = [p \in Paths |-> IF path_lock[p] = c THEN NoCall ELSE path_lock[p]]
        /\ slot_lock' = [k \in Keys |-> IF slot_lock[k] = c THEN NoCall ELSE slot_lock[k]]
    BY DEF Release
  <1>2. /\ path_lock' \in [Paths -> Calls \union {NoCall}]
        /\ slot_lock' \in [Keys -> Calls \union {NoCall}]
    BY <1>1 DEF TypeOK
  <1>3. PICK queued \in SUBSET Calls :
          /\ path_share' = [p \in Paths |-> (path_share[p] \ {c})
                              \union {d \in queued : pc[d] = "insert" /\ Path(d) = p}]
          /\ slot_share' = [k \in Keys |-> (slot_share[k] \ {c})
                              \union {d \in queued : pc[d] = "claim" /\ Slot(d) = k}]
    BY DEF Release, GrantShares, Rivals
  <1>4. path_share' \in [Paths -> SUBSET Calls]
    BY <1>3 DEF TypeOK
  <1>5. slot_share' \in [Keys -> SUBSET Calls]
    BY <1>3 DEF TypeOK
  <1> QED
    BY <1>1, <1>2, <1>4, <1>5

\* Every step keeps the types.
LEMMA TypeNext == TypeOK /\ ReplaysMeetAClaim /\ [Next]_vars => TypeOK'
  <1> SUFFICES ASSUME TypeOK, ReplaysMeetAClaim, [Next]_vars PROVE TypeOK'
    OBVIOUS
  <1>1. ASSUME NEW c \in Calls, NEW a \in Statuses, NEW id \in Calls \union {NoCall},
               NEW e \in Errors, Ends(c, a, id, e)
        PROVE TypeOK'
    BY <1>1, ReleaseFacts DEF TypeOK, Ends, Rollback, Answer, Pc
  <1>2. ASSUME NEW c \in Calls, Begin(c) \/ ClaimNothing(c) \/ PassAlias(c) \/ Record(c)
        PROVE TypeOK'
    BY <1>2 DEF TypeOK, Begin, ClaimNothing, PassAlias, Record, Goto, Pc
  <1>3. ASSUME NEW c \in Calls, ClaimSlot(c) \/ MeetClaim(c) \/ InsertRow(c) PROVE TypeOK'
    <2>1. pc' \in [Calls -> Pc]
      BY <1>3 DEF TypeOK, ClaimSlot, MeetClaim, InsertRow, Goto, Pc
    <2>2. /\ path_lock' \in [Paths -> Calls \union {NoCall}]
          /\ slot_lock' \in [Keys -> Calls \union {NoCall}]
          /\ path_share' \in [Paths -> SUBSET Calls]
          /\ slot_share' \in [Keys -> SUBSET Calls]
      BY <1>3, SlotType DEF TypeOK, ClaimSlot, MeetClaim, InsertRow
    <2> QED
      BY <1>3, <2>1, <2>2 DEF TypeOK, ClaimSlot, MeetClaim, InsertRow, Goto
  <1>4. ASSUME NEW c \in Calls, Commit(c) PROVE TypeOK'
    <2>1. project' \in [Paths -> Calls \union {NoCall}]
      BY <1>4, SlotType DEF TypeOK, Commit
    <2>2. [rpc |-> "RegisterProject", payload |-> Payload(request[c]), id |-> c] \in Claim
      BY SlotType DEF Claim
    <2>3. project_write' \in [Keys -> Claim \union {NoClaim}]
      BY <1>4, <2>2 DEF TypeOK, Commit
    <2>4. /\ path_lock' \in [Paths -> Calls \union {NoCall}]
          /\ slot_lock' \in [Keys -> Calls \union {NoCall}]
          /\ path_share' \in [Paths -> SUBSET Calls]
          /\ slot_share' \in [Keys -> SUBSET Calls]
      BY <1>4, ReleaseFacts DEF Commit
    <2>5. stale' \in [Calls -> SUBSET Paths]
      BY <1>4, SlotType DEF TypeOK, Commit
    <2>6. \E a \in Statuses, id \in Calls \union {NoCall}, e \in Errors : Answer(c, a, id, e)
      BY <1>4, InternalType DEF Commit, Statuses, Errors
    <2>7. /\ pc' \in [Calls -> Pc]
          /\ request' \in [Calls -> Request]
          /\ answer' \in [Calls -> Statuses]
          /\ answer_id' \in [Calls -> Calls \union {NoCall}]
          /\ error' \in [Calls -> Errors]
      BY <2>6 DEF TypeOK, Answer, Pc
    <2> QED
      BY <2>1, <2>3, <2>4, <2>5, <2>7 DEF TypeOK
  <1>5. CASE UNCHANGED vars
    BY <1>5 DEF TypeOK, vars
  <1> QED
    BY <1>1, <1>2, <1>3, <1>4, <1>5, StepCases

(***************************************************************************)
(*                                  Locks                                   *)
(***************************************************************************)
\* A call holds what it inserted, from the INSERT until it ends.
LEMMA LocksNext == TypeOK /\ ReplaysMeetAClaim /\ Locks /\ [Next]_vars => Locks'
  <1> SUFFICES ASSUME TypeOK, ReplaysMeetAClaim, Locks, [Next]_vars PROVE Locks'
    OBVIOUS
  <1> USE RegisterAssumption
      DEF Locks, SlotOwners, PathOwners, Claiming, Writing, Path, Slot
  <1>1. ASSUME NEW c \in Calls, NEW a, NEW id, NEW e, Ends(c, a, id, e) PROVE Locks'
    BY <1>1, ReleaseFacts DEF TypeOK, Ends, Rollback, Answer
  <1>2. ASSUME NEW c \in Calls, Begin(c) \/ PassAlias(c) \/ Record(c) PROVE Locks'
    BY <1>2 DEF TypeOK, Begin, PassAlias, Record, Goto
  <1>3. ASSUME NEW c \in Calls, ClaimNothing(c) PROVE Locks'
    <2>1. Slot(c) \notin Keys
      BY <1>3, SlotType DEF ClaimNothing
    <2> QED
      BY <1>3, <2>1 DEF TypeOK, ClaimNothing, Goto
  <1>4. ASSUME NEW c \in Calls, ClaimSlot(c) PROVE Locks'
    <2>1. Slot(c) \in Keys /\ slot_lock[Slot(c)] = NoCall /\ pc[c] = "claim"
      BY <1>4, SlotType DEF ClaimSlot, SlotFree
    <2> QED
      BY <1>4, <2>1 DEF TypeOK, ClaimSlot, Goto
  <1>5. ASSUME NEW c \in Calls, MeetClaim(c) PROVE Locks'
    BY <1>5 DEF TypeOK, MeetClaim, Goto
  <1>6. ASSUME NEW c \in Calls, InsertRow(c) PROVE Locks'
    <2>1. Path(c) \in Paths /\ path_lock[Path(c)] = NoCall /\ pc[c] = "insert"
      BY <1>6, SlotType DEF InsertRow, PathFree
    <2> QED
      BY <1>6, <2>1 DEF TypeOK, InsertRow, Goto
  <1>7. ASSUME NEW c \in Calls, Commit(c) PROVE Locks'
    <2>1. pc' = [pc EXCEPT ![c] = "done"] /\ UNCHANGED request /\ Release(c)
      BY <1>7 DEF Commit, Answer
    <2> QED
      BY <2>1, ReleaseFacts DEF TypeOK
  <1>8. CASE UNCHANGED vars
    BY <1>8 DEF vars
  <1> QED
    BY <1>1, <1>2, <1>3, <1>4, <1>5, <1>6, <1>7, <1>8, StepCases

(***************************************************************************)
(*                             Rows and records                             *)
(***************************************************************************)
\* Two calls inside one key, or with a row in flight at one path, are one.
LEMMA OneWriter ==
  ASSUME TypeOK, Locks, NEW c \in Calls, NEW d \in Calls
  PROVE  /\ Keyed(c) /\ Slot(c) = Slot(d) /\ pc[c] \in Claiming /\ pc[d] \in Claiming => c = d
         /\ Path(c) = Path(d) /\ pc[c] \in Writing /\ pc[d] \in Writing => c = d
  BY SlotType DEF Locks, SlotOwners, PathOwners

\* A step that moves one call's label, and no row or record, keeps them.
LEMMA TablesFrame ==
  ASSUME TypeOK, Tables, UNCHANGED <<project, project_write, request>>, NEW c \in Calls,
         NEW label \in Pc, pc' = [pc EXCEPT ![c] = label],
         label \in Claiming => (Keyed(c) => project_write[Slot(c)] = NoClaim),
         label \in Writing => project[Path(c)] = NoCall,
         label = "replay" => Keyed(c) /\ project_write[Slot(c)] # NoClaim
  PROVE  Tables'
  <1>1. InFlightIsNew'
    BY DEF Tables, InFlightIsNew, TypeOK, Keyed, Slot, Path
  <1>2. ReplaysMeetAClaim'
    BY DEF Tables, ReplaysMeetAClaim, TypeOK, Keyed, Slot
  <1>3. RowsAreRecorded' /\ RecordsAreTrue'
    BY DEF Tables, RowsAreRecorded, RecordsAreTrue, Keyed, Slot, Path, Payload
  <1> QED
    BY <1>1, <1>2, <1>3 DEF Tables

\* A commit makes one row where there was none, and its record if it has a key.
LEMMA CommitTables ==
  ASSUME TypeOK, Locks, Tables, NEW c \in Calls, Commit(c)
  PROVE  Tables'
  <1> DEFINE claim == [rpc |-> "RegisterProject", payload |-> Payload(request[c]), id |-> c]
  <1>1. /\ pc[c] = "commit"
        /\ project' = [project EXCEPT ![Path(c)] = c]
        /\ project_write' = [k \in Keys |-> IF k = Slot(c) THEN claim ELSE project_write[k]]
        /\ pc' = [pc EXCEPT ![c] = "done"]
        /\ UNCHANGED request
    BY DEF Commit, Answer
  <1>2. /\ Path(c) \in Paths
        /\ project[Path(c)] = NoCall
        /\ Keyed(c) => Slot(c) \in Keys /\ project_write[Slot(c)] = NoClaim
    BY <1>1, SlotType DEF Tables, InFlightIsNew, Claiming, Writing
  <1>3. \A d \in Calls : /\ Keyed(d)' = Keyed(d)
                         /\ Slot(d)' = Slot(d)
                         /\ Path(d)' = Path(d)
                         /\ Payload(request[d])' = Payload(request[d])
    BY <1>1 DEF Keyed, Slot, Path, Payload
  <1>4. claim \in Claim /\ claim # NoClaim /\ claim.id = c /\ claim.rpc = "RegisterProject"
        /\ claim.payload = Payload(request[c]) /\ claim.payload.path = Path(c)
    BY SlotType, RegisterAssumption DEF Claim, Payload, Path
  <1> HIDE DEF claim
  <1>5. \A p \in Paths : /\ p # Path(c) => project'[p] = project[p]
                         /\ p = Path(c) => project'[p] = c
    BY <1>1, <1>2 DEF TypeOK
  <1>6. \A k \in Keys : /\ k # Slot(c) => project_write'[k] = project_write[k]
                        /\ k = Slot(c) => project_write'[k] = claim
    BY <1>1
  <1>7. \A d \in Calls : pc'[d] = IF d = c THEN "done" ELSE pc[d]
    BY <1>1 DEF TypeOK
  <1>8. InFlightIsNew'
    <2> SUFFICES ASSUME NEW d \in Calls, pc'[d] \in Claiming, d # c
                 PROVE  /\ Keyed(d) => project_write'[Slot(d)] = NoClaim
                        /\ pc'[d] \in Writing => project'[Path(d)] = NoCall
      BY <1>3, <1>7 DEF InFlightIsNew, Claiming, Writing
    <2>1. ASSUME Keyed(d) PROVE project_write'[Slot(d)] = NoClaim
      <3>1. Slot(d) # Slot(c)
        BY <1>1, <1>7, <2>1, OneWriter DEF Claiming
      <3> QED
        BY <1>6, <1>7, <2>1, <3>1, SlotType DEF Tables, InFlightIsNew
    <2>2. ASSUME pc'[d] \in Writing PROVE project'[Path(d)] = NoCall
      <3>1. Path(d) # Path(c)
        BY <1>1, <1>7, <2>2, OneWriter DEF Writing
      <3> QED
        BY <1>5, <1>7, <2>2, <3>1, SlotType DEF Tables, InFlightIsNew
    <2> QED
      BY <2>1, <2>2
  <1>9. ReplaysMeetAClaim'
    <2> SUFFICES ASSUME NEW d \in Calls, pc'[d] = "replay"
                 PROVE  Keyed(d) /\ project_write'[Slot(d)] # NoClaim
      BY <1>3 DEF ReplaysMeetAClaim
    <2>1. pc[d] = "replay"
      BY <1>7
    <2> QED
      BY <1>4, <1>6, <2>1, SlotType DEF Tables, ReplaysMeetAClaim
  <1>10. RowsAreRecorded'
    <2> SUFFICES ASSUME NEW p \in Paths, project'[p] # NoCall
                 PROVE  /\ Path(project'[p]) = p
                        /\ Keyed(project'[p]) =>
                             /\ project_write'[Slot(project'[p])] # NoClaim
                             /\ project_write'[Slot(project'[p])].id = project'[p]
      <3>1. \A d : Keyed(d)' = Keyed(d) /\ Slot(d)' = Slot(d) /\ Path(d)' = Path(d)
        BY <1>1 DEF Keyed, Slot, Path
      <3> QED
        BY <3>1 DEF RowsAreRecorded, Keyed, Slot, Path
    <2>1. CASE p = Path(c)
      BY <1>2, <1>4, <1>5, <1>6, <2>1
    <2>2. CASE p # Path(c)
      <3>1. project'[p] = project[p] /\ project[p] \in Calls
        BY <1>5, <2>2 DEF TypeOK
      <3>2. /\ Path(project[p]) = p
            /\ Keyed(project[p]) =>
                 /\ project_write[Slot(project[p])] # NoClaim
                 /\ project_write[Slot(project[p])].id = project[p]
        BY <3>1, RegisterAssumption DEF Tables, RowsAreRecorded
      <3>3. Keyed(project[p]) => Slot(project[p]) \in Keys /\ Slot(project[p]) # Slot(c)
        BY <1>2, <3>1, <3>2, SlotType DEF Keyed, Slot
      <3> QED
        BY <1>6, <3>1, <3>2, <3>3
    <2> QED
      BY <2>1, <2>2
  <1>11. RecordsAreTrue'
    <2> SUFFICES ASSUME NEW k \in Keys, project_write'[k] # NoClaim,
                        project_write'[k].rpc = "RegisterProject"
                 PROVE  /\ Slot(project_write'[k].id) = k
                        /\ project_write'[k].payload = Payload(request[project_write'[k].id])
                        /\ project'[project_write'[k].payload.path] = project_write'[k].id
      BY <1>1 DEF RecordsAreTrue, Slot, Payload
    <2>1. CASE k = Slot(c)
      BY <1>2, <1>4, <1>5, <1>6, <2>1
    <2>2. CASE k # Slot(c)
      <3>1. project_write'[k] = project_write[k]
        BY <1>6, <2>2
      <3>2. /\ Slot(project_write[k].id) = k
            /\ project_write[k].payload = Payload(request[project_write[k].id])
            /\ project[project_write[k].payload.path] = project_write[k].id
        BY <3>1 DEF Tables, RecordsAreTrue
      <3>3. project_write[k].id \in Calls /\ project_write[k].payload.path \in Paths
        BY <3>1 DEF TypeOK, Claim, Payloads
      <3>4. project_write[k].payload.path # Path(c)
        BY <1>2, <3>2, <3>3, RegisterAssumption
      <3> QED
        BY <1>5, <3>1, <3>2, <3>3, <3>4
    <2> QED
      BY <2>1, <2>2
  <1> QED
    BY <1>8, <1>9, <1>10, <1>11 DEF Tables

\* Every step keeps rows and records in agreement.
LEMMA TablesNext == TypeOK /\ Locks /\ Tables /\ [Next]_vars => Tables'
  <1> SUFFICES ASSUME TypeOK, Locks, Tables, [Next]_vars PROVE Tables'
    OBVIOUS
  <1>0. ReplaysMeetAClaim
    BY DEF Tables
  <1> USE DEF Pc, Claiming, Writing
  <1>1. ASSUME NEW c \in Calls, NEW a, NEW id, NEW e, Ends(c, a, id, e) PROVE Tables'
    BY <1>1, TablesFrame DEF Ends, Rollback, Answer
  <1>2. ASSUME NEW c \in Calls, Begin(c) PROVE Tables'
    BY <1>2, TablesFrame DEF Begin, Goto
  <1>3. ASSUME NEW c \in Calls, ClaimNothing(c) \/ ClaimSlot(c) PROVE Tables'
    BY <1>3, TablesFrame DEF ClaimNothing, ClaimSlot, Goto
  <1>4. ASSUME NEW c \in Calls, MeetClaim(c) PROVE Tables'
    BY <1>4, TablesFrame DEF MeetClaim, SlotFree, Goto
  <1>5. ASSUME NEW c \in Calls, PassAlias(c) \/ InsertRow(c) \/ Record(c) PROVE Tables'
    <2>1. /\ Keyed(c) => project_write[Slot(c)] = NoClaim
          /\ Record(c) => project[Path(c)] = NoCall
      BY <1>5 DEF PassAlias, InsertRow, Record, Tables, InFlightIsNew
    <2>2. CASE PassAlias(c)
      BY <2>1, <2>2, TablesFrame DEF PassAlias, Goto
    <2>3. CASE InsertRow(c)
      BY <2>1, <2>3, TablesFrame DEF InsertRow, Goto
    <2>4. CASE Record(c)
      BY <2>1, <2>4, TablesFrame DEF Record, Goto
    <2> QED
      BY <1>5, <2>2, <2>3, <2>4
  <1>6. ASSUME NEW c \in Calls, Commit(c) PROVE Tables'
    BY <1>6, CommitTables
  <1>7. CASE UNCHANGED vars
    BY <1>7 DEF vars, Tables, InFlightIsNew, ReplaysMeetAClaim, RowsAreRecorded,
                RecordsAreTrue, Keyed, Slot, Path, Payload
  <1> QED
    BY <1>0, <1>1, <1>2, <1>3, <1>4, <1>5, <1>6, <1>7, StepCases

(***************************************************************************)
(*                                 Answers                                  *)
(***************************************************************************)
\* A committed row is never replaced, and a step answers at most one call.
LEMMA RowsStay ==
  ASSUME TypeOK, Tables, [Next]_vars
  PROVE  /\ \A p \in Paths : project[p] # NoCall => project'[p] = project[p]
         /\ UNCHANGED request
  <1>1. ASSUME NEW c \in Calls, NEW a, NEW id, NEW e, Ends(c, a, id, e)
        PROVE UNCHANGED <<project, request>>
    BY <1>1 DEF Ends, Rollback, Answer
  <1>2. ASSUME NEW c \in Calls,
               \/ Begin(c) \/ ClaimNothing(c) \/ ClaimSlot(c) \/ MeetClaim(c)
               \/ PassAlias(c) \/ InsertRow(c) \/ Record(c)
        PROVE UNCHANGED <<project, request>>
    BY <1>2 DEF Begin, ClaimNothing, ClaimSlot, MeetClaim, PassAlias, InsertRow, Record, Goto
  <1>3. ASSUME NEW c \in Calls, Commit(c)
        PROVE  /\ \A p \in Paths : project[p] # NoCall => project'[p] = project[p]
               /\ UNCHANGED request
    <2>1. project[Path(c)] = NoCall
      BY <1>3 DEF Commit, Tables, InFlightIsNew, Writing
    <2> QED
      BY <1>3, <2>1 DEF Commit, Answer, TypeOK
  <1>4. CASE UNCHANGED vars
    BY <1>4 DEF vars
  <1> QED
    BY <1>1, <1>2, <1>3, <1>4, StepCases DEF Tables

\* What a call is told when it is answered, before the step.
Told(c) ==
  /\ answer'[c] = "ok" =>
       \/ /\ pc[c] = "commit" /\ Commit(c) /\ answer_id'[c] = c
       \/ /\ pc[c] = "replay"
          /\ SameRequest(c, project_write[Slot(c)])
          /\ answer_id'[c] = project_write[Slot(c)].id
  /\ answer'[c] = "already_exists" =>
       \/ Path(c) \in Former
       \/ pc[c] = "insert" /\ project[Path(c)] # NoCall

Untold(c) == answer'[c] = answer[c] /\ answer_id'[c] = answer_id[c]

\* A step leaves an answer alone, or gives one for a reason.
LEMMA AnswerCases ==
  ASSUME TypeOK, Tables, [Next]_vars, NEW d \in Calls
  PROVE  Untold(d) \/ Told(d)
  <1>1. ASSUME NEW c \in Calls, NEW a, NEW id, NEW e, Ends(c, a, id, e)
        PROVE Untold(d) \/ Told(d)
    BY <1>1 DEF Ends, Rollback, Answer, TypeOK, Told, Untold
  <1>2. ASSUME NEW c \in Calls,
               \/ Begin(c) \/ ClaimNothing(c) \/ ClaimSlot(c) \/ MeetClaim(c)
               \/ PassAlias(c) \/ InsertRow(c) \/ Record(c)
        PROVE Untold(d)
    BY <1>2 DEF Untold, Begin, ClaimNothing, ClaimSlot, MeetClaim, PassAlias, InsertRow, Record, Goto
  <1>3. ASSUME NEW c \in Calls, Commit(c)
        PROVE Untold(d) \/ Told(d)
    <2>1. PICK a, id, e : Answer(c, a, id, e) /\ a \in {"ok", "gone", Internal(LostConnection)}
                            /\ (a = "ok" => id = c)
      <3>1. Internal(LostConnection) # "ok"
        BY InternalType DEF Errors
      <3> QED
        BY <1>3, <3>1 DEF Commit
    <2>2. a # "already_exists"
      BY <2>1, InternalType DEF Errors
    <2> QED
      BY <1>3, <2>1, <2>2 DEF Commit, Answer, TypeOK, Told, Untold
  <1>4. CASE UNCHANGED vars
    BY <1>4 DEF vars, Untold
  <1> QED
    BY <1>1, <1>2, <1>3, <1>4, StepCases DEF Tables

\* Every step keeps every answer true.
LEMMA AnswersNext == TypeOK /\ Tables /\ Answers /\ [Next]_vars => Answers'
  <1> SUFFICES ASSUME TypeOK, Tables, Answers, [Next]_vars PROVE Answers'
    OBVIOUS
  <1>1. /\ \A d : Keyed(d)' = Keyed(d) /\ Slot(d)' = Slot(d) /\ Path(d)' = Path(d)
        /\ \A d : Payload(request[d])' = Payload(request[d])
    BY RowsStay DEF Keyed, Slot, Path, Payload
  <1>2. ASSUME NEW c \in Calls, answer'[c] = "ok"
        PROVE  /\ project'[Path(c)] = answer_id'[c]
               /\ answer_id'[c] # NoCall
               /\ Payload(request[answer_id'[c]]) = Payload(request[c])
    <2>1. CASE answer'[c] = answer[c] /\ answer_id'[c] = answer_id[c]
      BY <1>2, <2>1, RowsStay, SlotType DEF Answers, OkIsTheCommittedRow
    <2>2. CASE Commit(c) /\ answer_id'[c] = c
      BY <2>2, SlotType, RegisterAssumption DEF Commit, TypeOK
    <2>3. CASE /\ pc[c] = "replay"
               /\ SameRequest(c, project_write[Slot(c)])
               /\ answer_id'[c] = project_write[Slot(c)].id
      <3> DEFINE claim == project_write[Slot(c)]
      <3>1. Slot(c) \in Keys /\ claim # NoClaim
        BY <2>3, SlotType DEF Tables, ReplaysMeetAClaim
      <3>2. /\ claim.rpc = "RegisterProject"
            /\ claim.payload = Payload(request[c])
            /\ claim.payload.path = Path(c)
        BY <2>3 DEF SameRequest, Payload, Path
      <3>3. claim \in Claim
        BY <3>1 DEF TypeOK
      <3>4. claim.id # NoCall
        BY <3>2, <3>3, RegisterAssumption DEF Claim
      <3>5. /\ claim.payload = Payload(request[claim.id])
            /\ project[Path(c)] = claim.id
        BY <3>1, <3>2 DEF Tables, RecordsAreTrue
      <3> QED
        BY <2>3, <3>2, <3>4, <3>5, RowsStay, SlotType
    <2> QED
      BY <1>2, <2>1, <2>2, <2>3, AnswerCases DEF Told, Untold
  <1>3. ASSUME NEW c \in Calls, answer'[c] = "already_exists", Path(c) \notin Former
        PROVE  LET d == project'[Path(c)] IN
               /\ d # NoCall
               /\ ~(Keyed(c) /\ Slot(d) = Slot(c) /\ Payload(request[d]) = Payload(request[c]))
    <2>1. CASE answer'[c] = answer[c]
      BY <1>3, <2>1, RowsStay, SlotType DEF Answers, ConflictIsForeign
    <2>2. CASE pc[c] = "insert" /\ project[Path(c)] # NoCall
      <3> DEFINE d == project[Path(c)]
      <3>1. d = project'[Path(c)]
        BY <2>2, RowsStay, SlotType
      <3>2. Keyed(c) => project_write[Slot(c)] = NoClaim
        BY <2>2 DEF Tables, InFlightIsNew, Claiming
      <3>3. Keyed(d) => project_write[Slot(d)] # NoClaim
        BY <2>2, SlotType DEF Tables, RowsAreRecorded
      <3> QED
        BY <2>2, <3>1, <3>2, <3>3 DEF Keyed, Slot
    <2> QED
      BY <1>3, <2>1, <2>2, AnswerCases DEF Told, Untold
  <1>4. OkIsTheCommittedRow'
    BY <1>1, <1>2 DEF OkIsTheCommittedRow
  <1>5. ConflictIsForeign'
    BY <1>1, <1>3 DEF ConflictIsForeign
  <1> QED
    BY <1>4, <1>5 DEF Answers

(***************************************************************************)
(*                               Theorems                                   *)
(***************************************************************************)
LEMMA InitIInv == Init => IInv
  <1> SUFFICES ASSUME Init PROVE IInv
    OBVIOUS
  <1>1. TypeOK
    BY RegisterAssumption DEF Init, TypeOK, Pc, Statuses, Errors
  <1>2. Locks
    BY RegisterAssumption
    DEF Init, Locks, SlotOwners, PathOwners, Claiming, Writing
  <1>3. RecordsAreTrue
    BY RegisterAssumption DEF Init, RecordsAreTrue
  <1>4. Tables
    BY <1>3 DEF Init, Tables, InFlightIsNew, ReplaysMeetAClaim, RowsAreRecorded,
                Claiming, Writing
  <1>5. Answers
    BY DEF Init, Answers, OkIsTheCommittedRow, ConflictIsForeign
  <1> QED
    BY <1>1, <1>2, <1>4, <1>5 DEF IInv

LEMMA NextIInv == IInv /\ [Next]_vars => IInv'
  BY TypeNext, LocksNext, TablesNext, AnswersNext DEF IInv, Tables

LEMMA AlwaysIInv == Spec => []IInv
  BY InitIInv, NextIInv, PTL DEF Spec

\* Every value a statement of `register' or of the idempotency record leaves
\* behind has its type, whatever is called and wherever it is cut off.
THEOREM TypeCorrect == Spec => []TypeOK
  <1>1. IInv => TypeOK
    BY DEF IInv
  <1> QED
    BY <1>1, AlwaysIInv, PTL

\* The registered row and its record commit together or not at all
\* (idem.rs), for any calls, keys and crashes.
THEOREM RecordsMatchRows == Spec => []RecordedIffWritten
  <1>1. IInv => RecordedIffWritten
    BY DEF IInv, Tables, RowsAreRecorded, RecordsAreTrue, RecordedIffWritten
  <1> QED
    BY <1>1, AlwaysIInv, PTL

\* Two calls with one key never register two rows (D9).
OneRowPerKey ==
  \A p, q \in {path \in Paths : project[path] # NoCall} :
    Keyed(project[p]) /\ Slot(project[p]) = Slot(project[q]) => p = q

\* A key pays for one row: any number of retries of it, concurrent or after a
\* lost answer, on one path or several, register one project.  The key has one
\* record, and every row that it paid for is the one in it.
THEOREM KeysPayOnce == Spec => []OneRowPerKey
  <1>1. RecordedIffWritten => OneRowPerKey
    <2> SUFFICES ASSUME RecordedIffWritten, NEW p \in Paths, NEW q \in Paths,
                        project[p] # NoCall, project[q] # NoCall,
                        Keyed(project[p]), Slot(project[p]) = Slot(project[q])
                 PROVE  p = q
      BY DEF OneRowPerKey
    <2>1. Keyed(project[q])
      BY DEF Keyed, Slot
    <2>2. project[p] = project_write[Slot(project[p])].id /\ Path(project[p]) = p
      BY DEF RecordedIffWritten
    <2>3. project[q] = project_write[Slot(project[q])].id /\ Path(project[q]) = q
      BY <2>1 DEF RecordedIffWritten
    <2> QED
      BY <2>2, <2>3
  <1> QED
    BY <1>1, RecordsMatchRows, PTL

\* OK names a committed row at the path that was asked for, registered by the
\* same request; a replayed OK names the row the first attempt committed.
THEOREM OkIsDurable == Spec => []OkIsTheCommittedRow
  <1>1. IInv => OkIsTheCommittedRow
    BY DEF IInv, Answers
  <1> QED
    BY <1>1, AlwaysIInv, PTL

\* uq_project_path never refuses a caller its own row: a retry of a request
\* that was committed is replayed, not answered ALREADY_EXISTS.
THEOREM ConflictsAreForeign == Spec => []ConflictIsForeign
  <1>1. IInv => ConflictIsForeign
    BY DEF IInv, Answers
  <1> QED
    BY <1>1, AlwaysIInv, PTL

(***************************************************************************)
(*                        RegisterProject is Registration                   *)
(***************************************************************************)
\* The calls as Registration sees them.
CallOf == [c \in Calls |-> CallState(pc[c])]

\* Past the alias lookup the path is no former path.
PastAlias == \A c \in Calls : pc[c] \in {"insert", "record", "commit"} => Path(c) \notin Former

\* Only a call whose path is no former path gets past the lookup.
LEMMA PastAliasNext == TypeOK /\ ReplaysMeetAClaim /\ PastAlias /\ [Next]_vars => PastAlias'
  <1> SUFFICES ASSUME TypeOK, ReplaysMeetAClaim, PastAlias, [Next]_vars PROVE PastAlias'
    OBVIOUS
  <1> USE DEF PastAlias, Path
  <1>1. ASSUME NEW c \in Calls, NEW a, NEW id, NEW e, Ends(c, a, id, e) PROVE PastAlias'
    BY <1>1 DEF TypeOK, Ends, Rollback, Answer
  <1>2. ASSUME NEW c \in Calls, Begin(c) \/ ClaimNothing(c) \/ ClaimSlot(c) \/ MeetClaim(c)
        PROVE PastAlias'
    BY <1>2 DEF TypeOK, Begin, ClaimNothing, ClaimSlot, MeetClaim, Goto
  <1>3. ASSUME NEW c \in Calls, PassAlias(c) \/ InsertRow(c) \/ Record(c) PROVE PastAlias'
    BY <1>3 DEF TypeOK, PassAlias, InsertRow, Record, Goto
  <1>4. ASSUME NEW c \in Calls, Commit(c) PROVE PastAlias'
    BY <1>4 DEF TypeOK, Commit, Answer
  <1>5. CASE UNCHANGED vars
    BY <1>5 DEF vars
  <1> QED
    BY <1>1, <1>2, <1>3, <1>4, <1>5, StepCases

LEMMA AlwaysPastAlias == Spec => []PastAlias
  <1>1. Init => PastAlias
    BY DEF Init, PastAlias
  <1>2. IInv /\ PastAlias /\ [Next]_vars => PastAlias'
    BY PastAliasNext DEF IInv, Tables
  <1> QED
    BY <1>1, <1>2, AlwaysIInv, PTL DEF Spec

\* A step of one call's label is a step of that call.
LEMMA CallMoves ==
  ASSUME TypeOK, NEW c \in Calls, NEW label, pc' = [pc EXCEPT ![c] = label]
  PROVE  CallOf' = [CallOf EXCEPT ![c] = CallState(label)]
  <1>1. \A d \in Calls : pc'[d] = IF d = c THEN label ELSE pc[d]
    BY DEF TypeOK
  <1>2. CallOf' = [d \in Calls |-> CallState(pc'[d])]
    BY DEF CallOf
  <1>3. [CallOf EXCEPT ![c] = CallState(label)]
          = [d \in Calls |-> IF d = c THEN CallState(label) ELSE CallOf[d]]
    BY DEF CallOf
  <1>4. \A d \in Calls : CallState(pc'[d]) = IF d = c THEN CallState(label) ELSE CallOf[d]
    BY <1>1 DEF CallOf
  <1> QED
    BY <1>2, <1>3, <1>4, Zenon

\* A move between two statements of a transaction changes no call.
LEMMA MoveStutters ==
  ASSUME TypeOK, NEW c \in Calls, NEW label, pc' = [pc EXCEPT ![c] = label],
         CallState(pc[c]) = "open", CallState(label) = "open"
  PROVE  CallOf' = CallOf
  <1>1. CallOf' = [CallOf EXCEPT ![c] = "open"]
    BY CallMoves
  <1>2. CallOf[c] = "open"
    BY DEF CallOf
  <1> QED
    BY <1>1, <1>2 DEF CallOf

\* The end of a call is the answer Registration gives it.
LEMMA CallAnswers ==
  ASSUME TypeOK, NEW c \in Calls, NEW a, NEW id, NEW e, Answer(c, a, id, e)
  PROVE  Promise!Answer(c, a, id)
  <1>1. CallOf' = [CallOf EXCEPT ![c] = "answered"]
    <2>1. pc' = [pc EXCEPT ![c] = "done"]
      BY DEF Answer
    <2>2. CallOf' = [CallOf EXCEPT ![c] = CallState("done")]
      BY <2>1, CallMoves
    <2> QED
      BY <2>2 DEF CallState
  <1> QED
    BY <1>1 DEF Answer, Promise!Answer, CallOf

\* A rollback leaves the tables as they are.
LEMMA RollbackAnswers ==
  ASSUME TypeOK, NEW c \in Calls, NEW a, NEW id, NEW e, Rollback(c, a, id, e)
  PROVE  Promise!Answer(c, a, id) /\ UNCHANGED <<project, project_write>>
  BY CallAnswers DEF Rollback

\* A key is spent when its record is committed.
LEMMA SpentKeys ==
  ASSUME NEW c \in Calls
  PROVE  /\ Promise!Spent(c) <=> Keyed(c) /\ project_write[Slot(c)] # NoClaim
         /\ Promise!SpentOnThis(c) <=>
              Promise!Spent(c) /\ SameRequest(c, project_write[Slot(c)])
         /\ Promise!RecordOf(c)
              = [rpc |-> "RegisterProject", payload |-> Payload(request[c]), id |-> c]
  BY DEF Promise!Spent, Promise!SpentOnThis, Promise!RecordOf, SameRequest, Keyed, Slot, Payload

\* A call in its transaction that ends without an effect.
LEMMA FailsOpen ==
  ASSUME TypeOK, NEW c \in Calls, NEW a \in {"aborted", "internal", "gone"}, NEW e,
         CallState(pc[c]) = "open", Rollback(c, a, NoCall, e)
  PROVE  Promise!NoEffect(c)
  <1>1. CallOf[c] = "open"
    BY DEF CallOf
  <1>2. Promise!Answer(c, a, NoCall) /\ UNCHANGED <<project, project_write>>
    BY RollbackAnswers
  <1> QED
    BY <1>1, <1>2 DEF Promise!NoEffect, Promise!tables, CallOf

\* Before a transaction exists a refusal has no effect.
LEMMA TurnAwayHasNoEffect ==
  ASSUME TypeOK, NEW c \in Calls, TurnAway(c)
  PROVE  Promise!NoEffect(c)
  <1>1. PICK a \in {"permission_denied", "invalid_argument", "failed_precondition",
                    "unavailable", "deadline_exceeded"} : Rollback(c, a, NoCall, 0)
    BY DEF TurnAway
  <1>2. CallOf[c] = "idle"
    BY DEF TurnAway, CallOf, CallState
  <1>3. Promise!Answer(c, a, NoCall) /\ UNCHANGED <<project, project_write>>
    BY <1>1, RollbackAnswers
  <1> QED
    BY <1>2, <1>3 DEF Promise!NoEffect, Promise!tables, CallOf

\* What is answered of a spent key is Registration's answer.
LEMMA SpentKeyAnswers ==
  ASSUME TypeOK, ReplaysMeetAClaim, NEW c \in Calls, Replay(c) \/ RefuseKey(c)
  PROVE  Promise!Replay(c) \/ Promise!Refuse(c)
  <1>1. pc[c] = "replay" /\ CallOf[c] = "open"
    BY DEF Replay, RefuseKey, CallOf, CallState
  <1>2. Promise!Spent(c)
    BY <1>1, SpentKeys DEF ReplaysMeetAClaim
  <1>3. CASE Replay(c)
    <2>1. Promise!SpentOnThis(c)
      BY <1>2, <1>3, SpentKeys DEF Replay
    <2>2. /\ Promise!Answer(c, "ok", project_write[Slot(c)].id)
          /\ UNCHANGED <<project, project_write>>
      BY <1>3, RollbackAnswers DEF Replay
    <2> QED
      BY <1>1, <2>1, <2>2 DEF Promise!Replay, Promise!tables, CallOf, Slot
  <1>4. CASE RefuseKey(c)
    <2>1. ~Promise!SpentOnThis(c)
      BY <1>4, SpentKeys DEF RefuseKey
    <2>2. Promise!Answer(c, "invalid_argument", NoCall) /\ UNCHANGED <<project, project_write>>
      BY <1>4, RollbackAnswers DEF RefuseKey
    <2> QED
      BY <1>1, <1>2, <2>1, <2>2 DEF Promise!Refuse, Promise!tables, CallOf
  <1> QED
    BY <1>3, <1>4

\* A path is refused under a key that is not spent, as former or as taken.
LEMMA TakenPathAnswers ==
  ASSUME TypeOK, InFlightIsNew, NEW c \in Calls, RefuseFormerPath(c) \/ RefuseTakenPath(c)
  PROVE  Promise!Refuse(c) \/ Promise!NoEffect(c)
  <1>1. pc[c] \in {"alias", "insert"} /\ CallOf[c] = "open" /\ CallState(pc[c]) = "open"
    BY DEF RefuseFormerPath, RefuseTakenPath, CallOf, CallState
  <1>2. ~Promise!Spent(c)
    BY <1>1, SpentKeys DEF InFlightIsNew, Claiming
  <1>3. CASE Rollback(c, "already_exists", NoCall, 0)
    <2>1. Path(c) \in Former \/ project[Path(c)] # NoCall
      BY DEF RefuseFormerPath, RefuseTakenPath
    <2>2. Promise!Answer(c, "already_exists", NoCall) /\ UNCHANGED <<project, project_write>>
      BY <1>3, RollbackAnswers
    <2> QED
      BY <1>1, <1>2, <2>1, <2>2 DEF Promise!Refuse, Promise!tables, CallOf, Path
  <1>4. CASE Rollback(c, Internal(CheckRead), NoCall, CheckRead)
    <2>1. Internal(CheckRead) \in {"aborted", "internal", "gone"}
      BY InternalType DEF Errors
    <2> QED
      BY <1>1, <1>4, <2>1, FailsOpen
  <1> QED
    BY <1>3, <1>4 DEF RefuseFormerPath, RefuseTakenPath

\* A call cut off, or told to try again, had no effect.
LEMMA CutOffHasNoEffect ==
  ASSUME TypeOK, NEW c \in Calls, Abandon(c) \/ WaitFails(c)
  PROVE  Promise!NoEffect(c)
  <1>1. CallState(pc[c]) = "open"
    BY DEF Abandon, WaitFails, WaitsFor, CallState
  <1>2. PICK a \in {"aborted", "internal", "gone"}, e \in Errors : Rollback(c, a, NoCall, e)
    <2>1. CASE Abandon(c)
      <3>1. Internal(LostConnection) \in {"aborted", "internal", "gone"}
        BY InternalType DEF Errors
      <3> QED
        BY <2>1, <3>1 DEF Abandon, Errors
    <2>2. CASE WaitFails(c)
      <3>1. PICK e \in {LockWaitTimeout, Deadlock} : Rollback(c, Internal(e), NoCall, e)
        BY <2>2 DEF WaitFails
      <3>2. e \in Errors /\ Internal(e) \in {"aborted", "internal", "gone"}
        BY InternalType DEF Errors
      <3> QED
        BY <3>1, <3>2
    <2> QED
      BY <2>1, <2>2
  <1> QED
    BY <1>1, <1>2, FailsOpen

\* The commit is the instant a registration takes effect.
LEMMA CommitRegisters ==
  ASSUME TypeOK, InFlightIsNew, PastAlias, NEW c \in Calls, Commit(c)
  PROVE  Promise!Register(c)
  <1>1. pc[c] = "commit" /\ CallOf[c] = "open"
    BY DEF Commit, CallOf, CallState
  <1>2. ~Promise!Spent(c)
    BY <1>1, SpentKeys DEF InFlightIsNew, Claiming
  <1>3. request[c].path \notin Former /\ project[request[c].path] = NoCall
    BY <1>1 DEF PastAlias, InFlightIsNew, Writing, Path
  <1>4. /\ project' = [project EXCEPT ![request[c].path] = c]
        /\ project_write' = [k \in Keys |-> IF k = request[c].key THEN Promise!RecordOf(c)
                                            ELSE project_write[k]]
    BY SpentKeys DEF Commit, Path, Slot
  <1>5. \/ Promise!Answer(c, "ok", c)
        \/ \E a \in {"gone", "internal"} : Promise!Answer(c, a, NoCall)
    <2>1. Internal(LostConnection) = "internal"
      BY DEF Internal, LostConnection, LockWaitTimeout, Deadlock
    <2>2. \/ Answer(c, "ok", c, 0) \/ Answer(c, "gone", NoCall, 0)
          \/ Answer(c, "internal", NoCall, LostConnection)
      BY <2>1 DEF Commit
    <2> QED
      BY <2>2, CallAnswers
  <1> QED
    BY <1>1, <1>2, <1>3, <1>4, <1>5 DEF Promise!Register, CallOf

\* The statements between Begin and the end of a call are invisible.
LEMMA StatementsStutter ==
  ASSUME TypeOK, NEW c \in Calls,
         \/ ClaimNothing(c) \/ ClaimSlot(c) \/ MeetClaim(c) \/ PassAlias(c)
         \/ InsertRow(c) \/ Record(c)
  PROVE  UNCHANGED <<project, project_write, request, CallOf, answer, answer_id>>
  <1>1. PICK label \in {"alias", "replay", "insert", "record", "commit"} : Goto(c, label)
    BY DEF ClaimNothing, ClaimSlot, MeetClaim, PassAlias, InsertRow, Record
  <1>2. CallState(pc[c]) = "open" /\ CallState(label) = "open"
    BY <1>1 DEF ClaimNothing, ClaimSlot, MeetClaim, PassAlias, InsertRow, Record, CallState
  <1>3. CallOf' = CallOf
    BY <1>1, <1>2, MoveStutters DEF Goto
  <1> QED
    BY <1>1, <1>3 DEF Goto

LEMMA BeginOpens ==
  ASSUME TypeOK, NEW c \in Calls, Begin(c)
  PROVE  Promise!Open(c)
  <1>1. CallOf[c] = "idle"
    BY DEF Begin, CallOf, CallState
  <1>2. CallOf' = [CallOf EXCEPT ![c] = "open"]
    <2>1. pc' = [pc EXCEPT ![c] = "claim"]
      BY DEF Begin, Goto
    <2>2. CallOf' = [CallOf EXCEPT ![c] = CallState("claim")]
      BY <2>1, CallMoves
    <2> QED
      BY <2>2 DEF CallState
  <1> QED
    BY <1>1, <1>2 DEF Begin, Goto, Promise!Open, Promise!tables, CallOf

LEMMA InitRegisters == Init => Promise!Init
  BY DEF Init, Promise!Init, CallState

\* Every step is a step of Registration or leaves what it speaks of alone.
LEMMA StepRegisters == IInv /\ PastAlias /\ [Next]_vars => [Promise!Next]_(Promise!vars)
  <1> SUFFICES ASSUME IInv, PastAlias, [Next]_vars PROVE [Promise!Next]_(Promise!vars)
    OBVIOUS
  <1>0. TypeOK /\ ReplaysMeetAClaim /\ InFlightIsNew
    BY DEF IInv, Tables
  <1>1. ASSUME NEW c \in Calls, Begin(c) \/ TurnAway(c) PROVE Promise!Next
    BY <1>0, <1>1, BeginOpens, TurnAwayHasNoEffect DEF Promise!Next
  <1>2. ASSUME NEW c \in Calls, Replay(c) \/ RefuseKey(c) PROVE Promise!Next
    BY <1>0, <1>2, SpentKeyAnswers DEF Promise!Next
  <1>3. ASSUME NEW c \in Calls, RefuseFormerPath(c) \/ RefuseTakenPath(c) PROVE Promise!Next
    BY <1>0, <1>3, TakenPathAnswers DEF Promise!Next
  <1>4. ASSUME NEW c \in Calls, Abandon(c) \/ WaitFails(c) PROVE Promise!Next
    BY <1>0, <1>4, CutOffHasNoEffect DEF Promise!Next
  <1>5. ASSUME NEW c \in Calls, Commit(c) PROVE Promise!Next
    BY <1>0, <1>5, CommitRegisters DEF Promise!Next
  <1>6. ASSUME NEW c \in Calls,
               \/ ClaimNothing(c) \/ ClaimSlot(c) \/ MeetClaim(c) \/ PassAlias(c)
               \/ InsertRow(c) \/ Record(c)
        PROVE UNCHANGED Promise!vars
    BY <1>0, <1>6, StatementsStutter DEF Promise!vars, Promise!tables, CallOf
  <1>7. CASE UNCHANGED vars
    BY <1>7 DEF vars, Promise!vars, Promise!tables
  <1> QED
    BY <1>1, <1>2, <1>3, <1>4, <1>5, <1>6, <1>7 DEF Next, Step

\* RegisterProject keeps D9's promise, whatever the calls and their keys: the
\* row and its record appear at one instant or not at all, the identical retry
\* is given the recorded outcome, any other request under a spent key is
\* refused, and only a caller whose key is not spent is told of a conflict.
THEOREM RegistrationIsIdempotent == Spec => ImplementsRegistration
  BY InitRegisters, StepRegisters, AlwaysIInv, AlwaysPastAlias, PTL
  DEF Spec, ImplementsRegistration, Promise!Spec

=============================================================================
