---------------------------- MODULE Registration ----------------------------
(***************************************************************************)
(* What RegisterProject promises under D9: a repeated key is a replay for  *)
(* the identical request and a refusal for any other, and a write and the  *)
(* record that it happened are one.  A call takes effect at one instant or *)
(* not at all; there are no transactions, locks, read views or retryable   *)
(* waits here: RegisterProject.tla is the code, and is shown to implement  *)
(* this module.                                                            *)
(***************************************************************************)
CONSTANTS Calls, Paths, Former, Keys, NoKey, Requests, OldClaims, NoCall, NoClaim

VARIABLES
  project, project_write,   \* the committed tables
  request,                  \* request[c]: what call c was sent
  call,                     \* call[c]: "idle", "open" or "answered"
  answer, answer_id         \* the status the caller got, and the project id

tables == <<project, project_write>>
vars == <<tables, request, call, answer, answer_id>>

\* The record of a registration: `scope' and `idempotency' are no payload.
RecordOf(c) == [rpc |-> "RegisterProject",
                payload |-> [path |-> request[c].path, name |-> request[c].name],
                id |-> c]

\* The key of a call is spent, on the call's own request.
Spent(c) == request[c].key # NoKey /\ project_write[request[c].key] # NoClaim
SpentOnThis(c) ==
  LET claim == project_write[request[c].key] IN
  Spent(c) /\ claim.rpc = RecordOf(c).rpc /\ claim.payload = RecordOf(c).payload

Init ==
  /\ project = [p \in Paths |-> NoCall]
  /\ project_write \in OldClaims
  /\ request \in Requests
  /\ call = [c \in Calls |-> "idle"]
  /\ answer = [c \in Calls |-> "none"]
  /\ answer_id = [c \in Calls |-> NoCall]

Open(c) ==
  /\ call[c] = "idle"
  /\ call' = [call EXCEPT ![c] = "open"]
  /\ UNCHANGED <<tables, request, answer, answer_id>>

Answer(c, a, id) ==
  /\ call' = [call EXCEPT ![c] = "answered"]
  /\ answer' = [answer EXCEPT ![c] = a]
  /\ answer_id' = [answer_id EXCEPT ![c] = id]
  /\ UNCHANGED request

\* The row and its record appear together.  The caller may not hear of it.
Register(c) ==
  /\ call[c] = "open"
  /\ ~Spent(c)
  /\ request[c].path \notin Former
  /\ project[request[c].path] = NoCall
  /\ project' = [project EXCEPT ![request[c].path] = c]
  /\ project_write' = [k \in Keys |-> IF k = request[c].key THEN RecordOf(c) ELSE project_write[k]]
  /\ \/ Answer(c, "ok", c)
     \/ \E a \in {"gone", "internal"} : Answer(c, a, NoCall)

\* The retry is given the recorded outcome, and writes nothing.
Replay(c) ==
  /\ call[c] = "open"
  /\ SpentOnThis(c)
  /\ Answer(c, "ok", project_write[request[c].key].id)
  /\ UNCHANGED tables

\* Any other request under a spent key is refused, never replayed; and only a
\* call whose key is not spent is told that its path is taken.
Refuse(c) ==
  /\ call[c] = "open"
  /\ \/ Spent(c) /\ ~SpentOnThis(c) /\ Answer(c, "invalid_argument", NoCall)
     \/ /\ ~Spent(c)
        /\ request[c].path \in Former \/ project[request[c].path] # NoCall
        /\ Answer(c, "already_exists", NoCall)
  /\ UNCHANGED tables

\* Turned away before it opened a transaction, or rolled back: no effect.
NoEffect(c) ==
  /\ \/ /\ call[c] = "idle"
        /\ \E a \in {"permission_denied", "invalid_argument", "failed_precondition",
                     "unavailable", "deadline_exceeded"} : Answer(c, a, NoCall)
     \/ /\ call[c] = "open"
        /\ \E a \in {"aborted", "internal", "gone"} : Answer(c, a, NoCall)
  /\ UNCHANGED tables

Next == \E c \in Calls : Open(c) \/ Register(c) \/ Replay(c) \/ Refuse(c) \/ NoEffect(c)

Spec == Init /\ [][Next]_vars
=============================================================================
