---------------------------------- MODULE Pool ----------------------------------
(***************************************************************************)
(* The connections of one replica (src/src/pooled.rs): every call takes one *)
(* connection from sqlx's pool, no later than what its deadline allows, and *)
(* gives it back when it ends, wherever it is cut off.  A connection that   *)
(* may still be inside a transaction must not come back.                    *)
(*                                                                          *)
(* The pool, the sessions of the engine and tonic's deadline are outside    *)
(* the repository; they are modelled from what pooled.rs says of them.      *)
(***************************************************************************)
EXTENDS Integers

CONSTANTS
  Calls,       \* the rpcs that reach the store
  Conns,       \* max_connections of the pool
  NoConn,      \* no connection
  NoDeadline,  \* a request without grpc-timeout
  Budgets,     \* what a caller may have left when its request arrives
  Ceiling,     \* the pool's acquire_timeout
  Margin,      \* DEADLINE_MARGIN of yadgar_dial
  Lateness     \* how late the runtime polls a timer that is due

ASSUME PoolAssumption ==
  /\ NoConn \notin Conns
  /\ NoDeadline \notin Nat
  /\ Budgets \subseteq Nat \cup {NoDeadline}

\* The margin is there so that the store answers before tonic drops the call.
ASSUME TimeAssumption ==
  /\ Ceiling \in Nat \ {0}
  /\ Margin \in Nat
  /\ Lateness \in Nat
  /\ Lateness < Margin

VARIABLES
  pc,       \* pc[c]: where call c awaits
  left,     \* left[c]: what is left of c's deadline, until c has a connection
  limit,    \* limit[c]: the timer that ends c's wait for a connection
  waited,   \* waited[c]: how long c has waited for a connection
  answer,   \* answer[c]: how c ended
  conn,     \* conn[c]: the connection c holds
  armed,    \* armed[c]: Pooled::armed of that connection
  place,    \* place[k]: where connection k is
  wire,     \* wire[k]: the statement sent on k and not yet executed
  in_tx,    \* in_tx[k]: the engine holds k's session inside a transaction
  counted   \* counted[k]: sqlx's transaction_depth of k is not zero

clock_vars == <<left, limit, waited>>
session_vars == <<place, wire, in_tx, counted>>
vars == <<pc, clock_vars, answer, conn, armed, session_vars>>

(***************************************************************************)
(*                                  Types                                   *)
(***************************************************************************)
Waits == {"called", "acquiring", "beginning", "open", "committing", "reading", "done"}
Answers == {"none", "ok", "failed", "unavailable", "deadline_exceeded", "dropped"}
Statements == {"none", "begin", "commit", "select"}

TypeOK ==
  /\ pc \in [Calls -> Waits]
  /\ left \in [Calls -> Nat \cup {NoDeadline}]
  /\ limit \in [Calls -> 0..Ceiling]
  /\ waited \in [Calls -> 0..(Ceiling + Lateness)]
  /\ answer \in [Calls -> Answers]
  /\ conn \in [Calls -> Conns \cup {NoConn}]
  /\ armed \in [Calls -> BOOLEAN]
  /\ place \in [Conns -> {"none", "idle", "held", "returning"}]
  /\ wire \in [Conns -> Statements]
  /\ in_tx \in [Conns -> BOOLEAN]
  /\ counted \in [Conns -> BOOLEAN]

\* The pool starts empty and opens connections as they are wanted.
Init ==
  /\ pc = [c \in Calls |-> "called"]
  /\ left \in [Calls -> Budgets]
  /\ limit = [c \in Calls |-> 0]
  /\ waited = [c \in Calls |-> 0]
  /\ answer = [c \in Calls |-> "none"]
  /\ conn = [c \in Calls |-> NoConn]
  /\ armed = [c \in Calls |-> FALSE]
  /\ place = [k \in Conns |-> "none"]
  /\ wire = [k \in Conns |-> "none"]
  /\ in_tx = [k \in Conns |-> FALSE]
  /\ counted = [k \in Conns |-> FALSE]

(***************************************************************************)
(*                                  Time                                    *)
(***************************************************************************)
HasDeadline(c) == left[c] # NoDeadline

\* Mutant: the margin is not kept back.
BoundToTheLast(c) ==
  IF ~HasDeadline(c) \/ left[c] >= Ceiling THEN Ceiling ELSE left[c]

\* Deadline::bound: what is left but the margin, and no more than the ceiling.
Bound(c) ==
  IF ~HasDeadline(c) \/ left[c] >= Ceiling + Margin THEN Ceiling
  ELSE IF left[c] <= Margin THEN 0 ELSE left[c] - Margin

\* Mutant: only the caller's deadline is timed.
DueByDeadline(c) == pc[c] = "acquiring" /\ HasDeadline(c) /\ waited[c] >= limit[c]

Due(c) == pc[c] = "acquiring" /\ waited[c] >= limit[c]

\* A unit of time, for every call that waits for a connection.  It cannot pass a
\* timer that has been due for Lateness.
Tick ==
  /\ \E c \in Calls : pc[c] = "acquiring"
  /\ \A c \in Calls : pc[c] = "acquiring" => waited[c] < limit[c] + Lateness
  /\ left' = [c \in Calls |->
                IF pc[c] = "acquiring" /\ HasDeadline(c) /\ left[c] > 0
                  THEN left[c] - 1 ELSE left[c]]
  /\ waited' = [c \in Calls |-> IF pc[c] = "acquiring" THEN waited[c] + 1 ELSE waited[c]]
  /\ UNCHANGED <<pc, limit, answer, conn, armed, session_vars>>

\* From here on c is cut off whenever tonic or its caller likes: what is left of
\* its time decides nothing any more.
StopClock(c) ==
  /\ left' = [left EXCEPT ![c] = NoDeadline]
  /\ limit' = [limit EXCEPT ![c] = 0]
  /\ waited' = [waited EXCEPT ![c] = 0]

(***************************************************************************)
(*                        Taking a connection                               *)
(***************************************************************************)
\* Pooled::acquire with time left: one timer, whichever is due first.  A
\* deadline that the margin has used up is refused without touching the pool.
Acquire(c) ==
  /\ pc[c] = "called"
  /\ IF Bound(c) = 0
       THEN /\ pc' = [pc EXCEPT ![c] = "done"]
            /\ answer' = [answer EXCEPT ![c] = "deadline_exceeded"]
            /\ StopClock(c)
       ELSE /\ pc' = [pc EXCEPT ![c] = "acquiring"]
            /\ limit' = [limit EXCEPT ![c] = Bound(c)]
            /\ UNCHANGED <<left, waited, answer>>
  /\ UNCHANGED <<conn, armed, session_vars>>

\* Mutant: sqlx's own begin, which arms nothing.
SendUnarmed(c, k, where, statement) ==
  /\ pc' = [pc EXCEPT ![c] = where]
  /\ wire' = [wire EXCEPT ![k] = statement]
  /\ UNCHANGED armed

\* The first statement on a connection: Pooled::begin is armed while BEGIN is in
\* flight, a read's SELECT is not.
Send(c, k, where, statement) ==
  /\ pc' = [pc EXCEPT ![c] = where]
  /\ wire' = [wire EXCEPT ![k] = statement]
  /\ armed' = [armed EXCEPT ![c] = (statement = "begin")]

\* The pool hands out an idle connection or opens one, and the call uses it.
Take(c, k) ==
  /\ pc[c] = "acquiring"
  /\ place[k] \in {"none", "idle"}
  /\ place' = [place EXCEPT ![k] = "held"]
  /\ conn' = [conn EXCEPT ![c] = k]
  /\ Send(c, k, "beginning", "begin") \/ Send(c, k, "reading", "select")
  /\ StopClock(c)
  /\ UNCHANGED <<answer, in_tx, counted>>

\* The timer that bounds the wait: the pool's own, which sql::internal makes
\* UNAVAILABLE, or the caller's, which `spent` answers.
TimeOut(c) ==
  /\ Due(c)
  /\ pc' = [pc EXCEPT ![c] = "done"]
  /\ answer' = [answer EXCEPT ![c] =
       IF limit[c] = Ceiling THEN "unavailable" ELSE "deadline_exceeded"]
  /\ StopClock(c)
  /\ UNCHANGED <<conn, armed, session_vars>>

(***************************************************************************)
(*                        Using it and giving it back                       *)
(***************************************************************************)
\* The engine executes what was sent, whether or not anybody still awaits it.
Execute(k) ==
  /\ wire[k] # "none"
  /\ wire' = [wire EXCEPT ![k] = "none"]
  /\ in_tx' = [in_tx EXCEPT ![k] =
       CASE wire[k] = "begin" -> TRUE
         [] wire[k] = "commit" -> FALSE
         [] OTHER -> in_tx[k]]
  /\ UNCHANGED <<pc, clock_vars, answer, conn, armed, place, counted>>

\* BEGIN has returned: sqlx counts the transaction, and begin disarms.
BeginReturns(c) ==
  /\ pc[c] = "beginning"
  /\ wire[conn[c]] = "none"
  /\ pc' = [pc EXCEPT ![c] = "open"]
  /\ counted' = [counted EXCEPT ![conn[c]] = TRUE]
  /\ armed' = [armed EXCEPT ![c] = FALSE]
  /\ UNCHANGED <<clock_vars, answer, conn, place, wire, in_tx>>

\* The last statement of a write.  Those before it leave the session as it is.
SendCommit(c) ==
  /\ pc[c] = "open"
  /\ pc' = [pc EXCEPT ![c] = "committing"]
  /\ wire' = [wire EXCEPT ![conn[c]] = "commit"]
  /\ UNCHANGED <<clock_vars, answer, conn, armed, place, in_tx, counted>>

\* Mutant: the connection is closed without giving its place back.
CloseNoPlace(k) ==
  /\ wire' = [wire EXCEPT ![k] = "none"]
  /\ in_tx' = [in_tx EXCEPT ![k] = FALSE]
  /\ counted' = [counted EXCEPT ![k] = FALSE]
  /\ UNCHANGED place

\* close_on_drop: the session ends, and the pool may open another in its place.
Close(k) ==
  /\ wire' = [wire EXCEPT ![k] = "none"]
  /\ in_tx' = [in_tx EXCEPT ![k] = FALSE]
  /\ counted' = [counted EXCEPT ![k] = FALSE]
  /\ place' = [place EXCEPT ![k] = "none"]

\* The end of a call that holds a connection: Drop for Pooled.  An armed
\* connection is closed, any other goes back to the pool on a task of its own.
Release(c, how, still_counted) ==
  LET k == conn[c] IN
  /\ pc' = [pc EXCEPT ![c] = "done"]
  /\ answer' = [answer EXCEPT ![c] = how]
  /\ conn' = [conn EXCEPT ![c] = NoConn]
  /\ armed' = [armed EXCEPT ![c] = FALSE]
  /\ \/ armed[c] /\ Close(k)
     \/ /\ ~armed[c]
        /\ place' = [place EXCEPT ![k] = "returning"]
        /\ counted' = [counted EXCEPT ![k] = still_counted]
        /\ UNCHANGED <<wire, in_tx>>
  /\ UNCHANGED clock_vars

\* The last reply: sqlx takes the transaction off its count once COMMIT has
\* returned.  A read may send further SELECTs first, which change nothing here.
Finish(c) ==
  /\ pc[c] \in {"committing", "reading"}
  /\ wire[conn[c]] = "none"
  /\ Release(c, "ok", FALSE)

\* A call that is cut off while it holds a connection: a statement fails, or
\* tonic drops the handler, at its deadline or because the caller left.
CutOff(c) ==
  /\ pc[c] \in {"beginning", "open", "committing", "reading"}
  /\ \E how \in {"failed", "dropped"} : Release(c, how, counted[conn[c]])

\* The same while it waits for one: the pool's acquire fails other than by its
\* timeout (internal), or the handler is dropped.
CutOffWaiting(c) ==
  /\ pc[c] = "acquiring"
  /\ pc' = [pc EXCEPT ![c] = "done"]
  /\ \E how \in {"failed", "dropped"} : answer' = [answer EXCEPT ![c] = how]
  /\ StopClock(c)
  /\ UNCHANGED <<conn, armed, session_vars>>

\* sqlx's return to the pool: it drains the reply of what is on the wire, runs
\* the ROLLBACK that a counted transaction queued when it was dropped, pings.
Return(k) ==
  /\ place[k] = "returning"
  /\ wire[k] = "none"
  /\ place' = [place EXCEPT ![k] = "idle"]
  /\ in_tx' = [in_tx EXCEPT ![k] = in_tx[k] /\ ~counted[k]]
  /\ counted' = [counted EXCEPT ![k] = FALSE]
  /\ UNCHANGED <<pc, clock_vars, answer, conn, armed, wire>>

CallStep(c) ==
  \/ Acquire(c) \/ (\E k \in Conns : Take(c, k)) \/ TimeOut(c)
  \/ BeginReturns(c) \/ SendCommit(c) \/ Finish(c) \/ CutOff(c) \/ CutOffWaiting(c)

Next ==
  \/ \E c \in Calls : CallStep(c)
  \/ \E k \in Conns : Execute(k) \/ Return(k)
  \/ Tick

Spec == Init /\ [][Next]_vars

\* Time passes and due timers fire.  No call that holds a connection need ever
\* end, and no connection need ever come back.
FairSpec == Spec /\ WF_vars(Tick) /\ \A c \in Calls : WF_vars(TimeOut(c))

(***************************************************************************)
(*                                Properties                                *)
(***************************************************************************)
\* A connection the pool can hand out is outside any transaction, with nothing
\* on the wire and nothing queued, wherever its last borrower was cut off
\* (Pooled::begin: sqlx's own begin is not cancel-safe).  Otherwise the next
\* borrower's autocommit reads would run in a stale snapshot.
HandsOutClean ==
  \A k \in Conns : place[k] \in {"none", "idle"} =>
    ~in_tx[k] /\ ~counted[k] /\ wire[k] = "none"

\* A connection that is out is held by one call, and every call that has ended
\* gave its own back: none is handed out twice, and none is lost to the pool.
HeldByOne ==
  /\ \A k \in Conns : place[k] = "held" <=> \E c \in Calls : conn[c] = k
  /\ \A c, d \in Calls : c # d /\ conn[c] # NoConn => conn[c] # conn[d]

\* The store answers a caller itself, before the caller's time is up and tonic
\* drops the handler: no call reaches its deadline waiting for a connection.
AnsweredBeforeDeadline ==
  \A c \in Calls : pc[c] = "acquiring" /\ HasDeadline(c) => left[c] > 0

\* Every wait for a connection ends, even if no holder ever gives one back.
WaitingEnds == \A c \in Calls : pc[c] = "acquiring" ~> pc[c] # "acquiring"
=============================================================================
