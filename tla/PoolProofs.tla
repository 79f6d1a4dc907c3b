------------------------------- MODULE PoolProofs -------------------------------
(***************************************************************************)
(* Theorems about Pool: whatever the pool's size, the calls, their budgets  *)
(* and the timers, no connection comes back dirty and no caller runs out of *)
(* time waiting for one.                                                    *)
(***************************************************************************)
EXTENDS Pool, TLAPS

\* What the session of a call that awaits its statement looks like.
Holding(c) ==
  LET k == conn[c] IN
  /\ place[k] = "held"
  /\ armed[c] <=> pc[c] = "beginning"
  /\ \/ pc[c] = "beginning" /\ ~counted[k] /\ wire[k] \in {"none", "begin"}
     \/ pc[c] = "open" /\ counted[k] /\ wire[k] = "none"
     \/ /\ pc[c] = "committing" /\ counted[k] /\ wire[k] \in {"none", "commit"}
        /\ wire[k] = "none" => ~in_tx[k]
     \/ pc[c] = "reading" /\ ~counted[k] /\ ~in_tx[k] /\ wire[k] \in {"none", "select"}

\* Only the calls past their wait hold a connection, and only while it matters
\* is it armed.
CallsHold ==
  \A c \in Calls :
    IF pc[c] \in {"called", "acquiring", "done"}
      THEN conn[c] = NoConn /\ ~armed[c]
      ELSE conn[c] \in Conns /\ Holding(c)

\* What a connection on its way back still has to undo, sqlx knows of.
ReturnsAreCounted ==
  \A k \in Conns : place[k] = "returning" =>
    /\ wire[k] # "begin"
    /\ in_tx[k] => counted[k]

\* The clock and the deadline of a waiting call run together, Margin apart.
ClocksAgree ==
  \A c \in Calls :
    IF pc[c] = "acquiring"
      THEN /\ waited[c] <= limit[c] + Lateness
           /\ HasDeadline(c) => left[c] + waited[c] >= limit[c] + Margin
      ELSE waited[c] = 0

IInv ==
  TypeOK /\ HeldByOne /\ HandsOutClean /\ CallsHold /\ ReturnsAreCounted /\ ClocksAgree

(***************************************************************************)
(*                              Type correctness                            *)
(***************************************************************************)
\* The bound of a wait is a time within the ceiling.
LEMMA BoundType ==
  ASSUME TypeOK, NEW c \in Calls
  PROVE  /\ Bound(c) \in 0..Ceiling
         /\ HasDeadline(c) /\ Bound(c) # 0 => left[c] >= Bound(c) + Margin
  BY PoolAssumption, TimeAssumption DEF TypeOK, Bound, HasDeadline

\* The cases of a step, with the connection of a call that takes one.
LEMMA StepCases ==
  ASSUME [Next]_vars
  PROVE  \/ \E c \in Calls : Acquire(c)
         \/ \E c \in Calls, k \in Conns : Take(c, k)
         \/ \E c \in Calls : TimeOut(c)
         \/ \E c \in Calls : BeginReturns(c)
         \/ \E c \in Calls : SendCommit(c)
         \/ \E c \in Calls : Finish(c)
         \/ \E c \in Calls : CutOff(c)
         \/ \E c \in Calls : CutOffWaiting(c)
         \/ \E k \in Conns : Execute(k)
         \/ \E k \in Conns : Return(k)
         \/ Tick
         \/ UNCHANGED vars
  BY DEF Next, CallStep

\* Giving a connection back keeps the types.
LEMMA ReleaseType ==
  ASSUME TypeOK, NEW c \in Calls, NEW how \in Answers, NEW b \in BOOLEAN, Release(c, how, b)
  PROVE  TypeOK'
  <1>1. /\ pc' \in [Calls -> Waits]
        /\ answer' \in [Calls -> Answers]
        /\ conn' \in [Calls -> Conns \cup {NoConn}]
        /\ armed' \in [Calls -> BOOLEAN]
    BY DEF TypeOK, Release, Waits
  <1>2. /\ left' \in [Calls -> Nat \cup {NoDeadline}]
        /\ limit' \in [Calls -> 0..Ceiling]
        /\ waited' \in [Calls -> 0..(Ceiling + Lateness)]
    BY DEF TypeOK, Release, clock_vars
  <1>3. /\ place \in [Conns -> {"none", "idle", "held", "returning"}]
        /\ wire \in [Conns -> Statements] /\ "none" \in Statements
        /\ in_tx \in [Conns -> BOOLEAN] /\ counted \in [Conns -> BOOLEAN]
    BY DEF TypeOK, Statements
  <1>4. \/ Close(conn[c])
        \/ /\ place' = [place EXCEPT ![conn[c]] = "returning"]
           /\ counted' = [counted EXCEPT ![conn[c]] = b]
           /\ UNCHANGED <<wire, in_tx>>
    BY DEF Release
  <1>5. place' \in [Conns -> {"none", "idle", "held", "returning"}]
    BY <1>3, <1>4 DEF Close
  <1>6. wire' \in [Conns -> Statements]
    BY <1>3, <1>4 DEF Close
  <1>7. in_tx' \in [Conns -> BOOLEAN] /\ counted' \in [Conns -> BOOLEAN]
    BY <1>3, <1>4, Zenon DEF Close
  <1> QED
    BY <1>1, <1>2, <1>5, <1>6, <1>7 DEF TypeOK

\* Every step keeps the types.
LEMMA TypeNext == TypeOK /\ [Next]_vars => TypeOK'
  <1> SUFFICES ASSUME TypeOK, [Next]_vars PROVE TypeOK'
    OBVIOUS
  <1>1. ASSUME NEW c \in Calls, Acquire(c) PROVE TypeOK'
    BY <1>1, BoundType, TimeAssumption
    DEF TypeOK, Acquire, StopClock, session_vars, Waits, Answers
  <1>2. ASSUME NEW c \in Calls, NEW k \in Conns, Take(c, k) PROVE TypeOK'
    <2>1. /\ left' \in [Calls -> Nat \cup {NoDeadline}]
          /\ limit' \in [Calls -> 0..Ceiling]
          /\ waited' \in [Calls -> 0..(Ceiling + Lateness)]
      BY <1>2, TimeAssumption DEF TypeOK, Take, StopClock
    <2>2. /\ pc' \in [Calls -> Waits]
          /\ wire' \in [Conns -> Statements]
          /\ armed' \in [Calls -> BOOLEAN]
      BY <1>2 DEF TypeOK, Take, Send, Waits, Statements
    <2>3. /\ conn' \in [Calls -> Conns \cup {NoConn}]
          /\ place' \in [Conns -> {"none", "idle", "held", "returning"}]
          /\ UNCHANGED <<answer, in_tx, counted>>
      BY <1>2 DEF TypeOK, Take, Send
    <2> QED
      BY <2>1, <2>2, <2>3 DEF TypeOK
  <1>3. ASSUME NEW c \in Calls, TimeOut(c) \/ CutOffWaiting(c) PROVE TypeOK'
    BY <1>3, TimeAssumption
    DEF TypeOK, TimeOut, CutOffWaiting, StopClock, session_vars, Waits, Answers
  <1>4. ASSUME NEW c \in Calls, BeginReturns(c) \/ SendCommit(c) PROVE TypeOK'
    BY <1>4 DEF TypeOK, BeginReturns, SendCommit, clock_vars, Waits, Statements
  <1>5. ASSUME NEW c \in Calls, Finish(c) PROVE TypeOK'
    BY <1>5, ReleaseType DEF Finish, Answers
  <1>6. ASSUME NEW c \in Calls, CutOff(c) PROVE TypeOK'
    <2>1. PICK how \in {"failed", "dropped"} : Release(c, how, counted[conn[c]])
      BY <1>6 DEF CutOff
    <2>2. TypeOK' \/ counted[conn[c]] \notin BOOLEAN
      BY <2>1, ReleaseType DEF Answers
    <2> QED
      BY <2>1, <2>2 DEF TypeOK, Release, Close, Waits, Answers, Statements, clock_vars
  <1>7. ASSUME NEW k \in Conns, Execute(k) \/ Return(k) PROVE TypeOK'
    BY <1>7 DEF TypeOK, Execute, Return, clock_vars, Statements
  <1>8. CASE Tick
    BY <1>8, TimeAssumption, PoolAssumption
    DEF TypeOK, Tick, session_vars, HasDeadline
  <1>9. CASE UNCHANGED vars
    BY <1>9 DEF TypeOK, vars, clock_vars, session_vars
  <1> QED
    BY <1>1, <1>2, <1>3, <1>4, <1>5, <1>6, <1>7, <1>8, <1>9, StepCases

(***************************************************************************)
(*                                  Time                                    *)
(***************************************************************************)
\* Only Acquire starts a clock, and all that run advance together.
LEMMA ClocksAgreeNext == TypeOK /\ ClocksAgree /\ [Next]_vars => ClocksAgree'
  <1> SUFFICES ASSUME TypeOK, ClocksAgree, [Next]_vars PROVE ClocksAgree'
    OBVIOUS
  <1>1. ASSUME NEW c \in Calls, Acquire(c) PROVE ClocksAgree'
    <2>1. CASE Bound(c) = 0
      BY <1>1, <2>1 DEF Acquire, StopClock, ClocksAgree, HasDeadline, TypeOK
    <2>2. CASE Bound(c) # 0
      <3>1. /\ pc' = [pc EXCEPT ![c] = "acquiring"]
            /\ limit' = [limit EXCEPT ![c] = Bound(c)]
            /\ UNCHANGED <<left, waited>>
        BY <1>1, <2>2 DEF Acquire
      <3>2. waited[c] = 0
        BY <1>1 DEF Acquire, ClocksAgree
      <3>3. HasDeadline(c) => left[c] >= Bound(c) + Margin
        BY <2>2, BoundType
      <3> QED
        BY <3>1, <3>2, <3>3, BoundType, TimeAssumption DEF ClocksAgree, HasDeadline, TypeOK
    <2> QED
      BY <2>1, <2>2
  <1>2. ASSUME NEW c \in Calls, NEW k \in Conns, Take(c, k) PROVE ClocksAgree'
    BY <1>2 DEF Take, Send, StopClock, ClocksAgree, HasDeadline, TypeOK
  <1>3. ASSUME NEW c \in Calls, TimeOut(c) \/ CutOffWaiting(c) PROVE ClocksAgree'
    BY <1>3 DEF TimeOut, CutOffWaiting, StopClock, ClocksAgree, HasDeadline, TypeOK
  <1>4. ASSUME NEW c \in Calls, BeginReturns(c) \/ SendCommit(c) PROVE ClocksAgree'
    BY <1>4 DEF BeginReturns, SendCommit, clock_vars, ClocksAgree, HasDeadline, TypeOK
  <1>5. ASSUME NEW c \in Calls, Finish(c) \/ CutOff(c) PROVE ClocksAgree'
    BY <1>5 DEF Finish, CutOff, Release, clock_vars, ClocksAgree, HasDeadline, TypeOK
  <1>6. ASSUME NEW k \in Conns, Execute(k) \/ Return(k) PROVE ClocksAgree'
    BY <1>6 DEF Execute, Return, clock_vars, ClocksAgree, HasDeadline
  <1>7. CASE Tick
    <2>0. /\ UNCHANGED <<pc, limit>>
          /\ \A d \in Calls : pc[d] # "acquiring" => waited'[d] = waited[d]
      BY <1>7 DEF Tick
    <2> SUFFICES ASSUME NEW d \in Calls, pc[d] = "acquiring"
                 PROVE  /\ waited'[d] <= limit[d] + Lateness
                        /\ HasDeadline(d)' => left'[d] + waited'[d] >= limit[d] + Margin
      BY <2>0 DEF ClocksAgree
    <2>1. pc[d] = "acquiring" /\ limit'[d] = limit[d] /\ waited[d] < limit[d] + Lateness
      BY <1>7 DEF Tick
    <2>2. waited'[d] = waited[d] + 1
      BY <1>7, <2>1 DEF Tick
    <2>3. ASSUME HasDeadline(d)' PROVE left'[d] + waited'[d] >= limit[d] + Margin
      <3>1. HasDeadline(d) /\ left[d] \in Nat
        BY <1>7, <2>1, <2>3, PoolAssumption DEF Tick, HasDeadline, TypeOK
      <3>2. left[d] + waited[d] >= limit[d] + Margin
        BY <2>1, <3>1 DEF ClocksAgree
      <3>3. left[d] > 0
        BY <2>1, <3>1, <3>2, TimeAssumption DEF TypeOK
      <3>4. left'[d] = left[d] - 1
        BY <1>7, <2>1, <3>1, <3>3 DEF Tick
      <3> QED
        BY <2>1, <2>2, <3>1, <3>2, <3>4, TimeAssumption DEF TypeOK
    <2> QED
      BY <2>1, <2>2, <2>3, TimeAssumption DEF TypeOK
  <1>8. CASE UNCHANGED vars
    BY <1>8 DEF vars, clock_vars, ClocksAgree, HasDeadline
  <1> QED
    BY <1>1, <1>2, <1>3, <1>4, <1>5, <1>6, <1>7, <1>8, StepCases

(***************************************************************************)
(*                                Sessions                                  *)
(***************************************************************************)
Sessions == HeldByOne /\ HandsOutClean /\ CallsHold /\ ReturnsAreCounted

session_state == <<conn, armed, session_vars>>

\* A call that only waits, or stops waiting, touches no session.
LEMMA WaitingFrame ==
  ASSUME TypeOK, Sessions, NEW c \in Calls, UNCHANGED session_state,
         pc[c] \in {"called", "acquiring"},
         \E w \in {"acquiring", "done"} : pc' = [pc EXCEPT ![c] = w]
  PROVE  Sessions'
  BY DEF Sessions, HeldByOne, HandsOutClean, CallsHold, Holding, ReturnsAreCounted,
         session_state, session_vars, TypeOK

\* A call that has its connection keeps it: what changes is its own session.
LEMMA HolderFrame ==
  ASSUME TypeOK, Sessions, NEW c \in Calls, conn[c] # NoConn,
         UNCHANGED <<conn, place>>,
         \A d \in Calls \ {c} : pc'[d] = pc[d] /\ armed'[d] = armed[d],
         \A k \in Conns \ {conn[c]} :
           wire'[k] = wire[k] /\ in_tx'[k] = in_tx[k] /\ counted'[k] = counted[k],
         pc'[c] \notin {"called", "acquiring", "done"},
         Holding(c)'
  PROVE  Sessions'
  <1>1. conn[c] \in Conns /\ place[conn[c]] = "held"
    BY DEF TypeOK, Sessions, HeldByOne
  <1>2. HeldByOne' /\ HandsOutClean' /\ ReturnsAreCounted'
    BY <1>1 DEF Sessions, HeldByOne, HandsOutClean, ReturnsAreCounted
  <1>3. ASSUME NEW d \in Calls, d # c
        PROVE  IF pc[d] \in {"called", "acquiring", "done"}
                 THEN conn[d] = NoConn /\ ~armed'[d]
                 ELSE conn[d] \in Conns /\ Holding(d)'
    <2>1. conn[d] # conn[c]
      BY <1>3 DEF Sessions, HeldByOne
    <2> QED
      BY <1>3, <2>1 DEF Sessions, CallsHold, Holding
  <1>4. CallsHold'
    BY <1>1, <1>3 DEF CallsHold
  <1> QED
    BY <1>2, <1>4 DEF Sessions

\* A call that ends gives its connection back, or closes it, and no other.
LEMMA ReleaseFrame ==
  ASSUME TypeOK, Sessions, NEW c \in Calls, conn[c] # NoConn,
         NEW how, NEW b \in BOOLEAN, Release(c, how, b),
         ~armed[c] => wire[conn[c]] # "begin" /\ (in_tx[conn[c]] => b)
  PROVE  Sessions'
  <1> DEFINE k == conn[c]
  <1>1. k \in Conns /\ place[k] = "held"
    BY DEF TypeOK, Sessions, HeldByOne
  <1>2. /\ conn' = [conn EXCEPT ![c] = NoConn]
        /\ \E w \in {"none", "returning"} : place' = [place EXCEPT ![k] = w]
        /\ pc' = [pc EXCEPT ![c] = "done"]
        /\ armed' = [armed EXCEPT ![c] = FALSE]
    BY DEF Release, Close
  <1>3. /\ place'[k] = "none" => ~in_tx'[k] /\ ~counted'[k] /\ wire'[k] = "none"
        /\ place'[k] = "returning" => wire'[k] # "begin" /\ (in_tx'[k] => counted'[k])
        /\ \A j \in Conns \ {k} :
             wire'[j] = wire[j] /\ in_tx'[j] = in_tx[j] /\ counted'[j] = counted[j]
    BY <1>1 DEF Release, Close, TypeOK
  <1>4. HeldByOne'
    <2>1. \A j \in Conns : place'[j] = "held" <=> place[j] = "held" /\ j # k
      BY <1>1, <1>2 DEF TypeOK
    <2>2. \A j \in Conns : (\E d \in Calls : conn'[d] = j)
                           <=> (\E d \in Calls : conn[d] = j) /\ j # k
      BY <1>1, <1>2, PoolAssumption DEF TypeOK, Sessions, HeldByOne
    <2>3. \A d, e \in Calls : d # e /\ conn'[d] # NoConn => conn'[d] # conn'[e]
      BY <1>2 DEF TypeOK, Sessions, HeldByOne
    <2> QED
      BY <2>1, <2>2, <2>3 DEF Sessions, HeldByOne
  <1>5. HandsOutClean' /\ ReturnsAreCounted'
    BY <1>1, <1>2, <1>3 DEF Sessions, HandsOutClean, ReturnsAreCounted, TypeOK
  <1>6. CallsHold'
    <2>1. ASSUME NEW d \in Calls, d # c
          PROVE  IF pc'[d] \in {"called", "acquiring", "done"}
                   THEN conn'[d] = NoConn /\ ~armed'[d]
                   ELSE conn'[d] \in Conns /\ Holding(d)'
      <3>1. pc'[d] = pc[d] /\ conn'[d] = conn[d] /\ armed'[d] = armed[d]
        BY <1>2, <2>1 DEF TypeOK
      <3>2. CASE conn[d] = NoConn
        BY <3>1, <3>2, PoolAssumption DEF Sessions, CallsHold
      <3>3. CASE conn[d] # NoConn
        <4>1. conn[d] \in Conns /\ conn[d] # k
          BY <2>1, <3>3 DEF TypeOK, Sessions, HeldByOne
        <4>2. place'[conn[d]] = place[conn[d]]
          BY <1>2, <4>1 DEF TypeOK
        <4> QED
          BY <1>3, <3>1, <4>1, <4>2 DEF Sessions, CallsHold, Holding
      <3> QED
        BY <3>2, <3>3
    <2>2. pc'[c] = "done" /\ conn'[c] = NoConn /\ ~armed'[c]
      BY <1>2 DEF TypeOK
    <2> QED
      BY <2>1, <2>2 DEF CallsHold
  <1> QED
    BY <1>4, <1>5, <1>6 DEF Sessions

\* Every step keeps what is known of the sessions.
LEMMA SessionsNext == TypeOK /\ Sessions /\ [Next]_vars => Sessions'
  <1> SUFFICES ASSUME TypeOK, Sessions, [Next]_vars PROVE Sessions'
    OBVIOUS
  <1>1. ASSUME NEW c \in Calls, Acquire(c) \/ TimeOut(c) \/ CutOffWaiting(c) PROVE Sessions'
    BY <1>1, WaitingFrame DEF Acquire, TimeOut, Due, CutOffWaiting, session_state, session_vars
  <1>2. ASSUME NEW c \in Calls, NEW k \in Conns, Take(c, k) PROVE Sessions'
    <2>1. /\ conn[c] = NoConn /\ ~armed[c]
          /\ place[k] # "held"
          /\ ~in_tx[k] /\ ~counted[k] /\ wire[k] = "none"
      BY <1>2 DEF Take, Sessions, CallsHold, HandsOutClean
    <2>2. /\ conn' = [conn EXCEPT ![c] = k]
          /\ place' = [place EXCEPT ![k] = "held"]
          /\ UNCHANGED <<in_tx, counted>>
      BY <1>2 DEF Take
    <2>3. \/ /\ pc' = [pc EXCEPT ![c] = "beginning"]
             /\ wire' = [wire EXCEPT ![k] = "begin"]
             /\ armed' = [armed EXCEPT ![c] = TRUE]
          \/ /\ pc' = [pc EXCEPT ![c] = "reading"]
             /\ wire' = [wire EXCEPT ![k] = "select"]
             /\ armed' = [armed EXCEPT ![c] = FALSE]
      BY <1>2 DEF Take, Send
    <2>4. \A d \in Calls : conn[d] # k
      BY <2>1 DEF Sessions, HeldByOne
    <2>5. HeldByOne'
      BY <2>1, <2>2, <2>4, PoolAssumption DEF Sessions, HeldByOne, TypeOK
    <2>6. HandsOutClean' /\ ReturnsAreCounted'
      BY <2>2, <2>3 DEF Sessions, HandsOutClean, ReturnsAreCounted, TypeOK
    <2>7. CallsHold'
      <3>1. ASSUME NEW d \in Calls, d # c
            PROVE  IF pc'[d] \in {"called", "acquiring", "done"}
                     THEN conn'[d] = NoConn /\ ~armed'[d]
                     ELSE conn'[d] \in Conns /\ Holding(d)'
        <4>1. pc'[d] = pc[d] /\ conn'[d] = conn[d] /\ armed'[d] = armed[d]
          BY <2>2, <2>3, <3>1 DEF TypeOK
        <4>2. \A j \in Conns : j # k => place'[j] = place[j] /\ wire'[j] = wire[j]
          BY <2>2, <2>3 DEF TypeOK
        <4> QED
          BY <2>2, <2>4, <4>1, <4>2 DEF Sessions, CallsHold, Holding
      <3>2. conn'[c] = k /\ place'[k] = "held"
        BY <2>2 DEF TypeOK
      <3>3. pc'[c] \in {"beginning", "reading"} /\ Holding(c)'
        BY <2>1, <2>2, <2>3, <3>2 DEF Holding, TypeOK
      <3> QED
        BY <3>1, <3>2, <3>3 DEF CallsHold
    <2> QED
      BY <2>5, <2>6, <2>7 DEF Sessions
  <1>3. ASSUME NEW c \in Calls, BeginReturns(c) PROVE Sessions'
    <2>1. conn[c] \in Conns /\ Holding(c)
      BY <1>3 DEF BeginReturns, Sessions, CallsHold
    <2>2. conn[c] # NoConn
      BY <2>1, PoolAssumption
    <2>3. Holding(c)'
      BY <1>3, <2>1 DEF BeginReturns, Holding, TypeOK
    <2> QED
      BY <1>3, <2>1, <2>2, <2>3, HolderFrame DEF BeginReturns, TypeOK
  <1>4. ASSUME NEW c \in Calls, SendCommit(c) PROVE Sessions'
    <2>1. conn[c] \in Conns /\ Holding(c)
      BY <1>4 DEF SendCommit, Sessions, CallsHold
    <2>2. conn[c] # NoConn
      BY <2>1, PoolAssumption
    <2>3. Holding(c)'
      BY <1>4, <2>1 DEF SendCommit, Holding, TypeOK
    <2> QED
      BY <1>4, <2>1, <2>2, <2>3, HolderFrame DEF SendCommit, TypeOK
  <1>5. ASSUME NEW c \in Calls, Finish(c) PROVE Sessions'
    <2>1. conn[c] \in Conns /\ Holding(c)
      BY <1>5 DEF Finish, Sessions, CallsHold
    <2>2. wire[conn[c]] = "none" /\ ~in_tx[conn[c]]
      BY <1>5, <2>1 DEF Finish, Holding
    <2> QED
      BY <1>5, <2>1, <2>2, ReleaseFrame, PoolAssumption DEF Finish
  <1>6. ASSUME NEW c \in Calls, CutOff(c) PROVE Sessions'
    <2>1. conn[c] \in Conns /\ Holding(c)
      BY <1>6 DEF CutOff, Sessions, CallsHold
    <2>2. /\ conn[c] # NoConn /\ counted[conn[c]] \in BOOLEAN
          /\ ~armed[c] => wire[conn[c]] # "begin" /\ (in_tx[conn[c]] => counted[conn[c]])
      BY <2>1, PoolAssumption DEF Holding, TypeOK
    <2> QED
      BY <1>6, <2>2, ReleaseFrame DEF CutOff
  <1>7. ASSUME NEW k \in Conns, Execute(k) PROVE Sessions'
    <2>1. place[k] \in {"held", "returning"}
      BY <1>7 DEF Execute, Sessions, HandsOutClean, TypeOK
    <2>2. CASE place[k] = "held"
      <3>1. PICK c \in Calls : conn[c] = k
        BY <2>2 DEF Sessions, HeldByOne
      <3>2. conn[c] # NoConn /\ Holding(c) /\ pc[c] \notin {"called", "acquiring", "done"}
        BY <3>1, PoolAssumption DEF Sessions, CallsHold
      <3>3. Holding(c)'
        BY <1>7, <3>1, <3>2 DEF Execute, Holding, TypeOK
      <3> QED
        BY <1>7, <3>1, <3>2, <3>3, HolderFrame DEF Execute, TypeOK
    <2>3. CASE place[k] = "returning"
      <3>1. \A c \in Calls : conn[c] # k
        BY <2>3 DEF Sessions, HeldByOne
      <3>2. wire' = [wire EXCEPT ![k] = "none"] /\ (in_tx'[k] => in_tx[k])
        BY <1>7, <2>3 DEF Execute, Sessions, ReturnsAreCounted, TypeOK
      <3>3. \A j \in Conns \ {k} : in_tx'[j] = in_tx[j] /\ wire'[j] = wire[j]
        BY <1>7 DEF Execute, TypeOK
      <3>4. UNCHANGED <<pc, conn, armed, place, counted>>
        BY <1>7 DEF Execute
      <3>5. HeldByOne' /\ HandsOutClean' /\ ReturnsAreCounted'
        BY <2>3, <3>2, <3>3, <3>4
        DEF Sessions, HeldByOne, HandsOutClean, ReturnsAreCounted, TypeOK
      <3>6. CallsHold'
        BY <3>1, <3>3, <3>4 DEF Sessions, CallsHold, Holding
      <3> QED
        BY <3>5, <3>6 DEF Sessions
    <2> QED
      BY <2>1, <2>2, <2>3
  <1>8. ASSUME NEW k \in Conns, Return(k) PROVE Sessions'
    <2>1. \A c \in Calls : conn[c] # k
      BY <1>8 DEF Return, Sessions, HeldByOne
    <2>2. /\ UNCHANGED <<pc, conn, armed, wire>>
          /\ \A j \in Conns \ {k} :
               place'[j] = place[j] /\ in_tx'[j] = in_tx[j] /\ counted'[j] = counted[j]
      BY <1>8 DEF Return
    <2>3. place'[k] = "idle" /\ ~in_tx'[k] /\ ~counted'[k] /\ wire'[k] = "none"
      BY <1>8 DEF Return, Sessions, ReturnsAreCounted, TypeOK
    <2>4. HeldByOne' /\ HandsOutClean' /\ ReturnsAreCounted'
      BY <2>1, <2>2, <2>3 DEF Sessions, HeldByOne, HandsOutClean, ReturnsAreCounted
    <2>5. CallsHold'
      BY <2>1, <2>2 DEF Sessions, CallsHold, Holding
    <2> QED
      BY <2>4, <2>5 DEF Sessions
  <1>9. CASE Tick \/ UNCHANGED vars
    BY <1>9 DEF Tick, vars, session_vars, Sessions, HeldByOne, HandsOutClean, CallsHold,
                Holding, ReturnsAreCounted
  <1> QED
    BY <1>1, <1>2, <1>3, <1>4, <1>5, <1>6, <1>7, <1>8, <1>9, StepCases

(***************************************************************************)
(*                                Theorems                                  *)
(***************************************************************************)
\* The invariant holds while the pool is empty.
LEMMA InvariantInit == Init => IInv
  <1> SUFFICES ASSUME Init PROVE IInv
    OBVIOUS
  <1>1. TypeOK
    <2>1. left \in [Calls -> Nat \cup {NoDeadline}]
      BY PoolAssumption DEF Init
    <2>2. /\ limit \in [Calls -> 0..Ceiling]
          /\ waited \in [Calls -> 0..(Ceiling + Lateness)]
      BY TimeAssumption DEF Init
    <2>3. /\ pc \in [Calls -> Waits]
          /\ answer \in [Calls -> Answers]
          /\ conn \in [Calls -> Conns \cup {NoConn}]
          /\ armed \in [Calls -> BOOLEAN]
      BY DEF Init, Waits, Answers
    <2>4. /\ place \in [Conns -> {"none", "idle", "held", "returning"}]
          /\ wire \in [Conns -> Statements]
          /\ in_tx \in [Conns -> BOOLEAN]
          /\ counted \in [Conns -> BOOLEAN]
      BY DEF Init, Statements
    <2> QED
      BY <2>1, <2>2, <2>3, <2>4 DEF TypeOK
  <1>2. Sessions
    BY PoolAssumption
    DEF Init, Sessions, HeldByOne, HandsOutClean, CallsHold, ReturnsAreCounted
  <1>3. ClocksAgree
    BY DEF Init, ClocksAgree
  <1> QED
    BY <1>1, <1>2, <1>3 DEF IInv, Sessions

\* The inductive invariant of the pool.
THEOREM PoolInvariance == Spec => []IInv
  <1>1. IInv /\ [Next]_vars => IInv'
    BY TypeNext, SessionsNext, ClocksAgreeNext DEF IInv, Sessions
  <1> QED
    BY <1>1, InvariantInit, PTL DEF Spec

\* A connection comes back outside any transaction, wherever its borrower was
\* cut off (Pooled::begin, Drop for Pooled).
THEOREM ConnectionsComeBackClean == Spec => []HandsOutClean
  <1>1. IInv => HandsOutClean
    BY DEF IInv
  <1> QED
    BY <1>1, PoolInvariance, PTL

\* No connection is handed out twice, and none is lost.
THEOREM ConnectionsHaveOneHolder == Spec => []HeldByOne
  <1>1. IInv => HeldByOne
    BY DEF IInv
  <1> QED
    BY <1>1, PoolInvariance, PTL

\* No caller runs out of time waiting for a connection: the margin is larger
\* than the runtime's lateness (ADR-1019).
THEOREM StoreAnswersFirst == Spec => []AnsweredBeforeDeadline
  <1>1. IInv => AnsweredBeforeDeadline
    <2> SUFFICES ASSUME IInv, NEW c \in Calls, pc[c] = "acquiring", HasDeadline(c)
                 PROVE  left[c] > 0
      BY DEF AnsweredBeforeDeadline
    <2>1. left[c] + waited[c] >= limit[c] + Margin /\ waited[c] <= limit[c] + Lateness
      BY DEF IInv, ClocksAgree
    <2>2. left[c] \in Nat /\ waited[c] \in Nat /\ limit[c] \in Nat
      BY TimeAssumption DEF IInv, TypeOK, HasDeadline
    <2> QED
      BY <2>1, <2>2, TimeAssumption
  <1> QED
    BY <1>1, PoolInvariance, PTL
=============================================================================
