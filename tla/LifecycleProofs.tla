---------------------------- MODULE LifecycleProofs ----------------------------
(***************************************************************************)
(* Theorems about Lifecycle: whatever the chart's sleep, budget and margin, *)
(* and however late the runtime acts within that margin, a process that     *)
(* heard SIGTERM is never killed, and no call is cut before its time.       *)
(***************************************************************************)
EXTENDS Lifecycle, TLAPS

\* The handlers are there from Arm until the process ends.
ArmedWhileUp == armed <=> pc \in {"spawn", "bind", "serving", "draining"}

\* Only a process that serves, or drains, has calls to answer.
OpenWhileServing == Open # {} => pc \in {"serving", "draining"}

\* A file is never older on the mount than what was read of it.
Moved == \E f \in Files : disk[f] # baseline[f]
ReadsAreOld ==
  \A f \in Files : /\ baseline[f] = Unread \/ baseline[f] <= disk[f]
                   /\ used[f] <= disk[f]

\* A splay, and a drain, have their reason.
StopsHaveReasons ==
  /\ watch = "splaying" => pc \in {"serving", "draining"} /\ Moved
  /\ pc = "draining" => drain = asked /\ (signal = "heard" \/ Moved)

\* The runtime is late for something.
LateForSomething == late > 0 => Due

\* The deletion's clock, against what the process has used of it: the sleep, the
\* wait for the signal to be polled, the budget, the wait for its end.
HeardInTime ==
  signal = "heard" =>
    /\ dying # Alive
    /\ pc \in {"spawn", "bind", "serving", "draining", "ended"}
    /\ pc \in {"spawn", "bind", "serving"} => dying <= PreStop + late
    /\ pc = "draining" => dying <= PreStop + Lateness + drain + late

\* kubelet sends SIGTERM when the sleep is over.
ToldInTime == signal = "none" => dying <= PreStop \/ dying = Alive

Reasons == ArmedWhileUp /\ OpenWhileServing /\ ReadsAreOld /\ StopsHaveReasons
Clocks == LateForSomething /\ HeardInTime /\ ToldInTime /\ NotKilledOnceHeard

IInv == TypeOK /\ Reasons /\ Clocks

(***************************************************************************)
(*                              Type correctness                            *)
(***************************************************************************)
\* The cases of a step.
LEMMA StepCases ==
  ASSUME [Next]_vars
  PROVE  \/ ReadIdentity \/ ReadPassword \/ Hash \/ ReadSchedule \/ MigrateDone
         \/ Arm \/ Spawn \/ Bind \/ BootFails \/ BindFails
         \/ \E c \in Calls : BeginCall(c) \/ AnswerCall(c)
         \/ Notice \/ StopOnSignal \/ StopOnRotation \/ Overrun \/ Finish
         \/ \E f \in Files : MeetUnread(f) \/ Swap(f) \/ Disappear(f) \/ Reappear(f)
         \/ Delete \/ Sigterm \/ Sigkill \/ Restart \/ Tick
         \/ UNCHANGED vars
  BY DEF Next, BootStep, Watching, Ending

\* The end of a process, for whatever reason.
LEMMA EndType ==
  ASSUME TypeOK, NEW why \in {"refused", "overran", "finished", "sigterm", "sigkill"}, End(why)
  PROVE  /\ pc' = "ended" /\ ending' = why /\ armed' = FALSE /\ watch' = "polling" /\ late' = 0
         /\ late' \in 0..Lateness
         /\ call' \in [Calls -> {"idle", "open", "answered", "cut"}]
         /\ \A c \in Calls : call'[c] # "open"
  BY LifecycleAssumption DEF TypeOK, End, Goto

\* Every step keeps the types.
LEMMA TypeNext == TypeOK /\ [Next]_vars => TypeOK'
  <1> SUFFICES ASSUME TypeOK, [Next]_vars PROVE TypeOK'
    OBVIOUS
  <1> USE LifecycleAssumption DEF file_vars, read_vars, clock_vars
  <1>1. CASE ReadIdentity \/ ReadPassword \/ ReadSchedule
    BY <1>1 DEF TypeOK, ReadIdentity, ReadPassword, ReadSchedule, Read, Goto, Files, Steps
  <1>2. CASE Hash
    <2>1. baseline' \in [Files -> Nat \cup {Unread}]
      BY <1>2 DEF TypeOK, Hash, Hashed, Files
    <2> QED
      BY <1>2, <2>1 DEF TypeOK, Hash, Goto, Steps
  <1>3. CASE MigrateDone \/ Arm \/ Spawn \/ Bind
    BY <1>3 DEF TypeOK, MigrateDone, Arm, Spawn, Bind, Goto, Steps
  <1>4. CASE BootFails \/ BindFails
    <2>1. failures' \in 0..MaxFailures
      BY <1>4 DEF TypeOK, BootFails, BindFails
    <2>2. End("refused") /\ UNCHANGED <<file_vars, read_vars, dying, drain, asked, signal>>
      BY <1>4 DEF BootFails, BindFails
    <2> QED
      BY <2>1, <2>2, EndType DEF TypeOK
  <1>5. ASSUME NEW c \in Calls, BeginCall(c) \/ AnswerCall(c) PROVE TypeOK'
    BY <1>5 DEF TypeOK, BeginCall, AnswerCall
  <1>6. CASE Notice
    BY <1>6 DEF TypeOK, Notice
  <1>7. CASE StopOnSignal \/ StopOnRotation
    BY <1>7 DEF TypeOK, StopOnSignal, StopOnRotation, Stop, Goto
  <1>8. CASE Overrun \/ Finish \/ Sigkill
    <2>1. PICK why \in {"overran", "finished", "sigkill"} : End(why)
      BY <1>8 DEF Overrun, Finish, Sigkill
    <2>2. UNCHANGED <<file_vars, read_vars, dying, drain, asked, signal, failures>>
      BY <1>8 DEF Overrun, Finish, Sigkill
    <2> QED
      BY <2>1, <2>2, EndType DEF TypeOK
  <1>9. ASSUME NEW f \in Files, MeetUnread(f) \/ Swap(f) \/ Disappear(f) \/ Reappear(f)
        PROVE  TypeOK'
    <2>1. CASE Swap(f)
      <3>1. disk' \in [Files -> Nat] /\ swaps' \in 0..MaxSwaps
        BY <2>1 DEF TypeOK, Swap
      <3> QED
        BY <2>1, <3>1 DEF TypeOK, Swap
    <2>2. CASE Disappear(f) \/ Reappear(f)
      <3>1. outages' \in 0..MaxOutages
        BY <2>2 DEF TypeOK, Disappear, Reappear
      <3>2. \E b \in BOOLEAN : readable' = [readable EXCEPT ![f] = b]
        BY <2>2 DEF Disappear, Reappear
      <3>3. readable' \in [Files -> BOOLEAN]
        BY <3>2 DEF TypeOK
      <3> QED
        BY <2>2, <3>1, <3>3 DEF TypeOK, Disappear, Reappear
    <2>3. CASE MeetUnread(f)
      <3>1. baseline' \in [Files -> Nat \cup {Unread}]
        BY <2>3 DEF TypeOK, MeetUnread
      <3> QED
        BY <2>3, <3>1 DEF TypeOK, MeetUnread
    <2> QED
      BY <1>9, <2>1, <2>2, <2>3
  <1>10. CASE Delete \/ Restart
    BY <1>10 DEF TypeOK, Delete, Restart, Goto, Steps, Alive
  <1>11. CASE Sigterm
    <2>1. signal' \in {"heard", "lost"} /\ UNCHANGED <<file_vars, read_vars, dying, drain, asked, failures>>
      BY <1>11 DEF Sigterm
    <2>2. CASE End("sigterm")
      BY <2>1, <2>2, EndType DEF TypeOK
    <2>3. CASE UNCHANGED <<pc, ending, armed, watch, call, late>>
      BY <2>1, <2>3 DEF TypeOK
    <2> QED
      BY <1>11, <2>2, <2>3 DEF Sigterm
  <1>12. CASE Tick
    <2>1. /\ dying' \in 0..Alive /\ drain' \in 0..Budget /\ asked' \in 0..Budget
          /\ late' \in 0..Lateness
      BY <1>12 DEF TypeOK, Tick, Alive
    <2> QED
      BY <1>12, <2>1 DEF TypeOK, Tick
  <1>13. CASE UNCHANGED vars
    BY <1>13 DEF TypeOK, vars
  <1> QED
    BY <1>1, <1>2, <1>3, <1>4, <1>5, <1>6, <1>7, <1>8, <1>9, <1>10, <1>11, <1>12, <1>13, StepCases

(***************************************************************************)
(*                              Why it stops                                *)
(***************************************************************************)
\* A process that ended has nothing open, nothing to splay and no handlers.
LEMMA EndReasons ==
  ASSUME TypeOK, ReadsAreOld, UNCHANGED <<file_vars, read_vars>>,
         NEW why \in {"refused", "overran", "finished", "sigterm", "sigkill"}, End(why)
  PROVE  Reasons'
  BY EndType DEF Reasons, ArmedWhileUp, OpenWhileServing, Open, ReadsAreOld, StopsHaveReasons,
                 file_vars, read_vars

\* Every step keeps a reason for what the process does.
LEMMA ReasonsNext == TypeOK /\ Reasons /\ [Next]_vars => Reasons'
  <1> SUFFICES ASSUME TypeOK, Reasons, [Next]_vars PROVE Reasons'
    OBVIOUS
  <1>0. /\ ArmedWhileUp /\ OpenWhileServing /\ ReadsAreOld /\ StopsHaveReasons
        /\ pc \notin {"serving", "draining"} => Open = {} /\ watch = "polling"
    BY DEF Reasons, OpenWhileServing, StopsHaveReasons, TypeOK
  <1> USE DEF file_vars, read_vars, clock_vars
  \* A step of a boot: nothing is open and nothing is splaying.
  <1>a. ASSUME pc \in Steps, pc' \in Steps \cup {"serving"}, UNCHANGED <<disk, watch, call>>,
               armed' <=> pc' \in {"spawn", "bind", "serving", "draining"},
               ReadsAreOld'
        PROVE  Reasons'
    BY <1>0, <1>a
    DEF Reasons, ArmedWhileUp, OpenWhileServing, Open, StopsHaveReasons, Steps
  <1>1. CASE ReadIdentity \/ ReadPassword \/ ReadSchedule
    <2>1. PICK f \in Files, from \in {"identity", "password", "schedule"},
               to \in {"password", "hash", "migrate"} : Read(f, from, to)
      BY <1>1 DEF ReadIdentity, ReadPassword, ReadSchedule, Files
    <2>2. ReadsAreOld'
      BY <1>0, <2>1 DEF TypeOK, ReadsAreOld, Read
    <2> QED
      BY <1>0, <1>a, <2>1, <2>2 DEF Read, Goto, Steps, ArmedWhileUp
  <1>2. CASE Hash
    <2>1. ReadsAreOld'
      BY <1>0, <1>2, LifecycleAssumption DEF TypeOK, ReadsAreOld, Hash, Hashed, Files
    <2> QED
      BY <1>0, <1>2, <1>a, <2>1 DEF Hash, Goto, Steps, ArmedWhileUp
  <1>3. CASE MigrateDone \/ Arm \/ Spawn \/ Bind
    <2>1. ReadsAreOld'
      BY <1>0, <1>3 DEF ReadsAreOld, MigrateDone, Arm, Spawn, Bind
    <2> QED
      BY <1>0, <1>3, <1>a, <2>1 DEF MigrateDone, Arm, Spawn, Bind, Goto, Steps, ArmedWhileUp
  <1>4. CASE BootFails \/ BindFails \/ Overrun \/ Finish \/ Sigkill
    <2>1. PICK why \in {"refused", "overran", "finished", "sigkill"} : End(why)
      BY <1>4 DEF BootFails, BindFails, Overrun, Finish, Sigkill
    <2>2. UNCHANGED <<file_vars, read_vars>>
      BY <1>4 DEF BootFails, BindFails, Overrun, Finish, Sigkill
    <2> QED
      BY <1>0, <2>1, <2>2, EndReasons
  <1>5. ASSUME NEW c \in Calls, BeginCall(c) \/ AnswerCall(c) PROVE Reasons'
    <2>1. /\ UNCHANGED <<pc, disk, used, baseline, watch, armed, signal, drain, asked>>
          /\ pc \in {"serving", "draining"}
      BY <1>0, <1>5 DEF BeginCall, AnswerCall, OpenWhileServing, Open
    <2> QED
      BY <1>0, <2>1
      DEF Reasons, ArmedWhileUp, OpenWhileServing, ReadsAreOld, StopsHaveReasons, Moved
  <1>6. CASE Notice
    <2>1. Moved /\ watch' = "splaying" /\ pc = "serving"
      BY <1>6 DEF Notice, watch_set, Changed, Moved
    <2>2. UNCHANGED <<pc, disk, used, baseline, armed, call, signal, drain, asked>>
      BY <1>6 DEF Notice
    <2> QED
      BY <1>0, <2>1, <2>2
      DEF Reasons, ArmedWhileUp, OpenWhileServing, Open, ReadsAreOld, StopsHaveReasons, Moved
  <1>7. CASE StopOnSignal \/ StopOnRotation
    <2>1. /\ pc = "serving" /\ pc' = "draining" /\ drain' = 0 /\ asked' = 0
          /\ UNCHANGED <<disk, used, baseline, watch, armed, call, signal>>
          /\ signal = "heard" \/ Moved
      BY <1>0, <1>7 DEF StopOnSignal, StopOnRotation, Stop, Goto, StopsHaveReasons
    <2> QED
      BY <1>0, <2>1
      DEF Reasons, ArmedWhileUp, OpenWhileServing, Open, ReadsAreOld, StopsHaveReasons, Moved
  <1>8. ASSUME NEW f \in Files, Swap(f) \/ Disappear(f) \/ Reappear(f) PROVE Reasons'
    <2>1. UNCHANGED <<pc, used, baseline, watch, armed, call, signal, drain, asked>>
      BY <1>8 DEF Swap, Disappear, Reappear
    <2>2. disk' = disk \/ disk' = [disk EXCEPT ![f] = @ + 1]
      BY <1>8 DEF Swap, Disappear, Reappear
    <2>3. ReadsAreOld' /\ (Moved => Moved')
      BY <1>0, <2>1, <2>2, LifecycleAssumption DEF TypeOK, ReadsAreOld, Moved
    <2> QED
      BY <1>0, <2>1, <2>3
      DEF Reasons, ArmedWhileUp, OpenWhileServing, Open, StopsHaveReasons
  <1>9. CASE Delete \/ UNCHANGED vars
    BY <1>0, <1>9
    DEF Delete, vars, Reasons, ArmedWhileUp, OpenWhileServing, Open, ReadsAreOld,
        StopsHaveReasons, Moved
  <1>10. CASE Restart
    <2>1. /\ pc = "ended" /\ pc' = "identity"
          /\ UNCHANGED <<disk, used, baseline, watch, armed, call>>
      BY <1>10 DEF Restart, Goto
    <2> QED
      BY <1>0, <2>1
      DEF Reasons, ArmedWhileUp, OpenWhileServing, Open, ReadsAreOld, StopsHaveReasons
  <1>11. CASE Sigterm
    <2>1. CASE End("sigterm")
      BY <1>0, <1>11, <2>1, EndReasons DEF Sigterm
    <2>2. CASE UNCHANGED <<pc, ending, armed, watch, call, late>>
      <3>1. signal = "none" /\ UNCHANGED <<disk, used, baseline, drain, asked>>
        BY <1>11 DEF Sigterm
      <3> QED
        BY <1>0, <2>2, <3>1
        DEF Reasons, ArmedWhileUp, OpenWhileServing, Open, ReadsAreOld, StopsHaveReasons, Moved
    <2> QED
      BY <1>11, <2>1, <2>2 DEF Sigterm
  <1>12. CASE Tick
    <2>1. /\ UNCHANGED <<pc, disk, used, baseline, watch, armed, call, signal>>
          /\ drain = asked => drain' = asked'
      BY <1>12 DEF Tick
    <2> QED
      BY <1>0, <2>1
      DEF Reasons, ArmedWhileUp, OpenWhileServing, Open, ReadsAreOld, StopsHaveReasons, Moved
  <1>13. ASSUME NEW f \in Files, MeetUnread(f) PROVE Reasons'
    <2>1. /\ pc = "serving" /\ watch = "polling" /\ baseline[f] = Unread
          /\ UNCHANGED <<pc, disk, used, armed, call, signal, drain, asked>>
          /\ \/ watch' = "splaying" /\ UNCHANGED baseline
             \/ watch' = "polling" /\ baseline' = [baseline EXCEPT ![f] = disk[f]]
      BY <1>13 DEF MeetUnread
    <2>2. Moved /\ ReadsAreOld'
      BY <1>0, <2>1, LifecycleAssumption DEF TypeOK, ReadsAreOld, Moved
    <2>3. watch' = "splaying" => Moved'
      BY <2>1, <2>2 DEF Moved
    <2> QED
      BY <1>0, <2>1, <2>2, <2>3
      DEF Reasons, ArmedWhileUp, OpenWhileServing, Open, StopsHaveReasons
  <1> QED
    BY <1>1, <1>2, <1>3, <1>4, <1>5, <1>6, <1>7, <1>8, <1>9, <1>10, <1>11, <1>12, <1>13, StepCases

(***************************************************************************)
(*                               How long it takes                          *)
(***************************************************************************)
\* A process that ended has nothing due, and was killed only if it never heard.
LEMMA EndClocks ==
  ASSUME TypeOK, Clocks, UNCHANGED dying, NEW why, End(why),
         why = "sigkill" => signal' = "lost",
         signal' = "heard" => dying # Alive,
         signal' = "none" => signal = "none"
  PROVE  Clocks'
  <1>1. pc' = "ended" /\ late' = 0 /\ ending' = why
    BY DEF End, Goto
  <1>2. LateForSomething'
    BY <1>1 DEF LateForSomething
  <1> QED
    BY <1>1, <1>2 DEF Clocks, HeardInTime, ToldInTime, NotKilledOnceHeard

\* A step that takes no time.
LEMMA InstantFrame ==
  ASSUME TypeOK, Clocks, UNCHANGED <<dying, signal, ending>>, late' = late \/ late' = 0,
         late' > 0 => (Due => Due'),
         \/ UNCHANGED <<pc, late, drain>>
         \/ UNCHANGED late /\ pc' \in {"spawn", "bind", "serving"} /\ pc \notin {"ended", "draining"}
         \/ signal # "heard" /\ pc' # "ended"
  PROVE  Clocks'
  <1>1. LateForSomething'
    BY DEF Clocks, LateForSomething, TypeOK
  <1>2. HeardInTime'
    BY DEF Clocks, HeardInTime, Steps, TypeOK
  <1> QED
    BY <1>1, <1>2 DEF Clocks, ToldInTime, NotKilledOnceHeard

\* A tick is spent on the sleep, on the signal, on the budget or on the exit.
LEMMA TickClocks == TypeOK /\ Clocks /\ Tick => Clocks'
  <1> SUFFICES ASSUME TypeOK, Clocks, Tick PROVE Clocks'
    OBVIOUS
  <1> USE LifecycleAssumption DEF Alive
  <1>1. /\ UNCHANGED <<pc, call, signal, ending>>
        /\ dying # Grace /\ (dying = PreStop => signal # "none")
        /\ dying' = IF dying = Alive THEN Alive ELSE dying + 1
        /\ drain' = IF pc = "draining" /\ drain < Budget THEN drain + 1 ELSE drain
        /\ late' = IF Due THEN late + 1 ELSE 0
    BY DEF Tick
  <1>2. LateForSomething'
    <2>1. Due => Due'
      <3>1. signal = "heard" /\ pc \in {"spawn", "bind", "serving"} => Due'
        BY <1>1 DEF Due
      <3>2. BudgetSpent => Due'
        BY <1>1 DEF Due, BudgetSpent, TypeOK
      <3>3. pc = "draining" /\ Open = {} => Due'
        BY <1>1 DEF Due, Open
      <3> QED
        BY <3>1, <3>2, <3>3 DEF Due
    <2> QED
      BY <1>1, <2>1 DEF LateForSomething
  <1>3. HeardInTime'
    <2> SUFFICES ASSUME signal = "heard"
                 PROVE  /\ dying' # Alive
                        /\ pc \in {"spawn", "bind", "serving"} => dying' <= PreStop + late'
                        /\ pc = "draining" => dying' <= PreStop + Lateness + drain' + late'
      BY <1>1 DEF HeardInTime, Clocks
    <2>1. /\ dying \in Nat /\ drain \in Nat /\ late \in Nat /\ Budget \in Nat
          /\ PreStop \in Nat /\ Lateness \in Nat /\ Grace \in Nat
          /\ drain <= Budget
      BY DEF TypeOK
    <2>2. dying # Alive /\ dying' = dying + 1
      BY <1>1 DEF Clocks, HeardInTime
    <2>3. dying' # Alive
      BY <1>1, <2>1, <2>2
    <2>4. CASE pc \in {"spawn", "bind", "serving"}
      <3>1. Due /\ dying <= PreStop + late
        BY <2>4 DEF Due, Clocks, HeardInTime
      <3> QED
        BY <1>1, <2>1, <2>2, <2>3, <2>4, <3>1
    <2>5. CASE pc = "draining"
      <3>1. dying <= PreStop + Lateness + drain + late
        BY <2>5 DEF Clocks, HeardInTime
      <3>2. CASE drain < Budget
        <4>1. drain' = drain + 1 /\ (late' = late + 1 \/ (late' = 0 /\ late = 0))
          BY <1>1, <2>1, <2>5, <3>2 DEF Clocks, LateForSomething
        <4> QED
          BY <2>1, <2>2, <2>3, <2>5, <3>1, <4>1
      <3>3. CASE drain = Budget
        <4>1. Due
          BY <2>1, <2>5, <3>3 DEF Due, BudgetSpent
        <4>2. drain' = drain /\ late' = late + 1
          BY <1>1, <2>1, <3>3, <4>1
        <4> QED
          BY <2>1, <2>2, <2>3, <2>5, <3>1, <4>2
      <3> QED
        BY <2>1, <3>2, <3>3
    <2> QED
      BY <2>3, <2>4, <2>5
  <1>4. ToldInTime'
    <2> SUFFICES ASSUME signal = "none" PROVE dying' <= PreStop \/ dying' = Alive
      BY <1>1 DEF ToldInTime
    <2>1. dying = Alive \/ dying < PreStop
      BY <1>1 DEF Clocks, ToldInTime, TypeOK
    <2> QED
      BY <1>1, <2>1 DEF TypeOK
  <1>5. NotKilledOnceHeard'
    BY <1>1 DEF Clocks, NotKilledOnceHeard
  <1> QED
    BY <1>2, <1>3, <1>4, <1>5 DEF Clocks

\* Every step keeps the clocks within the grace period.
LEMMA ClocksNext == TypeOK /\ Reasons /\ Clocks /\ [Next]_vars => Clocks'
  <1> SUFFICES ASSUME TypeOK, Reasons, Clocks, [Next]_vars PROVE Clocks'
    OBVIOUS
  <1> USE DEF file_vars, read_vars, clock_vars
  <1>0. signal = "heard" => pc \in {"spawn", "bind", "serving", "draining", "ended"} /\ dying # Alive
    BY DEF Clocks, HeardInTime
  \* A step that changes nothing the clocks are about.
  <1>a. ASSUME UNCHANGED <<pc, dying, signal, ending, late, drain>>, Open' \subseteq Open \/ pc # "draining"
        PROVE  Clocks'
    <2>1. Due => Due'
      BY <1>a DEF Due, BudgetSpent
    <2> QED
      BY <1>a, <2>1, InstantFrame
  <1>1. CASE ReadIdentity \/ ReadPassword \/ ReadSchedule \/ Hash \/ MigrateDone
    <2>1. /\ pc \in Steps \ {"spawn", "bind"} /\ pc' \in Steps \ {"spawn", "bind"}
          /\ UNCHANGED <<dying, signal, ending, late, drain>>
      BY <1>1 DEF ReadIdentity, ReadPassword, ReadSchedule, Read, Hash, MigrateDone, Goto, Steps
    <2>2. signal # "heard" /\ ~Due
      BY <1>0, <2>1 DEF Due, BudgetSpent, Steps
    <2> QED
      BY <2>1, <2>2, InstantFrame DEF Steps
  <1>2. CASE Arm \/ Spawn \/ Bind
    <2>1. /\ pc \in {"arm", "spawn", "bind"} /\ pc' \in {"spawn", "bind", "serving"}
          /\ UNCHANGED <<dying, signal, ending, late, drain>>
      BY <1>2 DEF Arm, Spawn, Bind, Goto
    <2>2. Due => Due'
      BY <2>1 DEF Due, BudgetSpent
    <2> QED
      BY <2>1, <2>2, InstantFrame
  <1>3. CASE BootFails \/ BindFails \/ Overrun \/ Finish
    <2>1. PICK why \in {"refused", "overran", "finished"} : End(why)
      BY <1>3 DEF BootFails, BindFails, Overrun, Finish
    <2>2. UNCHANGED <<dying, signal>>
      BY <1>3 DEF BootFails, BindFails, Overrun, Finish
    <2> QED
      BY <1>0, <2>1, <2>2, EndClocks
  <1>4. ASSUME NEW c \in Calls, BeginCall(c) \/ AnswerCall(c) PROVE Clocks'
    <2>1. UNCHANGED <<pc, dying, signal, ending, late, drain>>
      BY <1>4 DEF BeginCall, AnswerCall
    <2>2. Open' \subseteq Open \/ pc # "draining"
      BY <1>4 DEF BeginCall, AnswerCall, Open, TypeOK
    <2> QED
      BY <1>a, <2>1, <2>2
  <1>5. ASSUME UNCHANGED <<pc, dying, signal, ending, late, drain, call>> PROVE Clocks'
    BY <1>5, <1>a DEF Open
  <1>6. CASE StopOnSignal \/ StopOnRotation
    <2>1. /\ pc = "serving" /\ pc' = "draining" /\ drain' = 0 /\ late' = 0
          /\ UNCHANGED <<dying, signal, ending>>
      BY <1>6 DEF StopOnSignal, StopOnRotation, Stop, Goto
    <2>2. HeardInTime'
      <3>1. signal = "heard" => dying <= PreStop + late /\ late <= Lateness
        BY <2>1 DEF Clocks, HeardInTime, TypeOK
      <3>2. dying \in Nat /\ late \in Nat /\ PreStop \in Nat /\ Lateness \in Nat
        BY LifecycleAssumption DEF TypeOK, Alive
      <3>3. signal = "heard" => dying <= PreStop + Lateness + 0 + 0
        BY <3>1, <3>2
      <3> QED
        BY <1>0, <2>1, <3>3 DEF HeardInTime
    <2> QED
      BY <2>1, <2>2 DEF Clocks, LateForSomething, ToldInTime, NotKilledOnceHeard
  <1>7. CASE Delete
    <2>1. signal # "heard" /\ signal' = signal
      BY <1>0, <1>7 DEF Delete
    <2>2. UNCHANGED <<pc, late, ending, call, drain>> /\ dying' = 0
      BY <1>7 DEF Delete
    <2>3. LateForSomething'
      BY <2>1, <2>2 DEF Clocks, LateForSomething, Due, BudgetSpent, Open
    <2>4. 0 <= PreStop
      BY LifecycleAssumption
    <2> QED
      BY <2>1, <2>2, <2>3, <2>4 DEF Clocks, HeardInTime, ToldInTime, NotKilledOnceHeard
  <1>8. CASE Restart
    <2>1. /\ pc = "ended" /\ pc' = "identity" /\ ending' = "none" /\ dying = Alive
          /\ UNCHANGED <<dying, signal, late>>
      BY <1>8 DEF Restart, Goto
    <2>2. signal # "heard" /\ ~Due
      BY <1>0, <2>1 DEF Due, BudgetSpent
    <2> QED
      BY <2>1, <2>2
      DEF Clocks, LateForSomething, HeardInTime, ToldInTime, NotKilledOnceHeard
  <1>9. CASE Sigterm
    <2>1. /\ dying = PreStop /\ signal = "none" /\ UNCHANGED <<dying, drain>>
          /\ signal' = IF armed THEN "heard" ELSE "lost"
      BY <1>9 DEF Sigterm
    <2>2. dying # Alive /\ PreStop \in Nat /\ Lateness \in Nat
      BY <2>1, LifecycleAssumption DEF Alive
    <2>3. CASE ~armed /\ End("sigterm")
      BY <2>1, <2>3, EndClocks
    <2>4. CASE UNCHANGED <<pc, ending, armed, watch, call, late>>
      <3>1. Due => Due'
        BY <2>1, <2>4 DEF Due, BudgetSpent, Open
      <3>2. armed => pc \in {"spawn", "bind", "serving", "draining"}
        BY DEF Reasons, ArmedWhileUp
      <3>3. late \in Nat /\ drain \in Nat
        BY LifecycleAssumption DEF TypeOK
      <3>4. PreStop <= PreStop + late /\ PreStop <= PreStop + Lateness + drain + late
        BY <2>2, <3>3
      <3>5. HeardInTime'
        BY <2>1, <2>2, <2>4, <3>2, <3>4 DEF HeardInTime, TypeOK
      <3> QED
        BY <2>1, <2>4, <3>1, <3>5
        DEF Clocks, LateForSomething, ToldInTime, NotKilledOnceHeard
    <2> QED
      BY <1>9, <2>3, <2>4 DEF Sigterm
  <1>10. CASE Sigkill
    <2>1. dying = Grace /\ Up /\ End("sigkill") /\ UNCHANGED <<dying, signal>>
      BY <1>10 DEF Sigkill
    <2>2. /\ Grace > PreStop + Budget + 2 * Lateness /\ Grace > PreStop /\ Grace # Alive
          /\ {PreStop, Budget, Lateness, Grace} \subseteq Nat
      BY LifecycleAssumption DEF Alive
    <2>3. signal # "none"
      BY <2>1, <2>2 DEF Clocks, ToldInTime
    <2>4. signal # "heard"
      <3> SUFFICES ASSUME signal = "heard" PROVE FALSE
        OBVIOUS
      <3>1. pc \in {"spawn", "bind", "serving", "draining"}
        BY <1>0, <2>1 DEF Up, Steps
      <3>2. dying <= PreStop + late \/ dying <= PreStop + Lateness + drain + late
        BY <3>1 DEF Clocks, HeardInTime
      <3>3. late \in 0..Lateness /\ drain \in 0..Budget
        BY DEF TypeOK
      <3> QED
        BY <2>1, <2>2, <3>2, <3>3
    <2>5. signal = "lost"
      BY <2>3, <2>4 DEF TypeOK
    <2> QED
      BY <2>1, <2>5, EndClocks
  <1>11. CASE Tick
    BY <1>11, TickClocks
  <1> QED
    BY <1>1, <1>2, <1>3, <1>4, <1>5, <1>6, <1>7, <1>8, <1>9, <1>10, <1>11, StepCases
    DEF Notice, MeetUnread, Swap, Disappear, Reappear, vars

(***************************************************************************)
(*                                Theorems                                  *)
(***************************************************************************)
LEMMA InitIInv == Init => IInv
  <1> SUFFICES ASSUME Init PROVE IInv
    OBVIOUS
  <1> USE LifecycleAssumption
  <1>1. TypeOK
    <2>1. readable \in [Files -> BOOLEAN]
      BY DEF Init
    <2>2. dying \in 0..Alive /\ drain \in 0..Budget /\ asked \in 0..Budget /\ late \in 0..Lateness
      BY DEF Init, Alive
    <2>3. swaps \in 0..MaxSwaps /\ outages \in 0..MaxOutages /\ failures \in 0..MaxFailures
      BY DEF Init
    <2>4. /\ disk \in [Files -> Nat] /\ used \in [Files -> Nat]
          /\ baseline \in [Files -> Nat \cup {Unread}]
          /\ call \in [Calls -> {"idle", "open", "answered", "cut"}]
      BY DEF Init
    <2> QED
      BY <2>1, <2>2, <2>3, <2>4 DEF Init, TypeOK, Steps
  <1>2. Reasons
    BY DEF Init, Reasons, ArmedWhileUp, OpenWhileServing, Open, ReadsAreOld, StopsHaveReasons, Files
  <1>3. Clocks
    BY DEF Init, Clocks, LateForSomething, HeardInTime, ToldInTime, NotKilledOnceHeard
  <1> QED
    BY <1>1, <1>2, <1>3 DEF IInv

LEMMA AlwaysIInv == Spec => []IInv
  <1>1. IInv /\ [Next]_vars => IInv'
    BY TypeNext, ReasonsNext, ClocksNext DEF IInv
  <1> QED
    BY InitIInv, <1>1, PTL DEF Spec

\* Every variable keeps its type: no drain takes more than its budget, and the
\* runtime puts nothing off for longer than the lateness the chart allows.
THEOREM TypeCorrect == Spec => []TypeOK
  <1>1. IInv => TypeOK
    BY DEF IInv
  <1> QED
    BY <1>1, AlwaysIInv, PTL

\* The chart's sum is enough: with terminationGracePeriodSeconds the sleep, the
\* budget and a margin of more than twice the runtime's lateness, no process
\* that heard SIGTERM is killed (tests/chart_grace_period.rs, main.rs:284).
THEOREM HeardIsNotKilled == Spec => []NotKilledOnceHeard
  <1>1. IInv => NotKilledOnceHeard
    BY DEF IInv, Clocks
  <1> QED
    BY <1>1, AlwaysIInv, PTL

\* A call is cut only at the end of a whole budget that a SIGTERM or a changed
\* file began, or by a SIGKILL after a signal that came before the handlers.
THEOREM CutsAreDue == Spec => CutsAreEarned
  <1> DEFINE Earned(c) ==
        \/ /\ pc = "draining" /\ asked = Budget
           /\ signal = "heard" \/ \E f \in Files : disk[f] # baseline[f]
        \/ ending' = "sigkill" /\ signal = "lost"
  <1>1. ASSUME IInv, IInv', Next, NEW c \in Calls, call[c] = "open", call'[c] = "cut"
        PROVE  Earned(c)
    <2>0. /\ c \in Open /\ pc \in {"serving", "draining"} /\ armed
          /\ TypeOK /\ StopsHaveReasons
      BY <1>1 DEF IInv, Reasons, OpenWhileServing, ArmedWhileUp, Open
    <2>1. CASE Overrun
      <3>1. pc = "draining" /\ drain >= Budget
        BY <2>1 DEF Overrun, BudgetSpent
      <3>2. asked = Budget
        BY <2>0, <3>1, LifecycleAssumption DEF StopsHaveReasons, TypeOK
      <3> QED
        BY <2>0, <3>1, <3>2 DEF StopsHaveReasons, Moved
    <2>2. CASE Sigkill
      <3>1. ending' = "sigkill" /\ signal' = signal
        BY <2>2 DEF Sigkill, End
      <3> QED
        BY <1>1, <3>1 DEF IInv, Clocks, NotKilledOnceHeard
    <2>3. ~Sigterm
      BY <1>1, <2>0 DEF Sigterm
    <2>4. ~Finish
      BY <2>0 DEF Finish
    <2>5. ~BootFails /\ ~BindFails
      BY <2>0 DEF BootFails, BindFails, Steps
    <2>6. \A d \in Calls : ~BeginCall(d) /\ ~AnswerCall(d)
      BY <1>1, <2>0 DEF BeginCall, AnswerCall, TypeOK
    <2>7. UNCHANGED call => FALSE
      BY <1>1
    <2>8. ~(ReadIdentity \/ ReadPassword \/ Hash \/ ReadSchedule \/ MigrateDone \/ Arm \/ Spawn \/ Bind)
      BY <2>7 DEF ReadIdentity, ReadPassword, ReadSchedule, Read, Hash, MigrateDone, Arm, Spawn, Bind
    <2>9. ~(Notice \/ StopOnSignal \/ StopOnRotation \/ Delete \/ Restart \/ Tick)
      BY <2>7 DEF Notice, StopOnSignal, StopOnRotation, Stop, Delete, Restart, Tick
    <2>10. \A f \in Files : ~(MeetUnread(f) \/ Swap(f) \/ Disappear(f) \/ Reappear(f))
      BY <2>7 DEF MeetUnread, Swap, Disappear, Reappear
    <2> QED
      BY <1>1, <2>1, <2>2, <2>3, <2>4, <2>5, <2>6, <2>8, <2>9, <2>10
      DEF Next, BootStep, Watching, Ending
  <1>2. IInv /\ IInv' /\ [Next]_vars =>
          [\A c \in Calls : call[c] = "open" /\ call'[c] = "cut" => Earned(c)]_vars
    BY <1>1
  <1> QED
    BY <1>2, AlwaysIInv, PTL DEF Spec, CutsAreEarned
=============================================================================
