------------------------------- MODULE Lifecycle -------------------------------
(***************************************************************************)
(* One pod of project-db, from its first read to its exit (src/src/main.rs, *)
(* boot.rs, rotate.rs): boot, the files it watches, SIGTERM, and the drain. *)
(* kubelet, the mounts and the watcher and drain of yadgar-lifecycle are    *)
(* external.  Time is in ticks and passes only where a deadline runs.       *)
(***************************************************************************)
EXTENDS Naturals, FiniteSets

CONSTANTS
  Calls,         \* rpcs a caller may send
  PreStop,       \* preStopSleepSeconds
  Budget,        \* DRAIN_BUDGET
  ExitMargin,    \* what the chart leaves to log and exit
  Grace,         \* terminationGracePeriodSeconds
  Lateness,      \* ticks the runtime may take to act on what is due
  Unread,        \* no hash: the file could not be read when it was to be hashed
  MaxSwaps,      \* bound: times a mounted file is replaced
  MaxOutages,    \* bound: times a mounted file is unreadable for a while
  MaxFailures    \* bound: boots that fail

\* tests/chart_grace_period.rs.  A stop is late at most twice: when the signal
\* is polled and when the budget is.
ASSUME LifecycleAssumption ==
  /\ {PreStop, Budget, ExitMargin, Lateness} \subseteq Nat \ {0}
  /\ Grace = PreStop + Budget + ExitMargin
  /\ 2 * Lateness < ExitMargin
  /\ {MaxSwaps, MaxOutages, MaxFailures} \subseteq Nat
  /\ Unread \notin Nat

\* What the process reads once: the listener's identity, the database password,
\* the mounted configuration document.
Files == {"identity", "password", "document"}

\* Mutant: the member with no other signal is forgotten.
NoPassword == Files \ {"password"}

watch_set == Files

VARIABLES
  pc,          \* where the process is
  disk,        \* disk[f]: the version mounted
  readable,
  used,        \* used[f]: the version the process read and works with
  baseline,    \* baseline[f]: the version hashed, or Unread
  watch,       \* "polling", or "splaying" once a change was read
  armed,       \* both signal handlers are installed
  call,        \* call[c]: "idle", "open", "answered", "cut"
  dying,       \* ticks since the pod's deletion began, or Alive
  signal,      \* SIGTERM: "none", "heard", or "lost" before the handlers
  drain,       \* ticks of the drain's budget used
  late,        \* ticks for which something has been due
  asked,       \* history: ticks since the process was asked to stop
  ending,      \* why the process ended
  swaps, outages, failures

file_vars  == <<disk, readable, swaps, outages>>
read_vars  == <<used, baseline>>
clock_vars == <<dying, drain, late, asked>>
vars == <<pc, file_vars, read_vars, watch, armed, call, clock_vars, signal, ending, failures>>

Alive == Grace + 1
Steps == {"identity", "password", "hash", "schedule", "migrate", "arm", "spawn", "bind"}
Up == pc \in Steps \cup {"serving", "draining"}
Open == {c \in Calls : call[c] = "open"}

Init ==
  /\ pc = "identity"
  /\ disk = [f \in Files |-> 0]
  /\ readable = [f \in Files |-> TRUE]
  /\ used = disk /\ baseline = disk
  /\ watch = "polling"
  /\ armed = FALSE
  /\ call = [c \in Calls |-> "idle"]
  /\ dying = Alive
  /\ signal = "none"
  /\ drain = 0 /\ late = 0 /\ asked = 0
  /\ ending = "none"
  /\ swaps = 0 /\ outages = 0 /\ failures = 0

(***************************************************************************)
(*                                  Boot                                    *)
(***************************************************************************)
Goto(label) == pc' = label

\* The process is gone, and with it what it was still answering.
End(why) ==
  /\ Goto("ended")
  /\ ending' = why
  /\ armed' = FALSE
  /\ watch' = "polling"
  /\ call' = [c \in Calls |-> IF call[c] = "open" THEN "cut" ELSE call[c]]
  /\ late' = 0

Read(f, from, to) ==
  /\ pc = from
  /\ readable[f]
  /\ used' = [used EXCEPT ![f] = disk[f]]
  /\ Goto(to)
  /\ UNCHANGED <<file_vars, baseline, watch, armed, call, clock_vars, signal, ending, failures>>

ReadIdentity == Read("identity", "identity", "password")
ReadPassword == Read("password", "password", "hash")

Hashed(f) == IF readable[f] THEN disk[f] ELSE Unread

\* watch_set: every member is read again to be hashed, and one that cannot be
\* read is in the set all the same (unread_at_boot).  Whether the listener's own
\* type kept the hash of what it parsed is the crate's business.
Hash ==
  /\ pc = "hash"
  /\ \E identity \in {Hashed("identity"), used["identity"]} :
       baseline' = [f \in Files |-> IF f = "identity" THEN identity ELSE Hashed(f)]
  /\ Goto("schedule")
  /\ UNCHANGED <<file_vars, used, watch, armed, call, clock_vars, signal, ending, failures>>

ReadSchedule == Read("document", "schedule", "migrate")

\* Probe, pool, migrations: Migrate.tla.
MigrateDone ==
  /\ pc = "migrate"
  /\ Goto("arm")
  /\ UNCHANGED <<file_vars, read_vars, watch, armed, call, clock_vars, signal, ending, failures>>

\* The file that the next step of the boot reads.
Reading(f) == pc = IF f = "document" THEN "schedule" ELSE f

\* Every `?` of run: a missing knob, an unreadable file, the probe, a migration.
BootFails ==
  /\ pc \in Steps \ {"spawn", "bind"}
  /\ \/ failures < MaxFailures /\ failures' = failures + 1
     \/ (\E f \in Files : Reading(f) /\ ~readable[f]) /\ UNCHANGED failures
  /\ End("refused")
  /\ UNCHANGED <<file_vars, read_vars, dying, drain, asked, signal>>

\* boot::shutdown installs both handlers when it is called.
Arm ==
  /\ pc = "arm"
  /\ armed' = TRUE
  /\ Goto("spawn")
  /\ UNCHANGED <<file_vars, read_vars, watch, call, clock_vars, signal, ending, failures>>

Spawn ==
  /\ pc = "spawn"
  /\ Goto("bind")
  /\ UNCHANGED <<file_vars, read_vars, watch, armed, call, clock_vars, signal, ending, failures>>

\* tonic binds inside the task.
Bind ==
  /\ pc = "bind"
  /\ Goto("serving")
  /\ UNCHANGED <<file_vars, read_vars, watch, armed, call, clock_vars, signal, ending, failures>>

\* drain_within returns when the server ends by itself; exit 1.
BindFails ==
  /\ pc = "bind"
  /\ failures < MaxFailures
  /\ failures' = failures + 1
  /\ End("refused")
  /\ UNCHANGED <<file_vars, read_vars, dying, drain, asked, signal>>

(***************************************************************************)
(*                            Serve, stop, drain                            *)
(***************************************************************************)
BeginCall(c) ==
  /\ pc = "serving"
  /\ call[c] = "idle"
  /\ call' = [call EXCEPT ![c] = "open"]
  /\ UNCHANGED <<pc, file_vars, read_vars, watch, armed, clock_vars, signal, ending, failures>>

\* Also while the process drains.
AnswerCall(c) ==
  /\ call[c] = "open"
  /\ call' = [call EXCEPT ![c] = "answered"]
  /\ UNCHANGED <<pc, file_vars, read_vars, watch, armed, clock_vars, signal, ending, failures>>

\* A file that cannot be read is not a changed one.
Changed(f) == readable[f] /\ baseline[f] \notin {Unread, disk[f]}

\* One poll of rotate::watch that reads a change; it then waits out its splay.
Notice ==
  /\ pc = "serving"
  /\ watch = "polling"
  /\ \E f \in watch_set : Changed(f)
  /\ watch' = "splaying"
  /\ UNCHANGED <<pc, file_vars, read_vars, armed, call, clock_vars, signal, ending, failures>>

\* A member that had no hash can be read now.  The repository does not say what
\* the crate makes of it: a change, the hash to compare with, or nothing.
MeetUnread(f) ==
  /\ pc = "serving"
  /\ watch = "polling"
  /\ readable[f] /\ baseline[f] = Unread
  /\ \/ watch' = "splaying" /\ UNCHANGED baseline
     \/ baseline' = [baseline EXCEPT ![f] = disk[f]] /\ UNCHANGED watch
  /\ UNCHANGED <<pc, file_vars, used, armed, call, clock_vars, signal, ending, failures>>

\* An arm of the select: the server is asked to stop and the budget starts.
Stop ==
  /\ Goto("draining")
  /\ drain' = 0
  /\ late' = 0
  /\ asked' = 0
  /\ UNCHANGED <<file_vars, read_vars, watch, armed, call, dying, signal, ending, failures>>

StopOnSignal == pc = "serving" /\ signal = "heard" /\ Stop
StopOnRotation == pc = "serving" /\ watch = "splaying" /\ Stop

\* Mutant: only the signal's arm bounds its drain.
SignalBudgetSpent == pc = "draining" /\ drain >= Budget /\ signal = "heard" /\ watch = "polling"

\* drain_within's timer, started by the stop.
BudgetSpent == pc = "draining" /\ drain >= Budget

\* Mutant: a timeout round the serving future, its deadline fixed at boot.
OverrunSinceBoot ==
  /\ pc \in {"serving", "draining"}
  /\ End("overran")
  /\ UNCHANGED <<file_vars, read_vars, dying, drain, asked, signal, failures>>

\* Drain::Overran: exit 0 with calls in flight.
Overrun ==
  /\ BudgetSpent
  /\ End("overran")
  /\ UNCHANGED <<file_vars, read_vars, dying, drain, asked, signal, failures>>

\* Drain::Finished.
Finish ==
  /\ pc = "draining"
  /\ Open = {}
  /\ End("finished")
  /\ UNCHANGED <<file_vars, read_vars, dying, drain, asked, signal, failures>>

(***************************************************************************)
(*                     kubelet, the mounts, and time                        *)
(***************************************************************************)
\* A Secret, a certificate or the ConfigMap is replaced in its mount.
Swap(f) ==
  /\ swaps < MaxSwaps
  /\ disk' = [disk EXCEPT ![f] = @ + 1]
  /\ swaps' = swaps + 1
  /\ UNCHANGED <<pc, readable, outages, read_vars, watch, armed, call, clock_vars, signal,
                 ending, failures>>

Disappear(f) ==
  /\ Up
  /\ readable[f]
  /\ outages < MaxOutages
  /\ readable' = [readable EXCEPT ![f] = FALSE]
  /\ outages' = outages + 1
  /\ UNCHANGED <<pc, disk, swaps, read_vars, watch, armed, call, clock_vars, signal, ending,
                 failures>>

Reappear(f) ==
  /\ ~readable[f]
  /\ readable' = [readable EXCEPT ![f] = TRUE]
  /\ UNCHANGED <<pc, disk, swaps, outages, read_vars, watch, armed, call, clock_vars, signal,
                 ending, failures>>

\* A rolling update or a node drain: the grace period begins.
Delete ==
  /\ dying = Alive
  /\ dying' = 0
  /\ UNCHANGED <<pc, file_vars, read_vars, watch, armed, call, drain, late, asked, signal,
                 ending, failures>>

\* After the preStop sleep.  Without a handler the process dies of it, or, where
\* the runtime gives it no default disposition, never learns.
Sigterm ==
  /\ dying = PreStop
  /\ signal = "none"
  /\ Up
  /\ signal' = IF armed THEN "heard" ELSE "lost"
  /\ \/ ~armed /\ End("sigterm")
     \/ UNCHANGED <<pc, ending, armed, watch, call, late>>
  /\ UNCHANGED <<file_vars, read_vars, dying, drain, asked, failures>>

Sigkill ==
  /\ dying = Grace
  /\ Up
  /\ End("sigkill")
  /\ UNCHANGED <<file_vars, read_vars, dying, drain, asked, signal, failures>>

\* kubelet starts the container again, unless the pod is going away.
Restart ==
  /\ pc = "ended"
  /\ dying = Alive
  /\ Goto("identity")
  /\ ending' = "none"
  /\ UNCHANGED <<file_vars, read_vars, watch, armed, call, clock_vars, signal, failures>>

\* What the runtime has to act on.
Due ==
  \/ signal = "heard" /\ pc \in {"spawn", "bind", "serving"}
  \/ BudgetSpent
  \/ pc = "draining" /\ Open = {}

\* kubelet is punctual and the runtime at most Lateness late.
Tick ==
  /\ Up
  /\ pc = "draining" \/ dying # Alive
  /\ dying # Grace
  /\ dying = PreStop => signal # "none"
  /\ Due => late < Lateness
  /\ late' = IF Due THEN late + 1 ELSE 0
  /\ dying' = IF dying = Alive THEN Alive ELSE dying + 1
  /\ drain' = IF pc = "draining" /\ drain < Budget THEN drain + 1 ELSE drain
  /\ asked' = IF pc = "draining" /\ asked < Budget THEN asked + 1 ELSE asked
  /\ UNCHANGED <<pc, file_vars, read_vars, watch, armed, call, signal, ending, failures>>

(***************************************************************************)
(*                               The whole                                  *)
(***************************************************************************)
BootStep ==
  ReadIdentity \/ ReadPassword \/ Hash \/ ReadSchedule \/ MigrateDone \/ Arm \/ Spawn \/ Bind

Watching == Notice \/ StopOnRotation
Ending == StopOnSignal \/ Overrun \/ Finish

Next ==
  \/ BootStep \/ BootFails \/ BindFails \/ Watching \/ Ending
  \/ \E c \in Calls : BeginCall(c) \/ AnswerCall(c)
  \/ \E f \in Files : MeetUnread(f) \/ Swap(f) \/ Disappear(f) \/ Reappear(f)
  \/ Delete \/ Sigterm \/ Sigkill \/ Restart \/ Tick

Spec == Init /\ [][Next]_vars

\* Boot goes on, the watcher polls, time passes, kubelet acts.  No call need be
\* answered, no file replaced or readable again, no pod deleted.
Fairness ==
  /\ WF_vars(BootStep)
  /\ WF_vars(Watching)
  /\ WF_vars(Ending)
  /\ WF_vars(Tick)
  /\ WF_vars(Sigterm)
  /\ WF_vars(Sigkill)
  /\ WF_vars(Restart)

FairSpec == Spec /\ Fairness

(***************************************************************************)
(*                                Properties                                *)
(***************************************************************************)
\* Types; a drain's budget is not overdrawn and nothing due is put off further.
TypeOK ==
  /\ pc \in Steps \cup {"serving", "draining", "ended"}
  /\ disk \in [Files -> Nat] /\ used \in [Files -> Nat]
  /\ baseline \in [Files -> Nat \cup {Unread}]
  /\ readable \in [Files -> BOOLEAN]
  /\ watch \in {"polling", "splaying"}
  /\ armed \in BOOLEAN
  /\ call \in [Calls -> {"idle", "open", "answered", "cut"}]
  /\ dying \in 0..Alive
  /\ signal \in {"none", "heard", "lost"}
  /\ drain \in 0..Budget /\ asked \in 0..Budget /\ late \in 0..Lateness
  /\ ending \in {"none", "refused", "overran", "finished", "sigterm", "sigkill"}
  /\ swaps \in 0..MaxSwaps /\ outages \in 0..MaxOutages /\ failures \in 0..MaxFailures

\* A process that heard SIGTERM is not killed: it ends inside the grace period
\* that the chart derives from the sleep, the budget and the margin, also when
\* the signal was swallowed because a rotation drain had begun (main.rs:284).
NotKilledOnceHeard == ending = "sigkill" => signal = "lost"

\* A call is cut only when the whole budget has passed since the server was
\* asked to stop, by a SIGTERM or because a file is not one that was hashed; or by a
\* SIGKILL after a signal that came before the handlers.  Never by the default
\* disposition of SIGTERM (main.rs:243), by a deadline set at boot (main.rs:265),
\* or because a mount could not be read (rotate.rs:35).
CutsAreEarned ==
  [][\A c \in Calls : call[c] = "open" /\ call'[c] = "cut" =>
       \/ /\ pc = "draining" /\ asked = Budget
          /\ signal = "heard" \/ \E f \in Files : disk[f] # baseline[f]
       \/ ending' = "sigkill" /\ signal = "lost"]_vars

\* The pod comes to rest serving on what it hashed and what is mounted now,
\* unless it is deleted or a file cannot be read, or could not when it was to be
\* hashed: a change ends the serve, and one change does not end it again and
\* again (ADR-0523).
SettlesOnTheMount ==
  <>[](\/ dying # Alive
       \/ \E f \in Files : ~readable[f] \/ baseline[f] = Unread
       \/ pc = "serving" /\ baseline = disk)

\* main.rs:154: the set is HASHED AS THE PROCESS READS IT, or a swap quietly
\* becomes the baseline and the real rotation would never be noticed.  So no
\* process serves for good with a password that is no longer the mounted one.
RotationsAreNoticed ==
  []<>(\/ dying # Alive \/ ~readable["password"] \/ pc # "serving"
       \/ used["password"] = disk["password"])
=============================================================================
