------------------------------- MODULE Freeze -------------------------------
(***************************************************************************)
(* Inside one host: guest threads with their connections, sleeps and       *)
(* host-side tasks, frozen by the control thread and resumed in a forked   *)
(* child.  The model follows the child of every fork; its parent stays     *)
(* frozen.  A child may be frozen and forked again, as a recipe's template *)
(* is.                                                                     *)
(***************************************************************************)
EXTENDS Naturals, FiniteSets

CONSTANTS
  Threads,        \* guest threads, each a coroutine
  Fds,            \* descriptor numbers
  Tasks,          \* task_shared futures
  MaxGeneration,  \* bound: forks along the line of descent
  None

ASSUME GenerationAssumption == MaxGeneration \in Nat
ASSUME TaskAssumption == IsFiniteSet(Tasks)
ASSUME NoneAssumption == None \notin Fds /\ None \notin Nat

VARIABLES
  step,        \* where the control thread is
  gate,        \* "open" or "closed"
  worker,      \* tokio's worker thread: "up" or "gone"
  runtime,     \* the tokio runtime in use; the child builds the next one
  generation,  \* HostTaskManager's fork generation
  thread,      \* what each coroutine is doing
  driven,      \* coroutines with an OS thread
  listener,    \* the guest's listening socket: "idle", a client is "waiting", or "halted"
  holds,       \* the descriptor a thread is accepting or dropping
  file,        \* what each descriptor is
  tracked,     \* Connections: descriptors of the guest's connections
  sleep,       \* each thread's ForkAwareSleep: its generation and its timer's runtime
  task,        \* the runtime each task is on, or None
  in_flight    \* tasks_in_flight

sockets == <<holds, file, tracked>>
tasks == <<task, in_flight>>
control == <<step, gate, worker, runtime, generation, driven>>
host == <<control, listener>>
vars == <<step, gate, worker, runtime, generation, thread, driven, listener, holds, file, tracked,
          sleep, task, in_flight>>

Suspended == {"waiting", "sleeping"}
Connection == {"live", "ended"}
Generations == 0..MaxGeneration

TypeOK ==
  /\ step \in {"serving", "checked", "draining", "dismantling", "frozen", "failed"}
  /\ gate \in {"open", "closed"} /\ worker \in {"up", "gone"}
  /\ runtime \in Generations /\ generation \in Generations
  /\ thread \in [Threads -> Suspended \cup {"running", "accepting", "dropping"}]
  /\ driven \subseteq Threads /\ listener \in {"idle", "waiting", "halted"}
  /\ holds \in [Threads -> Fds \cup {None}]
  /\ file \in [Fds -> Connection \cup {"free", "other"}]
  /\ tracked \subseteq Fds
  /\ sleep \in [Threads -> [generation : Generations, timer : Generations \cup {None}]]
  /\ task \in [Tasks -> Generations \cup {None}]
  /\ in_flight \in Nat

\* A host whose guest is ready.
Init ==
  /\ step = "serving" /\ gate = "open" /\ worker = "up" /\ runtime = 0 /\ generation = 0
  /\ thread = [t \in Threads |-> "running"] /\ driven = Threads
  /\ listener = "idle"
  /\ holds = [t \in Threads |-> None] /\ file = [f \in Fds |-> "free"] /\ tracked = {}
  /\ sleep = [t \in Threads |-> [generation |-> 0, timer |-> None]]
  /\ task = [k \in Tasks |-> None] /\ in_flight = 0

-----------------------------------------------------------------------------
(* Guest threads.  A thread that runs goes on until its next wait, gate or no *)
(* gate.                                                                     *)

Runs(t) == t \in driven /\ thread[t] = "running" /\ step # "failed"

\* A client reaches the listening socket's backlog; a socket shut down for reading refuses it.
Connect ==
  /\ listener = "idle" /\ step # "failed" /\ listener' = "waiting"
  /\ UNCHANGED <<control, thread, sockets, sleep, tasks>>

\* try_accept: the socket first, its guard second.
Accept(t, f) ==
  /\ Runs(t) /\ file[f] = "free" /\ listener = "waiting" /\ listener' = "idle"
  /\ thread' = [thread EXCEPT ![t] = "accepting"]
  /\ holds' = [holds EXCEPT ![t] = f] /\ file' = [file EXCEPT ![f] = "live"]
  /\ UNCHANGED <<control, tracked, sleep, tasks>>

Track(t) ==
  /\ thread[t] = "accepting" /\ step # "failed" /\ tracked' = tracked \cup {holds[t]}
  /\ thread' = [thread EXCEPT ![t] = "running"] /\ holds' = [holds EXCEPT ![t] = None]
  /\ UNCHANGED <<host, file, sleep, tasks>>

ClosesFirst(t, f) ==
  /\ holds' = [holds EXCEPT ![t] = f] /\ file' = [file EXCEPT ![f] = "free"]
  /\ UNCHANGED tracked

\* A TrackedStream is dropped: its guard forgets the descriptor ...
Forgets(t, f) ==
  /\ holds' = [holds EXCEPT ![t] = f] /\ tracked' = tracked \ {f} /\ UNCHANGED file

Forget(t, f) ==
  /\ Runs(t) /\ f \in tracked /\ thread' = [thread EXCEPT ![t] = "dropping"] /\ Forgets(t, f)
  /\ UNCHANGED <<host, sleep, tasks>>

\* ... before the stream closes it.
Closes(t) == file' = [file EXCEPT ![holds[t]] = "free"] /\ UNCHANGED tracked

Close(t) ==
  /\ thread[t] = "dropping" /\ step # "failed" /\ Closes(t)
  /\ thread' = [thread EXCEPT ![t] = "running"] /\ holds' = [holds EXCEPT ![t] = None]
  /\ UNCHANGED <<host, sleep, tasks>>

\* Files of the guest use the same numbers.
OpenFile(t, f) ==
  /\ Runs(t) /\ file[f] = "free" /\ file' = [file EXCEPT ![f] = "other"]
  /\ UNCHANGED <<host, thread, holds, tracked, sleep, tasks>>

CloseFile(t, f) ==
  /\ Runs(t) /\ file[f] = "other" /\ file' = [file EXCEPT ![f] = "free"]
  /\ UNCHANGED <<host, thread, holds, tracked, sleep, tasks>>

PeerEnds(f) ==
  /\ file[f] = "live" /\ step # "failed" /\ file' = [file EXCEPT ![f] = "ended"]
  /\ UNCHANGED <<host, thread, holds, tracked, sleep, tasks>>

\* A wait on a descriptor or a futex; the gate keeps it from being resumed.
Wait(t) ==
  /\ Runs(t) /\ thread' = [thread EXCEPT ![t] = "waiting"]
  /\ UNCHANGED <<host, sockets, sleep, tasks>>

Resume(t) ==
  /\ t \in driven /\ thread[t] = "waiting" /\ gate = "open" /\ step # "failed"
  /\ thread' = [thread EXCEPT ![t] = "running"]
  /\ UNCHANGED <<host, sockets, sleep, tasks>>

\* sleep_now: armed by the first poll.
SleepNow(t) ==
  /\ Runs(t) /\ thread' = [thread EXCEPT ![t] = "sleeping"]
  /\ sleep' = [sleep EXCEPT ![t] = [generation |-> generation, timer |-> None]]
  /\ UNCHANGED <<host, sockets, tasks>>

\* ForkAwareSleep::poll arms a timer on the runtime in use, unless it has one
\* of this generation.
PollSleep(t) ==
  /\ t \in driven /\ thread[t] = "sleeping" /\ gate = "open" /\ step # "failed"
  /\ sleep[t].timer = None \/ sleep[t].generation # generation
  /\ sleep' = [sleep EXCEPT ![t] = [generation |-> generation, timer |-> runtime]]
  /\ UNCHANGED <<host, thread, sockets, tasks>>

\* The timer's runtime fires it, and the loop polls it ready.
Wake(t) ==
  /\ t \in driven /\ thread[t] = "sleeping" /\ gate = "open" /\ step # "failed"
  /\ sleep[t].generation = generation /\ sleep[t].timer = runtime /\ worker = "up"
  /\ thread' = [thread EXCEPT ![t] = "running"]
  /\ UNCHANGED <<host, sockets, sleep, tasks>>

OneMore == in_flight + 1

\* task_shared counts a future and spawns it on the runtime in use.
TaskShared(t, k) ==
  /\ Runs(t) /\ task[k] = None
  /\ task' = [task EXCEPT ![k] = runtime] /\ in_flight' = OneMore
  /\ UNCHANGED <<host, thread, sockets, sleep>>

TaskEnds(k) ==
  /\ task[k] = runtime /\ worker = "up" /\ step # "failed"
  /\ task' = [task EXCEPT ![k] = None] /\ in_flight' = in_flight - 1
  /\ UNCHANGED <<host, thread, sockets, sleep>>

-----------------------------------------------------------------------------
(* freeze, on the control thread.                                            *)

Elsewhere == <<thread, holds, sleep, tasks>>

NeverRefuses == FALSE

\* Host-side work exists.
Refuses == in_flight > 0

CheckTasks ==
  /\ step = "serving" /\ generation < MaxGeneration
  /\ step' = IF Refuses THEN "failed" ELSE "checked"
  /\ UNCHANGED <<gate, worker, runtime, generation, driven, file, tracked, listener, Elsewhere>>

CloseGate ==
  /\ step = "checked" /\ step' = "draining" /\ gate' = "closed"
  /\ UNCHANGED <<worker, runtime, generation, driven, file, tracked, listener, Elsewhere>>

\* A loop that finds the gate closed ends its thread; the coroutine keeps its wait.
Retire(t) ==
  /\ gate = "closed" /\ t \in driven /\ thread[t] \in Suspended /\ step # "failed"
  /\ driven' = driven \ {t}
  /\ UNCHANGED <<step, gate, worker, runtime, generation, file, tracked, listener, Elsewhere>>

Drained == driven = {}

\* drain succeeds; the selector is joined and tokio told to end.
Dismantle ==
  /\ step = "draining" /\ Drained /\ step' = "dismantling"
  /\ UNCHANGED <<gate, worker, runtime, generation, driven, file, tracked, listener, Elsewhere>>

NoTimeout == FALSE

\* DRAIN_TIMEOUT, then DISMANTLE_TIMEOUT.
TimesOut ==
  \/ step = "draining" /\ driven # {}
  \/ step = "dismantling" /\ worker = "up"

FreezeTimesOut ==
  /\ TimesOut /\ step' = "failed"
  /\ UNCHANGED <<gate, worker, runtime, generation, driven, file, tracked, listener, Elsewhere>>

\* tokio_park_hook.
WorkerParks ==
  /\ step = "dismantling" /\ worker = "up" /\ worker' = "gone"
  /\ UNCHANGED <<step, gate, runtime, generation, driven, file, tracked, listener, Elsewhere>>

\* shut_down_sockets ends every tracked connection, once it has halted the listener, which
\* resets the client in its backlog.
ShutDown == [f \in Fds |-> IF f \in tracked /\ file[f] = "live" THEN "ended" ELSE file[f]]

\* One thread is left: the sockets are shut down, which fails on a descriptor
\* that is no socket, and shared memory is copied, which may fail.
Freeze ==
  /\ step = "dismantling" /\ driven = {} /\ worker = "gone"
  /\ listener' = "halted" /\ file' = ShutDown
  /\ \/ step' = "frozen" /\ \A f \in tracked : file[f] \in Connection
     \/ step' = "failed"
  /\ UNCHANGED <<gate, worker, runtime, generation, driven, tracked, Elsewhere>>

-----------------------------------------------------------------------------
(* fork, in the child.                                                       *)

SameGeneration == generation

\* replace_runtime starts a new fork generation.
NextGeneration == generation + 1

\* replace_listener: the socket passed for the clone, with an empty backlog.
ReplacedListener == "idle"

\* rebuild: a new runtime and the clone's own listening socket, then every
\* coroutine on a fresh thread, behind an open gate; or it fails, and the child ends.
ForkRebuilt ==
  /\ step = "frozen" /\ step' = "serving" /\ gate' = "open" /\ worker' = "up"
  /\ runtime' = runtime + 1 /\ generation' = NextGeneration /\ driven' = Threads
  /\ listener' = ReplacedListener
  /\ UNCHANGED <<file, tracked, Elsewhere>>

ForkFails ==
  /\ step = "frozen" /\ step' = "failed"
  /\ UNCHANGED <<gate, worker, runtime, generation, driven, file, tracked, listener, Elsewhere>>

Guest(t) ==
  \/ Track(t) \/ Close(t) \/ Wait(t) \/ Resume(t) \/ SleepNow(t) \/ PollSleep(t) \/ Wake(t)
  \/ Retire(t)
  \/ \E f \in Fds : Accept(t, f) \/ Forget(t, f) \/ OpenFile(t, f) \/ CloseFile(t, f)
  \/ \E k \in Tasks : TaskShared(t, k)

Control == CloseGate \/ Dismantle \/ FreezeTimesOut \/ Freeze

Next ==
  \/ \E t \in Threads : Guest(t)
  \/ Connect \/ \E f \in Fds : PeerEnds(f)
  \/ \E k \in Tasks : TaskEnds(k)
  \/ CheckTasks \/ Control \/ WorkerParks \/ ForkRebuilt \/ ForkFails

Spec == Init /\ [][Next]_vars

\* The control thread runs, its deadlines pass, loops poll their sleeps, and
\* live runtimes fire timers.  Nothing is assumed of guests.
FairSpec ==
  Spec /\ WF_vars(Control) /\ \A t \in Threads : WF_vars(PollSleep(t)) /\ WF_vars(Wake(t))

-----------------------------------------------------------------------------
(* Properties.                                                               *)

\* "So a freeze can end the template's network presence exactly": once the guest
\* is drained, the tracked descriptors are the connections the guest holds, no
\* fewer, and no file that has taken over a number.
TracksExactly ==
  gate = "closed" /\ driven = {} => tracked = {f \in Fds : file[f] \in Connection}

\* "A clone therefore inherits neither live connections": what is forked has
\* none, and no coroutine of it is in the middle of anything.  Nor does a client wait at
\* a template, which would never accept it.
NoLiveInherited ==
  step = "frozen" => /\ listener = "halted"
                     /\ \A f \in Fds : file[f] # "live"
                     /\ \A t \in Threads : thread[t] \in Suspended

\* The two together: the freeze ends the guest's connections, all of them and nothing
\* else, whatever its threads were doing with their descriptors.
EndsExactly == TracksExactly /\ NoLiveInherited

\* "A freeze can refuse while host-side work exists that a forked child would
\* lose": no task is on a runtime that was left behind.
\* The code does not keep to this: README, section 4.
NoTaskLost == \A k \in Tasks : task[k] \in {None, runtime}

\* What is left of it: a task spawned after the check is lost to the next fork only.  A
\* clone that has lost one is never frozen into a template of its own, which would
\* hand the loss on.
LostTaskStops ==
  \A k \in Tasks : task[k] \notin {None, runtime} => step \in {"serving", "failed"}

\* "A timer created in the parent fires in the child": a guest thread that
\* sleeps in a serving host wakes, however many forks ago it went to sleep.
SleepersWake ==
  \A t \in Threads : (thread[t] = "sleeping" /\ step = "serving")
                       ~> (thread[t] = "running" \/ step # "serving")

\* A freeze ends, in a template or in failure, whatever guests do.
FreezeEnds == (step = "checked") ~> (step \in {"frozen", "failed"})

=============================================================================
