--------------------------- MODULE TemplateOwner ---------------------------
(***************************************************************************)
(* One frozen template: the owner thread in the manager (serve_forks), its  *)
(* host process on the other end of the control channel, and the clones the *)
(* host forks.  The owner learns that a clone died only from an Exited      *)
(* frame, which the host sends when it reaps the clone; such a frame can be *)
(* read while the owner waits for the answer to a fork (and is then kept in *)
(* the handle's event list) or drained between commands.                    *)
(*                                                                          *)
(* The control channel is a FIFO with at most one answer outstanding, so it *)
(* is represented by where each clone's Exited frame is: "sent" (ahead of   *)
(* the answer, or no answer is queued) or "behind" (queued after it).       *)
(* Time is counted in the owner's one-second ticks, up to TTL.              *)
(***************************************************************************)
EXTENDS Integers, FiniteSets

CONSTANTS
  Clones,           \* identities of clones; one is reused once its exit is counted
  NoClone,          \* no clone is being forked
  TTL,              \* Templates::ttl, in ticks
  MaxPending,       \* bound on fork commands queued at once
  ChannelCapacity   \* frames the control channel buffers before a send blocks

ASSUME CloneAssumption == IsFiniteSet(Clones) /\ NoClone \notin Clones
ASSUME BoundAssumption == TTL \in Nat /\ MaxPending \in Nat /\ ChannelCapacity \in Nat \ {0}

VARIABLES
  pc,        \* owner thread: "recv", "forking", "announce", "stopping", "gone"
  alive,     \* Template::alive, read by Templates::obtain and prune
  children,  \* the owner's count of live descendants
  idle,      \* time since idle_since, up to TTL
  pending,   \* fork commands in the owner's mpsc queue
  held,      \* some sender of that queue exists
  host,      \* the template's process: "frozen" or "dead"
  request,   \* a Fork request is on the channel to the host
  reply,     \* the answer on the channel to the owner: "none", "forked", "error"
  forked,    \* the clone of the fork under way
  announced, \* that clone has said Forked on its own channel
  clone,     \* where each clone, or the frame about its exit, is
  why,       \* history: why serve_forks returned
  quiet      \* history: time since a descendant was last live, up to TTL

vars == <<pc, alive, children, idle, pending, held, host, request, reply,
          forked, announced, clone, why, quiet>>

Waiting == {"sent", "behind"}
CloneStates == {"unborn", "rebuilding", "live", "zombie", "event"} \cup Waiting

Live == {c \in Clones : clone[c] \in {"rebuilding", "live"}}
In(states) == {c \in Clones : clone[c] \in states}

Flags == alive \in BOOLEAN /\ held \in BOOLEAN /\ request \in BOOLEAN /\ announced \in BOOLEAN

Ranges ==
  /\ pc \in {"recv", "forking", "announce", "stopping", "gone"}
  /\ children \in Nat
  /\ idle \in 0..TTL /\ quiet \in 0..TTL
  /\ pending \in 0..MaxPending
  /\ host \in {"frozen", "dead"}
  /\ reply \in {"none", "forked", "error"}
  /\ forked \in Clones \cup {NoClone}
  /\ clone \in [Clones -> CloneStates]
  /\ why \in {"serving", "expired", "failed", "disconnected"}

TypeOK == Flags /\ Ranges

Init ==
  /\ pc = "recv" /\ alive = TRUE /\ children = 0 /\ idle = 0
  /\ pending = 0 /\ held = TRUE
  /\ host = "frozen" /\ request = FALSE /\ reply = "none"
  /\ forked = NoClone /\ announced = FALSE
  /\ clone = [c \in Clones |-> "unborn"]
  /\ why = "serving" /\ quiet = 0

-----------------------------------------------------------------------------
(* Holders of a Template handle.                                             *)

SendFork ==
  /\ held /\ pc # "gone" /\ pending < MaxPending
  /\ pending' = pending + 1
  /\ UNCHANGED <<pc, alive, children, idle, held, host, request, reply,
                 forked, announced, clone, why, quiet>>

DropHandles ==
  /\ held /\ held' = FALSE
  /\ UNCHANGED <<pc, alive, children, idle, pending, host, request, reply,
                 forked, announced, clone, why, quiet>>

-----------------------------------------------------------------------------
(* The owner thread.                                                         *)

\* A failed fork or a vanished host: alive is cleared, the host is killed.
Fail == alive' = FALSE /\ pc' = "stopping" /\ why' = "failed"

SaturatingSub(a, b) == IF a >= b THEN a - b ELSE 0

HasCommand == pending > 0

\* A fork command is taken; the channel pair and the listener are made and
\* the request is sent.  Making them can fail, and so does sending to a dead
\* host.
RecvFork ==
  /\ pc = "recv" /\ HasCommand
  /\ pending' = pending - 1
  /\ \/ host = "frozen" /\ request' = TRUE /\ pc' = "forking"
        /\ UNCHANGED <<alive, why>>
     \/ Fail /\ UNCHANGED request
  /\ UNCHANGED <<children, idle, held, host, reply, forked, announced,
                 clone, quiet>>

EventDropped(c) == [clone EXCEPT ![c] = "unborn"]

EventKept(c) == [clone EXCEPT ![c] = "event"]

\* HostProcess::reply keeps an Exited frame that arrives before the answer.
ReplyExited(c) ==
  /\ pc = "forking" /\ clone[c] = "sent"
  /\ clone' = EventKept(c)
  /\ UNCHANGED <<pc, alive, children, idle, pending, held, host, request,
                 reply, forked, announced, why, quiet>>

\* The answer is next in the channel: what was queued after it now leads.
Unqueued == [c \in Clones |-> IF clone[c] = "behind" THEN "sent" ELSE clone[c]]

ReplyForked ==
  /\ pc = "forking" /\ In({"sent"}) = {} /\ reply = "forked"
  /\ pc' = "announce" /\ reply' = "none" /\ clone' = Unqueued
  /\ UNCHANGED <<alive, children, idle, pending, held, host, request, forked,
                 announced, why, quiet>>

EofIgnored == FALSE

\* The host's end of the channel closed and nothing is left to read.
Eof == reply = "none" /\ host = "dead"

\* The host answered error, or its end of the channel closed unanswered.
ReplyFailed ==
  /\ pc = "forking" /\ In({"sent"}) = {}
  /\ reply = "error" \/ Eof
  /\ Fail
  /\ UNCHANGED <<children, idle, pending, held, host, request, reply, forked,
                 announced, clone, quiet>>

EventsLeft == clone

EventsTaken == [c \in Clones |-> IF clone[c] = "event" THEN "unborn" ELSE clone[c]]

\* The clone answered on its own channel: count it, take the exits kept
\* while waiting, and hand the clone to whoever asked.
ForkServed ==
  /\ pc = "announce" /\ announced
  /\ children' = SaturatingSub(children + 1, Cardinality(In({"event"})))
  /\ idle' = IF children' = 0 THEN 0 ELSE idle
  /\ clone' = EventsTaken
  /\ pc' = "recv" /\ forked' = NoClone /\ announced' = FALSE
  /\ UNCHANGED <<alive, pending, held, host, request, reply, why, quiet>>

\* The clone's channel closed, or carried an error, before it announced.
AnnounceLost ==
  /\ pc = "announce" /\ ~announced /\ clone[forked] # "rebuilding"
  /\ Fail
  /\ UNCHANGED <<children, idle, pending, held, host, request, reply, forked,
                 announced, clone, quiet>>

IdleRunsOn(exits, left) == idle

\* idle_since is set when the last descendant's exit is counted.
IdleAfter(exits, left) == IF exits > 0 /\ left = 0 THEN 0 ELSE idle

\* A second without a command: drain the channel, then expire if idle.
Timeout ==
  /\ pc = "recv" /\ pending = 0 /\ held
  /\ \/ /\ host = "dead" /\ Fail
        /\ UNCHANGED <<children, idle, clone>>
     \/ /\ host = "frozen"
        /\ LET exits == Cardinality(In({"sent"}))
           IN  /\ children' = SaturatingSub(children, exits)
               /\ idle' = IdleAfter(exits, children')
        /\ clone' = [c \in Clones |-> IF clone[c] = "sent" THEN "unborn" ELSE clone[c]]
        /\ IF children' = 0 /\ idle' >= TTL
             THEN alive' = FALSE /\ pc' = "stopping" /\ why' = "expired"
             ELSE UNCHANGED <<alive, pc, why>>
  /\ UNCHANGED <<pending, held, host, request, reply, forked, announced, quiet>>

\* Every handle is dropped and every queued command served: stop.
Disconnected ==
  /\ pc = "recv" /\ pending = 0 /\ ~held
  /\ alive' = FALSE /\ pc' = "stopping" /\ why' = "disconnected"
  /\ UNCHANGED <<children, idle, pending, held, host, request, reply, forked,
                 announced, clone, quiet>>

\* HostProcess::stop or kill returns once the host is gone; the thread ends
\* and drops the commands nobody will serve.
Stopped ==
  /\ pc = "stopping"
  /\ host' = "dead" /\ pc' = "gone" /\ pending' = 0
  /\ UNCHANGED <<alive, children, idle, held, request, reply, forked,
                 announced, clone, why, quiet>>

-----------------------------------------------------------------------------
(* The template's host process and its clones.                               *)

ChannelHasRoom ==
  Cardinality(In(Waiting)) + (IF reply = "none" THEN 0 ELSE 1) < ChannelCapacity

\* tick: a dead clone is reaped and its exit reported, in channel order.
Reap(c) ==
  /\ host = "frozen" /\ clone[c] = "zombie" /\ ChannelHasRoom
  /\ clone' = [clone EXCEPT ![c] = IF reply = "none" THEN "sent" ELSE "behind"]
  /\ UNCHANGED <<pc, alive, children, idle, pending, held, host, request,
                 reply, forked, announced, why, quiet>>

HostFork(c) ==
  /\ host = "frozen" /\ request /\ clone[c] = "unborn" /\ ChannelHasRoom
  /\ clone' = [clone EXCEPT ![c] = "rebuilding"]
  /\ forked' = c /\ request' = FALSE /\ reply' = "forked" /\ quiet' = 0
  /\ UNCHANGED <<pc, alive, children, idle, pending, held, host, announced, why>>

\* fork() fails in the host, which answers error and stays frozen.
HostForkRefused ==
  /\ host = "frozen" /\ request /\ ChannelHasRoom
  /\ request' = FALSE /\ reply' = "error"
  /\ UNCHANGED <<pc, alive, children, idle, pending, held, host, forked,
                 announced, clone, why, quiet>>

\* The clone has rebuilt and serves on its own channel.
Announce(c) ==
  /\ clone[c] = "rebuilding"
  /\ clone' = [clone EXCEPT ![c] = "live"] /\ announced' = TRUE
  /\ UNCHANGED <<pc, alive, children, idle, pending, held, host, request,
                 reply, forked, why, quiet>>

\* A clone ends: its guest exits, it is stopped, killed, or fails to rebuild.
CloneExit(c) ==
  /\ c \in Live
  /\ clone' = [clone EXCEPT ![c] = "zombie"] /\ quiet' = 0
  /\ UNCHANGED <<pc, alive, children, idle, pending, held, host, request,
                 reply, forked, announced, why>>

HostDies ==
  /\ host = "frozen" /\ host' = "dead"
  /\ UNCHANGED <<pc, alive, children, idle, pending, held, request, reply,
                 forked, announced, clone, why, quiet>>

Later(t) == IF t < TTL THEN t + 1 ELSE t

Tick ==
  /\ idle' = Later(idle)
  /\ quiet' = IF Live = {} THEN Later(quiet) ELSE 0
  /\ UNCHANGED <<pc, alive, children, pending, held, host, request, reply,
                 forked, announced, clone, why>>

-----------------------------------------------------------------------------
Owner ==
  \/ RecvFork \/ \E c \in Clones : ReplyExited(c)
  \/ ReplyForked \/ ReplyFailed \/ ForkServed \/ AnnounceLost
  \/ Timeout \/ Disconnected \/ Stopped

HostLoop == HostForkRefused \/ \E c \in Clones : Reap(c) \/ HostFork(c)

Next ==
  \/ Owner \/ HostLoop \/ SendFork \/ DropHandles \/ HostDies \/ Tick
  \/ \E c \in Clones : Announce(c) \/ CloneExit(c)

Spec == Init /\ [][Next]_vars

\* The owner thread and the host's control loop are threads the kernel
\* schedules, recv_timeout returns every second, and time passes.  A forked
\* clone rebuilds or dies.  Nothing obliges a clone to exit, a handle to be
\* used or dropped, or a host to crash.
Fairness ==
  /\ WF_vars(Owner) /\ WF_vars(HostLoop) /\ WF_vars(Tick)
  /\ \A c \in Clones : WF_vars(Reap(c))
  /\ \A c \in Clones : WF_vars(clone[c] = "rebuilding" /\ (Announce(c) \/ CloneExit(c)))

FairSpec == Spec /\ Fairness

-----------------------------------------------------------------------------
(* Properties.                                                               *)

\* The clones whose exit the owner has not counted, the clone of a fork under
\* way excepted.
Descendants == {c \in Clones : clone[c] # "unborn" /\ c # forked}

\* The owner's count is exactly the number of such descendants, wherever the
\* frames about their exits are; so saturating_sub never hides a miscount.
ChildrenCounted == children = Cardinality(Descendants)

\* A template expires only when no descendant is live and none has been for
\* a full TTL (module doc: "one expires when it has had no live descendant
\* for the TTL").
ExpiresOnlyIdle ==
  [][why # "expired" /\ why' = "expired" => Live = {} /\ quiet >= TTL]_vars

\* A template that is no longer asked for clones and has no live descendant
\* goes away: it expires, or is found dead, even if no handle is dropped.
IdleTemplateGoes ==
  <>[](pending = 0 /\ Live = {}) => <>(pc = "gone")

\* Every fork command is answered: the owner never waits forever on its host
\* or on a clone, whatever exits are queued in the control channel.
ForkAnswered == [](pc \in {"forking", "announce"} => <>(pc \in {"recv", "gone"}))

-----------------------------------------------------------------------------
(* What it implements.                                                       *)

Serving == why = "serving"

\* The command being answered, and those queued behind it.
Owed ==
  IF ~Serving THEN 0 ELSE IF pc \in {"forking", "announce"} THEN pending + 1 ELSE pending

Promise == INSTANCE OwnerPromise WITH
  state <- why, owed <- Owed, granted <- IF Serving THEN forked ELSE NoClone, live <- Live

\* serve_forks, with its channel, its two-stage answers and its count of
\* descendants, keeps what OwnerPromise says of a Template: one clone at most for
\* each command, none after the end, and no end that anybody still has a use for,
\* however exits, forks, failures and dropped handles interleave.
KeepsPromise == Promise!Spec

=============================================================================
