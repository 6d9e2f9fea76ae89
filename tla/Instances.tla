----------------------------- MODULE Instances -----------------------------
(***************************************************************************)
(* The instance registry: entries with a lease, the API handlers and the    *)
(* sweeper that hold references to them, and one watcher thread per entry   *)
(* at the other end of its stop pipe, between the entry and its host.       *)
(*                                                                          *)
(* Handlers run on several threads, so they interleave between any two lock *)
(* acquisitions.  An entry is shared (Arc): the write end of its stop pipe  *)
(* closes when the registry and the last handler have let go of it.  Time   *)
(* is counted in ticks; a lease is the time left until expires_at.          *)
(***************************************************************************)
EXTENDS Integers

CONSTANTS
  Ids,       \* instances, each created once
  Handlers,  \* concurrent get and renew requests
  MaxTtl,    \* MAX_TTL_SECONDS and DEFAULT_TTL, in ticks
  Nil        \* no instance

IdAssumption == Nil \notin Ids
TtlAssumption == MaxTtl \in Nat \ {0}

VARIABLES
  entry,    \* each entry: "none", "adopted", "held" by the registry, "removed"
  ttl,      \* Lease::ttl
  lease,    \* time left until Lease::expires_at
  state,    \* GuestState: "running", "exited" with a status, "lost" without
  watcher,  \* the watcher thread
  host,     \* the instance's host process: "none", "up", "gone"
  frame,    \* an Exited frame is unread in the control channel
  pc, at,   \* each handler: where it is and which entry it refers to
  sweeper,  \* the sweep task: "idle", "locked" (in remove_expired), "dropping"
  expired,  \* the entries that sweep has found expired and not yet dropped
  down,     \* the server has shut down
  due,      \* history: time left of what clients were last promised
  reported, \* history: the host sent the guest's exit status
  deleted   \* history: a client deleted the instance

vars == <<entry, ttl, lease, state, watcher, host, frame, pc, at, sweeper,
          expired, down, due, reported, deleted>>

Flags ==
  /\ frame \in [Ids -> BOOLEAN] /\ reported \in [Ids -> BOOLEAN]
  /\ deleted \in [Ids -> BOOLEAN] /\ down \in BOOLEAN

Ranges ==
  /\ entry \in [Ids -> {"none", "adopted", "held", "removed"}]
  /\ ttl \in [Ids -> 1..MaxTtl]
  /\ lease \in [Ids -> 0..MaxTtl] /\ due \in [Ids -> 0..MaxTtl]
  /\ state \in [Ids -> {"running", "exited", "lost"}]
  /\ watcher \in [Ids -> {"none", "watching", "stopping", "ended", "givingUp", "gaveUp"}]
  /\ host \in [Ids -> {"none", "up", "gone"}]
  /\ pc \in [Handlers -> {"idle", "reading", "got", "running", "renewed"}]
  /\ at \in [Handlers -> Ids \cup {Nil}]
  /\ sweeper \in {"idle", "locked", "dropping"} /\ expired \in SUBSET Ids

TypeOK == Flags /\ Ranges

Init ==
  /\ entry = [i \in Ids |-> "none"] /\ ttl = [i \in Ids |-> MaxTtl]
  /\ lease = [i \in Ids |-> 0] /\ due = [i \in Ids |-> 0]
  /\ state = [i \in Ids |-> "running"] /\ watcher = [i \in Ids |-> "none"]
  /\ host = [i \in Ids |-> "none"] /\ frame = [i \in Ids |-> FALSE]
  /\ pc = [h \in Handlers |-> "idle"] /\ at = [h \in Handlers |-> Nil]
  /\ sweeper = "idle" /\ expired = {} /\ down = FALSE
  /\ reported = [i \in Ids |-> FALSE] /\ deleted = [i \in Ids |-> FALSE]

leases == <<ttl, lease, due>>
watching == <<state, watcher, host, frame, reported>>
handling == <<pc, at>>
sweeping == <<sweeper, expired>>

-----------------------------------------------------------------------------
(* API handlers.                                                             *)

\* ttl_duration refuses a TTL of zero and one above the maximum.
TtlDuration == 1..MaxTtl

\* The sweeper does not hold the registry's lock.
Unlocked == sweeper # "locked"

\* adopt: the stop pipe, the watcher thread and the lease.
Adopt(i) ==
  /\ ~down /\ entry[i] = "none"
  /\ entry' = [entry EXCEPT ![i] = "adopted"]
  /\ host' = [host EXCEPT ![i] = "up"]
  /\ watcher' = [watcher EXCEPT ![i] = "watching"]
  /\ \E t \in TtlDuration : ttl' = [ttl EXCEPT ![i] = t] /\ lease' = [lease EXCEPT ![i] = t]
  /\ UNCHANGED <<due, state, frame, reported, handling, sweeping, down, deleted>>

\* The entry is registered and the client answered with its description.
Insert(i) ==
  /\ entry[i] = "adopted" /\ Unlocked
  /\ entry' = [entry EXCEPT ![i] = "held"]
  /\ due' = [due EXCEPT ![i] = lease[i]]
  /\ UNCHANGED <<ttl, lease, watching, handling, sweeping, down, deleted>>

\* Registry::get, for get_instance or renew_instance; list_instances takes
\* a reference to every entry in the same way.
Get(h, i) ==
  /\ ~down /\ pc[h] = "idle" /\ entry[i] = "held" /\ Unlocked
  /\ \E p \in {"reading", "got"} : pc' = [pc EXCEPT ![h] = p]
  /\ at' = [at EXCEPT ![h] = i]
  /\ UNCHANGED <<entry, leases, watching, sweeping, down, deleted>>

\* The handler answers and drops its reference.
Answer(h) == pc' = [pc EXCEPT ![h] = "idle"] /\ at' = [at EXCEPT ![h] = Nil]

Describe(h) ==
  /\ pc[h] = "reading" /\ Answer(h)
  /\ UNCHANGED <<entry, leases, watching, sweeping, down, deleted>>

\* renew_instance refuses an instance whose guest exited.
RenewCheck(h) ==
  /\ pc[h] = "got"
  /\ IF state[at[h]] = "running" THEN pc' = [pc EXCEPT ![h] = "running"] /\ UNCHANGED at
                                 ELSE Answer(h)
  /\ UNCHANGED <<entry, leases, watching, sweeping, down, deleted>>

Lesser(a, b) == IF a < b THEN a ELSE b

\* Entry::renew, with the TTL the request names or the one the lease has.  A
\* shorter TTL takes back part of an earlier promise.
Renew(h) ==
  /\ pc[h] = "running" /\ pc' = [pc EXCEPT ![h] = "renewed"]
  /\ \E t \in TtlDuration \cup {ttl[at[h]]} :
       /\ ttl' = [ttl EXCEPT ![at[h]] = t] /\ lease' = [lease EXCEPT ![at[h]] = t]
       /\ due' = [due EXCEPT ![at[h]] = Lesser(@, t)]
  /\ UNCHANGED <<entry, at, watching, sweeping, down, deleted>>

\* The client is told how long the instance now lives.
Renewed(h) ==
  /\ pc[h] = "renewed" /\ Answer(h)
  /\ due' = [due EXCEPT ![at[h]] = lease[at[h]]]
  /\ UNCHANGED <<entry, ttl, lease, watching, sweeping, down, deleted>>

\* delete_instance: Registry::remove, and the reference is dropped.
Delete(i) ==
  /\ ~down /\ entry[i] = "held" /\ Unlocked
  /\ entry' = [entry EXCEPT ![i] = "removed"]
  /\ deleted' = [deleted EXCEPT ![i] = TRUE]
  /\ UNCHANGED <<leases, watching, handling, sweeping, down>>

-----------------------------------------------------------------------------
(* The sweeper, and shutdown.                                                *)

ExpiresEarly(i) == entry[i] = "held" /\ lease[i] <= 1

Expired(i) == entry[i] = "held" /\ lease[i] = 0

\* remove_expired takes the registry's lock and looks at every lease; a
\* handler that already has a reference can still renew meanwhile.
SweepCheck ==
  /\ ~down /\ sweeper = "idle" /\ sweeper' = "locked"
  /\ expired' = {i \in Ids : Expired(i)}
  /\ UNCHANGED <<entry, leases, watching, handling, down, deleted>>

SweepRemove ==
  /\ sweeper = "locked" /\ sweeper' = "dropping"
  /\ entry' = [i \in Ids |-> IF i \in expired THEN "removed" ELSE entry[i]]
  /\ UNCHANGED <<leases, watching, handling, expired, down, deleted>>

\* The removed entries are logged and dropped one after the other.
SweepDrop ==
  /\ sweeper = "dropping"
  /\ \/ \E i \in expired : expired' = expired \ {i} /\ UNCHANGED sweeper
     \/ expired = {} /\ sweeper' = "idle" /\ UNCHANGED expired
  /\ UNCHANGED <<entry, leases, watching, handling, down, deleted>>

\* Graceful shutdown: once no handler is running, the sweep is aborted where
\* it waits for its interval and the registry is cleared.
Shutdown ==
  /\ ~down /\ down' = TRUE /\ sweeper = "idle"
  /\ \A h \in Handlers : pc[h] = "idle"
  /\ \A i \in Ids : entry[i] # "adopted"
  /\ entry' = [i \in Ids |-> IF entry[i] = "held" THEN "removed" ELSE entry[i]]
  /\ UNCHANGED <<leases, watching, handling, sweeping, deleted>>

-----------------------------------------------------------------------------
(* Watcher threads and hosts.                                                *)

\* The entry's last reference is gone, and with it the stop pipe's write end.
Dropped(i) == entry[i] = "removed" /\ (\A h \in Handlers : at[h] # i) /\ i \notin expired

FrameMissed(i) == FALSE

\* The control channel has the guest's exit to read.
ExitReadable(i) == frame[i]

\* The guest's exit is read: its status is kept and the host stopped.
WatchExited(i) ==
  /\ watcher[i] = "watching" /\ ExitReadable(i)
  /\ frame' = [frame EXCEPT ![i] = FALSE]
  /\ state' = [state EXCEPT ![i] = "exited"]
  /\ watcher' = [watcher EXCEPT ![i] = "stopping"]
  /\ UNCHANGED <<entry, leases, host, reported, handling, sweeping, down, deleted>>

LossTold(i) == [state EXCEPT ![i] = IF @ = "running" THEN "lost" ELSE @]

\* The channel closed with nothing to read.
WatchLost(i) ==
  /\ watcher[i] = "watching" /\ ~ExitReadable(i) /\ host[i] = "gone"
  /\ state' = LossTold(i)
  /\ watcher' = [watcher EXCEPT ![i] = "stopping"]
  /\ UNCHANGED <<entry, leases, host, frame, reported, handling, sweeping, down, deleted>>

StopUnseen(i) == FALSE

\* The stop pipe closed and the host had nothing to say when poll returned; it
\* may have by now, to nobody's notice.
WatchStop(i) ==
  /\ watcher[i] = "watching" /\ Dropped(i)
  /\ watcher' = [watcher EXCEPT ![i] = "stopping"]
  /\ UNCHANGED <<entry, leases, state, host, frame, reported, handling, sweeping,
                 down, deleted>>

\* poll itself fails: the watcher stops the host and leaves the state alone.
WatchFails(i) ==
  /\ watcher[i] = "watching"
  /\ watcher' = [watcher EXCEPT ![i] = "givingUp"]
  /\ UNCHANGED <<entry, leases, state, host, frame, reported, handling, sweeping,
                 down, deleted>>

\* stop or kill has returned: the host is gone and the thread ends.
WatchEnds(i) ==
  /\ \/ watcher[i] = "stopping" /\ watcher' = [watcher EXCEPT ![i] = "ended"]
     \/ watcher[i] = "givingUp" /\ watcher' = [watcher EXCEPT ![i] = "gaveUp"]
  /\ host' = [host EXCEPT ![i] = "gone"]
  /\ UNCHANGED <<entry, leases, state, frame, reported, handling, sweeping, down, deleted>>

\* Host::tick: the guest has exited; the host reports its status and ends.
GuestExits(i) ==
  /\ host[i] = "up" /\ host' = [host EXCEPT ![i] = "gone"]
  /\ frame' = [frame EXCEPT ![i] = TRUE] /\ reported' = [reported EXCEPT ![i] = TRUE]
  /\ UNCHANGED <<entry, leases, state, watcher, handling, sweeping, down, deleted>>

\* The host is killed: by its template's death, or from outside.
HostDies(i) ==
  /\ host[i] = "up" /\ host' = [host EXCEPT ![i] = "gone"]
  /\ UNCHANGED <<entry, leases, state, watcher, frame, reported, handling, sweeping,
                 down, deleted>>

Less(t) == [i \in Ids |-> IF t[i] > 0 THEN t[i] - 1 ELSE 0]

Tick ==
  /\ lease' = Less(lease) /\ due' = Less(due)
  /\ UNCHANGED <<entry, ttl, watching, handling, sweeping, down, deleted>>

-----------------------------------------------------------------------------
Handler(h) == Describe(h) \/ RenewCheck(h) \/ Renew(h) \/ Renewed(h)

Sweep == SweepCheck \/ SweepRemove \/ SweepDrop

Watch(i) == WatchExited(i) \/ WatchLost(i) \/ WatchStop(i) \/ WatchEnds(i)

Next ==
  \/ \E i \in Ids : Adopt(i) \/ Insert(i) \/ Delete(i) \/ Watch(i) \/ WatchFails(i)
                    \/ GuestExits(i) \/ HostDies(i)
  \/ \E h \in Handlers : Handler(h) \/ \E i \in Ids : Get(h, i)
  \/ Sweep \/ Shutdown \/ Tick

Spec == Init /\ [][Next]_vars

\* Watchers are threads and handlers tasks of a running executor; the sweep
\* runs every second and time passes.  A request that has been accepted is
\* carried through; nothing obliges a client to make one.
FairSpec ==
  /\ Spec /\ WF_vars(Tick) /\ WF_vars(Sweep)
  /\ \A h \in Handlers : WF_vars(Handler(h))
  /\ \A i \in Ids : WF_vars(Watch(i)) /\ WF_vars(Insert(i))

-----------------------------------------------------------------------------
(* Properties.                                                               *)

\* What the API says of an instance is what became of it.  While it is running, its
\* watcher is watching (or gave up because poll failed): no path of watch ends without
\* the state being told, so a host's death always becomes visible.  And a guest that
\* exited is never described as having lost its status, in whatever order the exit,
\* the host's end, a deletion and the sweep happen.
ExitsTold ==
  \A i \in Ids :
    /\ entry[i] = "held" /\ state[i] = "running" => watcher[i] \in {"watching", "givingUp", "gaveUp"}
    /\ reported[i] => state[i] # "lost"

\* A sweep only picks instances whose promised time has run out: what a
\* client was told when it created or renewed the instance is honoured up to
\* the moment the sweep looks.
SweepsOnlyLapsed == [][\A i \in expired' \ expired : due[i] = 0]_vars

\* "Restart an instance's TTL so it lives on": an instance stays registered
\* for the time a client was last told, unless deleted or shut down.
\* The code does not keep to this: README, section 4.
RenewedLivesOn ==
  \A i \in Ids : due[i] > 0 /\ ~deleted[i] /\ ~down => entry[i] = "held"

\* What is not used goes.  An entry nobody refers to takes its host with it
\* ("Dropping a registry entry closes the stop pipe and the watcher shuts its
\* host down"), and an instance that is no longer renewed leaves the registry.
UnusedGoes ==
  \A i \in Ids :
    /\ [](Dropped(i) => <>(host[i] = "gone"))
    /\ <>[](\A h \in Handlers : at[h] # i) => <>[](entry[i] # "held")

=============================================================================
