------------------------------ MODULE HostLoop ------------------------------
(***************************************************************************)
(* A host process and the clones forked off it, each a control loop        *)
(* (Host::serve) driven over its own channel by a HostProcess of the       *)
(* manager: prepare, start, initialize, freeze, fork, stop; the guest and  *)
(* its runs ending at any moment, processes crashing, the manager dying.   *)
(*                                                                         *)
(* A channel towards the manager holds at most one answer, the exits of    *)
(* clones, and last the exit of the guest, after which the host ends.  A   *)
(* HostProcess waits for the answer to what it sent, so a channel towards  *)
(* a host holds at most one request.                                       *)
(***************************************************************************)
CONSTANTS
  Hosts,   \* processes: the one the manager spawns and its clones
  Base,    \* the one the manager spawns
  Manifests, \* what services may declare of "prepare", "probe", "initializer"
  None     \* no request, answer or parent

ASSUME HostAssumption == Base \in Hosts /\ None \notin Hosts
ASSUME ManifestAssumption == Manifests \subseteq SUBSET {"prepare", "probe", "initializer"}

VARIABLES
  manifest,  \* what the service declares
  manager,   \* "up" or "dead"
  phase,     \* Phase, or "unborn" or "gone"
  at,        \* where the control loop is
  guest,     \* "none", "running", "listening" or "exited"
  run,       \* the prepare or initializer run: "none", "running" or "ended"
  probe,     \* the readiness probe: "none", "running", "ok" or "failed"
  pipe,      \* events in the event pipe, which clones inherit
  scan,      \* hosts with a zero-page scan under way
  parent,    \* the template each clone was forked off
  bound,     \* clones that die with their parent
  reaped,    \* clones their template has reaped
  mgr,       \* what each HostProcess is doing: "absent", "idle", a request it
             \* waits for, "newborn" (the announcement) or "closed"
  request,   \* the request on its way
  answer,    \* the answer on its way
  exits,     \* exits of clones on their way to the template's HostProcess
  told       \* hosts whose guest's exit is on its way

loop == <<phase, at>>
runs == <<guest, run, probe>>
family == <<parent, bound>>
chan == <<request, answer, exits, told>>
vars == <<manifest, manager, phase, at, guest, run, probe, pipe, scan, parent, bound, reaped,
          mgr, request, answer, exits, told>>

Requests == {"prepare", "start", "initialize", "freeze", "fork"}
Answers == {"exited", "ready", "frozen", "forked", "guest_exited", "error"}
Phases == {"fresh", "prepared", "starting", "ready", "frozen"}
Busy == {"handle", "prepare", "start", "initialize"}

ASSUME NoneAssumption == None \notin Requests \cup Answers \cup {"absent", "newborn", "stop"}

TypeOK ==
  /\ manifest \in Manifests
  /\ manager \in {"up", "dead"}
  /\ phase \in [Hosts -> Phases \cup {"unborn", "gone"}]
  /\ at \in [Hosts -> Busy \cup {"serve", "rebuild", "revive"}]
  /\ guest \in [Hosts -> {"none", "running", "listening", "exited"}]
  /\ run \in [Hosts -> {"none", "running", "ended"}]
  /\ probe \in [Hosts -> {"none", "running", "ok", "failed"}]
  /\ pipe \subseteq {"listening", "run_ended", "probed"}
  /\ scan \subseteq Hosts /\ bound \subseteq Hosts /\ reaped \subseteq Hosts
  /\ parent \in [Hosts -> Hosts \cup {None}]
  /\ mgr \in [Hosts -> Requests \cup {"absent", "idle", "newborn", "stop", "closed"}]
  /\ request \in [Hosts -> Requests \cup {"stop", None}]
  /\ answer \in [Hosts -> Answers \cup {None}]
  /\ exits \in [Hosts -> SUBSET Hosts]
  /\ told \subseteq Hosts

\* HostProcess::spawn has run for the base.
Init ==
  /\ manifest \in Manifests
  /\ manager = "up"
  /\ phase = [h \in Hosts |-> IF h = Base THEN "fresh" ELSE "unborn"]
  /\ at = [h \in Hosts |-> "serve"]
  /\ guest = [h \in Hosts |-> "none"]
  /\ run = [h \in Hosts |-> "none"]
  /\ probe = [h \in Hosts |-> "none"]
  /\ pipe = {} /\ scan = {} /\ bound = {} /\ reaped = {}
  /\ parent = [h \in Hosts |-> None]
  /\ mgr = [h \in Hosts |-> IF h = Base THEN "idle" ELSE "absent"]
  /\ request = [h \in Hosts |-> None]
  /\ answer = [h \in Hosts |-> None]
  /\ exits = [h \in Hosts |-> {}]
  /\ told = {}

Up(h) == phase[h] \in Phases
Children(h) == {c \in Hosts : parent[c] = h}

-----------------------------------------------------------------------------
(* The manager's HostProcess.                                                *)

\* HostProcess::request sends; fork holds on to the template until its newborn
\* has announced itself.
Send(h, r) ==
  /\ mgr[h] = "idle" /\ Up(h) /\ \A c \in Children(h) : mgr[c] # "newborn"
  /\ r = "fork" => \E c \in Hosts : phase[c] = "unborn"
  /\ mgr' = [mgr EXCEPT ![h] = r]
  /\ request' = [request EXCEPT ![h] = r]
  /\ UNCHANGED <<manifest, manager, loop, runs, pipe, scan, family, reaped, answer, exits, told>>

Newborn(h) == {c \in Children(h) : mgr[c] = "absent"}

\* HostProcess::reply returns: with the answer, or in error on "error" and on
\* the guest's exit.  A fork's answer starts the wait for the announcement; a
\* clone that does not announce itself is dropped.
ReadAnswer(h) ==
  /\ answer[h] # None /\ mgr[h] \in Requests \cup {"newborn"}
  /\ answer' = [answer EXCEPT ![h] = None]
  /\ mgr' = [c \in Hosts |->
               IF c = h THEN IF mgr[h] = "newborn" /\ answer[h] # "forked" THEN "closed" ELSE "idle"
               ELSE IF c \in Newborn(h) THEN IF answer[h] = "forked" THEN "newborn" ELSE "closed"
               ELSE mgr[c]]
  /\ UNCHANGED <<manifest, manager, loop, runs, pipe, scan, family, reaped, request, exits, told>>

\* The channel is at its end once every copy of the host's end is closed: a
\* newborn keeps its template's until it has its own.
Eof(h) ==
  /\ phase[h] = "gone" /\ answer[h] = None
  /\ \A c \in Children(h) : Up(c) => at[c] \notin {"rebuild", "revive"}

\* reply fails on the guest's exit or at the end of the channel.
ReadEnd(h) ==
  /\ mgr[h] \in Requests \cup {"newborn"} /\ answer[h] = None
  /\ \/ h \in told /\ told' = told \ {h}
     \/ h \notin told /\ Eof(h) /\ UNCHANGED told
  /\ mgr' = [c \in Hosts |->
               IF c = h THEN IF mgr[h] = "newborn" THEN "closed" ELSE "idle"
               ELSE IF c \in Newborn(h) THEN "closed" ELSE mgr[c]]
  /\ UNCHANGED <<manifest, manager, loop, runs, pipe, scan, family, reaped, request, answer, exits>>

\* An unsolicited frame: kept by reply, returned by read_event.
ReadEvent(h) ==
  /\ \/ \E c \in exits[h] : /\ mgr[h] \in Requests \cup {"idle"}
                            /\ exits' = [exits EXCEPT ![h] = @ \ {c}] /\ UNCHANGED told
     \/ /\ mgr[h] = "idle" /\ h \in told /\ told' = told \ {h} /\ UNCHANGED exits
  /\ UNCHANGED <<manifest, manager, loop, runs, pipe, scan, family, reaped, mgr, request, answer>>

\* HostProcess::stop, then wait_gone.
Stop(h) ==
  /\ mgr[h] = "idle" /\ Up(h) /\ \A c \in Children(h) : mgr[c] # "newborn"
  /\ mgr' = [mgr EXCEPT ![h] = "stop"]
  /\ request' = [request EXCEPT ![h] = "stop"]
  /\ UNCHANGED <<manifest, manager, loop, runs, pipe, scan, family, reaped, answer, exits, told>>

Stopped(h) ==
  /\ mgr[h] = "stop" /\ phase[h] = "gone" /\ mgr' = [mgr EXCEPT ![h] = "closed"]
  /\ UNCHANGED <<manifest, manager, loop, runs, pipe, scan, family, reaped, chan>>

\* A HostProcess is dropped.
Drop(h) ==
  /\ mgr[h] = "idle" /\ \A c \in Children(h) : mgr[c] # "newborn"
  /\ mgr' = [mgr EXCEPT ![h] = "closed"]
  /\ UNCHANGED <<manifest, manager, loop, runs, pipe, scan, family, reaped, chan>>

ManagerDies ==
  /\ manager = "up" /\ manager' = "dead"
  /\ mgr' = [h \in Hosts |-> "closed"]
  /\ UNCHANGED <<manifest, loop, runs, pipe, scan, family, reaped, chan>>

-----------------------------------------------------------------------------
(* The control loop.                                                         *)

Closed(h) == mgr[h] = "closed"

\* The process ends, wherever it was; what it sent stays in the channel.
End(h) == phase' = [phase EXCEPT ![h] = "gone"] /\ at' = [at EXCEPT ![h] = "serve"]

\* Back to serve with an answer.  (A send that fails because the manager is
\* gone ends the host, as the end of the channel does at the next poll.)
Reply(h, a) == answer' = [answer EXCEPT ![h] = a] /\ at' = [at EXCEPT ![h] = "serve"]

Dead(h) == {c \in Children(h) : phase[c] = "gone"} \ reaped

TickGoesOn(h) ==
  /\ phase[h] # "frozen" /\ guest[h] = "exited"
  /\ told' = told \cup {h} /\ UNCHANGED <<loop, exits, reaped>>

\* tick: drains the event pipe, then reports the guest's exit and ends, or
\* reaps the clones that are gone.  The rest happens only if the host goes on.
TickEnds(h) ==
  /\ phase[h] # "frozen" /\ guest[h] = "exited"
  /\ told' = told \cup {h} /\ End(h) /\ UNCHANGED <<exits, reaped>>

TickReaps(h) ==
  /\ phase[h] = "frozen" \/ guest[h] # "exited"
  /\ exits' = [exits EXCEPT ![h] = @ \cup Dead(h)] /\ reaped' = reaped \cup Dead(h)
  /\ UNCHANGED told

Readable(h) == request[h] # None \/ Closed(h)

\* One turn of serve up to the request: poll, tick, and a slice of the scan
\* when nothing is to be read.
Poll(h) ==
  /\ Up(h) /\ at[h] = "serve" /\ pipe' = {}
  /\ \/ TickEnds(h) /\ UNCHANGED scan
     \/ /\ TickReaps(h) /\ Readable(h)
        /\ at' = [at EXCEPT ![h] = "handle"] /\ UNCHANGED <<phase, scan>>
     \/ /\ TickReaps(h) /\ ~Readable(h) /\ UNCHANGED loop
        /\ \/ scan' = scan \ {h}
           \/ UNCHANGED scan
  /\ UNCHANGED <<manifest, manager, runs, family, mgr, request, answer>>

\* The manager is gone, or asks to stop.
HandleEnd(h) ==
  /\ Up(h) /\ at[h] = "handle" /\ request[h] \in {None, "stop"} /\ End(h)
  /\ request' = [request EXCEPT ![h] = None]
  /\ UNCHANGED <<manifest, manager, runs, pipe, scan, family, reaped, mgr, answer, exits, told>>

Handles(h, r) ==
  /\ Up(h) /\ at[h] = "handle" /\ request[h] = r
  /\ request' = [request EXCEPT ![h] = None]
  /\ UNCHANGED <<manifest, manager, mgr, exits, told, reaped>>

Ignore(h) ==
  /\ at' = [at EXCEPT ![h] = "serve"] /\ UNCHANGED <<phase, runs, pipe, scan, family, answer>>

Refuse(h) == Reply(h, "error") /\ UNCHANGED <<phase, runs, pipe, scan, family>>

\* Prepare and Initialize spawn a run and wait for it.
BeginRun(h) ==
  /\ run' = [run EXCEPT ![h] = "running"] /\ at' = [at EXCEPT ![h] = request[h]]
  /\ UNCHANGED <<phase, guest, probe, pipe, scan, family, answer>>

\* A service that declares no prepare is prepared.
NothingToPrepare(h) ==
  /\ phase' = [phase EXCEPT ![h] = "prepared"] /\ Reply(h, "exited")
  /\ UNCHANGED <<runs, pipe, scan, family>>

HandlePrepare(h) ==
  /\ Handles(h, "prepare")
  /\ \/ Refuse(h)    \* not fresh, or the module does not load
     \/ phase[h] = "fresh" /\ "prepare" \in manifest /\ BeginRun(h)
     \/ phase[h] = "fresh" /\ "prepare" \notin manifest /\ NothingToPrepare(h)

BeginStart(h) ==
  /\ phase' = [phase EXCEPT ![h] = "starting"] /\ at' = [at EXCEPT ![h] = "start"]
  /\ guest' = [guest EXCEPT ![h] = "running"]
  /\ UNCHANGED <<run, probe, pipe, scan, family, answer>>

HandleStart(h) ==
  /\ Handles(h, "start")
  /\ \/ Refuse(h)    \* already started, or the module does not load
     \/ phase[h] \in {"fresh", "prepared"} /\ BeginStart(h)

HandleInitialize(h) ==
  /\ Handles(h, "initialize")
  /\ \/ Refuse(h)    \* not ready, or the module does not load
     \/ phase[h] = "ready" /\ "initializer" \in manifest /\ BeginRun(h)

\* freeze is terminal: the host is a template or it ends.
Freezes(h) ==
  /\ phase' = [phase EXCEPT ![h] = "frozen"] /\ scan' = scan \cup {h} /\ Reply(h, "frozen")
  /\ UNCHANGED <<runs, pipe, family>>

FreezeFails(h) ==
  /\ phase' = [phase EXCEPT ![h] = "gone"] /\ Reply(h, "error")
  /\ UNCHANGED <<runs, pipe, scan, family>>

HandleFreeze(h) ==
  /\ Handles(h, "freeze")
  /\ \/ phase[h] # "ready" /\ Refuse(h)
     \/ phase[h] = "ready" /\ Freezes(h)
     \/ phase[h] = "ready" /\ FreezeFails(h)

\* fork(): the child is a copy of the template, with a channel of its own.
Forks(h, c) ==
  /\ phase' = [phase EXCEPT ![c] = "frozen"]
  /\ at' = [at EXCEPT ![h] = "serve", ![c] = "rebuild"]
  /\ guest' = [guest EXCEPT ![c] = guest[h]]
  /\ parent' = [parent EXCEPT ![c] = h]
  /\ scan' = IF h \in scan THEN scan \cup {c} ELSE scan
  /\ answer' = [answer EXCEPT ![h] = "forked"]
  /\ UNCHANGED <<run, probe, pipe, bound>>

HandleFork(h) ==
  /\ Handles(h, "fork")
  /\ \/ Refuse(h)    \* not frozen, or fork fails
     \/ phase[h] = "frozen" /\ \E c \in Hosts : phase[c] = "unborn" /\ Forks(h, c)

\* rebuild in the child: it asks to die with its parent, whichever that is by
\* now ...
Rebuild(c) ==
  /\ Up(c) /\ at[c] = "rebuild"
  /\ at' = [at EXCEPT ![c] = "revive"]
  /\ bound' = IF phase[parent[c]] = "gone" THEN bound ELSE bound \cup {c}
  /\ UNCHANGED <<manifest, manager, phase, runs, pipe, scan, parent, reaped, mgr, chan>>

ScanDropped(c) == scan \ {c}

\* ... and resumes the guest and announces itself, or fails and ends.
Revive(c) ==
  /\ Up(c) /\ at[c] = "revive"
  /\ \/ /\ phase' = [phase EXCEPT ![c] = "ready"] /\ Reply(c, "forked")
        /\ scan' = ScanDropped(c)
     \/ /\ phase' = [phase EXCEPT ![c] = "gone"] /\ Reply(c, "error") /\ UNCHANGED scan
  /\ UNCHANGED <<manifest, manager, runs, pipe, family, reaped, mgr, request, exits, told>>

\* wait_run: until the run has ended, tick, and read the channel, on which only
\* the manager's end can arrive.
RunDone(h) ==
  /\ Up(h) /\ at[h] \in {"prepare", "initialize"} /\ run[h] = "ended"
  /\ run' = [run EXCEPT ![h] = "none"] /\ Reply(h, "exited")
  /\ phase' = IF at[h] = "prepare" THEN [phase EXCEPT ![h] = "prepared"] ELSE phase
  /\ UNCHANGED <<manifest, manager, guest, probe, pipe, scan, family, reaped, mgr, request, exits,
                 told>>

WaitRun(h) ==
  /\ Up(h) /\ at[h] \in {"prepare", "initialize"} /\ run[h] # "ended" /\ pipe' = {}
  /\ \/ TickEnds(h)
     \/ TickReaps(h) /\ Closed(h) /\ End(h)
  /\ UNCHANGED <<manifest, manager, runs, scan, family, mgr, request, answer>>

EventsLost == pipe \ {"listening"}

\* What a turn of the wait in start finds in the event pipe.
Drained == pipe

\* start: listening is readiness, or starts the probe that decides it.
StartReady(h) ==
  /\ \/ "listening" \in Drained /\ "probe" \notin manifest
     \/ "probed" \in Drained /\ probe[h] = "ok"
  /\ phase' = [phase EXCEPT ![h] = "ready"] /\ Reply(h, "ready") /\ UNCHANGED probe

StartProbe(h) ==
  /\ "listening" \in Drained /\ "probe" \in manifest /\ probe[h] = "none"
  /\ guest[h] # "exited" /\ ~Closed(h)
  /\ probe' = [probe EXCEPT ![h] = "running"] /\ UNCHANGED <<loop, answer>>

\* The probe could not start, or ran into its deadline.
StartFails(h) ==
  /\ "probe" \in manifest
  /\ \/ "listening" \in Drained /\ probe[h] = "none"
     \/ "probed" \in Drained /\ probe[h] = "failed"
  /\ Reply(h, "error") /\ UNCHANGED <<phase, probe>>

\* No outcome yet, and the guest has exited or the manager is gone.
Undecided(h) ==
  /\ "listening" \in Drained => "probe" \in manifest
  /\ "probed" \notin Drained

StartExited(h) ==
  /\ Undecided(h) /\ guest[h] = "exited"
  /\ Reply(h, "guest_exited") /\ UNCHANGED <<phase, probe>>

StartClosed(h) ==
  /\ Undecided(h) /\ guest[h] # "exited" /\ Closed(h) /\ End(h) /\ UNCHANGED <<probe, answer>>

WaitStart(h) ==
  /\ Up(h) /\ at[h] = "start" /\ pipe' = {}
  /\ \/ StartReady(h) \/ StartProbe(h) \/ StartFails(h) \/ StartExited(h) \/ StartClosed(h)
  /\ UNCHANGED <<manifest, manager, guest, run, scan, family, reaped, mgr, request, exits, told>>

Step(h) ==
  \/ Poll(h) \/ HandleEnd(h) \/ HandlePrepare(h) \/ HandleStart(h) \/ HandleInitialize(h)
  \/ HandleFreeze(h) \/ HandleFork(h) \/ Rebuild(h) \/ Revive(h)
  \/ RunDone(h) \/ WaitRun(h) \/ WaitStart(h)

-----------------------------------------------------------------------------
(* The guest's threads, its runs, the probe's thread, and the kernel.        *)

\* A guest runs between start and the freeze, and again in a clone.
Runs(h) == phase[h] \in {"starting", "ready"} /\ guest[h] \in {"running", "listening"}

Elsewhere == <<manifest, manager, loop, scan, family, reaped, mgr, chan>>

GuestListens(h) ==
  /\ Runs(h) /\ guest[h] = "running"
  /\ guest' = [guest EXCEPT ![h] = "listening"] /\ pipe' = pipe \cup {"listening"}
  /\ UNCHANGED <<Elsewhere, run, probe>>

GuestExits(h) ==
  /\ Runs(h) /\ guest' = [guest EXCEPT ![h] = "exited"]
  /\ pipe' = pipe \cup {"run_ended"} /\ UNCHANGED <<Elsewhere, run, probe>>

RunEnds(h) ==
  /\ Up(h) /\ run[h] = "running" /\ run' = [run EXCEPT ![h] = "ended"]
  /\ pipe' = pipe \cup {"run_ended"} /\ UNCHANGED <<Elsewhere, guest, probe>>

ProbeEnds(h) ==
  /\ Up(h) /\ probe[h] = "running"
  /\ \E outcome \in {"ok", "failed"} : probe' = [probe EXCEPT ![h] = outcome]
  /\ pipe' = pipe \cup {"probed"} /\ UNCHANGED <<Elsewhere, guest, run>>

Crash(h) ==
  /\ Up(h) /\ End(h)
  /\ UNCHANGED <<manifest, manager, runs, pipe, scan, family, reaped, mgr, chan>>

\* The parent-death signal.
Orphaned(h) == IF h = Base THEN manager = "dead" ELSE h \in bound /\ phase[parent[h]] = "gone"

DieWithParent(h) ==
  /\ Up(h) /\ Orphaned(h) /\ End(h)
  /\ UNCHANGED <<manifest, manager, runs, pipe, scan, family, reaped, mgr, chan>>

Environment(h) ==
  \/ GuestListens(h) \/ GuestExits(h) \/ RunEnds(h) \/ ProbeEnds(h) \/ Crash(h)
  \/ DieWithParent(h)

Read(h) == ReadAnswer(h) \/ ReadEnd(h) \/ ReadEvent(h)

Drive(h) == (\E r \in Requests : Send(h, r)) \/ Stop(h) \/ Stopped(h) \/ Drop(h)

Next == ManagerDies \/ \E h \in Hosts : Step(h) \/ Environment(h) \/ Read(h) \/ Drive(h)

Spec == Init /\ [][Next]_vars

\* Control loops run, a HostProcess reads what it waits for, the probe has a
\* deadline, and the kernel delivers the parent-death signal.  Nothing is
\* assumed of guests, of their runs, or of when the manager sends anything.
FairSpec ==
  /\ Spec
  /\ \A h \in Hosts : /\ WF_vars(Step(h)) /\ WF_vars(ReadAnswer(h) \/ ReadEnd(h))
                       /\ WF_vars(ProbeEnds(h)) /\ WF_vars(DieWithParent(h))

-----------------------------------------------------------------------------
(* Properties.                                                               *)

AnswersTo(r) ==
  CASE r \in {"prepare", "initialize"} -> {"exited", "error"}
    [] r = "start" -> {"ready", "guest_exited", "error"}
    [] r = "freeze" -> {"frozen", "error"}
    [] r \in {"fork", "newborn", "absent"} -> {"forked", "error"}
    [] OTHER -> {}

\* "Replies pair with requests by order and carry no id": the answer in a
\* channel is one to the request its HostProcess waits for.
AnswerPairs == \A h \in Hosts : answer[h] # None /\ ~Closed(h) => answer[h] \in AnswersTo(mgr[h])

\* How far what a HostProcess waits for has come.
Progress(h) ==
  {s \in {"sent", "working", "answered"} :
     \/ s = "sent" /\ request[h] # None
     \/ s = "working" /\ at[h] \notin {"serve", "handle"}
     \/ s = "answered" /\ answer[h] # None}

\* "A host answers every request with exactly one reply": what a HostProcess
\* waits for is on its way, being worked on, or answered, as long as the host
\* lives; nothing is when it does not wait.
ExactlyOneReply ==
  \A h \in Hosts : Up(h) =>
    /\ mgr[h] = "idle" => Progress(h) = {}
    /\ mgr[h] \in Requests \cup {"newborn"} => \E s \in Progress(h) : Progress(h) = {s}

\* "The guest is drained, which the scan requires": a slice of the zero-page
\* scan never runs in a process whose guest does.
ScansFrozenOnly == \A h \in scan : Up(h) /\ at[h] = "serve" => phase[h] = "frozen"

\* "Freeze is only accepted while the guest is ready": a template's guest can
\* serve once it is forked.
\* The code does not keep to this: README, section 4.
FreezesLiveGuest == \A h \in Hosts : phase[h] = "frozen" => guest[h] # "exited"

\* A host whose guest has exited ends, a clone of a template frozen with such a guest
\* included; so does one the manager has let go, whatever either was doing, and a clone
\* whose template is gone, once it has asked for the parent-death signal in time.
HostEnds ==
  \A h \in Hosts :
    /\ (guest[h] = "exited" /\ phase[h] \in {"starting", "ready"}) ~> (phase[h] \in {"gone", "frozen"})
    /\ (Closed(h) /\ Up(h)) ~> ~Up(h)
    /\ (h \in bound /\ phase[parent[h]] = "gone") ~> ~Up(h)

\* No wait is for ever.  A HostProcess gets its freeze, its fork, its clone's
\* announcement, or the end of a run that has ended; start sees its guest
\* listen, although the event is one byte in a pipe that every wait drains.
WaitsEnd ==
  \A h \in Hosts :
    (\/ mgr[h] \in {"freeze", "fork", "newborn"}
     \/ mgr[h] \in {"prepare", "initialize"} /\ run[h] = "ended"
     \/ mgr[h] = "start" /\ guest[h] = "listening") ~> (mgr[h] \in {"idle", "closed"})

\* "Clones die with their template."
\* The code does not keep to this: README, section 4.
ClonesDieWithTemplate ==
  \A c, h \in Hosts : (parent[c] = h /\ phase[h] = "gone") ~> (phase[c] = "gone")

=============================================================================
