--------------------------- MODULE HostLoopProofs ---------------------------
(***************************************************************************)
(* The pairing of requests and replies, proved for any number of hosts and  *)
(* any service: each channel goes through sent, working and answered, in    *)
(* that order, whatever guests, crashes and the manager do.  And the byte   *)
(* strings in which a manifest and a host's report give a probe's bytes.    *)
(***************************************************************************)
EXTENDS HostLoop, Notation, WellFoundedInduction, SequenceTheorems, TLAPS

Waits == Requests \cup {"newborn", "absent"}

\* Where a request, or a clone's announcement, is worked on outside a handler.
Work(r) == IF r \in {"newborn", "absent"} THEN {"rebuild", "revive"}
           ELSE {r} \cap {"prepare", "start", "initialize"}

Sent(h) == request[h] = mgr[h] /\ answer[h] = None /\ at[h] \in {"serve", "handle"}
Working(h) == request[h] = None /\ answer[h] = None /\ at[h] \in Work(mgr[h])
Answered(h) == request[h] = None /\ answer[h] \in AnswersTo(mgr[h]) /\ at[h] = "serve"
Quiet(h) == request[h] = None /\ answer[h] = None /\ at[h] = "serve"

\* What the channel and the loop of a living host look like, by what its
\* HostProcess waits for.
Stage(h) ==
  /\ mgr[h] = "idle" => Quiet(h)
  /\ mgr[h] = "stop" => answer[h] = None /\ request[h] \in {"stop", None} /\ at[h] \in {"serve", "handle"}
  /\ mgr[h] \in Waits => Sent(h) \/ Working(h) \/ Answered(h)

\* A scan has frozen memory, and each wait has its phase.
Phased(h) ==
  /\ h \in scan => phase[h] = "frozen"
  /\ at[h] = "prepare" => phase[h] = "fresh"
  /\ at[h] = "start" => phase[h] = "starting"
  /\ at[h] = "initialize" => phase[h] = "ready"
  /\ at[h] \in {"rebuild", "revive"} => phase[h] = "frozen"

Unborn(h) ==
  Quiet(h) /\ mgr[h] \in {"absent", "closed"} /\ h \notin scan /\ parent[h] = None

Local(h) ==
  /\ Up(h) => Stage(h) /\ Phased(h)
  /\ phase[h] = "unborn" => Unborn(h)
  /\ h \in told => phase[h] = "gone"
  /\ answer[h] # None /\ ~Closed(h) => answer[h] \in AnswersTo(mgr[h])

Inv == TypeOK /\ \A h \in Hosts : Local(h)

-----------------------------------------------------------------------------
\* Initially nothing is on its way.
LEMMA InitInv == Init => Inv
  BY HostAssumption
  DEF Init, Inv, Local, TypeOK, Phased, Unborn, Up, Stage, Quiet, Waits, Requests,
      Phases, Busy, Answers, Closed

\* Every step keeps the types.
LEMMA NextType == TypeOK /\ [Next]_vars => TypeOK'
<1> SUFFICES ASSUME TypeOK, [Next]_vars PROVE TypeOK'
  OBVIOUS
<1> USE HostAssumption
    DEF TypeOK, Requests, Answers, Phases, Busy, loop, runs, family, chan, Up, End, Reply
<1>1. CASE ManagerDies
  BY <1>1 DEF ManagerDies
<1>2. ASSUME NEW h \in Hosts, Step(h) PROVE TypeOK'
  <2>1. CASE Poll(h)
    BY <2>1 DEF Poll, TickEnds, TickReaps, Dead, Children
  <2>2. CASE HandleEnd(h)
    BY <2>2 DEF HandleEnd
  <2>3. CASE HandlePrepare(h)
    <3>1. CASE Refuse(h)
      BY <2>3, <3>1 DEF HandlePrepare, Handles, Refuse
    <3>2. CASE BeginRun(h)
      BY <2>3, <3>2 DEF HandlePrepare, Handles, BeginRun
    <3>3. CASE NothingToPrepare(h)
      BY <2>3, <3>3 DEF HandlePrepare, Handles, NothingToPrepare
    <3> QED
      BY <2>3, <3>1, <3>2, <3>3 DEF HandlePrepare
  <2>4. CASE HandleStart(h)
    <3>1. CASE Refuse(h)
      BY <2>4, <3>1 DEF HandleStart, Handles, Refuse
    <3>2. CASE BeginStart(h)
      BY <2>4, <3>2 DEF HandleStart, Handles, BeginStart
    <3> QED
      BY <2>4, <3>1, <3>2 DEF HandleStart
  <2>5. CASE HandleInitialize(h)
    <3>1. CASE Refuse(h)
      BY <2>5, <3>1 DEF HandleInitialize, Handles, Refuse
    <3>2. CASE BeginRun(h)
      BY <2>5, <3>2 DEF HandleInitialize, Handles, BeginRun
    <3> QED
      BY <2>5, <3>1, <3>2 DEF HandleInitialize
  <2>6. CASE HandleFreeze(h)
    <3>1. CASE Refuse(h)
      BY <2>6, <3>1 DEF HandleFreeze, Handles, Refuse
    <3>2. CASE Freezes(h)
      BY <2>6, <3>2 DEF HandleFreeze, Handles, Freezes
    <3>3. CASE FreezeFails(h)
      BY <2>6, <3>3 DEF HandleFreeze, Handles, FreezeFails
    <3> QED
      BY <2>6, <3>1, <3>2, <3>3 DEF HandleFreeze
  <2>7. CASE HandleFork(h)
    <3>1. CASE Refuse(h)
      BY <2>7, <3>1 DEF HandleFork, Handles, Refuse
    <3>2. ASSUME NEW c \in Hosts, Forks(h, c) PROVE TypeOK'
      BY <2>7, <3>2 DEF HandleFork, Handles, Forks
    <3> QED
      BY <2>7, <3>1, <3>2 DEF HandleFork
  <2>8. CASE Rebuild(h)
    BY <2>8 DEF Rebuild
  <2>9. CASE Revive(h)
    BY <2>9 DEF Revive, ScanDropped
  <2>10. CASE RunDone(h)
    BY <2>10 DEF RunDone
  <2>11. CASE WaitRun(h)
    BY <2>11 DEF WaitRun, TickEnds, TickReaps, Dead, Children
  <2>12. CASE WaitStart(h)
    BY <2>12 DEF WaitStart, StartReady, StartProbe, StartFails, StartExited, StartClosed
  <2> QED
    BY <1>2, <2>1, <2>2, <2>3, <2>4, <2>5, <2>6, <2>7, <2>8, <2>9, <2>10, <2>11, <2>12 DEF Step
<1>3. ASSUME NEW h \in Hosts, Environment(h) PROVE TypeOK'
  <2>1. CASE GuestListens(h)
    BY <2>1 DEF GuestListens, Elsewhere
  <2>2. CASE GuestExits(h)
    BY <2>2 DEF GuestExits, Elsewhere
  <2>3. CASE RunEnds(h)
    BY <2>3 DEF RunEnds, Elsewhere
  <2>4. CASE ProbeEnds(h)
    BY <2>4 DEF ProbeEnds, Elsewhere
  <2>5. CASE Crash(h)
    BY <2>5 DEF Crash
  <2>6. CASE DieWithParent(h)
    BY <2>6 DEF DieWithParent
  <2> QED
    BY <1>3, <2>1, <2>2, <2>3, <2>4, <2>5, <2>6 DEF Environment
<1>4. ASSUME NEW h \in Hosts, Read(h) PROVE TypeOK'
  <2>1. CASE ReadAnswer(h)
    BY <2>1 DEF ReadAnswer
  <2>2. CASE ReadEnd(h)
    BY <2>2 DEF ReadEnd
  <2>3. CASE ReadEvent(h)
    BY <2>3 DEF ReadEvent
  <2> QED
    BY <1>4, <2>1, <2>2, <2>3 DEF Read
<1>5. ASSUME NEW h \in Hosts, Drive(h) PROVE TypeOK'
  <2>1. ASSUME NEW r \in Requests, Send(h, r) PROVE TypeOK'
    BY <2>1 DEF Send
  <2>2. CASE Stop(h)
    BY <2>2 DEF Stop
  <2>3. CASE Stopped(h)
    BY <2>3 DEF Stopped
  <2>4. CASE Drop(h)
    BY <2>4 DEF Drop
  <2> QED
    BY <1>5, <2>1, <2>2, <2>3, <2>4 DEF Drive
<1>6. CASE UNCHANGED vars
  BY <1>6 DEF vars
<1> QED
  BY <1>1, <1>2, <1>3, <1>4, <1>5, <1>6 DEF Next

-----------------------------------------------------------------------------
\* What Local depends on, left alone.
Same(k) ==
  /\ phase'[k] = phase[k] /\ at'[k] = at[k] /\ request'[k] = request[k]
  /\ answer'[k] = answer[k] /\ mgr'[k] = mgr[k] /\ parent'[k] = parent[k]
  /\ k \in scan' => k \in scan
  /\ k \in told' => k \in told

\* A step that leaves a host and its channel alone keeps what holds of them.
LEMMA SameLocal ==
  ASSUME NEW k \in Hosts, Local(k), Same(k) PROVE Local(k)'
  BY DEF Same, Local, Up, Stage, Phased, Unborn, Quiet, Sent, Working, Answered, Work, Waits, Closed

\* A request that is handled is the one its HostProcess waits for, unless that
\* has let go of the host, and nothing else is on its way.
LEMMA Handling ==
  ASSUME Inv, NEW h \in Hosts, NEW r \in Requests, Handles(h, r)
  PROVE  /\ mgr[h] = "closed" \/ (mgr[h] = r /\ answer[h] = None)
         /\ h \notin told
         /\ h \in scan => phase[h] = "frozen"
<1>1. Stage(h) /\ Phased(h) /\ h \notin told
  BY DEF Inv, Local, Handles, Up, Phases
<1>2. request[h] = r /\ request[h] # None /\ r # "stop" /\ at[h] = "handle"
  BY NoneAssumption DEF Handles, Requests
<1>3. mgr[h] \in Waits \cup {"idle", "stop", "closed"}
  BY DEF Inv, TypeOK, Waits, Requests
<1>4. mgr[h] \notin {"idle", "stop"}
  BY <1>1, <1>2 DEF Stage, Quiet
<1>5. mgr[h] \in Waits => mgr[h] = r /\ answer[h] = None
  BY <1>1, <1>2 DEF Stage, Sent, Working, Answered
<1> QED
  BY <1>1, <1>3, <1>4, <1>5 DEF Phased

\* Every step of a control loop keeps what holds of each host.
LEMMA StepLocal ==
  ASSUME Inv, NEW h \in Hosts, Step(h) PROVE \A k \in Hosts : Local(k)'
<1>t. TypeOK
  BY DEF Inv
<1>0. TypeOK /\ \A k \in Hosts : Local(k)
  BY DEF Inv
<1> USE HostAssumption, NoneAssumption
    DEF loop, runs, family, chan, End, Reply, Answers, Busy,
        Local, Up, Phases, Stage, Phased, Unborn, Quiet, Sent, Working, Answered, Work, Waits, Requests,
        AnswersTo, Closed
<1>1. CASE Poll(h)
  <2>1. ASSUME NEW k \in Hosts, k # h PROVE Same(k)
    BY <1>0, <1>1, <2>1 DEF TypeOK, Same, Poll, TickEnds, TickReaps, Readable
  <2>2. Local(h)'
    BY <1>0, <1>1 DEF TypeOK, Poll, TickEnds, TickReaps, Readable
  <2> QED
    BY <1>0, <2>1, <2>2, SameLocal
<1>2. CASE HandleEnd(h)
  <2>1. ASSUME NEW k \in Hosts, k # h PROVE Same(k)
    BY <1>0, <1>2, <2>1 DEF TypeOK, Same, HandleEnd
  <2>2. Local(h)'
    BY <1>0, <1>2 DEF TypeOK, HandleEnd
  <2> QED
    BY <1>0, <2>1, <2>2, SameLocal
<1>3. CASE HandlePrepare(h)
  <2>0. /\ mgr[h] = "closed" \/ (mgr[h] = "prepare" /\ answer[h] = None)
        /\ h \notin told /\ (h \in scan => phase[h] = "frozen")
    BY <1>3, Handling DEF HandlePrepare, Requests
  <2>1. CASE Refuse(h)
    <3>1. ASSUME NEW k \in Hosts, k # h PROVE Same(k)
      BY <1>0, <1>3, <2>1, <3>1 DEF TypeOK, Same, HandlePrepare, Handles, Refuse
    <3>2. Local(h)'
      BY <1>t, <2>0, <1>3, <2>1 DEF TypeOK, HandlePrepare, Handles, Refuse
    <3> QED
      BY <1>0, <3>1, <3>2, SameLocal
  <2>2. CASE phase[h] = "fresh" /\ BeginRun(h)
    <3>1. ASSUME NEW k \in Hosts, k # h PROVE Same(k)
      BY <1>0, <1>3, <2>2, <3>1 DEF TypeOK, Same, HandlePrepare, Handles, BeginRun
    <3>2. Local(h)'
      BY <1>t, <2>0, <1>3, <2>2 DEF TypeOK, HandlePrepare, Handles, BeginRun
    <3> QED
      BY <1>0, <3>1, <3>2, SameLocal
  <2>3. CASE phase[h] = "fresh" /\ NothingToPrepare(h)
    <3>1. ASSUME NEW k \in Hosts, k # h PROVE Same(k)
      BY <1>0, <1>3, <2>3, <3>1 DEF TypeOK, Same, HandlePrepare, Handles, NothingToPrepare
    <3>2. Local(h)'
      BY <1>t, <2>0, <1>3, <2>3 DEF TypeOK, HandlePrepare, Handles, NothingToPrepare
    <3> QED
      BY <1>0, <3>1, <3>2, SameLocal
  <2> QED
    BY <1>3, <2>1, <2>2, <2>3 DEF HandlePrepare
<1>4. CASE HandleStart(h)
  <2>0. /\ mgr[h] = "closed" \/ (mgr[h] = "start" /\ answer[h] = None)
        /\ h \notin told /\ (h \in scan => phase[h] = "frozen")
    BY <1>4, Handling DEF HandleStart, Requests
  <2>1. CASE Refuse(h)
    <3>1. ASSUME NEW k \in Hosts, k # h PROVE Same(k)
      BY <1>0, <1>4, <2>1, <3>1 DEF TypeOK, Same, HandleStart, Handles, Refuse
    <3>2. Local(h)'
      BY <1>t, <2>0, <1>4, <2>1 DEF TypeOK, HandleStart, Handles, Refuse
    <3> QED
      BY <1>0, <3>1, <3>2, SameLocal
  <2>2. CASE phase[h] \in {"fresh", "prepared"} /\ BeginStart(h)
    <3>1. ASSUME NEW k \in Hosts, k # h PROVE Same(k)
      BY <1>0, <1>4, <2>2, <3>1 DEF TypeOK, Same, HandleStart, Handles, BeginStart
    <3>2. Local(h)'
      BY <1>t, <2>0, <1>4, <2>2 DEF TypeOK, HandleStart, Handles, BeginStart
    <3> QED
      BY <1>0, <3>1, <3>2, SameLocal
  <2> QED
    BY <1>4, <2>1, <2>2 DEF HandleStart
<1>5. CASE HandleInitialize(h)
  <2>0. /\ mgr[h] = "closed" \/ (mgr[h] = "initialize" /\ answer[h] = None)
        /\ h \notin told /\ (h \in scan => phase[h] = "frozen")
    BY <1>5, Handling DEF HandleInitialize, Requests
  <2>1. CASE Refuse(h)
    <3>1. ASSUME NEW k \in Hosts, k # h PROVE Same(k)
      BY <1>0, <1>5, <2>1, <3>1 DEF TypeOK, Same, HandleInitialize, Handles, Refuse
    <3>2. Local(h)'
      BY <1>t, <2>0, <1>5, <2>1 DEF TypeOK, HandleInitialize, Handles, Refuse
    <3> QED
      BY <1>0, <3>1, <3>2, SameLocal
  <2>2. CASE phase[h] = "ready" /\ BeginRun(h)
    <3>1. ASSUME NEW k \in Hosts, k # h PROVE Same(k)
      BY <1>0, <1>5, <2>2, <3>1 DEF TypeOK, Same, HandleInitialize, Handles, BeginRun
    <3>2. Local(h)'
      BY <1>t, <2>0, <1>5, <2>2 DEF TypeOK, HandleInitialize, Handles, BeginRun
    <3> QED
      BY <1>0, <3>1, <3>2, SameLocal
  <2> QED
    BY <1>5, <2>1, <2>2 DEF HandleInitialize
<1>6. CASE HandleFreeze(h)
  <2>0. /\ mgr[h] = "closed" \/ (mgr[h] = "freeze" /\ answer[h] = None)
        /\ h \notin told /\ (h \in scan => phase[h] = "frozen")
    BY <1>6, Handling DEF HandleFreeze, Requests
  <2>1. CASE Refuse(h)
    <3>1. ASSUME NEW k \in Hosts, k # h PROVE Same(k)
      BY <1>0, <1>6, <2>1, <3>1 DEF TypeOK, Same, HandleFreeze, Handles, Refuse
    <3>2. Local(h)'
      BY <1>t, <2>0, <1>6, <2>1 DEF TypeOK, HandleFreeze, Handles, Refuse
    <3> QED
      BY <1>0, <3>1, <3>2, SameLocal
  <2>2. CASE Freezes(h)
    <3>1. ASSUME NEW k \in Hosts, k # h PROVE Same(k)
      BY <1>0, <1>6, <2>2, <3>1 DEF TypeOK, Same, HandleFreeze, Handles, Freezes
    <3>2. Local(h)'
      BY <1>t, <2>0, <1>6, <2>2 DEF TypeOK, HandleFreeze, Handles, Freezes
    <3> QED
      BY <1>0, <3>1, <3>2, SameLocal
  <2>3. CASE FreezeFails(h)
    <3>1. ASSUME NEW k \in Hosts, k # h PROVE Same(k)
      BY <1>0, <1>6, <2>3, <3>1 DEF TypeOK, Same, HandleFreeze, Handles, FreezeFails
    <3>2. Local(h)'
      BY <1>t, <2>0, <1>6, <2>3 DEF TypeOK, HandleFreeze, Handles, FreezeFails
    <3> QED
      BY <1>0, <3>1, <3>2, SameLocal
  <2> QED
    BY <1>6, <2>1, <2>2, <2>3 DEF HandleFreeze
<1>7. CASE HandleFork(h)
  <2>0. /\ mgr[h] = "closed" \/ (mgr[h] = "fork" /\ answer[h] = None)
        /\ h \notin told /\ (h \in scan => phase[h] = "frozen")
    BY <1>7, Handling DEF HandleFork, Requests
  <2>1. CASE Refuse(h)
    <3>1. ASSUME NEW k \in Hosts, k # h PROVE Same(k)
      BY <1>0, <1>7, <2>1, <3>1 DEF TypeOK, Same, HandleFork, Handles, Refuse
    <3>2. Local(h)'
      BY <1>t, <2>0, <1>7, <2>1 DEF TypeOK, HandleFork, Handles, Refuse
    <3> QED
      BY <1>0, <3>1, <3>2, SameLocal
  <2>2. ASSUME NEW c \in Hosts, phase[h] = "frozen", phase[c] = "unborn", Forks(h, c)
        PROVE \A k \in Hosts : Local(k)'
    <3>1. ASSUME NEW k \in Hosts, k # h, k # c PROVE Same(k)
      BY <1>0, <1>7, <2>2, <3>1 DEF TypeOK, Same, HandleFork, Handles, Forks
    <3>2. Local(h)'
      BY <1>t, <2>0, <1>7, <2>2 DEF TypeOK, HandleFork, Handles, Forks
    <3>3. Local(c)'
      BY <1>0, <1>7, <2>2 DEF TypeOK, HandleFork, Handles, Forks
    <3> QED
      BY <1>0, <3>1, <3>2, <3>3, SameLocal
  <2> QED
    BY <1>7, <2>1, <2>2 DEF HandleFork
<1>8. CASE Rebuild(h)
  <2>1. ASSUME NEW k \in Hosts, k # h PROVE Same(k)
    BY <1>0, <1>8, <2>1 DEF TypeOK, Same, Rebuild
  <2>2. Local(h)'
    BY <1>0, <1>8 DEF TypeOK, Rebuild
  <2> QED
    BY <1>0, <2>1, <2>2, SameLocal
<1>9. CASE Revive(h)
  <2>1. ASSUME NEW k \in Hosts, k # h PROVE Same(k)
    BY <1>0, <1>9, <2>1 DEF TypeOK, Same, Revive, ScanDropped
  <2>2. Local(h)'
    BY <1>0, <1>9 DEF TypeOK, Revive, ScanDropped
  <2> QED
    BY <1>0, <2>1, <2>2, SameLocal
<1>10. CASE RunDone(h)
  <2>1. ASSUME NEW k \in Hosts, k # h PROVE Same(k)
    BY <1>0, <1>10, <2>1 DEF TypeOK, Same, RunDone
  <2>2. Local(h)'
    BY <1>0, <1>10 DEF TypeOK, RunDone
  <2> QED
    BY <1>0, <2>1, <2>2, SameLocal
<1>11. CASE WaitRun(h)
  <2>1. ASSUME NEW k \in Hosts, k # h PROVE Same(k)
    BY <1>0, <1>11, <2>1 DEF TypeOK, Same, WaitRun, TickEnds, TickReaps
  <2>2. Local(h)'
    BY <1>0, <1>11 DEF TypeOK, WaitRun, TickEnds, TickReaps
  <2> QED
    BY <1>0, <2>1, <2>2, SameLocal
<1>12. CASE WaitStart(h)
  <2>1. CASE StartReady(h)
    <3>1. ASSUME NEW k \in Hosts, k # h PROVE Same(k)
      BY <1>0, <1>12, <2>1, <3>1 DEF TypeOK, Same, WaitStart, StartReady
    <3>2. Local(h)'
      BY <1>0, <1>12, <2>1 DEF TypeOK, WaitStart, StartReady
    <3> QED
      BY <1>0, <3>1, <3>2, SameLocal
  <2>2. CASE StartProbe(h)
    <3>1. ASSUME NEW k \in Hosts, k # h PROVE Same(k)
      BY <1>0, <1>12, <2>2, <3>1 DEF TypeOK, Same, WaitStart, StartProbe
    <3>2. Local(h)'
      BY <1>0, <1>12, <2>2 DEF TypeOK, WaitStart, StartProbe
    <3> QED
      BY <1>0, <3>1, <3>2, SameLocal
  <2>3. CASE StartFails(h)
    <3>1. ASSUME NEW k \in Hosts, k # h PROVE Same(k)
      BY <1>0, <1>12, <2>3, <3>1 DEF TypeOK, Same, WaitStart, StartFails
    <3>2. Local(h)'
      BY <1>0, <1>12, <2>3 DEF TypeOK, WaitStart, StartFails
    <3> QED
      BY <1>0, <3>1, <3>2, SameLocal
  <2>4. CASE StartExited(h)
    <3>1. ASSUME NEW k \in Hosts, k # h PROVE Same(k)
      BY <1>0, <1>12, <2>4, <3>1 DEF TypeOK, Same, WaitStart, StartExited
    <3>2. Local(h)'
      BY <1>0, <1>12, <2>4 DEF TypeOK, WaitStart, StartExited
    <3> QED
      BY <1>0, <3>1, <3>2, SameLocal
  <2>5. CASE StartClosed(h)
    <3>1. ASSUME NEW k \in Hosts, k # h PROVE Same(k)
      BY <1>0, <1>12, <2>5, <3>1 DEF TypeOK, Same, WaitStart, StartClosed
    <3>2. Local(h)'
      BY <1>0, <1>12, <2>5 DEF TypeOK, WaitStart, StartClosed
    <3> QED
      BY <1>0, <3>1, <3>2, SameLocal
  <2> QED
    BY <1>12, <2>1, <2>2, <2>3, <2>4, <2>5 DEF WaitStart
<1> QED
  BY <1>1, <1>2, <1>3, <1>4, <1>5, <1>6, <1>7, <1>8, <1>9, <1>10, <1>11, <1>12 DEF Step

\* So does every step of guests, runs, probes and the kernel.
LEMMA EnvironmentLocal ==
  ASSUME Inv, NEW h \in Hosts, Environment(h) PROVE \A k \in Hosts : Local(k)'
<1>0. TypeOK /\ \A k \in Hosts : Local(k)
  BY DEF Inv
<1> USE DEF loop, runs, family, chan, End, Elsewhere
<1>1. CASE GuestListens(h) \/ GuestExits(h) \/ RunEnds(h) \/ ProbeEnds(h)
  <2>1. ASSUME NEW k \in Hosts PROVE Same(k)
    BY <1>1 DEF Same, GuestListens, GuestExits, RunEnds, ProbeEnds
  <2> QED
    BY <1>0, <2>1, SameLocal
<1>2. CASE Crash(h) \/ DieWithParent(h)
  <2>1. ASSUME NEW k \in Hosts, k # h PROVE Same(k)
    BY <1>0, <1>2, <2>1 DEF TypeOK, Same, Crash, DieWithParent
  <2>2. Local(h)'
    BY <1>0, <1>2 DEF TypeOK, Crash, DieWithParent, Local, Up, Phases, Closed
  <2> QED
    BY <1>0, <2>1, <2>2, SameLocal
<1> QED
  BY <1>1, <1>2 DEF Environment

\* So does everything a HostProcess reads.
LEMMA ReadLocal ==
  ASSUME Inv, NEW h \in Hosts, Read(h) PROVE \A k \in Hosts : Local(k)'
<1>0. TypeOK /\ \A k \in Hosts : Local(k)
  BY DEF Inv
<1> USE HostAssumption, NoneAssumption
    DEF loop, runs, family, chan, Answers, Busy, Local, Up, Phases, Stage, Phased, Unborn, Quiet,
        Sent, Working, Answered, Work, Waits, Requests, AnswersTo, Closed, Newborn, Children
<1>1. CASE ReadAnswer(h)
  <2>1. ASSUME NEW k \in Hosts, k # h, k \notin Newborn(h) PROVE Same(k)
    BY <1>0, <1>1, <2>1 DEF TypeOK, Same, ReadAnswer
  <2>2. ASSUME NEW k \in Newborn(h), k # h PROVE Local(k)'
    <3>1. mgr[k] = "absent" /\ mgr'[k] \in {"newborn", "closed"} /\ parent[k] \in Hosts
      BY <1>0, <1>1, <2>2 DEF TypeOK, ReadAnswer
    <3>2. UNCHANGED <<phase, at, request, scan, told, parent>> /\ answer'[k] = answer[k]
      BY <1>0, <1>1, <2>2 DEF TypeOK, ReadAnswer
    <3> QED
      BY <1>0, <2>2, <3>1, <3>2 DEF TypeOK
  <2>3. Local(h)'
    BY <1>0, <1>1 DEF TypeOK, ReadAnswer
  <2> QED
    BY <1>0, <2>1, <2>2, <2>3, SameLocal
<1>2. CASE ReadEnd(h)
  <2>1. ASSUME NEW k \in Hosts, k # h, k \notin Newborn(h) PROVE Same(k)
    BY <1>0, <1>2, <2>1 DEF TypeOK, Same, ReadEnd
  <2>2. ASSUME NEW k \in Newborn(h), k # h PROVE Local(k)'
    BY <1>0, <1>2, <2>2 DEF TypeOK, ReadEnd
  <2>3. Local(h)'
    BY <1>0, <1>2 DEF TypeOK, ReadEnd, Eof
  <2> QED
    BY <1>0, <2>1, <2>2, <2>3, SameLocal
<1>3. CASE ReadEvent(h)
  <2>1. ASSUME NEW k \in Hosts PROVE Same(k)
    BY <1>3 DEF Same, ReadEvent
  <2> QED
    BY <1>0, <2>1, SameLocal
<1> QED
  BY <1>1, <1>2, <1>3 DEF Read

\* So does everything the manager asks of a host.
LEMMA DriveLocal ==
  ASSUME Inv, NEW h \in Hosts, Drive(h) PROVE \A k \in Hosts : Local(k)'
<1>0. TypeOK /\ \A k \in Hosts : Local(k)
  BY DEF Inv
<1> USE HostAssumption, NoneAssumption
    DEF loop, runs, family, chan, Answers, Busy, Local, Up, Phases, Stage, Phased, Unborn, Quiet,
        Sent, Working, Answered, Work, Waits, Requests, AnswersTo, Closed
<1>1. ASSUME NEW r \in Requests, Send(h, r) PROVE \A k \in Hosts : Local(k)'
  <2>1. ASSUME NEW k \in Hosts, k # h PROVE Same(k)
    BY <1>0, <1>1, <2>1 DEF TypeOK, Same, Send
  <2>2. Local(h)'
    BY <1>0, <1>1 DEF TypeOK, Send
  <2> QED
    BY <1>0, <2>1, <2>2, SameLocal
<1>2. CASE Stop(h)
  <2>1. ASSUME NEW k \in Hosts, k # h PROVE Same(k)
    BY <1>0, <1>2, <2>1 DEF TypeOK, Same, Stop
  <2>2. Local(h)'
    BY <1>0, <1>2 DEF TypeOK, Stop
  <2> QED
    BY <1>0, <2>1, <2>2, SameLocal
<1>3. CASE Stopped(h) \/ Drop(h)
  <2>1. ASSUME NEW k \in Hosts, k # h PROVE Same(k)
    BY <1>0, <1>3, <2>1 DEF TypeOK, Same, Stopped, Drop
  <2>2. Local(h)'
    BY <1>0, <1>3 DEF TypeOK, Stopped, Drop
  <2> QED
    BY <1>0, <2>1, <2>2, SameLocal
<1> QED
  BY <1>1, <1>2, <1>3 DEF Drive

\* The invariant of every reachable state.
THEOREM Invariance == Spec => []Inv
<1>1. Init => Inv
  BY InitInv
<1>2. Inv /\ [Next]_vars => Inv'
  <2> SUFFICES ASSUME Inv, [Next]_vars PROVE Inv'
    OBVIOUS
  <2>1. TypeOK'
    BY NextType DEF Inv
  <2>2. CASE ManagerDies
    BY <2>1, <2>2 DEF Inv, TypeOK, ManagerDies, Local, Up, Phases, Stage, Phased, Unborn, Quiet, Waits,
       Requests, Closed, loop, runs, family, chan
  <2>3. CASE UNCHANGED vars
    BY <2>1, <2>3, SameLocal DEF Inv, Same, vars
  <2> QED
    BY <2>1, <2>2, <2>3, StepLocal, EnvironmentLocal, ReadLocal, DriveLocal DEF Next, Inv
<1> QED
  BY <1>1, <1>2, PTL DEF Spec

\* Every reachable state has its type.
THEOREM TypeCorrect == Spec => []TypeOK
  BY Invariance, PTL DEF Inv

\* Replies pair with requests: the answer in a channel is one to the request
\* its HostProcess waits for.
THEOREM RepliesPair == Spec => []AnswerPairs
<1>1. Inv => AnswerPairs
  BY DEF Inv, Local, AnswerPairs
<1> QED
  BY <1>1, Invariance, PTL

\* While a host lives, what its HostProcess waits for is in exactly one place:
\* on its way, being worked on, or answered.
THEOREM OneReply == Spec => []ExactlyOneReply
<1>1. Inv => ExactlyOneReply
  <2> SUFFICES ASSUME Inv, NEW h \in Hosts, Up(h)
      PROVE /\ mgr[h] = "idle" => Progress(h) = {}
            /\ mgr[h] \in Requests \cup {"newborn"} => \E s \in Progress(h) : Progress(h) = {s}
    BY DEF ExactlyOneReply
  <2>1. Stage(h)
    BY DEF Inv, Local
  <2>2. CASE Quiet(h)
    BY <2>1, <2>2, NoneAssumption DEF Stage, Quiet, Progress, Waits, Sent, Working, Answered, Work, AnswersTo, Requests, Answers
  <2>3. CASE Sent(h) /\ mgr[h] \in Requests \cup {"newborn"}
    BY <2>3, NoneAssumption DEF Inv, TypeOK, Sent, Progress, Requests
  <2>4. CASE Working(h) /\ mgr[h] \in Requests \cup {"newborn"}
    BY <2>4 DEF Working, Work, Progress, Requests
  <2>5. CASE Answered(h) /\ mgr[h] \in Requests \cup {"newborn"}
    BY <2>5, NoneAssumption DEF Answered, AnswersTo, Progress, Requests, Answers
  <2> QED
    BY <2>1, <2>2, <2>3, <2>4, <2>5 DEF Stage, Waits, Requests
<1> QED
  BY <1>1, Invariance, PTL

\* A slice of the zero-page scan never runs in a process whose guest does.
THEOREM ScansFrozen == Spec => []ScansFrozenOnly
<1>1. Inv => ScansFrozenOnly
  BY DEF Inv, TypeOK, Local, Phased, ScansFrozenOnly
<1> QED
  BY <1>1, Invariance, PTL

-----------------------------------------------------------------------------
(* Byte strings.  What the loop has read is a row of words and what is left  *)
(* is the end of the source; of a preview it is what was written for the     *)
(* bytes not read yet.  Induction on numbers: a set that misses one of them  *)
(* misses a least one.                                                       *)

\* A set of numbers that has 0 and the successor of each it has, up to N, has all of them.
LEMMA UpTo ==
  ASSUME NEW N \in Nat, NEW T, 0 \in T, \A n \in 0..N : n \in T /\ n < N => n + 1 \in T
  PROVE  \A n \in 0..N : n \in T
<1> SUFFICES ASSUME NEW m \in 0..N, m \notin T PROVE FALSE
  BY Zenon
<1> DEFINE S == {n \in Nat : n <= N /\ n \notin T}
<1>1. \A x, y \in Nat : <<x, y>> \in OpToRel(<, Nat) <=> x < y
  BY Zenon DEF OpToRel
<1>2. PICK less : IsWellFoundedOn(less, Nat) /\ \A x, y \in Nat : <<x, y>> \in less <=> x < y
  BY Zenon, <1>1, NatLessThanWellFounded
<1>3. S \subseteq Nat /\ S # {}
  <2>1. m \in S OBVIOUS
  <2> QED BY Zenon, <2>1
<1>4. PICK x \in S : \A y \in S : ~(<<y, x>> \in less)
  <2>1. IsWellFoundedOn(less, Nat) BY Zenon, <1>2
  <2> HIDE DEF S
  <2> QED BY Zenon, <1>3, <2>1, WFMin
<1>5. \A y \in S : ~(y < x)
  BY Zenon, <1>2, <1>3, <1>4
<1>6. x \in Nat /\ x <= N /\ x \notin T
  BY Zenon, <1>4
<1>7. x # 0 BY Zenon, <1>6
<1>8. x - 1 \in Nat /\ x - 1 \in 0..N /\ x - 1 <= N /\ x - 1 < N /\ x - 1 < x /\ (x - 1) + 1 = x
  BY <1>6, <1>7
<1>9. x - 1 \in T
  BY Zenon, <1>5, <1>8
<1> QED
  BY Zenon, <1>6, <1>8, <1>9

\* f[n] is the text of n words of w before d.
Built(f, N, d, w) ==
  /\ f = [n \in DOMAIN f |-> f[n]] /\ DOMAIN f = 0..N
  /\ f[0] = d /\ \A n \in 1..N : f[n] = w[n] \o f[n - 1]

\* A text built up word by word is a function of how many words it has.
LEMMA TextExists ==
  ASSUME NEW N \in Nat, NEW d, NEW w
  PROVE  \E f : Built(f, N, d, w)
<1> DEFINE T == {m \in Nat : \E f : Built(f, m, d, w)}
<1>1. 0 \in T
  <2> DEFINE f == [n \in 0..0 |-> d]
  <2>1. Built(f, 0, d, w) BY DEF Built
  <2> QED BY Zenon, <2>1
<1>2. ASSUME NEW m \in 0..N, m \in T PROVE m + 1 \in T
  <2>1. PICK f : Built(f, m, d, w) BY Zenon, <1>2
  <2> DEFINE g == [n \in 0..(m + 1) |-> IF n <= m THEN f[n] ELSE w[m + 1] \o f[m]]
  <2>2. g = [n \in DOMAIN g |-> g[n]] /\ DOMAIN g = 0..(m + 1) BY Zenon
  <2>3. \A n \in 0..(m + 1) : g[n] = IF n <= m THEN f[n] ELSE w[m + 1] \o f[m] BY Zenon
  <2> HIDE DEF g
  <2>4. g[0] = d
    <3>1. 0 \in 0..(m + 1) /\ 0 <= m BY <1>2
    <3> QED BY Zenon, <2>1, <2>3, <3>1 DEF Built
  <2>5. ASSUME NEW n \in 1..(m + 1) PROVE g[n] = w[n] \o g[n - 1]
    <3>1. CASE n <= m
      <4>1. n \in 1..m /\ n \in 0..(m + 1) /\ n - 1 \in 0..(m + 1) /\ n - 1 <= m BY <1>2, <3>1
      <4>2. g[n - 1] = f[n - 1] /\ g[n] = f[n] BY Zenon, <2>3, <3>1, <4>1
      <4> QED BY Zenon, <2>1, <4>1, <4>2 DEF Built
    <3>2. CASE ~(n <= m)
      <4>1. n = m + 1 /\ n \in 0..(m + 1) /\ n - 1 = m /\ m \in 0..(m + 1) /\ m <= m BY <1>2, <3>2
      <4>2. g[n] = w[m + 1] \o f[m] BY Zenon, <2>3, <3>2, <4>1
      <4>3. g[m] = f[m] BY Zenon, <2>3, <4>1
      <4> QED BY Zenon, <4>1, <4>2, <4>3
    <3> QED BY Zenon, <3>1, <3>2
  <2>6. Built(g, m + 1, d, w) BY Zenon, <2>2, <2>4, <2>5 DEF Built
  <2>7. m + 1 \in Nat BY <1>2
  <2> QED BY Zenon, <2>6, <2>7
<1> HIDE DEF T
<1>3. N \in T
  <2>1. N \in 0..N OBVIOUS
  <2> QED BY Zenon, <1>1, <1>2, <2>1, UpTo
<1> QED BY Zenon, <1>3 DEF T

-----------------------------------------------------------------------------
(* The bytes of a preview and what is written for them.                      *)

Byte == 0..255
Code == Nat

Shows(r) == B!First(Shown, r)
Full(r) == Shows(r) \o B!Dots(r)

\* What is written for the last n bytes of the preview, the dots counted in.
Left(r, n) ==
  IF n <= Len(B!Dots(r)) THEN SubSeq(B!Dots(r), Len(B!Dots(r)) - n + 1, Len(B!Dots(r)))
  ELSE B!Written(r)[n - Len(B!Dots(r))]

\* The characters that matter are different ones.
LEMMA Letters ==
  /\ B!Backslash # B!LowerX /\ B!Backslash \in B!Printable /\ B!Backslash \in Code /\ B!LowerX \in Code
  /\ 46 \in B!Printable /\ 46 # B!Backslash /\ 46 \in Byte /\ B!Printable \subseteq Code /\ Byte \subseteq Code
  BY DEF B!Backslash, B!LowerX, B!Printable, Byte, Code

\* Digits are numbers.
LEMMA DigitNat == \A c \in Code : B!Digit(c) \in Nat
<1> SUFFICES ASSUME NEW c \in Nat PROVE B!Digit(c) \in Nat
  BY Zenon DEF Code
<1>1. CASE c \in 48..57
  <2>1. B!Digit(c) = c - 48 BY <1>1 DEF B!Digit
  <2> QED BY <1>1, <2>1
<1>2. CASE c \in 65..70
  <2>1. B!Digit(c) = c - 55 BY <1>2 DEF B!Digit
  <2> QED BY <1>2, <2>1
<1>3. CASE c \in 97..102
  <2>1. B!Digit(c) = c - 87 BY <1>3 DEF B!Digit
  <2> QED BY <1>3, <2>1
<1>4. CASE c \notin 48..57 /\ c \notin 65..70 /\ c \notin 97..102
  <2>1. B!Digit(c) = 16 BY <1>4 DEF B!Digit
  <2> QED BY <2>1
<1> QED BY <1>1, <1>2, <1>3, <1>4

\* A hexadecimal digit is read as what it was written for.
LEMMA DigitBack == \A n \in 0..15 : B!HexDigit(n) \in Code /\ B!Digit(B!HexDigit(n)) = n
<1> SUFFICES ASSUME NEW n \in 0..15 PROVE B!HexDigit(n) \in Code /\ B!Digit(B!HexDigit(n)) = n
  BY Zenon
<1>1. CASE n < 10
  <2>1. B!HexDigit(n) = n + 48 BY <1>1 DEF B!HexDigit
  <2>2. n + 48 \in Code /\ n + 48 \in 48..57 /\ (n + 48) - 48 = n BY <1>1 DEF Code
  <2>3. B!Digit(n + 48) = n BY <2>2 DEF B!Digit
  <2> QED BY <2>1, <2>2, <2>3
<1>2. CASE ~(n < 10)
  <2>1. B!HexDigit(n) = n + 87 BY <1>2 DEF B!HexDigit
  <2>2. /\ n + 87 \in Code /\ n + 87 \in 97..102 /\ n + 87 \notin 48..57 /\ n + 87 \notin 65..70
        /\ (n + 87) - 87 = n
    BY <1>2 DEF Code
  <2>3. B!Digit(n + 87) = n BY <2>2 DEF B!Digit
  <2> QED BY <2>1, <2>2, <2>3
<1> QED BY Zenon, <1>1, <1>2

\* A byte's spelling is a printable character, or an escape whose digits give it back.
LEMMA SpelledFacts ==
  ASSUME NEW b \in Byte
  PROVE  /\ b \in B!Printable \ {B!Backslash} => B!Spelled(b) = <<b>>
         /\ b \notin B!Printable \ {B!Backslash} =>
              \E h, l \in Code : /\ B!Spelled(b) = <<B!Backslash, B!LowerX, h, l>>
                                 /\ B!Digit(h) < 16 /\ B!Digit(l) < 16
                                 /\ B!Digit(h) * 16 + B!Digit(l) = b
<1>1. b \div 16 \in 0..15 /\ b % 16 \in 0..15 /\ (b \div 16) * 16 + (b % 16) = b
  BY DEF Byte
<1>2. PICK x \in 0..15, y \in 0..15 : x = b \div 16 /\ y = b % 16 /\ x * 16 + y = b
  BY Zenon, <1>1
<1>3. b \in B!Printable \ {B!Backslash} => B!Spelled(b) = <<b>>
  BY Zenon DEF B!Spelled
<1>4. CASE b \notin B!Printable \ {B!Backslash}
  <2>1. PICK h \in Code, l \in Code : h = B!HexDigit(x) /\ l = B!HexDigit(y)
    BY Zenon, DigitBack
  <2>2. B!Spelled(b) = <<B!Backslash, B!LowerX, h, l>>
    BY Zenon, <1>2, <1>4, <2>1 DEF B!Spelled
  <2>3. B!Digit(h) = x /\ B!Digit(l) = y BY Zenon, <2>1, DigitBack
  <2>4. x < 16 /\ y < 16 OBVIOUS
  <2> QED BY Zenon, <1>2, <1>4, <2>2, <2>3, <2>4
<1> QED BY Zenon, <1>3, <1>4

\* What preview shows, and the dots.
LEMMA ShownFacts ==
  ASSUME B!StringAssumption, NEW r \in Seq(Byte)
  PROVE  /\ Shows(r) \in Seq(Byte) /\ Len(Shows(r)) \in Nat
         /\ B!Dots(r) \in Seq(Byte) /\ Len(B!Dots(r)) \in Nat
         /\ \A i \in 1..Len(B!Dots(r)) : B!Dots(r)[i] = 46
         /\ Full(r) \in Seq(Byte) /\ Len(Full(r)) = Len(Shows(r)) + Len(B!Dots(r))
         /\ \A i \in 1..Len(Shows(r)) : Full(r)[i] = Shows(r)[i]
         /\ \A i \in 1..Len(B!Dots(r)) : Full(r)[Len(Shows(r)) + i] = B!Dots(r)[i]
<1>1. Shows(r) \in Seq(Byte) /\ Len(Shows(r)) \in Nat
  <2>1. PICK n \in Nat : n = (IF Len(r) < Shown THEN Len(r) ELSE Shown) /\ n <= Len(r)
    BY DEF B!StringAssumption
  <2>2. Shows(r) = SubSeq(r, 1, n) BY Zenon, <2>1 DEF Shows, B!First
  <2>3. SubSeq(r, 1, n) \in Seq(Byte)
    <3>1. \A i \in 1..n : r[i] \in Byte BY <2>1
    <3>2. 1 \in Int /\ n \in Int OBVIOUS
    <3> QED BY Zenon, <3>1, <3>2, SubSeqProperties
  <2> QED BY Zenon, <2>2, <2>3, LenProperties
<1>2. /\ B!Dots(r) \in Seq(Byte) /\ Len(B!Dots(r)) \in Nat
      /\ \A i \in 1..Len(B!Dots(r)) : B!Dots(r)[i] = 46
  <2>1. CASE B!Dots(r) = <<>> BY <2>1
  <2>2. CASE B!Dots(r) = <<46, 46, 46>> BY <2>2, Letters
  <2> QED BY <2>1, <2>2 DEF B!Dots
<1>3. Full(r) = Shows(r) \o B!Dots(r) BY Zenon DEF Full
<1> QED BY <1>1, <1>2, <1>3

\* Written is the function its definition describes.
LEMMA WrittenFacts ==
  ASSUME B!StringAssumption, NEW r \in Seq(Byte)
  PROVE  /\ B!Written(r)[0] = B!Dots(r)
         /\ \A n \in 1..Len(Shows(r)) :
              B!Written(r)[n] = B!Spelled(Shows(r)[Len(Shows(r)) - n + 1]) \o B!Written(r)[n - 1]
<1> DEFINE N == Len(Shows(r))
           E(f) == f = [n \in 0..N |-> IF n = 0 THEN B!Dots(r)
                                       ELSE B!Spelled(Shows(r)[N - n + 1]) \o f[n - 1]]
           w == [n \in 0..N |-> B!Spelled(Shows(r)[N - n + 1])]
<1>1. N \in Nat BY Zenon, ShownFacts
<1>2. \E f : E(f)
  <2>1. PICK f : Built(f, N, B!Dots(r), w)
    <3> HIDE DEF w, N
    <3> QED BY Zenon, <1>1, TextExists
  <2>2. \A n \in 0..N : w[n] = B!Spelled(Shows(r)[N - n + 1]) BY Zenon
  <2> HIDE DEF w, N
  <2>3. \A n \in 0..N : n = 0 \/ n \in 1..N BY <1>1
  <2>4. \A n \in 0..N : f[n] = IF n = 0 THEN B!Dots(r) ELSE B!Spelled(Shows(r)[N - n + 1]) \o f[n - 1]
    BY Zenon, <2>1, <2>2, <2>3 DEF Built
  <2>5. E(f) BY Zenon, <2>1, <2>4 DEF Built
  <2> QED BY Zenon, <2>5
<1>3. B!Written(r) = CHOOSE f : E(f)
  BY Zenon DEF B!Written, Shows
<1>4. E(B!Written(r))
  <2> HIDE DEF E
  <2> QED BY Zenon, <1>2, <1>3
<1>5. \A n \in 0..N : B!Written(r)[n] = IF n = 0 THEN B!Dots(r)
                                        ELSE B!Spelled(Shows(r)[N - n + 1]) \o B!Written(r)[n - 1]
  <2> PICK f : f = B!Written(r) BY Zenon
  <2> HIDE DEF N
  <2> QED BY Zenon, <1>4
<1>6. 0 \in 0..N /\ \A n \in 1..N : n \in 0..N /\ n # 0
  <2> HIDE DEF N
  <2> QED BY <1>1
<1> QED BY Zenon, <1>5, <1>6

\* The text that is left begins with the word for the next byte.
LEMMA LeftFacts ==
  ASSUME B!StringAssumption, NEW r \in Seq(Byte)
  PROVE  /\ Left(r, 0) = <<>> /\ Left(r, Len(Full(r))) = B!Preview(r)
         /\ \A n \in 1..Len(Full(r)) :
              Left(r, n) = B!Spelled(Full(r)[Len(Full(r)) - n + 1]) \o Left(r, n - 1)
<1>0. PICK w : w = B!Written(r) BY Zenon
<1>1. PICK s \in Seq(Byte), d \in Seq(Byte), f \in Seq(Byte) :
        s = Shows(r) /\ d = B!Dots(r) /\ f = Full(r)
  BY Zenon, ShownFacts
<1>2. /\ Len(s) \in Nat /\ Len(d) \in Nat /\ Len(f) = Len(s) + Len(d)
      /\ \A i \in 1..Len(d) : d[i] = 46 /\ f[Len(s) + i] = d[i]
      /\ \A i \in 1..Len(s) : f[i] = s[i]
  BY <1>1, ShownFacts
<1>3. w[0] = d /\ \A n \in 1..Len(s) : w[n] = B!Spelled(s[Len(s) - n + 1]) \o w[n - 1]
  BY Zenon, <1>0, <1>1, WrittenFacts
<1>4. \A n : Left(r, n) = IF n <= Len(d) THEN SubSeq(d, Len(d) - n + 1, Len(d)) ELSE w[n - Len(d)]
  BY Zenon, <1>0, <1>1 DEF Left
<1>5. Left(r, 0) = <<>>
  <2>1. SubSeq(d, Len(d) - 0 + 1, Len(d)) = <<>> BY <1>2
  <2>2. 0 <= Len(d) BY <1>2
  <2> QED BY Zenon, <1>4, <2>1, <2>2
<1>6. Left(r, Len(d)) = d
  <2>1. SubSeq(d, Len(d) - Len(d) + 1, Len(d)) = d
    <3>1. Len(d) - Len(d) + 1 = 1 BY <1>2
    <3>2. SubSeq(d, 1, Len(d)) = d BY Zenon, SubSeqFull
    <3> QED BY Zenon, <3>1, <3>2
  <2>2. Len(d) <= Len(d) BY <1>2
  <2> QED BY Zenon, <1>4, <2>1, <2>2
<1>7. Left(r, Len(f)) = B!Preview(r)
  <2>1. B!Preview(r) = w[Len(s)] BY Zenon, <1>0, <1>1 DEF B!Preview, Shows
  <2>2. CASE Len(s) = 0
    <3>1. Len(f) = Len(d) BY <1>2, <2>2
    <3> QED BY Zenon, <1>3, <1>6, <2>1, <2>2, <3>1
  <2>3. CASE Len(s) # 0
    <3>1. ~(Len(f) <= Len(d)) /\ Len(f) - Len(d) = Len(s) BY <1>2, <2>3
    <3> QED BY Zenon, <1>4, <2>1, <3>1
  <2> QED BY Zenon, <2>2, <2>3
<1>8. ASSUME NEW n \in 1..Len(f) PROVE Left(r, n) = B!Spelled(f[Len(f) - n + 1]) \o Left(r, n - 1)
  <2>1. CASE n <= Len(d)
    <3>0. Len(d) - n + 1 \in 1..Len(d) BY <1>2, <2>1
    <3>1. PICK m \in 1..Len(d) : m = Len(d) - n + 1 BY Zenon, <3>0
    <3>2. Len(f) - n + 1 = Len(s) + m /\ Len(d) - (n - 1) + 1 = m + 1 /\ n - 1 <= Len(d)
      BY <1>2, <2>1, <3>1
    <3>3. f[Len(f) - n + 1] = d[m] BY Zenon, <1>2, <3>1, <3>2
    <3>4. B!Spelled(d[m]) = <<d[m]>> BY Zenon, <1>2, <3>1, Letters DEF B!Spelled
    <3>5. SubSeq(d, m, Len(d)) = <<d[m]>> \o SubSeq(d, m + 1, Len(d))
      <4>1. m \in 1..Len(d) /\ Len(d) \in m..Len(d) BY <1>2, <3>1
      <4> QED BY Zenon, <4>1, SubSeqRecursiveFirst
    <3> QED BY Zenon, <1>4, <2>1, <3>1, <3>2, <3>3, <3>4, <3>5
  <2>2. CASE ~(n <= Len(d))
    <3>0. n - Len(d) \in 1..Len(s) BY <1>2, <2>2
    <3>1. PICK m \in 1..Len(s) : m = n - Len(d) BY Zenon, <3>0
    <3>2. Left(r, n) = B!Spelled(s[Len(s) - m + 1]) \o w[m - 1] BY Zenon, <1>3, <1>4, <2>2, <3>1
    <3>3. Len(f) - n + 1 = Len(s) - m + 1 /\ Len(s) - m + 1 \in 1..Len(s) BY <1>2, <2>2, <3>1
    <3>4. f[Len(f) - n + 1] = s[Len(s) - m + 1] BY Zenon, <1>2, <3>3
    <3>5. w[m - 1] = Left(r, n - 1)
      <4>1. CASE m = 1
        <5>1. m - 1 = 0 /\ n - 1 = Len(d) BY <1>2, <2>2, <3>1, <4>1
        <5> QED BY Zenon, <1>3, <1>6, <5>1
      <4>2. CASE m # 1
        <5>1. ~(n - 1 <= Len(d)) /\ (n - 1) - Len(d) = m - 1 BY <1>2, <2>2, <3>1, <4>2
        <5> QED BY Zenon, <1>4, <5>1
      <4> QED BY Zenon, <4>1, <4>2
    <3> QED BY Zenon, <3>2, <3>4, <3>5
  <2> QED BY Zenon, <2>1, <2>2
<1> QED BY Zenon, <1>1, <1>5, <1>7, <1>8

-----------------------------------------------------------------------------
(* The loop.                                                                 *)

\* What has been read is a row of words for bytes, and rest is what follows.
Row(where) ==
  /\ where \in [0..Len(bytes) -> 0..Len(source)]
  /\ where[0] = 0 /\ where[Len(bytes)] + Len(rest) = Len(source)
  /\ \A i \in 1..Len(bytes) :
       where[i - 1] < where[i] /\ B!Spells(SubSeq(source, where[i - 1] + 1, where[i]), bytes[i])

\* What is left is the end of the source.
Suffix ==
  /\ source \in Seq(Code) /\ rest \in Seq(Code) /\ bytes \in Seq(Code) /\ of \in Seq(Byte)
  /\ Len(rest) <= Len(source)
  /\ \A i \in 1..Len(rest) : rest[i] = source[Len(source) - Len(rest) + i]

\* No word begins rest.
Stuck == \A n \in 1..Len(rest) : \A byte \in Byte : ~B!Spells(SubSeq(rest, 1, n), byte)

Verdicts ==
  /\ verdict \in {"decoding", "ok", "refused"}
  /\ verdict = "ok" => rest = <<>>
  /\ verdict = "refused" => Stuck

\* Of a preview, what is left to read is what was written for the bytes not read yet.
Previewed ==
  of # <<>> =>
    /\ verdict # "refused"
    /\ \E n \in 0..Len(Full(of)) :
         rest = Left(of, n) /\ bytes = SubSeq(Full(of), 1, Len(Full(of)) - n)

StringInv == B!StringAssumption /\ Suffix /\ (\E where : Row(where)) /\ Verdicts /\ Previewed

\* A part of a text.
LEMMA PartFacts ==
  ASSUME NEW q \in Seq(Code), NEW a \in Nat, NEW b \in Nat, a <= b, b <= Len(q)
  PROVE  /\ SubSeq(q, a + 1, b) \in Seq(Code) /\ Len(SubSeq(q, a + 1, b)) = b - a
         /\ \A i \in 1..(b - a) : SubSeq(q, a + 1, b)[i] = q[a + i]
<1>1. a + 1 \in Int /\ b \in Int /\ b - (a + 1) + 1 = b - a /\ (~(a + 1 <= b) => b - a = 0) OBVIOUS
<1>2. \A i \in (a + 1)..b : q[i] \in Code
  <2>1. Len(q) \in Nat BY Zenon, LenProperties
  <2>2. \A i \in (a + 1)..b : i \in 1..Len(q) BY <2>1
  <2> QED BY Zenon, <2>2, ElementOfSeq
<1>3. /\ SubSeq(q, a + 1, b) \in Seq(Code)
      /\ Len(SubSeq(q, a + 1, b)) = IF a + 1 <= b THEN b - (a + 1) + 1 ELSE 0
      /\ \A i \in 1..(b - (a + 1) + 1) : SubSeq(q, a + 1, b)[i] = q[(a + 1) + i - 1]
  BY <1>1, <1>2, SubSeqProperties
<1>4. \A i \in 1..(b - a) : (a + 1) + i - 1 = a + i OBVIOUS
<1> QED BY Zenon, <1>1, <1>3, <1>4

\* The beginning of a text.
LEMMA Beginning ==
  ASSUME NEW q \in Seq(Code), NEW n \in 1..Len(q)
  PROVE  /\ SubSeq(q, 1, n) \in Seq(Code) /\ Len(SubSeq(q, 1, n)) = n
         /\ \A i \in 1..n : SubSeq(q, 1, n)[i] = q[i]
<1>1. Len(q) \in Nat BY Zenon, LenProperties
<1>2. 0 \in Nat /\ n \in Nat /\ 0 <= n /\ n <= Len(q) /\ 0 + 1 = 1 /\ n - 0 = n BY <1>1
<1>3. \A i \in 1..n : 0 + i = i OBVIOUS
<1>4. /\ SubSeq(q, 0 + 1, n) \in Seq(Code) /\ Len(SubSeq(q, 0 + 1, n)) = n - 0
      /\ \A i \in 1..(n - 0) : SubSeq(q, 0 + 1, n)[i] = q[0 + i]
  BY Zenon, <1>2, PartFacts
<1> QED BY Zenon, <1>2, <1>3, <1>4

\* The words of the notation, character by character.
Printed(w) == Len(w) = 1 /\ w[1] \in B!Printable /\ w[1] # B!Backslash
Backslashes(w) == Len(w) = 2 /\ w[1] = B!Backslash /\ w[2] = B!Backslash
Hexadecimal(w) ==
  /\ Len(w) = 4 /\ w[1] = B!Backslash /\ w[2] = B!LowerX
  /\ B!Digit(w[3]) < 16 /\ B!Digit(w[4]) < 16

\* A word is one of these.
LEMMA WordIs ==
  ASSUME NEW w, NEW byte, B!Spells(w, byte)
  PROVE  Printed(w) \/ Backslashes(w) \/ Hexadecimal(w)
<1>1. CASE w = <<byte>> /\ byte \in B!Printable \ {B!Backslash}
  BY <1>1 DEF Printed
<1>2. CASE w = <<B!Backslash, B!Backslash>>
  BY <1>2 DEF Backslashes
<1>3. CASE /\ Len(w) = 4 /\ w[1] = B!Backslash /\ w[2] = B!LowerX
           /\ \E high, low \in 0..15 : B!Digit(w[3]) = high /\ B!Digit(w[4]) = low
  <2>1. \A x \in 0..15 : x < 16 OBVIOUS
  <2> QED BY Zenon, <1>3, <2>1 DEF Hexadecimal
<1> QED BY Zenon, <1>1, <1>2, <1>3 DEF B!Spells

\* And these are words.
LEMMA IsWord ==
  ASSUME NEW w \in Seq(Code)
  PROVE  /\ Printed(w) => B!Spells(w, w[1])
         /\ Backslashes(w) => B!Spells(w, B!Backslash)
         /\ Hexadecimal(w) => /\ B!Spells(w, B!Digit(w[3]) * 16 + B!Digit(w[4]))
                              /\ B!Digit(w[3]) * 16 + B!Digit(w[4]) \in Code
<1>1. ASSUME Printed(w) PROVE B!Spells(w, w[1])
  <2>1. w = <<w[1]>> BY <1>1 DEF Printed
  <2> QED BY Zenon, <1>1, <2>1 DEF Printed, B!Spells
<1>2. ASSUME Backslashes(w) PROVE B!Spells(w, B!Backslash)
  <2>1. w = <<B!Backslash, B!Backslash>> BY <1>2 DEF Backslashes
  <2> QED BY Zenon, <2>1 DEF B!Spells
<1>3. ASSUME Hexadecimal(w)
      PROVE  /\ B!Spells(w, B!Digit(w[3]) * 16 + B!Digit(w[4]))
             /\ B!Digit(w[3]) * 16 + B!Digit(w[4]) \in Code
  <2>1. w[3] \in Code /\ w[4] \in Code
    <3>1. Len(w) = 4 BY Zenon, <1>3 DEF Hexadecimal
    <3>2. 3 \in 1..Len(w) /\ 4 \in 1..Len(w) BY <3>1
    <3> QED BY Zenon, <3>2, ElementOfSeq
  <2>2. PICK high \in Nat, low \in Nat : high = B!Digit(w[3]) /\ low = B!Digit(w[4])
    BY Zenon, <2>1, DigitNat
  <2>3. high < 16 /\ low < 16 BY Zenon, <1>3, <2>2 DEF Hexadecimal
  <2>4. high \in 0..15 /\ low \in 0..15 /\ high * 16 + low = 16 * high + low /\ high * 16 + low \in Code
    BY <2>3 DEF Code
  <2>5. B!Spells(w, high * 16 + low)
    BY Zenon, <1>3, <2>2, <2>4 DEF Hexadecimal, B!Spells
  <2> QED BY Zenon, <2>2, <2>4, <2>5
<1> QED BY Zenon, <1>1, <1>2, <1>3

\* A turn of the loop takes a word off rest, or ends where there is nothing, or no word.
LEMMA DecodeTurn ==
  ASSUME Suffix, B!Decode
  PROVE  /\ verdict = "decoding" /\ UNCHANGED <<source, of>>
         /\ \/ rest = <<>> /\ verdict' = "ok" /\ UNCHANGED <<rest, bytes>>
            \/ B!Refuses /\ Stuck
            \/ \E n \in 1..Len(rest), byte \in Code : B!Takes(n, byte) /\ B!Spells(SubSeq(rest, 1, n), byte)
<1>1. verdict = "decoding" /\ UNCHANGED <<source, of>> BY Zenon DEF B!Decode
<1>2. CASE rest = <<>> BY Zenon, <1>1, <1>2 DEF B!Decode
<1>3. CASE rest # <<>>
  <2>1. PICK q \in Seq(Code) : q = rest BY Zenon DEF Suffix
  <2>2. /\ Len(q) \in Nat /\ Len(q) >= 1 /\ Head(q) = q[1] /\ q[1] \in Code
        /\ \A i \in 1..Len(q) : q[i] \in Code
    BY <1>3, <2>1
  <2>3. 1 \in 1..Len(q) /\ (Len(q) >= 2 => 2 \in 1..Len(q)) /\ (Len(q) >= 4 => 4 \in 1..Len(q)) BY <2>2
  <2>4. \A n \in 1..Len(q) : /\ SubSeq(q, 1, n) \in Seq(Code) /\ Len(SubSeq(q, 1, n)) = n
                             /\ \A i \in 1..n : SubSeq(q, 1, n)[i] = q[i]
    BY Zenon, Beginning
  <2>9. 1 \in 1..1 /\ 1 \in 1..2 /\ 2 \in 1..2 /\ 1 \in 1..4 /\ 2 \in 1..4 /\ 3 \in 1..4 /\ 4 \in 1..4
    OBVIOUS
  <2>5. ASSUME ~(q[1] \in B!Printable \ {B!Backslash}),
               ~(Len(q) >= 2 /\ q[1] = B!Backslash /\ q[2] = B!Backslash),
               ~(Len(q) >= 4 /\ q[1] = B!Backslash /\ q[2] = B!LowerX /\ B!Digit(q[3]) < 16 /\ B!Digit(q[4]) < 16)
        PROVE  Stuck
    <3> SUFFICES ASSUME NEW n \in 1..Len(q), NEW byte \in Byte, B!Spells(SubSeq(q, 1, n), byte) PROVE FALSE
      BY Zenon, <2>1 DEF Stuck
    <3>1. PICK w : w = SubSeq(q, 1, n) BY Zenon
    <3>2. Len(w) = n /\ \A i \in 1..n : w[i] = q[i] BY Zenon, <2>4, <3>1
    <3>3. ~Printed(w) BY <2>5, <3>2 DEF Printed
    <3>4. ~Backslashes(w) BY <2>2, <2>5, <3>2 DEF Backslashes
    <3>5. ~Hexadecimal(w) BY <2>2, <2>5, <3>2 DEF Hexadecimal
    <3> QED BY Zenon, <3>1, <3>3, <3>4, <3>5, WordIs
  <2>6. CASE q[1] \in B!Printable \ {B!Backslash} /\ B!Takes(1, q[1])
    <3>1. PICK w \in Seq(Code) : w = SubSeq(q, 1, 1) /\ Len(w) = 1 /\ w[1] = q[1]
      BY Zenon, <2>3, <2>4, <2>9
    <3>2. B!Spells(w, q[1]) BY Zenon, <2>6, <3>1, IsWord DEF Printed
    <3> QED BY Zenon, <1>1, <2>1, <2>2, <2>3, <2>6, <3>1, <3>2
  <2>7. CASE q[1] \notin B!Printable /\ B!Refuses
    BY Zenon, <1>1, <2>5, <2>7, Letters
  <2>8. CASE q[1] = B!Backslash /\ B!Escape
    <3>1. CASE Len(q) >= 2 /\ q[2] = B!Backslash /\ B!Takes(2, B!Backslash)
      <4>1. PICK w \in Seq(Code) : w = SubSeq(q, 1, 2) /\ Len(w) = 2 /\ w[1] = q[1] /\ w[2] = q[2]
        BY Zenon, <2>3, <2>4, <2>9, <3>1
      <4>2. B!Spells(w, B!Backslash) BY Zenon, <2>8, <3>1, <4>1, IsWord DEF Backslashes
      <4> QED BY Zenon, <1>1, <2>1, <2>3, <3>1, <4>1, <4>2, Letters
    <3>2. CASE /\ Len(q) >= 2 /\ q[2] = B!LowerX /\ B!TwoDigits
               /\ B!Takes(4, B!Digit(q[3]) * 16 + B!Digit(q[4]))
      <4>1. Len(q) >= 4 /\ B!Digit(q[3]) < 16 /\ B!Digit(q[4]) < 16
        BY Zenon, <2>1, <3>2 DEF B!TwoDigits
      <4>2. PICK w \in Seq(Code) : /\ w = SubSeq(q, 1, 4) /\ Len(w) = 4
                                   /\ w[1] = q[1] /\ w[2] = q[2] /\ w[3] = q[3] /\ w[4] = q[4]
        BY Zenon, <2>3, <2>4, <2>9, <4>1
      <4>3. Hexadecimal(w) BY Zenon, <2>8, <3>2, <4>1, <4>2 DEF Hexadecimal
      <4>4. /\ B!Spells(w, B!Digit(q[3]) * 16 + B!Digit(q[4]))
            /\ B!Digit(q[3]) * 16 + B!Digit(q[4]) \in Code
        BY Zenon, <4>2, <4>3, IsWord
      <4> QED BY Zenon, <1>1, <2>1, <2>3, <3>2, <4>1, <4>2, <4>4
    <3>3. CASE Len(q) >= 2 /\ q[2] = B!LowerX /\ ~B!TwoDigits /\ B!Refuses
      <4>1. Stuck BY Zenon, <2>1, <2>5, <2>8, <3>3, Letters DEF B!TwoDigits
      <4> QED BY Zenon, <1>1, <3>3, <4>1
    <3>4. CASE (Len(q) >= 2 => q[2] \notin {B!Backslash, B!LowerX}) /\ B!Refuses
      <4>1. Len(q) >= 4 => Len(q) >= 2 BY <2>2
      <4>2. Stuck BY Zenon, <2>5, <2>8, <3>4, <4>1
      <4> QED BY Zenon, <1>1, <3>4, <4>2
    <3> QED BY Zenon, <2>1, <2>8, <3>1, <3>2, <3>3, <3>4 DEF B!Escape
  <2> QED BY Zenon, <1>3, <2>1, <2>2, <2>6, <2>7, <2>8 DEF B!Decode
<1> QED BY Zenon, <1>2, <1>3

\* What is before and what is after a place in a text.
LEMMA Halves ==
  ASSUME NEW x \in Nat, NEW y \in Nat, NEW z \in Nat, x + y = z, NEW n \in Nat, n <= y
  PROVE  z - y = x /\ (x + n) + (y - n) = z /\ \A i \in 1..n : i \in 1..y
  OBVIOUS

\* A word taken off rest is one more in the row.
LEMMA TakeKeepsRow ==
  ASSUME Suffix, NEW where, Row(where), NEW n \in 1..Len(rest), NEW byte \in Code,
         B!Takes(n, byte), B!Spells(SubSeq(rest, 1, n), byte), UNCHANGED <<source, of>>
  PROVE  Suffix' /\ \E w : Row(w)'
<1>1. PICK q \in Seq(Code), b \in Seq(Code), s \in Seq(Code) : q = rest /\ b = bytes /\ s = source
  BY Zenon DEF Suffix
<1>0. Len(q) <= Len(s) /\ \A i \in 1..Len(q) : q[i] = s[Len(s) - Len(q) + i]
  BY Zenon, <1>1 DEF Suffix
<1>2. /\ Len(q) \in Nat /\ Len(b) \in Nat /\ Len(s) \in Nat /\ n \in Nat /\ 1 <= n /\ n <= Len(q)
      /\ Len(q) <= Len(s)
  <2>1. Len(q) \in Nat /\ Len(b) \in Nat /\ Len(s) \in Nat BY Zenon, LenProperties
  <2>2. n \in 1..Len(q) BY Zenon, <1>1
  <2>3. Len(q) <= Len(s) BY Zenon, <1>0
  <2> QED BY <2>1, <2>2, <2>3
<1>3. PICK q1 \in Seq(Code) : /\ q1 = rest' /\ Len(q1) = Len(q) - n
                              /\ \A i \in 1..(Len(q) - n) : q1[i] = q[n + i]
  <2>1. Len(q) <= Len(q) BY <1>2
  <2>2. /\ SubSeq(q, n + 1, Len(q)) \in Seq(Code) /\ Len(SubSeq(q, n + 1, Len(q))) = Len(q) - n
        /\ \A i \in 1..(Len(q) - n) : SubSeq(q, n + 1, Len(q))[i] = q[n + i]
    BY Zenon, <1>2, <2>1, PartFacts
  <2>3. rest' = SubSeq(q, n + 1, Len(q)) BY Zenon, <1>1 DEF B!Takes
  <2> QED BY Zenon, <2>2, <2>3
<1>4. PICK b1 \in Seq(Code) : /\ b1 = bytes' /\ Len(b1) = Len(b) + 1
                              /\ b1[Len(b) + 1] = byte /\ \A i \in 1..Len(b) : b1[i] = b[i]
  <2>1. bytes' = Append(b, byte) BY Zenon, <1>1 DEF B!Takes
  <2>2. /\ Append(b, byte) \in Seq(Code) /\ Len(Append(b, byte)) = Len(b) + 1
        /\ Append(b, byte)[Len(b) + 1] = byte
        /\ \A i \in 1..Len(b) : Append(b, byte)[i] = b[i]
    BY AppendProperties
  <2> QED BY Zenon, <2>1, <2>2
<1>5. Suffix'
  <2>1. Len(q1) <= Len(s) BY <1>2, <1>3
  <2>2. \A i \in 1..Len(q1) : q1[i] = s[Len(s) - Len(q1) + i]
    <3> SUFFICES ASSUME NEW i \in 1..Len(q1) PROVE q1[i] = s[Len(s) - Len(q1) + i]
      BY Zenon
    <3>1. n + i \in 1..Len(q) /\ Len(s) - Len(q) + (n + i) = Len(s) - Len(q1) + i BY <1>2, <1>3
    <3>2. q1[i] = q[n + i] /\ q[n + i] = s[Len(s) - Len(q) + (n + i)] BY Zenon, <1>0, <1>3, <3>1
    <3> QED BY Zenon, <3>1, <3>2
  <2> QED BY Zenon, <1>1, <1>3, <1>4, <2>1, <2>2 DEF Suffix
<1>6. /\ where \in [0..Len(b) -> 0..Len(s)] /\ where[0] = 0 /\ where[Len(b)] + Len(q) = Len(s)
      /\ \A i \in 1..Len(b) :
           where[i - 1] < where[i] /\ B!Spells(SubSeq(s, where[i - 1] + 1, where[i]), b[i])
  BY Zenon, <1>1 DEF Row
<1>7. PICK off \in 0..Len(s) : off = where[Len(b)] /\ off + Len(q) = Len(s) /\ off + n \in 0..Len(s)
  <2>1. Len(b) \in 0..Len(b) BY <1>2
  <2>2. where[Len(b)] \in 0..Len(s) BY Zenon, <1>6, <2>1
  <2>3. where[Len(b)] + n \in 0..Len(s) BY <1>2, <1>6, <2>2
  <2> QED BY Zenon, <1>6, <2>2, <2>3
<1>o. off \in 0..Len(s) /\ off + Len(q) = Len(s)
  BY Zenon, <1>7
<1>h. Len(s) - Len(q) = off /\ (off + n) + (Len(q) - n) = Len(s) /\ \A i \in 1..n : i \in 1..Len(q)
  <2>1. off \in Nat BY <1>2, <1>o
  <2> QED BY Zenon, <1>2, <1>o, <2>1, Halves
<1> DEFINE w == [i \in 0..Len(b1) |-> IF i = Len(b1) THEN off + n ELSE where[i]]
<1>8. w \in [0..Len(b1) -> 0..Len(s)]
  <2>1. \A i \in 0..Len(b1) : i # Len(b1) => i \in 0..Len(b) BY <1>2, <1>4
  <2>2. \A i \in 0..Len(b1) : (IF i = Len(b1) THEN off + n ELSE where[i]) \in 0..Len(s)
    BY Zenon, <1>6, <1>7, <2>1
  <2> QED BY Zenon, <2>2
<1>9. w[Len(b1)] = off + n /\ \A i \in 0..Len(b) : w[i] = where[i]
  <2>1. Len(b1) \in 0..Len(b1) /\ \A i \in 0..Len(b) : i \in 0..Len(b1) /\ i # Len(b1) BY <1>2, <1>4
  <2> QED BY Zenon, <2>1
<1> HIDE DEF w
<1>10. SubSeq(s, off + 1, off + n) = SubSeq(q, 1, n)
  <2> DEFINE u == SubSeq(s, off + 1, off + n)
             v == SubSeq(q, 1, n)
  <2>1. u \in Seq(Code) /\ Len(u) = n /\ \A i \in 1..n : u[i] = s[off + i]
    <3>1. /\ off \in Nat /\ off + n \in Nat /\ off <= off + n /\ off + n <= Len(s) /\ (off + n) - off = n
      BY <1>2, <1>o
    <3>2. /\ u \in Seq(Code) /\ Len(u) = (off + n) - off /\ \A i \in 1..((off + n) - off) : u[i] = s[off + i]
      BY Zenon, <3>1, PartFacts
    <3> QED BY Zenon, <3>1, <3>2
  <2>2. v \in Seq(Code) /\ Len(v) = n /\ \A i \in 1..n : v[i] = q[i]
    BY Zenon, <1>1, Beginning
  <2>3. \A i \in 1..n : i \in 1..Len(q) /\ Len(s) - Len(q) + i = off + i BY Zenon, <1>h
  <2> HIDE DEF u, v
  <2>4. \A i \in 1..n : u[i] = v[i] BY Zenon, <1>0, <2>1, <2>2, <2>3
  <2>5. u = v BY Zenon, <2>1, <2>2, <2>4, SeqEqual
  <2> QED BY Zenon, <2>5 DEF u, v
<1>11. ASSUME NEW i \in 1..Len(b1)
       PROVE  w[i - 1] < w[i] /\ B!Spells(SubSeq(s, w[i - 1] + 1, w[i]), b1[i])
  <2>1. CASE i = Len(b1)
    <3>1. i - 1 = Len(b) /\ i - 1 \in 0..Len(b) /\ i = Len(b) + 1 BY <1>2, <1>4, <2>1
    <3>2. w[i - 1] = off /\ w[i] = off + n /\ b1[i] = byte BY Zenon, <1>4, <1>7, <1>9, <2>1, <3>1
    <3>3. off < off + n BY <1>2, <1>o
    <3> QED BY Zenon, <1>1, <1>10, <3>2, <3>3
  <2>2. CASE i # Len(b1)
    <3>1. i \in 1..Len(b) /\ i \in 0..Len(b) /\ i - 1 \in 0..Len(b) BY <1>2, <1>4, <2>2
    <3>2. w[i - 1] = where[i - 1] /\ w[i] = where[i] /\ b1[i] = b[i] BY Zenon, <1>4, <1>9, <3>1
    <3> QED BY Zenon, <1>6, <3>1, <3>2
  <2> QED BY Zenon, <2>1, <2>2
<1>12. w[0] = 0 /\ w[Len(b1)] + Len(q1) = Len(s)
  <2>1. 0 \in 0..Len(b) BY <1>2
  <2>3. (off + n) + Len(q1) = Len(s) BY Zenon, <1>3, <1>h
  <2> QED BY Zenon, <1>6, <1>9, <2>1, <2>3
<1>13. Row(w)'
  BY Zenon, <1>1, <1>3, <1>4, <1>8, <1>11, <1>12 DEF Row
<1> QED BY Zenon, <1>5, <1>13

\* Every byte is spelled in some characters.
LEMMA SpelledTyped ==
  ASSUME NEW b \in Byte
  PROVE  B!Spelled(b) \in Seq(Code) /\ B!Spelled(b) # <<>>
<1>1. CASE b \in B!Printable \ {B!Backslash}
  <2>1. B!Spelled(b) = <<b>> /\ b \in Code BY Zenon, <1>1, SpelledFacts, Letters
  <2>2. <<b>> \in Seq(Code) /\ <<b>> # <<>> BY <2>1
  <2> QED BY Zenon, <2>1, <2>2
<1>2. CASE b \notin B!Printable \ {B!Backslash}
  <2>1. PICK h \in Code, l \in Code : B!Spelled(b) = <<B!Backslash, B!LowerX, h, l>>
      BY Zenon, <1>2, SpelledFacts
  <2>2. PICK x \in Code, y \in Code : x = B!Backslash /\ y = B!LowerX BY Zenon, Letters
  <2>3. <<x, y, h, l>> \in Seq(Code) /\ <<x, y, h, l>> # <<>> OBVIOUS
  <2> QED BY Zenon, <2>1, <2>2, <2>3
<1> QED BY Zenon, <1>1, <1>2

\* What is written for the bytes that are left is a text.
LEMMA LeftTyped ==
  ASSUME B!StringAssumption, NEW r \in Seq(Byte)
  PROVE  \A n \in 0..Len(Full(r)) : Left(r, n) \in Seq(Code)
<1> DEFINE T == {n \in 0..Len(Full(r)) : Left(r, n) \in Seq(Code)}
<1>1. Full(r) \in Seq(Byte) /\ Len(Full(r)) \in Nat
  BY Zenon, ShownFacts, LenProperties
<1>2. \A b \in Byte : B!Spelled(b) \in Seq(Code)
  BY Zenon, SpelledTyped
<1>3. 0 \in T
  <2>1. 0 \in 0..Len(Full(r)) BY <1>1
  <2>2. Left(r, 0) = <<>> BY Zenon, LeftFacts
  <2> QED BY Zenon, <2>1, <2>2, EmptySeq
<1>4. ASSUME NEW n \in 0..Len(Full(r)), n \in T, n < Len(Full(r)) PROVE n + 1 \in T
  <2>1. PICK f \in Seq(Byte) : f = Full(r) /\ Len(f) \in Nat BY Zenon, <1>1
  <2>2. /\ n + 1 \in 1..Len(f) /\ n + 1 \in 0..Len(f) /\ (n + 1) - 1 = n
        /\ Len(f) - (n + 1) + 1 \in 1..Len(f)
    <3>1. n \in 0..Len(f) /\ n < Len(f) BY Zenon, <1>4, <2>1
    <3> QED BY <2>1, <3>1
  <2>3. f[Len(f) - (n + 1) + 1] \in Byte BY Zenon, <2>2, ElementOfSeq
  <2>4. Left(r, n + 1) = B!Spelled(f[Len(f) - (n + 1) + 1]) \o Left(r, n)
    BY Zenon, <2>1, <2>2, LeftFacts
  <2>5. Left(r, n) \in Seq(Code) BY Zenon, <1>4
  <2>6. Left(r, n + 1) \in Seq(Code) BY Zenon, <1>2, <2>3, <2>4, <2>5, ConcatProperties
  <2> QED BY Zenon, <2>1, <2>2, <2>6
<1> HIDE DEF T
<1>5. \A n \in 0..Len(Full(r)) : n \in T
  BY Zenon, <1>1, <1>3, <1>4, UpTo
<1> QED BY Zenon, <1>5 DEF T

\* The loop reads the word for a byte as that byte.
LEMMA WordRead ==
  ASSUME B!Decode, NEW b \in Byte, NEW t \in Seq(Code), rest = B!Spelled(b) \o t
  PROVE  rest' = t /\ bytes' = Append(bytes, b) /\ verdict' = "decoding" /\ rest # <<>>
<1>1. ASSUME NEW u \in Seq(Code), Len(u) >= 1, NEW q, q = u \o t
      PROVE  /\ q \in Seq(Code) /\ Len(q) = Len(u) + Len(t) /\ q # <<>> /\ Head(q) = u[1]
             /\ \A i \in 1..Len(u) : q[i] = u[i]
             /\ SubSeq(q, Len(u) + 1, Len(q)) = t
  <2>0. Len(u) \in Nat /\ Len(t) \in Nat BY Zenon, LenProperties
  <2>1. /\ q \in Seq(Code) /\ Len(q) = Len(u) + Len(t)
        /\ \A i \in 1..(Len(u) + Len(t)) : q[i] = IF i <= Len(u) THEN u[i] ELSE t[i - Len(u)]
    BY <1>1, ConcatProperties
  <2>2. \A i \in 1..Len(u) : q[i] = u[i] BY <2>0, <2>1
  <2>3. q # <<>> /\ Head(q) = u[1]
    <3>1. Len(q) >= 1 /\ 1 \in 1..Len(u) BY <1>1, <2>0, <2>1
    <3>2. q # <<>> BY <2>1, <3>1
    <3>3. Head(q) = q[1] BY <2>1, <3>2
    <3> QED BY Zenon, <2>2, <3>1, <3>2, <3>3
  <2>4. SubSeq(q, Len(u) + 1, Len(q)) = t
    <3>1. /\ Len(u) <= Len(q) /\ Len(q) <= Len(q) /\ Len(q) \in Nat /\ Len(q) - Len(u) = Len(t)
      BY <2>0, <2>1
    <3>2. PICK v \in Seq(Code) : /\ v = SubSeq(q, Len(u) + 1, Len(q)) /\ Len(v) = Len(t)
                                 /\ \A i \in 1..Len(t) : v[i] = q[Len(u) + i]
      <4>1. /\ SubSeq(q, Len(u) + 1, Len(q)) \in Seq(Code)
            /\ Len(SubSeq(q, Len(u) + 1, Len(q))) = Len(q) - Len(u)
            /\ \A i \in 1..(Len(q) - Len(u)) : SubSeq(q, Len(u) + 1, Len(q))[i] = q[Len(u) + i]
        <5>1. q \in Seq(Code) BY Zenon, <2>1
        <5> QED BY Zenon, <2>0, <3>1, <5>1, PartFacts
      <4> QED BY Zenon, <3>1, <4>1
    <3>3. ASSUME NEW i \in 1..Len(t) PROVE v[i] = t[i]
      <4>1. Len(u) + i \in 1..(Len(u) + Len(t)) /\ ~(Len(u) + i <= Len(u)) /\ (Len(u) + i) - Len(u) = i
        BY <2>0
      <4> QED BY Zenon, <2>1, <3>2, <4>1
    <3>4. v = t BY Zenon, <3>2, <3>3, SeqEqual
    <3> QED BY Zenon, <3>2, <3>4
  <2> QED BY Zenon, <2>1, <2>2, <2>3, <2>4
<1>2. verdict = "decoding" BY Zenon DEF B!Decode
<1>3. CASE b \in B!Printable \ {B!Backslash}
  <2>1. B!Spelled(b) = <<b>> /\ b \in Code BY Zenon, <1>3, SpelledFacts, Letters
  <2>2. PICK u \in Seq(Code) : u = <<b>> /\ Len(u) = 1 /\ Len(u) >= 1 /\ u[1] = b
    <3>1. <<b>> \in Seq(Code) /\ Len(<<b>>) = 1 /\ <<b>>[1] = b /\ 1 >= 1 BY <2>1
    <3> QED BY Zenon, <3>1
  <2>3. rest # <<>> /\ Head(rest) = b /\ SubSeq(rest, 1 + 1, Len(rest)) = t
    BY Zenon, <1>1, <2>1, <2>2
  <2> QED BY Zenon, <1>2, <1>3, <2>3 DEF B!Decode, B!Takes
<1>4. CASE b \notin B!Printable \ {B!Backslash}
  <2>1. PICK h \in Code, l \in Code : /\ B!Spelled(b) = <<B!Backslash, B!LowerX, h, l>>
                                      /\ B!Digit(h) < 16 /\ B!Digit(l) < 16
                                      /\ B!Digit(h) * 16 + B!Digit(l) = b
    BY Zenon, <1>4, SpelledFacts
  <2>2. PICK x \in Code, y \in Code : x = B!Backslash /\ y = B!LowerX BY Zenon, Letters
  <2>3. PICK u \in Seq(Code) : /\ u = <<x, y, h, l>> /\ Len(u) = 4 /\ Len(u) >= 1
                               /\ u[1] = x /\ u[2] = y /\ u[3] = h /\ u[4] = l
    <3> DEFINE u == <<x, y, h, l>>
    <3>1. u \in Seq(Code) /\ Len(u) = 4 OBVIOUS
    <3>2. u[1] = x /\ u[2] = y /\ u[3] = h /\ u[4] = l OBVIOUS
    <3>3. 4 >= 1 OBVIOUS
    <3> QED BY Zenon, <3>1, <3>2, <3>3
  <2>4. rest = u \o t BY Zenon, <2>1, <2>2, <2>3
  <2>5. /\ rest # <<>> /\ Head(rest) = x /\ SubSeq(rest, 4 + 1, Len(rest)) = t
        /\ \A i \in 1..4 : rest[i] = u[i]
    BY Zenon, <1>1, <2>3, <2>4
  <2>6. rest[2] = y /\ rest[3] = h /\ rest[4] = l
    <3>1. 2 \in 1..4 /\ 3 \in 1..4 /\ 4 \in 1..4 OBVIOUS
    <3> QED BY Zenon, <2>3, <2>5, <3>1
  <2>7. Len(rest) >= 4 /\ Len(rest) >= 2
    <3>1. Len(rest) = Len(u) + Len(t) BY Zenon, <1>1, <2>3, <2>4
    <3>2. Len(t) \in Nat BY Zenon, LenProperties
    <3>3. Len(u) = 4 BY Zenon, <2>3
    <3> QED BY <3>1, <3>2, <3>3
  <2>8. B!TwoDigits BY Zenon, <2>1, <2>6, <2>7 DEF B!TwoDigits
  <2>9. B!Escape
    BY Zenon, <2>2, <2>5, Letters DEF B!Decode
  <2>10. B!Takes(4, B!Digit(rest[3]) * 16 + B!Digit(rest[4]))
    BY Zenon, <2>2, <2>6, <2>7, <2>8, <2>9, Letters DEF B!Escape
  <2> QED BY Zenon, <1>2, <2>1, <2>5, <2>6, <2>10 DEF B!Takes
<1> QED BY Zenon, <1>3, <1>4

\* At first nothing is read.
LEMMA StringInit == B!StringAssumption /\ B!Init => StringInv
<1> SUFFICES ASSUME B!StringAssumption, B!Init PROVE StringInv
  BY Zenon
<1>1. rest = source /\ bytes = <<>> /\ verdict = "decoding" BY Zenon DEF B!Init
<1>2. of \in Seq(Byte) /\ source \in Seq(Code) /\ (of # <<>> => source = B!Preview(of))
  <2>0. Chars \subseteq Code /\ Bytes \subseteq Byte /\ MaxChars \in Nat /\ Shown + 1 \in Nat
    BY DEF B!StringAssumption, Code, Byte
  <2>1. ASSUME NEW S, NEW T, S \subseteq T, NEW m \in Nat, NEW n \in 0..m, NEW f \in [1..n -> S]
        PROVE  f \in Seq(T)
    <3>1. n \in Nat BY <2>1
    <3>2. f \in Seq(S) BY <3>1
    <3> QED BY Zenon, <2>1, <3>2, SeqMonotonic
  <2>2. CASE of = <<>> /\ \E n \in 0..MaxChars : source \in [1..n -> Chars]
    BY Zenon, <2>0, <2>1, <2>2, EmptySeq
  <2>3. CASE (\E n \in 0..(Shown + 1) : of \in [1..n -> Bytes]) /\ source = B!Preview(of)
    <3>1. of \in Seq(Byte) BY Zenon, <2>0, <2>1, <2>3
    <3>2. Len(Full(of)) \in 0..Len(Full(of))
      <4>1. Len(Full(of)) \in Nat BY Zenon, <3>1, ShownFacts, LenProperties
      <4> QED BY <4>1
    <3> QED BY Zenon, <2>3, <3>1, <3>2, LeftFacts, LeftTyped
  <2> QED BY Zenon, <2>2, <2>3 DEF B!Init
<1>3. Suffix
  <2>1. Len(source) \in Nat BY Zenon, <1>2, LenProperties
  <2>2. Len(source) <= Len(source) /\ \A i \in 1..Len(source) : Len(source) - Len(source) + i = i BY <2>1
  <2> QED BY Zenon, <1>1, <1>2, <2>2, EmptySeq DEF Suffix
<1>4. \E where : Row(where)
  <2>1. PICK l \in Nat : l = Len(source) BY Zenon, <1>2, LenProperties
  <2>2. Len(bytes) = 0 BY Zenon, <1>1, EmptySeq
  <2> DEFINE w == [i \in 0..0 |-> 0]
  <2>3. w \in [0..0 -> 0..l] /\ w[0] = 0 /\ w[0] + l = l OBVIOUS
  <2>4. \A i \in 1..0 : FALSE OBVIOUS
  <2> HIDE DEF w
  <2>5. Row(w) BY Zenon, <1>1, <2>1, <2>2, <2>3, <2>4 DEF Row
  <2> QED BY Zenon, <2>5
<1>5. Previewed
  <2> SUFFICES ASSUME of # <<>>
               PROVE  \E n \in 0..Len(Full(of)) :
                        rest = Left(of, n) /\ bytes = SubSeq(Full(of), 1, Len(Full(of)) - n)
    BY Zenon, <1>1 DEF Previewed
  <2>1. Len(Full(of)) \in Nat BY Zenon, <1>2, ShownFacts, LenProperties
  <2>2. PICK n \in Nat : n = Len(Full(of)) BY Zenon, <2>1
  <2>3. n \in 0..n /\ 1 \in Int /\ n - n \in Int /\ n - n < 1 OBVIOUS
  <2>4. SubSeq(Full(of), 1, n - n) = <<>> BY Zenon, <2>3, SubSeqEmpty
  <2>5. rest = Left(of, n) BY Zenon, <1>1, <1>2, <2>2, LeftFacts
  <2> QED BY Zenon, <1>1, <2>2, <2>3, <2>4, <2>5
<1> QED BY Zenon, <1>1, <1>3, <1>4, <1>5 DEF StringInv, Verdicts

\* Every turn keeps the row, and what is left of a preview.
LEMMA StringNext == StringInv /\ [B!Next]_(B!vars) => StringInv'
<1> SUFFICES ASSUME StringInv, [B!Next]_(B!vars) PROVE StringInv'
  BY Zenon
<1>0. B!StringAssumption' /\ Suffix /\ of \in Seq(Byte)
  BY Zenon DEF StringInv, B!StringAssumption, Suffix
<1>1. CASE UNCHANGED B!vars
  BY Zenon, <1>0, <1>1 DEF StringInv, B!vars, Suffix, Row, Verdicts, Stuck, Previewed
<1>2. CASE B!Decode
  <2>1. verdict = "decoding" /\ UNCHANGED <<source, of>> BY Zenon, <1>0, <1>2, DecodeTurn
  <2>2. Suffix' /\ (\E where : Row(where)') /\ Verdicts'
    <3>1. CASE rest = <<>> /\ verdict' = "ok" /\ UNCHANGED <<rest, bytes>>
      BY Zenon, <2>1, <3>1 DEF StringInv, Suffix, Row, Verdicts
    <3>2. CASE B!Refuses /\ Stuck
      BY Zenon, <2>1, <3>2 DEF StringInv, Suffix, Row, Verdicts, Stuck, B!Refuses
    <3>3. ASSUME NEW n \in 1..Len(rest), NEW byte \in Code,
                 B!Takes(n, byte), B!Spells(SubSeq(rest, 1, n), byte)
          PROVE  Suffix' /\ (\E where : Row(where)') /\ Verdicts'
      <4>1. PICK where : Row(where) BY Zenon DEF StringInv
      <4>2. Verdicts' BY Zenon, <2>1, <3>3 DEF B!Takes, Verdicts
      <4> QED BY Zenon, <1>0, <2>1, <3>3, <4>1, <4>2, TakeKeepsRow
    <3> QED BY Zenon, <1>0, <1>2, <3>1, <3>2, <3>3, DecodeTurn
  <2>3. Previewed'
    <3> SUFFICES ASSUME of # <<>>
                 PROVE  /\ verdict' # "refused"
                        /\ \E n \in 0..Len(Full(of)) :
                             rest' = Left(of, n) /\ bytes' = SubSeq(Full(of), 1, Len(Full(of)) - n)
      BY Zenon, <2>1 DEF Previewed
    <3>1. PICK f \in Seq(Byte) : f = Full(of) /\ Len(f) \in Nat BY Zenon, <1>0, ShownFacts, LenProperties DEF StringInv
    <3>2. PICK n \in 0..Len(f) : rest = Left(of, n) /\ bytes = SubSeq(f, 1, Len(f) - n)
      BY Zenon, <3>1 DEF StringInv, Previewed
    <3>3. CASE n = 0
      <4>1. rest = <<>> BY Zenon, <1>0, <3>2, <3>3, LeftFacts DEF StringInv
      <4> QED BY Zenon, <1>2, <3>1, <3>2, <4>1 DEF B!Decode
    <3>4. CASE n # 0
      <4>1. /\ n \in 1..Len(f) /\ n - 1 \in 0..Len(f) /\ Len(f) - n + 1 \in 1..Len(f)
            /\ Len(f) - (n - 1) = Len(f) - n + 1 /\ (Len(f) - n + 1) - 1 = Len(f) - n
        BY <3>1, <3>4
      <4>2. PICK b \in Byte : b = f[Len(f) - n + 1] BY Zenon, <4>1, ElementOfSeq
      <4>3. rest = B!Spelled(b) \o Left(of, n - 1)
        BY Zenon, <1>0, <3>1, <3>2, <4>1, <4>2, LeftFacts DEF StringInv
      <4>4. Left(of, n - 1) \in Seq(Code) BY Zenon, <1>0, <3>1, <4>1, LeftTyped DEF StringInv
      <4>5. rest' = Left(of, n - 1) /\ bytes' = Append(bytes, b) /\ verdict' = "decoding"
        BY Zenon, <1>2, <4>3, <4>4, WordRead
      <4>6. Append(SubSeq(f, 1, Len(f) - n), b) = SubSeq(f, 1, Len(f) - n + 1)
        <5>1. PICK m \in 1..Len(f) : m = Len(f) - n + 1 BY Zenon, <4>1
        <5>2. Len(f) - n \in Int /\ 1 \in Int /\ 1 \in 1..Len(f) /\ m \in 1..Len(f)
          BY <3>1, <4>1
        <5>3. SubSeq(f, 1, Len(f) - n) \in Seq(Byte)
          <6>1. \A i \in 1..(Len(f) - n) : i \in 1..Len(f) BY <3>1, <3>2
          <6>2. \A i \in 1..(Len(f) - n) : f[i] \in Byte BY Zenon, <6>1, ElementOfSeq
          <6> QED BY Zenon, <5>2, <6>2, SubSeqProperties
        <5>4. SubSeq(f, 1, m) = SubSeq(f, 1, m - 1) \o <<f[m]>>
          BY Zenon, <5>2, SubSeqRecursiveSecond
        <5>5. Append(SubSeq(f, 1, Len(f) - n), b) = SubSeq(f, 1, Len(f) - n) \o <<b>>
          BY Zenon, <5>3, AppendIsConcat
        <5> QED BY Zenon, <4>1, <4>2, <5>1, <5>4, <5>5
      <4> QED BY Zenon, <3>1, <3>2, <4>1, <4>5, <4>6
    <3> QED BY Zenon, <3>3, <3>4
  <2> QED BY Zenon, <1>0, <2>2, <2>3 DEF StringInv
<1> QED BY Zenon, <1>1, <1>2 DEF B!Next

\* Of what has been read nothing is left only when all of it was read.
LEMMA AllRead ==
  ASSUME B!StringAssumption, NEW r \in Seq(Byte), NEW n \in 1..Len(Full(r))
  PROVE  Left(r, n) # <<>>
<1>1. PICK f \in Seq(Byte) : f = Full(r) /\ Len(f) \in Nat BY Zenon, ShownFacts, LenProperties
<1>2. n \in 1..Len(f) /\ n \in 0..Len(f) /\ n - 1 \in 0..Len(f) /\ Len(f) - n + 1 \in 1..Len(f)
  <2>1. n \in 1..Len(f) BY Zenon, <1>1
  <2> QED BY <1>1, <2>1
<1>3. PICK b \in Byte : b = f[Len(f) - n + 1] BY Zenon, <1>2, ElementOfSeq
<1>4. PICK t \in Seq(Code) : t = Left(r, n - 1) BY Zenon, <1>1, <1>2, LeftTyped
<1>5. Left(r, n) = B!Spelled(b) \o t BY Zenon, <1>1, <1>2, <1>3, <1>4, LeftFacts
<1>6. PICK w \in Seq(Code) : w = B!Spelled(b) /\ w # <<>> BY Zenon, SpelledTyped
<1>7. w \o t # <<>>
  <2>1. Len(w \o t) = Len(w) + Len(t) BY Zenon, ConcatProperties
  <2>2. Len(w) \in Nat \ {0} /\ Len(t) \in Nat BY Zenon, <1>6, EmptySeq, LenProperties
  <2>3. Len(w \o t) # 0 BY <2>1, <2>2
  <2> QED BY Zenon, <2>3, EmptySeq
<1> QED BY Zenon, <1>5, <1>6, <1>7

\* A manifest's byte string is read as its notation says, and refused where no word of it
\* follows; what preview writes of a response is read back as the bytes it shows and the
\* dots, for strings of any length (decode_byte_string and preview).
THEOREM NotationAgrees == B!StringAssumption => (B!Spec => []ByteStringsAgree)
<1>1. StringInv => ByteStringsAgree
  <2> SUFFICES ASSUME StringInv PROVE ByteStringsAgree
    BY Zenon
  <2>1. verdict = "ok" => B!Reads(bytes)
    <3> SUFFICES ASSUME rest = <<>> PROVE B!Reads(bytes)
      BY Zenon DEF StringInv, Verdicts
    <3>1. PICK where : Row(where) BY Zenon DEF StringInv
    <3>2. PICK b \in Seq(Code), s \in Seq(Code) : b = bytes /\ s = source
      BY Zenon DEF StringInv, Suffix
    <3>3. /\ Len(b) \in Nat /\ Len(s) \in Nat /\ DOMAIN b = 1..Len(b) /\ Len(rest) = 0
      BY Zenon, LenProperties, EmptySeq
    <3>4. where[Len(b)] = Len(s)
      <4>1. Len(b) \in 0..Len(b) BY <3>3
      <4>2. where[Len(b)] \in 0..Len(s) /\ where[Len(b)] + 0 = Len(s)
        BY Zenon, <3>1, <3>2, <3>3, <4>1 DEF Row
      <4>3. PICK x \in 0..Len(s) : x = where[Len(b)] /\ x + 0 = Len(s) BY Zenon, <4>2
      <4>4. x = x + 0 BY <3>3
      <4> QED BY Zenon, <4>3, <4>4
    <3> QED BY Zenon, <3>1, <3>2, <3>3, <3>4 DEF B!Reads, Row
  <2>2. verdict = "refused" =>
          \A n \in 1..Len(rest) : \A byte \in 0..255 : ~B!Spells(SubSeq(rest, 1, n), byte)
    <3>1. verdict = "refused" => Stuck BY Zenon DEF StringInv, Verdicts
    <3> SUFFICES ASSUME Stuck, NEW n \in 1..Len(rest), NEW byte \in 0..255
                 PROVE  ~B!Spells(SubSeq(rest, 1, n), byte)
      BY Zenon, <3>1
    <3>2. byte \in Byte BY SMT DEF Byte
    <3> QED BY Zenon, <3>2 DEF Stuck
  <2>3. B!PreviewDecodes
    <3> SUFFICES ASSUME of # <<>>, verdict = "ok" PROVE bytes = Full(of)
      BY Zenon DEF StringInv, Previewed, B!PreviewDecodes, Full, Shows
    <3>1. of \in Seq(Byte) /\ B!StringAssumption /\ rest = <<>> BY Zenon DEF StringInv, Suffix, Verdicts
    <3>2. PICK f \in Seq(Byte) : f = Full(of) /\ Len(f) \in Nat BY Zenon, <3>1, ShownFacts, LenProperties
    <3>3. PICK n \in 0..Len(f) : rest = Left(of, n) /\ bytes = SubSeq(f, 1, Len(f) - n)
      BY Zenon, <3>2 DEF StringInv, Previewed
    <3>4. n = 0 \/ n \in 1..Len(f) BY <3>2
    <3>5. n = 0 BY Zenon, <3>1, <3>2, <3>3, <3>4, AllRead
    <3>6. Len(f) - 0 = Len(f) BY <3>2
    <3> QED BY Zenon, <3>2, <3>3, <3>5, <3>6, SubSeqFull
  <2> QED BY Zenon, <2>1, <2>2, <2>3 DEF ByteStringsAgree, B!ByteStringsAgree, B!DecodesNotation
<1> QED
  BY <1>1, StringInit, StringNext, PTL DEF B!Spec

=============================================================================
