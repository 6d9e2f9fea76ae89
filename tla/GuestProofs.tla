---------------------------- MODULE GuestProofs ----------------------------
(***************************************************************************)
(* The guest inside its host, for any number of threads.  What a freeze and *)
(* its forks leave of its connections (Freeze), for any descriptors and     *)
(* generations; then what start may conclude from the readiness probe       *)
(* (Ready), for any time-outs and intervals.                                *)
(***************************************************************************)
EXTENDS Freeze, MCReady, FiniteSetTheorems, SequenceTheorems, TLAPS

-----------------------------------------------------------------------------
(* Freeze.                                                                   *)

\* A descriptor is in one hand at a time, outside Connections while it is
\* accepted or dropped and inside while the guest holds it.
Hands ==
  /\ \A t \in Threads : holds[t] # None <=> thread[t] \in {"accepting", "dropping"}
  /\ \A t, u \in Threads : holds[t] # None /\ holds[t] = holds[u] => t = u
  /\ \A t \in Threads : holds[t] # None => file[holds[t]] \in Connection

Tracking ==
  \A f \in Fds : f \in tracked <=> file[f] \in Connection /\ \A t \in Threads : holds[t] # f

\* A coroutine without a thread is suspended, and none has a thread once the
\* guest is drained.
Drains ==
  /\ \A t \in Threads : t \notin driven => thread[t] \in Suspended
  /\ step \in {"dismantling", "frozen"} => driven = {}

Silent == step = "frozen" => listener = "halted" /\ \A f \in Fds : file[f] # "live"

\* One generation per runtime, within the bound.
Numbered ==
  /\ runtime = generation
  /\ step \in {"checked", "draining", "dismantling", "frozen"} => generation < MaxGeneration

Counted == in_flight = Cardinality({k \in Tasks : task[k] # None})

Inv == TypeOK /\ Hands /\ Tracking /\ Drains /\ Silent /\ Numbered

-----------------------------------------------------------------------------
\* A host that has just become ready has no connections, and nothing in flight.
LEMMA InitInv == Init => Inv /\ Counted
<1>1. Init => Inv
  BY NoneAssumption, GenerationAssumption
  DEF Init, Inv, TypeOK, Hands, Tracking, Drains, Silent, Numbered, Generations, Suspended, Connection
<1>2. Init => Counted
  <2>1. Init => {k \in Tasks : task[k] # None} = {}
    BY Zenon DEF Init
  <2> QED
    BY Zenon, <2>1, FS_EmptySet DEF Init, Counted
<1> QED
  BY Zenon, <1>1, <1>2

\* What is counted never goes below zero: a task that ends was counted.
LEMMA NextCounted == TypeOK /\ Counted /\ [Next]_vars => Counted'
<1> SUFFICES ASSUME TypeOK, Counted, [Next]_vars PROVE Counted'
  BY Zenon
<1> DEFINE S == {k \in Tasks : task[k] # None}
<1>1. IsFiniteSet(S) /\ Cardinality(S) = in_flight
  BY Zenon, TaskAssumption, FS_Subset DEF Counted
<1>2. ASSUME NEW t \in Threads, NEW k \in Tasks, TaskShared(t, k) PROVE Counted'
  <2>1. S' = S \cup {k} /\ k \notin S
    BY <1>2, NoneAssumption DEF TaskShared, TypeOK, Generations
  <2>2. Cardinality(S') = Cardinality(S) + 1
    BY Zenon, <1>1, <2>1, FS_AddElement
  <2> QED
    BY Zenon, <1>1, <1>2, <2>2 DEF Counted, TaskShared, OneMore
<1>3. ASSUME NEW k \in Tasks, TaskEnds(k) PROVE Counted'
  <2>1. S' = S \ {k} /\ k \in S
    BY <1>3, NoneAssumption DEF TaskEnds, TypeOK, Generations
  <2>2. Cardinality(S') = Cardinality(S) - 1
    BY Zenon, <1>1, <2>1, FS_RemoveElement
  <2> QED
    BY Zenon, <1>1, <1>3, <2>2 DEF Counted, TaskEnds
<1>4. CASE UNCHANGED tasks
  BY Zenon, <1>4 DEF Counted, tasks
<1>5. \/ UNCHANGED tasks
      \/ \E t \in Threads, k \in Tasks : TaskShared(t, k)
      \/ \E k \in Tasks : TaskEnds(k)
  BY DEF Next, vars, Guest, Control, Elsewhere, tasks, Track, Close, Wait, Resume, SleepNow, PollSleep,
         Wake, Retire, Connect, Accept, Forget, OpenFile, CloseFile, PeerEnds, CheckTasks, CloseGate, Dismantle,
         FreezeTimesOut, Freeze, WorkerParks, ForkRebuilt, ForkFails
<1> QED
  BY Zenon, <1>2, <1>3, <1>4, <1>5

\* Every step keeps the types, given the numbers they rest on.
LEMMA NextType ==
  ASSUME TypeOK, Numbered, Counted, Hands, [Next]_vars PROVE TypeOK'
<1> USE GenerationAssumption, NoneAssumption
    DEF TypeOK, Numbered, Generations, Suspended, Connection, host, control, sockets, tasks, Elsewhere
<1>1. ASSUME NEW t \in Threads, Track(t) PROVE TypeOK'
  BY <1>1 DEF Track, Hands
<1>2. ASSUME NEW t \in Threads, Close(t) PROVE TypeOK'
  BY Zenon, <1>2 DEF Close, Closes, Hands
<1>3. ASSUME NEW t \in Threads, Wait(t) PROVE TypeOK'
  BY Zenon, <1>3 DEF Wait, Runs
<1>4. ASSUME NEW t \in Threads, Resume(t) PROVE TypeOK'
  BY Zenon, <1>4 DEF Resume
<1>5. ASSUME NEW t \in Threads, SleepNow(t) PROVE TypeOK'
  BY Zenon, <1>5 DEF SleepNow, Runs
<1>6. ASSUME NEW t \in Threads, PollSleep(t) PROVE TypeOK'
  BY Zenon, <1>6 DEF PollSleep
<1>7. ASSUME NEW t \in Threads, Wake(t) PROVE TypeOK'
  BY Zenon, <1>7 DEF Wake
<1>8. ASSUME NEW t \in Threads, Retire(t) PROVE TypeOK'
  BY Zenon, <1>8 DEF Retire
<1>9. ASSUME NEW t \in Threads, NEW f \in Fds, Accept(t, f) PROVE TypeOK'
  BY Zenon, <1>9 DEF Accept, Runs
<1>10. ASSUME NEW t \in Threads, NEW f \in Fds, Forget(t, f) PROVE TypeOK'
  BY Zenon, <1>10 DEF Forget, Forgets, Runs
<1>11. ASSUME NEW t \in Threads, NEW f \in Fds, OpenFile(t, f) PROVE TypeOK'
  BY Zenon, <1>11 DEF OpenFile, Runs
<1>12. ASSUME NEW t \in Threads, NEW f \in Fds, CloseFile(t, f) PROVE TypeOK'
  BY Zenon, <1>12 DEF CloseFile, Runs
<1>13. ASSUME NEW t \in Threads, NEW k \in Tasks, TaskShared(t, k) PROVE TypeOK'
  BY <1>13 DEF TaskShared, OneMore, Runs
<1>14. ASSUME NEW f \in Fds, PeerEnds(f) PROVE TypeOK'
  BY Zenon, <1>14 DEF PeerEnds
<1>15. ASSUME NEW k \in Tasks, TaskEnds(k) PROVE TypeOK'
  <2>1. in_flight # 0
    <3> DEFINE S == {j \in Tasks : task[j] # None}
    <3>1. IsFiniteSet(S)
      BY TaskAssumption, FS_Subset
    <3>2. k \in S
      BY <1>15 DEF TaskEnds
    <3>3. Cardinality(S) # 0
      BY Zenon, <3>1, <3>2, FS_EmptySet
    <3> QED
      BY Zenon, <3>3 DEF Counted
  <2> QED
    BY <1>15, <2>1 DEF TaskEnds
<1>16. CASE CheckTasks
  BY Zenon, <1>16 DEF CheckTasks
<1>17. CASE CloseGate
  BY Zenon, <1>17 DEF CloseGate
<1>18. CASE Dismantle
  BY Zenon, <1>18 DEF Dismantle, Drained
<1>19. CASE FreezeTimesOut
  BY Zenon, <1>19 DEF FreezeTimesOut, TimesOut
<1>20. CASE Freeze
  BY Zenon, <1>20 DEF Freeze, ShutDown
<1>21. CASE WorkerParks
  BY Zenon, <1>21 DEF WorkerParks
<1>22. CASE ForkRebuilt
  BY <1>22 DEF ForkRebuilt, NextGeneration, ReplacedListener
<1>23. CASE ForkFails
  BY Zenon, <1>23 DEF ForkFails
<1>24. CASE Connect
  BY Zenon, <1>24 DEF Connect
<1>25. CASE UNCHANGED vars
  BY <1>25 DEF vars
<1> QED
  BY <1>1, <1>2, <1>3, <1>4, <1>5, <1>6, <1>7, <1>8, <1>9, <1>10, <1>11, <1>12, <1>13, <1>14,
     <1>15, <1>16, <1>17, <1>18, <1>19, <1>20, <1>21, <1>22, <1>23, <1>24, <1>25
  DEF Next, Guest, Control

\* Descriptors change hands one at a time.
LEMMA NextHands ==
  ASSUME TypeOK, Hands, Tracking, Drains, [Next]_vars PROVE Hands'
<1> USE NoneAssumption, GenerationAssumption
    DEF TypeOK, Hands, Tracking, Drains, Generations, Suspended, Connection, host, control, sockets, tasks, Elsewhere
<1>1. ASSUME NEW t \in Threads, Track(t) PROVE Hands'
  BY <1>1 DEF Track
<1>2. ASSUME NEW t \in Threads, Close(t) PROVE Hands'
  BY <1>2 DEF Close, Closes
<1>3. ASSUME NEW t \in Threads, Wait(t) PROVE Hands'
  BY <1>3 DEF Wait, Runs
<1>4. ASSUME NEW t \in Threads, Resume(t) PROVE Hands'
  BY <1>4 DEF Resume
<1>5. ASSUME NEW t \in Threads, SleepNow(t) PROVE Hands'
  BY <1>5 DEF SleepNow, Runs
<1>6. ASSUME NEW t \in Threads, PollSleep(t) PROVE Hands'
  BY <1>6 DEF PollSleep
<1>7. ASSUME NEW t \in Threads, Wake(t) PROVE Hands'
  BY <1>7 DEF Wake
<1>8. ASSUME NEW t \in Threads, Retire(t) PROVE Hands'
  BY <1>8 DEF Retire
<1>9. ASSUME NEW t \in Threads, NEW f \in Fds, Accept(t, f) PROVE Hands'
  BY <1>9 DEF Accept, Runs
<1>10. ASSUME NEW t \in Threads, NEW f \in Fds, Forget(t, f) PROVE Hands'
  BY <1>10 DEF Forget, Forgets, Runs
<1>11. ASSUME NEW t \in Threads, NEW f \in Fds, OpenFile(t, f) PROVE Hands'
  BY <1>11 DEF OpenFile, Runs
<1>12. ASSUME NEW t \in Threads, NEW f \in Fds, CloseFile(t, f) PROVE Hands'
  BY <1>12 DEF CloseFile, Runs
<1>13. ASSUME NEW t \in Threads, NEW k \in Tasks, TaskShared(t, k) PROVE Hands'
  BY <1>13 DEF TaskShared, OneMore, Runs
<1>14. ASSUME NEW f \in Fds, PeerEnds(f) PROVE Hands'
  BY <1>14 DEF PeerEnds
<1>15. ASSUME NEW k \in Tasks, TaskEnds(k) PROVE Hands'
  BY <1>15 DEF TaskEnds
<1>16. CASE CheckTasks
  BY <1>16 DEF CheckTasks
<1>17. CASE CloseGate
  BY <1>17 DEF CloseGate
<1>18. CASE Dismantle
  BY Zenon, <1>18 DEF Dismantle, Drained
<1>19. CASE FreezeTimesOut
  BY <1>19 DEF FreezeTimesOut, TimesOut
<1>20. CASE Freeze
  BY <1>20 DEF Freeze, ShutDown
<1>21. CASE WorkerParks
  BY Zenon, <1>21 DEF WorkerParks
<1>22. CASE ForkRebuilt
  BY Zenon, <1>22 DEF ForkRebuilt, NextGeneration, ReplacedListener
<1>23. CASE ForkFails
  BY Zenon, <1>23 DEF ForkFails
<1>24. CASE Connect
  BY <1>24 DEF Connect
<1>25. CASE UNCHANGED vars
  BY <1>25 DEF vars
<1> QED
  BY <1>1, <1>2, <1>3, <1>4, <1>5, <1>6, <1>7, <1>8, <1>9, <1>10, <1>11, <1>12, <1>13, <1>14,
     <1>15, <1>16, <1>17, <1>18, <1>19, <1>20, <1>21, <1>22, <1>23, <1>24, <1>25
  DEF Next, Guest, Control

\* Connections stays what the guest holds.
LEMMA NextTracking ==
  ASSUME TypeOK, Hands, Tracking, Drains, [Next]_vars PROVE Tracking'
<1> USE NoneAssumption, GenerationAssumption
    DEF TypeOK, Hands, Tracking, Drains, Generations, Suspended, Connection, host, control, sockets, tasks, Elsewhere
<1>1. ASSUME NEW t \in Threads, Track(t) PROVE Tracking'
  BY <1>1 DEF Track
<1>2. ASSUME NEW t \in Threads, Close(t) PROVE Tracking'
  BY <1>2 DEF Close, Closes
<1>3. ASSUME NEW t \in Threads, Wait(t) PROVE Tracking'
  BY <1>3 DEF Wait, Runs
<1>4. ASSUME NEW t \in Threads, Resume(t) PROVE Tracking'
  BY <1>4 DEF Resume
<1>5. ASSUME NEW t \in Threads, SleepNow(t) PROVE Tracking'
  BY <1>5 DEF SleepNow, Runs
<1>6. ASSUME NEW t \in Threads, PollSleep(t) PROVE Tracking'
  BY <1>6 DEF PollSleep
<1>7. ASSUME NEW t \in Threads, Wake(t) PROVE Tracking'
  BY <1>7 DEF Wake
<1>8. ASSUME NEW t \in Threads, Retire(t) PROVE Tracking'
  BY <1>8 DEF Retire
<1>9. ASSUME NEW t \in Threads, NEW f \in Fds, Accept(t, f) PROVE Tracking'
  BY <1>9 DEF Accept, Runs
<1>10. ASSUME NEW t \in Threads, NEW f \in Fds, Forget(t, f) PROVE Tracking'
  BY <1>10 DEF Forget, Forgets, Runs
<1>11. ASSUME NEW t \in Threads, NEW f \in Fds, OpenFile(t, f) PROVE Tracking'
  BY <1>11 DEF OpenFile, Runs
<1>12. ASSUME NEW t \in Threads, NEW f \in Fds, CloseFile(t, f) PROVE Tracking'
  BY <1>12 DEF CloseFile, Runs
<1>13. ASSUME NEW t \in Threads, NEW k \in Tasks, TaskShared(t, k) PROVE Tracking'
  BY <1>13 DEF TaskShared, OneMore, Runs
<1>14. ASSUME NEW f \in Fds, PeerEnds(f) PROVE Tracking'
  BY <1>14 DEF PeerEnds
<1>15. ASSUME NEW k \in Tasks, TaskEnds(k) PROVE Tracking'
  BY <1>15 DEF TaskEnds
<1>16. CASE CheckTasks
  BY <1>16 DEF CheckTasks
<1>17. CASE CloseGate
  BY <1>17 DEF CloseGate
<1>18. CASE Dismantle
  BY <1>18 DEF Dismantle, Drained
<1>19. CASE FreezeTimesOut
  BY <1>19 DEF FreezeTimesOut, TimesOut
<1>20. CASE Freeze
  BY <1>20 DEF Freeze, ShutDown
<1>21. CASE WorkerParks
  BY <1>21 DEF WorkerParks
<1>22. CASE ForkRebuilt
  BY <1>22 DEF ForkRebuilt, NextGeneration, ReplacedListener
<1>23. CASE ForkFails
  BY <1>23 DEF ForkFails
<1>24. CASE Connect
  BY <1>24 DEF Connect
<1>25. CASE UNCHANGED vars
  BY <1>25 DEF vars
<1> QED
  BY <1>1, <1>2, <1>3, <1>4, <1>5, <1>6, <1>7, <1>8, <1>9, <1>10, <1>11, <1>12, <1>13, <1>14,
     <1>15, <1>16, <1>17, <1>18, <1>19, <1>20, <1>21, <1>22, <1>23, <1>24, <1>25
  DEF Next, Guest, Control

\* A thread ends only with its coroutine suspended.
LEMMA NextDrains ==
  ASSUME TypeOK, Hands, Tracking, Drains, Silent, Numbered, [Next]_vars PROVE (Drains /\ Silent /\ Numbered)'
<1> USE NoneAssumption, GenerationAssumption
    DEF TypeOK, Hands, Tracking, Drains, Silent, Numbered, Generations, Suspended, Connection, host, control, sockets, tasks, Elsewhere
<1>1. ASSUME NEW t \in Threads, Track(t) PROVE (Drains /\ Silent /\ Numbered)'
  BY <1>1 DEF Track
<1>2. ASSUME NEW t \in Threads, Close(t) PROVE (Drains /\ Silent /\ Numbered)'
  BY <1>2 DEF Close, Closes
<1>3. ASSUME NEW t \in Threads, Wait(t) PROVE (Drains /\ Silent /\ Numbered)'
  BY <1>3 DEF Wait, Runs
<1>4. ASSUME NEW t \in Threads, Resume(t) PROVE (Drains /\ Silent /\ Numbered)'
  BY <1>4 DEF Resume
<1>5. ASSUME NEW t \in Threads, SleepNow(t) PROVE (Drains /\ Silent /\ Numbered)'
  BY <1>5 DEF SleepNow, Runs
<1>6. ASSUME NEW t \in Threads, PollSleep(t) PROVE (Drains /\ Silent /\ Numbered)'
  BY Zenon, <1>6 DEF PollSleep
<1>7. ASSUME NEW t \in Threads, Wake(t) PROVE (Drains /\ Silent /\ Numbered)'
  BY <1>7 DEF Wake
<1>8. ASSUME NEW t \in Threads, Retire(t) PROVE (Drains /\ Silent /\ Numbered)'
  BY Zenon, <1>8 DEF Retire
<1>9. ASSUME NEW t \in Threads, NEW f \in Fds, Accept(t, f) PROVE (Drains /\ Silent /\ Numbered)'
  BY <1>9 DEF Accept, Runs
<1>10. ASSUME NEW t \in Threads, NEW f \in Fds, Forget(t, f) PROVE (Drains /\ Silent /\ Numbered)'
  BY <1>10 DEF Forget, Forgets, Runs
<1>11. ASSUME NEW t \in Threads, NEW f \in Fds, OpenFile(t, f) PROVE (Drains /\ Silent /\ Numbered)'
  BY Zenon, <1>11 DEF OpenFile, Runs
<1>12. ASSUME NEW t \in Threads, NEW f \in Fds, CloseFile(t, f) PROVE (Drains /\ Silent /\ Numbered)'
  BY Zenon, <1>12 DEF CloseFile, Runs
<1>13. ASSUME NEW t \in Threads, NEW k \in Tasks, TaskShared(t, k) PROVE (Drains /\ Silent /\ Numbered)'
  BY Zenon, <1>13 DEF TaskShared, OneMore, Runs
<1>14. ASSUME NEW f \in Fds, PeerEnds(f) PROVE (Drains /\ Silent /\ Numbered)'
  BY Zenon, <1>14 DEF PeerEnds
<1>15. ASSUME NEW k \in Tasks, TaskEnds(k) PROVE (Drains /\ Silent /\ Numbered)'
  BY Zenon, <1>15 DEF TaskEnds
<1>16. CASE CheckTasks
  BY Zenon, <1>16 DEF CheckTasks
<1>17. CASE CloseGate
  BY Zenon, <1>17 DEF CloseGate
<1>18. CASE Dismantle
  BY Zenon, <1>18 DEF Dismantle, Drained
<1>19. CASE FreezeTimesOut
  BY Zenon, <1>19 DEF FreezeTimesOut, TimesOut
<1>20. CASE Freeze
  BY <1>20 DEF Freeze, ShutDown
<1>21. CASE WorkerParks
  BY Zenon, <1>21 DEF WorkerParks
<1>22. CASE ForkRebuilt
  BY Zenon, <1>22 DEF ForkRebuilt, NextGeneration, ReplacedListener
<1>23. CASE ForkFails
  BY Zenon, <1>23 DEF ForkFails
<1>24. CASE Connect
  BY Zenon, <1>24 DEF Connect
<1>25. CASE UNCHANGED vars
  BY Zenon, <1>25 DEF vars
<1> QED
  BY <1>1, <1>2, <1>3, <1>4, <1>5, <1>6, <1>7, <1>8, <1>9, <1>10, <1>11, <1>12, <1>13, <1>14,
     <1>15, <1>16, <1>17, <1>18, <1>19, <1>20, <1>21, <1>22, <1>23, <1>24, <1>25
  DEF Next, Guest, Control

\* The invariant of every reachable state.
THEOREM Invariance == Spec => [](Inv /\ Counted)
<1>1. Inv /\ Counted /\ [Next]_vars => (Inv /\ Counted)'
  BY Zenon, NextType, NextCounted, NextHands, NextTracking, NextDrains DEF Inv
<1> QED
  BY InitInv, <1>1, PTL DEF Spec

\* Every reachable state has its type; in_flight in particular never wraps.
THEOREM TypeCorrect == Spec => []TypeOK
  BY Invariance, PTL DEF Inv

\* Once the guest is drained, Connections is exactly what the guest holds, and a clone
\* inherits no live connection and no coroutine in mid-operation, and no client is left
\* waiting at the template.
THEOREM NothingLiveForked == Spec => []EndsExactly
<1>1. Inv => TracksExactly
  BY NoneAssumption DEF Inv, TypeOK, Hands, Tracking, Drains, TracksExactly, Suspended
<1>2. Inv => NoLiveInherited
  BY Zenon DEF Inv, Drains, Silent, NoLiveInherited
<1> QED
  BY <1>1, <1>2, Invariance, PTL DEF EndsExactly

\* Tasks lost to a fork stay counted, so that the clone never passes its own check.
THEOREM LossNotHandedOn == Spec => []LostTaskStops
<1>1. Init => LostTaskStops
  BY Zenon DEF Init, LostTaskStops
<1>2. Inv /\ Counted /\ LostTaskStops /\ [Next]_vars => LostTaskStops'
  <2> SUFFICES ASSUME Inv, Counted, LostTaskStops, [Next]_vars PROVE LostTaskStops'
    BY Zenon
  <2>1. CASE CheckTasks
    <3>1. CASE in_flight > 0
      BY Zenon, <2>1, <3>1 DEF CheckTasks, Refuses, Elsewhere, tasks, LostTaskStops
    <3>2. CASE ~(in_flight > 0)
      <4> DEFINE S == {k \in Tasks : task[k] # None}
      <4>1. IsFiniteSet(S) /\ Cardinality(S) = 0
        BY <3>2, TaskAssumption, FS_Subset DEF Counted, Inv, TypeOK
      <4>2. S = {}
        BY Zenon, <4>1, FS_EmptySet
      <4> QED
        BY Zenon, <2>1, <4>2 DEF CheckTasks, Elsewhere, tasks, LostTaskStops
    <3> QED
      BY Zenon, <3>1, <3>2
  <2>2. CASE ForkRebuilt \/ ForkFails
    BY Zenon, <2>2 DEF ForkRebuilt, ForkFails, LostTaskStops
  <2>3. ASSUME NEW t \in Threads, NEW k \in Tasks, TaskShared(t, k) PROVE LostTaskStops'
    BY Zenon, <2>3 DEF TaskShared, host, control, LostTaskStops, Inv, TypeOK
  <2>4. ASSUME NEW k \in Tasks, TaskEnds(k) PROVE LostTaskStops'
    BY Zenon, <2>4 DEF TaskEnds, host, control, LostTaskStops, Inv, TypeOK
  <2>5. CASE CloseGate \/ Dismantle \/ FreezeTimesOut \/ Freeze \/ WorkerParks
    BY Zenon, <2>5 DEF CloseGate, Dismantle, FreezeTimesOut, TimesOut, Freeze, WorkerParks, Elsewhere, tasks,
                LostTaskStops
  <2>6. CASE UNCHANGED <<step, runtime, tasks>>
    BY Zenon, <2>6 DEF tasks, LostTaskStops
  <2>7. ASSUME NEW t \in Threads, Guest(t) PROVE LostTaskStops'
    <3>1. CASE Track(t) \/ Close(t) \/ Wait(t) \/ Resume(t)
      BY Zenon, <2>6, <3>1 DEF Track, Close, Wait, Resume, host, control
    <3>2. CASE SleepNow(t) \/ PollSleep(t) \/ Wake(t) \/ Retire(t)
      BY Zenon, <2>6, <3>2 DEF SleepNow, PollSleep, Wake, Retire, host, control, Elsewhere
    <3>3. ASSUME NEW f \in Fds, Accept(t, f) \/ Forget(t, f) \/ OpenFile(t, f) \/ CloseFile(t, f)
          PROVE  LostTaskStops'
      BY Zenon, <2>6, <3>3 DEF Accept, Forget, OpenFile, CloseFile, host, control
    <3> QED
      BY Zenon, <2>3, <2>7, <3>1, <3>2, <3>3 DEF Guest
  <2>8. ASSUME NEW f \in Fds, PeerEnds(f) PROVE LostTaskStops'
    BY Zenon, <2>6, <2>8 DEF PeerEnds, host, control
  <2>9. CASE Connect
    BY Zenon, <2>6, <2>9 DEF Connect, control
  <2>10. CASE UNCHANGED vars
    BY Zenon, <2>6, <2>10 DEF vars, tasks
  <2> QED
    BY Zenon, <2>1, <2>2, <2>4, <2>5, <2>7, <2>8, <2>9, <2>10 DEF Next, Control
<1> QED
  BY <1>1, <1>2, Invariance, PTL DEF Spec

-----------------------------------------------------------------------------
(* Ready.  The clock never runs past what the probe's thread waits for, and  *)
(* each of its waits ends within what came before it plus its own time-out.  *)

Clocks ==
  /\ R!ReadyAssumption
  /\ now \in Nat /\ wake \in Nat /\ limit \in Nat /\ interval \in 0..MAX_INTERVAL
  /\ pc \in {"none", "connecting", "reading", "sleeping", "ending", "done"}

LastSleep == DEADLINE + MAX_INTERVAL
LastConnect == LastSleep + CONNECT_TIMEOUT
LastAttempt == LastConnect + ATTEMPT_DEADLINE

\* When the wait the probe's thread is in ends at the latest.
Waiting ==
  /\ pc = "none" => now = 0
  /\ pc = "sleeping" => now <= wake /\ wake <= LastSleep
  /\ pc = "connecting" => now <= wake /\ wake <= LastConnect
  /\ pc = "reading" => now <= wake /\ wake <= limit + READ_TIMEOUT /\ limit <= LastAttempt
  /\ pc \in {"ending", "done"} => now <= LastAttempt + READ_TIMEOUT

InTime == Clocks /\ Waiting

-----------------------------------------------------------------------------
\* The pause before the next attempt stays within MAX_INTERVAL.
LEMMA BackoffCapped == Clocks => R!Doubled \in 0..MAX_INTERVAL
  BY DEF Clocks, R!ReadyAssumption, R!Doubled

\* What follows an attempt that fell short is in time, if the attempt ended in time.
LEMMA ShortInTime ==
  ASSUME Clocks, R!FallsShort, UNCHANGED now, now <= LastAttempt + READ_TIMEOUT
  PROVE  InTime'
<1> USE DEF R!ReadyAssumption, Clocks, Waiting, InTime, LastSleep, LastConnect, LastAttempt
<1>1. CASE now >= DEADLINE /\ R!Ends("err") /\ UNCHANGED R!timer
  BY Zenon, <1>1 DEF R!Ends, R!timer
<1>2. CASE /\ now < DEADLINE /\ pc' = "sleeping" /\ wake' = now + interval /\ interval' = R!Doubled
           /\ UNCHANGED <<limit, outcome, events>>
  BY <1>2, BackoffCapped
<1> QED
  BY Zenon, <1>1, <1>2 DEF R!FallsShort

\* Every step keeps the clock within the wait of the probe's thread.
LEMMA NextInTime == InTime /\ [R!Next]_(R!vars) => InTime'
<1> SUFFICES ASSUME InTime, [R!Next]_(R!vars) PROVE InTime'
  BY Zenon
<1> USE DEF R!ReadyAssumption, InTime, LastSleep, LastConnect, LastAttempt
<1>u. ASSUME UNCHANGED <<now, pc, R!timer>> PROVE InTime'
  BY Zenon, <1>u DEF Clocks, Waiting, R!timer
<1>1. CASE R!Connect
  BY <1>1 DEF R!Connect, Clocks, Waiting
<1>2. CASE R!ConnectFails
  BY <1>2, ShortInTime DEF R!ConnectFails, Clocks, Waiting
<1>3. CASE R!Read
  <2>1. now \in Nat /\ now <= LastAttempt + READ_TIMEOUT /\ UNCHANGED now /\ pc = "reading"
    BY <1>3 DEF R!Read, Clocks, Waiting
  <2>2. CASE R!FallsShort
    BY Zenon, <2>1, <2>2, ShortInTime
  <2>3. CASE R!GoesOn /\ R!ReadAgain
    BY <2>1, <2>3 DEF R!GoesOn, R!ReadAgain, Clocks, Waiting
  <2>4. CASE R!Ends("ok") /\ UNCHANGED R!timer
    BY Zenon, <2>1, <2>4 DEF R!Ends, R!timer, Clocks, Waiting
  <2> QED
    BY Zenon, <1>3, <2>2, <2>3, <2>4 DEF R!Read
<1>4. CASE R!Sleep
  BY <1>4 DEF R!Sleep, Clocks, Waiting
<1>5. CASE R!Notify
  BY Zenon, <1>5 DEF R!Notify, R!timer, Clocks, Waiting
<1>6. CASE R!StartTurn
  BY <1>6, <1>u DEF R!StartTurn, R!Spawns, R!timer, Clocks, Waiting
<1>7. CASE R!Tick
  BY <1>7 DEF R!Tick, R!Blocked, R!timer, Clocks, Waiting
<1>8. ASSUME NEW t \in Workers, NEW port \in {"listen", "other"},
             R!Listen(t) \/ R!DropUnserved(t) \/ R!Bind(t, port)
      PROVE  InTime'
  BY Zenon, <1>8, <1>u DEF R!Listen, R!DropUnserved, R!Bind
<1>9. CASE R!GuestServes \/ R!GuestExits \/ R!Accept \/ R!Answer \/ R!TurnAway
  BY Zenon, <1>9, <1>u DEF R!GuestServes, R!GuestExits, R!Accept, R!Answer, R!TurnAway
<1>10. CASE UNCHANGED R!vars
  BY Zenon, <1>10, <1>u DEF R!vars
<1> QED
  BY Zenon, <1>1, <1>2, <1>3, <1>4, <1>5, <1>6, <1>7, <1>8, <1>9, <1>10 DEF R!Next, R!ProbeStep

\* The probe's thread ends, and start gives up, no later than one pause and one attempt
\* after DEADLINE, for any time-outs and whatever the guest does (probe::spawn, attempt).
THEOREM GivesUpInTime == R!ReadyAssumption => (R!Spec => []ProbeEndsInTime)
<1>1. R!ReadyAssumption /\ R!Init => InTime
  BY DEF R!ReadyAssumption, R!Init, InTime, Clocks, Waiting
<1>2. InTime => ProbeEndsInTime
  BY DEF R!ReadyAssumption, InTime, Clocks, Waiting, LastSleep, LastConnect, LastAttempt, ProbeEndsInTime,
         R!ProbeEndsInTime, R!LongestAttempt
<1> QED
  BY <1>1, <1>2, NextInTime, PTL DEF R!Spec

-----------------------------------------------------------------------------
\* While an attempt reads, what it has read is the beginning of what the guest sent on
\* its connection; before its connection nothing has been sent or read.
Heard ==
  /\ sent \in Seq(R!Pieces) /\ response \in Seq(R!Pieces)
  /\ pc \in {"none", "connecting"} => response = <<>>
  /\ pc \in {"none", "connecting", "sleeping"} => sent = <<>> /\ conn = "none"
  /\ pc = "reading" => /\ Len(response) <= Len(sent)
                       /\ \A i \in 1..Len(response) : response[i] = sent[i]

\* An outcome is set once, by an attempt that matched, and start takes it from there.
Told ==
  /\ outcome = "ok" => pc \in {"ending", "done"} /\ R!Matches(sent)
  /\ start = "ready" /\ probe => outcome = "ok"

\* A response that grows by some of what is unread is still the beginning of it all.
LEMMA ReadKeepsOrder ==
  ASSUME NEW s \in Seq(R!Pieces), NEW r \in Seq(R!Pieces), Len(r) <= Len(s),
         \A i \in 1..Len(r) : r[i] = s[i],
         NEW n \in 1..Len(SubSeq(s, Len(r) + 1, Len(s)))
  PROVE  LET q == r \o SubSeq(SubSeq(s, Len(r) + 1, Len(s)), 1, n)
         IN  q \in Seq(R!Pieces) /\ Len(q) <= Len(s) /\ \A i \in 1..Len(q) : q[i] = s[i]
<1> DEFINE u == SubSeq(s, Len(r) + 1, Len(s))
           v == SubSeq(u, 1, n)
<1>1. u \in Seq(R!Pieces) /\ Len(u) = Len(s) - Len(r) /\ \A i \in 1..Len(u) : u[i] = s[Len(r) + i]
  OBVIOUS
<1>2. v \in Seq(R!Pieces) /\ Len(v) = n /\ n <= Len(u) /\ \A i \in 1..n : v[i] = u[i]
  BY <1>1
<1> HIDE DEF u, v
<1>3. /\ r \o v \in Seq(R!Pieces) /\ Len(r \o v) = Len(r) + n
      /\ \A i \in 1..(Len(r) + n) : (r \o v)[i] = IF i <= Len(r) THEN r[i] ELSE v[i - Len(r)]
  BY <1>2, ConcatProperties
<1>4. ASSUME NEW i \in 1..(Len(r) + n) PROVE (r \o v)[i] = s[i]
  <2>1. CASE i <= Len(r)
    BY <2>1, <1>3
  <2>2. CASE i > Len(r)
    <3>1. i - Len(r) \in 1..n /\ (r \o v)[i] = v[i - Len(r)]
      BY <2>2, <1>2, <1>3
    <3>2. v[i - Len(r)] = u[i - Len(r)] /\ i - Len(r) \in 1..Len(u)
      BY <3>1, <1>1, <1>2
    <3>3. u[i - Len(r)] = s[Len(r) + (i - Len(r))]
      BY Zenon, <3>2, <1>1
    <3> QED
      BY <3>1, <3>2, <3>3
  <2> QED
    BY <2>1, <2>2, <1>1, <1>2
<1>5. (r \o v) \in Seq(R!Pieces) /\ Len(r \o v) <= Len(s) /\ \A i \in 1..Len(r \o v) : (r \o v)[i] = s[i]
  BY <1>1, <1>2, <1>3, <1>4
<1> QED
  BY Zenon, <1>5 DEF u, v

\* An answer leaves what was sent before it in place.
LEMMA AnswerKeepsOrder ==
  ASSUME NEW s \in Seq(R!Pieces), NEW p \in R!Pieces
  PROVE  /\ Append(s, p) \in Seq(R!Pieces) /\ Len(Append(s, p)) = Len(s) + 1
         /\ \A i \in 1..Len(s) : Append(s, p)[i] = s[i]
  OBVIOUS

\* What an attempt reads is always the beginning of its own connection's answer.
LEMMA NextHeard == Clocks /\ Heard /\ [R!Next]_(R!vars) => Heard'
<1> SUFFICES ASSUME Clocks, Heard, [R!Next]_(R!vars) PROVE Heard'
  BY Zenon
<1>u. ASSUME UNCHANGED <<sent, response>>,
             pc' \in {"none", "connecting"} => pc' = pc,
             pc' = "reading" => pc = "reading",
             pc' \in {"none", "connecting", "sleeping"} => pc' = pc /\ UNCHANGED conn
      PROVE  Heard'
  BY Zenon, <1>u DEF Heard
<1>f. ASSUME R!FallsShort, response' \in Seq(R!Pieces) PROVE Heard'
  BY <1>f DEF R!FallsShort, R!Ends, Heard
<1>1. CASE R!Connect
  BY <1>1 DEF R!Connect, Heard
<1>2. CASE R!ConnectFails
  BY Zenon, <1>2, <1>f DEF R!ConnectFails, Heard
<1>3. CASE R!Read
  <2>1. ASSUME NEW n \in 1..Len(R!Unread), response' = response \o SubSeq(R!Unread, 1, n)
        PROVE  /\ response' \in Seq(R!Pieces) /\ Len(response') <= Len(sent)
               /\ \A i \in 1..Len(response') : response'[i] = sent[i]
    BY <1>3, <2>1, ReadKeepsOrder DEF R!Read, R!Unread, Heard
  <2>2. response' \in Seq(R!Pieces)
    BY Zenon, <1>3, <2>1 DEF R!Read, Heard
  <2>3. CASE R!FallsShort
    BY Zenon, <2>2, <2>3, <1>f
  <2>4. CASE R!Ends("ok") /\ UNCHANGED <<conn, sent, R!timer>>
    BY Zenon, <2>2, <2>4 DEF R!Ends, Heard
  <2>5. CASE R!ReadAgain
    <3>1. UNCHANGED <<pc, sent, conn>> /\ pc = "reading"
      BY Zenon, <1>3, <2>5 DEF R!ReadAgain, R!Read
    <3>2. Len(response') <= Len(sent) /\ \A i \in 1..Len(response') : response'[i] = sent[i]
      BY Zenon, <1>3, <2>1, <3>1 DEF R!Read, Heard
    <3> QED
      BY Zenon, <2>2, <3>1, <3>2 DEF Heard
  <2> QED
    BY Zenon, <1>3, <2>3, <2>4, <2>5 DEF R!Read
<1>4. CASE R!Sleep
  BY Zenon, <1>4 DEF R!Sleep, R!NewResponse, Heard
<1>5. CASE R!Notify
  BY Zenon, <1>5, <1>u DEF R!Notify
<1>6. CASE R!StartTurn
  BY Zenon, <1>6 DEF R!StartTurn, R!Spawns, Heard
<1>7. CASE R!Tick
  BY Zenon, <1>7, <1>u DEF R!Tick
<1>8. ASSUME NEW t \in Workers, NEW port \in {"listen", "other"},
             R!Listen(t) \/ R!DropUnserved(t) \/ R!Bind(t, port)
      PROVE  Heard'
  BY Zenon, <1>8, <1>u DEF R!Listen, R!DropUnserved, R!Bind
<1>9. CASE R!GuestServes \/ R!GuestExits
  BY Zenon, <1>9 DEF R!GuestServes, R!GuestExits, Heard
<1>10. CASE R!Accept
  BY Zenon, <1>10 DEF R!Accept, Heard
<1>11. ASSUME NEW p \in R!Pieces, sent' = Append(sent, p), conn = "open", UNCHANGED <<pc, conn, response>>
       PROVE  Heard'
  <2>1. /\ sent' \in Seq(R!Pieces) /\ Len(sent') = Len(sent) + 1
        /\ \A i \in 1..Len(sent) : sent'[i] = sent[i]
    BY Zenon, <1>11, AnswerKeepsOrder DEF Heard
  <2>2. pc \notin {"none", "connecting", "sleeping"}
    BY Zenon, <1>11 DEF Heard
  <2> QED
    BY <1>11, <2>1, <2>2 DEF Heard
<1>12. CASE R!Answer
  BY Zenon, <1>12, <1>11 DEF R!Answer, R!Due, R!Pieces
<1>13. CASE R!TurnAway
  BY Zenon, <1>13, <1>11 DEF R!TurnAway, Heard
<1>14. CASE UNCHANGED R!vars
  BY Zenon, <1>14, <1>u DEF R!vars
<1> QED
  BY <1>1, <1>2, <1>3, <1>4, <1>5, <1>6, <1>7, <1>8, <1>9, <1>10, <1>12, <1>13, <1>14 DEF R!Next, R!ProbeStep

\* The outcome is told as it was found.
LEMMA NextTold == Clocks /\ Heard /\ Told /\ [R!Next]_(R!vars) => Told'
<1> SUFFICES ASSUME Clocks, Heard, Told, [R!Next]_(R!vars) PROVE Told'
  BY Zenon
<1>u. ASSUME UNCHANGED <<sent, outcome, pc, start, probe>> PROVE Told'
  BY Zenon, <1>u DEF Told, R!Matches
<1>e. ASSUME outcome # "ok", UNCHANGED <<start, probe>>, outcome' # "ok" PROVE Told'
  BY Zenon, <1>e DEF Told
<1>f. ASSUME R!FallsShort, pc \in {"connecting", "reading"}, UNCHANGED <<start, probe>> PROVE Told'
  BY Zenon, <1>f, <1>e DEF R!FallsShort, R!Ends, Told
<1>1. CASE R!Connect \/ R!Sleep
  BY Zenon, <1>1, <1>e DEF R!Connect, R!Sleep, Told
<1>2. CASE R!ConnectFails
  BY Zenon, <1>2, <1>f DEF R!ConnectFails
<1>3. CASE R!Read
  <2>1. CASE R!FallsShort
    BY Zenon, <1>3, <2>1, <1>f DEF R!Read
  <2>2. CASE R!ReadAgain
    BY Zenon, <1>3, <2>2, <1>e DEF R!Read, R!ReadAgain, Told
  <2>3. CASE R!Matches(response') /\ R!Ends("ok") /\ UNCHANGED <<conn, sent, R!timer>>
    <3>1. PICK n \in 1..Len(R!Unread) : response' = response \o SubSeq(R!Unread, 1, n)
      BY Zenon, <1>3, <2>3 DEF R!Read, R!FallsShort, R!ReadAgain, R!Ends, Heard
    <3>2. /\ response' \in Seq(R!Pieces) /\ Len(response') <= Len(sent)
          /\ \A i \in 1..Len(response') : response'[i] = sent[i]
      <4>1. /\ sent \in Seq(R!Pieces) /\ response \in Seq(R!Pieces) /\ Len(response) <= Len(sent)
            /\ \A i \in 1..Len(response) : response[i] = sent[i]
        BY Zenon, <1>3 DEF R!Read, Heard
      <4> QED
        BY Zenon, <3>1, <4>1, ReadKeepsOrder DEF R!Unread
    <3>3. R!Matches(sent)
      BY <2>3, <3>2 DEF R!Matches, Heard
    <3> QED
      BY Zenon, <1>3, <2>3, <3>3 DEF R!Read, R!Ends, Told, R!Matches
  <2> QED
    BY Zenon, <1>3, <2>1, <2>2, <2>3 DEF R!Read
<1>4. CASE R!Notify
  BY Zenon, <1>4 DEF R!Notify, Told, R!Matches
<1>5. CASE R!StartTurn
  BY Zenon, <1>5 DEF R!StartTurn, R!Spawns, R!Probed, R!Waits, Told, R!Matches
<1>6. CASE R!Tick
  BY Zenon, <1>6, <1>u DEF R!Tick
<1>7. ASSUME NEW t \in Workers, NEW port \in {"listen", "other"},
             R!Listen(t) \/ R!DropUnserved(t) \/ R!Bind(t, port)
      PROVE  Told'
  BY Zenon, <1>7, <1>u DEF R!Listen, R!DropUnserved, R!Bind
<1>8. CASE R!GuestServes \/ R!GuestExits \/ R!Accept
  BY Zenon, <1>8, <1>u DEF R!GuestServes, R!GuestExits, R!Accept
<1>9. ASSUME NEW p \in R!Pieces, sent' = Append(sent, p), UNCHANGED <<pc, outcome, start, probe>>
      PROVE  Told'
  <2>1. /\ sent' \in Seq(R!Pieces) /\ Len(sent') = Len(sent) + 1 /\ Len(sent) \in Nat
        /\ \A i \in 1..Len(sent) : sent'[i] = sent[i]
    <3>1. sent \in Seq(R!Pieces) BY Zenon DEF Heard
    <3>2. Len(sent) \in Nat BY <3>1
    <3> QED BY Zenon, <1>9, <3>1, <3>2, AnswerKeepsOrder
  <2>2. R!Matches(sent) => R!Matches(sent)'
    BY <2>1 DEF R!Matches
  <2> QED
    BY Zenon, <1>9, <2>2 DEF Told
<1>10. CASE R!Answer
  BY Zenon, <1>10, <1>9 DEF R!Answer, R!Due, R!Pieces
<1>11. CASE R!TurnAway
  BY Zenon, <1>11, <1>9, <1>u DEF R!TurnAway
<1>12. CASE UNCHANGED R!vars
  BY Zenon, <1>12, <1>u DEF R!vars
<1> QED
  BY <1>1, <1>2, <1>3, <1>4, <1>5, <1>6, <1>7, <1>8, <1>10, <1>11, <1>12 DEF R!Next, R!ProbeStep

\* A probed guest is ready only if its answer to one connection, however it came in
\* pieces, began with the whole of the pattern (attempt, and start's use of its outcome).
THEOREM AnsweredInFull == R!ReadyAssumption => (R!Spec => []R!ReadyMeansAnswered)
<1>1. R!ReadyAssumption /\ R!Init => InTime /\ Heard /\ Told
  BY DEF R!ReadyAssumption, R!Init, InTime, Clocks, Waiting, Heard, Told
<1>2. InTime /\ Heard /\ Told /\ [R!Next]_(R!vars) => (InTime /\ Heard /\ Told)'
  BY Zenon, NextInTime, NextHeard, NextTold DEF InTime
<1>3. Told => R!ReadyMeansAnswered
  BY Zenon DEF Told, R!ReadyMeansAnswered
<1> QED
  BY <1>1, <1>2, <1>3, PTL DEF R!Spec

-----------------------------------------------------------------------------
(* The other way around.  The guest does not keep a connection waiting that  *)
(* was made while it served, so no time passes until such an attempt matches.*)

\* What is told of a failure: the deadline had passed, and a guest that serves now did not
\* when the last attempt connected.
Answered ==
  /\ outcome \in {"unset", "ok", "err"} /\ since \in Nat
  /\ pc = "ending" \/ "probed" \in events => outcome # "unset"
  /\ start = "failed" => outcome = "err"
  /\ outcome = "err" => now >= DEADLINE /\ (guest = "serving" => since + R!LongestAttempt >= DEADLINE)

\* An attempt that connected after the guest began to serve has not waited.
Prompt ==
  /\ pc = "reading" => limit <= now + ATTEMPT_DEADLINE /\ ~R!Matches(response)
  /\ pc = "reading" /\ guest = "serving" /\ since + ATTEMPT_DEADLINE < limit =>
       now < limit /\ conn \in {"queued", "open"} /\ sent \in {<<>>, <<"a">>, <<"a", "b">>}

\* The pattern is no longer than what an attempt reads.
PatternFits == RESPONSE_CAP >= 2

ServedInv == InTime /\ Heard /\ Told /\ Answered /\ Prompt

\* Both pieces of a serving guest's answer are the pattern.
LEMMA AnswerMatches ==
  ASSUME NEW r, NEW s, s \in {<<>>, <<"a">>, <<"a", "b">>}, r \in Seq(R!Pieces), Len(r) >= 2,
         Len(r) <= Len(s), \A i \in 1..Len(r) : r[i] = s[i]
  PROVE  R!Matches(r)
<1>1. s = <<"a", "b">> /\ Len(r) = 2
  <2>1. Len(r) \in Nat OBVIOUS
  <2>2. s # <<>> /\ s # <<"a">> BY <2>1
  <2> QED BY <2>1, <2>2
<1>2. r[1] = s[1] /\ r[2] = s[2] BY <1>1
<1> QED BY <1>1, <1>2 DEF R!Matches

\* An attempt of a guest that served before it connected does not fall short.
LEMMA LateIfShort ==
  ASSUME PatternFits, ServedInv, R!Read, R!FallsShort, guest = "serving"
  PROVE  since + ATTEMPT_DEADLINE >= limit
<1>1. SUFFICES ASSUME since + ATTEMPT_DEADLINE < limit PROVE FALSE
  BY DEF ServedInv, Answered, InTime, Clocks, R!ReadyAssumption
<1>2. pc = "reading" /\ now < limit /\ conn # "ended" /\ sent \in {<<>>, <<"a">>, <<"a", "b">>} /\ ~R!Matches(response)
  BY Zenon, <1>1 DEF R!Read, ServedInv, Prompt
<1>3. /\ sent \in Seq(R!Pieces) /\ response \in Seq(R!Pieces) /\ Len(response) <= Len(sent)
      /\ \A i \in 1..Len(response) : response[i] = sent[i]
  BY Zenon, <1>2 DEF ServedInv, Heard
<1>4. ~R!GoesOn => Len(response') >= 2 \/ response' \notin Seq(R!Pieces)
  <2>1. response' \in Seq(R!Pieces) => Len(response') \in Nat OBVIOUS
  <2> QED BY <1>2, <2>1 DEF R!GoesOn, PatternFits, ServedInv, InTime, Clocks, R!ReadyAssumption
<1>5. pc' # "reading" BY Zenon DEF R!FallsShort, R!Ends
<1>6. ASSUME NEW n \in 1..Len(R!Unread), response' = response \o SubSeq(R!Unread, 1, n),
             ~R!Matches(response'), ~R!GoesOn
      PROVE  FALSE
  <2>1. /\ response' \in Seq(R!Pieces) /\ Len(response') <= Len(sent)
        /\ \A i \in 1..Len(response') : response'[i] = sent[i]
    BY Zenon, <1>3, <1>6, ReadKeepsOrder DEF R!Unread
  <2> QED BY Zenon, <1>2, <1>4, <1>6, <2>1, AnswerMatches
<1>7. ASSUME UNCHANGED response, ~R!GoesOn PROVE FALSE
  BY Zenon, <1>2, <1>3, <1>4, <1>7, AnswerMatches
<1>8. R!Ends("ok") => FALSE
  BY Zenon DEF R!Ends, R!FallsShort, ServedInv
<1> QED
  BY Zenon, <1>2, <1>5, <1>6, <1>7, <1>8 DEF R!Read, R!ReadAgain

\* What a failed attempt leaves is the truth about the guest.
LEMMA ShortAnswered ==
  ASSUME PatternFits, ServedInv, R!Read \/ R!ConnectFails, R!FallsShort,
         UNCHANGED <<now, guest, since, start>>
  PROVE  Answered' /\ Prompt'
<1> USE DEF ServedInv, InTime, Clocks, R!ReadyAssumption
<1>1. pc' \in {"ending", "sleeping"} /\ outcome \in {"unset", "ok", "err"} /\ since \in Nat
  BY Zenon DEF R!FallsShort, R!Ends, Answered
<1>2. Prompt' BY Zenon, <1>1 DEF Prompt
<1>3. CASE pc' = "ending"
  <2>1. now >= DEADLINE /\ outcome' = "err" /\ UNCHANGED events
    BY Zenon, <1>3 DEF R!FallsShort, R!Ends
  <2>2. guest = "serving" => since + R!LongestAttempt >= DEADLINE
    <3>1. CASE R!ConnectFails BY Zenon, <3>1 DEF R!ConnectFails
    <3>2. CASE R!Read /\ guest = "serving"
      <4>1. since + ATTEMPT_DEADLINE >= limit BY Zenon, <3>2, LateIfShort
      <4>2. now <= limit + READ_TIMEOUT BY <3>2 DEF R!Read, Waiting
      <4> QED BY <1>1, <2>1, <4>1, <4>2 DEF R!LongestAttempt
    <3> QED BY Zenon, <3>1, <3>2
  <2> QED BY Zenon, <1>1, <1>2, <2>1, <2>2 DEF Answered, R!LongestAttempt
<1>4. CASE pc' = "sleeping"
  BY Zenon, <1>1, <1>2, <1>4 DEF R!FallsShort, R!Ends, Answered, R!LongestAttempt
<1> QED BY Zenon, <1>1, <1>3, <1>4

\* Every step keeps it.
LEMMA NextAnswered ==
  ASSUME PatternFits, ServedInv, [R!Next]_(R!vars)
  PROVE  Answered' /\ Prompt'
<1>t. R!ReadyAssumption /\ now \in Nat /\ limit \in Nat /\ since \in Nat /\ outcome \in {"unset", "ok", "err"}
  BY Zenon DEF ServedInv, InTime, Clocks, Answered
<1>l. UNCHANGED R!LongestAttempt BY Zenon DEF R!LongestAttempt
<1>u. ASSUME UNCHANGED <<now, guest, since, pc, R!timer, response, outcome>>,
             "probed" \in events' => "probed" \in events \/ pc = "ending",
             start' = "failed" => outcome = "err"
      PROVE  Answered'
  BY Zenon, <1>u, <1>l DEF ServedInv, Answered
<1>v. ASSUME UNCHANGED <<now, guest, since, pc, R!timer, response, conn, sent>> PROVE Prompt'
  BY Zenon, <1>v DEF ServedInv, Prompt, R!timer, R!Matches
<1>1. CASE R!Connect
  <2>1. Answered' BY Zenon, <1>1, <1>l DEF R!Connect, ServedInv, Answered
  <2>2. response = <<>> /\ sent = <<>> BY Zenon, <1>1 DEF R!Connect, ServedInv, Heard
  <2>3. now < limit' /\ limit' = now + ATTEMPT_DEADLINE /\ UNCHANGED <<response, sent, now>> /\ conn' = "queued"
    BY <1>1, <1>t DEF R!Connect, R!ReadyAssumption
  <2>4. ~R!Matches(<<>>) BY DEF R!Matches
  <2>5. limit' <= now + ATTEMPT_DEADLINE BY <1>t, <2>3 DEF R!ReadyAssumption
  <2>6. Prompt' BY Zenon, <2>2, <2>3, <2>4, <2>5 DEF Prompt, R!Matches
  <2> QED BY Zenon, <2>1, <2>6
<1>2. CASE R!ConnectFails
  BY Zenon, <1>2, ShortAnswered DEF R!ConnectFails
<1>3. CASE R!Read
  <2>1. CASE R!FallsShort BY Zenon, <1>3, <2>1, ShortAnswered DEF R!Read
  <2>2. CASE R!Matches(response') /\ R!Ends("ok")
    BY Zenon, <1>3, <2>2 DEF R!Read, R!Ends, R!Waits, ServedInv, Answered, Prompt
  <2>3. CASE R!ReadAgain /\ ~R!Matches(response')
    BY Zenon, <1>3, <2>3, <1>l DEF R!Read, R!ReadAgain, ServedInv, Answered, Prompt, R!Matches
  <2>4. ~R!Matches(response) BY Zenon, <1>3 DEF R!Read, ServedInv, Prompt
  <2> QED BY Zenon, <1>3, <2>1, <2>2, <2>3, <2>4 DEF R!Read
<1>4. CASE R!Sleep
  BY Zenon, <1>4, <1>l DEF R!Sleep, ServedInv, Answered, Prompt
<1>5. CASE R!Notify
  BY Zenon, <1>5, <1>l DEF R!Notify, ServedInv, Answered, Prompt, R!Waits
<1>6. CASE R!StartTurn
  <2>1. start' = "failed" => outcome = "err"
    BY Zenon, <1>6, <1>t DEF R!StartTurn, R!Probed, R!Waits, ServedInv, Answered
  <2>2. pc' \in {pc, "connecting"} /\ events' = {} /\ UNCHANGED <<now, guest, since, conn, sent, response, outcome>>
        /\ (pc' = pc => UNCHANGED limit)
    BY Zenon, <1>6 DEF R!StartTurn, R!timer
  <2> QED BY Zenon, <2>1, <2>2, <1>l DEF ServedInv, Answered, Prompt, R!Matches
<1>7. CASE R!Tick
  <2>1. now' = now + 1 /\ UNCHANGED <<guest, since, conn, sent, pc, R!timer, response, outcome, events, start>>
    BY Zenon, <1>7 DEF R!Tick
  <2>2. Answered'
    BY <1>t, <2>1, <1>l DEF ServedInv, Answered, R!ReadyAssumption
  <2>3. ~(pc = "reading" /\ guest = "serving" /\ since + ATTEMPT_DEADLINE < limit)
    <3>1. SUFFICES ASSUME pc = "reading", guest = "serving", since + ATTEMPT_DEADLINE < limit PROVE FALSE
      BY Zenon
    <3>2. /\ conn = "open" /\ sent = <<"a", "b">> /\ SubSeq(sent, Len(response) + 1, Len(sent)) = <<>>
          /\ ~R!Matches(response)
      BY Zenon, <1>7, <3>1 DEF R!Tick, R!Blocked, R!Silent, R!Unread, R!Due, ServedInv, Prompt
    <3>3. /\ sent \in Seq(R!Pieces) /\ response \in Seq(R!Pieces) /\ Len(response) <= Len(sent)
          /\ \A i \in 1..Len(response) : response[i] = sent[i]
      BY Zenon, <3>1 DEF ServedInv, Heard
    <3>4. Len(response) >= 2
      <4>1. Len(sent) = 2 /\ Len(response) \in Nat BY <3>2, <3>3
      <4>2. PICK n \in Nat : n = Len(response) BY Zenon, <4>1
      <4>3. n < 2 => Len(SubSeq(sent, n + 1, 2)) = 2 - n BY <3>3, <4>1
      <4>4. Len(SubSeq(sent, n + 1, 2)) = 0
        <5>1. Len(<<>>) = 0 OBVIOUS
        <5> QED BY Zenon, <3>2, <4>1, <4>2, <5>1
      <4> QED BY <4>2, <4>3, <4>4
    <3> QED BY Zenon, <3>2, <3>3, <3>4, AnswerMatches
  <2>4. pc = "reading" => limit <= now' + ATTEMPT_DEADLINE
    BY <1>t, <2>1 DEF ServedInv, Prompt, R!ReadyAssumption
  <2>5. Prompt' BY Zenon, <2>1, <2>3, <2>4 DEF ServedInv, Prompt, R!timer, R!Matches
  <2> QED BY Zenon, <2>2, <2>5
<1>8. ASSUME NEW t \in Workers, NEW port \in {"listen", "other"},
             R!Listen(t) \/ R!DropUnserved(t) \/ R!Bind(t, port)
      PROVE  Answered' /\ Prompt'
  <2>1. /\ UNCHANGED <<now, guest, since, pc, R!timer, response, conn, sent, outcome, start>>
        /\ "probed" \in events' => "probed" \in events
    BY Zenon, <1>8 DEF R!Listen, R!DropUnserved, R!Bind
  <2> QED BY Zenon, <2>1, <1>u, <1>v DEF ServedInv, Answered
<1>9. CASE R!GuestServes
  <2>1. /\ guest' = "serving" /\ since' = now
        /\ UNCHANGED <<now, pc, R!timer, response, conn, sent, outcome, start, events>>
    BY Zenon, <1>9 DEF R!GuestServes
  <2>2. Answered'
    <3>1. outcome = "err" => now + R!LongestAttempt >= DEADLINE
      BY <1>t DEF ServedInv, Answered, R!LongestAttempt, R!ReadyAssumption
    <3> QED BY Zenon, <1>t, <2>1, <3>1, <1>l DEF ServedInv, Answered
  <2>3. pc = "reading" => ~(now + ATTEMPT_DEADLINE < limit)
    BY <1>t DEF ServedInv, Prompt, R!ReadyAssumption
  <2>4. Prompt' BY Zenon, <2>1, <2>3 DEF ServedInv, Prompt, R!timer, R!Matches
  <2> QED BY Zenon, <2>2, <2>4
<1>10. CASE R!GuestExits
  BY Zenon, <1>10 DEF R!GuestExits, ServedInv, Answered, Prompt, R!timer, R!Matches
<1>11. CASE R!Accept
  <2>1. UNCHANGED <<now, guest, since, pc, R!timer, response, sent, outcome, start, events>> /\ conn' = "open"
    BY Zenon, <1>11 DEF R!Accept
  <2> QED BY Zenon, <2>1, <1>u DEF ServedInv, Answered, Prompt, R!timer, R!Matches
<1>12. CASE R!Answer
  <2>1. /\ UNCHANGED <<now, guest, since, pc, R!timer, response, conn, outcome, start, events>>
        /\ sent' \in {<<"a">>, <<"a", "b">>}
    <3>1. Append(<<>>, "a") = <<"a">> OBVIOUS
    <3>2. Append(<<"a">>, "b") = <<"a", "b">>
      <4> DEFINE o == <<"a">>
                 s == Append(o, "b")
                 t == <<"a", "b">>
      <4>0. o \in Seq({"a", "b"}) /\ Len(o) = 1 /\ o[1] = "a" OBVIOUS
      <4>1. s \in Seq({"a", "b"}) /\ Len(s) = 2 /\ s[1] = "a" /\ s[2] = "b"
        <5> HIDE DEF o
        <5>1. PICK S : S = {"a", "b"} BY Zenon
        <5>2. /\ s \in Seq({"a", "b"}) /\ Len(s) = Len(o) + 1 /\ s[Len(o) + 1] = "b"
              /\ \A i \in 1..Len(o) : s[i] = o[i]
          <6>1. o \in Seq(S) /\ "b" \in S BY Zenon, <4>0, <5>1
          <6>2. /\ s \in Seq(S) /\ Len(s) = Len(o) + 1 /\ s[Len(o) + 1] = "b"
                /\ \A i \in 1..Len(o) : s[i] = o[i]
            BY <6>1, AppendProperties
          <6> QED BY Zenon, <5>1, <6>2
        <5> HIDE DEF s
        <5> QED BY <4>0, <5>2
      <4>2. t \in Seq({"a", "b"}) /\ Len(t) = 2 /\ t[1] = "a" /\ t[2] = "b" OBVIOUS
      <4>3. \A i \in 1..Len(s) : s[i] = t[i]
        <5> HIDE DEF s, t
        <5> QED BY <4>1, <4>2
      <4> HIDE DEF s, t
      <4>4. s = t BY Zenon, <4>1, <4>2, <4>3, SeqEqual
      <4> QED BY Zenon, <4>4 DEF s, t, o
    <3>3. <<"a">> # <<>> OBVIOUS
    <3> QED BY Zenon, <1>12, <3>1, <3>2, <3>3 DEF R!Answer, R!Due
  <2> QED BY Zenon, <2>1, <1>u DEF ServedInv, Answered, Prompt, R!timer, R!Matches
<1>13. CASE R!TurnAway
  <2>1. UNCHANGED <<now, guest, since, pc, R!timer, response, outcome, start, events>> /\ guest = "starting"
    BY Zenon, <1>13 DEF R!TurnAway
  <2> QED BY Zenon, <2>1, <1>u DEF ServedInv, Answered, Prompt, R!timer, R!Matches
<1>14. CASE UNCHANGED R!vars
  BY Zenon, <1>14, <1>u, <1>v DEF R!vars, ServedInv, Answered
<1> QED
  BY <1>1, <1>2, <1>3, <1>4, <1>5, <1>6, <1>7, <1>8, <1>9, <1>10, <1>11, <1>12, <1>13, <1>14 DEF R!Next, R!ProbeStep

\* Ready means serving, both ways: a probed guest is ready only if it answered in full, and
\* start fails only with a guest that did not serve when the last attempt connected, for
\* any time-outs and intervals, and any cap on a response that leaves room for the
\* pattern (attempt, spawn and start's use of the outcome).
THEOREM ServingIsReady ==
  R!ReadyAssumption /\ PatternFits => (R!Spec => []ReadyMeansServing)
<1>1. R!ReadyAssumption /\ R!Init => ServedInv
  BY DEF R!ReadyAssumption, R!Init, ServedInv, InTime, Clocks, Waiting, Heard, Told, Answered, Prompt
<1>2. PatternFits /\ ServedInv /\ [R!Next]_(R!vars) => (PatternFits /\ ServedInv)'
  <2>1. PatternFits => PatternFits' BY DEF PatternFits
  <2> QED BY Zenon, <2>1, NextInTime, NextHeard, NextTold, NextAnswered DEF ServedInv, InTime
<1>3. ServedInv => ReadyMeansServing
  BY Zenon DEF ServedInv, Told, Answered, ReadyMeansServing, R!ReadyMeansServing, R!ReadyMeansAnswered
<1> QED
  BY <1>1, <1>2, <1>3, PTL DEF R!Spec

=============================================================================
