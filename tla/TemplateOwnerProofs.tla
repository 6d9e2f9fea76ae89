------------------------ MODULE TemplateOwnerProofs ------------------------
(***************************************************************************)
(* Proofs about one template's owner, for every set of clones, TTL and      *)
(* channel capacity: its count of descendants is exact, and it lets the     *)
(* template expire only after a full TTL without a live descendant.         *)
(***************************************************************************)
EXTENDS TemplateOwner, FiniteSetTheorems, TLAPS

\* At most one fork is under way, and where it is: the request on the channel
\* to the host, the answer on the way back, or the clone's own announcement.
OneFork ==
  /\ request => forked = NoClone /\ reply = "none"
  /\ request /\ host = "frozen" => pc = "forking"
  /\ pc = "recv" => forked = NoClone /\ ~request /\ reply = "none"
  /\ pc = "announce" => forked # NoClone /\ ~request /\ reply = "none"
  /\ reply = "forked" => forked # NoClone
  /\ forked # NoClone => clone[forked] \notin {"unborn", "event"}
  /\ pc = "forking" /\ forked # NoClone => reply = "forked" /\ clone[forked] # "sent"

\* The owner's idle clock never runs ahead of the real idle time.
IdleClock == forked = NoClone /\ children = 0 => idle <= quiet

Inv == TypeOK /\ OneFork /\ ChildrenCounted /\ IdleClock

\* Descendants is a finite set of clones.
LEMMA DescendantsFinite == IsFiniteSet(Descendants) /\ Cardinality(Descendants) \in Nat
  BY CloneAssumption, FS_Subset, FS_CardinalityType DEF Descendants

\* Removing part of a finite set subtracts its size.
LEMMA SubsetRemoved ==
  ASSUME NEW S, NEW T \in SUBSET S, IsFiniteSet(S)
  PROVE  /\ IsFiniteSet(S \ T) /\ Cardinality(S \ T) \in Nat
         /\ Cardinality(T) \in Nat /\ Cardinality(S) \in Nat
         /\ Cardinality(S \ T) = Cardinality(S) - Cardinality(T)
<1>1. S \cap T = T
  OBVIOUS
<1>2. IsFiniteSet(T) /\ IsFiniteSet(S \ T)
  BY FS_Subset, FS_Difference
<1> QED
  BY <1>1, <1>2, FS_Difference, FS_CardinalityType

\* The initial state satisfies the inductive invariant.
LEMMA InitInv == Init => Inv
<1> SUFFICES ASSUME Init PROVE Inv
  OBVIOUS
<1>0. Flags
  BY DEF Init, Flags
<1>1. Ranges
  BY BoundAssumption DEF Init, Ranges, CloneStates, Waiting
<1>2. OneFork /\ IdleClock
  BY BoundAssumption DEF Init, OneFork, IdleClock
<1>3. Descendants = {}
  BY DEF Init, Descendants
<1>4. ChildrenCounted
  BY <1>3, FS_EmptySet DEF ChildrenCounted, Init
<1> QED
  BY <1>0, <1>1, <1>2, <1>4 DEF Inv, TypeOK

\* A step that leaves the set of uncounted descendants and the count alone
\* keeps the count exact.
LEMMA SameCount ==
  ASSUME ChildrenCounted, Descendants' = Descendants, children' = children
  PROVE  ChildrenCounted'
  BY DEF ChildrenCounted

\* What the actions that concern only the owner, the handles, the host's life
\* or the clock leave alone.
LEMMA QuietSteps ==
  ASSUME Inv, SendFork \/ DropHandles \/ RecvFork \/ ReplyFailed \/ AnnounceLost
              \/ Disconnected \/ Stopped \/ HostDies \/ HostForkRefused
  PROVE  Inv'
<1> USE DEF Inv, TypeOK
<1>1. clone' = clone /\ forked' = forked /\ children' = children
      /\ idle' = idle /\ quiet' = quiet
  BY DEF SendFork, DropHandles, RecvFork, ReplyFailed, AnnounceLost,
         Disconnected, Stopped, HostDies, HostForkRefused
<1>2. Flags'
  BY Zenon DEF Flags, SendFork, DropHandles, RecvFork, ReplyFailed, AnnounceLost,
         Disconnected, Stopped, HostDies, HostForkRefused, Fail
<1>3. Ranges'
  BY BoundAssumption DEF Ranges, SendFork, DropHandles, RecvFork, ReplyFailed,
         AnnounceLost, Disconnected, Stopped, HostDies, HostForkRefused, Fail,
         HasCommand
<1>4. OneFork'
  BY DEF OneFork, Ranges, SendFork, DropHandles, RecvFork, ReplyFailed, AnnounceLost,
         Disconnected, Stopped, HostDies, HostForkRefused, Fail, Eof
<1>5. Descendants' = Descendants
  BY <1>1 DEF Descendants
<1>6. ChildrenCounted'
  BY <1>1, <1>5, SameCount
<1>7. IdleClock'
  BY <1>1 DEF IdleClock
<1> QED
  BY <1>2, <1>3, <1>4, <1>6, <1>7

\* A clone, or the frame about its exit, moves on; no exit is counted.
LEMMA MovingSteps ==
  ASSUME Inv, NEW c \in Clones,
         ReplyExited(c) \/ ReplyForked \/ Reap(c) \/ Announce(c) \/ CloneExit(c)
  PROVE  Inv'
<1> USE DEF Inv, TypeOK
<1>1. forked' = forked /\ children' = children /\ idle' = idle
  BY DEF ReplyExited, ReplyForked, Reap, Announce, CloneExit
<1>2. Flags'
  BY Zenon DEF Flags, ReplyExited, ReplyForked, Reap, Announce, CloneExit
<1>3. Ranges'
  BY BoundAssumption DEF Ranges, CloneStates, Waiting, ReplyExited, EventKept, ReplyForked,
         Unqueued, Reap, Announce, CloneExit
<1>4. OneFork'
  <2>1. CASE ReplyExited(c)
    BY <2>1 DEF ReplyExited, EventKept, OneFork, Ranges
  <2>2. CASE ReplyForked
    BY <2>2 DEF ReplyForked, Unqueued, OneFork, Ranges
  <2>3. CASE Reap(c)
    BY <2>3 DEF Reap, OneFork, Ranges
  <2>4. CASE Announce(c)
    BY <2>4 DEF Announce, OneFork, Ranges
  <2>5. CASE CloneExit(c)
    BY <2>5 DEF CloneExit, OneFork, Ranges
  <2> QED
    BY <2>1, <2>2, <2>3, <2>4, <2>5
<1>5. \A d \in Clones : clone'[d] = "unborn" <=> clone[d] = "unborn"
  BY DEF Ranges, ReplyExited, EventKept, ReplyForked, Unqueued, Reap, Announce, CloneExit, Live
<1>6. Descendants' = Descendants
  BY <1>1, <1>5 DEF Descendants
<1>7. ChildrenCounted'
  BY <1>1, <1>6, SameCount
<1>8. IdleClock'
  <2>1. CASE CloneExit(c)
    <3>1. c \in Descendants \/ c = forked
      BY <2>1 DEF CloneExit, Live, Descendants
    <3>2. forked = NoClone => children # 0
      BY <3>1, DescendantsFinite, FS_EmptySet, CloneAssumption DEF ChildrenCounted
    <3> QED
      BY <1>1, <3>2 DEF IdleClock
  <2>2. CASE ~CloneExit(c)
    <3>1. quiet' = quiet
      BY <2>2 DEF ReplyExited, ReplyForked, Reap, Announce
    <3> QED
      BY <1>1, <3>1 DEF IdleClock
  <2> QED
    BY <2>1, <2>2
<1> QED
  BY <1>2, <1>3, <1>4, <1>7, <1>8

\* The host forks: the new clone is the one under way, not yet counted.
LEMMA HostForkStep ==
  ASSUME Inv, NEW c \in Clones, HostFork(c)
  PROVE  Inv'
<1> USE DEF Inv, TypeOK
<1>1. pc = "forking" /\ forked = NoClone /\ forked' = c /\ children' = children
  BY DEF HostFork, OneFork
<1>2. Flags'
  BY Zenon DEF Flags, HostFork
<1>3. Ranges'
  BY BoundAssumption DEF Ranges, CloneStates, Waiting, HostFork
<1>4. OneFork'
  BY <1>1, CloneAssumption DEF HostFork, OneFork, Ranges
<1>5. Descendants' = Descendants
  BY <1>1, CloneAssumption DEF Descendants, HostFork, Ranges
<1>6. ChildrenCounted'
  BY <1>1, <1>5, SameCount
<1>7. IdleClock'
  BY <1>1, CloneAssumption DEF IdleClock
<1> QED
  BY <1>2, <1>3, <1>4, <1>6, <1>7

\* A fork is served: the exits kept while waiting are subtracted and the new
\* clone, which is none of them, is added.
LEMMA ForkServedStep ==
  ASSUME Inv, ForkServed
  PROVE  Inv' /\ children' > 0
<1> USE DEF Inv, TypeOK
<1> DEFINE E == In({"event"})
<1>1. /\ forked \in Clones /\ forked' = NoClone
      /\ clone[forked] # "unborn" /\ forked \notin E
  BY DEF ForkServed, OneFork, Ranges, In
<1>2. E \in SUBSET Descendants
  BY <1>1 DEF In, Descendants
<1>3. /\ IsFiniteSet(Descendants \ E) /\ Cardinality(Descendants \ E) \in Nat
      /\ Cardinality(E) \in Nat
      /\ Cardinality(Descendants \ E) = children - Cardinality(E)
  BY <1>2, DescendantsFinite, SubsetRemoved DEF ChildrenCounted
<1>4. Descendants' = (Descendants \ E) \cup {forked}
  BY <1>1, CloneAssumption DEF Descendants, ForkServed, EventsTaken, Ranges, In
<1>5. Cardinality((Descendants \ E) \cup {forked}) = Cardinality(Descendants \ E) + 1
  BY <1>3, FS_AddElement DEF Descendants
<1>6. children' = children + 1 - Cardinality(E)
  BY <1>3 DEF ForkServed, SaturatingSub, Ranges
<1>7. ChildrenCounted' /\ children' > 0 /\ children' \in Nat
  BY <1>3, <1>4, <1>5, <1>6 DEF ChildrenCounted, Ranges
<1>8. Flags'
  BY Zenon DEF Flags, ForkServed
<1>9. Ranges'
  BY <1>7, BoundAssumption DEF Ranges, CloneStates, Waiting, ForkServed, EventsTaken
<1>10. OneFork'
  BY <1>1 DEF ForkServed, EventsTaken, OneFork, Ranges
<1>11. IdleClock'
  BY <1>7 DEF IdleClock
<1> QED
  BY <1>7, <1>8, <1>9, <1>10, <1>11

\* A second without a command: the exits drained are subtracted.  If the
\* template expires, every clone it had is dead and counted.
LEMMA TimeoutStep ==
  ASSUME Inv, Timeout
  PROVE  Inv' /\ (why # "expired" /\ why' = "expired" => Live = {} /\ quiet >= TTL)
<1> USE DEF Inv, TypeOK
<1> DEFINE E == In({"sent"})
<1>1. forked = NoClone /\ forked' = NoClone /\ quiet' = quiet
  BY DEF Timeout, OneFork
<1>2. Flags'
  BY Zenon DEF Flags, Timeout, Fail
<1>3. CASE host = "dead"
  <2>1. clone' = clone /\ children' = children /\ idle' = idle /\ why' = "failed"
    BY <1>3 DEF Timeout, Fail
  <2>2. Descendants' = Descendants
    BY <1>1, <2>1 DEF Descendants
  <2>3. ChildrenCounted'
    BY <2>1, <2>2, SameCount
  <2>4. Ranges' /\ OneFork' /\ IdleClock'
    BY <1>1, <1>3, <2>1 DEF Timeout, Fail, Ranges, OneFork, IdleClock
  <2> QED
    BY <1>2, <2>1, <2>3, <2>4
<1>4. CASE host = "frozen"
  <2>1. E \in SUBSET Descendants
    BY <1>1, CloneAssumption DEF In, Descendants
  <2>2. /\ IsFiniteSet(Descendants \ E) /\ Cardinality(Descendants \ E) \in Nat
        /\ Cardinality(E) \in Nat /\ IsFiniteSet(E)
        /\ Cardinality(Descendants \ E) = children - Cardinality(E)
    BY <2>1, DescendantsFinite, SubsetRemoved, FS_Subset DEF ChildrenCounted
  <2>3. Descendants' = Descendants \ E
    BY <1>1, <1>4 DEF Descendants, Timeout, Ranges, In
  <2>4. children' = children - Cardinality(E) /\ children' \in Nat
    BY <1>4, <2>2 DEF Timeout, SaturatingSub, Ranges
  <2>5. ChildrenCounted'
    BY <2>2, <2>3, <2>4 DEF ChildrenCounted
  <2>6. idle' = IF Cardinality(E) > 0 /\ children' = 0 THEN 0 ELSE idle
    BY <1>4 DEF Timeout, IdleAfter
  <2>7. Ranges'
    BY <1>4, <2>4, <2>6, BoundAssumption DEF Ranges, CloneStates, Waiting, Timeout
  <2>8. OneFork'
    BY <1>1, <1>4 DEF Timeout, OneFork, Ranges
  <2>9. children' = 0 => idle' <= quiet
    BY <1>1, <2>2, <2>4, <2>6, BoundAssumption DEF IdleClock, Ranges
  <2>10. IdleClock'
    BY <1>1, <2>9 DEF IdleClock
  <2>11. ASSUME why # "expired", why' = "expired"
         PROVE  Live = {} /\ quiet >= TTL
    <3>1. children' = 0 /\ idle' >= TTL
      BY <1>4, <2>11 DEF Timeout
    <3>2. Descendants \ E = {}
      BY <2>2, <2>4, <3>1, FS_EmptySet
    <3>3. Live = {}
      BY <1>1, <3>2, CloneAssumption DEF Live, Descendants, In
    <3> QED
      BY <2>7, <2>9, <3>1, <3>3, BoundAssumption DEF Ranges
  <2> QED
    BY <1>2, <2>5, <2>7, <2>8, <2>10, <2>11
<1> QED
  BY <1>3, <1>4 DEF Ranges

\* Time passes: while nothing is uncounted nothing is live, so both clocks run.
LEMMA TickStep ==
  ASSUME Inv, Tick
  PROVE  Inv'
<1> USE DEF Inv, TypeOK
<1>1. clone' = clone /\ forked' = forked /\ children' = children
  BY DEF Tick
<1>2. Descendants' = Descendants
  BY <1>1 DEF Descendants
<1>3. ChildrenCounted'
  BY <1>1, <1>2, SameCount
<1>4. Flags'
  BY Zenon DEF Flags, Tick
<1>5. Ranges' /\ OneFork'
  BY BoundAssumption DEF Ranges, OneFork, Tick, Later
<1>6. ASSUME forked = NoClone, children = 0
      PROVE  idle' <= quiet'
  <2>1. Descendants = {}
    BY <1>6, DescendantsFinite, FS_EmptySet DEF ChildrenCounted
  <2>2. Live = {}
    BY <1>6, <2>1, CloneAssumption DEF Live, Descendants
  <2> QED
    BY <1>6, <2>2, BoundAssumption DEF Tick, Later, IdleClock, Ranges
<1>7. IdleClock'
  BY <1>1, <1>6 DEF IdleClock
<1> QED
  BY <1>3, <1>4, <1>5, <1>7

\* Every step preserves the invariant, and expires the template only when idle.
LEMMA NextInv ==
  ASSUME Inv, [Next]_vars
  PROVE  Inv' /\ (why # "expired" /\ why' = "expired" => Live = {} /\ quiet >= TTL)
<1>1. CASE SendFork \/ DropHandles \/ RecvFork \/ ReplyFailed \/ AnnounceLost
           \/ Disconnected \/ Stopped \/ HostDies \/ HostForkRefused
  <2>1. why' = "expired" => why = "expired"
    BY <1>1 DEF SendFork, DropHandles, RecvFork, ReplyFailed, AnnounceLost,
           Disconnected, Stopped, HostDies, HostForkRefused, Fail
  <2> QED
    BY <1>1, <2>1, QuietSteps
<1>2. ASSUME NEW c \in Clones,
             ReplyExited(c) \/ ReplyForked \/ Reap(c) \/ Announce(c) \/ CloneExit(c)
      PROVE  Inv' /\ why' = why
  <2>1. why' = why
    BY <1>2 DEF ReplyExited, ReplyForked, Reap, Announce, CloneExit
  <2> QED
    BY <1>2, <2>1, MovingSteps
<1>3. ASSUME NEW c \in Clones, HostFork(c)
      PROVE  Inv' /\ why' = why
  BY <1>3, HostForkStep DEF HostFork
<1>4. CASE ForkServed
  BY <1>4, ForkServedStep DEF ForkServed
<1>5. CASE Timeout
  BY <1>5, TimeoutStep
<1>6. CASE Tick
  BY <1>6, TickStep DEF Tick
<1>7. CASE UNCHANGED vars
  <2>1. Descendants' = Descendants /\ children' = children
    BY <1>7 DEF vars, Descendants
  <2>2. ChildrenCounted'
    BY <2>1, SameCount DEF Inv
  <2>3. Flags'
    BY <1>7, Zenon DEF Inv, TypeOK, Flags, vars
  <2>4. Ranges' /\ OneFork' /\ IdleClock' /\ why' = why
    BY <1>7 DEF Inv, TypeOK, Ranges, OneFork, IdleClock, vars
  <2> QED
    BY <2>2, <2>3, <2>4 DEF Inv, TypeOK
<1>8. CASE ReplyForked
  <2>1. \E c \in Clones : TRUE
    BY <1>8 DEF ReplyForked, Inv, OneFork, TypeOK, Ranges
  <2> QED
    BY <1>2, <1>8, <2>1
<1> QED
  BY <1>1, <1>2, <1>3, <1>4, <1>5, <1>6, <1>7, <1>8 DEF Next, Owner, HostLoop

\* The variables always have their types.
THEOREM TypeCorrect == Spec => []TypeOK
<1>1. Inv => TypeOK
  BY DEF Inv
<1> QED
  BY <1>1, InitInv, NextInv, PTL DEF Spec

\* The owner's count of live descendants in serve_forks is exact: it equals
\* the number of clones whose exit has not been counted, whatever exits are
\* in the channel or were kept while a fork was answered.
THEOREM CountExact == Spec => []ChildrenCounted
<1>1. Inv => ChildrenCounted
  BY DEF Inv
<1> QED
  BY <1>1, InitInv, NextInv, PTL DEF Spec

\* serve_forks lets a template expire only when it has had no live descendant
\* for a full TTL.
THEOREM NeverExpiresEarly == Spec => ExpiresOnlyIdle
<1>1. Inv /\ [Next]_vars =>
        [why # "expired" /\ why' = "expired" => Live = {} /\ quiet >= TTL]_vars
  BY NextInv
<1> QED
  BY <1>1, InitInv, NextInv, PTL DEF Spec, ExpiresOnlyIdle

-----------------------------------------------------------------------------
(* The refinement.                                                           *)

\* The thread is past its loop exactly when there is a reason for it.
Reasoned == Serving <=> pc \in {"recv", "forking", "announce"}

\* Every step keeps the reason and the thread together.
LEMMA ReasonedStep ==
  ASSUME TypeOK, Reasoned, [Next]_vars
  PROVE  Reasoned'
<1> USE DEF TypeOK, Ranges, Reasoned, Serving
<1>1. CASE Owner
  BY <1>1 DEF Owner, RecvFork, ReplyExited, ReplyForked, ReplyFailed, ForkServed,
         AnnounceLost, Timeout, Disconnected, Stopped, Fail
<1>2. CASE ~Owner
  <2>1. why' = why /\ pc' = pc
    BY <1>2 DEF Next, HostLoop, SendFork, DropHandles, HostDies, Tick, HostForkRefused,
           Reap, HostFork, Announce, CloneExit, vars
  <2> QED
    BY <2>1
<1> QED
  BY <1>1, <1>2

\* What the mapping does to a step of the thread or of a holder that forks nothing and
\* does not end it, and to the steps OwnerPromise has no name for.
LEMMA SameLive ==
  ASSUME clone' = clone
  PROVE  Live' = Live
  BY DEF Live

\* A frame about an exit moves: no clone starts or stops running.
LEMMA FramesMove ==
  ASSUME TypeOK, NEW c \in Clones,
         ReplyExited(c) \/ ReplyForked \/ Reap(c) \/ Announce(c) \/ ForkServed \/ Timeout
  PROVE  Live' = Live
<1> USE DEF TypeOK, Ranges, Live
<1>1. CASE ReplyExited(c)
  BY <1>1 DEF ReplyExited, EventKept
<1>2. CASE ReplyForked
  BY <1>2 DEF ReplyForked, Unqueued
<1>3. CASE Reap(c)
  BY <1>3 DEF Reap
<1>4. CASE Announce(c)
  BY <1>4 DEF Announce
<1>5. CASE ForkServed
  BY <1>5 DEF ForkServed, EventsTaken
<1>6. CASE Timeout
  BY <1>6 DEF Timeout
<1> QED
  BY <1>1, <1>2, <1>3, <1>4, <1>5, <1>6

\* Every step of the owner, its host and its clones is a step of the promise, or none.
LEMMA PromiseStep ==
  ASSUME Inv, Reasoned, Reasoned', [Next]_vars
  PROVE  [Promise!Next]_(Promise!vars)
<1> USE DEF Inv, TypeOK, Ranges, Reasoned, Serving, Owed, Promise!vars
<1>1. CASE SendFork
  <2>1. Live' = Live
    BY <1>1, SameLive DEF SendFork
  <2>2. CASE Serving
    <3>1. Promise!Ask
      BY <1>1, <2>1, <2>2 DEF SendFork, Promise!Ask
    <3> QED
      BY <3>1 DEF Promise!Next
  <2>3. CASE ~Serving
    BY <1>1, <2>1, <2>3 DEF SendFork
  <2> QED
    BY <2>2, <2>3
<1>2. CASE DropHandles
  <2>1. Promise!Release
    BY <1>2, SameLive DEF DropHandles, Promise!Release
  <2> QED
    BY <2>1 DEF Promise!Next
<1>3. CASE RecvFork
  <2>1. Live' = Live
    BY <1>3, SameLive DEF RecvFork
  <2>2. CASE why' = "failed"
    <3>1. Promise!End
      BY <1>3, <2>1, <2>2 DEF RecvFork, Fail, Promise!End
    <3> QED
      BY <3>1 DEF Promise!Next
  <2>3. CASE why' # "failed"
    BY <1>3, <2>1, <2>3 DEF RecvFork, Fail, HasCommand
  <2> QED
    BY <2>2, <2>3
<1>4. CASE ReplyFailed \/ AnnounceLost
  <2>1. Live' = Live
    BY <1>4, SameLive DEF ReplyFailed, AnnounceLost
  <2>2. Promise!End
    BY <1>4, <2>1 DEF ReplyFailed, AnnounceLost, Fail, Promise!End
  <2> QED
    BY <2>2 DEF Promise!Next
<1>5. CASE Disconnected
  <2>1. Live' = Live
    BY <1>5, SameLive DEF Disconnected
  <2>2. Promise!End
    BY <1>5, <2>1 DEF Disconnected, Promise!End, Promise!Unheld
  <2> QED
    BY <2>2 DEF Promise!Next
<1>6. CASE Stopped \/ HostDies \/ HostForkRefused
  <2>1. Live' = Live
    BY <1>6, SameLive DEF Stopped, HostDies, HostForkRefused
  <2> QED
    BY <1>6, <2>1 DEF Stopped, HostDies, HostForkRefused
<1>7. ASSUME NEW c \in Clones, ReplyExited(c) \/ ReplyForked \/ Reap(c) \/ Announce(c)
      PROVE  [Promise!Next]_(Promise!vars)
  <2>1. Live' = Live
    BY <1>7, FramesMove
  <2> QED
    BY <1>7, <2>1 DEF ReplyExited, ReplyForked, Reap, Announce
<1>8. ASSUME NEW c \in Clones, CloneExit(c)
      PROVE  [Promise!Next]_(Promise!vars)
  <2>1. Live' = Live \ {c}
    BY <1>8 DEF CloneExit, Live
  <2>2. Promise!Exit(c)
    BY <1>8, <2>1 DEF CloneExit, Promise!Exit
  <2> QED
    BY <2>2 DEF Promise!Next
<1>9. ASSUME NEW c \in Clones, HostFork(c)
      PROVE  [Promise!Next]_(Promise!vars)
  <2>1. Live' = Live \cup {c} /\ c \notin Live
    BY <1>9 DEF HostFork, Live
  <2>2. pc = "forking" /\ forked = NoClone
    BY <1>9 DEF HostFork, OneFork
  <2>3. Promise!Fork(c)
    BY <1>9, <2>1, <2>2 DEF HostFork, Promise!Fork
  <2> QED
    BY <2>3 DEF Promise!Next
<1>10. CASE ForkServed
  <2>0. forked \in Clones
    BY <1>10 DEF ForkServed, OneFork
  <2>1. Live' = Live
    BY <1>10, <2>0, FramesMove
  <2>2. Promise!Answer
    BY <1>10, <2>0, <2>1, CloneAssumption DEF ForkServed, Promise!Answer
  <2> QED
    BY <2>2 DEF Promise!Next
<1>11. CASE Timeout
  <2>0. pc = "recv" /\ Serving /\ forked = NoClone
    BY <1>11 DEF Timeout, OneFork
  <2>1. Live' = Live
    <3>1. CASE Clones = {}
      BY <3>1 DEF Live
    <3>2. CASE Clones # {}
      BY <1>11, <3>2, FramesMove
    <3> QED
      BY <3>1, <3>2
  <2>2. CASE why' = "expired"
    <3>1. Live = {} /\ quiet >= TTL
      BY <1>11, <2>0, <2>2, TimeoutStep
    <3>2. Promise!End
      BY <1>11, <2>0, <2>1, <2>2, <3>1 DEF Timeout, Promise!End, Promise!Unused
    <3> QED
      BY <3>2 DEF Promise!Next
  <2>3. CASE why' = "failed"
    <3>1. Promise!End
      BY <1>11, <2>0, <2>1, <2>3 DEF Timeout, Promise!End
    <3> QED
      BY <3>1 DEF Promise!Next
  <2>4. CASE why' = why
    BY <1>11, <2>0, <2>1, <2>4 DEF Timeout, Fail
  <2> QED
    BY <1>11, <2>2, <2>3, <2>4 DEF Timeout, Fail
<1>12. CASE Tick
  <2>1. Live' = Live
    BY <1>12, SameLive DEF Tick
  <2>2. Promise!Tick
    BY <1>12, <2>1 DEF Tick, Later, Promise!Tick, Promise!Later
  <2> QED
    BY <2>2 DEF Promise!Next
<1>13. CASE UNCHANGED vars
  BY <1>13, SameLive DEF vars
<1>14. CASE ReplyForked
  <2>1. \E c \in Clones : TRUE
    BY <1>14 DEF ReplyForked, OneFork
  <2> QED
    BY <1>7, <1>14, <2>1
<1> QED
  BY <1>1, <1>2, <1>3, <1>4, <1>5, <1>6, <1>7, <1>8, <1>9, <1>10, <1>11, <1>12, <1>13,
     <1>14 DEF Next, Owner, HostLoop

\* serve_forks implements OwnerPromise, for any number of clones and commands, any TTL
\* and any channel: in particular it forks at most one clone for a command and none
\* once it has ended.
THEOREM OwnerKeepsPromise == Spec => KeepsPromise
<1>1. Init => Promise!Init /\ Reasoned
  BY DEF Init, Promise!Init, Owed, Serving, Live, Reasoned
<1>2. Inv /\ Reasoned /\ [Next]_vars => Reasoned'
  BY ReasonedStep DEF Inv
<1>3. Inv /\ Reasoned /\ Reasoned' /\ [Next]_vars => [Promise!Next]_(Promise!vars)
  BY PromiseStep
<1> QED
  BY <1>1, <1>2, <1>3, InitInv, NextInv, PTL DEF Spec, KeepsPromise, Promise!Spec

=============================================================================
