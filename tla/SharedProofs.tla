---------------------------- MODULE SharedProofs ----------------------------
(***************************************************************************)
(* What threads share.  The compiled-module cache (ModuleCache), proved for *)
(* any number of threads spread over any processes, with crashes and cleans *)
(* anywhere; then the registry of instances (Instances), for any set of     *)
(* instances and handlers and any TTL.                                      *)
(***************************************************************************)
EXTENDS ModuleCache, MCInstances, TLAPS

-----------------------------------------------------------------------------
(* ModuleCache.  Until a clean there is one lock file, so whoever is past    *)
(* lock_entry holds that lock; after it, a thread alone in its process is    *)
(* the only writer of its partial file.                                      *)

Locked == {"again"} \cup Writing

\* Until a clean, whoever waits for or holds a lock has opened the lock file in
\* place.
LockInPlace ==
  \/ cleaned
  \/ /\ \A p \in Loaders : pc[p] \in Locked \cup {"flock"} => opened[p] = path /\ path # Nil
     /\ \A p \in Loaders : pc[p] \in Locked => holder[path] = p

\* A clean that is under way has begun.
CleanKnown == cleaning => cleaned

Inv == TypeOK /\ CleanKnown /\ LockInPlace /\ NoWastedCompile

\* A thread alone in its process writes its process's partial file and no other,
\* and has written it in full when it renames it.
OwnPartial ==
  \A p \in Alone :
    /\ \A q \in Processes : partial[q] # Absent /\ p \in partial[q] => q = Process[p]
    /\ pc[p] = "rename" /\ partial[Process[p]] # Absent => p \notin partial[Process[p]]

\* Until a clean, whoever stores is the only writer of the partial file.
OnePartial ==
  \/ cleaned
  \/ \A p \in Loaders : /\ pc[p] = "finish" => partial[Process[p]] = {p}
                        /\ pc[p] = "rename" => partial[Process[p]] = {}

-----------------------------------------------------------------------------
\* Every step of every thread, crash and clean keeps the types.
LEMMA NextType == TypeOK /\ [Next]_vars => TypeOK'
<1> SUFFICES ASSUME TypeOK, [Next]_vars PROVE TypeOK'
  BY Zenon
<1> USE LoaderAssumption DEF TypeOK, Working, Done, Processes, Goto, Return, Unlock
<1>1. ASSUME NEW p \in Loaders, Load(p) PROVE TypeOK'
  <2>1. CASE Look(p)
    BY <2>1 DEF Look
  <2>6. CASE MakeDir(p)
    BY Zenon, <2>6 DEF MakeDir
  <2>9. CASE Flock(p)
    BY Zenon, <2>9 DEF Flock
  <2>7. CASE LookAgain(p)
    BY <2>7 DEF LookAgain
  <2>8. CASE Compile(p)
    BY <2>8 DEF Compile
  <2>2. CASE OpenLock(p)
    BY <2>2 DEF OpenLock
  <2>3. CASE BeginWrite(p)
    BY <2>3 DEF BeginWrite, Written, PartialOf
  <2>4. CASE FinishWrite(p)
    BY <2>4, FileAssumption DEF FinishWrite, NotWriting
  <2>5. CASE Rename(p)
    BY <2>5 DEF Rename, PartialOf
  <2> QED
    BY Zenon, <1>1, <2>1, <2>2, <2>3, <2>4, <2>5, <2>6, <2>7, <2>8, <2>9 DEF Load
<1>2. ASSUME NEW q \in Processes, Crash(q) PROVE TypeOK'
  BY Zenon, <1>2 DEF Crash
<1>3. CASE Clean
  BY <1>3 DEF Clean, CleanBegin, CleanUnlink, CleanEnd
<1>4. CASE UNCHANGED vars
  BY Zenon, <1>4 DEF vars
<1> QED
  BY Zenon, <1>1, <1>2, <1>3, <1>4 DEF Next

LEMMA InitType == Init => TypeOK
  BY Zenon, LoaderAssumption DEF Init, TypeOK, Working, Done, Processes

\* The types hold whoever crashes and however often the cache is cleaned.
THEOREM TypeCorrect == Spec => []TypeOK
  BY InitType, NextType, PTL DEF Spec

-----------------------------------------------------------------------------
\* A thread gives its lock up in every step in which it stops working.
LEMMA NextHolds == TypeOK /\ HolderWorks /\ [Next]_vars => HolderWorks'
<1> SUFFICES ASSUME TypeOK, HolderWorks, [Next]_vars PROVE HolderWorks'
  BY Zenon
<1> USE LoaderAssumption
    DEF TypeOK, HolderWorks, Writing, Working, Done, Goto, Return, Unlock
<1>1. ASSUME NEW p \in Loaders, Load(p) PROVE HolderWorks'
  <2>1. CASE Look(p)
    BY <2>1 DEF Look
  <2>2. CASE MakeDir(p)
    BY <2>2 DEF MakeDir
  <2>3. CASE OpenLock(p)
    BY <2>3 DEF OpenLock
  <2>4. CASE Flock(p)
    BY <2>4 DEF Flock, LockFree
  <2>5. CASE LookAgain(p)
    BY <2>5 DEF LookAgain
  <2>6. CASE Compile(p)
    BY <2>6 DEF Compile
  <2>7. CASE BeginWrite(p)
    BY <2>7 DEF BeginWrite
  <2>8. CASE FinishWrite(p)
    BY <2>8 DEF FinishWrite
  <2>9. CASE Rename(p)
    BY <2>9 DEF Rename
  <2> QED
    BY Zenon, <1>1, <2>1, <2>2, <2>3, <2>4, <2>5, <2>6, <2>7, <2>8, <2>9 DEF Load
<1>2. ASSUME NEW q \in Processes, Crash(q) PROVE HolderWorks'
  BY <1>2 DEF Crash
<1>3. CASE Clean
  BY Zenon, <1>3 DEF Clean, CleanBegin, CleanUnlink, CleanEnd
<1>4. CASE UNCHANGED vars
  BY Zenon, <1>4 DEF vars
<1> QED
  BY Zenon, <1>1, <1>2, <1>3, <1>4 DEF Next

\* A lock is held only by a thread at work under it, which waits for nothing:
\* lock_entry never waits for a lock that a crash, an error or a clean left behind.
THEOREM NoLockLeftBehind == Spec => []HolderWorks
<1>1. Init => HolderWorks
  BY Zenon DEF Init, HolderWorks
<1> QED
  BY <1>1, NextHolds, TypeCorrect, PTL DEF Spec

-----------------------------------------------------------------------------
LEMMA NextKnown == CleanKnown /\ [Next]_vars => CleanKnown'
  BY DEF CleanKnown, Next, vars, Load, Look, MakeDir, OpenLock, Flock, LookAgain, Compile,
         BeginWrite, FinishWrite, Rename, Crash, Clean, CleanBegin, CleanUnlink, CleanEnd

\* Until a clean the lock file opened is the one in place, and the artifact
\* is not stored behind the back of whoever holds its lock.
LEMMA NextLocked == Inv /\ [Next]_vars => LockInPlace'
<1> SUFFICES ASSUME Inv, [Next]_vars PROVE LockInPlace'
  BY Zenon
<1> USE LoaderAssumption DEF Inv, TypeOK, LockInPlace, Locked, Writing, Working, Done, Goto, Return, Unlock
<1>1. ASSUME NEW p \in Loaders, Load(p) PROVE LockInPlace'
  <2>1. CASE Look(p)
    BY <2>1 DEF Look
  <2>2. CASE MakeDir(p)
    BY <2>2 DEF MakeDir
  <2>3. CASE OpenLock(p)
    BY <2>3 DEF OpenLock
  <2>4. CASE Flock(p)
    BY <2>4 DEF Flock, LockFree
  <2>5. CASE LookAgain(p)
    BY <2>5 DEF LookAgain
  <2>6. CASE Compile(p)
    BY <2>6 DEF Compile
  <2>7. CASE BeginWrite(p)
    BY <2>7 DEF BeginWrite
  <2>8. CASE FinishWrite(p)
    BY <2>8 DEF FinishWrite
  <2>9. CASE Rename(p)
    BY <2>9 DEF Rename
  <2> QED
    BY Zenon, <1>1, <2>1, <2>2, <2>3, <2>4, <2>5, <2>6, <2>7, <2>8, <2>9 DEF Load
<1>2. ASSUME NEW q \in Processes, Crash(q) PROVE LockInPlace'
  BY <1>2 DEF Crash
<1>3. CASE Clean
  BY Zenon, <1>3 DEF CleanKnown, Clean, CleanBegin, CleanUnlink, CleanEnd
<1>4. CASE UNCHANGED vars
  BY Zenon, <1>4 DEF vars
<1> QED
  BY Zenon, <1>1, <1>2, <1>3, <1>4 DEF Next

\* Holding the lock excludes every other holder.
LEMMA Exclusive == TypeOK /\ LockInPlace => OneAtATime
  BY Zenon, LoaderAssumption DEF TypeOK, LockInPlace, OneAtATime, Compiling, Locked, Writing

LEMMA NextUnwasted == Inv /\ [Next]_vars => NoWastedCompile'
<1> SUFFICES ASSUME Inv, [Next]_vars PROVE NoWastedCompile'
  BY Zenon
<1>0. OneAtATime
  BY Zenon, Exclusive DEF Inv
<1> USE LoaderAssumption, FileAssumption, <1>0
    DEF Inv, TypeOK, NoWastedCompile, OneAtATime, Compiling, Writing, Loads, Working, Done, Goto, Return
<1>1. ASSUME NEW p \in Loaders, Load(p) PROVE NoWastedCompile'
  <2>1. CASE Look(p) \/ MakeDir(p) \/ OpenLock(p) \/ Flock(p)
    BY <2>1 DEF Look, MakeDir, OpenLock, Flock
  <2>2. CASE LookAgain(p)
    BY <2>2 DEF LookAgain, Found
  <2>3. CASE Compile(p) \/ BeginWrite(p)
    BY <2>3 DEF Compile, BeginWrite
  <2>4. CASE FinishWrite(p)
    BY <2>4 DEF FinishWrite
  <2>5. CASE Rename(p)
    BY <2>5 DEF Rename
  <2> QED
    BY Zenon, <1>1, <2>1, <2>2, <2>3, <2>4, <2>5 DEF Load
<1>2. ASSUME NEW q \in Processes, Crash(q) PROVE NoWastedCompile'
  BY Zenon, <1>2 DEF Crash
<1>3. CASE Clean
  BY Zenon, <1>3 DEF CleanKnown, Clean, CleanBegin, CleanUnlink, CleanEnd
<1>4. CASE UNCHANGED vars
  BY Zenon, <1>4 DEF vars
<1> QED
  BY Zenon, <1>1, <1>2, <1>3, <1>4 DEF Next

LEMMA Invariance == Spec => []Inv
<1>1. Init => Inv
  BY Zenon, InitType DEF Init, Inv, CleanKnown, LockInPlace, Locked, Writing, NoWastedCompile
<1>2. Inv /\ [Next]_vars => Inv'
  BY Zenon, NextType, NextKnown, NextLocked, NextUnwasted DEF Inv
<1> QED
  BY <1>1, <1>2, PTL DEF Spec

\* Until somebody cleans the cache, one thread of all processes compiles or stores the
\* entry at a time, whoever crashes (load_bytes and save_hashed hold the lock of
\* lock_entry), and none compiles a module whose artifact is already stored (load_bytes
\* looks again under the lock).
THEOREM OneCompile == Spec => []CompiledOnce
<1>1. Inv => CompiledOnce
  BY Zenon, Exclusive DEF Inv, CompiledOnce
<1> QED
  BY <1>1, Invariance, PTL

-----------------------------------------------------------------------------
\* What a thread alone in its process, or the only one storing, renames is whole.
LEMMA NextWhole ==
  ASSUME Inv, OwnPartial, OnePartial, WholeArtifact, [Next]_vars
  PROVE  OwnPartial' /\ OnePartial' /\ WholeArtifact'
<1>0. OneAtATime /\ LockInPlace' /\ TypeOK /\ TypeOK'
  BY Zenon, Exclusive, NextLocked, NextType DEF Inv
<1>t. /\ \A q \in Processes : partial[q] = Absent \/ partial[q] \subseteq Loaders
      /\ \A p \in Loaders : Process[p] \in Processes
      /\ Alone \subseteq Loaders
  BY Zenon, <1>0 DEF TypeOK, Processes, Alone
<1> USE FileAssumption DEF OwnPartial, OnePartial, WholeArtifact, Goto, Return
<1>s. ASSUME UNCHANGED <<entry, partial>>, cleaned => cleaned',
             \A p \in Loaders : pc'[p] \in {"finish", "rename"} => pc'[p] = pc[p]
      PROVE  OwnPartial' /\ OnePartial' /\ WholeArtifact'
  BY Zenon, <1>s, <1>t
<1>1. ASSUME NEW p \in Loaders, Load(p) PROVE OwnPartial' /\ OnePartial' /\ WholeArtifact'
  <2>1. CASE Look(p) \/ MakeDir(p) \/ OpenLock(p) \/ Flock(p) \/ LookAgain(p) \/ Compile(p)
    <3>1. UNCHANGED <<entry, partial, cleaned>>
      BY Zenon, <2>1 DEF Look, MakeDir, OpenLock, Flock, LookAgain, Compile
    <3>2. \A q \in Loaders : pc'[q] \in {"finish", "rename"} => pc'[q] = pc[q]
      BY <2>1, <1>0 DEF Look, MakeDir, OpenLock, Flock, LookAgain, Compile, TypeOK
    <3> QED
      BY Zenon, <3>1, <3>2, <1>s
  <2>2. CASE BeginWrite(p)
    <3>1. CASE Return(p, "failed") /\ UNCHANGED partial
      <4>1. UNCHANGED <<entry, cleaned>>
        BY Zenon, <2>2 DEF BeginWrite
      <4>2. \A q \in Loaders : pc'[q] \in {"finish", "rename"} => pc'[q] = pc[q]
        BY <3>1, <1>0 DEF TypeOK
      <4> QED
        BY Zenon, <3>1, <4>1, <4>2, <1>s
    <3>2. CASE /\ dir /\ Goto(p, "finish") /\ UNCHANGED holder
               /\ partial' = [partial EXCEPT ![PartialOf(p)] = Written(@, p)]
      <4>1. /\ pc[p] = "write" /\ UNCHANGED <<entry, cleaned>>
            /\ pc' = [pc EXCEPT ![p] = "finish"]
        BY Zenon, <2>2, <3>2 DEF BeginWrite
      <4>2. /\ partial'[Process[p]] = Written(partial[Process[p]], p)
            /\ \A q \in Processes \ {Process[p]} : partial'[q] = partial[q]
        BY <3>2, <1>0, <1>t DEF PartialOf, TypeOK
      <4>3. Written(partial[Process[p]], p) \subseteq {p} \cup partial[Process[p]] \/ partial[Process[p]] = Absent
        BY Zenon DEF Written
      <4>4. partial[Process[p]] = Absent => Written(partial[Process[p]], p) = {p}
        BY Zenon DEF Written
      <4>5. OwnPartial'
        BY <4>1, <4>2, <4>3, <4>4, <1>0, <1>t DEF Alone, TypeOK
      <4>6. cleaned \/ Written(partial[Process[p]], p) = {p}
        BY <4>1, <1>0, <1>t DEF Written, OneAtATime, Compiling, Writing
      <4>7. OnePartial'
        BY <4>1, <4>2, <4>6, <1>0, <1>t DEF OneAtATime, Compiling, Writing, TypeOK
      <4> QED
        BY Zenon, <4>1, <4>5, <4>7
    <3> QED
      BY Zenon, <2>2, <3>1, <3>2 DEF BeginWrite
  <2>3. CASE FinishWrite(p)
    <3>1. CASE Return(p, "failed") /\ UNCHANGED <<partial, entry>>
      <4>1. UNCHANGED cleaned
        BY Zenon, <2>3 DEF FinishWrite
      <4>2. \A q \in Loaders : pc'[q] \in {"finish", "rename"} => pc'[q] = pc[q]
        BY <3>1, <1>0 DEF TypeOK
      <4> QED
        BY Zenon, <3>1, <4>1, <4>2, <1>s
    <3>2. CASE /\ Goto(p, "rename") /\ UNCHANGED holder
               /\ partial' = [q \in Processes |-> NotWriting(partial[q], p)]
               /\ entry' = NotWriting(entry, p)
      <4>1. pc[p] = "finish" /\ UNCHANGED cleaned /\ pc' = [pc EXCEPT ![p] = "rename"]
        BY Zenon, <2>3, <3>2 DEF FinishWrite
      <4>2. \A q \in Processes : /\ partial[q] = Absent => partial'[q] = Absent
                                 /\ partial[q] # Absent => partial'[q] = partial[q] \ {p}
        BY Zenon, <3>2, <1>0 DEF NotWriting, TypeOK
      <4>3. WholeArtifact'
        BY <3>2, <4>1, <1>0 DEF NotWriting, TypeOK
      <4>4. OwnPartial'
        BY <4>1, <4>2, <1>0, <1>t DEF TypeOK
      <4>5. cleaned \/ partial'[Process[p]] = {}
        <5>1. cleaned \/ (partial[Process[p]] = {p} /\ {p} # Absent)
          BY <4>1
        <5> QED
          BY Zenon, <5>1, <4>2, <1>t
      <4>6. cleaned \/ \A q \in Loaders : pc'[q] \in {"finish", "rename"} => q = p
        BY <4>1, <1>0 DEF OneAtATime, Compiling, Writing, TypeOK
      <4>7. pc'[p] = "rename"
        BY Zenon, <4>1, <1>0 DEF TypeOK
      <4>8. OnePartial'
        BY Zenon, <4>1, <4>5, <4>6, <4>7
      <4> QED
        BY Zenon, <4>3, <4>4, <4>8
    <3> QED
      BY Zenon, <2>3, <3>1, <3>2 DEF FinishWrite
  <2>4. CASE Rename(p)
    <3>1. /\ pc[p] = "rename" /\ UNCHANGED cleaned
          /\ \A q \in Loaders : pc'[q] \in {"finish", "rename"} => pc'[q] = pc[q] /\ q # p
      BY <2>4, <1>0 DEF Rename, TypeOK
    <3>2. CASE partial[Process[p]] = Absent
      <4>1. UNCHANGED <<entry, partial>>
        BY Zenon, <2>4, <3>2 DEF Rename, PartialOf
      <4> QED
        BY Zenon, <4>1, <3>1, <1>s
    <3>3. CASE partial[Process[p]] # Absent
      <4>1. entry' = partial[Process[p]] /\ partial' = [partial EXCEPT ![Process[p]] = Absent]
        BY Zenon, <2>4, <3>3 DEF Rename, PartialOf
      <4>2. \A q \in Processes : partial'[q] \in {Absent, partial[q]}
        BY Zenon, <4>1, <1>0 DEF TypeOK
      <4>3. WholeArtifact'
        BY <3>1, <3>3, <4>1, <1>t DEF Alone
      <4>4. OwnPartial'
        BY Zenon, <3>1, <4>2, <1>t
      <4>5. OnePartial'
        BY <3>1, <1>0 DEF OneAtATime, Compiling, Writing, TypeOK
      <4> QED
        BY Zenon, <4>3, <4>4, <4>5
    <3> QED
      BY Zenon, <3>2, <3>3
  <2> QED
    BY Zenon, <1>1, <2>1, <2>2, <2>3, <2>4 DEF Load
<1>2. ASSUME NEW q \in Processes, Crash(q) PROVE OwnPartial' /\ OnePartial' /\ WholeArtifact'
  <2>1. UNCHANGED <<entry, partial, cleaned>>
    BY Zenon, <1>2 DEF Crash
  <2>2. \A r \in Loaders : pc'[r] \in {"finish", "rename"} => pc'[r] = pc[r]
    BY Zenon, <1>2, <1>0 DEF Crash, TypeOK
  <2> QED
    BY Zenon, <2>1, <2>2, <1>s
<1>3. CASE Clean
  <2>1. CASE CleanBegin \/ CleanEnd
    <3>1. UNCHANGED <<entry, partial, pc>> /\ (cleaned => cleaned')
      BY <2>1 DEF CleanBegin, CleanEnd
    <3> QED
      BY Zenon, <3>1, <1>s
  <2>2. CASE CleanUnlink
    <3>1. /\ \A q \in Processes : partial'[q] \in {partial[q], Absent}
          /\ entry' \in {entry, Absent} /\ UNCHANGED pc
      BY <2>2, <1>0 DEF CleanUnlink, TypeOK
    <3>2. cleaned /\ cleaned'
      BY Zenon, <2>2 DEF CleanUnlink, Inv, CleanKnown
    <3> QED
      BY Zenon, <3>1, <3>2, <1>t
  <2> QED
    BY Zenon, <1>3, <2>1, <2>2 DEF Clean
<1>4. CASE UNCHANGED vars
  BY Zenon, <1>4, <1>s DEF vars
<1> QED
  BY Zenon, <1>1, <1>2, <1>3, <1>4 DEF Next

\* "A reader sees either no artifact or a complete one" (store_entry): until a clean
\* whoever stored it, and after one if it was alone in its process at the entry.
THEOREM AlwaysWhole == Spec => []WholeArtifact
<1>1. Init => OwnPartial /\ OnePartial /\ WholeArtifact
  BY Zenon DEF Init, OwnPartial, OnePartial, WholeArtifact, Alone, Processes
<1>2. Inv /\ OwnPartial /\ OnePartial /\ WholeArtifact /\ [Next]_vars
        => (OwnPartial /\ OnePartial /\ WholeArtifact)'
  BY Zenon, NextWhole
<1> QED
  BY <1>1, <1>2, Invariance, PTL DEF Spec

-----------------------------------------------------------------------------
(* Instances.  An entry that has not been adopted has no watcher and nothing *)
(* reported, and a reported exit is either still in the channel or told.     *)

\* Nothing happens to an instance before it is adopted.
Fresh ==
  \A i \in Ids : registered[i] = "none" =>
    host[i] = "none" /\ watcher[i] = "none" /\ state[i] = "running" /\ due[i] = 0

\* Until the registry drops it, an entry that says running has its watcher.
Watched ==
  \A i \in Ids : registered[i] \in {"adopted", "held"} /\ state[i] = "running" =>
    watcher[i] \in {"watching", "givingUp", "gaveUp"}

\* A reported exit is in the channel, or told, unless the watcher has stopped
\* reading; only a host that is gone is told lost.
ExitInFlight ==
  \A i \in Ids :
    /\ reported[i] => host[i] = "gone" /\ (frame[i] \/ state[i] = "exited")
    /\ state[i] = "lost" => host[i] = "gone" /\ ~reported[i]

\* What clients were promised is never more than the lease.
Promised == \A i \in Ids : due[i] <= lease[i]

\* A handler that is under way refers to an adopted entry.
Placed == \A h \in Handlers : handler[h] # "idle" => at[h] \in Ids /\ registered[at[h]] # "none"

RegistryInv == I!TtlAssumption /\ I!TypeOK /\ Placed /\ Fresh /\ Watched /\ ExitInFlight /\ Promised

-----------------------------------------------------------------------------
\* The initial state satisfies every part of the invariant.
LEMMA RegistryInit == I!TtlAssumption /\ I!Init => RegistryInv
<1> SUFFICES ASSUME I!TtlAssumption, I!Init PROVE RegistryInv
  BY Zenon
<1>1. I!Flags
  BY Zenon DEF I!Init, I!Flags
<1>2. I!Ranges
  BY DEF I!TtlAssumption, I!Init, I!Ranges
<1>3. Placed /\ Fresh /\ Watched /\ Promised
  BY DEF I!Init, Placed, Fresh, Watched, Promised
<1>4. ExitInFlight
  BY Zenon DEF I!Init, ExitInFlight
<1> QED
  BY Zenon, <1>1, <1>2, <1>3, <1>4 DEF RegistryInv, I!TypeOK

\* Flags stay Boolean.
LEMMA NextFlags == I!Flags /\ [I!Next]_(I!vars) => I!Flags'
<1> SUFFICES ASSUME I!Flags, [I!Next]_(I!vars) PROVE I!Flags'
  BY Zenon
<1> QED
  BY Zenon DEF I!Flags, I!Next, I!vars, I!Adopt, I!Insert, I!Delete, I!Watch, I!WatchExited, I!WatchLost,
     I!WatchStop, I!WatchEnds, I!WatchFails, I!GuestExits, I!HostDies, I!Handler, I!Describe,
     I!RenewCheck, I!Renew, I!Renewed, I!Get, I!Answer, I!Sweep, I!SweepCheck, I!SweepRemove, I!SweepDrop,
     I!Shutdown, I!Tick, I!leases, I!watching, I!handling, I!sweeping

\* Every step keeps the ranges, the facts about entries and watchers, and the
\* promises; one step of the proof per action.
LEMMA NextRest ==
  RegistryInv /\ [I!Next]_(I!vars) =>
    I!Ranges' /\ Placed' /\ Fresh' /\ Watched' /\ ExitInFlight' /\ Promised'
<1> SUFFICES ASSUME RegistryInv, [I!Next]_(I!vars)
             PROVE  I!Ranges' /\ Placed' /\ Fresh' /\ Watched' /\ ExitInFlight' /\ Promised'
  BY Zenon
<1> USE DEF I!TtlAssumption, RegistryInv, I!TypeOK, I!Ranges, I!leases, I!watching, I!handling, I!sweeping
<1>1. CASE \E i \in Ids : I!Adopt(i)
  <2>1. I!Ranges' /\ Placed'
    BY <1>1 DEF I!Adopt, I!TtlDuration, Placed
  <2>2. Fresh' /\ Watched' /\ Promised'
    BY <1>1 DEF I!Adopt, I!TtlDuration, Fresh, Watched, Promised, Placed
  <2>3. ExitInFlight'
    BY <1>1 DEF I!Adopt, I!TtlDuration, ExitInFlight, Fresh, I!Flags
  <2> QED
    BY Zenon, <2>1, <2>2, <2>3
<1>2. CASE \E i \in Ids : I!Insert(i)
  BY <1>2 DEF I!Insert, Placed, Fresh, Watched, ExitInFlight, Promised, I!Flags
<1>3. CASE \E i \in Ids : I!Delete(i)
  BY <1>3 DEF I!Delete, Placed, Fresh, Watched, ExitInFlight, Promised, I!Flags
<1>4. CASE \E i \in Ids : I!WatchExited(i)
  <2>1. I!Ranges' /\ Placed'
    BY <1>4 DEF I!WatchExited, I!ExitReadable, Placed
  <2>2. Fresh' /\ Watched' /\ Promised'
    BY <1>4 DEF I!WatchExited, I!ExitReadable, Fresh, Watched, Promised, Placed
  <2>3. ExitInFlight'
    BY <1>4 DEF I!WatchExited, I!ExitReadable, ExitInFlight, Fresh, I!Flags
  <2> QED
    BY Zenon, <2>1, <2>2, <2>3
<1>5. CASE \E i \in Ids : I!WatchLost(i)
  <2>1. I!Ranges' /\ Placed'
    BY <1>5 DEF I!WatchLost, I!ExitReadable, I!LossTold, Placed
  <2>2. Fresh' /\ Watched' /\ Promised'
    BY <1>5 DEF I!WatchLost, I!ExitReadable, I!LossTold, Fresh, Watched, Promised, Placed
  <2>3. ExitInFlight'
    BY <1>5 DEF I!WatchLost, I!ExitReadable, I!LossTold, ExitInFlight, Fresh, I!Flags
  <2> QED
    BY Zenon, <2>1, <2>2, <2>3
<1>6. CASE \E i \in Ids : I!WatchStop(i)
  <2>1. I!Ranges' /\ Placed'
    BY <1>6 DEF I!WatchStop, I!Dropped, Placed
  <2>2. Fresh' /\ Watched' /\ Promised'
    BY <1>6 DEF I!WatchStop, I!Dropped, Fresh, Watched, Promised, Placed
  <2>3. ExitInFlight'
    BY <1>6 DEF I!WatchStop, I!Dropped, ExitInFlight, Fresh, I!Flags
  <2> QED
    BY Zenon, <2>1, <2>2, <2>3
<1>7. CASE \E i \in Ids : I!WatchEnds(i)
  BY <1>7 DEF I!WatchEnds, Placed, Fresh, Watched, ExitInFlight, Promised, I!Flags
<1>8. CASE \E i \in Ids : I!WatchFails(i)
  BY <1>8 DEF I!WatchFails, Placed, Fresh, Watched, ExitInFlight, Promised, I!Flags
<1>9. CASE \E i \in Ids : I!GuestExits(i)
  <2>1. I!Ranges' /\ Placed'
    BY <1>9 DEF I!GuestExits, Placed
  <2>2. Fresh' /\ Watched' /\ Promised'
    BY <1>9 DEF I!GuestExits, Fresh, Watched, Promised, Placed
  <2>3. ExitInFlight'
    BY <1>9 DEF I!GuestExits, ExitInFlight, Fresh, I!Flags
  <2> QED
    BY Zenon, <2>1, <2>2, <2>3
<1>10. CASE \E i \in Ids : I!HostDies(i)
  BY <1>10 DEF I!HostDies, Placed, Fresh, Watched, ExitInFlight, Promised, I!Flags
<1>11. CASE \E h \in Handlers : I!Describe(h)
  BY <1>11 DEF I!Describe, I!Answer, Placed, Fresh, Watched, ExitInFlight, Promised, I!Flags
<1>12. CASE \E h \in Handlers : I!RenewCheck(h)
  BY <1>12 DEF I!RenewCheck, I!Answer, Placed, Fresh, Watched, ExitInFlight, Promised, I!Flags
<1>13. CASE \E h \in Handlers : I!Renew(h)
  <2>1. I!Ranges' /\ Placed'
    BY <1>13 DEF I!Renew, I!Lesser, I!TtlDuration, Placed
  <2>2. Fresh' /\ Watched' /\ Promised'
    BY <1>13 DEF I!Renew, I!Lesser, I!TtlDuration, Fresh, Watched, Promised, Placed
  <2>3. ExitInFlight'
    BY <1>13 DEF I!Renew, I!Lesser, I!TtlDuration, ExitInFlight, Fresh, I!Flags
  <2> QED
    BY Zenon, <2>1, <2>2, <2>3
<1>14. CASE \E h \in Handlers : I!Renewed(h)
  <2>1. I!Ranges' /\ Placed'
    BY <1>14 DEF I!Renewed, I!Answer, Placed
  <2>2. Fresh' /\ Watched' /\ Promised'
    BY <1>14 DEF I!Renewed, I!Answer, Fresh, Watched, Promised, Placed
  <2>3. ExitInFlight'
    BY <1>14 DEF I!Renewed, I!Answer, ExitInFlight, Fresh, I!Flags
  <2> QED
    BY Zenon, <2>1, <2>2, <2>3
<1>15. CASE \E h \in Handlers, i \in Ids : I!Get(h, i)
  BY <1>15 DEF I!Get, Placed, Fresh, Watched, ExitInFlight, Promised, I!Flags
<1>16. CASE I!SweepCheck
  BY Zenon, <1>16 DEF I!SweepCheck, I!Expired, Placed, Fresh, Watched, ExitInFlight, Promised, I!Flags
<1>17. CASE I!SweepRemove
  BY Zenon, <1>17 DEF I!SweepRemove, Placed, Fresh, Watched, ExitInFlight, Promised, I!Flags
<1>18. CASE I!SweepDrop
  BY Zenon, <1>18 DEF I!SweepDrop, Placed, Fresh, Watched, ExitInFlight, Promised, I!Flags
<1>19. CASE I!Shutdown
  BY <1>19 DEF I!Shutdown, Placed, Fresh, Watched, ExitInFlight, Promised, I!Flags
<1>20. CASE I!Tick
  <2>1. I!Ranges' /\ Placed'
    BY <1>20 DEF I!Tick, I!Less, Placed
  <2>2. Fresh' /\ Watched' /\ Promised'
    BY <1>20 DEF I!Tick, I!Less, Fresh, Watched, Promised, Placed
  <2>3. ExitInFlight'
    BY Zenon, <1>20 DEF I!Tick, I!Less, ExitInFlight, Fresh, I!Flags
  <2> QED
    BY Zenon, <2>1, <2>2, <2>3
<1>21. CASE UNCHANGED I!vars
  BY Zenon, <1>21 DEF I!vars, Placed, Fresh, Watched, ExitInFlight, Promised
<1> QED
  BY Zenon, <1>1, <1>2, <1>3, <1>4, <1>5, <1>6, <1>7, <1>8, <1>9, <1>10, <1>11, <1>12,
     <1>13, <1>14, <1>15, <1>16, <1>17, <1>18, <1>19, <1>20, <1>21 DEF I!Next, I!Handler, I!Sweep, I!Watch

\* RegistryInv is inductive.
LEMMA RegistryNext == RegistryInv /\ [I!Next]_(I!vars) => RegistryInv'
  BY Zenon, NextFlags, NextRest DEF RegistryInv, I!TypeOK

-----------------------------------------------------------------------------
\* RegistryInv holds in every reachable state.
LEMMA RegistryInvariance == I!TtlAssumption => (I!Spec => []RegistryInv)
  BY RegistryInit, RegistryNext, PTL DEF I!Spec

\* The registry, its handlers, watchers and hosts stay well typed.
THEOREM RegistryTyped == I!TtlAssumption => (I!Spec => []I!TypeOK)
<1>1. RegistryInv => I!TypeOK
  BY Zenon DEF RegistryInv
<1> QED
  BY <1>1, RegistryInvariance, PTL

\* An instance the API describes as running is being watched, watch never ending
\* without telling what became of the guest except when poll fails; and the exit status
\* a host reported is never replaced by "went away without reporting a status".
THEOREM AlwaysTold == I!TtlAssumption => (I!Spec => []ExitsTold)
<1>1. RegistryInv => ExitsTold
  BY Zenon DEF RegistryInv, Watched, ExitInFlight, ExitsTold, I!ExitsTold
<1> QED
  BY <1>1, RegistryInvariance, PTL

\* remove_expired only ever picks instances whose promised time has run out.
THEOREM LeaseHonoured == I!TtlAssumption => (I!Spec => SweepsOnlyLapsed)
<1>1. RegistryInv /\ [I!Next]_(I!vars) => [\A i \in expired' \ expired : due[i] = 0]_(I!vars)
  <2> SUFFICES ASSUME RegistryInv, [I!Next]_(I!vars), NEW i \in expired' \ expired PROVE due[i] = 0
    BY Zenon
  <2>1. CASE I!SweepCheck
    <3>1. i \in Ids /\ lease[i] = 0 BY Zenon, <2>1 DEF I!SweepCheck, I!Expired
    <3> QED BY <3>1 DEF RegistryInv, I!TypeOK, I!Ranges, Promised
  <2>2. CASE I!SweepDrop
    BY Zenon, <2>2 DEF I!SweepDrop
  <2>3. CASE UNCHANGED expired
    BY Zenon, <2>3
  <2> QED
    BY <2>1, <2>2, <2>3 DEF I!Next, I!vars, I!Adopt, I!Insert, I!Delete, I!Watch, I!WatchExited, I!WatchLost,
       I!WatchStop, I!WatchEnds, I!WatchFails, I!GuestExits, I!HostDies, I!Handler, I!Describe, I!RenewCheck,
       I!Renew, I!Renewed, I!Get, I!Sweep, I!SweepRemove, I!Shutdown, I!Tick, I!sweeping
<1> QED
  BY <1>1, RegistryInvariance, PTL DEF I!Spec, SweepsOnlyLapsed, I!SweepsOnlyLapsed

=============================================================================
