---------------------------- MODULE ModuleCache ----------------------------
(***************************************************************************)
(* One entry of the on-disk cache of compiled modules, loaded and saved by  *)
(* threads of several processes that share nothing but the directory: the   *)
(* entry's lock file (flock), the partial file a store writes before it     *)
(* renames it into place, and `cache clean` removing the directory.         *)
(*                                                                          *)
(* An artifact file is the set of threads that have it open and have not    *)
(* finished writing it, so a complete one is the empty set.  A lock file is *)
(* named by the thread that created it: cleaning removes the name, not the  *)
(* lock somebody holds.                                                     *)
(***************************************************************************)
CONSTANTS
  Loaders,    \* threads, each carrying out one operation on the entry
  Process,    \* the process of each: store_entry names its partial file by it
  Nil,        \* no lock file, no holder
  Absent,     \* no file
  Stale       \* an artifact that does not load

ASSUME LoaderAssumption == Nil \notin Loaders
ASSUME FileAssumption == Absent # Stale /\ \A f \in SUBSET Loaders : f # Absent /\ f # Stale

VARIABLES
  op,       \* what each thread does: "load" (load_bytes), "save" or "lookup"
  pc,       \* where it is
  dir,      \* the entry's directory exists
  entry,    \* the artifact: a file, Absent or Stale
  partial,  \* the partial file of each process: a file or Absent
  path,     \* the lock file the entry's name leads to, or Nil
  opened,   \* the lock file each thread has open, or Nil
  holder,   \* who holds the lock on each lock file
  cleaning, \* a `cache clean` is removing the directory
  cleaned   \* history: a `cache clean` has begun

vars == <<op, pc, dir, entry, partial, path, opened, holder, cleaning, cleaned>>

Processes == {Process[p] : p \in Loaders}
Working == {"look", "mkdir", "open", "flock", "again", "compile", "write", "finish", "rename"}
Done == {"ok", "missing", "failed", "crashed"}

TypeOK ==
  /\ op \in [Loaders -> {"load", "save", "lookup"}]
  /\ pc \in [Loaders -> Working \cup Done]
  /\ dir \in BOOLEAN /\ cleaning \in BOOLEAN /\ cleaned \in BOOLEAN
  /\ entry \in {Absent, Stale} \cup SUBSET Loaders
  /\ partial \in [Processes -> {Absent} \cup SUBSET Loaders]
  /\ path \in Loaders \cup {Nil}
  /\ opened \in [Loaders -> Loaders \cup {Nil}]
  /\ holder \in [Loaders -> Loaders \cup {Nil}]

Init ==
  /\ op \in [Loaders -> {"load", "save", "lookup"}]
  /\ pc = [p \in Loaders |-> IF op[p] = "save" THEN "mkdir" ELSE "look"]
  /\ entry \in {Absent, Stale, {}} /\ dir = (entry # Absent)
  /\ partial = [q \in Processes |-> Absent]
  /\ path = Nil /\ opened = [p \in Loaders |-> Nil] /\ holder = [p \in Loaders |-> Nil]
  /\ cleaning = FALSE /\ cleaned = FALSE

-----------------------------------------------------------------------------
Goto(p, where) == pc' = [pc EXCEPT ![p] = where]

LockKept(p) == holder

\* The lock file is dropped, by a return or by the kernel.
Unlock(p) == [f \in Loaders |-> IF holder[f] = p THEN Nil ELSE holder[f]]

Return(p, how) == Goto(p, how) /\ holder' = Unlock(p)

\* A mapped artifact is loadable when it is complete.
Loads == entry = {}

\* load_entry without the lock.
Look(p) ==
  /\ pc[p] = "look"
  /\ IF Loads THEN Return(p, "ok")
     ELSE IF op[p] = "lookup" THEN Return(p, "missing")
     ELSE Goto(p, "mkdir") /\ UNCHANGED holder
  /\ UNCHANGED <<op, dir, entry, partial, path, opened, cleaning, cleaned>>

\* lock_entry: the directory is made, the lock file opened (and made), and
\* the lock waited for.
MakeDir(p) ==
  /\ pc[p] = "mkdir" /\ dir' = TRUE /\ Goto(p, "open")
  /\ UNCHANGED <<op, entry, partial, path, opened, holder, cleaning, cleaned>>

OpenLock(p) ==
  /\ pc[p] = "open"
  /\ IF dir THEN /\ path' = IF path = Nil THEN p ELSE path
                 /\ opened' = [opened EXCEPT ![p] = path']
                 /\ Goto(p, "flock") /\ UNCHANGED holder
            ELSE Return(p, "failed") /\ UNCHANGED <<path, opened>>
  /\ UNCHANGED <<op, dir, entry, partial, cleaning, cleaned>>

LockFree(f) == holder[f] = Nil

Flock(p) ==
  /\ pc[p] = "flock" /\ LockFree(opened[p])
  /\ holder' = [holder EXCEPT ![opened[p]] = p] /\ Goto(p, "again")
  /\ UNCHANGED <<op, dir, entry, partial, path, opened, cleaning, cleaned>>

FoundNothing(p) == FALSE

\* load_entry under the lock; save_hashed only asks whether a file is there.
Found(p) == IF op[p] = "save" THEN entry # Absent ELSE Loads

LookAgain(p) ==
  /\ pc[p] = "again"
  /\ IF Found(p) THEN Return(p, "ok")
     ELSE Goto(p, IF op[p] = "save" THEN "write" ELSE "compile") /\ UNCHANGED holder
  /\ UNCHANGED <<op, dir, entry, partial, path, opened, cleaning, cleaned>>

Compile(p) ==
  /\ pc[p] = "compile"
  /\ \/ Goto(p, "write") /\ UNCHANGED holder
     \/ Return(p, "failed")
  /\ UNCHANGED <<op, dir, entry, partial, path, opened, cleaning, cleaned>>

\* A file created or, if it is there, truncated: whoever else has it open goes
\* on writing it.
Written(file, p) ==
  {p} \cup (IF file = Absent THEN {} ELSE {q \in file : pc[q] = "finish"})

SharedName(p) == CHOOSE q \in Processes : TRUE

\* Whose partial file the thread writes.
PartialOf(p) == Process[p]

\* store_entry: the partial file is opened ...
BeginWrite(p) ==
  /\ pc[p] = "write"
  /\ \/ /\ dir /\ Goto(p, "finish") /\ UNCHANGED holder
        /\ partial' = [partial EXCEPT ![PartialOf(p)] = Written(@, p)]
     \/ Return(p, "failed") /\ UNCHANGED partial
  /\ UNCHANGED <<op, dir, entry, path, opened, cleaning, cleaned>>

NotWriting(file, p) == IF file \in {Absent, Stale} THEN file ELSE file \ {p}

\* ... written, under whatever name it has by then, in full or not ...
FinishWrite(p) ==
  /\ pc[p] = "finish"
  /\ \/ /\ Goto(p, "rename") /\ UNCHANGED holder
        /\ partial' = [q \in Processes |-> NotWriting(partial[q], p)]
        /\ entry' = NotWriting(entry, p)
     \/ Return(p, "failed") /\ UNCHANGED <<partial, entry>>
  /\ UNCHANGED <<op, dir, path, opened, cleaning, cleaned>>

\* ... and renamed into place, if it is still there.
Rename(p) ==
  /\ pc[p] = "rename"
  /\ IF partial[PartialOf(p)] # Absent
       THEN /\ entry' = partial[PartialOf(p)]
            /\ partial' = [partial EXCEPT ![PartialOf(p)] = Absent]
            /\ Return(p, "ok")
       ELSE Return(p, "failed") /\ UNCHANGED <<entry, partial>>
  /\ UNCHANGED <<op, dir, path, opened, cleaning, cleaned>>

\* A process dies: the kernel drops its locks; what it wrote stays.
Crash(q) ==
  /\ \E p \in Loaders : Process[p] = q /\ pc[p] \in Working
  /\ pc' = [p \in Loaders |-> IF Process[p] = q /\ pc[p] \in Working THEN "crashed" ELSE pc[p]]
  /\ holder' = [f \in Loaders |-> IF holder[f] # Nil /\ Process[holder[f]] = q
                                    THEN Nil ELSE holder[f]]
  /\ UNCHANGED <<op, dir, entry, partial, path, opened, cleaning, cleaned>>

-----------------------------------------------------------------------------
(* `cache clean`: remove_dir_all unlinks the files it finds one by one, then *)
(* removes the directory unless something has appeared in it.                *)

CleanBegin ==
  /\ dir /\ ~cleaning /\ cleaning' = TRUE /\ cleaned' = TRUE
  /\ UNCHANGED <<op, pc, dir, entry, partial, path, opened, holder>>

CleanUnlink ==
  /\ cleaning
  /\ \/ entry # Absent /\ entry' = Absent /\ UNCHANGED <<partial, path>>
     \/ path # Nil /\ path' = Nil /\ UNCHANGED <<entry, partial>>
     \/ \E q \in Processes : /\ partial[q] # Absent
                             /\ partial' = [partial EXCEPT ![q] = Absent]
                             /\ UNCHANGED <<entry, path>>
  /\ UNCHANGED <<op, pc, dir, opened, holder, cleaning, cleaned>>

\* The directory is empty and goes, or is not and the clean fails.
CleanEnd ==
  /\ cleaning /\ cleaning' = FALSE
  /\ \/ /\ entry = Absent /\ path = Nil /\ \A q \in Processes : partial[q] = Absent
        /\ dir' = FALSE
     \/ UNCHANGED dir
  /\ UNCHANGED <<op, pc, entry, partial, path, opened, holder, cleaned>>

-----------------------------------------------------------------------------
Load(p) ==
  \/ Look(p) \/ MakeDir(p) \/ OpenLock(p) \/ Flock(p) \/ LookAgain(p) \/ Compile(p)
  \/ BeginWrite(p) \/ FinishWrite(p) \/ Rename(p)

Clean == CleanBegin \/ CleanUnlink \/ CleanEnd

Next == (\E p \in Loaders : Load(p)) \/ (\E q \in Processes : Crash(q)) \/ Clean

Spec == Init /\ [][Next]_vars

-----------------------------------------------------------------------------
(* Properties.                                                               *)

Writing == {"compile", "write", "finish", "rename"}
Compiling == {p \in Loaders : pc[p] \in Writing}

\* "One compile per entry at a time": until somebody cleans the cache, one
\* thread, of all processes, compiles or stores the entry.  (A clean unlinks
\* the lock file a thread holds, and the next thread locks a new one.)
OneAtATime == cleaned \/ \A p, q \in Compiling : p = q

\* Nobody compiles what another has already stored: "the others wait on it
\* and then find the artifact in place", even after a holder crashed.
NoWastedCompile == cleaned \/ \A p \in Loaders : pc[p] = "compile" => ~Loads

\* So an entry is compiled once, by one thread, for as long as nobody cleans the cache.
CompiledOnce == OneAtATime /\ NoWastedCompile

\* Threads with no other thread of their process at the entry.
Alone == {p \in Loaders : \A q \in Loaders : Process[q] = Process[p] => q = p}

\* "A reader sees either no artifact or a complete one": the entry is never a
\* file somebody is still writing or stopped writing half-way.  After a clean
\* this is so of what a thread alone in its process writes; two threads of a
\* process may then be writing one partial file.
WholeArtifact ==
  entry \notin {Absent, Stale} => entry \cap Alone = {} /\ (cleaned \/ entry = {})

\* Whoever waits for a lock waits for a thread that is at work on the entry and
\* waits for nobody: no crash, error or clean leaves a lock behind, so lock_entry
\* always returns in the end.
HolderWorks ==
  \A f \in Loaders :
    holder[f] # Nil => pc[holder[f]] \in {"again"} \cup Writing /\ opened[holder[f]] = f

=============================================================================
