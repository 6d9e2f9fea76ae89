----------------------------- MODULE Templates -----------------------------
(***************************************************************************)
(* The template cache of one service, and everything it starts: concurrent  *)
(* create_instance requests, the slot map and its per-slot async locks, the *)
(* owner thread of every template, and the tree of host processes (a base   *)
(* template, recipe templates forked off it, instances forked off either).  *)
(*                                                                          *)
(* A template is named by the process id of its host.  A Template handle is *)
(* any place that stores that name: a slot, or a field of a request.  Slots *)
(* are shared objects: one stays in use while the map or a request has a    *)
(* reference, and is unreachable to later requests once off the map.        *)
(*                                                                          *)
(* TemplateOwner justifies representing the owner's counter of descendants  *)
(* by the set kids it counts, and a fork by a single step.                  *)
(***************************************************************************)
EXTENDS Integers, Sequences

CONSTANTS
  Requests,  \* concurrent POST /v1/instances requests, each made once
  Recipes,   \* recipes a request may name
  Base,      \* the key with no recipe
  MaxSlot,   \* bound on slots (Arc<Mutex<Option<Template>>>) in use at once
  Nil,       \* an absent slot, template, clone or lock holder
  MaxPid,    \* bound on host processes; ids are not reused
  MaxFaults  \* bound on spontaneous faults: hangups, crashes, failing calls

Keys == Recipes \cup {Base}
Pids == 1..MaxPid
Slots == 1..MaxSlot
Manager == 0

ASSUME NameAssumption ==
  /\ Base \notin Recipes
  /\ Nil \notin Requests \cup Nat
  /\ MaxSlot \in Nat /\ MaxPid \in Nat /\ MaxFaults \in Nat

VARIABLES
  slots,  \* Templates::slots: the slot of each key
  cell,   \* what each slot holds
  lock,   \* which request holds each slot's lock
  req,    \* the create_instance futures
  tpl,    \* per template: its owner thread and shared flag
  proc,   \* host processes
  down,   \* the server has shut down
  faults  \* spontaneous faults so far

vars == <<slots, cell, lock, req, tpl, proc, down, faults>>

Answers == {"none", "ok", "err"}
Awaiting == {"lockBase", "fillBase", "lockRecipe", "forkBase", "fillRecipe", "forking"}
Final == {"created", "failed", "cancelled"}

Request ==
  [pc : Awaiting \cup Final \cup {"new", "obtain", "recipeSlot", "send", "forget"},
   key : Keys, bslot : Slots \cup {Nil}, rslot : Slots \cup {Nil},
   base : Pids \cup {Nil}, tmpl : Pids \cup {Nil}, clone : Pids \cup {Nil},
   answer : Answers, rebuilt : BOOLEAN, gone : BOOLEAN]

Template ==
  [owner : {"none", "bringup", "serving", "stopping", "ended"}, alive : BOOLEAN,
   queue : Seq(Requests), kids : SUBSET Pids, recipe : Keys,
   why : {"", "expired", "failed", "dropped"}]  \* history: why it is stopping

Process ==
  [st : {"free", "up", "dead"}, parent : Pids \cup {Manager},
   keeper : {"owner", "request", "instance", "nobody"}, holds : Keys]

TypeOK ==
  /\ slots \in [Keys -> Slots \cup {Nil}]
  /\ cell \in [Slots -> Pids \cup {Nil}]
  /\ lock \in [Slots -> Requests \cup {Nil}]
  /\ req \in [Requests -> Request]
  /\ tpl \in [Pids -> Template]
  /\ proc \in [Pids -> Process]
  /\ down \in BOOLEAN
  /\ faults \in 0..MaxFaults

NewRequest(k) == [pc |-> "new", key |-> k, bslot |-> Nil, rslot |-> Nil, base |-> Nil,
          tmpl |-> Nil, clone |-> Nil, answer |-> "none", rebuilt |-> FALSE,
          gone |-> FALSE]

Init ==
  /\ slots = [k \in Keys |-> Nil]
  /\ cell = [s \in Slots |-> Nil]
  /\ lock = [s \in Slots |-> Nil]
  /\ \E k \in [Requests -> Keys] : req = [r \in Requests |-> NewRequest(k[r])]
  /\ tpl = [p \in Pids |-> [owner |-> "none", alive |-> FALSE, queue |-> <<>>,
                            kids |-> {}, recipe |-> Base, why |-> ""]]
  /\ proc = [p \in Pids |-> [st |-> "free", parent |-> Manager,
                             keeper |-> "nobody", holds |-> Base]]
  /\ down = FALSE /\ faults = 0

-----------------------------------------------------------------------------
\* Arc::strong_count(slot) > 1: a request has a reference to the slot.
InUse(s) == \E r \in Requests : s \in {req[r].bslot, req[r].rslot}

Mapped(s) == \E k \in Keys : slots[k] = s

\* Dropping the last reference to a slot drops the handle in it.
Cells(new) == cell' = [s \in Slots |-> IF (InUse(s) \/ Mapped(s))' THEN new[s] ELSE Nil]

\* Somebody has a Template handle, and so a sender of the owner's queue.
Handle(t) == \/ \E s \in Slots : cell[s] = t
             \/ \E r \in Requests : t \in {req[r].base, req[r].tmpl}

\* A slot or process is made: the lowest name not taken.
NewSlot(s) == ~(InUse(s) \/ Mapped(s)) /\ \A u \in Slots : u < s => InUse(u) \/ Mapped(u)

NewPid(p) == proc[p].st = "free" /\ \A q \in Pids : q < p => proc[q].st # "free"

\* The request waits for template t to answer a fork command.
AwaitsFork(r, t) ==
  /\ req[r].answer = "none"
  /\ \/ req[r].pc = "forking" /\ req[r].tmpl = t
     \/ req[r].pc = "forkBase" /\ req[r].base = t

\* The request waits for template t to be brought up.
AwaitsFill(r, t) ==
  /\ req[r].answer = "none"
  /\ \/ req[r].pc = "fillBase" /\ req[r].base = t
     \/ req[r].pc = "fillRecipe" /\ req[r].tmpl = t

\* An owner thread starts, to bring its host up with this recipe (or none).
NewTemplate(k) == [owner |-> "bringup", alive |-> TRUE, queue |-> <<>>, kids |-> {},
                   recipe |-> k, why |-> ""]

\* Something the code does not control goes wrong.
Fault == faults < MaxFaults /\ faults' = faults + 1

\* No process can be made: spawning and forking fail without a fault.
NoPids == \A p \in Pids : proc[p].st # "free"

NotStored(s, t) == cell

\* A filled slot holds the new template.
Stored(s, t) == [cell EXCEPT ![s] = t]

LockLeaked(r) == lock

Unlocked(r) == [s \in Slots |-> IF lock[s] = r THEN Nil ELSE lock[s]]

\* The request ends: every handle, slot reference and lock it has is dropped.
Ended(r, how) ==
  /\ req' = [req EXCEPT ![r] = [@ EXCEPT !.pc = how, !.bslot = Nil, !.rslot = Nil,
                    !.base = Nil, !.tmpl = Nil, !.answer = "none",
                    !.clone = IF how = "created" THEN req[r].clone ELSE Nil]]
  /\ lock' = Unlocked(r)
  /\ UNCHANGED slots
  /\ Cells(cell)

-----------------------------------------------------------------------------
(* create_instance and Templates::obtain.                                    *)

\* Templates::slot: the key's slot, inserted empty if absent.
SlotOf(k, s) ==
  \/ slots[k] = s /\ UNCHANGED slots
  \/ slots[k] = Nil /\ NewSlot(s) /\ slots' = [slots EXCEPT ![k] = s]

\* A request that passed validation, or one that has just forgotten a dead
\* template, calls obtain.
ObtainBase(r) ==
  /\ req[r].pc = "obtain" \/ (req[r].pc = "new" /\ ~down)
  /\ \E s \in Slots :
       /\ SlotOf(Base, s)
       /\ req' = [req EXCEPT ![r] = [@ EXCEPT !.pc = "lockBase", !.bslot = s]]
  /\ UNCHANGED <<cell, lock, tpl, proc, down, faults>>

\* obtain has the base: without a recipe it is what the request forks from.
HaveBase(r, t) ==
  req' = [req EXCEPT ![r] =
    IF @.key = Base THEN [@ EXCEPT !.pc = "send", !.bslot = Nil, !.base = Nil,
                                   !.tmpl = t, !.answer = "none"]
                    ELSE [@ EXCEPT !.pc = "recipeSlot", !.base = t, !.answer = "none"]]

Alive(t) == t # Nil /\ tpl[t].alive

\* The base slot's lock is taken and holds a template that is alive.
BaseHit(r) ==
  /\ req[r].pc = "lockBase" /\ lock[req[r].bslot] = Nil
  /\ Alive(cell[req[r].bslot])
  /\ HaveBase(r, cell[req[r].bslot])
  /\ UNCHANGED <<slots, lock, tpl, proc, down, faults>>
  /\ Cells(cell)

\* fill_base: an owner thread and its host start, under the slot's lock; or
\* the thread or the host cannot be spawned.
BaseMiss(r) ==
  /\ req[r].pc = "lockBase" /\ lock[req[r].bslot] = Nil
  /\ ~Alive(cell[req[r].bslot])
  /\ \/ \E p \in Pids :
          /\ NewPid(p)
          /\ lock' = [lock EXCEPT ![req[r].bslot] = r]
          /\ req' = [req EXCEPT ![r] = [@ EXCEPT !.pc = "fillBase", !.base = p]]
          /\ tpl' = [tpl EXCEPT ![p] = NewTemplate(Base)]
          /\ proc' = [proc EXCEPT ![p] = [st |-> "up", parent |-> Manager,
                                          keeper |-> "owner", holds |-> Base]]
          /\ UNCHANGED <<slots, cell, faults>>
     \/ /\ Fault \/ (NoPids /\ UNCHANGED faults)
        /\ Ended(r, "failed") /\ UNCHANGED <<tpl, proc>>
  /\ UNCHANGED down

BaseFilled(r) ==
  /\ req[r].pc = "fillBase" /\ req[r].answer # "none"
  /\ \/ /\ req[r].answer = "ok"
        /\ HaveBase(r, req[r].base)
        /\ lock' = Unlocked(r)
        /\ UNCHANGED slots
        /\ Cells(Stored(req[r].bslot, req[r].base))
     \/ req[r].answer = "err" /\ Ended(r, "failed")
  /\ UNCHANGED <<tpl, proc, down, faults>>

KeyWithoutRecipe(r) == Base

\* Key::new: what the request's slot is found, and forgotten, under.
KeyOf(r) == req[r].key

\* The recipe's slot; the reference to the base slot is kept to the end.
ObtainRecipe(r) ==
  /\ req[r].pc = "recipeSlot"
  /\ \E s \in Slots :
       /\ SlotOf(KeyOf(r), s)
       /\ req' = [req EXCEPT ![r] = [@ EXCEPT !.pc = "lockRecipe", !.rslot = s]]
  /\ UNCHANGED <<cell, lock, tpl, proc, down, faults>>

\* obtain returns the recipe's template.
HaveRecipe(r, t) ==
  req' = [req EXCEPT ![r] = [@ EXCEPT !.pc = "send", !.bslot = Nil, !.rslot = Nil,
                                      !.base = Nil, !.tmpl = t, !.answer = "none"]]

RecipeHit(r) ==
  /\ req[r].pc = "lockRecipe" /\ lock[req[r].rslot] = Nil
  /\ Alive(cell[req[r].rslot])
  /\ HaveRecipe(r, cell[req[r].rslot])
  /\ UNCHANGED <<slots, lock, tpl, proc, down, faults>>
  /\ Cells(cell)

\* Template::fork: queue the command, or find the owner gone.
Send(r, t, waiting) ==
  IF tpl[t].owner = "ended"
    THEN /\ req' = [req EXCEPT ![r] = [@ EXCEPT !.pc = waiting, !.answer = "err"]]
         /\ UNCHANGED tpl
    ELSE /\ req' = [req EXCEPT ![r].pc = waiting]
         /\ tpl' = [tpl EXCEPT ![t].queue = Append(@, r)]

\* fill_recipe starts by forking the base, under the recipe slot's lock.
RecipeMiss(r) ==
  /\ req[r].pc = "lockRecipe" /\ lock[req[r].rslot] = Nil
  /\ ~Alive(cell[req[r].rslot])
  /\ lock' = [lock EXCEPT ![req[r].rslot] = r]
  /\ Send(r, req[r].base, "forkBase")
  /\ UNCHANGED <<slots, cell, proc, down, faults>>

\* The base's clone goes to an owner thread that initializes and freezes it;
\* without the thread the clone's handle is dropped.  A failed fork of the
\* base ends the request.
RecipeForked(r) ==
  /\ req[r].pc = "forkBase" /\ req[r].answer # "none"
  /\ LET c == req[r].clone IN
     \/ /\ req[r].answer = "ok"
        /\ req' = [req EXCEPT ![r] = [@ EXCEPT !.pc = "fillRecipe", !.tmpl = c,
                                               !.clone = Nil, !.answer = "none"]]
        /\ tpl' = [tpl EXCEPT ![c] = NewTemplate(req[r].key)]
        /\ proc' = [proc EXCEPT ![c].keeper = "owner"]
        /\ UNCHANGED <<slots, lock, cell, faults>>
     \/ /\ req[r].answer = "ok" /\ Fault
        /\ Ended(r, "failed")
        /\ proc' = [proc EXCEPT ![c].keeper = "nobody"]
        /\ UNCHANGED tpl
     \/ /\ req[r].answer = "err"
        /\ req' = [req EXCEPT ![r] = [@ EXCEPT !.pc = "failed", !.bslot = Nil,
                     !.rslot = Nil, !.base = Nil, !.answer = "none", !.gone = TRUE]]
        /\ lock' = Unlocked(r)
        /\ UNCHANGED <<slots, tpl, proc, faults>>
        /\ Cells(cell)
  /\ UNCHANGED down

RecipeFilled(r) ==
  /\ req[r].pc = "fillRecipe" /\ req[r].answer # "none"
  /\ \/ /\ req[r].answer = "ok"
        /\ HaveRecipe(r, req[r].tmpl)
        /\ lock' = Unlocked(r)
        /\ UNCHANGED slots
        /\ Cells(Stored(req[r].rslot, req[r].tmpl))
     \/ req[r].answer = "err" /\ Ended(r, "failed")
  /\ UNCHANGED <<tpl, proc, down, faults>>

ForkInstance(r) ==
  /\ req[r].pc = "send"
  /\ Send(r, req[r].tmpl, "forking")
  /\ UNCHANGED <<slots, cell, lock, proc, down, faults>>

\* The clone is adopted and registered, unless its watcher cannot start.
Forked(r) ==
  /\ req[r].pc = "forking" /\ req[r].answer = "ok"
  /\ \/ /\ Ended(r, "created")
        /\ proc' = [proc EXCEPT ![req[r].clone].keeper = "instance"]
        /\ UNCHANGED faults
     \/ /\ Fault /\ Ended(r, "failed")
        /\ proc' = [proc EXCEPT ![req[r].clone].keeper = "nobody"]
  /\ UNCHANGED <<tpl, down>>

\* The first failed fork is followed by forget and a second obtain.  The
\* dead template's handle, kept by the code, no longer matters.
ForkFailed(r) ==
  /\ req[r].pc = "forking" /\ req[r].answer = "err"
  /\ \/ /\ ~req[r].rebuilt
        /\ req' = [req EXCEPT ![r] = [@ EXCEPT !.pc = "forget", !.tmpl = Nil,
                                               !.answer = "none"]]
        /\ UNCHANGED <<slots, lock, cell>>
     \/ /\ req[r].rebuilt
        /\ req' = [req EXCEPT ![r] = [@ EXCEPT !.pc = "failed", !.bslot = Nil,
                     !.rslot = Nil, !.tmpl = Nil, !.answer = "none", !.gone = TRUE]]
        /\ lock' = Unlocked(r) /\ UNCHANGED slots /\ Cells(cell)
  /\ UNCHANGED <<tpl, proc, down, faults>>

Forget(r) ==
  /\ req[r].pc = "forget"
  /\ slots' = [slots EXCEPT ![KeyOf(r)] = Nil]
  /\ req' = [req EXCEPT ![r] = [@ EXCEPT !.pc = "obtain", !.rebuilt = TRUE]]
  /\ Cells(cell)
  /\ UNCHANGED <<lock, tpl, proc, down, faults>>

\* The client hangs up: the future is dropped at an await point, and with it
\* the clone a reply not yet taken carries.
Cancel(r) ==
  /\ req[r].pc \in Awaiting /\ Fault
  /\ Ended(r, "cancelled")
  /\ proc' = IF req[r].clone = Nil THEN proc
             ELSE [proc EXCEPT ![req[r].clone].keeper = "nobody"]
  /\ UNCHANGED <<tpl, down>>

-----------------------------------------------------------------------------
(* Owner threads.                                                            *)

StoppingAlive(t, why) == [tpl[t] EXCEPT !.owner = "stopping", !.why = why]

\* The owner clears alive and stops or kills its host.
Stopping(t, why) == [tpl[t] EXCEPT !.alive = FALSE, !.owner = "stopping", !.why = why]

\* base_owner and recipe_owner bring the host to frozen and say so.  If the
\* creator is gone the host is stopped instead of served.
BroughtUp(t) ==
  /\ tpl[t].owner = "bringup" /\ proc[t].st = "up"
  /\ LET waiting == {r \in Requests : AwaitsFill(r, t)} IN
     /\ req' = [r \in Requests |-> IF r \in waiting THEN [req[r] EXCEPT !.answer = "ok"]
                                                    ELSE req[r]]
     /\ tpl' = [tpl EXCEPT ![t] =
          IF waiting = {} THEN [@ EXCEPT !.owner = "stopping", !.why = "dropped"]
                          ELSE [@ EXCEPT !.owner = "serving"]]
  /\ proc' = [proc EXCEPT ![t].holds = tpl[t].recipe]
  /\ UNCHANGED <<slots, cell, lock, down, faults>>

\* A step of the bring-up fails; the host is killed or already gone.
BringUpFailed(t) ==
  /\ tpl[t].owner = "bringup"
  /\ Fault \/ (proc[t].st # "up" /\ UNCHANGED faults)
  /\ req' = [r \in Requests |-> IF AwaitsFill(r, t) THEN [req[r] EXCEPT !.answer = "err"]
                                                    ELSE req[r]]
  /\ tpl' = [tpl EXCEPT ![t].owner = "ended"]
  /\ proc' = [proc EXCEPT ![t].st = IF @ = "up" THEN "dead" ELSE @]
  /\ UNCHANGED <<slots, cell, lock, down>>

\* Exits of clones the host has reaped and reported so far: some of the dead.
Reports(t) == SUBSET {c \in tpl[t].kids : proc[c].st = "dead"}

ForkUncounted(t, c, exited) == tpl[t].kids \ exited

ForkCounted(t, c, exited) == (tpl[t].kids \cup {c}) \ exited

\* A fork command is served: the clone goes to the waiting request, or is
\* dropped with the reply if the request is gone.
ServeFork(t) ==
  /\ tpl[t].owner = "serving" /\ tpl[t].queue # <<>> /\ proc[t].st = "up"
  /\ \E c \in Pids, exited \in Reports(t) :
       LET r == Head(tpl[t].queue) IN
       /\ NewPid(c)
       /\ tpl' = [tpl EXCEPT ![t] = [@ EXCEPT !.queue = Tail(tpl[t].queue),
                                              !.kids = ForkCounted(t, c, exited)]]
       /\ req' = IF AwaitsFork(r, t)
                   THEN [req EXCEPT ![r] = [@ EXCEPT !.answer = "ok", !.clone = c]]
                   ELSE req
       /\ proc' = [proc EXCEPT ![c] =
            [st |-> "up", parent |-> t, holds |-> proc[t].holds,
             keeper |-> IF AwaitsFork(r, t) THEN "request" ELSE "nobody"]]
  /\ UNCHANGED <<slots, cell, lock, down, faults>>

\* The fork fails, for want of descriptors, in the host, in the clone, or
\* because the host is dead; the owner gives the template up.
ServeForkFailed(t) ==
  /\ tpl[t].owner = "serving" /\ tpl[t].queue # <<>>
  /\ Fault \/ ((proc[t].st # "up" \/ NoPids) /\ UNCHANGED faults)
  /\ LET r == Head(tpl[t].queue) IN
       req' = IF AwaitsFork(r, t) THEN [req EXCEPT ![r].answer = "err"] ELSE req
  /\ tpl' = [tpl EXCEPT ![t] = [Stopping(t, "failed") EXCEPT !.queue = Tail(@)]]
  /\ UNCHANGED <<slots, cell, lock, proc, down>>

\* A second passed without a command: count the exits reported and, with no
\* descendant left, expire if the TTL has run since idle_since.
Timeout(t) ==
  /\ tpl[t].owner = "serving" /\ tpl[t].queue = <<>> /\ Handle(t)
  /\ \E exited \in Reports(t), elapsed \in BOOLEAN :
       LET kids == tpl[t].kids \ exited IN
       tpl' = [tpl EXCEPT ![t] =
         IF proc[t].st # "up" THEN Stopping(t, "failed")
         ELSE IF kids = {} /\ elapsed THEN Stopping(t, "expired")
         ELSE [@ EXCEPT !.kids = kids]]
  /\ UNCHANGED <<slots, cell, lock, req, proc, down, faults>>

OwnSenderKept(t) == FALSE

\* No handle is left, so no sender.
Disconnected(t) ==
  /\ tpl[t].owner = "serving" /\ tpl[t].queue = <<>> /\ ~Handle(t)
  /\ tpl' = [tpl EXCEPT ![t] = Stopping(t, "dropped")]
  /\ UNCHANGED <<slots, cell, lock, req, proc, down, faults>>

\* stop or kill has returned: the host is gone, the thread ends, and the
\* commands still queued are dropped with their reply channels.
Stopped(t) ==
  /\ tpl[t].owner = "stopping"
  /\ tpl' = [tpl EXCEPT ![t] = [@ EXCEPT !.owner = "ended", !.queue = <<>>, !.kids = {},
                                         !.why = ""]]
  /\ proc' = [proc EXCEPT ![t].st = IF @ = "up" THEN "dead" ELSE @]
  /\ req' = [r \in Requests |-> IF AwaitsFork(r, t) THEN [req[r] EXCEPT !.answer = "err"]
                                                    ELSE req[r]]
  /\ UNCHANGED <<slots, cell, lock, down, faults>>

-----------------------------------------------------------------------------
(* Host processes, and the server's own sweeps.                              *)

Dies(p) ==
  /\ proc' = [proc EXCEPT ![p].st = "dead"]
  /\ UNCHANGED <<slots, cell, lock, req, tpl, down>>

Running(p) == proc[p].st = "up"

\* A guest exits or a host crashes.
Crash(p) == Running(p) /\ Fault /\ Dies(p)

\* A host whose control channel closed, or that was told to stop, exits.
Exit(p) == Running(p) /\ proc[p].keeper = "nobody" /\ Dies(p) /\ UNCHANGED faults

\* PR_SET_PDEATHSIG: a clone is killed when its template's process dies.
DieWithParent(p) ==
  /\ Running(p) /\ proc[p].parent # Manager /\ ~Running(proc[p].parent)
  /\ Dies(p) /\ UNCHANGED faults

\* DELETE, or expiry of the lease: the registry entry is dropped.  (Dropping
\* the entry of an instance already dead changes nothing here.)
Release(p) ==
  /\ Running(p) /\ proc[p].keeper = "instance"
  /\ proc' = [proc EXCEPT ![p].keeper = "nobody"]
  /\ UNCHANGED <<slots, cell, lock, req, tpl, down, faults>>

Prunable(s) == ~InUse(s) /\ ~Alive(cell[s])

\* Templates::prune, once a second: slots nobody uses whose template is gone.
Prune ==
  /\ ~down
  /\ slots' = [k \in Keys |-> IF slots[k] # Nil /\ Prunable(slots[k])
                                THEN Nil ELSE slots[k]]
  /\ UNCHANGED <<lock, req, tpl, proc, down, faults>>
  /\ Cells(cell)

\* Graceful shutdown: once no request is in flight, the registry and the
\* map are cleared.
Shutdown ==
  /\ ~down /\ \A r \in Requests : req[r].pc \in Final \cup {"new"}
  /\ down' = TRUE
  /\ slots' = [k \in Keys |-> Nil]
  /\ proc' = [p \in Pids |-> IF proc[p].keeper = "instance"
                               THEN [proc[p] EXCEPT !.keeper = "nobody"] ELSE proc[p]]
  /\ UNCHANGED <<lock, req, tpl, faults>>
  /\ Cells(cell)

-----------------------------------------------------------------------------
Handler(r) ==
  \/ ObtainBase(r) \/ BaseHit(r) \/ BaseMiss(r) \/ BaseFilled(r)
  \/ ObtainRecipe(r) \/ RecipeHit(r) \/ RecipeMiss(r) \/ RecipeForked(r)
  \/ RecipeFilled(r) \/ ForkInstance(r) \/ Forked(r) \/ ForkFailed(r) \/ Forget(r)

Owner(t) ==
  \/ BroughtUp(t) \/ BringUpFailed(t) \/ ServeFork(t) \/ ServeForkFailed(t)
  \/ Timeout(t) \/ Disconnected(t) \/ Stopped(t)

Kernel(p) == Exit(p) \/ DieWithParent(p)

Next ==
  \/ \E r \in Requests : Handler(r) \/ Cancel(r)
  \/ \E p \in Pids : Owner(p) \/ Kernel(p) \/ Crash(p) \/ Release(p)
  \/ Prune \/ Shutdown

Spec == Init /\ [][Next]_vars

\* Handlers are tasks of a running executor and owners are threads; a host
\* whose channel closed exits and the kernel delivers the death signal.
\* Nothing obliges a client to hang up, a host to crash, an instance to be
\* released or the server to shut down.
FairSpec ==
  /\ Spec
  /\ \A r \in Requests : WF_vars(Handler(r) /\ req[r].pc # "new")
  /\ \A p \in Pids : WF_vars(Owner(p)) /\ WF_vars(Kernel(p))

-----------------------------------------------------------------------------
(* Properties.                                                               *)

Children(t) == {c \in Pids : proc[c].st # "free" /\ proc[c].parent = t}

\* Chains unwind leaf-first: a template expires only when no process forked
\* off it, instance or recipe template, is running or waiting to be counted.
ExpiresLeafFirst ==
  [][\A t \in Pids : tpl[t].why # "expired" /\ tpl'[t].why = "expired" =>
       \A c \in Children(t) : proc[c].st # "up"]_vars

\* What a request is given was built for its key: a slot only ever holds a
\* template of its key, through rebuilds, forgotten slots and shared locks,
\* and an instance holds the recipe its request named.
RightRecipe ==
  /\ \A k \in Keys : slots[k] # Nil /\ cell[slots[k]] # Nil =>
       proc[cell[slots[k]]].holds = k
  /\ \A r \in Requests : req[r].pc = "created" => proc[req[r].clone].holds = req[r].key

\* A fork fails only on a template that has given up for good ("The template died
\* since it was filled"), whether it was for an instance or, inside obtain, for a
\* recipe's template, so that the next obtain does not find it again; and a request
\* fails for that without the one rebuild only where it died inside obtain, between the
\* base's slot and the fork of it.
FailedForkMeansDead ==
  \A r \in Requests :
    /\ req[r].pc = "forking" /\ req[r].answer = "err" => ~tpl[req[r].tmpl].alive
    /\ req[r].pc = "forkBase" /\ req[r].answer = "err" => ~tpl[req[r].base].alive
    /\ req[r].gone => req[r].rebuilt \/ req[r].key # Base

\* An instance lives until it is deleted or its lease runs out ("instances
\* live until deleted or until their TTL runs out unrenewed"): its template is
\* never stopped, for want of a handle, under a running instance.
\* The code does not keep to this: README, section 4.
InstancesKept ==
  \A c \in Pids : Running(c) /\ proc[c].keeper = "instance" =>
    tpl[proc[c].parent].why # "dropped"

\* InstancesKept holds as long as no request has had to rebuild a template.
KeptUntilRebuild == (\A r \in Requests : ~req[r].rebuilt) => InstancesKept

\* A request that finds its template dead rebuilds it once before it gives up
\* ("The template died since it was filled; rebuild it once").
\* The code does not keep to this: README, section 4.
RebuildsBeforeFailing == \A r \in Requests : req[r].gone => req[r].rebuilt

\* Every request that calls obtain ends: it is never left waiting on a slot
\* lock, a fill or a fork reply, whatever other requests and templates do.
RequestsEnd == \A r \in Requests : req[r].pc \notin Final \cup {"new"} ~> req[r].pc \in Final

\* A process nobody has a handle on goes away, with everything forked off it:
\* a clone whose requester hung up, an instance released, a template no slot
\* or request refers to; and after shutdown, every host.
NoStrays ==
  /\ \A p \in Pids : [](proc[p].keeper = "nobody" /\ Running(p) => <>~Running(p))
  /\ \A t \in Pids : [](tpl[t].owner = "serving" /\ ~Handle(t) => <>~Running(t))
  /\ [](down => <>(\A p \in Pids : ~Running(p)))

=============================================================================
