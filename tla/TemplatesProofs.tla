-------------------------- MODULE TemplatesProofs --------------------------
(***************************************************************************)
(* The safety properties of the template cache for any number of requests,  *)
(* recipes, slots, processes and faults.                                    *)
(***************************************************************************)
EXTENDS Templates, TLAPS

-----------------------------------------------------------------------------
(* The inductive invariant.                                                  *)

\* The awaits of a request that has obtained its base, and of one past obtain.
HasBase == {"recipeSlot", "lockRecipe", "forkBase", "fillRecipe"}
HasTemplate == {"send", "forking"}

\* What a request has at each of its awaits.
Shape(q) ==
  /\ q.bslot # Nil <=> q.pc \in {"lockBase", "fillBase"} \cup HasBase
  /\ q.rslot # Nil <=> q.pc \in {"lockRecipe", "forkBase", "fillRecipe"}
  /\ q.base # Nil <=> q.pc \in {"fillBase"} \cup HasBase
  /\ q.tmpl # Nil <=> q.pc \in {"fillRecipe"} \cup HasTemplate
  /\ q.clone # Nil <=> q.pc = "created" \/ (q.pc \in {"forkBase", "forking"} /\ q.answer = "ok")
  /\ q.answer # "none" => q.pc \in {"fillBase", "forkBase", "fillRecipe", "forking"}
  /\ q.pc \in HasBase => q.key # Base
  /\ q.gone => q.rebuilt \/ q.key # Base

ShapeInv == \A r \in Requests : Shape(req[r])

\* A template that was brought up with recipe k: it serves, or it has given up for good.
Ready(t, k) ==
  /\ tpl[t].owner \in {"serving", "stopping", "ended"} /\ proc[t].st # "free"
  /\ proc[t].holds = k
  /\ tpl[t].owner # "serving" => ~tpl[t].alive

\* A template being brought up with recipe k, and what its creator was told.
Filling(t, k, answer) ==
  /\ tpl[t].owner # "none"
  /\ answer = "none" => tpl[t].owner = "bringup" /\ tpl[t].recipe = k
  /\ answer = "ok" => Ready(t, k)
  /\ answer = "err" => tpl[t].owner = "ended"

\* The handles requests have.
Handles(q) ==
  /\ q.pc = "fillBase" => Filling(q.base, Base, q.answer)
  /\ q.pc = "fillRecipe" => Filling(q.tmpl, q.key, q.answer)
  /\ q.pc \in HasBase => Ready(q.base, Base)
  /\ q.pc \in HasTemplate => Ready(q.tmpl, q.key)
  /\ q.pc = "forking" /\ q.answer = "err" => ~tpl[q.tmpl].alive
  /\ q.pc = "forkBase" /\ q.answer = "err" => ~tpl[q.base].alive

RequestInv == \A r \in Requests : Handles(req[r])

\* The clones requests have been given, one each.
Clone(q) ==
  q.clone # Nil =>
    /\ tpl[q.clone].owner = "none" /\ proc[q.clone].st # "free" /\ proc[q.clone].parent # Manager
    /\ q.pc # "forkBase" => proc[q.clone].holds = q.key
    /\ q.pc = "forking" => proc[q.clone].parent = q.tmpl

CloneInv ==
  /\ \A r \in Requests : Clone(req[r])
  /\ \A r, o \in Requests : req[r].clone # Nil /\ req[r].clone = req[o].clone => r = o

\* The map or a request has the slot for key k.
Refers(s, k) ==
  \/ slots[k] = s
  \/ \E r \in Requests :
       \/ req[r].bslot = s /\ k = Base
       \/ req[r].rslot = s /\ k = req[r].key

\* A slot is one key's, and holds only what was brought up for it.
SlotInv ==
  /\ \A s \in Slots : \A k, j \in Keys : Refers(s, k) /\ Refers(s, j) => k = j
  /\ \A s \in Slots : cell[s] # Nil => \E k \in Keys : Refers(s, k)
  /\ \A s \in Slots : \A k \in Keys : Refers(s, k) /\ cell[s] # Nil => Ready(cell[s], k)

\* Who fills a slot has its lock, and found no live template in it.
Locked(r, q) ==
  /\ q.pc = "fillBase" => lock[q.bslot] = r /\ ~Alive(cell[q.bslot])
  /\ q.pc \in {"forkBase", "fillRecipe"} => lock[q.rslot] = r /\ ~Alive(cell[q.rslot])

LockInv == \A r \in Requests : Locked(r, req[r])

\* Processes and the owners of their templates.
ProcessInv ==
  /\ \A p \in Pids :
       /\ proc[p].st = "free" => tpl[p].owner = "none" /\ proc[p].keeper # "instance"
       /\ proc[p].keeper = "instance" => proc[p].parent # Manager
       /\ tpl[p].owner \in {"bringup", "serving"} => tpl[p].alive
  /\ \A t \in Pids : \A c \in Children(t) :
       /\ tpl[t].owner \notin {"none", "bringup"}
       /\ tpl[t].owner = "serving" /\ Running(c) => c \in tpl[t].kids

\* The owner's loop ends for want of a handle only when there is none.
DropInv == \A t \in Pids : Handle(t) => tpl[t].why # "dropped"

NoRebuild == \A r \in Requests : ~req[r].rebuilt

\* Somebody may fork off the template, or has.
Published(t) ==
  \/ \E r \in Requests :
       \/ req[r].pc \in HasBase /\ req[r].base = t
       \/ req[r].pc \in HasTemplate /\ req[r].tmpl = t
  \/ tpl[t].queue # <<>>
  \/ Children(t) # {}

\* Until a slot is forgotten, the map has every slot in use and, through one of them,
\* every live template that was ever given out.
MapInv ==
  NoRebuild /\ ~down =>
    /\ \A r \in Requests :
         /\ req[r].bslot # Nil => slots[Base] = req[r].bslot
         /\ req[r].rslot # Nil => slots[req[r].key] = req[r].rslot
    /\ \A t \in Pids : Published(t) /\ tpl[t].alive =>
         \E k \in Keys : slots[k] # Nil /\ cell[slots[k]] = t

\* After shutdown there is neither a request in flight nor an instance.
DownInv ==
  down => /\ \A r \in Requests : req[r].pc \in Final \cup {"new"}
          /\ \A p \in Pids : proc[p].keeper # "instance"

IInv ==
  /\ TypeOK /\ ShapeInv /\ RequestInv /\ CloneInv /\ SlotInv /\ LockInv /\ ProcessInv /\ DropInv
  /\ MapInv /\ DownInv /\ KeptUntilRebuild

-----------------------------------------------------------------------------
(* What a step does to a request, field by field.                            *)

\* The step gives request r these fields, and no other request any.
Becomes(r, pc, bslot, rslot, base, tmpl, clone, answer, rebuilt, gone) ==
  /\ \A o \in Requests \ {r} : req'[o] = req[o]
  /\ req'[r].pc = pc /\ req'[r].key = req[r].key
  /\ req'[r].bslot = bslot /\ req'[r].rslot = rslot /\ req'[r].base = base
  /\ req'[r].tmpl = tmpl /\ req'[r].clone = clone /\ req'[r].answer = answer
  /\ req'[r].rebuilt = rebuilt /\ req'[r].gone = gone

\* The fields of a request have their types.
LEMMA RequestTypes ==
  ASSUME TypeOK, NEW r \in Requests
  PROVE  /\ req[r].key \in Keys /\ req[r].bslot \in Slots \cup {Nil} /\ req[r].rslot \in Slots \cup {Nil}
         /\ req[r].base \in Pids \cup {Nil} /\ req[r].tmpl \in Pids \cup {Nil}
         /\ req[r].clone \in Pids \cup {Nil} /\ req[r].answer \in {"none", "ok", "err"}
         /\ req[r].rebuilt \in BOOLEAN /\ req[r].gone \in BOOLEAN
         /\ req[r] \in Request /\ req \in [Requests -> Request]
  BY Zenon DEF TypeOK, Request, Answers

\* The names of slots and processes are not Nil.
LEMMA Names == Nil \notin Slots /\ Nil \notin Pids /\ Manager \notin Pids /\ Nil \notin Requests /\ Base \in Keys
  BY NameAssumption DEF Slots, Pids, Manager, Keys

\* A request is replaced by another.
LEMMA Replaced ==
  ASSUME TypeOK, NEW r \in Requests, NEW q \in Request, req' = [req EXCEPT ![r] = q]
  PROVE  /\ req' \in [Requests -> Request] /\ req'[r] = q
         /\ \A o \in Requests \ {r} : req'[o] = req[o]
  BY Zenon DEF TypeOK

\* A request that is left alone keeps its shape.
LEMMA ShapeKept ==
  ASSUME NEW r \in Requests, Shape(req[r]), req'[r] = req[r]
  PROVE  Shape(req[r])'
  BY Zenon DEF Shape

\* A clone nobody touches stays what it was.
LEMMA CloneKept ==
  ASSUME NEW r \in Requests, Clone(req[r]), req'[r].clone = req[r].clone,
         req'[r].pc = req[r].pc, req'[r].key = req[r].key, req'[r].tmpl = req[r].tmpl,
         req[r].clone # Nil => /\ tpl'[req[r].clone].owner = "none" /\ proc'[req[r].clone].st # "free"
                               /\ proc'[req[r].clone].parent = proc[req[r].clone].parent
                               /\ proc'[req[r].clone].holds = proc[req[r].clone].holds
  PROVE  Clone(req[r])'
  BY Zenon DEF Clone

LEMMA ObtainBaseEffect ==
  ASSUME TypeOK, ShapeInv, NEW r \in Requests, ObtainBase(r)
  PROVE  /\ req' \in [Requests -> Request] /\ req[r].pc \in {"new", "obtain"}
         /\ \E s \in Slots : /\ SlotOf(Base, s)
                             /\ Becomes(r, "lockBase", s, Nil, Nil, Nil, Nil, "none", req[r].rebuilt, req[r].gone)
<1>1. PICK s \in Slots : SlotOf(Base, s) /\ req' = [req EXCEPT ![r] = [req[r] EXCEPT !.pc = "lockBase", !.bslot = s]]
  BY Zenon DEF ObtainBase
<1> DEFINE q == [req[r] EXCEPT !.pc = "lockBase", !.bslot = s]
<1>2. q \in Request
  BY ZenonT(30), RequestTypes DEF Request, Awaiting
<1>3. req' \in [Requests -> Request] /\ req'[r] = q /\ \A o \in Requests \ {r} : req'[o] = req[o]
  BY Zenon, <1>1, <1>2, Replaced
<1>4. req[r].pc \in {"new", "obtain"}
  BY Zenon DEF ObtainBase
<1>5. Becomes(r, "lockBase", s, Nil, Nil, Nil, Nil, "none", req[r].rebuilt, req[r].gone)
  BY <1>3, <1>4, RequestTypes DEF Becomes, Request, ShapeInv, Shape, HasBase, HasTemplate
<1>6. QED
  BY Zenon, <1>1, <1>3, <1>4, <1>5

-----------------------------------------------------------------------------
(* What the invariant needs of a step, one conjunct at a time.               *)

\* References are dropped, and slots emptied.
LEMMA SlotsDropped ==
  ASSUME SlotInv, TypeOK', TypeOK,
         \A s \in Slots : \A k \in Keys : Refers(s, k)' => Refers(s, k),
         \A s \in Slots : cell'[s] # Nil => cell'[s] = cell[s] /\ (InUse(s) \/ Mapped(s))',
         \A t \in Pids : \A k \in Keys : Ready(t, k) => Ready(t, k)'
  PROVE  SlotInv'
<1>1. \A s \in Slots : \A k, j \in Keys : Refers(s, k)' /\ Refers(s, j)' => k = j
  BY Zenon DEF SlotInv
<1>2. \A s \in Slots : cell'[s] # Nil => \E k \in Keys : Refers(s, k)'
  <2>1. \A r \in Requests : req'[r].key \in Keys
    BY Zenon DEF TypeOK, Request
  <2>2. QED
    BY <2>1, Names DEF InUse, Mapped, Refers
<1>3. ASSUME NEW s \in Slots, NEW k \in Keys, Refers(s, k)', cell'[s] # Nil
      PROVE  Ready(cell[s], k)'
  <2>1. cell'[s] = cell[s] /\ cell[s] \in Pids /\ Ready(cell[s], k)
    BY Zenon, <1>3 DEF SlotInv, TypeOK
  <2>2. QED
    BY <2>1 DEF Ready
<1>4. QED
  BY Zenon, <1>1, <1>2, <1>3 DEF SlotInv

\* The slot of key k is found in the map, or made.
LEMMA SlotsObtained ==
  ASSUME SlotInv, TypeOK, TypeOK', NEW k \in Keys, NEW s \in Slots, SlotOf(k, s),
         UNCHANGED <<cell, tpl, proc>>,
         \A u \in Slots : \A j \in Keys : Refers(u, j)' => Refers(u, j) \/ (u = s /\ j = k),
         \A u \in Slots : \A j \in Keys : Refers(u, j) => Refers(u, j)'
  PROVE  SlotInv'
<1>1. Refers(s, k) \/ \A j \in Keys : ~Refers(s, j)
  <2>1. CASE slots[k] = s BY Zenon, <2>1 DEF Refers
  <2>2. CASE NewSlot(s) BY Zenon, <2>2 DEF NewSlot, InUse, Mapped, Refers
  <2>3. QED BY Zenon, <2>1, <2>2 DEF SlotOf
<1>2. \A u \in Slots : \A i, j \in Keys : Refers(u, i)' /\ Refers(u, j)' => i = j
  BY <1>1 DEF SlotInv
<1>3. \A u \in Slots : cell'[u] # Nil => \E j \in Keys : Refers(u, j)'
  BY Zenon DEF SlotInv
<1>4. ASSUME NEW u \in Slots, NEW j \in Keys, Refers(u, j)', cell'[u] # Nil
      PROVE  Ready(cell[u], j)'
  <2>1. Ready(cell[u], j)
    BY Zenon, <1>1, <1>4 DEF SlotInv
  <2>2. QED
    BY Zenon, <2>1 DEF Ready
<1>5. QED
  BY Zenon, <1>2, <1>3, <1>4 DEF SlotInv

\* Slot s, which is key k's, is filled with a template brought up for it; references are
\* dropped.
LEMMA SlotsFilled ==
  ASSUME SlotInv, TypeOK, TypeOK', NEW k \in Keys, NEW s \in Slots, NEW t \in Pids,
         Refers(s, k), Ready(t, k), UNCHANGED <<tpl, proc>>,
         \A u \in Slots : \A j \in Keys : Refers(u, j)' => Refers(u, j),
         \A u \in Slots : cell'[u] # Nil => cell'[u] = (IF u = s THEN t ELSE cell[u]) /\ (InUse(u) \/ Mapped(u))'
  PROVE  SlotInv'
<1>1. \A u \in Slots : \A i, j \in Keys : Refers(u, i)' /\ Refers(u, j)' => i = j
  BY Zenon DEF SlotInv
<1>2. \A u \in Slots : cell'[u] # Nil => \E j \in Keys : Refers(u, j)'
  <2>1. \A r \in Requests : req'[r].key \in Keys
    BY Zenon DEF TypeOK, Request
  <2>2. QED
    BY <2>1, Names DEF InUse, Mapped, Refers
<1>3. ASSUME NEW u \in Slots, NEW j \in Keys, Refers(u, j)', cell'[u] # Nil
      PROVE  Ready(cell[u], j)'
  <2>1. CASE u = s
    <3>1. cell'[u] = t /\ j = k BY Zenon, <1>3, <2>1 DEF SlotInv
    <3>2. QED BY Zenon, <3>1 DEF Ready
  <2>2. CASE u # s
    <3>1. cell'[u] = cell[u] /\ Ready(cell[u], j) BY Zenon, <1>3, <2>2 DEF SlotInv
    <3>2. QED BY Zenon, <3>1 DEF Ready
  <2>3. QED BY Zenon, <2>1, <2>2
<1>4. QED
  BY Zenon, <1>1, <1>2, <1>3 DEF SlotInv

\* The map keeps its live templates, and so do those who gave a template out.
LEMMA MapKept ==
  ASSUME MapInv, TypeOK, TypeOK', NoRebuild' /\ ~down' => NoRebuild /\ ~down,
         \A k \in Keys : slots[k] # Nil /\ Alive(cell[slots[k]]) =>
           slots'[k] = slots[k] /\ cell'[slots[k]] = cell[slots[k]],
         NoRebuild' /\ ~down' =>
           \A t \in Pids : Published(t)' /\ tpl'[t].alive =>
             \/ Published(t) /\ tpl[t].alive
             \/ \E k \in Keys : slots'[k] # Nil /\ cell'[slots'[k]] = t,
         NoRebuild' /\ ~down' =>
           \A r \in Requests : /\ req'[r].bslot # Nil => slots'[Base] = req'[r].bslot
                               /\ req'[r].rslot # Nil => slots'[req'[r].key] = req'[r].rslot
  PROVE  MapInv'
<1> SUFFICES ASSUME NoRebuild', ~down', NEW t \in Pids, Published(t)', tpl'[t].alive
             PROVE  \E k \in Keys : slots'[k] # Nil /\ cell'[slots'[k]] = t
  BY Zenon DEF MapInv
<1>1. CASE Published(t) /\ tpl[t].alive
  <2>1. PICK k \in Keys : slots[k] # Nil /\ cell[slots[k]] = t
    BY Zenon, <1>1 DEF MapInv
  <2>2. Alive(cell[slots[k]])
    BY Zenon, <1>1, <2>1, Names DEF Alive
  <2>3. QED
    BY Zenon, <2>1, <2>2
<1>2. QED
  BY Zenon, <1>1

\* The templates and processes there are stay what they are: a step of a request may
\* lengthen a queue, start a template and change who keeps a process.
Steady ==
  /\ \A t \in Pids : tpl[t].owner # "none" =>
       /\ tpl'[t].owner = tpl[t].owner /\ tpl'[t].alive = tpl[t].alive
       /\ tpl'[t].recipe = tpl[t].recipe /\ tpl'[t].why = tpl[t].why
  /\ \A p \in Pids : proc[p].st # "free" =>
       /\ proc'[p].st = proc[p].st /\ proc'[p].parent = proc[p].parent
       /\ proc'[p].holds = proc[p].holds

LEMMA SteadyReady ==
  ASSUME Steady
  PROVE  \A t \in Pids : \A k \in Keys : Ready(t, k) => Ready(t, k)'
  BY Zenon DEF Steady, Ready

LEMMA SteadyHandles ==
  ASSUME Steady, NEW r \in Requests, TypeOK, Shape(req[r]), Handles(req[r]), req'[r] = req[r]
  PROVE  Handles(req[r])'
<1> DEFINE q == req[r]
<1>1. q.base \in Pids \cup {Nil} /\ q.tmpl \in Pids \cup {Nil} /\ q.key \in Keys
  BY Zenon, RequestTypes
<1>2. /\ q.pc = "fillBase" \/ q.pc \in HasBase => q.base \in Pids
      /\ q.pc = "fillRecipe" \/ q.pc \in HasTemplate => q.tmpl \in Pids
  BY Zenon, <1>1 DEF Shape
<1>3. ASSUME NEW p \in Pids, NEW k \in Keys
      PROVE  /\ Ready(p, k) => Ready(p, k)' /\ (Ready(p, k) /\ ~tpl[p].alive => ~tpl'[p].alive)
             /\ Filling(p, k, q.answer) => Filling(p, k, q.answer)'
  <2>1. tpl[p].owner # "none" => tpl'[p].owner = tpl[p].owner /\ tpl'[p].alive = tpl[p].alive
                                 /\ tpl'[p].recipe = tpl[p].recipe
    BY Zenon DEF Steady
  <2>2. Ready(p, k) => Ready(p, k)' BY Zenon, SteadyReady
  <2>3. Filling(p, k, q.answer) => Filling(p, k, q.answer)' BY Zenon, <2>1, <2>2 DEF Filling
  <2>4. QED BY Zenon, <2>1, <2>2, <2>3 DEF Ready
<1>4. /\ q.pc = "fillBase" => Filling(q.base, Base, q.answer)'
      /\ q.pc = "fillRecipe" => Filling(q.tmpl, q.key, q.answer)'
  BY Zenon, Names, <1>1, <1>2, <1>3 DEF Handles
<1>5. /\ q.pc \in HasBase => Ready(q.base, Base)'
      /\ q.pc \in HasTemplate => Ready(q.tmpl, q.key)'
  BY Zenon, Names, <1>1, <1>2, <1>3 DEF Handles
<1>6. /\ q.pc = "forking" /\ q.answer = "err" => ~tpl'[q.tmpl].alive
      /\ q.pc = "forkBase" /\ q.answer = "err" => ~tpl'[q.base].alive
  BY Zenon, Names, <1>1, <1>2, <1>3 DEF Handles, HasBase, HasTemplate
<1>7. QED
  BY Zenon, <1>4, <1>5, <1>6 DEF Handles, Filling, Ready

\* A lock holder's slot is left alone.
LEMMA SteadyLocked ==
  ASSUME Steady, TypeOK, SlotInv, NEW r \in Requests, Shape(req[r]), Locked(r, req[r]), req'[r] = req[r],
         \A s \in Slots : lock[s] = r => lock'[s] = r,
         \A s \in Slots : s \in {req[r].bslot, req[r].rslot} /\ lock[s] = r => cell'[s] = cell[s]
  PROVE  Locked(r, req[r])'
<1> DEFINE q == req[r]
<1>1. \A s \in Slots : cell[s] # Nil => cell[s] \in Pids /\ tpl[cell[s]].owner # "none"
  BY Zenon DEF SlotInv, Ready, TypeOK
<1>2. /\ q.pc = "fillBase" => q.bslot \in Slots
      /\ q.pc \in {"forkBase", "fillRecipe"} => q.rslot \in Slots
  BY Zenon, RequestTypes DEF Shape, HasBase
<1>3. \A s \in Slots : cell'[s] = cell[s] /\ ~Alive(cell[s]) => ~Alive(cell[s])'
  BY <1>1 DEF Alive, Steady
<1>4. QED
  BY Zenon, <1>2, <1>3 DEF Locked

\* No template is stopped, so none under an instance.
LEMMA SteadyKept ==
  ASSUME Steady, TypeOK, ProcessInv, KeptUntilRebuild, NoRebuild' => NoRebuild,
         \A p \in Pids : proc'[p].keeper = "instance" /\ proc'[p].st = "up" =>
           /\ proc[p].st # "free" /\ proc[p].parent # Manager
           /\ proc[p].keeper = "instance" \/ tpl[proc[p].parent].why # "dropped"
  PROVE  KeptUntilRebuild'
<1> SUFFICES ASSUME NoRebuild', NEW c \in Pids, Running(c)', proc'[c].keeper = "instance"
             PROVE  tpl'[proc'[c].parent].why # "dropped"
  BY Zenon DEF KeptUntilRebuild, InstancesKept, NoRebuild
<1>1. proc[c].st = "up" /\ proc'[c].parent = proc[c].parent /\ proc[c].parent # Manager
  BY Zenon DEF Steady, Running
<1>2. proc[c].parent \in Pids
  BY Zenon, <1>1 DEF TypeOK, Process
<1>3. tpl[proc[c].parent].owner # "none" /\ tpl[proc[c].parent].why # "dropped"
  BY Zenon, <1>1, <1>2 DEF ProcessInv, Children, KeptUntilRebuild, InstancesKept, Running, NoRebuild
<1>4. QED
  BY Zenon, <1>1, <1>2, <1>3 DEF Steady

-----------------------------------------------------------------------------
(* The end of a request.                                                     *)

\* Nothing happens to the processes, but to who keeps them.
Quiet ==
  /\ proc' \in [Pids -> Process]
  /\ \A p \in Pids : /\ proc'[p].st = proc[p].st /\ proc'[p].parent = proc[p].parent
                     /\ proc'[p].holds = proc[p].holds

\* Only what is referred to after the step remains in its cell.
LEMMA CellsEffect ==
  ASSUME TypeOK, NEW new \in [Slots -> Pids \cup {Nil}], Cells(new)
  PROVE  /\ cell' \in [Slots -> Pids \cup {Nil}]
         /\ \A s \in Slots : (InUse(s) \/ Mapped(s))' => cell'[s] = new[s]
         /\ \A s \in Slots : cell'[s] # Nil => cell'[s] = new[s] /\ (InUse(s) \/ Mapped(s))'
  BY Zenon DEF Cells

\* Request r ends, with clone c or without.
Ending(r, how, c, gone) ==
  /\ req[r].pc \notin Final \cup {"new"}
  /\ req' \in [Requests -> Request]
  /\ Becomes(r, how, Nil, Nil, Nil, Nil, c, "none", req[r].rebuilt, gone)
  /\ gone => req[r].rebuilt \/ req[r].key # Base
  /\ c = IF how = "created" THEN req[r].clone ELSE Nil
  /\ how = "created" => req[r].pc = "forking" /\ req[r].answer = "ok"
  /\ lock' = Unlocked(r)
  /\ UNCHANGED <<slots, tpl, down>>
  /\ Cells(cell)
  /\ faults' \in 0..MaxFaults
  /\ Quiet
  /\ \A p \in Pids : proc'[p].keeper = "instance" =>
       proc[p].keeper = "instance" \/ (how = "created" /\ p = req[r].clone)

\* Whatever a request had is dropped, except the clone it was created with.
LEMMA EndKeeps ==
  ASSUME IInv, NEW r \in Requests, NEW how \in Final, NEW c, NEW gone, Ending(r, how, c, gone)
  PROVE  IInv'
<1>h1. req[r].pc \notin Final \cup {"new"}
  BY Zenon DEF Ending
<1>h2. /\ req' \in [Requests -> Request]
       /\ Becomes(r, how, Nil, Nil, Nil, Nil, c, "none", req[r].rebuilt, gone)
  BY Zenon DEF Ending
<1>h3. gone => req[r].rebuilt \/ req[r].key # Base
  BY Zenon DEF Ending
<1>h4. /\ c = IF how = "created" THEN req[r].clone ELSE Nil
       /\ how = "created" => req[r].pc = "forking" /\ req[r].answer = "ok"
  BY Zenon DEF Ending
<1>h5. lock' = Unlocked(r)
  BY Zenon DEF Ending
<1>h6. UNCHANGED <<slots, tpl, down>>
  BY Zenon DEF Ending
<1>h7. Cells(cell)
  BY Zenon DEF Ending
<1>h8. faults' \in 0..MaxFaults
  BY Zenon DEF Ending
<1>h9. Quiet
  BY Zenon DEF Ending
<1>h10. \A p \in Pids : proc'[p].keeper = "instance" =>
         proc[p].keeper = "instance" \/ (how = "created" /\ p = req[r].clone)
  BY Zenon DEF Ending
<1>0. /\ cell' \in [Slots -> Pids \cup {Nil}]
      /\ \A s \in Slots : (InUse(s) \/ Mapped(s))' => cell'[s] = cell[s]
      /\ \A s \in Slots : cell'[s] # Nil => cell'[s] = cell[s] /\ (InUse(s) \/ Mapped(s))'
  <2>1. cell \in [Slots -> Pids \cup {Nil}] BY Zenon DEF IInv, TypeOK
  <2>2. QED BY Zenon, <1>h7, <2>1, CellsEffect DEF IInv
<1>a. \A o \in Requests \ {r} : req'[o] = req[o]
  BY Zenon, <1>h2 DEF Becomes
<1>b. Steady
  BY Zenon, <1>h6, <1>h9 DEF Steady, Quiet
<1>1. TypeOK'
  BY Zenon, <1>h2, <1>h5, <1>h6, <1>h8, <1>h9, <1>0 DEF IInv, TypeOK, Unlocked, Quiet
<1>2. ShapeInv'
  <2>1. Shape(req[r])' BY <1>h2, <1>h3, <1>h4, Names DEF IInv, ShapeInv, Shape, Becomes, HasBase, HasTemplate, Final
  <2>2. QED BY Zenon, <2>1, <1>a, ShapeKept DEF IInv, ShapeInv
<1>3. \A t \in Pids : \A k \in Keys : Ready(t, k) => Ready(t, k)'
  BY Zenon, <1>b, SteadyReady
<1>4. RequestInv'
  <2>1. Handles(req[r])' BY Zenon, <1>h2 DEF Handles, Becomes, HasBase, HasTemplate, Final
  <2>2. QED BY Zenon, <2>1, <1>a, <1>b, SteadyHandles DEF IInv, RequestInv, ShapeInv
<1>5. CloneInv'
  <2>1. Clone(req[r])'
    <3>1. CASE how # "created" BY Zenon, <1>h2, <1>h4, <3>1 DEF Clone, Becomes
    <3>2. CASE how = "created"
      <4>1. req[r].clone \in Pids /\ Clone(req[r])
        BY Zenon, <1>h4, <3>2, RequestTypes DEF IInv, CloneInv, ShapeInv, Shape
      <4>2. QED BY <1>h2, <1>h4, <1>h6, <1>h9, <3>2, <4>1 DEF Clone, Becomes, Quiet
    <3>3. QED BY Zenon, <3>1, <3>2
  <2>2. ASSUME NEW o \in Requests \ {r} PROVE Clone(req[o])'
    <3>1. req'[o] = req[o] /\ Clone(req[o]) /\ req[o].clone \in Pids \cup {Nil}
      BY Zenon, <1>a, RequestTypes DEF IInv, CloneInv
    <3>2. QED BY <1>h6, <1>h9, <3>1 DEF Clone, Quiet
  <2>3. QED BY <1>h2, <1>h4, <2>1, <2>2, <1>a DEF IInv, CloneInv, Becomes
<1>6. SlotInv'
  <2>1. \A s \in Slots : \A k \in Keys : Refers(s, k)' => Refers(s, k)
    BY <1>h2, <1>h6, Names DEF Refers, Becomes
  <2>2. QED
    BY Zenon, <1>h6, <2>1, <1>0, <1>1, <1>3, SlotsDropped DEF IInv
<1>7. LockInv'
  <2>1. Locked(r, req[r])' BY Zenon, <1>h2 DEF Locked, Becomes, Final
  <2>2. ASSUME NEW o \in Requests \ {r} PROVE Locked(o, req[o])'
    <3>1. \A s \in Slots : lock[s] = o => lock'[s] = o BY Zenon, <1>h5 DEF IInv, Unlocked
    <3>2. \A s \in Slots : s \in {req[o].bslot, req[o].rslot} => cell'[s] = cell[s]
      BY Zenon, <1>0, <1>a DEF InUse
    <3>3. QED BY Zenon, <3>1, <3>2, <1>a, <1>b, SteadyLocked DEF IInv, LockInv, ShapeInv
  <2>3. QED BY Zenon, <2>1, <2>2 DEF LockInv
<1>8. ProcessInv'
  BY <1>h4, <1>h6, <1>h9, <1>h10, Names DEF IInv, ProcessInv, Children, Running, Quiet, CloneInv, Clone, ShapeInv,
     Shape
<1>9. DropInv'
  BY <1>h2, <1>h6, Names, <1>0 DEF IInv, DropInv, Handle, Becomes
<1>10. MapInv'
  <2>1. \A t \in Pids : Published(t)' => Published(t)
    BY <1>h2, <1>h6, <1>h9 DEF Published, Becomes, Children, Quiet, HasBase, HasTemplate, Final
  <2>2. \A k \in Keys : slots[k] # Nil => cell'[slots[k]] = cell[slots[k]]
    BY <1>h6, <1>0 DEF IInv, Mapped, TypeOK
  <2>3. NoRebuild' => NoRebuild BY Zenon, <1>h2 DEF NoRebuild, Becomes
  <2>4. NoRebuild' /\ ~down' =>
          \A o \in Requests : /\ req'[o].bslot # Nil => slots'[Base] = req'[o].bslot
                              /\ req'[o].rslot # Nil => slots'[req'[o].key] = req'[o].rslot
    BY <1>h2, <1>h6, <2>3, <1>a DEF IInv, MapInv, Becomes
  <2>5. QED
    BY Zenon, <1>h6, <2>1, <2>2, <2>3, <2>4, <1>1, MapKept DEF IInv
<1>11. DownInv'
  BY Zenon, <1>h1, <1>h6 DEF IInv, DownInv
<1>12. KeptUntilRebuild'
  <2>1. NoRebuild' => NoRebuild BY Zenon, <1>h2 DEF NoRebuild, Becomes
  <2>2. ASSUME how = "created"
        PROVE  /\ req[r].clone \in Pids /\ proc[req[r].clone].st # "free"
               /\ proc[req[r].clone].parent # Manager
               /\ tpl[proc[req[r].clone].parent].why # "dropped"
    <3>1. req[r].clone \in Pids /\ req[r].tmpl \in Pids
      BY Zenon, <1>h4, Names, <2>2, RequestTypes DEF IInv, ShapeInv, Shape, HasTemplate
    <3>2. tpl[req[r].tmpl].why # "dropped"
      BY Zenon, <1>h4, <3>1 DEF IInv, DropInv, Handle
    <3>3. QED BY Zenon, <1>h4, Names, <2>2, <3>1, <3>2 DEF IInv, CloneInv, Clone
  <2>3. QED BY Zenon, <1>h6, <1>h9, <1>h10, <2>1, <2>2, <1>b, SteadyKept DEF IInv, ProcessInv, Quiet
<1>13. QED
  BY Zenon, <1>1, <1>2, <1>4, <1>5, <1>6, <1>7, <1>8, <1>9, <1>10, <1>11, <1>12 DEF IInv

PCs == Awaiting \cup Final \cup {"new", "obtain", "recipeSlot", "send", "forget"}

\* A request with one field changed is a request.
LEMMA SetField ==
  ASSUME NEW q \in Request
  PROVE  /\ \A x \in PCs : [q EXCEPT !.pc = x] \in Request
         /\ \A x \in Slots \cup {Nil} : [q EXCEPT !.bslot = x] \in Request /\ [q EXCEPT !.rslot = x] \in Request
         /\ \A x \in Pids \cup {Nil} : /\ [q EXCEPT !.base = x] \in Request /\ [q EXCEPT !.tmpl = x] \in Request
                                       /\ [q EXCEPT !.clone = x] \in Request
         /\ \A x \in Answers : [q EXCEPT !.answer = x] \in Request
         /\ \A x \in BOOLEAN : [q EXCEPT !.rebuilt = x] \in Request /\ [q EXCEPT !.gone = x] \in Request
<1>1. \A x \in PCs : [q EXCEPT !.pc = x] \in Request
  BY Zenon DEF Request, PCs
<1>2. \A x \in Slots \cup {Nil} : [q EXCEPT !.bslot = x] \in Request /\ [q EXCEPT !.rslot = x] \in Request
  BY Zenon DEF Request
<1>3. \A x \in Pids \cup {Nil} : /\ [q EXCEPT !.base = x] \in Request /\ [q EXCEPT !.tmpl = x] \in Request
                                 /\ [q EXCEPT !.clone = x] \in Request
  BY DEF Request
<1>4. \A x \in Answers : [q EXCEPT !.answer = x] \in Request
  BY Zenon DEF Request
<1>5. \A x \in BOOLEAN : [q EXCEPT !.rebuilt = x] \in Request /\ [q EXCEPT !.gone = x] \in Request
  BY DEF Request
<1>6. QED
  BY Zenon, <1>1, <1>2, <1>3, <1>4, <1>5

LEMMA EndedEffect ==
  ASSUME TypeOK, NEW r \in Requests, NEW how \in Final, Ended(r, how)
  PROVE  /\ req' \in [Requests -> Request]
         /\ Becomes(r, how, Nil, Nil, Nil, Nil, IF how = "created" THEN req[r].clone ELSE Nil, "none",
                    req[r].rebuilt, req[r].gone)
         /\ lock' = Unlocked(r) /\ UNCHANGED slots /\ Cells(cell)
<1> DEFINE c == IF how = "created" THEN req[r].clone ELSE Nil
           q == [req[r] EXCEPT !.pc = how, !.bslot = Nil, !.rslot = Nil, !.base = Nil, !.tmpl = Nil,
                               !.answer = "none", !.clone = c]
<1>1. q \in Request
  <2>1. req[r] \in Request /\ c \in Pids \cup {Nil} /\ how \in PCs
    BY Zenon, RequestTypes DEF PCs
  <2> HIDE DEF c
  <2>2. QED
    BY Zenon, <2>1, SetField DEF Answers
<1>2. req' = [req EXCEPT ![r] = q]
  BY Zenon DEF Ended
<1>3. req' \in [Requests -> Request] /\ req'[r] = q /\ \A o \in Requests \ {r} : req'[o] = req[o]
  BY Zenon, <1>1, <1>2, Replaced
<1>4. Becomes(r, how, Nil, Nil, Nil, Nil, c, "none", req[r].rebuilt, req[r].gone)
  <2> HIDE DEF c
  <2>1. QED BY <1>3, RequestTypes DEF Becomes, Request
<1>5. QED
  BY Zenon, <1>3, <1>4 DEF Ended

\* The keeper of one process changes.
LEMMA KeeperEffect ==
  ASSUME TypeOK, NEW c \in Pids, NEW k \in {"owner", "request", "instance", "nobody"},
         proc' = [proc EXCEPT ![c].keeper = k]
  PROVE  Quiet /\ proc'[c].keeper = k /\ \A p \in Pids \ {c} : proc'[p] = proc[p]
  BY DEF TypeOK, Process, Quiet

LEMMA EndedKeeps ==
  ASSUME IInv, NEW r \in Requests, req[r].pc \notin Final \cup {"new"}, UNCHANGED <<tpl, down>>,
         faults' \in 0..MaxFaults, NEW how \in {"failed", "cancelled"}, Ended(r, how),
         \/ UNCHANGED proc
         \/ req[r].clone # Nil /\ proc' = [proc EXCEPT ![req[r].clone].keeper = "nobody"]
  PROVE  IInv'
<1>1. Quiet /\ \A p \in Pids : proc'[p].keeper = "instance" => proc[p].keeper = "instance"
  <2>1. CASE UNCHANGED proc BY Zenon, <2>1 DEF IInv, TypeOK, Quiet
  <2>2. CASE req[r].clone # Nil /\ proc' = [proc EXCEPT ![req[r].clone].keeper = "nobody"]
    <3>1. req[r].clone \in Pids BY Zenon, <2>2, RequestTypes DEF IInv
    <3>2. QED BY Zenon, <3>1, <2>2, KeeperEffect DEF IInv
  <2>3. QED BY Zenon, <2>1, <2>2
<1>2. how \in Final
  BY Zenon DEF Final
<1>3. /\ req' \in [Requests -> Request]
      /\ Becomes(r, how, Nil, Nil, Nil, Nil, Nil, "none", req[r].rebuilt, req[r].gone)
      /\ lock' = Unlocked(r) /\ UNCHANGED slots /\ Cells(cell)
  BY Zenon, <1>2, EndedEffect DEF IInv
<1>4. req[r].gone => req[r].rebuilt \/ req[r].key # Base
  BY Zenon DEF IInv, ShapeInv, Shape
<1>5. QED
  BY Zenon, <1>1, <1>2, <1>3, <1>4, EndKeeps DEF Ending

\* A fault is counted.
LEMMA Faults ==
  ASSUME TypeOK, Fault \/ UNCHANGED faults
  PROVE  faults' \in 0..MaxFaults
  BY NameAssumption DEF TypeOK, Fault

LEMMA CancelKeeps ==
  ASSUME IInv, NEW r \in Requests, Cancel(r)
  PROVE  IInv'
<1>1. faults' \in 0..MaxFaults BY Zenon, Faults DEF Cancel, IInv
<1>2. req[r].pc \notin Final \cup {"new"} BY Zenon DEF Cancel, Awaiting, Final
<1>3. QED BY Zenon, <1>1, <1>2, EndedKeeps DEF Cancel

LEMMA ForkedKeeps ==
  ASSUME IInv, NEW r \in Requests, Forked(r)
  PROVE  IInv'
<1>1. req[r].pc \notin Final \cup {"new"} BY Zenon DEF Forked, Final
<1>2. req[r].clone \in Pids
  BY Zenon, RequestTypes DEF Forked, IInv, ShapeInv, Shape
<1>3. faults' \in 0..MaxFaults BY Zenon, Faults DEF Forked, IInv
<1>4. CASE Ended(r, "failed") /\ proc' = [proc EXCEPT ![req[r].clone].keeper = "nobody"]
  BY Zenon, <1>1, <1>2, <1>3, <1>4, Names, EndedKeeps DEF Forked
<1>5. CASE Ended(r, "created") /\ proc' = [proc EXCEPT ![req[r].clone].keeper = "instance"]
  <2>1. Quiet /\ \A p \in Pids : proc'[p].keeper = "instance" => proc[p].keeper = "instance" \/ p = req[r].clone
    BY Zenon, <1>2, <1>5, KeeperEffect DEF IInv
  <2>2. "created" \in Final BY Zenon DEF Final
  <2>3. /\ req' \in [Requests -> Request]
        /\ Becomes(r, "created", Nil, Nil, Nil, Nil, req[r].clone, "none", req[r].rebuilt, req[r].gone)
        /\ lock' = Unlocked(r) /\ UNCHANGED slots /\ Cells(cell)
    BY Zenon, <1>5, <2>2, EndedEffect DEF IInv
  <2>4. req[r].gone => req[r].rebuilt \/ req[r].key # Base
    BY Zenon DEF IInv, ShapeInv, Shape
  <2>5. QED
    BY Zenon, <1>1, <1>3, <2>1, <2>2, <2>3, <2>4, EndKeeps DEF Forked, Ending
<1>6. QED
  BY Zenon, <1>4, <1>5 DEF Forked

-----------------------------------------------------------------------------
(* The other steps of a request.                                             *)

\* Request r is given slot s of key k, which it may have made.
Obtaining(r, k, s) ==
  /\ SlotOf(k, s)
  /\ ~down
  /\ UNCHANGED <<cell, lock, tpl, proc, down, faults>>
  /\ req' \in [Requests -> Request]
  /\ \/ /\ k = Base /\ req[r].pc \in {"new", "obtain"}
        /\ Becomes(r, "lockBase", s, Nil, Nil, Nil, Nil, "none", req[r].rebuilt, req[r].gone)
     \/ /\ k = req[r].key /\ req[r].pc = "recipeSlot"
        /\ Becomes(r, "lockRecipe", req[r].bslot, s, req[r].base, Nil, Nil, "none",
                   req[r].rebuilt, req[r].gone)

\* A request takes a reference to the slot of its base, or of its recipe.
LEMMA ObtainKeeps ==
  ASSUME IInv, NEW r \in Requests, NEW k \in Keys, NEW s \in Slots, Obtaining(r, k, s)
  PROVE  IInv'
<1>h1. /\ SlotOf(k, s)
       /\ ~down
  BY Zenon DEF Obtaining
<1>h2. UNCHANGED <<cell, lock, tpl, proc, down, faults>>
  BY Zenon DEF Obtaining
<1>h3. req' \in [Requests -> Request]
  BY Zenon DEF Obtaining
<1>h4. \/ /\ k = Base /\ req[r].pc \in {"new", "obtain"}
          /\ Becomes(r, "lockBase", s, Nil, Nil, Nil, Nil, "none", req[r].rebuilt, req[r].gone)
       \/ /\ k = req[r].key /\ req[r].pc = "recipeSlot"
          /\ Becomes(r, "lockRecipe", req[r].bslot, s, req[r].base, Nil, Nil, "none",
                     req[r].rebuilt, req[r].gone)
  BY Zenon DEF Obtaining
<1>a. Steady /\ (\A o \in Requests \ {r} : req'[o] = req[o]) /\ \A o \in Requests : req'[o].key = req[o].key
  BY Zenon, <1>h2, <1>h4 DEF Steady, Becomes
<1>3. TypeOK'
  BY Zenon, <1>h1, <1>h2, <1>h3 DEF IInv, TypeOK, SlotOf
<1>4. ShapeInv'
  <2>1. Shape(req[r])' BY <1>h4, Names DEF IInv, ShapeInv, Shape, Becomes, HasBase, HasTemplate
  <2>2. QED BY Zenon, <2>1, <1>a, ShapeKept DEF IInv, ShapeInv
<1>5. RequestInv'
  <2>1. Handles(req[r])'
    <3>1. Handles(req[r]) BY Zenon DEF IInv, RequestInv
    <3>2. CASE req'[r].pc = "lockBase" BY Zenon, <3>2 DEF Handles, HasBase, HasTemplate
    <3>3. CASE req'[r].pc = "lockRecipe" /\ req[r].pc = "recipeSlot" /\ req'[r].base = req[r].base
      BY Zenon, <1>h2, <3>1, <3>3, <1>h4 DEF Handles, HasBase, HasTemplate, Ready, Becomes
    <3>4. QED BY Zenon, <1>h4, <3>2, <3>3 DEF Becomes
  <2>2. QED BY Zenon, <2>1, <1>a, SteadyHandles DEF IInv, RequestInv, ShapeInv
<1>6. CloneInv'
  BY <1>h2, <1>h4 DEF IInv, CloneInv, Clone, Becomes
<1>7. SlotInv'
  <2>1. \A u \in Slots : \A j \in Keys : Refers(u, j)' => Refers(u, j) \/ (u = s /\ j = k)
    BY SMTT(30), <1>h1, <1>h4, Names, <1>a DEF IInv, Becomes, Refers, SlotOf, TypeOK
  <2>2. \A u \in Slots : \A j \in Keys : Refers(u, j) => Refers(u, j)'
    <3>1. req[r].rslot = Nil /\ (req'[r].bslot = req[r].bslot \/ req[r].bslot = Nil)
      BY Zenon, <1>h4 DEF IInv, ShapeInv, Shape, HasBase, Becomes
    <3>2. QED BY <1>h1, <1>h4, Names, <1>a, <3>1 DEF IInv, Becomes, Refers, SlotOf, TypeOK
  <2>3. QED BY Zenon, <1>h1, <1>h2, <1>3, <2>1, <2>2, SlotsObtained DEF IInv
<1>8. LockInv'
  <2>1. Locked(r, req[r])' BY Zenon, <1>h4 DEF Locked, Becomes
  <2>2. QED BY Zenon, <1>h2, <2>1, <1>a, SteadyLocked DEF IInv, LockInv, ShapeInv
<1>9. ProcessInv'
  BY Zenon, <1>h2 DEF IInv, ProcessInv, Children, Running
<1>10. DropInv'
  BY <1>h2, <1>h4, Names DEF IInv, DropInv, Handle, Becomes
<1>11. MapInv'
  <2>1. \A t \in Pids : Published(t)' => Published(t)
    BY <1>h2, <1>h4 DEF Published, Becomes, Children, HasBase, HasTemplate
  <2>2. \A j \in Keys : slots[j] # Nil => slots'[j] = slots[j]
    BY Zenon, <1>h1 DEF IInv, SlotOf, TypeOK
  <2>3. slots'[k] = s
    BY Zenon, <1>h1 DEF IInv, SlotOf, TypeOK
  <2>4. NoRebuild' => NoRebuild BY Zenon, <1>h4 DEF NoRebuild, Becomes
  <2>5. NoRebuild' /\ ~down' =>
          \A o \in Requests : /\ req'[o].bslot # Nil => slots'[Base] = req'[o].bslot
                              /\ req'[o].rslot # Nil => slots'[req'[o].key] = req'[o].rslot
    <3> SUFFICES ASSUME NoRebuild', NEW o \in Requests
                 PROVE  /\ req'[o].bslot # Nil => slots'[Base] = req'[o].bslot
                        /\ req'[o].rslot # Nil => slots'[req'[o].key] = req'[o].rslot
      BY Zenon
    <3>1. /\ req[o].bslot # Nil => slots[Base] = req[o].bslot
          /\ req[o].rslot # Nil => slots[req[o].key] = req[o].rslot
      BY Zenon, <1>h1, <2>4 DEF IInv, MapInv
    <3>2. CASE o = r BY <1>h4, Names, <3>1, <3>2, <2>2, <2>3, <1>a DEF Becomes
    <3>3. CASE o # r BY Names, <3>1, <3>3, <2>2, <1>a, RequestTypes DEF IInv
    <3>4. QED BY Zenon, <3>2, <3>3
  <2>6. QED
    BY Zenon, <1>h2, <1>3, <2>1, <2>2, <2>4, <2>5, MapKept DEF IInv
<1>12. DownInv'
  BY Zenon, <1>h1, <1>h2 DEF DownInv
<1>13. KeptUntilRebuild'
  <2>1. NoRebuild' => NoRebuild BY Zenon, <1>h4 DEF NoRebuild, Becomes
  <2>2. QED BY Zenon, <1>h2, <1>a, <2>1, SteadyKept DEF IInv, ProcessInv
<1>14. QED
  BY Zenon, <1>3, <1>4, <1>5, <1>6, <1>7, <1>8, <1>9, <1>10, <1>11, <1>12, <1>13 DEF IInv

LEMMA ObtainBaseKeeps ==
  ASSUME IInv, NEW r \in Requests, ObtainBase(r)
  PROVE  IInv'
<1>1. /\ req' \in [Requests -> Request] /\ req[r].pc \in {"new", "obtain"} /\ ~down
      /\ UNCHANGED <<cell, lock, tpl, proc, down, faults>>
  BY Zenon, ObtainBaseEffect DEF ObtainBase, DownInv, Final, IInv
<1>2. PICK s \in Slots :
        /\ SlotOf(Base, s)
        /\ Becomes(r, "lockBase", s, Nil, Nil, Nil, Nil, "none", req[r].rebuilt, req[r].gone)
  BY Zenon, ObtainBaseEffect DEF IInv
<1>3. QED
  BY Zenon, <1>1, <1>2, Names, ObtainKeeps DEF Obtaining

LEMMA ObtainRecipeKeeps ==
  ASSUME IInv, NEW r \in Requests, ObtainRecipe(r)
  PROVE  IInv'
<1>1. PICK s \in Slots :
        /\ SlotOf(req[r].key, s)
        /\ req' = [req EXCEPT ![r] = [req[r] EXCEPT !.pc = "lockRecipe", !.rslot = s]]
  BY Zenon DEF ObtainRecipe, KeyOf
<1> DEFINE q == [req[r] EXCEPT !.pc = "lockRecipe", !.rslot = s]
<1>2. q \in Request
  BY Zenon, RequestTypes, SetField DEF IInv, PCs, Awaiting
<1>3. req' \in [Requests -> Request] /\ req'[r] = q /\ \A o \in Requests \ {r} : req'[o] = req[o]
  BY Zenon, <1>1, <1>2, Replaced DEF IInv
<1>4. req[r].pc = "recipeSlot" /\ ~down /\ UNCHANGED <<cell, lock, tpl, proc, down, faults>>
  BY Zenon DEF ObtainRecipe, IInv, DownInv, Final
<1>5. Becomes(r, "lockRecipe", req[r].bslot, s, req[r].base, Nil, Nil, "none", req[r].rebuilt, req[r].gone)
  <2>1. req[r].tmpl = Nil /\ req[r].clone = Nil /\ req[r].answer = "none"
    BY Zenon, <1>4 DEF IInv, ShapeInv, Shape, HasTemplate
  <2>2. QED
    BY <1>3, <2>1, RequestTypes DEF IInv, Becomes, Request
<1>6. QED
  BY Zenon, <1>1, <1>3, <1>4, <1>5, RequestTypes, ObtainKeeps DEF IInv, Obtaining

\* Request r is given template t from slot s, where it found or stored it.
Giving(r, t, k, s) ==
  /\ req[r].pc \notin Final \cup {"new"}
  /\ (k = Base /\ s = req[r].bslot) \/ (k = req[r].key /\ s = req[r].rslot)
  /\ Ready(t, k)
  /\ Handle(t)
  /\ UNCHANGED <<slots, tpl, proc, down, faults>>
  /\ lock' \in [Slots -> Requests \cup {Nil}]
  /\ \A u \in Slots : \A o \in Requests \ {r} : lock[u] = o => lock'[u] = o
  /\ req' \in [Requests -> Request]
  /\ \/ /\ k = req[r].key
        /\ Becomes(r, "send", Nil, Nil, Nil, t, Nil, "none", req[r].rebuilt, req[r].gone)
     \/ /\ k = Base /\ req[r].key # Base
        /\ Becomes(r, "recipeSlot", s, Nil, t, Nil, Nil, "none", req[r].rebuilt, req[r].gone)
  /\ \/ cell[s] = t /\ Cells(cell)
     \/ lock[s] = r /\ ~Alive(cell[s]) /\ Cells(Stored(s, t))

\* A request gets template t out of slot s, of key k: found there, or just put there under
\* the slot's lock.
LEMMA GivenKeeps ==
  ASSUME IInv, NEW r \in Requests, NEW t \in Pids, NEW k \in Keys, NEW s \in Slots, Giving(r, t, k, s)
  PROVE  IInv'
<1>h1. req[r].pc \notin Final \cup {"new"}
  BY Zenon DEF Giving
<1>h2. (k = Base /\ s = req[r].bslot) \/ (k = req[r].key /\ s = req[r].rslot)
  BY Zenon DEF Giving
<1>h3. /\ Ready(t, k)
       /\ Handle(t)
  BY Zenon DEF Giving
<1>h4. UNCHANGED <<slots, tpl, proc, down, faults>>
  BY Zenon DEF Giving
<1>h5. /\ lock' \in [Slots -> Requests \cup {Nil}]
       /\ \A u \in Slots : \A o \in Requests \ {r} : lock[u] = o => lock'[u] = o
  BY Zenon DEF Giving
<1>h6. req' \in [Requests -> Request]
  BY Zenon DEF Giving
<1>h7. \/ /\ k = req[r].key
          /\ Becomes(r, "send", Nil, Nil, Nil, t, Nil, "none", req[r].rebuilt, req[r].gone)
       \/ /\ k = Base /\ req[r].key # Base
          /\ Becomes(r, "recipeSlot", s, Nil, t, Nil, Nil, "none", req[r].rebuilt, req[r].gone)
  BY Zenon DEF Giving
<1>h8. \/ cell[s] = t /\ Cells(cell)
       \/ lock[s] = r /\ ~Alive(cell[s]) /\ Cells(Stored(s, t))
  BY Zenon DEF Giving
<1> DEFINE new == [u \in Slots |-> IF u = s THEN t ELSE cell[u]]
<1>0. /\ cell' \in [Slots -> Pids \cup {Nil}]
      /\ \A u \in Slots : (InUse(u) \/ Mapped(u))' => cell'[u] = new[u]
      /\ \A u \in Slots : cell'[u] # Nil => cell'[u] = new[u] /\ (InUse(u) \/ Mapped(u))'
  <2>1. cell \in [Slots -> Pids \cup {Nil}] BY Zenon DEF IInv, TypeOK
  <2>2. CASE cell[s] = t /\ Cells(cell)
    <3>1. new = cell BY Zenon, <2>1, <2>2
    <3>2. QED BY Zenon, <2>1, <2>2, <3>1, CellsEffect DEF IInv
  <2>3. CASE Cells(Stored(s, t))
    <3>1. new = Stored(s, t) BY Zenon, <2>1 DEF Stored
    <3>2. new \in [Slots -> Pids \cup {Nil}] BY Zenon, <2>1
    <3>3. QED BY Zenon, <2>3, <3>1, <3>2, CellsEffect DEF IInv
  <2>4. QED BY Zenon, <1>h8, <2>2, <2>3
<1>a. Steady /\ (\A o \in Requests \ {r} : req'[o] = req[o]) /\ \A o \in Requests : req'[o].key = req[o].key
  BY Zenon, <1>h4, <1>h7 DEF Steady, Becomes
<1>b. \A u \in Slots : u # s \/ cell[s] = t => new[u] = cell[u]
  BY Zenon
<1> HIDE DEF new
<1>1. TypeOK'
  BY Zenon, <1>h4, <1>h5, <1>h6, <1>0 DEF IInv, TypeOK
<1>2. ShapeInv'
  <2>1. Shape(req[r])' BY <1>h1, <1>h2, <1>h3, <1>h7, Names DEF IInv, ShapeInv, Shape, Becomes, HasBase, HasTemplate
  <2>2. QED BY Zenon, <2>1, <1>a, ShapeKept DEF IInv, ShapeInv
<1>3. RequestInv'
  <2>1. Handles(req[r])'
    BY Zenon, <1>h2, <1>h3, <1>h4, <1>h7 DEF IInv, RequestInv, Handles, Becomes, HasBase, HasTemplate, Ready
  <2>2. QED BY Zenon, <2>1, <1>a, SteadyHandles DEF IInv, RequestInv, ShapeInv
<1>4. CloneInv'
  BY <1>h4, <1>h7, <1>a DEF IInv, CloneInv, Clone, Becomes
<1>5. SlotInv'
  <2>1. \A u \in Slots : \A j \in Keys : Refers(u, j)' => Refers(u, j)
    BY <1>h2, <1>h4, <1>h7, Names, <1>a DEF Refers, Becomes
  <2>2. Refers(s, k)
    BY Zenon, <1>h2 DEF Refers
  <2>3. \A u \in Slots : cell'[u] # Nil => cell'[u] = (IF u = s THEN t ELSE cell[u]) /\ (InUse(u) \/ Mapped(u))'
    BY Zenon, <1>0 DEF new
  <2>4. QED
    BY Zenon, <1>h2, <1>h3, <1>h4, Names, <2>1, <2>2, <2>3, <1>1, SlotsFilled DEF IInv
<1>6. LockInv'
  <2>1. Locked(r, req[r])' BY Zenon, <1>h7 DEF Locked, Becomes
  <2>2. ASSUME NEW o \in Requests \ {r} PROVE Locked(o, req[o])'
    <3>1. \A u \in Slots : u \in {req[o].bslot, req[o].rslot} /\ lock[u] = o => cell'[u] = cell[u]
      <4> SUFFICES ASSUME NEW u \in Slots, u \in {req[o].bslot, req[o].rslot}, lock[u] = o
                   PROVE  cell'[u] = cell[u]
        BY Zenon
      <4>1. cell'[u] = new[u] BY Zenon, <1>h4, <1>0, <1>a DEF InUse
      <4>2. QED BY Zenon, <1>h8, <4>1, <1>b
    <3>2. QED BY Zenon, <1>h4, <1>h5, <3>1, <1>a, SteadyLocked DEF IInv, LockInv, ShapeInv
  <2>3. QED BY Zenon, <2>1, <2>2 DEF LockInv
<1>7. ProcessInv'
  BY Zenon, <1>h4 DEF IInv, ProcessInv, Children, Running
<1>8. DropInv'
  BY <1>h3, <1>h4, <1>h7, Names, <1>0, <1>b DEF IInv, DropInv, Handle, Becomes, new
<1>9. MapInv'
  <2>1. NoRebuild' => NoRebuild BY Zenon, <1>h7 DEF NoRebuild, Becomes
  <2>2. \A o \in Pids : Published(o)' => Published(o) \/ o = t
    BY <1>h4, <1>h7, <1>a DEF Published, Becomes, Children, HasBase, HasTemplate
  <2>3. \A j \in Keys : slots[j] # Nil => cell'[slots[j]] = new[slots[j]] /\ slots[j] \in Slots
    BY <1>h4, <1>0 DEF IInv, Mapped, TypeOK
  <2>4. \A j \in Keys : slots[j] # Nil /\ Alive(cell[slots[j]]) => cell'[slots[j]] = cell[slots[j]]
    BY Zenon, <1>h8, <1>h4, <2>3, <1>b
  <2>5. NoRebuild' /\ ~down' => slots[k] = s /\ cell'[s] = t
    <3>1. NoRebuild' /\ ~down' => slots[k] = s BY Zenon, <1>h2, <1>h4, Names, <2>1 DEF IInv, MapInv
    <3>2. new[s] = t BY Zenon DEF new
    <3>3. QED BY Zenon, <1>h2, <1>h4, Names, <3>1, <3>2, <2>3
  <2>6. NoRebuild' /\ ~down' =>
          \A o \in Requests : /\ req'[o].bslot # Nil => slots'[Base] = req'[o].bslot
                              /\ req'[o].rslot # Nil => slots'[req'[o].key] = req'[o].rslot
    BY <1>h2, <1>h4, <1>h7, Names, <2>1, <2>5, <1>a DEF IInv, MapInv, Becomes
  <2>7. QED
    BY <1>h4, Names, <2>1, <2>2, <2>4, <2>5, <2>6, <1>1, MapKept DEF IInv
<1>10. DownInv'
  BY Zenon, <1>h1, <1>h4 DEF IInv, DownInv
<1>11. KeptUntilRebuild'
  <2>1. NoRebuild' => NoRebuild BY Zenon, <1>h7 DEF NoRebuild, Becomes
  <2>2. QED BY Zenon, <1>h4, <1>a, <2>1, SteadyKept DEF IInv, ProcessInv
<1>12. QED
  BY Zenon, <1>1, <1>2, <1>3, <1>4, <1>5, <1>6, <1>7, <1>8, <1>9, <1>10, <1>11 DEF IInv

\* obtain has the base.
LEMMA HaveBaseEffect ==
  ASSUME TypeOK, ShapeInv, NEW r \in Requests, NEW t \in Pids, HaveBase(r, t),
         req[r].pc \in {"lockBase", "fillBase"}
  PROVE  /\ req' \in [Requests -> Request]
         /\ IF req[r].key = Base
              THEN Becomes(r, "send", Nil, Nil, Nil, t, Nil, "none", req[r].rebuilt, req[r].gone)
              ELSE Becomes(r, "recipeSlot", req[r].bslot, Nil, t, Nil, Nil, "none", req[r].rebuilt, req[r].gone)
<1>0. req[r].rslot = Nil /\ req[r].tmpl = Nil /\ req[r].clone = Nil
  BY Zenon DEF ShapeInv, Shape, HasBase, HasTemplate
<1>1. CASE req[r].key = Base
  <2> DEFINE q == [req[r] EXCEPT !.pc = "send", !.bslot = Nil, !.base = Nil, !.tmpl = t, !.answer = "none"]
  <2>1. q \in Request
    BY Zenon, RequestTypes, SetField DEF PCs, Answers
  <2>2. req' = [req EXCEPT ![r] = q]
    BY Zenon, <1>1 DEF HaveBase
  <2>3. req' \in [Requests -> Request] /\ req'[r] = q /\ \A o \in Requests \ {r} : req'[o] = req[o]
    BY Zenon, <2>1, <2>2, Replaced
  <2>4. QED
    BY <1>0, <1>1, <2>3, RequestTypes DEF Becomes, Request
<1>2. CASE req[r].key # Base
  <2> DEFINE q == [req[r] EXCEPT !.pc = "recipeSlot", !.base = t, !.answer = "none"]
  <2>1. q \in Request
    BY Zenon, RequestTypes, SetField DEF PCs, Answers
  <2>2. req' = [req EXCEPT ![r] = q]
    BY Zenon, <1>2 DEF HaveBase
  <2>3. req' \in [Requests -> Request] /\ req'[r] = q /\ \A o \in Requests \ {r} : req'[o] = req[o]
    BY Zenon, <2>1, <2>2, Replaced
  <2>4. QED
    BY <1>0, <1>2, <2>3, RequestTypes DEF Becomes, Request
<1>3. QED
  BY Zenon, <1>1, <1>2

\* obtain returns the recipe's template.
LEMMA HaveRecipeEffect ==
  ASSUME TypeOK, ShapeInv, NEW r \in Requests, NEW t \in Pids, HaveRecipe(r, t),
         req[r].pc \in {"lockRecipe", "fillRecipe"}
  PROVE  /\ req' \in [Requests -> Request]
         /\ Becomes(r, "send", Nil, Nil, Nil, t, Nil, "none", req[r].rebuilt, req[r].gone)
<1> DEFINE q == [req[r] EXCEPT !.pc = "send", !.bslot = Nil, !.rslot = Nil, !.base = Nil, !.tmpl = t,
                               !.answer = "none"]
<1>1. q \in Request
  BY Zenon, RequestTypes, SetField DEF PCs, Answers
<1>2. req' = [req EXCEPT ![r] = q]
  BY Zenon DEF HaveRecipe
<1>3. req' \in [Requests -> Request] /\ req'[r] = q /\ \A o \in Requests \ {r} : req'[o] = req[o]
  BY Zenon, <1>1, <1>2, Replaced
<1>4. req[r].clone = Nil
  BY Zenon DEF ShapeInv, Shape
<1>5. QED
  BY <1>3, <1>4, RequestTypes DEF Becomes, Request

LEMMA BaseHitKeeps ==
  ASSUME IInv, NEW r \in Requests, BaseHit(r)
  PROVE  IInv'
<1> DEFINE s == req[r].bslot
           t == cell[s]
<1>1. s \in Slots /\ t \in Pids /\ req[r].pc = "lockBase"
  BY Zenon, RequestTypes DEF BaseHit, IInv, ShapeInv, Shape, Alive, TypeOK
<1>2. Ready(t, Base)
  BY Zenon, <1>1, Names DEF IInv, SlotInv, Refers
<1>3. /\ req' \in [Requests -> Request]
      /\ IF req[r].key = Base
           THEN Becomes(r, "send", Nil, Nil, Nil, t, Nil, "none", req[r].rebuilt, req[r].gone)
           ELSE Becomes(r, "recipeSlot", s, Nil, t, Nil, Nil, "none", req[r].rebuilt, req[r].gone)
  BY Zenon, <1>1, HaveBaseEffect DEF BaseHit, IInv
<1>4. Handle(t) /\ req[r].pc \notin Final \cup {"new"}
  BY Zenon, <1>1 DEF Handle, Final
<1>5. UNCHANGED <<slots, lock, tpl, proc, down, faults>> /\ Cells(cell)
  BY Zenon DEF BaseHit
<1>6. lock \in [Slots -> Requests \cup {Nil}]
  BY Zenon DEF IInv, TypeOK
<1> HIDE DEF t
<1>7. QED
  BY Zenon, <1>1, <1>2, <1>3, <1>4, <1>5, <1>6, Names, GivenKeeps DEF t, Giving

LEMMA RecipeHitKeeps ==
  ASSUME IInv, NEW r \in Requests, RecipeHit(r)
  PROVE  IInv'
<1> DEFINE s == req[r].rslot
           t == cell[s]
<1>1. s \in Slots /\ t \in Pids /\ req[r].pc = "lockRecipe" /\ req[r].key \in Keys
  BY Zenon, RequestTypes DEF RecipeHit, IInv, ShapeInv, Shape, Alive, TypeOK
<1>2. Ready(t, req[r].key)
  BY <1>1, Names DEF IInv, SlotInv, Refers
<1>3. /\ req' \in [Requests -> Request]
      /\ Becomes(r, "send", Nil, Nil, Nil, t, Nil, "none", req[r].rebuilt, req[r].gone)
  BY Zenon, <1>1, HaveRecipeEffect DEF RecipeHit, IInv
<1>4. Handle(t) /\ req[r].pc \notin Final \cup {"new"}
  BY Zenon, <1>1 DEF Handle, Final
<1>5. UNCHANGED <<slots, lock, tpl, proc, down, faults>> /\ Cells(cell)
  BY Zenon DEF RecipeHit
<1>6. lock \in [Slots -> Requests \cup {Nil}]
  BY Zenon DEF IInv, TypeOK
<1> HIDE DEF t
<1>7. QED
  BY Zenon, <1>1, <1>2, <1>3, <1>4, <1>5, <1>6, GivenKeeps DEF t, Giving

\* A request gives its locks back and takes nobody else's.
LEMMA UnlockedEffect ==
  ASSUME TypeOK, NEW r \in Requests, lock' = Unlocked(r)
  PROVE  /\ lock' \in [Slots -> Requests \cup {Nil}]
         /\ \A u \in Slots : \A o \in Requests \ {r} : lock[u] = o => lock'[u] = o
  BY Zenon DEF TypeOK, Unlocked

LEMMA BaseFilledKeeps ==
  ASSUME IInv, NEW r \in Requests, BaseFilled(r)
  PROVE  IInv'
<1>0. req[r].pc = "fillBase" /\ req[r].pc \notin Final \cup {"new"}
  BY Zenon DEF BaseFilled, Final
<1>1. CASE req[r].answer = "err"
  <2>1. faults' \in 0..MaxFaults BY Zenon, Faults DEF BaseFilled, IInv
  <2>2. QED BY Zenon, <1>0, <1>1, <2>1, EndedKeeps DEF BaseFilled
<1>2. CASE req[r].answer = "ok"
  <2> DEFINE s == req[r].bslot
             t == req[r].base
  <2>1. s \in Slots /\ t \in Pids
    BY Zenon, <1>0, RequestTypes DEF IInv, ShapeInv, Shape
  <2>2. Ready(t, Base) /\ lock[s] = r /\ ~Alive(cell[s])
    BY Zenon, <1>0, <1>2 DEF IInv, RequestInv, Handles, Filling, LockInv, Locked
  <2>3. /\ req' \in [Requests -> Request]
        /\ IF req[r].key = Base
             THEN Becomes(r, "send", Nil, Nil, Nil, t, Nil, "none", req[r].rebuilt, req[r].gone)
             ELSE Becomes(r, "recipeSlot", s, Nil, t, Nil, Nil, "none", req[r].rebuilt, req[r].gone)
    BY Zenon, <1>0, <1>2, <2>1, HaveBaseEffect DEF BaseFilled, IInv
  <2>4. Handle(t)
    BY Zenon DEF Handle
  <2>5. UNCHANGED <<slots, tpl, proc, down, faults>> /\ Cells(Stored(s, t)) /\ lock' = Unlocked(r)
    BY Zenon, <1>2 DEF BaseFilled
  <2>6. /\ lock' \in [Slots -> Requests \cup {Nil}]
        /\ \A u \in Slots : \A o \in Requests \ {r} : lock[u] = o => lock'[u] = o
    BY Zenon, <2>5, UnlockedEffect DEF IInv
  <2>7. QED
    BY Zenon, <1>0, <2>1, <2>2, <2>3, <2>4, <2>5, <2>6, Names, GivenKeeps DEF Giving
<1>3. QED
  BY Zenon, <1>1, <1>2 DEF BaseFilled

LEMMA RecipeFilledKeeps ==
  ASSUME IInv, NEW r \in Requests, RecipeFilled(r)
  PROVE  IInv'
<1>0. req[r].pc = "fillRecipe" /\ req[r].pc \notin Final \cup {"new"}
  BY Zenon DEF RecipeFilled, Final
<1>1. CASE req[r].answer = "err"
  <2>1. faults' \in 0..MaxFaults BY Zenon, Faults DEF RecipeFilled, IInv
  <2>2. QED BY Zenon, <1>0, <1>1, <2>1, EndedKeeps DEF RecipeFilled
<1>2. CASE req[r].answer = "ok"
  <2> DEFINE s == req[r].rslot
             t == req[r].tmpl
  <2>1. s \in Slots /\ t \in Pids /\ req[r].key \in Keys
    BY Zenon, <1>0, RequestTypes DEF IInv, ShapeInv, Shape
  <2>2. Ready(t, req[r].key) /\ lock[s] = r /\ ~Alive(cell[s])
    BY Zenon, <1>0, <1>2 DEF IInv, RequestInv, Handles, Filling, LockInv, Locked
  <2>3. /\ req' \in [Requests -> Request]
        /\ Becomes(r, "send", Nil, Nil, Nil, t, Nil, "none", req[r].rebuilt, req[r].gone)
    BY Zenon, <1>0, <1>2, <2>1, HaveRecipeEffect DEF RecipeFilled, IInv
  <2>4. Handle(t)
    BY Zenon DEF Handle
  <2>5. UNCHANGED <<slots, tpl, proc, down, faults>> /\ Cells(Stored(s, t)) /\ lock' = Unlocked(r)
    BY Zenon, <1>2 DEF RecipeFilled
  <2>6. /\ lock' \in [Slots -> Requests \cup {Nil}]
        /\ \A u \in Slots : \A o \in Requests \ {r} : lock[u] = o => lock'[u] = o
    BY Zenon, <2>5, UnlockedEffect DEF IInv
  <2>7. QED
    BY Zenon, <1>0, <2>1, <2>2, <2>3, <2>4, <2>5, <2>6, GivenKeeps DEF Giving
<1>3. QED
  BY Zenon, <1>1, <1>2 DEF RecipeFilled

\* Request r starts over, with a rebuild or to find out whether one is due.
Retrying(r, pc, rebuilt) ==
  /\ req[r].pc \in {"forking", "forget"}
  /\ req' \in [Requests -> Request]
  /\ Becomes(r, pc, Nil, Nil, Nil, Nil, Nil, "none", rebuilt, req[r].gone)
  /\ rebuilt \/ (rebuilt = req[r].rebuilt /\ UNCHANGED slots)
  /\ slots' \in [Keys -> Slots \cup {Nil}]
  /\ \A k \in Keys : slots'[k] \in {Nil, slots[k]}
  /\ UNCHANGED <<lock, tpl, proc, down, faults>>
  /\ UNCHANGED <<cell, slots>> \/ Cells(cell)

\* A request that lost its template goes back to obtain another.
LEMMA RetryKeeps ==
  ASSUME IInv, NEW r \in Requests, NEW pc \in {"forget", "obtain"}, NEW rebuilt \in BOOLEAN, Retrying(r, pc, rebuilt)
  PROVE  IInv'
<1>h1. req[r].pc \in {"forking", "forget"}
  BY Zenon DEF Retrying
<1>h2. req' \in [Requests -> Request]
  BY Zenon DEF Retrying
<1>h3. Becomes(r, pc, Nil, Nil, Nil, Nil, Nil, "none", rebuilt, req[r].gone)
  BY Zenon DEF Retrying
<1>h4. /\ rebuilt \/ (rebuilt = req[r].rebuilt /\ UNCHANGED slots)
       /\ slots' \in [Keys -> Slots \cup {Nil}]
       /\ \A k \in Keys : slots'[k] \in {Nil, slots[k]}
  BY Zenon DEF Retrying
<1>h5. UNCHANGED <<lock, tpl, proc, down, faults>>
  BY Zenon DEF Retrying
<1>h6. UNCHANGED <<cell, slots>> \/ Cells(cell)
  BY Zenon DEF Retrying
<1>a. Steady /\ (\A o \in Requests \ {r} : req'[o] = req[o]) /\ \A o \in Requests : req'[o].key = req[o].key
  BY Zenon, <1>h3, <1>h5 DEF Steady, Becomes
<1>r. req[r].bslot = Nil /\ req[r].rslot = Nil
  BY Zenon, <1>h1 DEF IInv, ShapeInv, Shape, HasBase
<1>0. /\ cell' \in [Slots -> Pids \cup {Nil}]
      /\ \A s \in Slots : (InUse(s) \/ Mapped(s))' => cell'[s] = cell[s]
      /\ \A s \in Slots : cell'[s] # Nil => cell'[s] = cell[s] /\ (InUse(s) \/ Mapped(s))'
  <2>1. cell \in [Slots -> Pids \cup {Nil}] BY Zenon DEF IInv, TypeOK
  <2>2. CASE UNCHANGED <<cell, slots>>
    <3>1. \A s \in Slots : cell[s] # Nil => InUse(s) \/ Mapped(s)
      BY Names, RequestTypes DEF IInv, SlotInv, Refers, InUse, Mapped
    <3>2. \A s \in Slots : (InUse(s) \/ Mapped(s)) => (InUse(s) \/ Mapped(s))'
      BY <1>h3, Names, <2>2, <1>a, <1>r DEF InUse, Mapped
    <3>3. QED BY Zenon, <2>1, <2>2, <3>1, <3>2
  <2>3. QED BY Zenon, <1>h6, <2>1, <2>2, CellsEffect DEF IInv
<1>1. TypeOK'
  BY Zenon, <1>h2, <1>h4, <1>h5, <1>0 DEF IInv, TypeOK
<1>2. ShapeInv'
  <2>1. Shape(req[r])' BY <1>h1, <1>h3, <1>h4, <1>h5, Names DEF IInv, ShapeInv, Shape, Becomes, HasBase, HasTemplate
  <2>2. QED BY Zenon, <2>1, <1>a, ShapeKept DEF IInv, ShapeInv
<1>3. RequestInv'
  <2>1. Handles(req[r])' BY Zenon, <1>h3 DEF Handles, Becomes, HasBase, HasTemplate
  <2>2. QED BY Zenon, <2>1, <1>a, SteadyHandles DEF IInv, RequestInv, ShapeInv
<1>4. CloneInv'
  BY <1>h3, <1>h5, <1>a DEF IInv, CloneInv, Clone, Becomes
<1>5. SlotInv'
  <2>1. \A s \in Slots : \A k \in Keys : Refers(s, k)' => Refers(s, k)
    BY <1>h3, <1>h4, Names, <1>a DEF Refers, Becomes
  <2>2. QED
    BY Zenon, <2>1, <1>0, <1>1, <1>a, SteadyReady, SlotsDropped DEF IInv
<1>6. LockInv'
  <2>1. Locked(r, req[r])' BY Zenon, <1>h3 DEF Locked, Becomes
  <2>2. ASSUME NEW o \in Requests \ {r} PROVE Locked(o, req[o])'
    <3>1. \A s \in Slots : s \in {req[o].bslot, req[o].rslot} => cell'[s] = cell[s]
      BY Zenon, <1>0, <1>a DEF InUse
    <3>2. QED BY Zenon, <1>h5, <3>1, <1>a, SteadyLocked DEF IInv, LockInv, ShapeInv
  <2>3. QED BY Zenon, <2>1, <2>2 DEF LockInv
<1>7. ProcessInv'
  BY Zenon, <1>h5 DEF IInv, ProcessInv, Children, Running
<1>8. DropInv'
  BY <1>h3, <1>h5, Names, <1>0 DEF IInv, DropInv, Handle, Becomes
<1>9. MapInv'
  <2>1. CASE rebuilt BY Zenon, <1>h3, <2>1 DEF MapInv, NoRebuild, Becomes
  <2>2. CASE rebuilt = req[r].rebuilt /\ UNCHANGED slots
    <3>1. NoRebuild' => NoRebuild BY Zenon, <1>h3, <2>2 DEF NoRebuild, Becomes
    <3>2. \A t \in Pids : Published(t)' => Published(t)
      BY <1>h3, <1>h5 DEF Published, Becomes, Children, HasBase, HasTemplate
    <3>3. \A k \in Keys : slots[k] # Nil => cell'[slots[k]] = cell[slots[k]]
      BY SMTT(30), <1>h5, <1>0, <2>2 DEF IInv, Mapped, TypeOK
    <3>4. NoRebuild' /\ ~down' =>
            \A o \in Requests : /\ req'[o].bslot # Nil => slots'[Base] = req'[o].bslot
                                /\ req'[o].rslot # Nil => slots'[req'[o].key] = req'[o].rslot
      BY <1>h3, <1>h5, Names, <3>1, <2>2, <1>a DEF IInv, MapInv, Becomes
    <3>5. QED
      BY Zenon, <1>h5, <2>2, <3>1, <3>2, <3>3, <3>4, <1>1, MapKept DEF IInv
  <2>3. QED BY Zenon, <1>h4, <2>1, <2>2
<1>10. DownInv'
  BY Zenon, <1>h1, <1>h5 DEF IInv, DownInv, Final
<1>11. KeptUntilRebuild'
  <2>1. NoRebuild' => NoRebuild BY Zenon, <1>h3, <1>h4 DEF NoRebuild, Becomes
  <2>2. QED BY Zenon, <1>h5, <1>a, <2>1, SteadyKept DEF IInv, ProcessInv
<1>12. QED
  BY Zenon, <1>1, <1>2, <1>3, <1>4, <1>5, <1>6, <1>7, <1>8, <1>9, <1>10, <1>11 DEF IInv

LEMMA ForkFailedKeeps ==
  ASSUME IInv, NEW r \in Requests, ForkFailed(r)
  PROVE  IInv'
<1>0. req[r].pc = "forking" /\ req[r].answer = "err" /\ req[r].pc \notin Final \cup {"new"}
  BY Zenon DEF ForkFailed, Final
<1>a. req[r].bslot = Nil /\ req[r].rslot = Nil /\ req[r].base = Nil /\ req[r].clone = Nil
  BY Zenon, <1>0 DEF IInv, ShapeInv, Shape, HasBase
<1>b. UNCHANGED <<tpl, proc, down, faults>>
  BY Zenon DEF ForkFailed
<1>1. CASE ~req[r].rebuilt
  <2> DEFINE q == [req[r] EXCEPT !.pc = "forget", !.tmpl = Nil, !.answer = "none"]
  <2>1. q \in Request
    BY Zenon, RequestTypes, SetField DEF IInv, PCs, Answers
  <2>2. req' = [req EXCEPT ![r] = q] /\ UNCHANGED <<slots, lock, cell>>
    BY Zenon, <1>1 DEF ForkFailed
  <2>3. req' \in [Requests -> Request] /\ req'[r] = q /\ \A o \in Requests \ {r} : req'[o] = req[o]
    BY Zenon, <2>1, <2>2, Replaced DEF IInv
  <2>4. Becomes(r, "forget", Nil, Nil, Nil, Nil, Nil, "none", req[r].rebuilt, req[r].gone)
    BY <1>a, <2>3, RequestTypes DEF IInv, Becomes, Request
  <2>5. QED
    BY <1>0, <1>b, <2>2, <2>3, <2>4, RequestTypes, RetryKeeps DEF IInv, TypeOK, Retrying
<1>2. CASE req[r].rebuilt
  <2> DEFINE q == [req[r] EXCEPT !.pc = "failed", !.bslot = Nil, !.rslot = Nil, !.tmpl = Nil,
                                 !.answer = "none", !.gone = TRUE]
  <2>1. q \in Request
    BY Zenon, RequestTypes, SetField DEF IInv, PCs, Answers, Final
  <2>2. req' = [req EXCEPT ![r] = q] /\ lock' = Unlocked(r) /\ UNCHANGED slots /\ Cells(cell)
    BY Zenon, <1>2 DEF ForkFailed
  <2>3. req' \in [Requests -> Request] /\ req'[r] = q /\ \A o \in Requests \ {r} : req'[o] = req[o]
    BY Zenon, <2>1, <2>2, Replaced DEF IInv
  <2>4. Becomes(r, "failed", Nil, Nil, Nil, Nil, Nil, "none", req[r].rebuilt, TRUE)
    BY <1>a, <2>3, RequestTypes DEF IInv, Becomes, Request
  <2>5. Quiet /\ faults' \in 0..MaxFaults /\ "failed" \in Final
    BY Zenon, <1>b DEF IInv, TypeOK, Quiet, Final
  <2>6. QED
    BY Zenon, <1>0, <1>2, <1>b, <2>2, <2>3, <2>4, <2>5, EndKeeps DEF Ending
<1>3. QED
  BY Zenon, <1>1, <1>2

LEMMA ForgetKeeps ==
  ASSUME IInv, NEW r \in Requests, Forget(r)
  PROVE  IInv'
<1> DEFINE q == [req[r] EXCEPT !.pc = "obtain", !.rebuilt = TRUE]
<1>1. q \in Request
  BY Zenon, RequestTypes, SetField DEF IInv, PCs
<1>2. /\ req[r].pc = "forget" /\ req' = [req EXCEPT ![r] = q] /\ Cells(cell)
      /\ slots' = [slots EXCEPT ![req[r].key] = Nil] /\ UNCHANGED <<lock, tpl, proc, down, faults>>
  BY Zenon DEF Forget, KeyOf
<1>3. req' \in [Requests -> Request] /\ req'[r] = q /\ \A o \in Requests \ {r} : req'[o] = req[o]
  BY Zenon, <1>1, <1>2, Replaced DEF IInv
<1>4. /\ req[r].bslot = Nil /\ req[r].rslot = Nil /\ req[r].base = Nil /\ req[r].tmpl = Nil
      /\ req[r].clone = Nil /\ req[r].answer = "none"
  BY Zenon, <1>2 DEF IInv, ShapeInv, Shape, HasBase, HasTemplate
<1>5. Becomes(r, "obtain", Nil, Nil, Nil, Nil, Nil, "none", TRUE, req[r].gone)
  BY <1>3, <1>4, RequestTypes DEF IInv, Becomes, Request
<1>6. slots' \in [Keys -> Slots \cup {Nil}] /\ \A k \in Keys : slots'[k] \in {Nil, slots[k]}
  BY Zenon, <1>2, RequestTypes DEF IInv, TypeOK
<1>7. QED
  BY Zenon, <1>2, <1>3, <1>5, <1>6, RetryKeeps DEF Retrying

\* A template is replaced by another.
LEMMA TemplateReplaced ==
  ASSUME TypeOK, NEW t \in Pids, NEW u \in Template, tpl' = [tpl EXCEPT ![t] = u]
  PROVE  /\ tpl' \in [Pids -> Template] /\ tpl'[t] = u
         /\ \A p \in Pids \ {t} : tpl'[p] = tpl[p]
  BY Zenon DEF TypeOK

\* The fields of a template have their types.
LEMMA TemplateTypes ==
  ASSUME TypeOK, NEW t \in Pids
  PROVE  /\ tpl[t] \in Template /\ tpl[t].queue \in Seq(Requests) /\ tpl[t].kids \in SUBSET Pids
         /\ tpl[t].recipe \in Keys /\ tpl[t].alive \in BOOLEAN
  BY Zenon DEF TypeOK, Template

\* A template with one field changed is a template.
LEMMA SetTemplate ==
  ASSUME NEW u \in Template
  PROVE  /\ \A x \in {"none", "bringup", "serving", "stopping", "ended"} : [u EXCEPT !.owner = x] \in Template
         /\ \A x \in BOOLEAN : [u EXCEPT !.alive = x] \in Template
         /\ \A x \in Seq(Requests) : [u EXCEPT !.queue = x] \in Template
         /\ \A x \in SUBSET Pids : [u EXCEPT !.kids = x] \in Template
         /\ \A x \in {"", "expired", "failed", "dropped"} : [u EXCEPT !.why = x] \in Template
<1>1. \A x \in {"none", "bringup", "serving", "stopping", "ended"} : [u EXCEPT !.owner = x] \in Template
  BY Zenon DEF Template
<1>2. \A x \in BOOLEAN : [u EXCEPT !.alive = x] \in Template
  BY Zenon DEF Template
<1>3. \A x \in Seq(Requests) : [u EXCEPT !.queue = x] \in Template
  BY Zenon DEF Template
<1>4. \A x \in SUBSET Pids : [u EXCEPT !.kids = x] \in Template
  BY Zenon DEF Template
<1>5. \A x \in {"", "expired", "failed", "dropped"} : [u EXCEPT !.why = x] \in Template
  BY Zenon DEF Template
<1>6. QED
  BY Zenon, <1>1, <1>2, <1>3, <1>4, <1>5

\* Template::fork puts the command in the queue, or finds the owner gone.
LEMMA SendEffect ==
  ASSUME TypeOK, NEW r \in Requests, NEW t \in Pids, NEW waiting \in {"forkBase", "forking"},
         Send(r, t, waiting)
  PROVE  /\ req' \in [Requests -> Request] /\ tpl' \in [Pids -> Template]
         /\ Becomes(r, waiting, req[r].bslot, req[r].rslot, req[r].base, req[r].tmpl, req[r].clone,
                    IF tpl[t].owner = "ended" THEN "err" ELSE req[r].answer, req[r].rebuilt, req[r].gone)
         /\ \A p \in Pids \ {t} : tpl'[p] = tpl[p]
         /\ tpl'[t].owner = tpl[t].owner /\ tpl'[t].alive = tpl[t].alive /\ tpl'[t].kids = tpl[t].kids
         /\ tpl'[t].recipe = tpl[t].recipe /\ tpl'[t].why = tpl[t].why
<1>1. CASE tpl[t].owner = "ended"
  <2> DEFINE q == [req[r] EXCEPT !.pc = waiting, !.answer = "err"]
  <2>1. q \in Request
    BY Zenon, RequestTypes, SetField DEF PCs, Answers, Awaiting
  <2>2. req' = [req EXCEPT ![r] = q] /\ UNCHANGED tpl
    BY Zenon, <1>1 DEF Send
  <2>3. req' \in [Requests -> Request] /\ req'[r] = q /\ \A o \in Requests \ {r} : req'[o] = req[o]
    BY Zenon, <2>1, <2>2, Replaced
  <2>4. QED
    BY <1>1, <2>2, <2>3, RequestTypes DEF Becomes, Request, TypeOK
<1>2. CASE tpl[t].owner # "ended"
  <2> DEFINE q == [req[r] EXCEPT !.pc = waiting]
  <2>1. q \in Request
    BY Zenon, RequestTypes, SetField DEF PCs, Awaiting
  <2>2. req' = [req EXCEPT ![r] = q] /\ tpl' = [tpl EXCEPT ![t].queue = Append(@, r)]
    BY Zenon, <1>2 DEF Send
  <2>3. req' \in [Requests -> Request] /\ req'[r] = q /\ \A o \in Requests \ {r} : req'[o] = req[o]
    BY Zenon, <2>1, <2>2, Replaced
  <2>4. Append(tpl[t].queue, r) \in Seq(Requests)
    <3>1. tpl[t].queue \in Seq(Requests) BY Zenon, TemplateTypes
    <3>2. QED BY <3>1
  <2> DEFINE n == Append(tpl[t].queue, r)
             u == [tpl[t] EXCEPT !.queue = n]
  <2>5. tpl' \in [Pids -> Template] /\ tpl'[t] = u /\ \A p \in Pids \ {t} : tpl'[p] = tpl[p]
    <3>1. u \in Template BY Zenon, <2>4, TemplateTypes, SetTemplate
    <3>2. tpl' = [tpl EXCEPT ![t] = u] BY Zenon, <2>2
    <3>3. QED BY Zenon, <3>1, <3>2, TemplateReplaced
  <2>6. Becomes(r, waiting, req[r].bslot, req[r].rslot, req[r].base, req[r].tmpl, req[r].clone,
                req[r].answer, req[r].rebuilt, req[r].gone)
    BY <2>3, RequestTypes DEF Becomes, Request
  <2>7. /\ tpl'[t].owner = tpl[t].owner /\ tpl'[t].alive = tpl[t].alive /\ tpl'[t].kids = tpl[t].kids
        /\ tpl'[t].recipe = tpl[t].recipe /\ tpl'[t].why = tpl[t].why
    <3> HIDE DEF n
    <3>1. QED BY Zenon, <2>5, TemplateTypes DEF Template
  <2>8. QED
    BY Zenon, <1>2, <2>3, <2>5, <2>6, <2>7
<1>3. QED
  BY Zenon, <1>1, <1>2

\* Request r asks template t for a fork.
Sending(r, t, waiting) ==
  /\ Send(r, t, waiting)
  /\ UNCHANGED <<slots, cell, proc, down, faults>>
  /\ lock' \in [Slots -> Requests \cup {Nil}]
  /\ \A o \in Requests \ {r}, s \in Slots : lock[s] = o => lock'[s] = o
  /\ waiting = "forkBase" => /\ req[r].pc = "lockRecipe" /\ req[r].base = t
                             /\ lock'[req[r].rslot] = r /\ ~Alive(cell[req[r].rslot])
  /\ waiting = "forking" => req[r].pc = "send" /\ req[r].tmpl = t

\* The request now waits for the fork.
LEMMA SendKeeps ==
  ASSUME IInv, NEW r \in Requests, NEW t \in Pids, NEW waiting \in {"forkBase", "forking"}, Sending(r, t, waiting)
  PROVE  IInv'
<1>h1. Send(r, t, waiting)
  BY Zenon DEF Sending
<1>h2. UNCHANGED <<slots, cell, proc, down, faults>>
  BY Zenon DEF Sending
<1>h3. /\ lock' \in [Slots -> Requests \cup {Nil}]
       /\ \A o \in Requests \ {r}, s \in Slots : lock[s] = o => lock'[s] = o
  BY Zenon DEF Sending
<1>h4. /\ waiting = "forkBase" => /\ req[r].pc = "lockRecipe" /\ req[r].base = t
                                  /\ lock'[req[r].rslot] = r /\ ~Alive(cell[req[r].rslot])
       /\ waiting = "forking" => req[r].pc = "send" /\ req[r].tmpl = t
  BY Zenon DEF Sending
<1>0. /\ req' \in [Requests -> Request] /\ tpl' \in [Pids -> Template]
      /\ Becomes(r, waiting, req[r].bslot, req[r].rslot, req[r].base, req[r].tmpl, Nil,
                 IF tpl[t].owner = "ended" THEN "err" ELSE "none", req[r].rebuilt, req[r].gone)
      /\ \A p \in Pids \ {t} : tpl'[p] = tpl[p]
      /\ tpl'[t].owner = tpl[t].owner /\ tpl'[t].alive = tpl[t].alive /\ tpl'[t].kids = tpl[t].kids
      /\ tpl'[t].recipe = tpl[t].recipe /\ tpl'[t].why = tpl[t].why
  <2>1. req[r].clone = Nil /\ req[r].answer = "none"
    BY Zenon, <1>h4, Names DEF IInv, ShapeInv, Shape
  <2>2. QED BY <1>h1, <2>1, SendEffect DEF IInv
<1>a. Steady /\ (\A o \in Requests \ {r} : req'[o] = req[o]) /\ \A o \in Requests : req'[o].key = req[o].key
  BY Zenon, <1>h2, <1>0 DEF Steady, Becomes
<1>b. \A p \in Pids : tpl'[p].owner = tpl[p].owner /\ tpl'[p].alive = tpl[p].alive
                      /\ tpl'[p].kids = tpl[p].kids /\ tpl'[p].why = tpl[p].why
  BY Zenon, <1>0
<1>1. TypeOK'
  BY Zenon, <1>h2, <1>h3, <1>0 DEF IInv, TypeOK
<1>2. ShapeInv'
  <2>1. Shape(req[r])' BY <1>h4, Names, <1>0 DEF IInv, ShapeInv, Shape, Becomes, HasBase, HasTemplate
  <2>2. QED BY Zenon, <2>1, <1>a, ShapeKept DEF IInv, ShapeInv
<1>3. RequestInv'
  <2>1. req[r].key \in Keys BY Zenon, RequestTypes DEF IInv
  <2>2. CASE waiting = "forkBase"
    <3>1. Ready(t, Base) BY Zenon, <1>h4, <2>2 DEF IInv, RequestInv, Handles, HasBase
    <3>2. Ready(t, Base)' BY Zenon, Names, <3>1, <1>a, SteadyReady
    <3>3. Handles(req[r])' BY <1>h4, <2>2, <3>1, <3>2, <1>0, <1>b DEF Handles, Becomes, HasBase, HasTemplate, Ready
    <3>4. QED BY Zenon, <3>3, <1>a, SteadyHandles DEF IInv, RequestInv, ShapeInv
  <2>3. CASE waiting = "forking"
    <3>1. Ready(t, req[r].key) BY Zenon, <1>h4, <2>3 DEF IInv, RequestInv, Handles, HasTemplate
    <3>2. Ready(t, req[r].key)' BY Zenon, <2>1, <3>1, <1>a, SteadyReady DEF Ready
    <3>3. Handles(req[r])' BY SMTT(30), <1>h4, <2>3, <3>1, <3>2, <1>0, <1>b DEF Handles, Becomes, HasBase, HasTemplate, Ready
    <3>4. QED BY Zenon, <3>3, <1>a, SteadyHandles DEF IInv, RequestInv, ShapeInv
  <2>4. QED BY Zenon, <2>2, <2>3
<1>4. CloneInv'
  <2>1. Clone(req[r])' BY Zenon, <1>0 DEF Clone, Becomes
  <2>2. ASSUME NEW o \in Requests \ {r} PROVE Clone(req[o])'
    <3>1. req'[o] = req[o] /\ Clone(req[o]) /\ req[o].clone \in Pids \cup {Nil}
      BY Zenon, <1>a, RequestTypes DEF IInv, CloneInv
    <3>2. QED BY Zenon, <1>h2, <3>1, <1>b DEF Clone
  <2>3. QED BY <2>1, <2>2, <1>0 DEF IInv, CloneInv, Becomes
<1>5. SlotInv'
  <2>1. \A s \in Slots : \A k \in Keys : Refers(s, k)' => Refers(s, k)
    BY <1>h2, Names, <1>0 DEF Refers, Becomes
  <2>2. \A s \in Slots : cell'[s] # Nil => (InUse(s) \/ Mapped(s))'
    BY <1>h2, <1>0 DEF IInv, SlotInv, Refers, InUse, Mapped, Becomes
  <2>3. QED
    BY Zenon, <1>h2, <2>1, <2>2, <1>1, <1>a, SteadyReady, SlotsDropped DEF IInv
<1>6. LockInv'
  <2>1. Locked(r, req[r])'
    <3>1. CASE waiting = "forkBase"
      <4>1. req[r].rslot \in Slots /\ cell[req[r].rslot] \in Pids \cup {Nil}
        BY Zenon, <1>h4, <3>1, RequestTypes DEF IInv, ShapeInv, Shape, TypeOK
      <4>2. ~Alive(cell[req[r].rslot])' BY <1>h2, <1>h4, <4>1, <3>1, <1>0, <1>b DEF Alive, Becomes
      <4>3. QED BY Zenon, <1>h4, <4>2, <3>1, <1>0 DEF Locked, Becomes
    <3>2. CASE waiting = "forking" BY Zenon, <3>2, <1>0 DEF Locked, Becomes
    <3>3. QED BY Zenon, <3>1, <3>2
  <2>2. \A o \in Requests \ {r} : Locked(o, req[o])'
    BY Zenon, <1>h2, <1>h3, <1>a, SteadyLocked DEF IInv, LockInv, ShapeInv
  <2>3. QED BY Zenon, <2>1, <2>2 DEF LockInv
<1>7. ProcessInv'
  BY <1>h2, <1>b DEF IInv, ProcessInv, Children, Running
<1>8. DropInv'
  BY <1>h2, <1>0, <1>b DEF IInv, DropInv, Handle, Becomes
<1>9. MapInv'
  <2>1. NoRebuild' => NoRebuild BY Zenon, <1>0 DEF NoRebuild, Becomes
  <2>2. \A p \in Pids : Published(p)' => Published(p)
    <3>1. Published(t) BY Zenon, <1>h4 DEF Published, HasBase, HasTemplate
    <3>2. ASSUME NEW p \in Pids, p # t, Published(p)' PROVE Published(p)
      <4>1. Children(p)' = Children(p) /\ tpl'[p].queue = tpl[p].queue
        BY Zenon, <1>h2, <3>2, <1>0 DEF Children
      <4>2. ASSUME NEW o \in Requests,
                   (req'[o].pc \in HasBase /\ req'[o].base = p) \/ (req'[o].pc \in HasTemplate /\ req'[o].tmpl = p)
            PROVE  o # r
        BY Zenon, <1>h4, <1>0, <3>2, <4>2 DEF Becomes, HasBase, HasTemplate
      <4>3. QED BY Zenon, <1>a, <3>2, <4>1, <4>2 DEF Published
    <3>3. QED BY Zenon, <3>1, <3>2
  <2>3. NoRebuild' /\ ~down' =>
          \A o \in Requests : /\ req'[o].bslot # Nil => slots'[Base] = req'[o].bslot
                              /\ req'[o].rslot # Nil => slots'[req'[o].key] = req'[o].rslot
    <3>1. \A o \in Requests : req'[o].bslot = req[o].bslot /\ req'[o].rslot = req[o].rslot
      BY Zenon, <1>0 DEF Becomes
    <3>2. QED BY Zenon, <1>h2, <1>a, <2>1, <3>1 DEF IInv, MapInv
  <2>4. QED
    BY Zenon, <1>h2, <2>1, <2>2, <2>3, <1>1, <1>b, MapKept DEF IInv
<1>10. DownInv'
  BY Zenon, <1>h2, <1>h4, <1>0 DEF IInv, DownInv, Becomes, Final
<1>11. KeptUntilRebuild'
  <2>1. NoRebuild' => NoRebuild BY Zenon, <1>0 DEF NoRebuild, Becomes
  <2>2. QED BY Zenon, <1>h2, <1>a, <2>1, SteadyKept DEF IInv, ProcessInv
<1>12. QED
  BY Zenon, <1>1, <1>2, <1>3, <1>4, <1>5, <1>6, <1>7, <1>8, <1>9, <1>10, <1>11 DEF IInv

LEMMA RecipeMissKeeps ==
  ASSUME IInv, NEW r \in Requests, RecipeMiss(r)
  PROVE  IInv'
<1>1. req[r].base \in Pids /\ req[r].rslot \in Slots
  BY Zenon, RequestTypes DEF IInv, RecipeMiss, ShapeInv, Shape, HasBase
<1>2. /\ lock' \in [Slots -> Requests \cup {Nil}] /\ lock'[req[r].rslot] = r
      /\ \A o \in Requests \ {r}, s \in Slots : lock[s] = o => lock'[s] = o
  BY Zenon, <1>1, Names DEF IInv, RecipeMiss, TypeOK
<1>3. QED
  BY Zenon, <1>1, <1>2, SendKeeps DEF RecipeMiss, Sending

LEMMA ForkInstanceKeeps ==
  ASSUME IInv, NEW r \in Requests, ForkInstance(r)
  PROVE  IInv'
<1>1. req[r].tmpl \in Pids
  BY Zenon, RequestTypes DEF IInv, ForkInstance, ShapeInv, Shape, HasTemplate
<1>2. QED
  BY Zenon, <1>1, SendKeeps DEF ForkInstance, IInv, TypeOK, Sending

\* The request goes on to wait for the template t it has just started.
Starts(r, t, k) ==
  \/ /\ req[r].pc = "lockBase" /\ k = Base /\ lock'[req[r].bslot] = r /\ ~Alive(cell[req[r].bslot])
     /\ Becomes(r, "fillBase", req[r].bslot, Nil, t, Nil, Nil, "none", req[r].rebuilt, req[r].gone)
  \/ /\ req[r].pc = "forkBase" /\ k = req[r].key /\ UNCHANGED lock
     /\ Becomes(r, "fillRecipe", req[r].bslot, req[r].rslot, req[r].base, t, Nil, "none", req[r].rebuilt, req[r].gone)

\* The template's process is new, or was a clone of the base's.
Hosts(t) ==
  /\ proc' \in [Pids -> Process] /\ \A p \in Pids \ {t} : proc'[p] = proc[p]
  /\ proc'[t].keeper = "owner" /\ proc'[t].st # "free"
  /\ proc[t].st # "free" => /\ proc'[t].st = proc[t].st /\ proc'[t].parent = proc[t].parent
                            /\ proc'[t].holds = proc[t].holds
  /\ proc[t].st = "free" => proc'[t].parent = Manager

\* Request r starts the owner thread of process t, which is to hold key k.
Starting(r, t, k) ==
  /\ Starts(r, t, k) /\ Hosts(t) /\ UNCHANGED <<slots, cell, down, faults>>
  /\ tpl[t].owner = "none" /\ tpl' = [tpl EXCEPT ![t] = NewTemplate(k)]
  /\ req' \in [Requests -> Request] /\ lock' \in [Slots -> Requests \cup {Nil}]
  /\ \A o \in Requests \ {r}, s \in Slots : lock[s] = o => lock'[s] = o
  /\ \A o \in Requests \ {r} : req[o].clone # t

\* An owner thread starts for process t, which no template was made of.
LEMMA StartKeeps ==
  ASSUME IInv, NEW r \in Requests, NEW t \in Pids, NEW k \in Keys, Starting(r, t, k)
  PROVE  IInv'
<1>u. UNCHANGED <<slots, cell, down, faults>>
  BY Zenon DEF Starting
<1>e. tpl[t].owner = "none" /\ tpl' = [tpl EXCEPT ![t] = NewTemplate(k)]
  BY Zenon DEF Starting
<1>r. req' \in [Requests -> Request]
  BY Zenon DEF Starting
<1>l. lock' \in [Slots -> Requests \cup {Nil}] /\ \A o \in Requests \ {r}, s \in Slots : lock[s] = o => lock'[s] = o
  BY Zenon DEF Starting
<1>o. \A o \in Requests \ {r} : req[o].clone # t
  BY Zenon DEF Starting
<1> DEFINE pc == req'[r].pc
<1>s. /\ pc \in {"fillBase", "fillRecipe"}
      /\ pc = "fillBase" =>
           /\ req[r].pc = "lockBase" /\ k = Base /\ lock'[req[r].bslot] = r /\ ~Alive(cell[req[r].bslot])
           /\ Becomes(r, pc, req[r].bslot, Nil, t, Nil, Nil, "none", req[r].rebuilt, req[r].gone)
      /\ pc = "fillRecipe" =>
           /\ req[r].pc = "forkBase" /\ k = req[r].key /\ UNCHANGED lock
           /\ Becomes(r, pc, req[r].bslot, req[r].rslot, req[r].base, t, Nil, "none", req[r].rebuilt, req[r].gone)
  BY Zenon DEF Starting, Starts, Becomes
<1> HIDE DEF pc
<1>h. /\ proc' \in [Pids -> Process] /\ \A p \in Pids \ {t} : proc'[p] = proc[p]
      /\ proc'[t].keeper = "owner" /\ proc'[t].st # "free"
      /\ proc[t].st # "free" => /\ proc'[t].st = proc[t].st /\ proc'[t].parent = proc[t].parent
                                /\ proc'[t].holds = proc[t].holds
      /\ proc[t].st = "free" => proc'[t].parent = Manager
  BY Zenon DEF Starting, Hosts
<1>0. tpl' \in [Pids -> Template] /\ tpl'[t] = NewTemplate(k) /\ \A p \in Pids \ {t} : tpl'[p] = tpl[p]
  <2>1. <<>> \in Seq(Requests) OBVIOUS
  <2>2. NewTemplate(k) \in Template BY Zenon, <2>1 DEF NewTemplate, Template
  <2>3. QED BY Zenon, <1>e, <2>2, TemplateReplaced DEF IInv
<1>n. /\ tpl'[t].owner = "bringup" /\ tpl'[t].alive /\ tpl'[t].queue = <<>> /\ tpl'[t].recipe = k
      /\ tpl'[t].why = ""
  BY Zenon, <1>e, <1>0 DEF NewTemplate
<1>a. /\ \A o \in Requests \ {r} : req'[o] = req[o]
      /\ \A o \in Requests : /\ req'[o].key = req[o].key /\ req'[o].bslot = req[o].bslot
                             /\ req'[o].rslot = req[o].rslot /\ req'[o].rebuilt = req[o].rebuilt
  BY Zenon, <1>s DEF IInv, Becomes, ShapeInv, Shape, HasBase
<1>b. Steady
  BY Zenon, <1>h, <1>e, <1>0 DEF Steady
<1>c. \A o \in Requests : /\ req[o].pc \in HasBase => req[o].base # t
                          /\ req[o].pc \in HasTemplate => req[o].tmpl # t
  BY Zenon, <1>e DEF IInv, RequestInv, Handles, Ready
<1>d. Children(t)' = {} /\ \A p \in Pids : Children(p)' \subseteq Children(p)
  <2>1. Children(t) = {} BY Zenon, <1>e DEF IInv, ProcessInv, Children
  <2>2. \A p \in Pids : Children(p)' \subseteq Children(p)
    BY Zenon, <1>h, Names DEF Children
  <2>3. QED BY Zenon, <2>1, <2>2
<1>1. TypeOK'
  BY Zenon, <1>h, <1>l, <1>r, <1>u, <1>0 DEF IInv, TypeOK
<1>2. ShapeInv'
  <2>1. Shape(req[r])' BY <1>s, Names DEF IInv, ShapeInv, Shape, Becomes, HasBase, HasTemplate
  <2>2. QED BY Zenon, <2>1, <1>a, ShapeKept DEF IInv, ShapeInv
<1>3. RequestInv'
  <2>1. Handles(req[r])'
    <3>2. CASE pc = "fillBase"
      BY Zenon, <1>s, <1>n, <3>2 DEF Handles, Becomes, HasBase, HasTemplate, Filling
    <3>3. CASE pc = "fillRecipe"
      <4>1. Ready(req[r].base, Base) /\ req[r].base \in Pids
        BY Zenon, <1>s, <3>3, RequestTypes DEF IInv, RequestInv, Handles, ShapeInv, Shape, HasBase
      <4>2. Ready(req[r].base, Base)' BY <1>s, Names, <3>3, <4>1, <1>b, SteadyReady DEF Ready, Becomes
      <4>3. /\ req'[r].pc = "fillRecipe" /\ req'[r].base = req[r].base /\ req'[r].tmpl = t
            /\ req'[r].key = k /\ req'[r].answer = "none"
        BY Zenon, <1>s, <3>3 DEF Becomes
      <4>4. Filling(t, k, "none")' BY Zenon, <1>n DEF Filling
      <4>5. QED BY Zenon, <4>2, <4>3, <4>4 DEF Handles, HasBase, HasTemplate, Filling, Ready
    <3>4. QED BY Zenon, <1>s, <3>2, <3>3
  <2>2. QED BY Zenon, <2>1, <1>a, <1>b, SteadyHandles DEF IInv, RequestInv, ShapeInv
<1>4. CloneInv'
  <2>1. Clone(req[r])' /\ req'[r].clone = Nil BY Zenon, <1>s DEF Clone, Becomes
  <2>2. ASSUME NEW o \in Requests \ {r} PROVE Clone(req[o])'
    <3>1. /\ req'[o] = req[o] /\ Clone(req[o]) /\ req[o].clone \in Pids \cup {Nil} /\ req[o].clone # t
      BY Zenon, <1>o, <1>a, RequestTypes DEF IInv, CloneInv
    <3>2. req[o].clone # Nil => /\ tpl'[req[o].clone].owner = "none" /\ proc'[req[o].clone].st # "free"
                                /\ proc'[req[o].clone].parent = proc[req[o].clone].parent
                                /\ proc'[req[o].clone].holds = proc[req[o].clone].holds
      BY Zenon, <1>h, <3>1, <1>0 DEF Clone
    <3>3. QED BY Zenon, <3>1, <3>2, CloneKept
  <2>3. QED BY <2>1, <2>2, <1>a DEF IInv, CloneInv
<1>5. SlotInv'
  <2>1. \A s \in Slots : \A j \in Keys : Refers(s, j)' => Refers(s, j)
    BY Zenon, <1>u, <1>a DEF Refers
  <2>2. \A s \in Slots : cell'[s] # Nil => (InUse(s) \/ Mapped(s))'
    BY SMTT(30), <1>u, <1>a DEF IInv, SlotInv, Refers, InUse, Mapped
  <2>3. QED
    BY Zenon, <1>u, <2>1, <2>2, <1>1, <1>b, SteadyReady, SlotsDropped DEF IInv
<1>6. LockInv'
  <2>1. \A s \in Slots : ~Alive(cell[s]) => ~Alive(cell[s])'
    BY <1>e, <1>u, <1>0 DEF IInv, Alive, SlotInv, Ready, TypeOK
  <2>2. Locked(r, req[r])'
    <3>1. CASE pc = "fillBase"
      <4>1. req[r].bslot \in Slots BY Zenon, <1>s, <3>1, RequestTypes DEF IInv, ShapeInv, Shape
      <4>2. QED BY Zenon, <1>s, <4>1, <3>1, <2>1 DEF Locked, Becomes
    <3>2. CASE pc = "fillRecipe"
      <4>1. req[r].rslot \in Slots BY Zenon, <1>s, <3>2, RequestTypes DEF IInv, ShapeInv, Shape
      <4>2. QED BY Zenon, <1>s, <4>1, <3>2, <2>1 DEF IInv, LockInv, Locked, Becomes
    <3>3. QED BY Zenon, <1>s, <3>1, <3>2
  <2>3. \A o \in Requests \ {r} : Locked(o, req[o])'
    BY Zenon, <1>l, <1>u, <1>a, <1>b, SteadyLocked DEF IInv, LockInv, ShapeInv
  <2>4. QED BY Zenon, <2>2, <2>3 DEF LockInv
<1>7. ProcessInv'
  <2>1. \A p \in Pids :
          /\ proc'[p].st = "free" => tpl'[p].owner = "none" /\ proc'[p].keeper # "instance"
          /\ proc'[p].keeper = "instance" => proc'[p].parent # Manager
          /\ tpl'[p].owner \in {"bringup", "serving"} => tpl'[p].alive
    <3> TAKE p \in Pids
    <3>1. CASE p = t BY Zenon, <1>h, <3>1, <1>n
    <3>2. CASE p # t
      <4>1. proc'[p] = proc[p] /\ tpl'[p] = tpl[p] BY Zenon, <1>h, <3>2, <1>0
      <4>2. QED BY Zenon, <4>1 DEF IInv, ProcessInv
    <3>3. QED BY Zenon, <3>1, <3>2
  <2>2. ASSUME NEW p \in Pids, NEW c \in Children(p)'
        PROVE  /\ tpl'[p].owner \notin {"none", "bringup"}
               /\ tpl'[p].owner = "serving" /\ Running(c)' => c \in tpl'[p].kids
    <3>1. p # t /\ c \in Children(p) BY Zenon, <1>d, <2>2
    <3>2. proc[c].st # "free" /\ c \in Pids /\ proc'[c].st = proc[c].st BY Zenon, <1>h, <3>1 DEF Children
    <3>3. QED BY Zenon, <3>1, <3>2, <1>0 DEF IInv, ProcessInv, Running
  <2>3. QED BY Zenon, <2>1, <2>2 DEF ProcessInv
<1>8. DropInv'
  <2>1. tpl'[t].why # "dropped" BY Zenon, <1>n
  <2>2. \A p \in Pids \ {t} : Handle(p)' => Handle(p)
    BY <1>s, <1>u, Names DEF Handle, Becomes
  <2>3. QED BY Zenon, <2>1, <2>2, <1>0 DEF IInv, DropInv
<1>9. MapInv'
  <2>1. NoRebuild' => NoRebuild BY Zenon, <1>a DEF NoRebuild
  <2>2. ~Published(t)'
    <3>1. ASSUME NEW o \in Requests
          PROVE  /\ req'[o].pc \in HasBase => req'[o].base # t
                 /\ req'[o].pc \in HasTemplate => req'[o].tmpl # t
      <4>1. CASE o = r BY Zenon, <1>s, <4>1, <1>c DEF Becomes, HasBase, HasTemplate
      <4>2. CASE o # r BY Zenon, <4>2, <1>a, <1>c
      <4>3. QED BY Zenon, <4>1, <4>2
    <3>2. QED BY Zenon, <3>1, <1>d, <1>n DEF Published
  <2>3. \A p \in Pids \ {t} : Published(p)' => Published(p) /\ tpl'[p] = tpl[p]
    BY <1>s, <1>0, <1>d DEF Published, Becomes, HasBase, HasTemplate
  <2>4. NoRebuild' /\ ~down' =>
          \A o \in Requests : /\ req'[o].bslot # Nil => slots'[Base] = req'[o].bslot
                              /\ req'[o].rslot # Nil => slots'[req'[o].key] = req'[o].rslot
    BY Zenon, <1>u, <2>1, <1>a DEF IInv, MapInv
  <2>5. QED
    BY Zenon, <1>u, <2>1, <2>2, <2>3, <2>4, <1>1, MapKept DEF IInv
<1>10. DownInv'
  BY Zenon, <1>s, <1>u DEF IInv, DownInv, Becomes, Final
<1>11. KeptUntilRebuild'
  <2>1. NoRebuild' => NoRebuild BY Zenon, <1>a DEF NoRebuild
  <2>2. \A p \in Pids : proc'[p].keeper = "instance" =>
          proc[p].st # "free" /\ proc[p].parent # Manager /\ proc[p].keeper = "instance"
    BY Zenon, <1>h DEF IInv, ProcessInv
  <2>3. QED BY Zenon, <1>b, <2>1, <2>2, SteadyKept DEF IInv
<1>12. QED
  BY Zenon, <1>1, <1>2, <1>3, <1>4, <1>5, <1>6, <1>7, <1>8, <1>9, <1>10, <1>11 DEF IInv

LEMMA BaseMissKeeps ==
  ASSUME IInv, NEW r \in Requests, BaseMiss(r)
  PROVE  IInv'
<1> USE Names
<1>0. req[r].pc = "lockBase" /\ ~Alive(cell[req[r].bslot]) /\ UNCHANGED down /\ lock[req[r].bslot] = Nil
  BY Zenon DEF BaseMiss
<1>1. ASSUME NEW p \in Pids, NewPid(p), lock' = [lock EXCEPT ![req[r].bslot] = r],
             req' = [req EXCEPT ![r] = [@ EXCEPT !.pc = "fillBase", !.base = p]],
             tpl' = [tpl EXCEPT ![p] = NewTemplate(Base)],
             proc' = [proc EXCEPT ![p] = [st |-> "up", parent |-> Manager,
                                          keeper |-> "owner", holds |-> Base]],
             UNCHANGED <<slots, cell, faults>>
      PROVE  IInv'
  <2> DEFINE q == [req[r] EXCEPT !.pc = "fillBase", !.base = p]
  <2>1. q \in Request
    BY Zenon, RequestTypes, SetField DEF IInv, PCs, Awaiting
  <2>2. req' \in [Requests -> Request] /\ req'[r] = q /\ \A o \in Requests \ {r} : req'[o] = req[o]
    BY Zenon, <1>1, <2>1, Replaced DEF IInv
  <2>3. req[r].bslot \in Slots /\ req[r].rslot = Nil /\ req[r].tmpl = Nil /\ req[r].clone = Nil /\ req[r].answer = "none"
    BY Zenon, <1>0, RequestTypes DEF IInv, ShapeInv, Shape, HasBase, HasTemplate
  <2>4. Becomes(r, "fillBase", req[r].bslot, Nil, p, Nil, Nil, "none", req[r].rebuilt, req[r].gone)
    BY SMTT(30), <2>2, <2>3, RequestTypes DEF IInv, Becomes, Request
  <2>5. proc[p].st = "free" /\ tpl[p].owner = "none" /\ \A o \in Requests \ {r} : req[o].clone # p
    BY <1>1 DEF IInv, NewPid, ProcessInv, CloneInv, Clone
  <2>6. /\ lock' \in [Slots -> Requests \cup {Nil}] /\ lock'[req[r].bslot] = r
        /\ \A o \in Requests \ {r}, s \in Slots : lock[s] = o => lock'[s] = o
    BY Zenon, <1>0, <1>1, <2>3 DEF IInv, TypeOK
  <2>7. /\ proc' \in [Pids -> Process] /\ \A x \in Pids \ {p} : proc'[x] = proc[x]
        /\ proc'[p].keeper = "owner" /\ proc'[p].st # "free" /\ proc'[p].parent = Manager
    BY Zenon, <1>1 DEF IInv, TypeOK, Process
  <2>8. Starts(r, p, Base) /\ Hosts(p) /\ Base \in Keys
    BY Zenon, <1>0, <2>4, <2>5, <2>6, <2>7 DEF Starts, Hosts
  <2>9. UNCHANGED <<slots, cell, down, faults>>
    BY Zenon, <1>0, <1>1
  <2>10. QED
    BY Zenon, <1>1, <2>2, <2>5, <2>6, <2>8, <2>9, StartKeeps DEF Starting
<1>2. ASSUME Fault \/ (NoPids /\ UNCHANGED faults), Ended(r, "failed"), UNCHANGED <<tpl, proc>>
      PROVE  IInv'
  <2>1. faults' \in 0..MaxFaults BY Zenon, <1>2, Faults DEF IInv, TypeOK
  <2>2. QED BY Zenon, <1>0, <1>2, <2>1, EndedKeeps DEF Final
<1>3. QED
  BY Zenon, <1>1, <1>2 DEF BaseMiss

LEMMA RecipeForkedKeeps ==
  ASSUME IInv, NEW r \in Requests, RecipeForked(r)
  PROVE  IInv'
<1> USE Names
<1> DEFINE c == req[r].clone
<1>0. req[r].pc = "forkBase" /\ UNCHANGED down /\ req[r].key # Base /\ req[r].tmpl = Nil
  BY Zenon DEF RecipeForked, IInv, ShapeInv, Shape, HasBase, HasTemplate
<1>1. ASSUME req[r].answer = "ok",
             req' = [req EXCEPT ![r] = [@ EXCEPT !.pc = "fillRecipe", !.tmpl = c,
                                                 !.clone = Nil, !.answer = "none"]],
             tpl' = [tpl EXCEPT ![c] = NewTemplate(req[r].key)],
             proc' = [proc EXCEPT ![c].keeper = "owner"], UNCHANGED <<slots, lock, cell, faults>>
      PROVE  IInv'
  <2> DEFINE q == [req[r] EXCEPT !.pc = "fillRecipe", !.tmpl = c, !.clone = Nil, !.answer = "none"]
  <2>1. q \in Request
    BY Zenon, RequestTypes, SetField DEF IInv, PCs, Awaiting, Answers
  <2>2. req' \in [Requests -> Request] /\ req'[r] = q /\ \A o \in Requests \ {r} : req'[o] = req[o]
    BY Zenon, <1>1, <2>1, Replaced DEF IInv
  <2>3. Becomes(r, "fillRecipe", req[r].bslot, req[r].rslot, req[r].base, c, Nil, "none", req[r].rebuilt, req[r].gone)
    BY <2>2, RequestTypes DEF IInv, Becomes, Request
  <2>4. c \in Pids
    BY Zenon, <1>0, <1>1, RequestTypes DEF IInv, ShapeInv, Shape
  <2>5. tpl[c].owner = "none" /\ proc[c].st # "free" /\ \A o \in Requests \ {r} : req[o].clone # c
    BY Zenon, <2>4 DEF IInv, CloneInv, Clone
  <2>6. Quiet /\ proc'[c].keeper = "owner" /\ \A p \in Pids \ {c} : proc'[p] = proc[p]
    BY Zenon, <1>1, <2>4, KeeperEffect DEF IInv
  <2>7. req[r].key \in Keys /\ lock \in [Slots -> Requests \cup {Nil}]
    BY Zenon, RequestTypes DEF IInv, TypeOK
  <2>8. Starts(r, c, req[r].key) /\ Hosts(c)
    BY Zenon, <1>0, <1>1, <2>3, <2>4, <2>5, <2>6 DEF Starts, Hosts, Quiet
  <2>9. UNCHANGED <<slots, cell, down, faults>> /\ UNCHANGED lock
    BY Zenon, <1>0, <1>1
  <2> HIDE DEF c
  <2>10. tpl[c].owner = "none" /\ tpl' = [tpl EXCEPT ![c] = NewTemplate(req[r].key)]
    BY Zenon, <1>1, <2>2, <2>4, <2>5
  <2>11. /\ req' \in [Requests -> Request] /\ lock' \in [Slots -> Requests \cup {Nil}]
         /\ \A o \in Requests \ {r}, s \in Slots : lock[s] = o => lock'[s] = o
         /\ \A o \in Requests \ {r} : req[o].clone # c
    BY Zenon, <2>2, <2>4, <2>5, <2>7, <2>9
  <2>12. Starting(r, c, req[r].key)
    BY Zenon, <2>8, <2>9, <2>10, <2>11 DEF Starting
  <2>13. QED
    BY Zenon, <2>4, <2>5, <2>7, <2>12, StartKeeps
<1>2. ASSUME req[r].answer = "ok", Fault, Ended(r, "failed"),
             proc' = [proc EXCEPT ![c].keeper = "nobody"], UNCHANGED tpl
      PROVE  IInv'
  <2>1. faults' \in 0..MaxFaults /\ c # Nil
    BY Zenon, <1>0, <1>2, Faults DEF IInv, ShapeInv, Shape
  <2>2. QED BY Zenon, <1>0, <1>2, <2>1, EndedKeeps DEF Final
<1>3. ASSUME req[r].answer = "err",
             req' = [req EXCEPT ![r] = [@ EXCEPT !.pc = "failed", !.bslot = Nil,
                     !.rslot = Nil, !.base = Nil, !.answer = "none", !.gone = TRUE]],
             lock' = Unlocked(r), UNCHANGED <<slots, tpl, proc, faults>>, Cells(cell)
      PROVE  IInv'
  <2> DEFINE q == [req[r] EXCEPT !.pc = "failed", !.bslot = Nil, !.rslot = Nil, !.base = Nil,
                                 !.answer = "none", !.gone = TRUE]
  <2>1. q \in Request
    BY Zenon, RequestTypes, SetField DEF IInv, PCs, Answers, Final
  <2>2. req' \in [Requests -> Request] /\ req'[r] = q /\ \A o \in Requests \ {r} : req'[o] = req[o]
    BY Zenon, <1>3, <2>1, Replaced DEF IInv
  <2>3. req[r].clone = Nil
    BY Zenon, <1>0, <1>3 DEF IInv, ShapeInv, Shape
  <2>4. Becomes(r, "failed", Nil, Nil, Nil, Nil, Nil, "none", req[r].rebuilt, TRUE)
    BY <1>0, <2>2, <2>3, RequestTypes DEF IInv, Becomes, Request
  <2>5. Quiet /\ faults' \in 0..MaxFaults /\ "failed" \in Final
    BY Zenon, <1>3 DEF IInv, TypeOK, Quiet, Final
  <2>6. QED
    BY Zenon, <1>0, <1>3, <2>2, <2>4, <2>5, EndKeeps DEF Final, Ending
<1>4. QED
  BY Zenon, <1>1, <1>2, <1>3 DEF RecipeForked

-----------------------------------------------------------------------------
(* The owner threads' steps.                                                 *)

\* Requests are at most told something.
Same ==
  \A r \in Requests :
    /\ req'[r].pc = req[r].pc /\ req'[r].key = req[r].key /\ req'[r].bslot = req[r].bslot
    /\ req'[r].rslot = req[r].rslot /\ req'[r].base = req[r].base /\ req'[r].tmpl = req[r].tmpl
    /\ req'[r].rebuilt = req[r].rebuilt /\ req'[r].gone = req[r].gone

\* What every step of template t's owner does, and does not do.
OwnerStep(t) ==
  /\ TypeOK' /\ UNCHANGED <<slots, cell, lock, down>> /\ Same
  /\ tpl[t].owner \notin {"none", "ended"} /\ tpl'[t].owner # "none"
  /\ tpl'[t].recipe = tpl[t].recipe /\ (tpl'[t].alive => tpl[t].alive)
  /\ \A p \in Pids \ {t} : tpl'[p] = tpl[p]
  /\ \A k \in Keys : Ready(t, k) => Ready(t, k)'
  /\ tpl'[t].why = "dropped" => tpl[t].why = "dropped" \/ ~Handle(t)
  /\ \A p \in Pids : /\ proc[p].st # "free" => proc'[p].st # "free" /\ proc'[p].parent = proc[p].parent
                     /\ proc[p].st # "free" /\ p # t => proc'[p].holds = proc[p].holds
                     /\ proc'[p].keeper = "instance" =>
                          proc[p].keeper = "instance" /\ (proc'[p].st = "up" => proc[p].st = "up")
  /\ \A p \in Pids \ {t} : Children(p)' \subseteq Children(p)
  /\ Published(t)' => Published(t)

\* Slots, locks and the map are as they were.
LEMMA OwnerFrame ==
  ASSUME IInv, NEW t \in Pids, OwnerStep(t)
  PROVE  SlotInv' /\ LockInv' /\ DropInv' /\ MapInv' /\ DownInv'
<1>1. TypeOK' /\ UNCHANGED <<slots, cell, lock, down>> /\ Same
  BY Zenon DEF OwnerStep
<1>2. \A p \in Pids : \A k \in Keys : Ready(p, k) => Ready(p, k)'
  <2>1. ASSUME NEW p \in Pids \ {t}, NEW k \in Keys, Ready(p, k) PROVE Ready(p, k)'
    BY Zenon, <2>1 DEF OwnerStep, Ready
  <2>2. QED BY Zenon, <2>1 DEF OwnerStep
<1>3. \A p \in Pids : tpl'[p].alive => tpl[p].alive
  BY Zenon DEF OwnerStep
<1>4. SlotInv'
  <2>1. \A s \in Slots : \A k \in Keys : Refers(s, k)' => Refers(s, k)
    BY Names, <1>1 DEF IInv, Refers, Same
  <2>2. \A s \in Slots : cell'[s] # Nil => (InUse(s) \/ Mapped(s))'
    BY Names, <1>1 DEF IInv, SlotInv, Refers, InUse, Mapped, Same
  <2>3. QED
    BY Zenon, <2>1, <2>2, <1>1, <1>2, SlotsDropped DEF IInv
<1>5. LockInv'
  <2>1. \A s \in Slots : ~Alive(cell[s]) => ~Alive(cell[s])'
    BY Zenon, <1>1, <1>3 DEF IInv, Alive, TypeOK
  <2>2. ASSUME NEW r \in Requests PROVE Locked(r, req[r])'
    <3>1. /\ req[r].pc = "fillBase" => req[r].bslot \in Slots
          /\ req[r].pc \in {"forkBase", "fillRecipe"} => req[r].rslot \in Slots
      BY Zenon, Names, RequestTypes DEF IInv, ShapeInv, Shape, HasBase
    <3>2. QED BY <3>1, <2>1, <1>1 DEF IInv, LockInv, Locked, Same
  <2>3. QED BY Zenon, <2>2 DEF LockInv
<1>6. DropInv'
  <2>1. \A p \in Pids : Handle(p)' => Handle(p)
    BY Zenon, <1>1 DEF Handle, Same
  <2>2. QED BY <2>1 DEF IInv, DropInv, OwnerStep
<1>7. MapInv'
  <2>1. NoRebuild' => NoRebuild BY Zenon, <1>1 DEF NoRebuild, Same
  <2>2. \A p \in Pids : Published(p)' => Published(p)
    <3>1. ASSUME NEW p \in Pids \ {t}, Published(p)' PROVE Published(p)
      BY <3>1, <1>1 DEF IInv, Published, OwnerStep, Same
    <3>2. QED BY Zenon, <3>1 DEF OwnerStep
  <2>3. NoRebuild' /\ ~down' =>
          \A o \in Requests : /\ req'[o].bslot # Nil => slots'[Base] = req'[o].bslot
                              /\ req'[o].rslot # Nil => slots'[req'[o].key] = req'[o].rslot
    BY <2>1, <1>1 DEF IInv, MapInv, Same
  <2>4. QED
    BY Zenon, <2>1, <2>2, <2>3, <1>1, <1>3, MapKept DEF IInv
<1>8. DownInv'
  <2>1. \A o \in Requests : req'[o].pc = req[o].pc BY Zenon, <1>1 DEF Same
  <2>2. \A p \in Pids : proc'[p].keeper = "instance" => proc[p].keeper = "instance" BY Zenon DEF OwnerStep
  <2>3. QED BY Zenon, <1>1, <2>1, <2>2 DEF IInv, DownInv
<1>9. QED
  BY Zenon, <1>4, <1>5, <1>6, <1>7, <1>8

\* A request that was told nothing has what it had.
LEMMA OwnerHandles ==
  ASSUME IInv, NEW t \in Pids, OwnerStep(t), NEW r \in Requests, req'[r] = req[r],
         AwaitsFill(r, t) => tpl'[t].owner = "bringup"
  PROVE  Handles(req[r])'
<1> DEFINE q == req[r]
<1>1. q.base \in Pids \cup {Nil} /\ q.tmpl \in Pids \cup {Nil} /\ q.key \in Keys /\ q.answer \in {"none", "ok", "err"}
  BY Zenon, RequestTypes DEF IInv
<1>2. /\ q.pc = "fillBase" \/ q.pc \in HasBase => q.base \in Pids
      /\ q.pc = "fillRecipe" \/ q.pc \in HasTemplate => q.tmpl \in Pids
  BY Zenon, Names, <1>1 DEF IInv, ShapeInv, Shape
<1>3. ASSUME NEW p \in Pids, NEW k \in Keys
      PROVE  /\ Ready(p, k) => Ready(p, k)'
             /\ tpl'[p].alive => tpl[p].alive
             /\ Filling(p, k, q.answer) /\ (p = t /\ q.answer = "none" => tpl'[t].owner = "bringup") =>
                  Filling(p, k, q.answer)'
  <2>1. CASE p = t
    BY Zenon, Names, <2>1 DEF OwnerStep, Filling
  <2>2. CASE p # t
    <3>1. Ready(p, k) => Ready(p, k)' BY Zenon, <2>2 DEF OwnerStep, Ready
    <3>2. QED BY Zenon, <2>2, <3>1 DEF OwnerStep, Filling
  <2>3. QED BY Zenon, <2>1, <2>2
<1>4. Handles(q)
  BY Zenon DEF IInv, RequestInv
<1>5. /\ q.pc = "fillBase" => Filling(q.base, Base, q.answer)'
      /\ q.pc = "fillRecipe" => Filling(q.tmpl, q.key, q.answer)'
  BY Zenon, Names, <1>1, <1>2, <1>3, <1>4 DEF Handles, AwaitsFill
<1>6. /\ q.pc \in HasBase => Ready(q.base, Base)'
      /\ q.pc \in HasTemplate => Ready(q.tmpl, q.key)'
  BY Zenon, Names, <1>1, <1>2, <1>3, <1>4 DEF Handles
<1>7. /\ q.pc = "forking" /\ q.answer = "err" => ~tpl'[q.tmpl].alive
      /\ q.pc = "forkBase" /\ q.answer = "err" => ~tpl'[q.base].alive
  BY Zenon, <1>1, <1>2, <1>3, <1>4 DEF Handles, HasBase, HasTemplate
<1>8. QED
  BY Zenon, <1>5, <1>6, <1>7 DEF Handles, Filling, Ready

\* Templates stay brought up.
LEMMA OwnerReady ==
  ASSUME IInv, NEW t \in Pids, OwnerStep(t), NEW p \in Pids, NEW k \in Keys, Ready(p, k)
  PROVE  Ready(p, k)'
<1>1. CASE p = t BY Zenon, <1>1 DEF OwnerStep
<1>2. CASE p # t BY Zenon, <1>2 DEF OwnerStep, Ready
<1>3. QED BY Zenon, <1>1, <1>2

\* A clone stays what it was.
LEMMA OwnerClones ==
  ASSUME IInv, NEW t \in Pids, OwnerStep(t), NEW r \in Requests, req'[r].clone = req[r].clone
  PROVE  Clone(req[r])'
<1>1. req[r].clone \in Pids \cup {Nil} /\ Clone(req[r])
  BY Zenon, RequestTypes DEF IInv, CloneInv
<1>2. QED
  <2>1. req[r].clone # Nil => req[r].clone # t BY Zenon, <1>1 DEF OwnerStep, Clone
  <2>2. req[r].clone # Nil => /\ tpl'[req[r].clone].owner = "none" /\ proc'[req[r].clone].st # "free"
                              /\ proc'[req[r].clone].parent = proc[req[r].clone].parent
                              /\ proc'[req[r].clone].holds = proc[req[r].clone].holds
    BY Zenon, <1>1, <2>1 DEF OwnerStep, Clone
  <2>3. req'[r].pc = req[r].pc /\ req'[r].key = req[r].key /\ req'[r].tmpl = req[r].tmpl
    BY Zenon DEF OwnerStep, Same
  <2>4. QED BY Zenon, <1>1, <2>2, <2>3, CloneKept

\* If no template is stopped for want of a handle, or none with an instance, instances are kept.
LEMMA OwnerKept ==
  ASSUME IInv, NEW t \in Pids, OwnerStep(t),
         tpl'[t].why = "dropped" /\ tpl[t].why # "dropped" /\ NoRebuild =>
           \A c \in Children(t) : ~(Running(c) /\ proc[c].keeper = "instance")
  PROVE  KeptUntilRebuild'
<1> SUFFICES ASSUME NoRebuild', NEW c \in Pids, Running(c)', proc'[c].keeper = "instance"
             PROVE  tpl'[proc'[c].parent].why # "dropped"
  BY Zenon DEF KeptUntilRebuild, InstancesKept, NoRebuild
<1>1. NoRebuild
  BY Zenon DEF OwnerStep, Same, NoRebuild
<1>2. proc[c].st = "up" /\ proc[c].keeper = "instance"
  BY Zenon DEF OwnerStep, Running
<1>3. proc[c].parent # Manager /\ proc[c].parent \in Pids /\ proc'[c].parent = proc[c].parent
  BY Zenon, <1>2 DEF IInv, ProcessInv, TypeOK, Process, OwnerStep
<1>4. c \in Children(proc[c].parent) /\ tpl[proc[c].parent].why # "dropped"
  BY Zenon, <1>1, <1>2, <1>3 DEF IInv, Children, KeptUntilRebuild, InstancesKept, Running, NoRebuild
<1>5. CASE proc[c].parent = t
  BY Zenon, <1>1, <1>2, <1>3, <1>4, <1>5 DEF Running
<1>6. CASE proc[c].parent # t
  <2>1. PICK p \in Pids : p = proc[c].parent BY Zenon, <1>3
  <2>2. tpl'[p].why = tpl[p].why BY Zenon, <1>6, <2>1 DEF OwnerStep
  <2>3. QED BY Zenon, <1>3, <1>4, <2>1, <2>2
<1>7. QED
  BY Zenon, <1>5, <1>6

\* The owner tells those who wait how it went.
LEMMA TellEffect ==
  ASSUME TypeOK, NEW W \in SUBSET Requests, NEW a \in {"ok", "err"},
         req' = [r \in Requests |-> IF r \in W THEN [req[r] EXCEPT !.answer = a] ELSE req[r]]
  PROVE  /\ req' \in [Requests -> Request] /\ Same
         /\ \A r \in Requests : req'[r].clone = req[r].clone
         /\ \A r \in W : req'[r].answer = a
         /\ \A r \in Requests \ W : req'[r] = req[r]
<1>1. ASSUME NEW r \in W
      PROVE  /\ req'[r] \in Request /\ req'[r].answer = a /\ req'[r].clone = req[r].clone
             /\ req'[r].pc = req[r].pc /\ req'[r].key = req[r].key /\ req'[r].bslot = req[r].bslot
             /\ req'[r].rslot = req[r].rslot /\ req'[r].base = req[r].base /\ req'[r].tmpl = req[r].tmpl
             /\ req'[r].rebuilt = req[r].rebuilt /\ req'[r].gone = req[r].gone
  <2>1. req'[r] = [req[r] EXCEPT !.answer = a] /\ req[r] \in Request /\ a \in Answers
    BY Zenon, RequestTypes DEF Answers
  <2>2. [req[r] EXCEPT !.answer = a] \in Request
    BY Zenon, <2>1, SetField
  <2>3. QED BY <2>1, <2>2 DEF Request
<1>2. \A r \in Requests \ W : req'[r] = req[r] /\ req'[r] \in Request
  BY Zenon, RequestTypes
<1>3. req' \in [Requests -> Request]
  BY Zenon, <1>1, <1>2
<1>4. QED
  BY Zenon, <1>1, <1>2, <1>3 DEF Same

\* A request that was told keeps its shape.
LEMMA TellShape ==
  ASSUME IInv, NEW W \in SUBSET Requests, NEW a \in {"ok", "err"}, Same,
         \A r \in Requests : req'[r].clone = req[r].clone,
         \A r \in W : /\ req'[r].answer = a /\ req[r].answer = "none"
                      /\ req[r].pc \in {"fillBase", "fillRecipe", "forkBase", "forking"}
                      /\ a = "ok" => req[r].pc \in {"fillBase", "fillRecipe"},
         \A r \in Requests \ W : req'[r] = req[r]
  PROVE  ShapeInv'
<1>1. ASSUME NEW r \in W PROVE Shape(req[r])'
  <2>1. Shape(req[r]) BY Zenon DEF IInv, ShapeInv
  <2>2. QED BY <2>1 DEF Shape, Same
<1>2. ASSUME NEW r \in Requests \ W PROVE Shape(req[r])'
  BY DEF IInv, ShapeInv, Shape
<1>3. QED
  BY Zenon, <1>1, <1>2 DEF ShapeInv

\* What a waiting request is told is so.
LEMMA TellHandles ==
  ASSUME IInv, NEW t \in Pids, OwnerStep(t), NEW r \in Requests,
         \/ AwaitsFill(r, t) /\ \/ req'[r].answer = "ok" /\ Ready(t, tpl[t].recipe)'
                                \/ req'[r].answer = "err" /\ tpl'[t].owner = "ended"
         \/ AwaitsFork(r, t) /\ \/ req'[r].answer = "ok"
                                \/ req'[r].answer = "err" /\ ~tpl'[t].alive
  PROVE  Handles(req[r])'
<1> DEFINE q == req[r]
<1>1. q.base \in Pids \cup {Nil} /\ q.tmpl \in Pids \cup {Nil} /\ q.key \in Keys
  BY Zenon, RequestTypes DEF IInv
<1>2. /\ q.pc = "fillBase" \/ q.pc \in HasBase => q.base \in Pids
      /\ q.pc = "fillRecipe" \/ q.pc \in HasTemplate => q.tmpl \in Pids
  BY Zenon, Names, <1>1 DEF IInv, ShapeInv, Shape
<1>3. Handles(q) /\ q.answer = "none"
  BY Zenon DEF IInv, RequestInv, AwaitsFill, AwaitsFork
<1>4. /\ req'[r].pc = q.pc /\ req'[r].key = q.key /\ req'[r].base = q.base /\ req'[r].tmpl = q.tmpl
      /\ tpl'[t].recipe = tpl[t].recipe
  BY Zenon DEF OwnerStep, Same
<1>5. /\ q.pc \in HasBase => Ready(req[r].base, Base)'
      /\ q.pc \in HasTemplate => Ready(req[r].tmpl, req[r].key)'
  <2>1. ASSUME NEW p \in Pids, NEW k \in Keys, Ready(p, k) PROVE Ready(p, k)' BY Zenon, <2>1, OwnerReady DEF IInv
  <2>2. q.pc \in HasBase => Ready(req[r].base, Base)'
    <3>1. SUFFICES ASSUME q.pc \in HasBase PROVE Ready(req[r].base, Base)' OBVIOUS
    <3>2. PICK p \in Pids : p = q.base /\ Ready(p, Base) BY Zenon, <1>2, <1>3, <3>1 DEF Handles
    <3>3. Ready(p, Base)' /\ req'[r].base = p BY Zenon, Names, <1>4, <2>1, <3>2
    <3>4. QED BY Zenon, <3>3 DEF Ready
  <2>3. q.pc \in HasTemplate => Ready(req[r].tmpl, req[r].key)'
    <3>1. SUFFICES ASSUME q.pc \in HasTemplate PROVE Ready(req[r].tmpl, req[r].key)' OBVIOUS
    <3>2. PICK p \in Pids, k \in Keys : p = q.tmpl /\ k = q.key /\ Ready(p, k)
      BY Zenon, <1>1, <1>2, <1>3, <3>1 DEF Handles
    <3>3. Ready(p, k)' /\ req'[r].tmpl = p /\ req'[r].key = k BY Zenon, <1>4, <2>1, <3>2
    <3>4. QED BY Zenon, <3>3 DEF Ready
  <2>4. QED BY Zenon, <2>2, <2>3
<1>6. CASE AwaitsFill(r, t)
  <2>1. ASSUME NEW k, Filling(t, k, "none"), req'[r].answer \in {"ok", "err"},
               req'[r].answer = "ok" => Ready(t, tpl[t].recipe)', req'[r].answer = "err" => tpl'[t].owner = "ended"
        PROVE  /\ tpl'[t].owner # "none"
               /\ req'[r].answer = "ok" => Ready(t, k)'
               /\ req'[r].answer = "err" => tpl'[t].owner = "ended"
    BY Zenon, <2>1 DEF Filling, OwnerStep
  <2>2. /\ req'[r].answer \in {"ok", "err"} /\ (req'[r].answer = "ok" => Ready(t, tpl[t].recipe)')
        /\ req'[r].answer = "err" => tpl'[t].owner = "ended"
    BY Zenon, <1>6 DEF AwaitsFill, AwaitsFork
  <2>3. CASE q.pc = "fillBase"
    <3>1. q.base = t BY Zenon, <1>6, <2>3 DEF AwaitsFill
    <3>2. Filling(t, Base, "none") BY Zenon, <1>3, <2>3, <3>1 DEF Handles
    <3>3. QED BY Zenon, <1>4, <2>1, <2>2, <2>3, <3>1, <3>2 DEF Handles, Filling, HasBase, HasTemplate
  <2>4. CASE q.pc = "fillRecipe"
    <3>1. q.tmpl = t BY Zenon, <1>6, <2>4 DEF AwaitsFill
    <3>2. Filling(t, q.key, "none") BY Zenon, <1>3, <2>4, <3>1 DEF Handles
    <3>3. /\ tpl'[t].owner # "none"
          /\ req'[r].answer = "ok" => Ready(t, req[r].key)'
          /\ req'[r].answer = "err" => tpl'[t].owner = "ended"
      BY Zenon, <1>4, <2>1, <2>2, <3>2 DEF Ready
    <3>4. Filling(req[r].tmpl, req[r].key, req[r].answer)'
      BY Zenon, <1>4, <2>2, <3>1, <3>3 DEF Filling, Ready
    <3>5. Ready(req[r].base, Base)' BY Zenon, <1>5, <2>4 DEF HasBase
    <3>6. QED BY Zenon, <1>4, <2>4, <3>4, <3>5 DEF Handles, HasBase, HasTemplate
  <2>5. QED BY Zenon, <1>6, <2>3, <2>4 DEF AwaitsFill
<1>7. CASE AwaitsFork(r, t)
  <2>1. req'[r].answer = "err" => ~tpl'[t].alive BY Zenon, <1>7 DEF AwaitsFill, AwaitsFork
  <2>2. CASE q.pc = "forkBase"
    <3>1. q.base = t BY Zenon, <1>7, <2>2 DEF AwaitsFork
    <3>2. QED BY Zenon, <1>4, <1>5, <2>1, <2>2, <3>1 DEF Handles, Ready, HasBase, HasTemplate
  <2>3. CASE q.pc = "forking"
    <3>1. q.tmpl = t BY Zenon, <1>7, <2>3 DEF AwaitsFork
    <3>2. QED BY Zenon, <1>4, <1>5, <2>1, <2>3, <3>1 DEF Handles, Ready, HasBase, HasTemplate
  <2>4. QED BY Zenon, <1>7, <2>2, <2>3 DEF AwaitsFork
<1>8. QED
  BY Zenon, <1>6, <1>7

\* A template being brought up is its creator's alone: nothing was forked off it, and if the
\* creator does not wait for it nobody has a handle.
LEMMA BringUpAlone ==
  ASSUME IInv, NEW t \in Pids, tpl[t].owner = "bringup"
  PROVE  /\ proc[t].st # "free" /\ Children(t) = {} /\ \A k \in Keys : ~Ready(t, k)
         /\ (\A r \in Requests : ~AwaitsFill(r, t)) => ~Handle(t)
<1> USE Names DEF IInv
<1>1. proc[t].st # "free" /\ Children(t) = {} /\ \A k \in Keys : ~Ready(t, k)
  BY Zenon DEF ProcessInv, Ready
<1>2. ASSUME Handle(t) PROVE \E r \in Requests : AwaitsFill(r, t)
  <2>1. \A s \in Slots : cell[s] # t
    BY <1>1 DEF SlotInv
  <2>2. PICK r \in Requests : t \in {req[r].base, req[r].tmpl}
    BY Zenon, <1>2, <2>1 DEF Handle
  <2>3. req[r].answer \in {"none", "ok", "err"} /\ req[r].key \in Keys
    BY Zenon, RequestTypes
  <2>4. CASE req[r].base = t
    <3>1. req[r].pc \in {"fillBase"} \cup HasBase BY Zenon, <2>4 DEF ShapeInv, Shape
    <3>2. QED BY Zenon, <1>1, <2>3, <2>4, <3>1 DEF RequestInv, Handles, Filling, AwaitsFill
  <2>5. CASE req[r].tmpl = t
    <3>1. req[r].pc \in {"fillRecipe"} \cup HasTemplate BY Zenon, <2>5 DEF ShapeInv, Shape
    <3>2. QED BY Zenon, <1>1, <2>3, <2>5, <3>1 DEF RequestInv, Handles, Filling, AwaitsFill
  <2>6. QED BY Zenon, <2>2, <2>4, <2>5
<1>3. QED
  BY Zenon, <1>1, <1>2

LEMMA BroughtUpKeeps ==
  ASSUME IInv, NEW t \in Pids, BroughtUp(t)
  PROVE  IInv'
<1> USE Names
<1> DEFINE W == {r \in Requests : AwaitsFill(r, t)}
           u == IF W = {} THEN [tpl[t] EXCEPT !.owner = "stopping", !.why = "dropped"]
                          ELSE [tpl[t] EXCEPT !.owner = "serving"]
<1>0. /\ tpl[t].owner = "bringup" /\ proc[t].st = "up" /\ UNCHANGED <<slots, cell, lock, down, faults>>
      /\ req' = [r \in Requests |-> IF r \in W THEN [req[r] EXCEPT !.answer = "ok"] ELSE req[r]]
      /\ tpl' = [tpl EXCEPT ![t] = u] /\ proc' = [proc EXCEPT ![t].holds = tpl[t].recipe]
  BY Zenon DEF BroughtUp
<1>1. /\ req' \in [Requests -> Request] /\ Same /\ \A r \in Requests : req'[r].clone = req[r].clone
      /\ \A r \in W : req'[r].answer = "ok"
      /\ \A r \in Requests \ W : req'[r] = req[r]
  <2> HIDE DEF W
  <2>1. W \in SUBSET Requests BY Zenon DEF W
  <2>2. QED BY Zenon, <2>1, <1>0, TellEffect DEF IInv
<1>2. tpl' \in [Pids -> Template] /\ tpl'[t] = u /\ \A p \in Pids \ {t} : tpl'[p] = tpl[p]
  <2>1. u \in Template BY Zenon, TemplateTypes, SetTemplate DEF IInv
  <2> HIDE DEF u
  <2>2. QED BY Zenon, <1>0, <2>1, TemplateReplaced DEF IInv
<1>3. /\ tpl'[t].owner = (IF W = {} THEN "stopping" ELSE "serving")
      /\ tpl'[t].why = (IF W = {} THEN "dropped" ELSE tpl[t].why)
      /\ tpl'[t].alive = tpl[t].alive /\ tpl'[t].queue = tpl[t].queue /\ tpl'[t].kids = tpl[t].kids
      /\ tpl'[t].recipe = tpl[t].recipe
  <2>1. tpl[t] \in Template BY Zenon, TemplateTypes DEF IInv
  <2> HIDE DEF W
  <2>2. u.owner = (IF W = {} THEN "stopping" ELSE "serving") BY Zenon, <2>1 DEF Template
  <2>3. u.why = (IF W = {} THEN "dropped" ELSE tpl[t].why) BY Zenon, <2>1 DEF Template
  <2>4. u.alive = tpl[t].alive /\ u.queue = tpl[t].queue BY Zenon, <2>1 DEF Template
  <2>5. u.kids = tpl[t].kids /\ u.recipe = tpl[t].recipe BY Zenon, <2>1 DEF Template
  <2> HIDE DEF u
  <2>6. QED BY Zenon, <1>2, <2>2, <2>3, <2>4, <2>5
<1>4. /\ proc' \in [Pids -> Process] /\ \A p \in Pids \ {t} : proc'[p] = proc[p]
      /\ proc'[t].holds = tpl[t].recipe /\ proc'[t].st = proc[t].st
      /\ proc'[t].parent = proc[t].parent /\ proc'[t].keeper = proc[t].keeper
  <2>1. tpl[t].recipe \in Keys BY Zenon, TemplateTypes DEF IInv
  <2>2. QED BY Zenon, <1>0, <2>1 DEF IInv, TypeOK, Process
<1>5. Children(t) = {} /\ \A p \in Pids : Children(p)' = Children(p)
  <2>1. \A p \in Pids : Children(p)' = Children(p) BY Zenon, <1>4 DEF Children
  <2>2. QED BY Zenon, <2>1, <1>0, BringUpAlone
<1>6. TypeOK'
  BY Zenon, <1>0, <1>1, <1>2, <1>4 DEF IInv, TypeOK
<1>7. OwnerStep(t)
  <2>1. \A k \in Keys : ~Ready(t, k) BY Zenon, <1>0, BringUpAlone
  <2>2. W = {} => ~Handle(t) BY Zenon, <1>0, BringUpAlone
  <2>3. Published(t)' => Published(t) BY <1>1, <1>3, <1>5 DEF Published, Same
  <2> HIDE DEF W, u
  <2>4. QED BY SMTT(30), <2>1, <2>2, <2>3, <1>0, <1>1, <1>2, <1>3, <1>4, <1>5, <1>6 DEF OwnerStep
<1>8. SlotInv' /\ LockInv' /\ DropInv' /\ MapInv' /\ DownInv'
  BY Zenon, <1>7, OwnerFrame
<1>9. ShapeInv'
  <2>1. \A r \in W : req[r].answer = "none" /\ req[r].pc \in {"fillBase", "fillRecipe"}
    BY Zenon DEF AwaitsFill
  <2>2. W \in SUBSET Requests BY Zenon
  <2> HIDE DEF W
  <2>3. QED BY Zenon, <1>1, <2>1, <2>2, TellShape
<1>10. RequestInv'
  <2>1. ASSUME NEW r \in W PROVE Handles(req[r])'
    <3>1. Ready(t, tpl[t].recipe)' BY Zenon, <1>0, <1>3, <1>4, <2>1 DEF Ready
    <3>2. QED BY Zenon, <1>1, <1>7, <3>1, TellHandles
  <2>2. ASSUME NEW r \in Requests \ W PROVE Handles(req[r])'
    BY Zenon, <1>1, <1>7, OwnerHandles
  <2>3. QED BY Zenon, <2>1, <2>2 DEF RequestInv
<1>11. CloneInv'
  BY Zenon, <1>1, <1>7, OwnerClones DEF IInv, CloneInv
<1>12. ProcessInv'
  <2>1. ASSUME NEW p \in Pids
        PROVE  /\ proc'[p].st = "free" => tpl'[p].owner = "none" /\ proc'[p].keeper # "instance"
               /\ proc'[p].keeper = "instance" => proc'[p].parent # Manager
               /\ tpl'[p].owner \in {"bringup", "serving"} => tpl'[p].alive
    <3>1. CASE p = t BY SMTT(30), <3>1, <1>0, <1>3, <1>4 DEF IInv, ProcessInv
    <3>2. CASE p # t BY <3>2, <1>2, <1>4 DEF IInv, ProcessInv
    <3>3. QED BY Zenon, <3>1, <3>2
  <2>2. ASSUME NEW p \in Pids, NEW c \in Children(p)'
        PROVE  /\ tpl'[p].owner \notin {"none", "bringup"}
               /\ tpl'[p].owner = "serving" /\ Running(c)' => c \in tpl'[p].kids
    <3>1. p # t /\ c \in Children(p) /\ c \in Pids BY Zenon, <1>5, <2>2 DEF Children
    <3>2. proc'[c].st = proc[c].st BY Zenon, <3>1, <1>4
    <3>3. QED BY Zenon, <3>1, <3>2, <1>2 DEF IInv, ProcessInv, Running
  <2>3. QED BY Zenon, <2>1, <2>2 DEF ProcessInv
<1>13. KeptUntilRebuild'
  BY Zenon, <1>5, <1>7, OwnerKept
<1>14. QED
  BY Zenon, <1>6, <1>8, <1>9, <1>10, <1>11, <1>12, <1>13 DEF IInv

\* Who waits for a template to be brought up waits for one that is.
LEMMA AwaitsBringUp ==
  ASSUME IInv, NEW t \in Pids, NEW r \in Requests, AwaitsFill(r, t)
  PROVE  tpl[t].owner = "bringup"
  BY Zenon DEF IInv, RequestInv, Handles, Filling, AwaitsFill

\* Who waits for a fork waits for a template that was brought up.
LEMMA AwaitsReady ==
  ASSUME IInv, NEW t \in Pids, NEW r \in Requests, AwaitsFork(r, t)
  PROVE  \E k \in Keys : Ready(t, k)
<1>1. req[r].key \in Keys /\ Base \in Keys
  BY Zenon, RequestTypes, Names DEF IInv
<1>2. QED
  BY Zenon, <1>1 DEF IInv, RequestInv, Handles, AwaitsFork, HasBase, HasTemplate

\* The owner's step keeps what relates processes to their templates.
LEMMA OwnerProcess ==
  ASSUME IInv, NEW t \in Pids, OwnerStep(t),
         tpl'[t].owner \in {"bringup", "serving"} => tpl'[t].alive,
         \A c \in Pids : proc[c].st # "free" /\ proc'[c].st = "up" => proc[c].st = "up",
         \A c \in Children(t)' : /\ tpl'[t].owner # "bringup"
                                 /\ tpl'[t].owner = "serving" /\ Running(c)' => c \in tpl'[t].kids
  PROVE  ProcessInv'
<1> USE DEF IInv
<1>1. ASSUME NEW p \in Pids
      PROVE  /\ proc'[p].st = "free" => tpl'[p].owner = "none" /\ proc'[p].keeper # "instance"
             /\ proc'[p].keeper = "instance" => proc'[p].parent # Manager
             /\ tpl'[p].owner \in {"bringup", "serving"} => tpl'[p].alive
  BY DEF ProcessInv, OwnerStep
<1>2. ASSUME NEW p \in Pids, NEW c \in Children(p)'
      PROVE  /\ tpl'[p].owner \notin {"none", "bringup"}
             /\ tpl'[p].owner = "serving" /\ Running(c)' => c \in tpl'[p].kids
  <2>1. CASE p = t BY Zenon, <1>2, <2>1 DEF OwnerStep
  <2>2. CASE p # t
    <3>1. c \in Children(p) BY Zenon, <1>2, <2>2 DEF OwnerStep
    <3>c. c \in Pids /\ proc[c].st # "free" BY Zenon, <3>1 DEF Children
    <3>2. Running(c)' => Running(c) BY Zenon, <3>c DEF Running
    <3>3. tpl'[p] = tpl[p] BY Zenon, <2>2 DEF OwnerStep
    <3>4. QED BY Zenon, <3>1, <3>2, <3>3 DEF ProcessInv
  <2>3. QED BY Zenon, <2>1, <2>2
<1>3. QED
  BY Zenon, <1>1, <1>2 DEF ProcessInv

\* An instance's template has a handle until a slot has been forgotten.
LEMMA InstanceHandle ==
  ASSUME IInv, NoRebuild, NEW t \in Pids, tpl[t].owner = "serving",
         NEW c \in Children(t), proc[c].keeper = "instance"
  PROVE  Handle(t)
<1>1. tpl[t].alive /\ Published(t) /\ c \in Pids
  BY Zenon DEF IInv, ProcessInv, Published, Children
<1>2. ~down
  BY Zenon, <1>1 DEF IInv, DownInv
<1>3. PICK k \in Keys : slots[k] # Nil /\ cell[slots[k]] = t
  BY Zenon, <1>1, <1>2 DEF IInv, MapInv
<1>4. slots[k] \in Slots
  BY Zenon, <1>3 DEF IInv, TypeOK
<1>5. QED
  BY Zenon, <1>3, <1>4 DEF Handle

\* What template t is when its owner's loop, or its thread, ends.
Quits(t, u) ==
  /\ tpl[t].owner \in {"bringup", "serving", "stopping"}
  /\ u \in Template /\ u.owner \in {"stopping", "ended"} /\ u.recipe = tpl[t].recipe
  /\ tpl[t].owner = "bringup" => u.owner = "ended"
  /\ ~u.alive \/ (u.alive = tpl[t].alive /\ tpl[t].owner # "serving")
  /\ u.why = "dropped" => tpl[t].why = "dropped" \/ (tpl[t].owner = "serving" /\ ~Handle(t))
  /\ u.queue # <<>> => tpl[t].queue # <<>>

\* Who is told that it did.
Left(t, W) ==
  /\ W \in SUBSET Requests
  /\ IF tpl[t].owner = "bringup" THEN W = {r \in Requests : AwaitsFill(r, t)}
                                 ELSE \A r \in W : AwaitsFork(r, t)
  /\ req' = [r \in Requests |-> IF r \in W THEN [req[r] EXCEPT !.answer = "err"] ELSE req[r]]

\* Its process may be dead by then.
Killed(t) ==
  /\ proc' \in [Pids -> Process] /\ \A p \in Pids \ {t} : proc'[p] = proc[p]
  /\ proc'[t].holds = proc[t].holds /\ proc'[t].parent = proc[t].parent /\ proc'[t].keeper = proc[t].keeper
  /\ proc'[t].st \in {proc[t].st, "dead"}

LEMMA QuitKeeps ==
  ASSUME IInv, NEW t \in Pids, NEW u, NEW W, Quits(t, u), Left(t, W), Killed(t),
         tpl' = [tpl EXCEPT ![t] = u], faults' \in 0..MaxFaults, UNCHANGED <<slots, cell, lock, down>>
  PROVE  IInv'
<1> USE Names
<1>0. W \in SUBSET Requests
  BY Zenon DEF Left
<1>1. /\ req' \in [Requests -> Request] /\ Same /\ \A r \in Requests : req'[r].clone = req[r].clone
      /\ \A r \in W : req'[r].answer = "err"
      /\ \A r \in Requests \ W : req'[r] = req[r]
  BY Zenon, TellEffect DEF IInv, Left
<1>2. tpl' \in [Pids -> Template] /\ tpl'[t] = u /\ \A p \in Pids \ {t} : tpl'[p] = tpl[p]
  BY Zenon, TemplateReplaced DEF IInv, Quits
<1>3. proc[t].st # "free" /\ proc'[t].st # "free"
  BY Zenon DEF IInv, ProcessInv, Quits, Killed
<1>4. \A p \in Pids : Children(p)' = Children(p)
  BY Zenon, <1>3 DEF Children, Killed
<1>5. TypeOK'
  BY Zenon, <1>1, <1>2 DEF IInv, TypeOK, Killed
<1>6. OwnerStep(t)
  <2>1. \A k \in Keys : Ready(t, k) => Ready(t, k)'
    BY Zenon, <1>2, <1>3 DEF Ready, Quits, Killed
  <2>2. Published(t)' => Published(t)
    BY <1>1, <1>2, <1>4 DEF Published, Same, Quits
  <2>3. \A p \in Pids : /\ proc[p].st # "free" => proc'[p].st # "free" /\ proc'[p].parent = proc[p].parent
                        /\ proc[p].st # "free" /\ p # t => proc'[p].holds = proc[p].holds
                        /\ proc'[p].keeper = "instance" =>
                             proc[p].keeper = "instance" /\ (proc'[p].st = "up" => proc[p].st = "up")
    BY Zenon, <1>3 DEF Killed
  <2>4. /\ tpl[t].owner \notin {"none", "ended"} /\ tpl'[t].owner # "none"
        /\ tpl'[t].recipe = tpl[t].recipe /\ (tpl'[t].alive => tpl[t].alive)
        /\ tpl'[t].why = "dropped" => tpl[t].why = "dropped" \/ ~Handle(t)
    BY Zenon, <1>2 DEF Quits
  <2>5. QED
    BY Zenon, <2>1, <2>2, <2>3, <2>4, <1>1, <1>2, <1>4, <1>5 DEF OwnerStep
<1>7. SlotInv' /\ LockInv' /\ DropInv' /\ MapInv' /\ DownInv'
  BY Zenon, <1>6, OwnerFrame
<1>8. ShapeInv'
  <2>1. \A r \in W : /\ req[r].answer = "none"
                     /\ req[r].pc \in {"fillBase", "fillRecipe", "forkBase", "forking"}
    BY Zenon DEF Left, AwaitsFill, AwaitsFork
  <2>2. QED BY Zenon, <1>0, <1>1, <2>1, TellShape
<1>9. RequestInv'
  <2>1. ASSUME NEW r \in W PROVE Handles(req[r])'
    <3>1. CASE tpl[t].owner = "bringup"
      <4>1. AwaitsFill(r, t) /\ tpl'[t].owner = "ended" /\ req'[r].answer = "err" /\ r \in Requests
        BY Zenon, <3>1, <1>1, <1>2 DEF Left, Quits
      <4>2. QED BY Zenon, <1>6, <4>1, TellHandles
    <3>2. CASE tpl[t].owner # "bringup"
      <4>1. AwaitsFork(r, t) /\ r \in Requests /\ req'[r].answer = "err" BY Zenon, <3>2, <1>0, <1>1 DEF Left
      <4>2. \E k \in Keys : Ready(t, k) BY Zenon, <4>1, AwaitsReady
      <4>3. ~tpl'[t].alive BY Zenon, <4>2, <1>2 DEF Quits, Ready
      <4>4. QED BY Zenon, <1>6, <4>1, <4>3, TellHandles
    <3>3. QED BY Zenon, <3>1, <3>2
  <2>2. ASSUME NEW r \in Requests \ W PROVE Handles(req[r])'
    <3>1. ~AwaitsFill(r, t) BY Zenon, AwaitsBringUp DEF Left
    <3>2. QED BY Zenon, <1>1, <1>6, <3>1, OwnerHandles
  <2>3. QED BY Zenon, <2>1, <2>2 DEF RequestInv
<1>10. CloneInv'
  BY Zenon, <1>1, <1>6, OwnerClones DEF IInv, CloneInv
<1>11. ProcessInv'
  <2>1. tpl'[t].owner \notin {"bringup", "serving"}
    BY Zenon, <1>2 DEF Quits
  <2>2. \A c \in Pids : proc[c].st # "free" /\ proc'[c].st = "up" => proc[c].st = "up"
    BY Zenon DEF Killed
  <2>3. QED BY Zenon, <1>6, <2>1, <2>2, OwnerProcess
<1>12. KeptUntilRebuild'
  <2>1. tpl'[t].why = "dropped" /\ tpl[t].why # "dropped" => tpl[t].owner = "serving" /\ ~Handle(t)
    BY Zenon, <1>2 DEF Quits
  <2>2. QED BY Zenon, <1>6, <2>1, InstanceHandle, OwnerKept
<1>13. QED
  BY Zenon, <1>5, <1>7, <1>8, <1>9, <1>10, <1>11, <1>12 DEF IInv

\* Nobody is told.
LEMMA NobodyLeft ==
  ASSUME TypeOK, NEW t \in Pids, tpl[t].owner # "bringup", UNCHANGED req
  PROVE  Left(t, {})
  BY Zenon DEF TypeOK, Left

\* The host is killed, or was dead already.
LEMMA KilledEffect ==
  ASSUME TypeOK, NEW t \in Pids, proc' = [proc EXCEPT ![t].st = IF @ = "up" THEN "dead" ELSE @] \/ UNCHANGED proc
  PROVE  Killed(t)
<1>1. CASE UNCHANGED proc BY Zenon, <1>1 DEF TypeOK, Killed
<1>2. CASE proc' = [proc EXCEPT ![t].st = IF proc[t].st = "up" THEN "dead" ELSE proc[t].st]
  <2> DEFINE x == IF proc[t].st = "up" THEN "dead" ELSE proc[t].st
  <2>1. x \in {proc[t].st, "dead"} /\ x \in {"free", "up", "dead"} BY Zenon DEF TypeOK, Process
  <2> HIDE DEF x
  <2>2. proc' = [proc EXCEPT ![t].st = x] BY Zenon, <1>2 DEF x
  <2>3. QED BY <2>1, <2>2 DEF TypeOK, Process, Killed
<1>3. QED BY Zenon, <1>1, <1>2

LEMMA BringUpFailedKeeps ==
  ASSUME IInv, NEW t \in Pids, BringUpFailed(t)
  PROVE  IInv'
<1> DEFINE W == {r \in Requests : AwaitsFill(r, t)}
           u == [tpl[t] EXCEPT !.owner = "ended"]
<1>1. Left(t, W)
  BY Zenon DEF BringUpFailed, Left
<1>2. Quits(t, u)
  <2>1. tpl[t] \in Template /\ u \in Template BY Zenon, TemplateTypes, SetTemplate DEF IInv
  <2>2. QED BY Zenon, <2>1 DEF Template, Quits, BringUpFailed
<1>3. Killed(t)
  BY Zenon, KilledEffect DEF IInv, BringUpFailed
<1>4. tpl' = [tpl EXCEPT ![t] = u] /\ UNCHANGED <<slots, cell, lock, down>>
  BY Zenon DEF BringUpFailed
<1>5. faults' \in 0..MaxFaults
  BY Zenon, Faults DEF IInv, TypeOK, BringUpFailed
<1>6. QED
  BY Zenon, <1>1, <1>2, <1>3, <1>4, <1>5, QuitKeeps

LEMMA StoppedKeeps ==
  ASSUME IInv, NEW t \in Pids, Stopped(t)
  PROVE  IInv'
<1> DEFINE W == {r \in Requests : AwaitsFork(r, t)}
           u == [tpl[t] EXCEPT !.owner = "ended", !.queue = <<>>, !.kids = {}, !.why = ""]
<1>1. Left(t, W)
  BY Zenon DEF Stopped, Left
<1>2. Quits(t, u)
  <2>1. <<>> \in Seq(Requests) /\ {} \in SUBSET Pids OBVIOUS
  <2>2. tpl[t] \in Template /\ u \in Template BY Zenon, <2>1, TemplateTypes, SetTemplate DEF IInv
  <2>3. QED BY Zenon, <2>2 DEF Template, Quits, Stopped
<1>3. Killed(t)
  BY Zenon, KilledEffect DEF IInv, Stopped
<1>4. tpl' = [tpl EXCEPT ![t] = u] /\ UNCHANGED <<slots, cell, lock, down>> /\ faults' \in 0..MaxFaults
  BY Zenon DEF IInv, TypeOK, Stopped
<1>5. QED
  BY Zenon, <1>1, <1>2, <1>3, <1>4, QuitKeeps

\* The owner clears alive and leaves its loop.
LEMMA StoppingQuits ==
  ASSUME IInv, NEW t \in Pids, tpl[t].owner = "serving", NEW why \in {"expired", "failed", "dropped"},
         why = "dropped" => ~Handle(t)
  PROVE  Quits(t, Stopping(t, why)) /\ Stopping(t, why).queue = tpl[t].queue
<1>1. tpl[t] \in Template /\ Stopping(t, why) \in Template
  BY Zenon, TemplateTypes, SetTemplate DEF IInv, Stopping
<1>2. QED
  BY Zenon, <1>1 DEF Template, Quits, Stopping

LEMMA DisconnectedKeeps ==
  ASSUME IInv, NEW t \in Pids, Disconnected(t)
  PROVE  IInv'
<1>1. Quits(t, Stopping(t, "dropped")) /\ Left(t, {}) /\ Killed(t)
  BY Zenon, StoppingQuits, NobodyLeft, KilledEffect DEF IInv, Disconnected
<1>2. /\ tpl' = [tpl EXCEPT ![t] = Stopping(t, "dropped")] /\ UNCHANGED <<slots, cell, lock, down>>
      /\ faults' \in 0..MaxFaults
  BY Zenon DEF IInv, TypeOK, Disconnected
<1>3. QED
  BY Zenon, <1>1, <1>2, QuitKeeps

LEMMA ServeForkFailedKeeps ==
  ASSUME IInv, NEW t \in Pids, ServeForkFailed(t)
  PROVE  IInv'
<1> DEFINE h == Head(tpl[t].queue)
           W == IF AwaitsFork(h, t) THEN {h} ELSE {}
           s == Stopping(t, "failed")
           u == [s EXCEPT !.queue = Tail(tpl[t].queue)]
<1>0. tpl[t].owner = "serving" /\ tpl[t].queue # <<>>
  BY Zenon DEF ServeForkFailed
<1>1. h \in Requests /\ Tail(tpl[t].queue) \in Seq(Requests)
  BY <1>0, TemplateTypes DEF IInv
<1>2. Left(t, W)
  <2>1. req' = IF AwaitsFork(h, t) THEN [req EXCEPT ![h].answer = "err"] ELSE req
    BY Zenon DEF ServeForkFailed
  <2>2. req \in [Requests -> Request] BY Zenon DEF IInv, TypeOK
  <2> HIDE DEF h
  <2>3. req' = [r \in Requests |-> IF r \in W THEN [req[r] EXCEPT !.answer = "err"] ELSE req[r]]
    BY Zenon, <1>1, <2>1, <2>2
  <2>4. QED BY Zenon, <1>0, <1>1, <2>3 DEF Left
<1>3. Quits(t, s) /\ s.queue = tpl[t].queue
  BY Zenon, <1>0, StoppingQuits
<1>4. Quits(t, u)
  <2> HIDE DEF s
  <2>1. s \in Template BY Zenon, <1>3 DEF Quits
  <2>2. u \in Template BY Zenon, <1>1, <2>1, SetTemplate
  <2> DEFINE n == Tail(tpl[t].queue)
  <2> HIDE DEF n
  <2>3. [s EXCEPT !.queue = n].queue = n /\ [s EXCEPT !.queue = n].owner = s.owner
        /\ [s EXCEPT !.queue = n].recipe = s.recipe /\ [s EXCEPT !.queue = n].alive = s.alive
        /\ [s EXCEPT !.queue = n].why = s.why
    BY Zenon, <2>1 DEF Template
  <2>4. QED BY Zenon, <1>0, <1>3, <2>2, <2>3 DEF Quits, n
<1>5. Killed(t)
  BY Zenon, KilledEffect DEF IInv, ServeForkFailed
<1>6. tpl' = [tpl EXCEPT ![t] = u] /\ UNCHANGED <<slots, cell, lock, down>>
  <2>1. tpl' = [tpl EXCEPT ![t] = [s EXCEPT !.queue = Tail(s.queue)]] BY Zenon DEF ServeForkFailed
  <2> HIDE DEF s
  <2>2. QED BY Zenon, <2>1, <1>3 DEF ServeForkFailed
<1>7. faults' \in 0..MaxFaults
  BY Zenon, Faults DEF IInv, TypeOK, ServeForkFailed
<1>8. QED
  BY Zenon, <1>2, <1>4, <1>5, <1>6, <1>7, QuitKeeps

LEMMA TimeoutKeeps ==
  ASSUME IInv, NEW t \in Pids, Timeout(t)
  PROVE  IInv'
<1> USE Names
<1>0. /\ tpl[t].owner = "serving" /\ UNCHANGED <<slots, cell, lock, req, proc, down, faults>>
      /\ faults' \in 0..MaxFaults
  BY Zenon DEF IInv, TypeOK, Timeout
<1>1. PICK exited \in Reports(t) :
        \/ \E why \in {"failed", "expired"} : tpl' = [tpl EXCEPT ![t] = Stopping(t, why)]
        \/ tpl' = [tpl EXCEPT ![t] = [tpl[t] EXCEPT !.kids = tpl[t].kids \ exited]]
  BY Zenon DEF Timeout
<1>2. CASE \E why \in {"failed", "expired"} : tpl' = [tpl EXCEPT ![t] = Stopping(t, why)]
  <2>1. PICK why \in {"failed", "expired"} : tpl' = [tpl EXCEPT ![t] = Stopping(t, why)]
    BY Zenon, <1>2
  <2>2. Quits(t, Stopping(t, why)) /\ Left(t, {}) /\ Killed(t)
    BY Zenon, <1>0, StoppingQuits, NobodyLeft, KilledEffect DEF IInv
  <2>3. QED
    BY Zenon, <1>0, <2>1, <2>2, QuitKeeps
<1>3. CASE tpl' = [tpl EXCEPT ![t] = [tpl[t] EXCEPT !.kids = tpl[t].kids \ exited]]
  <2> DEFINE n == tpl[t].kids \ exited
             u == [tpl[t] EXCEPT !.kids = n]
  <2>1. /\ tpl' \in [Pids -> Template] /\ tpl'[t] = u /\ \A p \in Pids \ {t} : tpl'[p] = tpl[p]
        /\ tpl[t] \in Template
    <3>1. tpl[t] \in Template /\ n \in SUBSET Pids BY Zenon, TemplateTypes DEF IInv
    <3>2. u \in Template BY Zenon, <3>1, SetTemplate
    <3>3. QED BY Zenon, <1>3, <3>1, <3>2, TemplateReplaced DEF IInv
  <2>2. /\ tpl'[t].kids = n /\ tpl'[t].owner = tpl[t].owner /\ tpl'[t].alive = tpl[t].alive
        /\ tpl'[t].queue = tpl[t].queue /\ tpl'[t].recipe = tpl[t].recipe /\ tpl'[t].why = tpl[t].why
    <3> HIDE DEF n
    <3>1. QED BY Zenon, <2>1 DEF Template
  <2>3. TypeOK'
    BY Zenon, <1>0, <2>1 DEF IInv, TypeOK
  <2>4. Same /\ (\A p \in Pids : Children(p)' = Children(p)) /\ (Published(t)' => Published(t))
    BY Zenon, <1>0, <2>2 DEF Same, Children, Published
  <2>5. \A k \in Keys : Ready(t, k) => Ready(t, k)'
    BY Zenon, <1>0, <2>2 DEF Ready
  <2>6. OwnerStep(t)
    BY Zenon, <1>0, <2>1, <2>2, <2>3, <2>4, <2>5 DEF OwnerStep
  <2>7. SlotInv' /\ LockInv' /\ DropInv' /\ MapInv' /\ DownInv'
    BY Zenon, <2>6, OwnerFrame
  <2>8. ShapeInv'
    BY <1>0 DEF IInv, ShapeInv, Shape
  <2>9. RequestInv'
    <3>1. \A r \in Requests : ~AwaitsFill(r, t) BY Zenon, <1>0, AwaitsBringUp
    <3>2. QED BY Zenon, <1>0, <2>6, <3>1, OwnerHandles DEF RequestInv
  <2>10. CloneInv'
    BY Zenon, <1>0, <2>6, OwnerClones DEF IInv, CloneInv
  <2>11. ProcessInv'
    <3>1. \A c \in Children(t)' : Running(c)' => c \in tpl'[t].kids
      BY Zenon, <1>0, <2>2, <2>4 DEF IInv, ProcessInv, Running, Reports
    <3>2. tpl'[t].alive BY Zenon, <1>0, <2>2 DEF IInv, ProcessInv
    <3>3. QED BY Zenon, <1>0, <2>2, <2>6, <3>1, <3>2, OwnerProcess
  <2>12. KeptUntilRebuild'
    BY Zenon, <2>2, <2>6, OwnerKept
  <2>13. QED
    BY Zenon, <2>3, <2>7, <2>8, <2>9, <2>10, <2>11, <2>12 DEF IInv
<1>4. QED
  BY Zenon, <1>1, <1>2, <1>3

LEMMA ServeForkKeeps ==
  ASSUME IInv, NEW t \in Pids, ServeFork(t)
  PROVE  IInv'
<1> USE Names
<1>h. PICK h : h = Head(tpl[t].queue)
  BY Zenon
<1> DEFINE waits == AwaitsFork(h, t)
<1>0. /\ tpl[t].owner = "serving" /\ tpl[t].queue # <<>> /\ proc[t].st = "up"
      /\ UNCHANGED <<slots, cell, lock, down, faults>>
  BY Zenon DEF ServeFork
<1>1. PICK c \in Pids, exited \in Reports(t) :
        /\ NewPid(c)
        /\ tpl' = [tpl EXCEPT ![t] = [tpl[t] EXCEPT !.queue = Tail(tpl[t].queue),
                                                    !.kids = (tpl[t].kids \cup {c}) \ exited]]
        /\ req' = IF waits THEN [req EXCEPT ![h] = [req[h] EXCEPT !.answer = "ok", !.clone = c]] ELSE req
        /\ proc' = [proc EXCEPT ![c] = [st |-> "up", parent |-> t, holds |-> proc[t].holds,
                                        keeper |-> IF waits THEN "request" ELSE "nobody"]]
  BY Zenon, <1>h DEF ServeFork, ForkCounted
<1>2. h \in Requests /\ Tail(tpl[t].queue) \in Seq(Requests)
  BY <1>h, <1>0, TemplateTypes DEF IInv
<1>3. proc[c].st = "free" /\ tpl[c].owner = "none" /\ c # t /\ c \notin exited /\ exited \subseteq Pids
  BY Zenon, <1>0, <1>1, TemplateTypes DEF IInv, NewPid, ProcessInv, Reports
<1>4. /\ req' \in [Requests -> Request] /\ Same /\ \A r \in Requests \ {h} : req'[r] = req[r]
      /\ waits => req'[h].answer = "ok" /\ req'[h].clone = c
      /\ ~waits => req'[h] = req[h]
  <2> HIDE DEF waits
  <2>1. CASE waits
    <3> DEFINE q == [req[h] EXCEPT !.answer = "ok", !.clone = c]
    <3>1. q \in Request BY Zenon, <1>2, RequestTypes, SetField DEF IInv, Answers
    <3>2. req' \in [Requests -> Request] /\ req'[h] = q /\ \A r \in Requests \ {h} : req'[r] = req[r]
      BY Zenon, <1>1, <1>2, <2>1, <3>1, Replaced DEF IInv
    <3>3. /\ q.answer = "ok" /\ q.clone = c
          /\ q.pc = req[h].pc /\ q.key = req[h].key /\ q.bslot = req[h].bslot /\ q.rslot = req[h].rslot
          /\ q.base = req[h].base /\ q.tmpl = req[h].tmpl /\ q.rebuilt = req[h].rebuilt /\ q.gone = req[h].gone
      BY <1>2, RequestTypes DEF IInv, Request
    <3>4. QED BY Zenon, <2>1, <3>2, <3>3 DEF Same
  <2>2. CASE ~waits BY Zenon, <1>1, <1>2, <2>2 DEF IInv, TypeOK, Same
  <2>3. QED BY Zenon, <2>1, <2>2
<1>5. /\ tpl' \in [Pids -> Template] /\ \A p \in Pids \ {t} : tpl'[p] = tpl[p]
      /\ tpl'[t].kids = (tpl[t].kids \cup {c}) \ exited /\ tpl'[t].owner = tpl[t].owner
      /\ tpl'[t].alive = tpl[t].alive /\ tpl'[t].recipe = tpl[t].recipe /\ tpl'[t].why = tpl[t].why
  <2> DEFINE n == Tail(tpl[t].queue)
             d == (tpl[t].kids \cup {c}) \ exited
             u == [tpl[t] EXCEPT !.queue = n, !.kids = d]
  <2>1. tpl[t] \in Template /\ n \in Seq(Requests) /\ d \in SUBSET Pids BY Zenon, <1>2, TemplateTypes DEF IInv
  <2>2. tpl' = [tpl EXCEPT ![t] = u] BY Zenon, <1>1
  <2> HIDE DEF n, d
  <2>3. u \in Template BY Zenon, <2>1, SetTemplate
  <2>4. tpl' \in [Pids -> Template] /\ tpl'[t] = u /\ \A p \in Pids \ {t} : tpl'[p] = tpl[p]
    BY Zenon, <2>2, <2>3, TemplateReplaced DEF IInv
  <2>5. /\ tpl'[t].kids = d /\ tpl'[t].owner = tpl[t].owner
        /\ tpl'[t].alive = tpl[t].alive /\ tpl'[t].recipe = tpl[t].recipe /\ tpl'[t].why = tpl[t].why
    BY Zenon, <2>1, <2>4 DEF Template
  <2>6. QED BY Zenon, <2>4, <2>5 DEF d
<1>6. /\ proc' \in [Pids -> Process] /\ \A p \in Pids \ {c} : proc'[p] = proc[p]
      /\ proc'[c].st = "up" /\ proc'[c].parent = t /\ proc'[c].holds = proc[t].holds /\ proc'[c].keeper # "instance"
  <2> HIDE DEF waits
  <2>1. QED BY <1>1 DEF IInv, TypeOK, Process
<1>7. Children(t)' = Children(t) \cup {c} /\ \A p \in Pids \ {t} : Children(p)' = Children(p)
  BY <1>3, <1>6 DEF Children
<1>8. TypeOK'
  BY Zenon, <1>0, <1>4, <1>5, <1>6 DEF IInv, TypeOK
<1>9. OwnerStep(t)
  <2>1. Published(t) BY Zenon, <1>0 DEF Published
  <2>2. \A k \in Keys : Ready(t, k) => Ready(t, k)' BY Zenon, <1>3, <1>5, <1>6 DEF Ready
  <2> HIDE DEF waits
  <2>3. \A p \in Pids : /\ proc[p].st # "free" => proc'[p] = proc[p]
                        /\ proc'[p].keeper = "instance" => proc'[p] = proc[p]
    BY Zenon, <1>3, <1>6
  <2>4. QED BY Zenon, <2>1, <2>2, <2>3, <1>0, <1>4, <1>5, <1>7, <1>8 DEF OwnerStep
<1>10. SlotInv' /\ LockInv' /\ DropInv' /\ MapInv' /\ DownInv'
  BY Zenon, <1>9, OwnerFrame
<1>11. ShapeInv'
  <2>1. Shape(req[h])'
    <3>1. CASE waits
      <4>1. req[h].pc \in {"forkBase", "forking"} BY Zenon, <3>1 DEF AwaitsFork
      <4>2. Shape(req[h]) BY Zenon, <1>2 DEF IInv, ShapeInv
      <4>3. c # Nil BY Zenon
      <4> HIDE DEF waits
      <4>4. QED BY Zenon, <1>2, <1>4, <3>1, <4>1, <4>2, <4>3 DEF Shape, Same
    <3>2. CASE ~waits
      <4>1. req'[h] = req[h] /\ Shape(req[h]) BY Zenon, <1>2, <1>4, <3>2 DEF IInv, ShapeInv
      <4>2. QED BY Zenon, <1>2, <4>1, ShapeKept
    <3>3. QED BY Zenon, <3>1, <3>2
  <2>2. ASSUME NEW o \in Requests, o # h PROVE Shape(req[o])'
    <3>1. req'[o] = req[o] /\ Shape(req[o]) BY Zenon, <1>4, <2>2 DEF IInv, ShapeInv
    <3>2. QED BY Zenon, <3>1, ShapeKept
  <2>3. QED BY Zenon, <2>1, <2>2 DEF ShapeInv
<1>12. RequestInv'
  <2>1. ASSUME NEW r \in Requests, req'[r] = req[r] PROVE Handles(req[r])'
    <3>1. ~AwaitsFill(r, t) BY Zenon, <1>0, AwaitsBringUp
    <3>2. QED BY Zenon, <2>1, <1>9, <3>1, OwnerHandles
  <2>2. CASE waits
    <3>1. Handles(req[h])' BY Zenon, <1>2, <1>4, <1>9, <2>2, TellHandles
    <3>2. QED BY Zenon, <2>1, <3>1, <1>4 DEF RequestInv
  <2>3. CASE ~waits BY Zenon, <2>1, <1>4, <2>3 DEF RequestInv
  <2>4. QED BY Zenon, <2>2, <2>3
<1>13. CloneInv'
  <2>1. \A r \in Requests : req[r].clone # c BY Zenon, <1>3 DEF IInv, CloneInv, Clone
  <2>2. ASSUME waits PROVE Clone(req[h])'
    <3>1. req[h].pc = "forking" => req[h].tmpl = t /\ proc[t].holds = req[h].key
      BY Zenon, <1>2, <2>2 DEF IInv, RequestInv, Handles, Ready, AwaitsFork, HasTemplate
    <3>2. req[h].pc \in {"forkBase", "forking"} BY Zenon, <2>2 DEF AwaitsFork
    <3>3. req'[h].pc = req[h].pc /\ req'[h].key = req[h].key /\ req'[h].tmpl = req[h].tmpl /\ req'[h].clone = c
      BY Zenon, <1>2, <1>4, <2>2 DEF Same
    <3> HIDE DEF waits
    <3>4. QED BY SMTT(30), <1>3, <1>5, <1>6, <3>1, <3>2, <3>3 DEF Clone
  <2>3. ASSUME NEW r \in Requests, req'[r] = req[r] PROVE Clone(req[r])'
    BY Zenon, <2>3, <1>9, OwnerClones
  <2> HIDE DEF waits
  <2>4. \A r \in Requests : Clone(req[r])' BY Zenon, <2>2, <2>3, <1>4
  <2>5. \A r, o \in Requests : req'[r].clone # Nil /\ req'[r].clone = req'[o].clone => r = o
    BY <1>4, <2>1 DEF IInv, CloneInv
  <2>6. QED BY Zenon, <2>4, <2>5 DEF CloneInv
<1>14. ProcessInv'
  <2>1. ASSUME NEW x \in Children(t)', Running(x)' PROVE x \in tpl'[t].kids
    <3>1. CASE x = c BY Zenon, <3>1, <1>3, <1>5
    <3>2. CASE x # c
      <4>1. x \in Children(t) /\ x \in Pids BY Zenon, <2>1, <3>2, <1>7 DEF Children
      <4>2. Running(x) BY Zenon, <2>1, <3>2, <4>1, <1>6 DEF Running
      <4>3. x \in tpl[t].kids /\ x \notin exited BY Zenon, <1>0, <4>1, <4>2 DEF IInv, ProcessInv, Running, Reports
      <4>4. QED BY Zenon, <4>3, <1>5
    <3>3. QED BY Zenon, <3>1, <3>2
  <2>2. tpl'[t].alive BY Zenon, <1>0, <1>5 DEF IInv, ProcessInv
  <2>3. \A x \in Pids : proc[x].st # "free" /\ proc'[x].st = "up" => proc[x].st = "up"
    BY Zenon, <1>3, <1>6
  <2>4. QED BY Zenon, <1>0, <1>5, <1>9, <2>1, <2>2, <2>3, OwnerProcess
<1>15. KeptUntilRebuild'
  BY Zenon, <1>5, <1>9, OwnerKept
<1>16. QED
  BY Zenon, <1>8, <1>10, <1>11, <1>12, <1>13, <1>14, <1>15 DEF IInv

-----------------------------------------------------------------------------
(* The processes' steps, and the server's sweeps.                            *)

\* Processes die or lose their keeper, and nothing else changes.
ProcessesChange ==
  /\ UNCHANGED <<slots, cell, lock, req, tpl, down>>
  /\ faults' \in 0..MaxFaults
  /\ proc' \in [Pids -> Process]
  /\ \A p \in Pids : /\ proc'[p].parent = proc[p].parent /\ proc'[p].holds = proc[p].holds
                     /\ proc'[p].st = proc[p].st \/ (proc[p].st # "free" /\ proc'[p].st = "dead")
                     /\ proc'[p].keeper \in {proc[p].keeper, "nobody"}

\* Processes die or are let go.
LEMMA ProcessesKeep ==
  ASSUME IInv, ProcessesChange
  PROVE  IInv'
<1>h1. UNCHANGED <<slots, cell, lock, req, tpl, down>>
  BY Zenon DEF ProcessesChange
<1>h2. faults' \in 0..MaxFaults
  BY Zenon DEF ProcessesChange
<1>h3. proc' \in [Pids -> Process]
  BY Zenon DEF ProcessesChange
<1>h4. \A p \in Pids : /\ proc'[p].parent = proc[p].parent /\ proc'[p].holds = proc[p].holds
                       /\ proc'[p].st = proc[p].st \/ (proc[p].st # "free" /\ proc'[p].st = "dead")
                       /\ proc'[p].keeper \in {proc[p].keeper, "nobody"}
  BY Zenon DEF ProcessesChange
<1>1. TypeOK'
  BY Zenon, <1>h1, <1>h2, <1>h3 DEF IInv, TypeOK
<1>2. \A t \in Pids : \A k \in Keys : Ready(t, k) => Ready(t, k)'
  BY Zenon, <1>h1, <1>h4 DEF Ready
<1>3. ShapeInv'
  BY Zenon, <1>h1, ShapeKept DEF IInv, ShapeInv
<1>4. RequestInv'
  <2>1. ASSUME NEW r \in Requests PROVE Handles(req[r])'
    <3>1. /\ req[r].pc = "fillBase" \/ req[r].pc \in HasBase => req[r].base \in Pids
          /\ req[r].pc = "fillRecipe" \/ req[r].pc \in HasTemplate => req[r].tmpl \in Pids
          /\ req[r].key \in Keys
      BY Zenon, RequestTypes DEF IInv, ShapeInv, Shape
    <3>2. Handles(req[r]) BY Zenon DEF IInv, RequestInv
    <3>3. QED BY Zenon, <1>h1, <1>h4, <3>1, <3>2 DEF Handles, Filling, Ready
  <2>2. QED BY Zenon, <2>1 DEF RequestInv
<1>5. CloneInv'
  <2>1. ASSUME NEW r \in Requests PROVE Clone(req[r])'
    <3>1. req[r].clone \in Pids \cup {Nil} /\ Clone(req[r]) BY Zenon, RequestTypes DEF IInv, CloneInv
    <3>2. QED BY Zenon, <1>h1, <1>h4, <3>1 DEF Clone
  <2>2. QED BY Zenon, <1>h1, <2>1 DEF IInv, CloneInv
<1>6. SlotInv'
  <2>1. \A s \in Slots : \A k \in Keys : Refers(s, k)' => Refers(s, k)
    BY Zenon, <1>h1 DEF IInv, Refers
  <2>2. \A s \in Slots : cell'[s] # Nil => (InUse(s) \/ Mapped(s))'
    BY Zenon, <1>h1 DEF IInv, SlotInv, Refers, InUse, Mapped
  <2>3. QED
    BY Zenon, <1>h1, <2>1, <2>2, <1>1, <1>2, SlotsDropped DEF IInv
<1>7. LockInv'
  BY Zenon, <1>h1 DEF IInv, LockInv, Locked, Alive
<1>8. \A t \in Pids : Children(t)' = Children(t)
  BY Zenon, <1>h4 DEF Children
<1>9. ProcessInv'
  <2>1. \A c \in Pids : Running(c)' => Running(c) BY Zenon, <1>h4 DEF Running
  <2>2. \A t \in Pids : \A c \in Children(t) : c \in Pids BY Zenon DEF Children
  <2>3. \A p \in Pids :
          /\ proc'[p].st = "free" => tpl'[p].owner = "none" /\ proc'[p].keeper # "instance"
          /\ proc'[p].keeper = "instance" => proc'[p].parent # Manager
          /\ tpl'[p].owner \in {"bringup", "serving"} => tpl'[p].alive
    BY <1>h1, <1>h4 DEF IInv, ProcessInv
  <2>4. QED BY Zenon, <1>h1, <1>8, <2>1, <2>2, <2>3 DEF IInv, ProcessInv
<1>10. DropInv'
  BY Zenon, <1>h1 DEF IInv, DropInv, Handle
<1>11. MapInv'
  BY Zenon, <1>h1, <1>8 DEF IInv, MapInv, NoRebuild, Published
<1>12. DownInv'
  BY Zenon, <1>h1, <1>h4 DEF IInv, DownInv
<1>13. KeptUntilRebuild'
  BY <1>h1, <1>h4 DEF IInv, KeptUntilRebuild, InstancesKept, Running
<1>14. QED
  BY Zenon, <1>1, <1>3, <1>4, <1>5, <1>6, <1>7, <1>9, <1>10, <1>11, <1>12, <1>13 DEF IInv

LEMMA DiesKeeps ==
  ASSUME IInv, NEW p \in Pids, Running(p), Dies(p), faults' \in 0..MaxFaults
  PROVE  IInv'
<1>1. proc' \in [Pids -> Process]
  BY DEF IInv, TypeOK, Process, Dies
<1>2. \A x \in Pids : /\ proc'[x].parent = proc[x].parent /\ proc'[x].holds = proc[x].holds
                      /\ proc'[x].st = proc[x].st \/ (proc[x].st # "free" /\ proc'[x].st = "dead")
                      /\ proc'[x].keeper = proc[x].keeper
  BY Zenon DEF IInv, TypeOK, Process, Dies, Running
<1>3. QED
  BY Zenon, <1>1, <1>2, ProcessesKeep DEF Dies, ProcessesChange

LEMMA ReleaseKeeps ==
  ASSUME IInv, NEW p \in Pids, Release(p)
  PROVE  IInv'
<1>1. Quiet /\ proc'[p].keeper = "nobody" /\ \A x \in Pids \ {p} : proc'[x] = proc[x]
  BY Zenon, KeeperEffect DEF IInv, Release
<1>2. faults' \in 0..MaxFaults
  BY Zenon DEF IInv, TypeOK, Release
<1>3. QED
  BY Zenon, <1>1, <1>2, ProcessesKeep DEF Quiet, Release, ProcessesChange

\* Slots nobody needs are taken out of the map.
Sweeping ==
  /\ UNCHANGED <<lock, req, tpl, faults>>
  /\ Cells(cell)
  /\ Quiet
  /\ down' \in BOOLEAN
  /\ down => down'
  /\ down' => DownInv'
  /\ slots' \in [Keys -> Slots \cup {Nil}]
  /\ \A k \in Keys : slots'[k] \in {Nil, slots[k]}
  /\ \A p \in Pids : proc'[p].keeper = "instance" => proc[p].keeper = "instance"
  /\ \A k \in Keys : ~down' /\ slots[k] # Nil /\ (InUse(slots[k]) \/ Alive(cell[slots[k]])) =>
       slots'[k] = slots[k]

\* Slots go off the map, and are emptied if nobody has them.
LEMMA SweepKeeps ==
  ASSUME IInv, Sweeping
  PROVE  IInv'
<1>h1. UNCHANGED <<lock, req, tpl, faults>>
  BY Zenon DEF Sweeping
<1>h2. Cells(cell)
  BY Zenon DEF Sweeping
<1>h3. Quiet
  BY Zenon DEF Sweeping
<1>h4. /\ down' \in BOOLEAN
       /\ down => down'
       /\ down' => DownInv'
  BY Zenon DEF Sweeping
<1>h5. /\ slots' \in [Keys -> Slots \cup {Nil}]
       /\ \A k \in Keys : slots'[k] \in {Nil, slots[k]}
  BY Zenon DEF Sweeping
<1>h6. \A p \in Pids : proc'[p].keeper = "instance" => proc[p].keeper = "instance"
  BY Zenon DEF Sweeping
<1>h7. \A k \in Keys : ~down' /\ slots[k] # Nil /\ (InUse(slots[k]) \/ Alive(cell[slots[k]])) =>
         slots'[k] = slots[k]
  BY Zenon DEF Sweeping
<1>0. /\ cell' \in [Slots -> Pids \cup {Nil}]
      /\ \A s \in Slots : (InUse(s) \/ Mapped(s))' => cell'[s] = cell[s]
      /\ \A s \in Slots : cell'[s] # Nil => cell'[s] = cell[s] /\ (InUse(s) \/ Mapped(s))'
  <2>1. cell \in [Slots -> Pids \cup {Nil}] BY Zenon DEF IInv, TypeOK
  <2>2. QED BY Zenon, <1>h2, <2>1, CellsEffect DEF IInv
<1>a. Steady
  BY Zenon, <1>h1, <1>h3 DEF Steady, Quiet
<1>1. TypeOK'
  BY Zenon, <1>h1, <1>h3, <1>h4, <1>h5, <1>0 DEF IInv, TypeOK, Quiet
<1>2. ShapeInv'
  BY Zenon, <1>h1 DEF IInv, ShapeInv, Shape
<1>3. RequestInv'
  BY Zenon, <1>h1, <1>a, SteadyHandles DEF IInv, RequestInv, ShapeInv
<1>4. CloneInv'
  <2>1. ASSUME NEW r \in Requests PROVE Clone(req[r])'
    <3>1. req[r].clone \in Pids \cup {Nil} /\ Clone(req[r]) BY Zenon, RequestTypes DEF IInv, CloneInv
    <3>2. QED BY Zenon, <1>h1, <1>h3, <3>1 DEF Clone, Quiet
  <2>2. QED BY Zenon, <1>h1, <2>1 DEF IInv, CloneInv
<1>5. SlotInv'
  <2>1. \A s \in Slots : \A k \in Keys : Refers(s, k)' => Refers(s, k)
    BY Zenon, <1>h1, <1>h5, Names DEF Refers
  <2>2. QED
    BY Zenon, <2>1, <1>0, <1>1, <1>a, SteadyReady, SlotsDropped DEF IInv
<1>6. LockInv'
  <2>1. ASSUME NEW o \in Requests PROVE Locked(o, req[o])'
    <3>1. \A s \in Slots : s \in {req[o].bslot, req[o].rslot} => cell'[s] = cell[s]
      BY Zenon, <1>h1, <1>0 DEF InUse
    <3>2. QED BY Zenon, <1>h1, <3>1, <1>a, SteadyLocked DEF IInv, LockInv, ShapeInv
  <2>2. QED BY Zenon, <2>1 DEF LockInv
<1>7. ProcessInv'
  BY SMTT(30), <1>h1, <1>h3, <1>h6 DEF IInv, ProcessInv, Children, Running, Quiet
<1>8. DropInv'
  BY Zenon, <1>h1, <1>h3, Names, <1>0 DEF IInv, DropInv, Handle
<1>9. MapInv'
  <2>1. CASE down' BY Zenon, <2>1 DEF MapInv
  <2>2. CASE ~down'
    <3>1. \A k \in Keys : slots[k] # Nil /\ Alive(cell[slots[k]]) =>
            slots'[k] = slots[k] /\ cell'[slots[k]] = cell[slots[k]]
      BY SMTT(30), <1>h5, <1>h7, <1>0, <2>2 DEF IInv, Mapped, TypeOK
    <3>2. \A t \in Pids : Published(t)' => Published(t)
      BY <1>h1, <1>h3 DEF Published, Children, Quiet
    <3>3. (NoRebuild' => NoRebuild) /\ ~down BY Zenon, <1>h1, <1>h4, <2>2 DEF NoRebuild
    <3>4. NoRebuild' /\ ~down' =>
            \A o \in Requests : /\ req'[o].bslot # Nil => slots'[Base] = req'[o].bslot
                                /\ req'[o].rslot # Nil => slots'[req'[o].key] = req'[o].rslot
      <4>1. \A o \in Requests : req[o].key \in Keys BY Zenon, RequestTypes DEF IInv
      <4>2. QED BY Zenon, <1>h1, <1>h7, Names, <3>3, <4>1, <2>2 DEF IInv, MapInv, InUse
    <3>5. QED
      BY Zenon, <1>h1, <3>1, <3>2, <3>3, <3>4, <1>1, MapKept DEF IInv
  <2>3. QED BY Zenon, <1>h4, <2>1, <2>2 DEF TypeOK
<1>10. DownInv'
  BY Zenon, <1>h4 DEF DownInv
<1>11. KeptUntilRebuild'
  <2>1. NoRebuild' => NoRebuild BY Zenon, <1>h1 DEF NoRebuild
  <2>2. \A p \in Pids : proc'[p].keeper = "instance" =>
          proc[p].st # "free" /\ proc[p].parent # Manager /\ proc[p].keeper = "instance"
    BY Zenon, <1>h6 DEF IInv, ProcessInv
  <2>3. QED BY Zenon, <1>a, <2>1, <2>2, SteadyKept DEF IInv
<1>12. QED
  BY Zenon, <1>1, <1>2, <1>3, <1>4, <1>5, <1>6, <1>7, <1>8, <1>9, <1>10, <1>11 DEF IInv

LEMMA PruneKeeps ==
  ASSUME IInv, Prune
  PROVE  IInv'
<1>1. slots' \in [Keys -> Slots \cup {Nil}] /\ \A k \in Keys : slots'[k] \in {Nil, slots[k]}
  BY Zenon DEF IInv, TypeOK, Prune
<1>2. \A k \in Keys : slots[k] # Nil /\ (InUse(slots[k]) \/ Alive(cell[slots[k]])) => slots'[k] = slots[k]
  BY Zenon DEF Prune, Prunable
<1>3. Quiet /\ down' \in BOOLEAN /\ ~down' /\ Cells(cell) /\ UNCHANGED <<lock, req, tpl, proc, faults>> /\ UNCHANGED down
  BY Zenon DEF IInv, TypeOK, Prune, Quiet
<1>4. QED
  BY Zenon, <1>1, <1>2, <1>3, SweepKeeps DEF Sweeping

LEMMA ShutdownKeeps ==
  ASSUME IInv, Shutdown
  PROVE  IInv'
<1> USE Names
<1>1. slots' \in [Keys -> Slots \cup {Nil}] /\ \A k \in Keys : slots'[k] \in {Nil, slots[k]}
  BY Zenon DEF Shutdown
<1>2. ASSUME NEW p \in Pids
      PROVE  /\ proc'[p] \in Process /\ proc'[p].keeper # "instance" /\ proc'[p].st = proc[p].st
             /\ proc'[p].parent = proc[p].parent /\ proc'[p].holds = proc[p].holds
  <2>1. proc'[p] = IF proc[p].keeper = "instance" THEN [proc[p] EXCEPT !.keeper = "nobody"] ELSE proc[p]
    BY Zenon DEF Shutdown
  <2>2. proc[p] \in Process BY Zenon DEF IInv, TypeOK
  <2>3. QED BY Zenon, <2>1, <2>2 DEF Process
<1>3. Quiet
  BY Zenon, <1>2 DEF Quiet, Shutdown
<1>4. down' = TRUE /\ Cells(cell) /\ UNCHANGED <<lock, req, tpl, faults>>
  BY Zenon DEF Shutdown
<1>5. DownInv'
  BY Zenon, <1>2, <1>4 DEF DownInv, Shutdown
<1>6. QED
  BY Zenon, <1>1, <1>2, <1>3, <1>4, <1>5, SweepKeeps DEF Sweeping

-----------------------------------------------------------------------------
(* The theorems.                                                             *)

LEMMA InitEstablishes == Init => IInv
<1> SUFFICES ASSUME Init PROVE IInv
  BY Zenon
<1>0. <<>> \in Seq(Requests) /\ 0 \in 0..MaxFaults
  BY NameAssumption
<1> USE Names DEF Init
<1>1. PICK k \in [Requests -> Keys] : req = [r \in Requests |-> NewRequest(k[r])]
  BY Zenon
<1>2. \A r \in Requests : /\ req[r] = NewRequest(k[r]) /\ req[r].pc = "new" /\ req[r].bslot = Nil
                          /\ req[r].rslot = Nil /\ req[r].base = Nil /\ req[r].tmpl = Nil
                          /\ req[r].clone = Nil /\ req[r].answer = "none" /\ ~req[r].gone
  BY Zenon, <1>1 DEF NewRequest
<1>3. TypeOK
  <2>1. req \in [Requests -> Request]
    <3>1. ASSUME NEW j \in Keys PROVE NewRequest(j) \in Request BY Zenon DEF NewRequest, Request, Answers
    <3>2. QED BY Zenon, <1>1, <3>1
  <2>2. tpl \in [Pids -> Template]
    BY Zenon, <1>0 DEF Template
  <2>3. proc \in [Pids -> Process] BY Zenon DEF Process
  <2>4. faults \in 0..MaxFaults BY Zenon, <1>0
  <2>5. QED BY Zenon, <2>1, <2>2, <2>3, <2>4 DEF TypeOK
<1>4. ShapeInv
  BY Zenon, <1>2 DEF ShapeInv, Shape, HasBase, HasTemplate
<1>5. RequestInv
  BY Zenon, <1>2 DEF RequestInv, Handles, HasBase, HasTemplate
<1>6. CloneInv
  BY Zenon, <1>2 DEF CloneInv, Clone
<1>7. SlotInv
  BY ZenonT(30), <1>2 DEF SlotInv, Refers
<1>8. LockInv
  BY Zenon, <1>2 DEF LockInv, Locked
<1>9. ProcessInv
  BY Zenon DEF ProcessInv, Children
<1>10. DropInv
  BY Zenon DEF DropInv
<1>11. MapInv
  <2>1. \A t \in Pids : ~tpl[t].alive BY Zenon
  <2>2. QED BY Zenon, <1>2, <2>1 DEF MapInv
<1>12. DownInv
  BY Zenon DEF DownInv
<1>13. KeptUntilRebuild
  BY Zenon DEF KeptUntilRebuild, InstancesKept, Running
<1>14. QED
  BY Zenon, <1>3, <1>4, <1>5, <1>6, <1>7, <1>8, <1>9, <1>10, <1>11, <1>12, <1>13 DEF IInv

\* Every step keeps the invariant.
LEMMA NextKeeps ==
  ASSUME IInv, [Next]_vars
  PROVE  IInv'
<1>1. ASSUME NEW r \in Requests, Handler(r) PROVE IInv'
  BY Zenon, <1>1, ObtainBaseKeeps, BaseHitKeeps, BaseMissKeeps, BaseFilledKeeps, ObtainRecipeKeeps, RecipeHitKeeps,
     RecipeMissKeeps, RecipeForkedKeeps, RecipeFilledKeeps, ForkInstanceKeeps, ForkedKeeps, ForkFailedKeeps,
     ForgetKeeps DEF Handler
<1>2. ASSUME NEW r \in Requests, Cancel(r) PROVE IInv'
  BY Zenon, <1>2, CancelKeeps
<1>3. ASSUME NEW t \in Pids, Owner(t) PROVE IInv'
  BY Zenon, <1>3, BroughtUpKeeps, BringUpFailedKeeps, ServeForkKeeps, ServeForkFailedKeeps, TimeoutKeeps,
     DisconnectedKeeps, StoppedKeeps DEF Owner
<1>4. ASSUME NEW p \in Pids, Kernel(p) \/ Crash(p) PROVE IInv'
  <2>1. Running(p) /\ Dies(p) /\ faults' \in 0..MaxFaults
    BY Zenon, <1>4, Faults DEF IInv, TypeOK, Kernel, Exit, DieWithParent, Crash
  <2>2. QED BY Zenon, <2>1, DiesKeeps
<1>5. ASSUME NEW p \in Pids, Release(p) PROVE IInv'
  BY Zenon, <1>5, ReleaseKeeps
<1>6. ASSUME Prune \/ Shutdown PROVE IInv'
  BY Zenon, <1>6, PruneKeeps, ShutdownKeeps
<1>7. ASSUME UNCHANGED vars PROVE IInv'
  <2>1. proc \in [Pids -> Process] /\ faults \in 0..MaxFaults BY Zenon DEF IInv, TypeOK
  <2>2. UNCHANGED <<slots, cell, lock, req, tpl, down>> /\ UNCHANGED <<proc, faults>> BY Zenon, <1>7 DEF vars
  <2>3. QED BY Zenon, <2>1, <2>2, ProcessesKeep DEF ProcessesChange
<1>8. QED
  BY Zenon, <1>1, <1>2, <1>3, <1>4, <1>5, <1>6, <1>7 DEF Next

LEMMA InductiveInvariant == Spec => []IInv
<1>1. Init => IInv
  BY Zenon, InitEstablishes
<1>2. IInv /\ [Next]_vars => IInv'
  BY Zenon, NextKeeps
<1>3. QED
  BY <1>1, <1>2, PTL DEF Spec

\* Whatever slot a request found, shared, filled or lost to a forget, what it is given was
\* built for the key it named: Templates::obtain and create_instance, for any number of requests.
THEOREM RecipesNotMixed == Spec => []RightRecipe
<1>1. IInv => RightRecipe
  <2> SUFFICES ASSUME IInv PROVE RightRecipe
    BY Zenon
  <2>1. ASSUME NEW k \in Keys, slots[k] # Nil, cell[slots[k]] # Nil PROVE proc[cell[slots[k]]].holds = k
    <3>1. slots[k] \in Slots BY Zenon, <2>1 DEF IInv, TypeOK
    <3>2. Refers(slots[k], k) BY Zenon DEF Refers
    <3>3. QED BY Zenon, <2>1, <3>1, <3>2 DEF IInv, SlotInv, Ready
  <2>2. ASSUME NEW r \in Requests, req[r].pc = "created" PROVE proc[req[r].clone].holds = req[r].key
    BY Zenon, <2>2 DEF IInv, ShapeInv, Shape, CloneInv, Clone
  <2>3. QED BY Zenon, <2>1, <2>2 DEF RightRecipe
<1>2. QED
  BY <1>1, InductiveInvariant, PTL

\* A failed fork is always of a template that has cleared its alive flag, so the obtain that
\* follows cannot find it again; and no request for the base alone fails for it unretried.
THEOREM FailedForksAreDead == Spec => []FailedForkMeansDead
<1>1. IInv => FailedForkMeansDead
  BY Zenon DEF IInv, RequestInv, Handles, ShapeInv, Shape, FailedForkMeansDead
<1>2. QED
  BY <1>1, InductiveInvariant, PTL

\* As long as no request has had to forget a slot, no owner loop ends for want of a handle
\* while an instance forked off its template runs.
THEOREM InstancesKeptUntilRebuild == Spec => []KeptUntilRebuild
<1>1. IInv => KeptUntilRebuild
  BY Zenon DEF IInv
<1>2. QED
  BY <1>1, InductiveInvariant, PTL

\* Only the timeout of its owner's loop expires a template.
LEMMA OnlyTimeoutExpires ==
  ASSUME IInv, Next, NEW t \in Pids, tpl[t].why # "expired", tpl'[t].why = "expired"
  PROVE  Timeout(t)
<1>a. tpl \in [Pids -> Template]
  BY Zenon DEF IInv, TypeOK
<1>1. ASSUME NEW r \in Requests, Handler(r) PROVE FALSE
  <2>0. ASSUME NEW p, NEW k, tpl' = [tpl EXCEPT ![p] = NewTemplate(k)] PROVE FALSE
    <3>1. NewTemplate(k).why = "" BY Zenon DEF NewTemplate
    <3>2. tpl'[t] = tpl[t] \/ tpl'[t] = NewTemplate(k) BY Zenon, <1>a, <2>0
    <3>3. QED BY Zenon, <3>1, <3>2
  <2>1. ASSUME NEW x \in Pids, Send(r, x, "forkBase") \/ Send(r, x, "forking") PROVE FALSE
    BY Zenon, <2>1, SendEffect DEF IInv
  <2>2. CASE BaseMiss(r)
    <3>1. (\E p \in Pids : tpl' = [tpl EXCEPT ![p] = NewTemplate(Base)]) \/ UNCHANGED tpl
      BY Zenon, <2>2 DEF BaseMiss
    <3>2. QED BY Zenon, <2>0, <3>1
  <2>3. CASE RecipeForked(r)
    <3>1. tpl' = [tpl EXCEPT ![req[r].clone] = NewTemplate(req[r].key)] \/ UNCHANGED tpl
      BY Zenon, <2>3 DEF RecipeForked
    <3>2. QED BY Zenon, <2>0, <3>1
  <2>4. CASE RecipeMiss(r)
    <3>1. req[r].base \in Pids BY Zenon, Names, <2>4, RequestTypes DEF IInv, ShapeInv, Shape, HasBase, RecipeMiss
    <3>2. QED BY Zenon, <2>1, <2>4, <3>1 DEF RecipeMiss
  <2>5. CASE ForkInstance(r)
    <3>1. req[r].tmpl \in Pids BY Zenon, Names, <2>5, RequestTypes DEF IInv, ShapeInv, Shape, HasTemplate, ForkInstance
    <3>2. QED BY Zenon, <2>1, <2>5, <3>1 DEF ForkInstance
  <2>6. CASE UNCHANGED tpl
    BY Zenon, <2>6
  <2>7. QED
    BY Zenon, <1>1, <2>2, <2>3, <2>4, <2>5, <2>6 DEF Handler, ObtainBase, BaseHit, BaseFilled, ObtainRecipe, RecipeHit,
       RecipeFilled, Forked, ForkFailed, Forget
<1>2. ASSUME NEW p \in Pids, Owner(p), ~Timeout(p) PROVE FALSE
  <2>0. tpl[t] \in Template /\ tpl[p] \in Template
    BY Zenon, <1>a
  <2>1. p = t
    BY Zenon, <1>2, <1>a DEF Owner, BroughtUp, BringUpFailed, ServeFork, ServeForkFailed, Disconnected, Stopped
  <2>2. CASE BroughtUp(p)
    BY Zenon, <1>a, <2>0, <2>1, <2>2 DEF BroughtUp, Template
  <2>3. CASE BringUpFailed(p)
    BY Zenon, <1>a, <2>0, <2>1, <2>3 DEF BringUpFailed, Template
  <2>4. CASE ServeFork(p)
    <3>1. PICK c \in Pids, exited \in Reports(p) :
            tpl' = [tpl EXCEPT ![p] = [tpl[p] EXCEPT !.queue = Tail(tpl[p].queue),
                                                     !.kids = ForkCounted(p, c, exited)]]
      BY Zenon, <2>4 DEF ServeFork
    <3> DEFINE n == Tail(tpl[p].queue)
               d == ForkCounted(p, c, exited)
    <3>2. tpl' = [tpl EXCEPT ![p] = [tpl[p] EXCEPT !.queue = n, !.kids = d]] BY Zenon, <3>1
    <3> HIDE DEF n, d
    <3>3. QED BY Zenon, <1>a, <2>0, <2>1, <3>2 DEF Template
  <2>5. CASE ServeForkFailed(p)
    BY Zenon, <1>a, <2>0, <2>1, <2>5 DEF ServeForkFailed, Stopping, Template
  <2>6. CASE Disconnected(p)
    BY Zenon, <1>a, <2>0, <2>1, <2>6 DEF Disconnected, Stopping, Template
  <2>7. CASE Stopped(p)
    BY Zenon, <1>a, <2>0, <2>1, <2>7 DEF Stopped, Template
  <2>8. QED
    BY Zenon, <1>2, <2>2, <2>3, <2>4, <2>5, <2>6, <2>7 DEF Owner
<1>3. ASSUME NEW p \in Pids, Timeout(p) PROVE p = t
  BY Zenon, <1>3, <1>a DEF Timeout
<1>4. QED
  BY Zenon, <1>1, <1>2, <1>3 DEF Next, Cancel, Kernel, Exit, DieWithParent, Crash, Dies, Release, Prune, Shutdown

\* owner_loop: the TTL stops a template only when nothing forked off it runs any more, so
\* chains of templates unwind from the leaves.
THEOREM TemplatesExpireLeafFirst == Spec => ExpiresLeafFirst
<1> DEFINE A == \A t \in Pids : tpl[t].why # "expired" /\ tpl'[t].why = "expired" =>
                  \A c \in Children(t) : proc[c].st # "up"
<1>1. ASSUME IInv, Next, NEW t \in Pids, tpl[t].why # "expired", tpl'[t].why = "expired",
             NEW c \in Children(t), proc[c].st = "up"
      PROVE  FALSE
  <2>1. tpl[t].owner = "serving" /\ Timeout(t)
    BY Zenon, <1>1, OnlyTimeoutExpires DEF Timeout
  <2>2. tpl \in [Pids -> Template] /\ tpl[t] \in Template
    BY Zenon, <1>1 DEF IInv, TypeOK
  <2>3. PICK exited \in Reports(t), elapsed \in BOOLEAN :
          tpl' = [tpl EXCEPT ![t] =
            IF proc[t].st # "up" THEN Stopping(t, "failed")
            ELSE IF tpl[t].kids \ exited = {} /\ elapsed THEN Stopping(t, "expired")
            ELSE [tpl[t] EXCEPT !.kids = tpl[t].kids \ exited]]
    BY Zenon, <2>1 DEF Timeout
  <2>4. tpl[t].kids \ exited = {}
    BY Zenon, <1>1, <2>2, <2>3 DEF Stopping, Template
  <2>5. c \in tpl[t].kids
    BY Zenon, <1>1, <2>1 DEF IInv, ProcessInv, Running
  <2>6. QED
    BY Zenon, <1>1, <2>4, <2>5 DEF Reports
<1>2. IInv /\ [Next]_vars => [A]_vars
  BY Zenon, <1>1
<1>3. QED
  BY <1>2, InductiveInvariant, PTL DEF Spec, ExpiresLeafFirst

=============================================================================
