# servicecache in TLA+

A verification development for `servicecache`, the manager that hands out
disposable services by forking them off frozen templates. Paths below are
relative to `src/crates/servicecache/src/` unless they say otherwise.

## 1. The system

| Part | Source | State | Operations |
|---|---|---|---|
| API server | `serve/mod.rs` | socket, `App` | `create_instance`, `get/list/delete/renew_instance`, `sweep` (1 s), graceful shutdown |
| Template cache | `serve/templates.rs` | `slots`: key → `Arc<Mutex<Option<Template>>>` | `obtain`, `fork`, `forget`, `prune`, `clear` |
| Template owner threads | `serve/templates.rs` | mpsc queue, `alive`, `children`, `idle_since` | `base_owner`, `recipe_owner`, `freeze_and_serve`, `serve_forks`, `drain_events` |
| Instance registry | `serve/instances.rs` | entries, leases, guest state, stop pipes | `adopt`, `insert`, `remove`, `remove_expired`, `renew`, `watch` |
| Recipe files | `serve/recipes.rs` | roots | `read` |
| Manager side of the channel | `manager.rs` | `events`, channel, child | `request`, `reply`, `read_event`, `fork`, `stop`, `kill` |
| Host control loop | `host/mod.rs` | `phase`, guest, event pipe | `serve`, `tick`, `prepare`, `start`, `initialize`, `freeze`, `fork` |
| Freeze, fork, rebuild, compaction | `host/freeze.rs` | gate, threads, zero-page scan | `freeze`, `fork`, `rebuild`, `Compaction::step` |
| Host networking, tasks, probe | `host/net.rs`, `host/tasks.rs`, `host/probe.rs` | sockets, runtime, sleeps | listen, accept, bridge, halt, re-arm |
| Control protocol | `host/protocol.rs` | framed socketpair | `send`, `recv` |
| Module cache | `cache.rs` | files, lock files | `load_or_compile`, `clean` |
| Discovery and manifests | `discovery.rs`, `manifest.rs`, `cli.rs` | search directories, index of packages | `service_dirs`, `discover`, `insert`, `select`, `Manifest::load`, `decode_byte_string` |
| CLI | `cli.rs`, `serve/client.rs` | one command | `run_service`, `run_with_clones`, `hold_instance`, `serve` |

How they interact. A request takes the slot of its service's base template;
if the slot is empty or its template is dead, an owner thread spawns a host,
prepares, starts and freezes it. With a recipe, the base is forked and the
clone initialized and frozen as a template of its own. The request then asks
the template's owner thread to fork an instance, and registers it. Every clone
is an OS child of the template it was forked off and dies with it; the
template's host reaps clones and reports their exits over its control channel,
and the owner counts them to know when the template is idle.

What makes it hard: requests that interleave at every await; a client that
hangs up in the middle; expiry deciding while a command is on its way;
exit frames that arrive while another answer is awaited; a control channel
that fills; hosts and clones that crash at any point; process trees that die
with their root; leases that run out while they are renewed.

Correctness, in a sentence each: an instance runs what its request asked for
and is watched until it goes; a template goes only when idle, and takes nothing
with it that anybody still uses; nothing is left running or locked after a
hang-up or a crash; every request to a host has one answer; a frozen host holds
nothing a clone must not inherit; frames cross the control channel whole, in
order and with their descriptors; a guest is ready when it serves; the package that
runs is the one that was named; a cache entry in place is whole; the guest cannot
tell that its memory was compacted.

## 2. Modules

| Module | Models | Kind |
|---|---|---|
| `OwnerPromise` | what holders of a `Template` may rely on: answers, one clone each, expiry only after a TTL without descendants | abstract specification |
| `TemplateOwner` | one owner thread, its host's control loop, its clones, the channel between; refines `OwnerPromise` | component |
| `FrameQueue` | what the control protocol promises: a FIFO of whole frames with their descriptors | abstract specification |
| `Channel` | `send` and `recv` over a socket that takes and gives bytes in pieces; refines `FrameQueue` | component |
| `Templates` | requests, slot map, slot locks, owners, the process tree | composition |
| `Instances` | registry, leases, API handlers, sweep, a watcher thread per instance | component |
| `Serve` | servers started on one socket path: claim, bind, drain, unlink | component |
| `Recipes` | `recipe_bytes` and `recipes::read` against owners of the files | component |
| `Packages` | search directories, discovery, manifest loading and selection against whoever installs packages | component |
| `ByteStrings` | the decoder of a manifest's byte strings and the preview written in the same notation | algorithm |
| `HostLoop` | `Host::serve` of a host and its clones, and the `HostProcess` driving each | composition |
| `Ready` | the guest's bind and listen, the readiness probe, and the turns of `start` | component |
| `Freeze` | guest threads, listener, connections, sleeps and tasks against `freeze`, along a line of forks | component |
| `Compaction` | the zero-page scan, against a definition of what it should release | algorithm |
| `ModuleCache` | one cache entry shared by threads of several processes | component |
| `RunClones` | `run --clones`: one polling thread, a template and its clones | component |
| `HoldInstance` | `request`: a lease renewed from poll's timeout | component |
| `TemplatesProofs`, `TemplateOwnerProofs`, `ChannelProofs`, `HostLoopProofs` | what is proved of the module they are named after, for all constants | proofs |
| `SharedProofs` | the same for `ModuleCache` and `Instances` | proofs |
| `GuestProofs` | the same for `Freeze` and `Ready` | proofs |
| `InputsProofs` | the same for `Packages` and `Recipes` | proofs |
| `CommandsProofs` | the same for `Serve`, `RunClones` and `HoldInstance` | proofs |
| `Inputs` | `Packages` and `Recipes` side by side | composition |
| `MCInputs` | `Inputs` and `ByteStrings`: a behaviour reads one of them | model checking |
| `MCCommands` | `Serve`, `RunClones` and `HoldInstance` side by side: a behaviour is of one command | model checking |
| the other `MC...` | an instance of one module for TLC; `MCInstances` and `MCReady` rename what would clash in a proof module | model checking |

A definition written just before another with the same parameters and used
nowhere (`NobodyAnswers` before `Connect`) is a variant of it: the mistake the
properties are shown to catch, listed under `mutants` in `PROJECT.json`.

### How state and actions correspond to the code

* **TemplateOwner.** `pc` is where `serve_forks` waits: for a command, for the
  host's answer, for the clone's announcement. The channel is a FIFO with one
  answer outstanding, so it is represented by where each clone's `Exited` frame
  is. `ForkServed` is the whole successful branch: count the child, take the
  events kept while waiting, answer. `quiet` and `why` are history. Its mapping to
  `OwnerPromise` forgets host, channel and counter: what is owed is the queue and the
  command being served, what lives is what the clones say and not what was counted.
* **Channel.** The socket keeps bytes in order, so the stream is a position and the
  frames lie on it; descriptors travel with the first byte of the `sendmsg` that
  carries them, and one `recvmsg` never returns those of two. `recv` is in the header
  or in the body, with what it has read so far; both ends may go at any byte.
  `Channel` maps to `FrameQueue` by forgetting positions.
* **Templates.** A request is a record with the fields the handler's locals hold
  at each await; dropping the future (a hang-up) clears them. Slots are objects:
  a request may hold one that is off the map. `TemplateOwner` is what justifies
  the set `kids` in place of a counter and a fork as a single step. The tree of
  processes dies from its root (`PR_SET_PDEATHSIG`), by the `Kernel` action.
* **Instances.** An entry is shared; its stop pipe closes when the registry and
  the last handler let go. `Watch` is the thread of `watch`, polling the pipe and
  the host. `SweepCheck`, `SweepRemove`, `SweepDrop` are `remove_expired` under its
  lock and the drop after it.
* **Serve.** Each step of `claim_socket` is a system call on the path; `socket`
  names whose file is there. `Overlapping` says whether servers may start or stop
  at the same time.
* **Recipes.** One action per system call; bytes are read one at a time, each
  carrying the inode it came from. A relative path is a path that does not open.
  Files do not move across a root's boundary.
* **HostLoop.** `at` is where a host's thread is: in `serve`, handling a request,
  or in a wait inside `prepare`, `start`, `initialize`. `tick` runs at the top of
  every turn. A fork is `Forks` in the parent and `rebuild`, `revive` in the child.
  `HostProcess` keeps one request outstanding.
* **Freeze.** `freeze` is stepped through: the check for tasks, the gate, the
  drain, halting, closing; guest threads run between any two steps until they
  stop at the gate. `ConnectionGuard`'s insertion and removal are the steps
  where descriptor numbers can be reused. The listening socket has a backlog of one
  client, is halted by the freeze and replaced in the clone. The model goes on in the
  child.
* **Ready.** Time in ticks, which pass only while everyone waits. `attempt` is a connect
  and then one action per read, with the read's time-out, the attempt's deadline and the
  cap on the response; `spawn` is the loop around it with its pause. A response is a
  sequence of pieces and the pattern its first two. `StartTurn` is one turn of `start`
  after a drain of the event pipe. The probe's own bytes are taken to fit the socket's
  buffer, so that `write_all` does not wait.
* **Packages.** One action per system call of discovery and of the host's second load:
  list, resolve, read, check. A package is what its `service.toml` and its symlinks say,
  given by constants; links move and unlinked packages go between any two steps, but a
  package directory, once there, is not rewritten. `Checks` is the validation of a
  manifest's paths.
* **ByteStrings.** `decode_byte_string`'s loop, a character or an escape at a time,
  against a definition of the notation; `preview` is decoded back by the same loop.
* **Compaction.** Addresses are pages; a block is `Huge` pages. `ScanBlock` is one
  call of `scan_block`; the reference definition releases every full run of
  zero pages outside overlays.
* **ModuleCache.** A file is the set of threads still writing it; a lock file is
  named by who created it, so that removing the name does not remove the lock.
* **RunClones.** A turn of the loop is one action up to the freeze or fork it leads
  to; `stash` is `HostProcess::events`.
* **HoldInstance.** Time in seconds; `waited` is the time in the present poll. A call of
  the client is answered, refused, or fails, and one that fails may have been carried out.

## 3. Runs

| Run | Instance | Shows |
|---|---|---|
| `template_owner` | 3 clones, TTL 2, 2 commands, 1 frame | the count is exact, and the owner refines `OwnerPromise`; a full channel blocks nobody for ever, idle templates go |
| `channel` | 3 frames of 4 to 6 bytes, some with descriptors, one too long; a buffer of 4 | `send` and `recv` refine `FrameQueue`; larger frames than the buffer arrive, ends are noticed |
| `templates` | 2 requests, 1 recipe, 4 processes, 1 fault | failed forks, map and handles agree until a rebuild; right recipe, leaf-first expiry |
| `templates_live` | 2 requests, 3 processes, 1 fault | requests end, strays go |
| `instances` | 1 instance, 2 handlers, leases up to 2 | every exit is told or watched for, promises of leases kept; what is dropped or lapses goes |
| `cache` | 2 threads of a process and 1 of another, cleans, crashes | one compile per entry until a clean, whole artifacts, no lock left behind |
| `host_loop` | a host and a clone, a service with all three steps and one with none | every request has one reply; hosts and waits end |
| `ready` | 2 guest threads, time-outs of 1 to 3 ticks, a deadline of 9 | the probe ends in time whatever the guest does; ready is answered in full, and a guest that serves in time becomes ready |
| `freeze` | 2 threads, 2 descriptors, a task, a clone of a clone | connections are ended exactly and nobody is left waiting, lost tasks go no further; sleepers wake, freezes end |
| `compaction` | all memories of up to 4 pages in blocks of 2, up to 2 overlays | contents and overlays untouched, exactly the zero runs released |
| `inputs` | recipes: 3 files, room for 3 bytes, a path relinked at will; packages: 4 in 2 directories, 2 changes; byte strings of up to 4 characters | recipes confined, bounded, separated; the package named is the one that runs and the first found serves; notation read and written alike |
| `commands` | serve: 3 servers, one starting or stopping at a time; run: 2 triggers of 2 clones, 3 processes; request: 10 s, 30 s, a line between renewals | reachable until signalled, starts and stops finish; all clones' status told, ends with its clones or its template; lease kept, instance destroyed or lapsed |

`MCInputs` and `MCCommands` put modules that share nothing side by side: the first
choice of a behaviour fixes which one it follows, and the others stay as they began.
Types are not a property of the runs: where a component has a proof module, its
`TypeOK` is proved; elsewhere it documents the state. The pairing of answers with
requests (`AnswerPairs` in `HostLoop`), scanning only when frozen (`ScansFrozenOnly`)
and expiry only after silence (`ExpiresOnlyIdle` in `TemplateOwner`, which
`KeepsPromise` includes) are proved and not run. The conjuncts of a property are
promises with one reason: `EndsExactly` that a freeze ends what the guest holds, no
less and no more; `CompiledOnce` that a lock and a second look make one compile;
`ExitsTold` that an instance shown as running is watched and its status kept;
`HostEnds` that a host ends with its guest and with its manager; `WaitsEnd` that
neither side of the channel waits for ever.

**Bounds.** Every bound is a named constant with a comment saying so. Two
requests, two handlers, two guest threads or two processes are the actors a race
needs, and the third, where there is one, is the bystander it harms. Process and
clone identities bound how often something is forked, and faults how often a
process crashes or a call fails out of turn. `ChannelCapacity` 1 makes the
channel fill, and a `Capacity` of 4 bytes cuts most frames in pieces, inside the header
too. The ticks of `ready` keep the order of the code's time-outs and let a back-off
reach its maximum before the deadline. `CHECK_DEADLOCK FALSE` stands where the system really may stop: all
requests done, processes gone, a scan at its end. Symmetry is used only in
`templates`, whose two requests are alike, and in `inputs`, for two copies of a package;
the properties of both are all safety.

**Fairness.** Weak fairness of threads and loops that are runnable (the scheduler
runs them), of handlers that have begun, of the kernel delivering a death
signal, of timers, and in `Serve` of connections ending, which axum closes when
idle and which handlers end. Never of a user or client acting, a guest exiting, a
process crashing, or a lock order.

## 4. Where the code does not keep to what it says

Each of these was found by TLC in the model. The runs above pass because their
properties or constants leave the case out, in the way given here; changing that
brings the counterexample back.

| Source | What happens | To see it |
|---|---|---|
| `serve/templates.rs:175` | `forget` removes by key, and drops a newer template than the one that failed: its instance is killed ("instances live until deleted", `serve/mod.rs:4`) | `Templates`, invariant `InstancesKept`, no recipe, 3 processes, no fault |
| `serve/templates.rs:257` | a base template that expires inside `obtain` fails the request with no rebuild ("rebuild it once", `serve/mod.rs:331`) | `Templates`, invariant `RebuildsBeforeFailing`, 1 request, 1 recipe, 2 processes |
| `serve/mod.rs:408` | a renewal is confirmed after the sweep has removed its entry ("so it lives on", `:389`) | `Instances`, invariant `RenewedLivesOn` |
| `cache.rs:67` | a clean removes a lock file that is held, and two processes compile at once ("One compile per entry at a time", `:125`) | `ModuleCache`, `OneAtATime` without its first disjunct |
| `cache.rs:216` | after a clean two threads of a process share one partial file, and a torn one is renamed ("either no artifact or a complete one", `:213`) | `ModuleCache`, invariant `entry \in {Absent, Stale, {}}` |
| `host/mod.rs:679` | a guest that exits between tick and freeze is frozen ("only accepted while the guest is ready", `:682`) | `HostLoop`, invariant `FreezesLiveGuest`, `Manifests = {{}}` |
| `host/freeze.rs:230` | a template that dies before its clone asks for the death signal leaves the clone running ("Clones die with their template", `ARCHITECTURE.md:20`) | `HostLoop`, `FairSpec`, property `ClonesDieWithTemplate` |
| `host/freeze.rs:119` | a task spawned between the check and the gate is lost in the clone ("so that a freeze can refuse", `host/tasks.rs:13`) | `Freeze`, invariant `NoTaskLost` |
| `serve/mod.rs:110` | a server that failed to bind, or is exiting, removes another server's socket ("until SIGINT or SIGTERM", `:91`) | `commands` with `Overlapping = TRUE`, `ReachableUntilSignalled` |
| `serve/mod.rs:121` | of two servers that find a stale socket, one removes what the other just bound ("removes it if it is stale", `:114`) | the same |
| `cli.rs:684` | a clone's exit read while the next is forked is never taken, and the command hangs ("Runs until the last clone exits", `:106`) | `RunClones`, `RunEnds` without the last disjunct of its first part |
| `cli.rs:543` | lines on stdin keep `request` from renewing until its lease lapses ("renewing on a timer", `:471`) | `commands` with `MaxLines = 2`, `HeldStays` |

## 5. Proofs

All are checked by TLAPS from the assumptions named in the modules (finite sets,
bounds that are naturals, `None` outside the other sets), for every value of the
constants. A proof module of two components extends one and takes the other as an
instance; the assumptions of the second are then an operator (`TtlAssumption`,
`ReadyAssumption`, `RecipeAssumption`) which its theorems have as a hypothesis, and
which TLC evaluates as an `ASSUME` of the `MC` module.

* **TemplatesProofs.** What a request has at each of its awaits (`ShapeInv`) and what
  its handles are good for (`RequestInv`): a template it was given is `Ready`, which
  stays true whatever others do, and one it is bringing up is its own. A clone is one
  request's (`CloneInv`). A slot is one key's, on the map or off it, and what is in it was
  brought up for that key (`SlotInv`); who fills it has its lock (`LockInv`). Those give
  `RightRecipe` and `FailedForkMeansDead`. `KeptUntilRebuild` needs to know in addition
  that the owner runs while a child does (`ProcessInv`), that an owner ends for want of
  handles only if there is none (`DropInv`), and that until a `forget` every live template
  that was ever given out is found through the map (`MapInv`): the last is what a rebuild
  breaks. `ExpiresLeafFirst` is an action property from the same invariant. An action is
  first reduced to what it does to each field (`Becomes`, `Starting`, `OwnerStep`), so
  that handlers that do alike share one proof: seven ways for a request to end,
  two to obtain, two to be given, two to start a template.
* **TemplateOwnerProofs.** `Inv` adds to the types that one fork is under way at a
  time (`OneFork`), that the count is the number of descendants whose exit is
  not counted (`ChildrenCounted`) and that the owner's clock never runs ahead of
  the real silence (`IdleClock`). Exact counting alone is inductive only with
  `OneFork`, and expiry needs `IdleClock`. `OwnerKeepsPromise` is the refinement: from
  `Inv`, every step of owner, host and clones is a step of `OwnerPromise` or none.
* **ChannelProofs.** `ChannelInv`: frames lie end to end on the stream (`Laid`), `recv`
  began where the first frame it has not returned begins (`Aligned`), and holds the
  lengths and descriptors of that frame (`Within`). Without `Aligned` a header would be
  any bytes, so the refinement `ChannelKeepsFrames` needs all three.
* **HostLoopProofs.** `Local(h)`, one host at a time: what the manager waits for is
  sent, worked on or answered, in exactly one place; each wait has its phase. A
  frame lemma (`SameLocal`) disposes of the hosts a step does not touch.
* **SharedProofs, the module cache.** Until a clean, the holder of the lock holds the
  file in place (`LockInPlace`), from which turns follow, and is the only writer of its
  partial file (`OnePartial`). After one, that holds of a thread alone in its process
  (`OwnPartial`), and what it renames is whole. `HolderWorks` is inductive with the
  types alone: since holders wait for nothing, no wait for a lock is for ever, which
  is as near to liveness as the proof goes.
* **SharedProofs, the registry.** Which watcher is where for what the API shows
  (`Watched`), where an exit report is between host and registry (`ExitInFlight`) and
  that the lease is what the client was last promised (`Promised`).
* **GuestProofs, the freeze.** Who tracks which descriptor at every step of accept, drop
  and reuse (`Hands`, `Tracking`), that a drained guest is still (`Drains`, `Silent`),
  generations (`Numbered`), and the count of tasks as a cardinality (`Counted`), from
  which it follows that a lost task is counted for ever and stops the next freeze.
* **GuestProofs, the probe.** Where the probe's thread can be at what time (`Clocks`,
  `Waiting`) gives `ProbeEndsInTime` for all time-outs; that a response is a prefix of
  what one connection was sent (`Heard`) and that the outcome was drawn from it (`Told`)
  gives `ReadyMeansAnswered`. The other half of `ReadyMeansServing` needs what an attempt
  has heard while it lasts (`Prompt`): once the guest serves before the attempt connects,
  no time passes until its answer has been read, so the attempt cannot fall short, and a
  failed outcome dates the guest's service (`Answered`). It assumes `PatternFits`: the
  response cap leaves room for the pattern, as the code's 4096 bytes do.
* **InputsProofs, packages.** What the search has seen of every directory, and that the
  index has it in the order it was seen (`PackageInv`). A host's request was made from an
  index entry (`Asked`), and an entry names a directory nobody rewrites: so it runs what
  was named although links move. First found serves because an insertion only ever
  appends to a key's versions.
* **InputsProofs, recipes.** Every byte has the file it came from, open under a root when
  it was read; the length so far is within the limit, one byte of look-ahead apart
  (`Measured`); a newline was put wherever two files with contents met (`Separated`).
* **CommandsProofs.** *Serve*: who has the path and who is between two of its system
  calls (`ServeInv`); `ServersReachable` assumes `~Overlapping`, and section 4 says what
  happens otherwise. *RunClones*: every exit frame of a clone is in the channel, in the
  stash or counted, once (`ChannelInv`, `CloneInv`), so that the status covers all clones
  whatever the order of frames. *HoldInstance*: what is gone of the lease is at most an
  interval per line and the present wait (`Spent`); hence `HeldStays` whenever the lease
  outlasts `MaxLines + 1` intervals. The code's 30 s and 10 s allow one line.

Only model-checked: every liveness property, since fairness and `ENABLED` are beyond the
prover; and `Compaction` and `ByteStrings`, whose loops are folds over sequences and need
induction over data.

## 6. Not modelled

API formats (`serve/api.rs`) and the HTTP exchange of `serve/client.rs`, which hold no
state; the TOML syntax of a manifest (a parsed one is a constant, its checks are
modelled); logging and titles; the commands that are one call into a part modelled
elsewhere; the guest's runtime environment (`runtime.rs`, `host/guest.rs`) and the
byte-level bridging in `host/net.rs`, which are I/O through wasmer's traits; the patched
wasmer (modelled only as `host/freeze.rs` uses it); and everything that builds guests.
In `Freeze`, the selector's descriptors and the contents of shared-memory snapshots are
left out: no step of `freeze` or `rebuild` depends on them. `PROJECT.json` gives the
reason for each under `components`.
