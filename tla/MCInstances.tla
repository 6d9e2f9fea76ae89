---------------------------- MODULE MCInstances ----------------------------
(* Instances for any constants, and what is checked and proved of it.        *)
EXTENDS Integers

CONSTANTS Ids, Handlers, MaxTtl, Nobody

VARIABLES
  registered, ttl, lease, state, watcher, host, frame, handler, at, sweeper, expired, down, due,
  reported, deleted

I == INSTANCE Instances WITH entry <- registered, pc <- handler, Nil <- Nobody

ASSUME I!IdAssumption /\ I!TtlAssumption

MCSpec == I!FairSpec

\* ExitsTold of Instances: what the API shows as running is watched, and an exit status
\* that was reported is not lost.
ExitsTold == I!ExitsTold

\* SweepsOnlyLapsed of Instances: remove_expired takes only what has lapsed for its client.
SweepsOnlyLapsed == I!SweepsOnlyLapsed

\* UnusedGoes of Instances: what is deleted, or lapses, goes.
UnusedGoes == I!UnusedGoes
=============================================================================
