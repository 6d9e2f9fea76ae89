---------------------------- MODULE OwnerPromise ----------------------------
(***************************************************************************)
(* What the owner of a frozen template promises to those who hold a         *)
(* Template (serve/templates.rs), with no host, channel or count in sight:  *)
(* commands are answered one at a time, each by at most one clone; it ends  *)
(* for want of use only after a full TTL in which nothing forked off it     *)
(* lived, and for want of handles only when every command is answered; and  *)
(* once it has ended nothing is forked off it any more.                     *)
(***************************************************************************)
EXTENDS Naturals

CONSTANTS Clones, NoClone, TTL

VARIABLES
  state,    \* "serving", or why it ended
  held,     \* some handle exists
  owed,     \* commands accepted and not answered
  granted,  \* the clone forked for the command being answered
  live,     \* descendants that run
  quiet     \* time since one did, up to TTL

vars == <<state, held, owed, granted, live, quiet>>

Init ==
  /\ state = "serving" /\ held = TRUE /\ owed = 0 /\ granted = NoClone
  /\ live = {} /\ quiet = 0

Ask ==
  /\ state = "serving" /\ held /\ owed' = owed + 1
  /\ UNCHANGED <<state, held, granted, live, quiet>>

Release == held /\ held' = FALSE /\ UNCHANGED <<state, owed, granted, live, quiet>>

Fork(c) ==
  /\ state = "serving" /\ owed > 0 /\ granted = NoClone /\ c \notin live
  /\ granted' = c /\ live' = live \cup {c} /\ quiet' = 0
  /\ UNCHANGED <<state, held, owed>>

Answer ==
  /\ state = "serving" /\ granted # NoClone /\ granted' = NoClone /\ owed' = owed - 1
  /\ UNCHANGED <<state, held, live, quiet>>

Exit(c) ==
  /\ c \in live /\ live' = live \ {c} /\ quiet' = 0
  /\ UNCHANGED <<state, held, owed, granted>>

Later == IF quiet < TTL THEN quiet + 1 ELSE quiet

Tick ==
  /\ quiet' = (IF live = {} THEN Later ELSE 0)
  /\ UNCHANGED <<state, held, owed, granted, live>>

Unused == live = {} /\ quiet >= TTL /\ owed = 0
Unheld == ~held /\ owed = 0

\* It may fail at any time; what is then owed is answered with that failure.
End ==
  /\ state = "serving"
  /\ \/ state' = "failed"
     \/ state' = "expired" /\ Unused
     \/ state' = "disconnected" /\ Unheld
  /\ owed' = 0 /\ granted' = NoClone
  /\ UNCHANGED <<held, live, quiet>>

Next == Ask \/ Release \/ Answer \/ Tick \/ End \/ \E c \in Clones : Fork(c) \/ Exit(c)

Spec == Init /\ [][Next]_vars

=============================================================================
