---------------------------- MODULE HoldInstance ----------------------------
(***************************************************************************)
(* `servicecache request` (cli.rs, request_instance and hold_instance): it  *)
(* creates an instance with a short lease, renews it whenever poll times    *)
(* out, and destroys it when stdin closes or a signal arrives.  Calls take  *)
(* no time.                                                                 *)
(***************************************************************************)
EXTENDS Naturals

CONSTANTS
  Interval,  \* REQUEST_RENEW_INTERVAL, in seconds
  Lease,     \* REQUEST_TTL, in seconds
  MaxLines   \* bound: lines typed between two renewals

ASSUME HoldAssumption == Interval \in Nat \ {0} /\ Lease \in Nat \ {0} /\ MaxLines \in Nat

VARIABLES
  pc,        \* "create", "poll", "ask", "delete", or how the command ended
  waited,    \* how long this poll has waited
  lines,     \* lines read since the last renewal
  signal,    \* SIGINT or SIGTERM is pending
  closed,    \* stdin is at its end
  instance,  \* "none", "running", "exited" or "gone" from the manager
  lease,     \* what is left of its lease
  swept,     \* history: the sweep took it while it ran and was held
  exited     \* hold_instance returned Exited

holder == <<pc, waited, lines, exited>>
input == <<signal, closed>>
manager == <<instance, lease, swept>>
vars == <<holder, input, manager>>

Ended == {"released", "exited", "error", "killed"}

Ranges ==
  /\ pc \in {"create", "poll", "ask", "delete"} \cup Ended
  /\ waited \in 0..Interval /\ lines \in 0..MaxLines /\ lease \in 0..Lease
  /\ instance \in {"none", "running", "exited", "gone"}

Flags ==
  /\ signal \in BOOLEAN /\ closed \in BOOLEAN /\ swept \in BOOLEAN /\ exited \in BOOLEAN
  /\ exited => pc \in {"delete", "exited", "killed"}

TypeOK == Ranges /\ Flags

Init ==
  /\ pc = "create" /\ waited = 0 /\ lines = 0 /\ signal = FALSE /\ closed = FALSE
  /\ instance = "none" /\ lease = 0 /\ swept = FALSE /\ exited = FALSE

Goes(step) == pc' = step /\ UNCHANGED <<waited, lines, exited>>

-----------------------------------------------------------------------------
\* The instance is made, or refused, or made and the answer lost.
Create ==
  /\ pc = "create"
  /\ \/ Goes("poll") /\ instance' = "running" /\ lease' = Lease
     \/ Goes("error") /\ instance' \in {"none", "running"} /\ lease' = Lease
  /\ UNCHANGED <<swept, input>>

\* poll times out only when neither the signal nor stdin is ready.
TimesOut == pc = "poll" /\ waited = Interval /\ ~signal /\ ~closed

KeepsLease == lease

Renewed == Lease

\* Renew: the lease restarts; or the manager refuses, and is then asked why; or it
\* cannot be reached, or its answer is lost.
Renew ==
  /\ TimesOut
  /\ \/ instance = "running" /\ lease' = Renewed /\ pc' = "poll" /\ waited' = 0 /\ lines' = 0
        /\ UNCHANGED exited
     \/ instance # "running" /\ Goes("ask") /\ UNCHANGED lease
     \/ Goes("error") /\ (UNCHANGED lease \/ (instance = "running" /\ lease' = Renewed))
  /\ UNCHANGED <<instance, swept, input>>

\* GET: exited is an end of its own; anything else is reported as the renewal's error.
Ask ==
  /\ pc = "ask"
  /\ \/ instance = "exited" /\ pc' = "delete" /\ exited' = TRUE /\ UNCHANGED <<waited, lines>>
     \/ Goes("error")
  /\ UNCHANGED <<input, manager>>

\* A signal, then the end of stdin.
Release ==
  /\ pc = "poll" /\ (signal \/ closed) /\ Goes("delete") /\ UNCHANGED <<input, manager>>

\* The timeout is poll's own: it starts over.
Restarted == 0

\* A line on stdin is read and ignored.
Line ==
  /\ pc = "poll" /\ ~signal /\ ~closed /\ lines < MaxLines
  /\ lines' = lines + 1 /\ waited' = Restarted /\ UNCHANGED <<pc, exited, input, manager>>

Destroyed == "gone"

Outcome == IF exited THEN "exited" ELSE "released"

\* A failed delete, carried out or not, is ignored after an exit and an error otherwise.
Delete ==
  /\ pc = "delete"
  /\ \/ instance' = Destroyed /\ Goes(Outcome)
     \/ Goes(IF exited THEN "exited" ELSE "error") /\ instance' \in {instance, Destroyed}
  /\ UNCHANGED <<lease, swept, input>>

Step == Create \/ Renew \/ Ask \/ Release \/ Delete

-----------------------------------------------------------------------------
(* Time, the manager's sweep, the guest, other clients, and the user.        *)

SweepsRunning == instance = "running" /\ lease = 0

Lapsed == instance \in {"running", "exited"} /\ lease = 0

\* A poll that is due, and a lease that has lapsed, are seen to first.
Tick ==
  /\ ~Lapsed
  /\ \/ pc = "poll" /\ waited < Interval /\ ~signal /\ ~closed /\ waited' = waited + 1
     \/ pc \in Ended /\ lease > 0 /\ UNCHANGED waited
  /\ lease' = IF lease > 0 THEN lease - 1 ELSE 0
  /\ UNCHANGED <<pc, lines, exited, input, instance, swept>>

Sweep ==
  /\ Lapsed /\ instance' = "gone" /\ swept' = (instance = "running" /\ pc = "poll")
  /\ UNCHANGED <<lease, holder, input>>

GuestExits ==
  /\ instance = "running" /\ instance' = "exited" /\ UNCHANGED <<lease, swept, holder, input>>

\* Another client of the API deletes it.
Deleted ==
  /\ instance \in {"running", "exited"} /\ instance' = "gone"
  /\ UNCHANGED <<lease, swept, holder, input>>

User ==
  /\ pc \notin Ended
  /\ \/ ~signal /\ signal' = TRUE /\ UNCHANGED closed
     \/ ~closed /\ closed' = TRUE /\ UNCHANGED signal
  /\ UNCHANGED <<holder, manager>>

Killed == pc \notin Ended /\ Goes("killed") /\ UNCHANGED <<input, manager>>

Next == Step \/ Line \/ Tick \/ Sweep \/ GuestExits \/ Deleted \/ User \/ Killed

Spec == Init /\ [][Next]_vars

\* The command runs, time passes, the manager sweeps.
FairSpec == Spec /\ WF_vars(Step) /\ WF_vars(Tick) /\ WF_vars(Sweep)

-----------------------------------------------------------------------------
(* Properties.                                                               *)

\* "holds it - renewing on a timer - until stdin closes or SIGINT/SIGTERM"
\* (request_instance): while it holds an instance that runs, the lease never runs out.
HeldStays == ~swept

\* "until stdin closes, a signal arrives, or the guest exits" (hold_instance): the
\* command notices each of them, the last through a refused renewal, and the deletion
\* of the instance by someone else; and "an instance whose holder dies is gone within
\* half a minute" (REQUEST_TTL): however the command ends, its instance goes.
HoldEnds ==
  /\ (signal \/ closed \/ instance \in {"exited", "gone"}) ~> (pc \in Ended)
  /\ (pc \in Ended) ~> (instance \in {"none", "gone"})

=============================================================================
