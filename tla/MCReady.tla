------------------------------ MODULE MCReady ------------------------------
(* Ready for any constants, and what is checked and proved of it.            *)
EXTENDS Naturals, Sequences

CONSTANTS
  Workers,   \* the guest's threads
  CONNECT_TIMEOUT, READ_TIMEOUT, ATTEMPT_DEADLINE, INITIAL_INTERVAL, MAX_INTERVAL, DEADLINE, RESPONSE_CAP

VARIABLES
  now, passed, sock, guest, since, conn, sent, pc, wake, limit, interval, response, outcome, events,
  start, probe

R == INSTANCE Ready WITH Threads <- Workers

ASSUME R!ReadyAssumption

MCSpec == R!Spec

\* ProbeEndsInTime of Ready: the probe's thread ends soon after the deadline.
ProbeEndsInTime == R!ProbeEndsInTime

\* ReadyMeansServing of Ready: a guest is ready when it answered in full, and one that
\* serves in good time becomes ready.
ReadyMeansServing == R!ReadyMeansServing
=============================================================================
