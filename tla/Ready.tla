------------------------------- MODULE Ready -------------------------------
(***************************************************************************)
(* How a host finds out that its guest serves: the guest's bind and listen  *)
(* on the socket it was passed (host/net.rs), the readiness probe on a      *)
(* thread of its own (host/probe.rs) and the wait of start (host/mod.rs)    *)
(* that the two wake through the event pipe.                                *)
(*                                                                          *)
(* Time is counted in ticks from the probe's start and passes only while    *)
(* everyone waits.  The manifest's pattern is matched by "a" and then "b"   *)
(* at the start of a response.                                              *)
(***************************************************************************)
EXTENDS Naturals, Sequences

CONSTANTS
  Threads,           \* guest threads
  CONNECT_TIMEOUT,
  READ_TIMEOUT,
  ATTEMPT_DEADLINE,
  INITIAL_INTERVAL,
  MAX_INTERVAL,
  DEADLINE,
  RESPONSE_CAP       \* in pieces of a response

ReadyAssumption ==
  /\ CONNECT_TIMEOUT \in Nat /\ READ_TIMEOUT \in Nat \ {0} /\ ATTEMPT_DEADLINE \in Nat \ {0}
  /\ DEADLINE \in Nat /\ MAX_INTERVAL \in Nat /\ INITIAL_INTERVAL \in 1..MAX_INTERVAL
  /\ RESPONSE_CAP \in Nat \ {0}

VARIABLES
  now,       \* started.elapsed()
  passed,    \* the socket start was given waits for the guest's bind
  sock,      \* each guest thread's socket: "none", "unserved", "bound" or "listening"
  guest,     \* "starting", "serving" (it answers every connection at once) or "exited"
  since,     \* when it began to serve
  conn,      \* the probe's connection: "none", "queued", "open" or "ended"
  sent,      \* what the guest has sent on it
  pc,        \* the probe's thread: "none", "connecting", "reading", "sleeping",
             \* "ending" or "done"
  wake,      \* when its connect, read or sleep ends
  limit,     \* when its attempt does
  interval,
  response,  \* what this attempt has read
  outcome,   \* "unset", "ok" or "err"
  events,    \* in the event pipe: "listening", "probed"
  start,     \* start: "waiting", "probing", "ready", "failed" or "exited"
  probe      \* the manifest declares a probe

timer == <<wake, limit, interval>>
vars == <<now, passed, sock, guest, since, conn, sent, pc, timer, response, outcome, events, start, probe>>

Pieces == {"a", "b", "x"}

TypeOK ==
  /\ now \in Nat /\ passed \in BOOLEAN /\ since \in Nat
  /\ guest \in {"starting", "serving", "exited"}
  /\ sock \in [Threads -> {"none", "unserved", "bound", "listening"}]
  /\ conn \in {"none", "queued", "open", "ended"} /\ sent \in Seq(Pieces)
  /\ pc \in {"none", "connecting", "reading", "sleeping", "ending", "done"}
  /\ wake \in Nat /\ limit \in Nat /\ interval \in 1..MAX_INTERVAL
  /\ response \in Seq(Pieces) /\ outcome \in {"unset", "ok", "err"}
  /\ events \subseteq {"listening", "probed"}
  /\ start \in {"waiting", "probing", "ready", "failed", "exited"} /\ probe \in BOOLEAN

\* start has set the listener and spawned the guest.
Init ==
  /\ now = 0 /\ passed = TRUE /\ sock = [t \in Threads |-> "none"] /\ guest = "starting" /\ since = 0
  /\ conn = "none" /\ sent = <<>> /\ pc = "none" /\ wake = 0 /\ limit = 0 /\ interval = INITIAL_INTERVAL
  /\ response = <<>> /\ outcome = "unset" /\ events = {} /\ start = "waiting" /\ probe \in BOOLEAN

Matches(r) == Len(r) >= 2 /\ r[1] = "a" /\ r[2] = "b"
Waits == start \in {"waiting", "probing"}

-----------------------------------------------------------------------------
(* The guest.                                                                *)

Lives == guest # "exited" /\ Waits
Listens == \E t \in Threads : sock[t] = "listening"

\* bind_tcp: the manifest's port takes the passed socket, which is there once; another
\* port is bound to nothing.
Bind(t, port) ==
  /\ Lives /\ sock[t] = "none"
  /\ \/ port = "other" /\ sock' = [sock EXCEPT ![t] = "unserved"] /\ UNCHANGED passed
     \/ port = "listen" /\ passed /\ passed' = FALSE /\ sock' = [sock EXCEPT ![t] = "bound"]
  /\ UNCHANGED <<now, guest, since, conn, sent, pc, timer, response, outcome, events, start, probe>>

\* PassedBoundSocket::listen; UnservedBoundSocket's refuses.
Listen(t) ==
  /\ Lives /\ sock[t] = "bound" /\ sock' = [sock EXCEPT ![t] = "listening"]
  /\ events' = events \cup {"listening"}
  /\ UNCHANGED <<now, passed, guest, since, conn, sent, pc, timer, response, outcome, start, probe>>

\* The port probe of the guest's libc is over.
DropUnserved(t) ==
  /\ Lives /\ sock[t] = "unserved" /\ sock' = [sock EXCEPT ![t] = "none"]
  /\ UNCHANGED <<now, passed, guest, since, conn, sent, pc, timer, response, outcome, events, start, probe>>

GuestServes ==
  /\ Lives /\ guest = "starting" /\ Listens /\ guest' = "serving" /\ since' = now
  /\ UNCHANGED <<now, passed, sock, conn, sent, pc, timer, response, outcome, events, start, probe>>

GuestExits ==
  /\ Lives /\ guest' = "exited" /\ conn' = IF conn = "open" THEN "ended" ELSE conn
  /\ UNCHANGED <<now, passed, sock, since, sent, pc, timer, response, outcome, events, start, probe>>

\* try_accept.
Accept ==
  /\ Lives /\ conn = "queued" /\ Listens /\ conn' = "open"
  /\ UNCHANGED <<now, passed, sock, guest, since, sent, pc, timer, response, outcome, events, start, probe>>

Due == guest = "serving" /\ conn = "open" /\ sent \in {<<>>, <<"a">>}

\* A guest that serves answers what the pattern wants, a piece at a time.
Answer ==
  /\ Lives /\ Due /\ sent' = Append(sent, IF sent = <<>> THEN "a" ELSE "b")
  /\ UNCHANGED <<now, passed, sock, guest, since, conn, pc, timer, response, outcome, events, start, probe>>

\* One that does not yet says anything else, and may hang up.
TurnAway ==
  /\ Lives /\ guest = "starting" /\ conn = "open"
  /\ \/ /\ Len(sent) < RESPONSE_CAP /\ UNCHANGED conn
        /\ \E p \in Pieces : sent' = Append(sent, p) /\ ~Matches(sent')
     \/ conn' = "ended" /\ UNCHANGED sent
  /\ UNCHANGED <<now, passed, sock, guest, since, pc, timer, response, outcome, events, start, probe>>

-----------------------------------------------------------------------------
(* The probe's thread.                                                       *)

NotifiesFirst(o) == pc' = "ending" /\ events' = events \cup {"probed"} /\ UNCHANGED outcome

\* outcome.set, and only then notify.
Ends(o) == pc' = "ending" /\ outcome' = o /\ UNCHANGED events

\* (interval * 2).min(MAX_INTERVAL)
Doubled == IF interval * 2 < MAX_INTERVAL THEN interval * 2 ELSE MAX_INTERVAL

\* The attempt fell short: it was the last, or the next follows a pause.
FallsShort ==
  /\ \/ now >= DEADLINE /\ Ends("err") /\ UNCHANGED timer
     \/ /\ now < DEADLINE /\ pc' = "sleeping" /\ wake' = now + interval /\ interval' = Doubled
        /\ UNCHANGED <<limit, outcome, events>>
  /\ conn' = "none" /\ sent' = <<>>

\* The connection opens and the probe's bytes go out.
Connect ==
  /\ pc = "connecting" /\ Waits /\ pc' = "reading" /\ conn' = "queued"
  /\ limit' = now + ATTEMPT_DEADLINE /\ wake' = now + READ_TIMEOUT
  /\ UNCHANGED <<now, passed, sock, guest, since, sent, interval, response, outcome, events, start, probe>>

\* The backlog is full until the timeout, or the guest resets the connection first.
ConnectFails ==
  /\ pc = "connecting" /\ Waits /\ guest # "serving" /\ FallsShort
  /\ UNCHANGED <<now, passed, sock, guest, since, response, start, probe>>

Unread == SubSeq(sent, Len(response) + 1, Len(sent))
Silent == Unread = <<>> /\ conn # "ended"

ReadAgain ==
  /\ wake' = now + READ_TIMEOUT /\ UNCHANGED <<pc, conn, sent, limit, interval, outcome, events>>

NoDeadline == Len(response') < RESPONSE_CAP

\* The condition of attempt's loop.
GoesOn == now < limit /\ Len(response') < RESPONSE_CAP

\* A read returns: with a piece that completes the pattern or not, at the connection's
\* end, or empty-handed.  The loop looks at its deadline only now.
Read ==
  /\ pc = "reading" /\ Waits
  /\ \/ /\ \E n \in 1..Len(Unread) : response' = response \o SubSeq(Unread, 1, n)
        /\ \/ Matches(response') /\ Ends("ok") /\ UNCHANGED <<conn, sent, timer>>
           \/ /\ ~Matches(response')
              /\ IF GoesOn THEN ReadAgain ELSE FallsShort
     \/ Unread = <<>> /\ conn = "ended" /\ FallsShort /\ UNCHANGED response
     \/ /\ Silent /\ now = wake /\ UNCHANGED response
        /\ IF GoesOn THEN ReadAgain ELSE FallsShort
  /\ UNCHANGED <<now, passed, sock, guest, since, start, probe>>

\* let mut response = Vec::new()
NewResponse == response' = <<>>

\* The pause is over: the next attempt.
Sleep ==
  /\ pc = "sleeping" /\ Waits /\ now = wake /\ pc' = "connecting" /\ wake' = now + CONNECT_TIMEOUT
  /\ NewResponse
  /\ UNCHANGED <<now, passed, sock, guest, since, conn, sent, limit, interval, outcome, events, start, probe>>

Notify ==
  /\ pc = "ending" /\ Waits /\ pc' = "done" /\ events' = events \cup {"probed"}
  /\ UNCHANGED <<now, passed, sock, guest, since, conn, sent, timer, response, outcome, start, probe>>

ProbeStep == Connect \/ ConnectFails \/ Read \/ Sleep \/ Notify

-----------------------------------------------------------------------------
(* start.                                                                    *)

\* The outcome, or that there is none.
Probed == start' = IF outcome = "ok" THEN "ready" ELSE "failed"

Spawns == "listening" \in events /\ probe /\ pc = "none"

\* One turn of start's loop: drain the pipe, then look at what it held, at the outcome
\* and at the guest.  (What comes down the channel meanwhile: HostLoop.)
StartTurn ==
  /\ Waits /\ (events # {} \/ guest = "exited") /\ events' = {}
  /\ IF Spawns
       THEN pc' = "connecting" /\ wake' = now + CONNECT_TIMEOUT /\ UNCHANGED <<limit, interval>>
       ELSE UNCHANGED <<pc, timer>>
  /\ CASE "listening" \in events /\ ~probe -> start' = "ready"
       [] "probed" \in events -> Probed
       [] OTHER -> start' = IF guest = "exited" THEN "exited" ELSE IF Spawns THEN "probing" ELSE start
  /\ UNCHANGED <<now, passed, sock, guest, since, conn, sent, response, outcome, probe>>

-----------------------------------------------------------------------------
(* Time.                                                                     *)

\* The probe's thread has nothing to do before wake.
Blocked ==
  /\ now < wake
  /\ \/ pc = "connecting" /\ guest # "serving"
     \/ pc = "reading" /\ Silent /\ (guest = "serving" => conn # "queued" /\ ~Due)
     \/ pc = "sleeping"

Tick ==
  /\ Waits /\ Blocked /\ events = {} /\ guest # "exited" /\ now' = now + 1
  /\ UNCHANGED <<passed, sock, guest, since, conn, sent, pc, timer, response, outcome, events, start, probe>>

Next ==
  \/ \E t \in Threads : Listen(t) \/ DropUnserved(t) \/ \E port \in {"listen", "other"} : Bind(t, port)
  \/ GuestServes \/ GuestExits \/ Accept \/ Answer \/ TurnAway
  \/ ProbeStep \/ StartTurn \/ Tick

Spec == Init /\ [][Next]_vars

-----------------------------------------------------------------------------
(* Properties.                                                               *)

LongestAttempt == CONNECT_TIMEOUT + ATTEMPT_DEADLINE + READ_TIMEOUT

\* start gives up on a guest that does not answer "within DEADLINE", and the probe's
\* thread ends "either way, so a later freeze still drains to one thread": it never
\* outlives the deadline by more than one pause and one attempt, whatever the guest
\* accepts, says, leaves unsaid or hangs up on.
ProbeEndsInTime == now < DEADLINE + MAX_INTERVAL + LongestAttempt + 1

\* "Ready means the server answered as a serving guest does": the whole pattern, at the
\* start of one connection, and not put together from the answers to several.
ReadyMeansAnswered == start = "ready" /\ probe => Matches(sent)

\* And the other way around: a guest that serves in good time becomes ready.  start fails
\* only where the guest did not serve by the beginning of the last attempt, although
\* answers come in pieces, connections opened before it served are lost, and every drain
\* of the pipe forgets.
ReadyMeansServing ==
  /\ ReadyMeansAnswered
  /\ start = "failed" => outcome = "err" /\ (guest # "serving" \/ since + LongestAttempt >= DEADLINE)

=============================================================================
