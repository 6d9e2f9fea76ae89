------------------------------- MODULE Serve -------------------------------
(***************************************************************************)
(* The life of `servicecache serve` around its socket: claiming the path,  *)
(* binding, serving until a signal, draining, and removing the path.       *)
(* Several servers are started on one path.  From serve/mod.rs.            *)
(***************************************************************************)
EXTENDS Naturals, FiniteSets

CONSTANTS
  Servers,     \* bound: the processes started on the path
  Overlapping, \* may a server be starting or stopping while another does?
  None         \* no file at the path

VARIABLES
  pc,        \* each process: where it is
  socket,    \* whose socket file is at the path
  listening, \* the processes whose listener is open
  signalled, \* the processes that got SIGINT or SIGTERM
  clients    \* the processes with a connection still open

vars == <<pc, socket, listening, signalled, clients>>

Starting == {"claim", "connect", "remove", "bind"}
Stopping == {"drain", "unlink"}
Gone == {"exited", "refused", "failed", "killed"}

TypeOK ==
  /\ pc \in [Servers -> {"idle", "serving"} \cup Starting \cup Stopping \cup Gone]
  /\ socket \in Servers \cup {None}
  /\ listening = {s \in Servers : pc[s] = "serving"} /\ signalled \subseteq Servers
  /\ clients \subseteq {s \in Servers : pc[s] \in {"serving", "drain"}}

Init ==
  /\ pc = [s \in Servers |-> "idle"] /\ socket = None
  /\ listening = {} /\ signalled = {} /\ clients = {}

Goes(s, step) == pc' = [pc EXCEPT ![s] = step]

\* Nobody else is between its first step and its bind, or between its signal and
\* its exit.
Alone(s) ==
  \A t \in Servers \ {s} :
    pc[t] \notin Starting \cup Stopping /\ (t \in signalled => pc[t] \in Gone)

-----------------------------------------------------------------------------
Start(s) ==
  /\ pc[s] = "idle" /\ (Overlapping \/ Alone(s))
  /\ Goes(s, "claim") /\ UNCHANGED <<socket, listening, signalled, clients>>

\* socket.exists(); the parent directory is made when there is none.
Exists(s) ==
  /\ pc[s] = "claim"
  /\ \/ socket # None /\ Goes(s, "connect")
     \/ socket = None /\ (Goes(s, "bind") \/ Goes(s, "failed"))
  /\ UNCHANGED <<socket, listening, signalled, clients>>

NobodyAnswers(s) ==
  /\ pc[s] = "connect" /\ Goes(s, "remove")
  /\ UNCHANGED <<socket, listening, signalled, clients>>

\* UnixStream::connect: whoever holds the path now, if it still listens.
Connect(s) ==
  /\ pc[s] = "connect"
  /\ \/ socket # None /\ socket \in listening /\ Goes(s, "refused")
     \/ (socket = None \/ socket \notin listening) /\ Goes(s, "remove")
  /\ UNCHANGED <<socket, listening, signalled, clients>>

\* remove_file: by name, whatever is there now.
Remove(s) ==
  /\ pc[s] = "remove"
  /\ \/ socket # None /\ socket' = None /\ Goes(s, "bind")
     \/ socket = None /\ Goes(s, "failed") /\ UNCHANGED socket
  /\ UNCHANGED <<listening, signalled, clients>>

\* The recipe roots or the runtime cannot be set up: the one error that skips the
\* removal at the end of run.
SetupFails(s) ==
  /\ pc[s] = "bind" /\ Goes(s, "failed") /\ UNCHANGED <<socket, listening, signalled, clients>>

\* bind fails where a file is; run goes on to its last line.
Bind(s) ==
  /\ pc[s] = "bind"
  /\ \/ /\ socket = None /\ socket' = s /\ listening' = listening \cup {s}
        /\ Goes(s, "serving")
     \/ Goes(s, "unlink") /\ UNCHANGED <<socket, listening>>
  /\ UNCHANGED <<signalled, clients>>

\* The signal handlers or the ready line fail.
ServeFails(s) ==
  /\ pc[s] = "serving" /\ s \notin clients /\ s \notin signalled /\ (Overlapping \/ Alone(s))
  /\ listening' = listening \ {s} /\ Goes(s, "unlink") /\ UNCHANGED <<socket, signalled, clients>>

AcceptsOn(s) ==
  /\ pc[s] \in {"serving", "drain"} /\ socket = s
  /\ clients' = clients \cup {s} /\ UNCHANGED <<pc, socket, listening, signalled>>

\* A client connects through the path.
Accept(s) ==
  /\ pc[s] = "serving" /\ socket = s /\ s \notin signalled
  /\ clients' = clients \cup {s} /\ UNCHANGED <<pc, socket, listening, signalled>>

ClientLeaves(s) ==
  /\ s \in clients /\ clients' = clients \ {s}
  /\ UNCHANGED <<pc, socket, listening, signalled>>

Signal(s) ==
  /\ pc[s] = "serving" /\ s \notin signalled /\ (Overlapping \/ Alone(s))
  /\ signalled' = signalled \cup {s} /\ UNCHANGED <<pc, socket, listening, clients>>

\* with_graceful_shutdown: the listener is closed first.
Shutdown(s) ==
  /\ pc[s] = "serving" /\ s \in signalled
  /\ listening' = listening \ {s} /\ Goes(s, "drain")
  /\ UNCHANGED <<socket, signalled, clients>>

\* The connections still open have ended; the registry and the templates are
\* cleared.
Drained(s) ==
  /\ pc[s] = "drain" /\ s \notin clients /\ Goes(s, "unlink")
  /\ UNCHANGED <<socket, listening, signalled, clients>>

\* remove_file(&options.socket).ok(): by name again.
Unlink(s) ==
  /\ pc[s] = "unlink" /\ socket' = None /\ Goes(s, "exited")
  /\ UNCHANGED <<listening, signalled, clients>>

\* SIGKILL at any point, or a signal before the handlers are installed.
Killed(s) ==
  /\ pc[s] \in {"serving"} \cup Starting \cup Stopping
  /\ Goes(s, "killed") /\ listening' = listening \ {s} /\ clients' = clients \ {s}
  /\ UNCHANGED <<socket, signalled>>

Step(s) ==
  Exists(s) \/ Connect(s) \/ Remove(s) \/ Bind(s) \/ Shutdown(s) \/ Drained(s) \/ Unlink(s)

Next ==
  \E s \in Servers :
    \/ Step(s) \/ Start(s) \/ Signal(s) \/ Accept(s) \/ ClientLeaves(s)
    \/ SetupFails(s) \/ ServeFails(s) \/ Killed(s)

Spec == Init /\ [][Next]_vars

\* A process runs on; clients finish in the end.
FairSpec == Spec /\ \A s \in Servers : WF_vars(Step(s)) /\ WF_vars(ClientLeaves(s))

-----------------------------------------------------------------------------
(* Properties.                                                               *)

\* "Serves the API until SIGINT or SIGTERM" (run): until then the path leads to
\* the server, whatever other servers do: a start "removes it if it is stale"
\* (claim_socket) and only then, and each end removes its own.
ReachableUntilSignalled ==
  \A s \in Servers : pc[s] = "serving" /\ s \notin signalled => socket = s

\* A server told to stop exits, whatever its clients were doing; and a start ends,
\* in serving, being refused because another answers, or an error of the system,
\* although a server that was killed left its socket.
StartsAndStopsEnd ==
  \A s \in Servers :
    /\ s \in signalled ~> pc[s] \in Gone
    /\ pc[s] \in Starting ~> pc[s] \in {"serving"} \cup Stopping \cup Gone

=============================================================================
