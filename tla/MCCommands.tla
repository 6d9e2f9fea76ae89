----------------------------- MODULE MCCommands -----------------------------
(***************************************************************************)
(* The long-lived commands in small instances: several `serve` on one path  *)
(* (Serve), one `run --clones` (RunClones), or one `request`                *)
(* (HoldInstance).  A behaviour is of one command.                          *)
(***************************************************************************)
EXTENDS HoldInstance

CONSTANTS
  s1, s2, s3, Servers, Overlapping, None,
  c1, c2, c3, Clones, Count, MaxTriggers

ASSUME ServeAssumption == None \notin Servers
\* --clones is a NonZeroUsize; a frame of the channel says what it is.
ASSUME RunAssumption ==
  Count \in Nat \ {0} /\ MaxTriggers \in Nat /\ Clones \cap {"guest", "frozen", "forked", "error"} = {}

VARIABLES
  command,
  server, socket, listening, signalled, clients,
  thread, left, request, channel, stash, clones, forking, failed, frozen, terminal, stdin, ended,
  trigger, given, template, clone, spoke, bad, result

serveVars == <<server, socket, listening, signalled, clients>>
runVars ==
  <<thread, left, request, channel, stash, clones, forking, failed, frozen, terminal, stdin, ended,
    trigger, given, template, clone, spoke, bad, result>>

S == INSTANCE Serve WITH pc <- server
R == INSTANCE RunClones WITH pc <- thread, closed <- ended, signal <- trigger

-----------------------------------------------------------------------------
NoServer == S!Init

NoClones ==
  /\ thread = "ended" /\ left = 0 /\ request = "none" /\ channel = <<>> /\ stash = {}
  /\ clones = {} /\ forking = {} /\ failed = {} /\ frozen = FALSE /\ terminal = FALSE
  /\ stdin = 0 /\ ended = FALSE /\ trigger = FALSE /\ given = 0 /\ template = "dead"
  /\ clone = [c \in Clones |-> "unborn"] /\ spoke = {} /\ bad = {} /\ result = "error"

NoInstance ==
  /\ pc = "released" /\ waited = 0 /\ lines = 0 /\ signal = FALSE /\ closed = FALSE
  /\ instance = "none" /\ lease = 0 /\ swept = FALSE /\ exited = FALSE

MCInit ==
  \/ command = "serve" /\ S!Init /\ NoClones /\ NoInstance
  \/ command = "run" /\ R!Init /\ NoServer /\ NoInstance
  \/ command = "request" /\ Init /\ NoServer /\ NoClones

Serving(step) == command = "serve" /\ step /\ UNCHANGED <<command, runVars, vars>>
Running(step) == command = "run" /\ step /\ UNCHANGED <<command, serveVars, vars>>
Holding(step) == command = "request" /\ step /\ UNCHANGED <<command, serveVars, runVars>>

MCNext == Serving(S!Next) \/ Running(R!Next) \/ Holding(Next)

all == <<command, serveVars, runVars, vars>>

\* The fairness of each module's FairSpec.
MCSpec ==
  /\ MCInit /\ [][MCNext]_all
  /\ \A s \in Servers : WF_all(Serving(S!Step(s))) /\ WF_all(Serving(S!ClientLeaves(s)))
  /\ WF_all(Running(R!Step)) /\ WF_all(Running(R!Template)) /\ WF_all(Running(R!CloneSpeaks))
  /\ WF_all(Holding(Step)) /\ WF_all(Holding(Tick)) /\ WF_all(Holding(Sweep))

-----------------------------------------------------------------------------
\* ReachableUntilSignalled of Serve: the path leads to the server until it is told to
\* stop.
ReachableUntilSignalled == S!ReachableUntilSignalled

\* StartsAndStopsEnd of Serve: a start and a stop end.
StartsAndStopsEnd == S!StartsAndStopsEnd

\* StatusOfAllClones of RunClones: `run --clones` outlives its clones and its status is
\* theirs.
StatusOfAllClones == R!StatusOfAllClones

\* RunEnds of RunClones: it ends with its template, or after the last clone.
RunEnds == R!RunEnds

=============================================================================
