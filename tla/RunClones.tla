----------------------------- MODULE RunClones -----------------------------
(***************************************************************************)
(* `servicecache run --clones N` (cli.rs, run_with_clones): one thread that *)
(* polls the template's control channel, SIGUSR1 and the terminal, and on   *)
(* each trigger freezes the template once and forks N clones off it.        *)
(***************************************************************************)
EXTENDS Naturals, Sequences, FiniteSets

CONSTANTS
  Clones,      \* bound: processes that may be forked, each pid once
  Count,       \* --clones
  MaxTriggers  \* bound: signals and lines given

VARIABLES
  pc,        \* "poll", "freeze", "fork", "reply", "announce" or "ended"
  left,      \* forks left of this batch
  request,   \* what the template was asked and has not answered
  channel,   \* frames from the template: a reply, the guest's or a clone's exit
  stash,     \* HostProcess::events of the template
  clones,    \* the handles held
  forking,   \* the clone of the fork under way, in a set
  failed,    \* clone_failed, as the clones it was set for
  frozen,
  terminal,  \* stdin is watched
  stdin,     \* lines that can be read
  closed,    \* stdin is at its end
  signal,    \* SIGUSR1 is pending
  given,     \* triggers given so far
  template,  \* the template's process: "runs", "frozen" or "dead"
  clone,     \* each clone: "unborn", "silent", "live", "zombie", "reaped"
  spoke,     \* clones that announced themselves
  bad,       \* clones whose guest ended with a status that is not zero
  result     \* how run_with_clones returned

manager == <<pc, left, stash, clones, forking, failed, frozen, terminal, result>>
triggers == <<stdin, closed, signal, given>>
hosts == <<template, clone, spoke, bad>>
vars == <<manager, request, channel, triggers, hosts>>

TypeOK ==
  /\ pc \in {"poll", "freeze", "fork", "reply", "announce", "ended"} /\ left \in 0..Count
  /\ request \in {"none", "freeze", "fork"}
  /\ channel \in Seq({"guest", "frozen", "forked", "error"} \cup Clones)
  /\ stash \subseteq Clones /\ clones \subseteq Clones /\ failed \subseteq Clones
  /\ forking \subseteq Clones /\ Cardinality(forking) <= 1
  /\ frozen \in BOOLEAN /\ terminal \in BOOLEAN /\ closed \in BOOLEAN /\ signal \in BOOLEAN
  /\ stdin \in 0..MaxTriggers /\ given \in 0..MaxTriggers
  /\ template \in {"runs", "frozen", "dead"}
  /\ clone \in [Clones -> {"unborn", "silent", "live", "zombie", "reaped"}]
  /\ spoke \subseteq Clones /\ bad \subseteq Clones
  /\ result \in {"none", "guest", "clones", "clone_failed", "error"}

Init ==
  /\ pc = "poll" /\ left = 0 /\ request = "none" /\ channel = <<>> /\ stash = {}
  /\ clones = {} /\ forking = {} /\ failed = {} /\ frozen = FALSE /\ terminal \in BOOLEAN
  /\ stdin = 0 /\ closed = FALSE /\ signal = FALSE /\ given = 0
  /\ template = "runs" /\ clone = [c \in Clones |-> "unborn"] /\ spoke = {} /\ bad = {}
  /\ result = "none"

-----------------------------------------------------------------------------
(* The manager's thread.                                                     *)

Returns(how) ==
  /\ pc' = "ended" /\ result' = how
  /\ UNCHANGED <<left, stash, forking, frozen, terminal>>

Arrived == channel # <<>>
Eof == channel = <<>> /\ template = "dead"
StdinReady == terminal /\ (stdin > 0 \/ closed)

\* clones.retain.
Retained(c) == clones \ {c}

WasEmpty(c) == clones = {}

LastGone(c) == Retained(c) = {}

Batch == Count

FailedLast(c) == IF c \in bad THEN {c} ELSE {}

\* clone_failed |= status != 0.
FailedAfter(c) == IF c \in bad THEN failed \cup {c} ELSE failed

\* poll finds the template readable and the loop ends: the guest exited, the
\* channel closed, or the clone that exited was the last one held.
EventEnds ==
  /\ pc = "poll"
  /\ \/ Eof /\ Returns("error") /\ UNCHANGED <<channel, clones, failed>>
     \/ /\ Arrived /\ Head(channel) = "guest" /\ Returns("guest")
        /\ channel' = Tail(channel) /\ UNCHANGED <<clones, failed>>
     \/ /\ Arrived /\ Head(channel) \in Clones /\ LastGone(Head(channel))
        /\ clones' = Retained(Head(channel)) /\ failed' = FailedAfter(Head(channel)) /\ channel' = Tail(channel)
        /\ Returns(IF failed' # {} THEN "clone_failed" ELSE "clones")
  /\ UNCHANGED <<request, triggers, hosts>>

\* Otherwise one event, one signal and one line are read, whichever are ready; a
\* signal or a line makes it fork.
Turn ==
  /\ pc = "poll" /\ ~Eof /\ (Arrived \/ signal \/ StdinReady)
  /\ Arrived => Head(channel) \in Clones /\ ~LastGone(Head(channel))
  /\ clones' = IF Arrived THEN Retained(Head(channel)) ELSE clones
  /\ failed' = IF Arrived THEN FailedAfter(Head(channel)) ELSE failed
  /\ channel' = IF Arrived THEN Tail(channel) ELSE channel
  /\ signal' = FALSE
  /\ stdin' = IF StdinReady /\ stdin > 0 THEN stdin - 1 ELSE stdin
  /\ terminal' = (terminal /\ (stdin > 0 \/ ~closed))
  /\ IF signal \/ (StdinReady /\ stdin > 0)
       THEN left' = Batch /\ pc' = IF frozen THEN "fork" ELSE "freeze"
       ELSE UNCHANGED <<left, pc>>
  /\ UNCHANGED <<stash, forking, frozen, result, request, closed, given, hosts>>

\* Sending fails once the template is dead.
Ask(step, what) ==
  /\ pc = step /\ request = "none"
  /\ \/ /\ template # "dead" /\ request' = what /\ pc' = "reply"
        /\ UNCHANGED <<left, stash, forking, frozen, terminal, result>>
     \/ template = "dead" /\ Returns("error") /\ UNCHANGED request
  /\ UNCHANGED <<clones, failed, channel, triggers, hosts>>

\* HostProcess::reply: until the reply, exits go to events, which nobody takes; a
\* refusal, the guest's exit and a closed channel are errors.
ReadReply ==
  /\ pc = "reply"
  /\ \/ /\ Eof \/ (Arrived /\ Head(channel) \in {"guest", "error"})
        /\ Returns("error") /\ UNCHANGED clones
     \/ /\ Arrived /\ Head(channel) \in Clones
        /\ stash' = stash \cup {Head(channel)}
        /\ UNCHANGED <<pc, left, clones, forking, frozen, terminal, result>>
     \/ /\ Arrived /\ Head(channel) = "frozen" /\ frozen' = TRUE /\ pc' = "fork"
        /\ UNCHANGED <<left, stash, clones, forking, terminal, result>>
     \/ /\ Arrived /\ Head(channel) = "forked" /\ pc' = "announce"
        /\ UNCHANGED <<left, stash, clones, forking, frozen, terminal, result>>
  /\ channel' = IF Arrived THEN Tail(channel) ELSE channel
  /\ UNCHANGED <<failed, request, triggers, hosts>>

\* The clone speaks on its own channel, or that channel closes.
Announce ==
  /\ pc = "announce"
  /\ \E c \in forking :
       \/ /\ c \in spoke /\ clones' = clones \cup {c} /\ forking' = {}
          /\ left' = left - 1 /\ pc' = IF left = 1 THEN "poll" ELSE "fork"
          /\ UNCHANGED <<stash, frozen, terminal, result>>
       \/ c \notin spoke /\ clone[c] \in {"zombie", "reaped"} /\ Returns("error") /\ UNCHANGED clones
  /\ UNCHANGED <<failed, request, channel, triggers, hosts>>

Step ==
  EventEnds \/ Turn \/ Ask("freeze", "freeze") \/ Ask("fork", "fork") \/ ReadReply \/ Announce

-----------------------------------------------------------------------------
(* The template's process, its clones, and whoever gives triggers.           *)

TemplateFreezes ==
  /\ template = "runs" /\ request = "freeze" /\ request' = "none" /\ template' = "frozen"
  /\ channel' = Append(channel, "frozen") /\ UNCHANGED <<manager, triggers, clone, spoke, bad>>

Unborn == {c \in Clones : clone[c] = "unborn"}

\* The kernel gives the clone a pid nothing had before; which one makes no difference.
TemplateForks ==
  /\ template = "frozen" /\ request = "fork" /\ request' = "none"
  /\ channel' = Append(channel, "forked")
  /\ Unborn # {}
  /\ LET c == CHOOSE c \in Unborn : TRUE IN
     clone' = [clone EXCEPT ![c] = "silent"] /\ forking' = {c}
  /\ UNCHANGED <<pc, left, stash, clones, failed, frozen, terminal, result, triggers,
                 template, spoke, bad>>

\* A freeze or a fork that fails leaves the template as it was.
TemplateRefuses ==
  /\ template # "dead" /\ request # "none" /\ request' = "none"
  /\ channel' = Append(channel, "error") /\ UNCHANGED <<manager, triggers, hosts>>

\* tick reaps a clone and reports its exit.
Reap ==
  /\ template = "frozen"
  /\ \E c \in Clones : clone[c] = "zombie" /\ clone' = [clone EXCEPT ![c] = "reaped"]
                       /\ channel' = Append(channel, c)
  /\ UNCHANGED <<manager, request, triggers, template, spoke, bad>>

\* Only a guest that is not frozen runs; its host ends after reporting.
GuestExits ==
  /\ template = "runs" /\ channel' = Append(channel, "guest") /\ template' = "dead"
  /\ request' = "none" /\ UNCHANGED <<manager, triggers, clone, spoke, bad>>

\* The template's process dies, and its clones with it.
TemplateDies ==
  /\ template # "dead" /\ template' = "dead" /\ request' = "none"
  /\ clone' = [c \in Clones |-> IF clone[c] = "unborn" THEN "unborn" ELSE "reaped"]
  /\ UNCHANGED <<manager, channel, triggers, spoke, bad>>

CloneSpeaks ==
  /\ \E c \in Clones : /\ clone[c] = "silent" /\ clone' = [clone EXCEPT ![c] = "live"]
                       /\ spoke' = spoke \cup {c}
  /\ UNCHANGED <<manager, request, channel, triggers, template, bad>>

\* A clone's guest ends, with or without error, or its process crashes.
CloneExits ==
  /\ \E c \in Clones : /\ clone[c] \in {"silent", "live"} /\ clone' = [clone EXCEPT ![c] = "zombie"]
                       /\ bad' \in {bad, bad \cup {c}}
  /\ UNCHANGED <<manager, request, channel, triggers, template, spoke>>

Trigger ==
  /\ pc # "ended" /\ given < MaxTriggers /\ given' = given + 1
  /\ \/ signal' = TRUE /\ UNCHANGED stdin
     \/ ~closed /\ stdin' = stdin + 1 /\ UNCHANGED signal
  /\ UNCHANGED <<manager, request, channel, closed, hosts>>

StdinCloses ==
  /\ ~closed /\ closed' = TRUE
  /\ UNCHANGED <<manager, request, channel, stdin, signal, given, hosts>>

Template == TemplateFreezes \/ TemplateForks \/ TemplateRefuses \/ Reap

Next ==
  \/ Step \/ Template \/ CloneSpeaks
  \/ GuestExits \/ TemplateDies \/ CloneExits \/ Trigger \/ StdinCloses

Spec == Init /\ [][Next]_vars

\* The thread and the hosts run on; nothing obliges a guest to exit, a process to
\* die or a user to act.
FairSpec == Spec /\ WF_vars(Step) /\ WF_vars(Template) /\ WF_vars(CloneSpeaks)

-----------------------------------------------------------------------------
(* Properties.                                                               *)

Living == {c \in Clones : clone[c] \in {"silent", "live"}}

\* "once frozen until the last clone has [exited]", "the exit status, non-zero if any
\* clone's was" (run_with_clones): it does not return for want of clones while one
\* runs, nor with a batch half done, and its status tells whether any of all that ran
\* failed.
StatusOfAllClones ==
  result \in {"clones", "clone_failed"} =>
    Living = {} /\ left = 0 /\ forking = {} /\ (result = "clones" <=> bad = {})

\* "Runs until the last clone exits" (cli.rs, --clones): once clones were forked and
\* none runs any more, it ends, unless a further trigger forks new ones, or unless
\* the exit of one it holds was read while it forked another: that one is in
\* HostProcess::events, which it never takes, and it waits for it for ever.  And
\* "runs until the guest exits": it ends when the template goes, whatever it did.
RunEnds ==
  /\ (clones # {} /\ Living = {}) ~> (pc = "ended" \/ Living # {} \/ clones \cap stash # {})
  /\ (template = "dead") ~> (pc = "ended")

=============================================================================
