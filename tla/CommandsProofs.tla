--------------------------- MODULE CommandsProofs ---------------------------
(***************************************************************************)
(* What the long-lived commands promise, for any number of servers, clones  *)
(* and lines: a server stays reachable (Serve), `run --clones` tells the    *)
(* status of all its clones (RunClones), `request` keeps what it holds      *)
(* (HoldInstance).                                                          *)
(***************************************************************************)
EXTENDS MCCommands, FiniteSetTheorems, SequenceTheorems, TLAPS

-----------------------------------------------------------------------------
(* Serve.                                                                    *)

\* Between its first step and its bind, or between its signal and its exit.
Busy(s) ==
  \/ server[s] \in S!Starting \cup S!Stopping
  \/ s \in signalled /\ server[s] \notin S!Gone

\* The steps that touch the file at the path, and serving itself, are one server's.
Holds(s) == server[s] \in {"remove", "bind", "serving"} \cup S!Stopping

ServeInv ==
  /\ S!TypeOK /\ ReachableUntilSignalled
  /\ \A s, t \in Servers : Busy(s) /\ Busy(t) => s = t
  /\ \A s, t \in Servers : Holds(s) /\ server[t] = "serving" => s = t

\* No step of a server that is alone takes the path from another.
LEMMA NextServe ==
  ASSUME ~Overlapping, ServeInv, [S!Next]_(S!vars)
  PROVE  ServeInv'
<1> USE ServeAssumption DEF ServeInv, S!TypeOK, ReachableUntilSignalled, S!ReachableUntilSignalled,
      Busy, Holds, S!Starting, S!Stopping, S!Gone, S!Goes
<1>1. ASSUME NEW s \in Servers, S!Exists(s) PROVE ServeInv'
  BY <1>1 DEF S!Exists
<1>2. ASSUME NEW s \in Servers, S!Connect(s) PROVE ServeInv'
  BY <1>2 DEF S!Connect
<1>3. ASSUME NEW s \in Servers, S!Remove(s) PROVE ServeInv'
  BY <1>3 DEF S!Remove
<1>4. ASSUME NEW s \in Servers, S!Bind(s) PROVE ServeInv'
  BY <1>4 DEF S!Bind
<1>5. ASSUME NEW s \in Servers, S!Shutdown(s) PROVE ServeInv'
  BY <1>5 DEF S!Shutdown
<1>6. ASSUME NEW s \in Servers, S!Drained(s) PROVE ServeInv'
  BY <1>6 DEF S!Drained
<1>7. ASSUME NEW s \in Servers, S!Unlink(s) PROVE ServeInv'
  BY <1>7 DEF S!Unlink
<1>8. ASSUME NEW s \in Servers, S!Start(s) PROVE ServeInv'
  BY <1>8 DEF S!Start, S!Alone
<1>9. ASSUME NEW s \in Servers, S!Signal(s) PROVE ServeInv'
  BY <1>9 DEF S!Signal, S!Alone
<1>10. ASSUME NEW s \in Servers, S!Accept(s) PROVE ServeInv'
  BY <1>10 DEF S!Accept
<1>11. ASSUME NEW s \in Servers, S!ClientLeaves(s) PROVE ServeInv'
  BY <1>11 DEF S!ClientLeaves
<1>12. ASSUME NEW s \in Servers, S!SetupFails(s) PROVE ServeInv'
  BY <1>12 DEF S!SetupFails
<1>13. ASSUME NEW s \in Servers, S!ServeFails(s) PROVE ServeInv'
  BY <1>13 DEF S!ServeFails, S!Alone
<1>14. ASSUME NEW s \in Servers, S!Killed(s) PROVE ServeInv'
  BY <1>14 DEF S!Killed
<1>15. CASE UNCHANGED S!vars
  BY <1>15 DEF S!vars
<1>16. QED
  BY <1>1, <1>2, <1>3, <1>4, <1>5, <1>6, <1>7, <1>8, <1>9, <1>10, <1>11, <1>12, <1>13, <1>14,
     <1>15 DEF S!Next, S!Step

\* run of serve/mod.rs: of any number of servers on one path, one starting or stopping
\* at a time and any of them killed at any point, each is reached through the path for
\* as long as it serves and was not told to stop.
THEOREM ServersReachable ==
  ASSUME ~Overlapping
  PROVE  S!Spec => []ReachableUntilSignalled
<1>1. S!Init => ServeInv
  BY Zenon DEF S!Init, ServeInv, S!TypeOK, ReachableUntilSignalled, S!ReachableUntilSignalled, Busy, Holds,
     S!Starting, S!Stopping, S!Gone
<1>2. ServeInv /\ [S!Next]_(S!vars) => ServeInv'
  BY Zenon, NextServe
<1>3. ServeInv => ReachableUntilSignalled
  BY Zenon DEF ServeInv
<1>4. QED
  BY <1>1, <1>2, <1>3, PTL DEF S!Spec

-----------------------------------------------------------------------------
(* RunClones.                                                                *)

Replies == {"frozen", "forked", "error"}
Frames == {"guest"} \cup Replies \cup Clones

\* The frames not read yet: an exit is of a clone that was reaped, and there is at most
\* one reply, to a request no longer pending.
ChannelInv ==
  /\ channel \in Seq(Frames)
  /\ \A i \in 1..Len(channel) :
       /\ channel[i] \in Clones => clone[channel[i]] = "reaped"
       /\ channel[i] = "guest" => template = "dead"
       /\ channel[i] \in Replies =>
            request = "none" /\ thread \in {"reply", "ended"}
            /\ \A j \in 1..Len(channel) : channel[j] \in Replies => i = j

\* A request is pending only while its reply is awaited, and the clone of a fork is known
\* from the fork until it has announced itself.
RequestInv ==
  /\ request # "none" => thread = "reply" /\ template # "dead" /\ forking = {}
  /\ \A c, d \in forking : c = d
  /\ forking # {} =>
       \/ thread \in {"announce", "ended"}
       \/ thread = "reply" /\ \E i \in 1..Len(channel) : channel[i] = "forked"
  /\ left \in 0..Count /\ (thread = "poll" => left = 0)
  /\ thread \in {"freeze", "fork", "reply", "announce"} => left # 0

\* A clone that was born is held, or about to be, or its exit was counted.
CloneInv ==
  /\ clone \in [Clones -> {"unborn", "silent", "live", "zombie", "reaped"}]
  /\ clones \subseteq Clones /\ forking \subseteq Clones /\ failed \subseteq bad
  /\ bad \subseteq {c \in Clones : clone[c] # "unborn"}
  /\ \A c \in Clones :
       clone[c] # "unborn" =>
         c \in clones \cup forking \/ (clone[c] = "reaped" /\ (c \in bad => c \in failed))

ResultInv ==
  /\ StatusOfAllClones
  /\ result \in {"clones", "clone_failed"} => thread = "ended"

\* The first frame is read: what holds of the others holds still.
LEMMA TailFrames ==
  ASSUME NEW T, NEW s \in Seq(T), s # <<>>
  PROVE  /\ Tail(s) \in Seq(T) /\ Len(s) \in Nat \ {0} /\ Len(Tail(s)) = Len(s) - 1
         /\ \A i \in 1..Len(Tail(s)) : i + 1 \in 1..Len(s) /\ Tail(s)[i] = s[i + 1]
         /\ Head(s) = s[1] /\ s[1] \in T
  OBVIOUS

\* A frame is sent.
LEMMA AppendFrames ==
  ASSUME NEW T, NEW s \in Seq(T), NEW e \in T
  PROVE  /\ Append(s, e) \in Seq(T) /\ Len(s) \in Nat /\ Len(Append(s, e)) = Len(s) + 1
         /\ \A i \in 1..Len(s) : i \in 1..Len(Append(s, e)) /\ Append(s, e)[i] = s[i]
         /\ \A i \in 1..Len(Append(s, e)) : i \in 1..Len(s) \/ i = Len(s) + 1
         /\ Append(s, e)[Len(s) + 1] = e
  OBVIOUS

\* Reading a frame keeps what the others say, if a reply that remains is still awaited.
LEMMA FrameTaken ==
  ASSUME ChannelInv, channel # <<>>, channel' = Tail(channel), UNCHANGED <<clone, template, request>>,
         thread \in {"reply", "ended"} /\ Head(channel) \notin Replies => thread' \in {"reply", "ended"}
  PROVE  ChannelInv'
<1>1. /\ channel' \in Seq(Frames) /\ Len(channel) \in Nat \ {0} /\ Len(channel') = Len(channel) - 1
      /\ \A i \in 1..Len(channel') : i + 1 \in 1..Len(channel) /\ channel'[i] = channel[i + 1]
      /\ Head(channel) = channel[1]
  BY TailFrames DEF ChannelInv
<1>2. SUFFICES ASSUME NEW i \in 1..Len(channel')
               PROVE  /\ channel'[i] \in Clones => clone'[channel'[i]] = "reaped"
                      /\ channel'[i] = "guest" => template' = "dead"
                      /\ channel'[i] \in Replies =>
                           request' = "none" /\ thread' \in {"reply", "ended"}
                           /\ \A j \in 1..Len(channel') : channel'[j] \in Replies => i = j
  BY Zenon, <1>1 DEF ChannelInv
<1>3. i + 1 \in 1..Len(channel) /\ channel'[i] = channel[i + 1] /\ 1 \in 1..Len(channel) /\ i + 1 # 1
  BY <1>1
<1>4. ASSUME channel'[i] \in Replies PROVE Head(channel) \notin Replies /\ thread \in {"reply", "ended"}
  BY Zenon, <1>1, <1>3, <1>4 DEF ChannelInv
<1>5. ASSUME channel'[i] \in Replies, NEW j \in 1..Len(channel'), channel'[j] \in Replies PROVE i = j
  <2>1. j + 1 \in 1..Len(channel) /\ channel'[j] = channel[j + 1]
    BY Zenon, <1>1
  <2>2. i + 1 = j + 1
    BY Zenon, <1>3, <1>5, <2>1 DEF ChannelInv
  <2>3. QED
    BY <1>1, <2>2
<1>6. QED
  BY Zenon, <1>3, <1>4, <1>5 DEF ChannelInv

RunInv == ChannelInv /\ RequestInv /\ CloneInv /\ ResultInv


\* Every step of the thread, the template, the clones and the user keeps RunInv.
LEMMA NextRun ==
  ASSUME RunInv, [R!Next]_(R!vars)
  PROVE  RunInv'
<1> USE RunAssumption DEF RunInv, Replies, Frames, R!manager, R!triggers, R!hosts
<1>1. CASE R!EventEnds
  <2> USE <1>1 DEF R!EventEnds, R!Returns, R!Arrived, R!Eof
  <2>1. thread = "poll" /\ thread' = "ended" /\ UNCHANGED <<request, left, forking, clone, bad, template>>
    BY Zenon
  <2>2. ChannelInv'
    <3>1. CASE channel' = channel BY Zenon, <2>1, <3>1 DEF ChannelInv
    <3>2. CASE channel # <<>> /\ channel' = Tail(channel)
      BY Zenon, <2>1, <3>2, FrameTaken
    <3>3. QED BY Zenon, <3>1, <3>2
  <2>3. RequestInv'
    BY Zenon, <2>1 DEF RequestInv
  <2>4. CloneInv'
    BY <2>1, TailFrames DEF CloneInv, ChannelInv, R!Retained, R!FailedAfter
  <2>5. ResultInv'
    BY <2>1, TailFrames DEF ResultInv, StatusOfAllClones, R!StatusOfAllClones, R!Living, ChannelInv, CloneInv,
       RequestInv, R!LastGone, R!Retained, R!FailedAfter
  <2>6. QED BY <2>2, <2>3, <2>4, <2>5
<1>2. CASE R!Turn
  <2> USE <1>2 DEF R!Turn, R!Arrived, R!Eof
  <2>1. thread = "poll" /\ thread' # "ended" /\ UNCHANGED <<request, forking, clone, bad, template, result>>
    BY Zenon
  <2>2. ChannelInv'
    BY <2>1, TailFrames DEF ChannelInv
  <2>3. RequestInv'
    BY <2>1 DEF RequestInv, R!Batch
  <2>4. CloneInv'
    BY <2>1, TailFrames DEF CloneInv, ChannelInv, R!Retained, R!FailedAfter
  <2>5. ResultInv'
    BY Zenon, <2>1 DEF ResultInv, StatusOfAllClones, R!StatusOfAllClones
  <2>6. QED BY Zenon, <2>2, <2>3, <2>4, <2>5
<1>3. ASSUME NEW step \in {"freeze", "fork"}, R!Ask(step, step) PROVE RunInv'
  <2> USE <1>3 DEF R!Ask, R!Returns
  <2>1. /\ thread = step /\ thread' \in {"reply", "ended"}
        /\ UNCHANGED <<channel, left, forking, clones, failed, clone, bad, template>>
    BY Zenon
  <2>2. ChannelInv'
    BY Zenon, <2>1 DEF ChannelInv
  <2>3. RequestInv'
    BY Zenon, <2>1 DEF RequestInv
  <2>4. CloneInv'
    BY Zenon, <2>1 DEF CloneInv
  <2>5. ResultInv'
    BY Zenon, <2>1 DEF ResultInv, StatusOfAllClones, R!StatusOfAllClones
  <2>6. QED BY Zenon, <2>2, <2>3, <2>4, <2>5
<1>4. CASE R!ReadReply
  <2> USE <1>4 DEF R!ReadReply, R!Returns, R!Arrived, R!Eof
  <2>1. thread = "reply" /\ UNCHANGED <<request, left, forking, clones, failed, clone, bad, template>>
    BY Zenon
  <2>2. ChannelInv'
    <3>1. CASE channel' = channel BY <2>1, <3>1 DEF ChannelInv
    <3>2. CASE channel # <<>> /\ channel' = Tail(channel)
      BY Zenon, <2>1, <3>2, FrameTaken, TailFrames DEF ChannelInv
    <3>3. QED BY Zenon, <3>1, <3>2
  <2>3. RequestInv'
    <3>1. CASE forking = {} BY <2>1, <3>1 DEF RequestInv, ChannelInv
    <3>2. CASE forking # {}
      <4>1. PICK i \in 1..Len(channel) : channel[i] = "forked"
        BY Zenon, <2>1, <3>2 DEF RequestInv
      <4>2. channel # <<>> /\ request = "none" /\ thread \in {"reply", "ended"}
        BY <4>1, <2>1 DEF ChannelInv
      <4>3. CASE i = 1
        <5>1. Head(channel) = "forked" BY <4>1, <4>2, <4>3, TailFrames DEF ChannelInv
        <5>2. thread' = "announce" BY Zenon, <5>1, <4>2
        <5>3. QED BY Zenon, <5>2, <2>1, <4>2 DEF RequestInv
      <4>4. CASE i # 1
        <5>1. Head(channel) \notin Replies
          BY <4>1, <4>2, <4>4, TailFrames DEF ChannelInv
        <5>2. thread' = "ended" \/ (thread' = "reply" /\ channel' = Tail(channel))
          BY Zenon, <4>2, <5>1
        <5>3. /\ Len(channel') = Len(channel) - 1 /\ Len(channel) \in Nat
              /\ \A j \in 1..Len(channel') : channel'[j] = channel[j + 1]
          BY <4>2, TailFrames DEF ChannelInv
        <5>4. i - 1 \in 1..Len(channel') /\ channel'[i - 1] = "forked"
          BY <5>3, <4>1, <4>4
        <5>5. QED BY Zenon, <5>2, <5>4, <2>1, <4>2 DEF RequestInv
      <4>5. QED BY Zenon, <4>3, <4>4
    <3>3. QED BY Zenon, <3>1, <3>2
  <2>4. CloneInv'
    BY Zenon, <2>1 DEF CloneInv
  <2>5. ResultInv'
    BY Zenon, <2>1 DEF ResultInv, StatusOfAllClones, R!StatusOfAllClones
  <2>6. QED BY Zenon, <2>2, <2>3, <2>4, <2>5
<1>5. CASE R!Announce
  <2> USE <1>5 DEF R!Announce, R!Returns
  <2>1. thread = "announce" /\ UNCHANGED <<request, channel, failed, clone, bad, template>>
    BY Zenon
  <2>2. ChannelInv'
    BY Zenon, <2>1 DEF ChannelInv
  <2>3. RequestInv'
    BY <2>1 DEF RequestInv
  <2>4. CloneInv'
    BY <2>1 DEF CloneInv, RequestInv
  <2>5. ResultInv'
    BY Zenon, <2>1 DEF ResultInv, StatusOfAllClones, R!StatusOfAllClones
  <2>6. QED BY Zenon, <2>2, <2>3, <2>4, <2>5
<1>6. CASE R!TemplateFreezes
  <2> USE <1>6 DEF R!TemplateFreezes
  <2>1. ChannelInv'
    BY AppendFrames DEF ChannelInv, RequestInv
  <2>2. RequestInv' /\ CloneInv' /\ ResultInv'
    BY Zenon DEF RequestInv, CloneInv, ResultInv, StatusOfAllClones, R!StatusOfAllClones, R!Living
  <2>3. QED BY Zenon, <2>1, <2>2
<1>7. CASE R!TemplateForks
  <2> USE <1>7 DEF R!TemplateForks
  <2>1. PICK c \in Clones : /\ clone[c] = "unborn" /\ forking' = {c}
                            /\ clone' = [clone EXCEPT ![c] = "silent"]
    BY Zenon DEF R!Unborn
  <2>2. ChannelInv'
    BY <2>1, AppendFrames DEF ChannelInv, RequestInv, CloneInv
  <2>3. RequestInv'
    BY <2>1, AppendFrames DEF RequestInv, ChannelInv
  <2>4. CloneInv'
    BY <2>1 DEF CloneInv, RequestInv
  <2>5. ResultInv'
    BY Zenon DEF ResultInv, StatusOfAllClones, R!StatusOfAllClones, RequestInv
  <2>6. QED BY Zenon, <2>2, <2>3, <2>4, <2>5
<1>8. CASE R!TemplateRefuses
  <2> USE <1>8 DEF R!TemplateRefuses
  <2>1. ChannelInv'
    BY AppendFrames DEF ChannelInv, RequestInv
  <2>2. RequestInv' /\ CloneInv' /\ ResultInv'
    BY Zenon DEF RequestInv, CloneInv, ResultInv, StatusOfAllClones, R!StatusOfAllClones, R!Living
  <2>3. QED BY Zenon, <2>1, <2>2
<1>9. CASE R!Reap
  <2> USE <1>9 DEF R!Reap
  <2>1. PICK c \in Clones : /\ clone[c] = "zombie" /\ clone' = [clone EXCEPT ![c] = "reaped"]
                            /\ channel' = Append(channel, c)
    BY Zenon
  <2>2. ChannelInv'
    BY <2>1, AppendFrames DEF ChannelInv, CloneInv
  <2>3. RequestInv'
    BY <2>1, AppendFrames DEF RequestInv, ChannelInv
  <2>4. CloneInv' /\ ResultInv'
    BY Zenon, <2>1 DEF CloneInv, ResultInv, StatusOfAllClones, R!StatusOfAllClones, R!Living
  <2>5. QED BY Zenon, <2>2, <2>3, <2>4
<1>10. CASE R!GuestExits
  <2> USE <1>10 DEF R!GuestExits
  <2>1. ChannelInv'
    BY AppendFrames DEF ChannelInv
  <2>2. RequestInv'
    BY AppendFrames DEF RequestInv, ChannelInv
  <2>3. CloneInv' /\ ResultInv'
    BY Zenon DEF CloneInv, ResultInv, StatusOfAllClones, R!StatusOfAllClones, R!Living
  <2>4. QED BY Zenon, <2>1, <2>2, <2>3
<1>11. CASE R!TemplateDies
  BY <1>11 DEF R!TemplateDies, ChannelInv, RequestInv, CloneInv, ResultInv, StatusOfAllClones,
     R!StatusOfAllClones, R!Living
<1>12. CASE R!CloneSpeaks
  BY <1>12 DEF R!CloneSpeaks, ChannelInv, RequestInv, CloneInv, ResultInv, StatusOfAllClones,
     R!StatusOfAllClones, R!Living
<1>13. CASE R!CloneExits
  BY <1>13 DEF R!CloneExits, ChannelInv, RequestInv, CloneInv, ResultInv, StatusOfAllClones,
     R!StatusOfAllClones, R!Living
<1>14. CASE R!Trigger \/ R!StdinCloses \/ UNCHANGED R!vars
  BY <1>14 DEF R!Trigger, R!StdinCloses, R!vars, ChannelInv, RequestInv, CloneInv, ResultInv,
     StatusOfAllClones, R!StatusOfAllClones, R!Living
<1>15. QED
  BY <1>1, <1>2, <1>3, <1>4, <1>5, <1>6, <1>7, <1>8, <1>9, <1>10, <1>11, <1>12, <1>13, <1>14
  DEF R!Next, R!Step, R!Template

\* run_with_clones: for any --clones, any number of clones and triggers, and however the
\* template, the clones and the user act, it does not return for want of clones while
\* one runs or with a batch half done, and its status is non-zero exactly if some clone's
\* was.
THEOREM ClonesAllTold == R!Spec => []StatusOfAllClones
<1>1. R!Init => RunInv
  BY RunAssumption DEF R!Init, RunInv, ChannelInv, RequestInv, CloneInv, ResultInv, StatusOfAllClones,
     R!StatusOfAllClones, Frames
<1>2. RunInv /\ [R!Next]_(R!vars) => RunInv'
  BY Zenon, NextRun
<1>3. RunInv => StatusOfAllClones
  BY Zenon DEF RunInv, ResultInv
<1>4. QED
  BY <1>1, <1>2, <1>3, PTL DEF R!Spec

-----------------------------------------------------------------------------
(* HoldInstance.                                                             *)

\* What has been used of the lease of an instance that is held: one interval at most
\* for every line, and the present wait.
Spent == (pc = "poll" /\ instance = "running") => Lease <= lease + lines * Interval + waited

\* There is nothing to hold or to ask about before the create.
Made == pc = "create" => instance = "none"

\* The longest silence between two renewals ends before the lease does.
Roomy == MaxLines * Interval + Interval < Lease

\* One more line is one more interval.
LEMMA OneMore ==
  ASSUME NEW n \in Nat, NEW k \in Nat
  PROVE  n * k \in Nat /\ (n + 1) * k = n * k + k
  OBVIOUS

\* Fewer lines are fewer intervals.
LEMMA AtMost ==
  ASSUME NEW m \in Nat, NEW n \in 0..m, NEW k \in Nat
  PROVE  n * k <= m * k
  OBVIOUS

\* Every step keeps the variables that are not flags in their ranges, whatever the
\* constants.
LEMMA NextRanges == Ranges /\ [Next]_vars => Ranges'
<1> SUFFICES ASSUME Ranges, [Next]_vars PROVE Ranges'
  BY Zenon
<1> USE HoldAssumption DEF Ranges, Ended, Goes, holder, input, manager
<1>1. CASE Create BY <1>1 DEF Create
<1>2. CASE Renew BY <1>2 DEF Renew, Renewed, TimesOut
<1>3. CASE Ask BY Zenon, <1>3 DEF Ask
<1>4. CASE Release BY Zenon, <1>4 DEF Release
<1>5. CASE Delete BY Zenon, <1>5 DEF Delete, Destroyed, Outcome
<1>6. CASE Line BY <1>6 DEF Line, Restarted
<1>7. CASE Tick BY <1>7 DEF Tick
<1>8. CASE Sweep BY Zenon, <1>8 DEF Sweep, Lapsed
<1>9. CASE GuestExits BY Zenon, <1>9 DEF GuestExits
<1>10. CASE Deleted BY Zenon, <1>10 DEF Deleted
<1>11. CASE User BY Zenon, <1>11 DEF User
<1>12. CASE Killed BY Zenon, <1>12 DEF Killed
<1>13. CASE UNCHANGED vars BY Zenon, <1>13 DEF vars
<1>14. QED
  BY <1>1, <1>2, <1>3, <1>4, <1>5, <1>6, <1>7, <1>8, <1>9, <1>10, <1>11, <1>12, <1>13 DEF Next, Step

\* No step spends more of the lease than Spent accounts for: a renewal starts anew, a
\* tick moves a second from the lease to the wait, a line turns the wait into an interval.
LEMMA NextSpent == Ranges /\ Made /\ Spent /\ [Next]_vars => Made' /\ Spent'
<1> SUFFICES ASSUME Ranges, Made, Spent, [Next]_vars PROVE Made' /\ Spent'
  BY Zenon
<1>0. /\ lines * Interval \in Nat /\ (lines + 1) * Interval = lines * Interval + Interval
      /\ 0 * Interval = 0
  BY OneMore, HoldAssumption DEF Ranges
<1> USE HoldAssumption, <1>0 DEF Ranges, Made, Spent, Ended, Goes, holder, input, manager
<1>1. CASE Create
  <2>1. Made' BY Zenon, <1>1 DEF Create
  <2>2. lease' = Lease /\ UNCHANGED <<lines, waited>> BY Zenon, <1>1 DEF Create
  <2>3. QED BY <2>1, <2>2
<1>2. CASE Renew BY <1>2 DEF Renew, Renewed, TimesOut
<1>3. CASE Ask BY Zenon, <1>3 DEF Ask
<1>4. CASE Release BY Zenon, <1>4 DEF Release
<1>5. CASE Delete BY Zenon, <1>5 DEF Delete, Destroyed, Outcome
<1>6. CASE Line
  <2>1. pc' = "poll" /\ pc = "poll" /\ instance' = instance /\ lease' = lease
    BY Zenon, <1>6 DEF Line
  <2>2. lines' = lines + 1 /\ waited' = 0 /\ lines' * Interval = lines * Interval + Interval
    BY Zenon, <1>6 DEF Line, Restarted
  <2>3. QED BY <2>1, <2>2
<1>7. CASE Tick
  <2>1. lines' = lines /\ pc' = pc /\ instance' = instance BY Zenon, <1>7 DEF Tick
  <2>2. instance = "running" => lease' = lease - 1 BY <1>7 DEF Tick, Lapsed
  <2>3. pc = "poll" => waited' = waited + 1 BY Zenon, <1>7 DEF Tick
  <2>4. QED BY <2>1, <2>2, <2>3
<1>8. CASE Sweep
  <2>1. pc' = pc /\ instance' = "gone" /\ pc # "create" BY Zenon, <1>8 DEF Sweep, Lapsed
  <2>2. QED BY Zenon, <2>1
<1>9. CASE GuestExits BY Zenon, <1>9 DEF GuestExits
<1>10. CASE Deleted BY Zenon, <1>10 DEF Deleted
<1>11. CASE User BY Zenon, <1>11 DEF User
<1>12. CASE Killed BY Zenon, <1>12 DEF Killed
<1>13. CASE UNCHANGED vars BY Zenon, <1>13 DEF vars
<1>14. QED
  BY <1>1, <1>2, <1>3, <1>4, <1>5, <1>6, <1>7, <1>8, <1>9, <1>10, <1>11, <1>12, <1>13 DEF Next, Step

\* With room in the lease, the sweep never meets a running instance that is held.
LEMMA NextStays ==
  ASSUME Roomy, Ranges, Spent, HeldStays, [Next]_vars
  PROVE  HeldStays'
<1> USE DEF HeldStays, holder, input, manager
<1>1. CASE Create BY Zenon, <1>1 DEF Create
<1>2. CASE Renew BY Zenon, <1>2 DEF Renew
<1>3. CASE Ask BY Zenon, <1>3 DEF Ask
<1>4. CASE Release BY Zenon, <1>4 DEF Release
<1>5. CASE Delete BY Zenon, <1>5 DEF Delete
<1>6. CASE Line BY Zenon, <1>6 DEF Line
<1>7. CASE Tick BY Zenon, <1>7 DEF Tick
<1>8. CASE Sweep
  <2>1. ASSUME instance = "running", pc = "poll" PROVE FALSE
    <3>1. lease = 0 /\ Lease <= lease + lines * Interval + waited
      BY Zenon, <1>8, <2>1 DEF Sweep, Lapsed, Spent
    <3>2. lines * Interval <= MaxLines * Interval /\ waited <= Interval
      BY AtMost, HoldAssumption DEF Ranges
    <3>3. lines * Interval \in Nat /\ MaxLines * Interval \in Nat
      BY OneMore, HoldAssumption DEF Ranges
    <3>4. QED BY <3>1, <3>2, <3>3, HoldAssumption DEF Roomy, Ranges
  <2>2. swept' = FALSE BY Zenon, <2>1, <1>8 DEF Sweep
  <2>3. QED BY Zenon, <2>2
<1>9. CASE GuestExits BY Zenon, <1>9 DEF GuestExits
<1>10. CASE Deleted BY Zenon, <1>10 DEF Deleted
<1>11. CASE User BY Zenon, <1>11 DEF User
<1>12. CASE Killed BY Zenon, <1>12 DEF Killed
<1>13. CASE UNCHANGED vars BY Zenon, <1>13 DEF vars
<1>14. QED
  BY <1>1, <1>2, <1>3, <1>4, <1>5, <1>6, <1>7, <1>8, <1>9, <1>10, <1>11, <1>12, <1>13 DEF Next, Step

\* request keeps its instance: whenever the lease outlasts MaxLines + 1 intervals, an
\* instance that runs and is held is never swept.
THEOREM LeaseOutlastsSilence ==
  ASSUME Roomy
  PROVE  Spec => []HeldStays
<1> DEFINE IInv == Ranges /\ Made /\ Spent /\ HeldStays
<1>1. Init => IInv
  BY HoldAssumption DEF Init, Ranges, Ended, Made, Spent, HeldStays
<1>2. IInv /\ [Next]_vars => IInv'
  BY Zenon, NextRanges, NextSpent, NextStays
<1>3. QED
  BY <1>1, <1>2, PTL DEF Spec

=============================================================================
