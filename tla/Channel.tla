------------------------------ MODULE Channel ------------------------------
(***************************************************************************)
(* One direction of a control channel (host/protocol.rs, Channel): send     *)
(* writes a frame in as many pieces as the socket's buffer makes of it, recv *)
(* reads a header and then as much as the header says, in as many pieces as *)
(* have arrived, and either process may go at any moment.                   *)
(*                                                                          *)
(* The socket keeps bytes in order, so the stream is told by positions: a   *)
(* byte is what the frame whose bytes lie there has at that place, and the  *)
(* descriptors travel with the byte the sendmsg carrying them began with.   *)
(***************************************************************************)
EXTENDS Naturals, Sequences

CONSTANTS
  Descriptors,
  Frames,      \* the lengths of a frame's two parts, and its descriptors
  HEADER_LEN,
  MAX_JSON_LEN,
  MAX_PAYLOAD_LEN,
  Capacity,    \* bytes the socket buffers
  MaxFrames    \* bound: frames sent

ASSUME ChannelAssumption ==
  /\ Frames \subseteq [json : Nat \ {0}, payload : Nat, fds : SUBSET Descriptors]
  /\ HEADER_LEN \in Nat \ {0} /\ MAX_JSON_LEN \in Nat /\ MAX_PAYLOAD_LEN \in Nat
  /\ Capacity \in Nat \ {0} /\ MaxFrames \in Nat

VARIABLES
  frames,   \* every frame send has begun to write
  starts,   \* the position each began at
  written,  \* bytes the socket has taken
  snd,      \* the sending end: "idle", "sending", "closed", or "reset"
  taken,    \* bytes recv has read
  begun,    \* the position the present recv began at
  step,     \* where recv is, "header" or "body", or how it ended
  lens,     \* what the header says
  fds,      \* descriptors the present recv was handed
  got       \* every frame recv returned

sender == <<frames, starts, written, snd>>
receiver == <<taken, begun, step, lens, fds, got>>
vars == <<sender, receiver>>

Size(f) == HEADER_LEN + f.json + f.payload
NoLens == [json |-> 0, payload |-> 0]

TypeOK ==
  /\ frames \in Seq(Frames) /\ starts \in Seq(Nat) /\ Len(starts) = Len(frames)
  /\ written \in Nat /\ taken \in Nat /\ begun \in Nat
  /\ snd \in {"idle", "sending", "closed", "reset"}
  /\ step \in {"header", "body", "none", "error", "gone"}
  /\ lens \in [json : Nat, payload : Nat] /\ got \in Seq(Frames)
  /\ fds \subseteq Descriptors

Init ==
  /\ frames = <<>> /\ starts = <<>> /\ written = 0 /\ snd = "idle"
  /\ taken = 0 /\ begun = 0 /\ step = "header" /\ lens = NoLens /\ fds = {} /\ got = <<>>

-----------------------------------------------------------------------------
(* send.                                                                     *)

\* The first sendmsg, with the descriptors: the buffer takes n bytes of the frame.
Send(f) ==
  /\ snd = "idle" /\ step # "gone" /\ Len(frames) < MaxFrames
  /\ \E n \in 1..Size(f) :
       /\ written + n - taken <= Capacity
       /\ written' = written + n /\ snd' = IF n = Size(f) THEN "idle" ELSE "sending"
  /\ frames' = Append(frames, f) /\ starts' = Append(starts, written)
  /\ UNCHANGED receiver

EndOf(i) == starts[i] + Size(frames[i])

\* frame.len() - sent.
Rest == EndOf(Len(frames)) - written

\* A sendmsg for the rest.
SendRest ==
  /\ snd = "sending" /\ step # "gone"
  /\ \E n \in 1..Rest :
       /\ written + n - taken <= Capacity
       /\ written' = written + n /\ snd' = IF n = Rest THEN "idle" ELSE "sending"
  /\ UNCHANGED <<frames, starts, receiver>>

\* The sender closes its end; or dies, or gives up because sendmsg failed, inside a
\* frame.  What it had not read itself resets the stream.
Close ==
  /\ snd \in {"idle", "sending"} /\ snd' \in {"closed", "reset"}
  /\ UNCHANGED <<frames, starts, written, receiver>>

-----------------------------------------------------------------------------
(* recv.                                                                     *)

\* The control data of the byte at n: on the sendmsg a frame begins with.
Attached(n) == UNION {frames[k].fds : k \in {i \in DOMAIN frames : starts[i] + 1 = n}}

Carriers(n) == {m \in taken + 1 .. taken + n : Attached(m) # {}}

\* The length fields in the bytes at p, which say anything where no header is.
Says(p, l) ==
  \A k \in DOMAIN frames :
    starts[k] = p => l.json = frames[k].json /\ l.payload = frames[k].payload

Lengths == [json : {f.json : f \in Frames}, payload : {f.payload : f \in Frames}]

TooLarge(l) == l.json > MAX_JSON_LEN \/ l.payload > MAX_PAYLOAD_LEN

\* header[filled..].
Missing == HEADER_LEN - (taken - begun)

\* One recvmsg into the header; it never returns the descriptors of two messages.
RecvHeader ==
  /\ step = "header"
  /\ \E n \in 1..Missing :
       /\ taken + n <= written /\ \A a, b \in Carriers(n) : a = b
       /\ taken' = taken + n /\ fds' = fds \cup UNION {Attached(m) : m \in taken + 1 .. taken + n}
       /\ IF n < Missing
            THEN UNCHANGED <<step, lens>>
            ELSE /\ lens' \in {l \in Lengths : Says(begun, l)}
                 /\ step' = IF TooLarge(lens') THEN "error" ELSE "body"
  /\ UNCHANGED <<sender, begun, got>>

\* What read_exact has still to read, of the message and then of the payload.
Left == begun + HEADER_LEN + lens.json + lens.payload - taken

\* The bytes at begun are those of frame k, whole.
Decodes(k) == starts[k] = begun /\ Size(frames[k]) = HEADER_LEN + lens.json + lens.payload

Received(k) == [json |-> frames[k].json, payload |-> frames[k].payload, fds |-> fds]

\* One read of read_exact, which drops descriptors; the last one completes the frame.
ReadBody ==
  /\ step = "body"
  /\ \E n \in 1..Left :
       /\ taken + n <= written /\ taken' = taken + n
       /\ \/ n < Left /\ UNCHANGED <<begun, step, lens, fds, got>>
          \/ /\ n = Left /\ begun' = taken' /\ lens' = NoLens /\ fds' = {}
             /\ IF \E k \in DOMAIN frames : Decodes(k)
                  THEN /\ \E k \in DOMAIN frames : Decodes(k) /\ got' = Append(got, Received(k))
                       /\ step' = "header"
                  ELSE step' = "error" /\ UNCHANGED got
  /\ UNCHANGED sender

EofIsNone == step = "header"

\* filled == 0 && fds.is_empty().
AtBoundary == step = "header" /\ taken = begun /\ fds = {}

EofInBody ==
  /\ step = "header" /\ snd \in {"closed", "reset"} /\ taken = written
  /\ step' = IF AtBoundary /\ snd = "closed" THEN "none" ELSE "error"
  /\ UNCHANGED <<sender, taken, begun, lens, fds, got>>

\* Nothing is left to read: the end, unless inside a frame or the stream was reset.
Eof ==
  /\ step \in {"header", "body"} /\ snd \in {"closed", "reset"} /\ taken = written
  /\ step' = IF AtBoundary /\ snd = "closed" THEN "none" ELSE "error"
  /\ UNCHANGED <<sender, taken, begun, lens, fds, got>>

ReceiverGoes ==
  /\ step \in {"header", "body"} /\ step' = "gone"
  /\ UNCHANGED <<sender, taken, begun, lens, fds, got>>

Recv == RecvHeader \/ ReadBody \/ Eof

Next == (\E f \in Frames : Send(f)) \/ SendRest \/ Close \/ Recv \/ ReceiverGoes

Spec == Init /\ [][Next]_vars

\* Both threads run; nothing obliges a process to send or to go.
FairSpec == Spec /\ WF_vars(SendRest) /\ WF_vars(Recv)

-----------------------------------------------------------------------------
(* Where things are: the frames lie end to end, and recv is inside the first *)
(* one it has not returned.                                                  *)

Open == step \in {"header", "body"}

\* Inside a frame: one that is not written to its end.
Inside == frames # <<>> /\ Rest > 0

Pending == Len(got) + 1

Laid ==
  /\ \A i \in DOMAIN frames : starts[i] < written
  /\ \A i, j \in DOMAIN frames : i < j => EndOf(i) <= starts[j]
  /\ \A i \in DOMAIN frames : i + 1 \in DOMAIN frames => starts[i + 1] = EndOf(i)
  /\ IF frames = <<>>
       THEN written = 0 /\ snd # "sending"
       ELSE /\ written <= EndOf(Len(frames))
            /\ snd = "idle" => written = EndOf(Len(frames))
            /\ snd = "sending" => written < EndOf(Len(frames))

Aligned ==
  /\ Len(got) <= Len(frames) /\ \A i \in DOMAIN got : got[i] = frames[i]
  /\ begun <= taken /\ taken <= written
  /\ IF Pending \in DOMAIN frames
       THEN begun = starts[Pending]
       ELSE begun = written /\ ~Inside /\ step # "body"

Within ==
  /\ step = "header" => /\ taken - begun < HEADER_LEN
                        /\ fds = IF taken > begun THEN frames[Pending].fds ELSE {}
  /\ step = "body" => /\ taken - begun >= HEADER_LEN /\ taken - begun < Size(frames[Pending])
                      /\ lens.json = frames[Pending].json /\ lens.payload = frames[Pending].payload
                      /\ ~TooLarge(lens) /\ fds = frames[Pending].fds

ChannelInv == TypeOK /\ Laid /\ Aligned /\ Within

-----------------------------------------------------------------------------
(* Properties.                                                               *)

Queue == INSTANCE FrameQueue WITH
  sent <- frames,
  Fitting <- {f \in Frames : ~TooLarge(f)},
  source <- IF snd \in {"idle", "sending"} THEN "open" ELSE IF Inside THEN "torn" ELSE snd,
  outcome <- IF Open THEN "open" ELSE step

\* "Every message is one frame", and descriptors belong to the frame they were sent
\* with (module doc): however a frame is cut into pieces and whenever a peer dies,
\* recv returns the frames sent, in order, each with its own descriptors, None only
\* when nothing is missing, and an error for a frame that is cut short.
ImplementsQueue == Queue!Spec

\* A frame larger than the socket's buffer arrives as well: what was sent is received
\* or the channel ends, and a receiver learns that its peer has gone.
FramesArrive ==
  /\ \A n \in 1..MaxFrames : Len(frames) >= n ~> Len(got) >= n \/ ~Open
  /\ snd \in {"closed", "reset"} ~> ~Open

=============================================================================
