----------------------------- MODULE FrameQueue -----------------------------
(***************************************************************************)
(* What the control protocol promises (host/protocol.rs) and every module   *)
(* above it relies on: frames arrive whole, once, in the order they were    *)
(* sent and with the descriptors they were sent with; the end of the stream *)
(* is reported only after all of them, and anything else as an error.       *)
(***************************************************************************)
EXTENDS Naturals, Sequences

CONSTANTS
  Frames,  \* what may be sent
  Fitting  \* those of a size the receiver takes

VARIABLES
  sent,    \* every frame send has begun to write
  got,     \* every frame recv returned
  source,  \* the sending end: "open", "closed" at a frame's end, "torn", or "reset"
  outcome  \* the receiving end: "open", "none", "error", or "gone" with its process

vars == <<sent, got, source, outcome>>

Init == sent = <<>> /\ got = <<>> /\ source = "open" /\ outcome = "open"

Send(f) == source = "open" /\ sent' = Append(sent, f) /\ UNCHANGED <<got, source, outcome>>

\* The last frame of a torn stream never arrives.
Whole == IF source = "torn" THEN Len(sent) - 1 ELSE Len(sent)

Deliver ==
  /\ outcome = "open" /\ Len(got) < Whole /\ sent[Len(got) + 1] \in Fitting /\ got' = Append(got, sent[Len(got) + 1])
  /\ UNCHANGED <<sent, source, outcome>>

Close ==
  /\ source = "open"
  /\ \/ source' \in {"closed", "reset"}
     \/ source' = "torn" /\ Len(got) < Len(sent)
  /\ UNCHANGED <<sent, got, outcome>>

End ==
  /\ outcome = "open"
  /\ \/ outcome' = "none" /\ source = "closed" /\ got = sent
     \/ outcome' = "error" /\ source \in {"torn", "reset"} /\ Len(got) = Whole
     \/ outcome' = "error" /\ Len(got) < Len(sent) /\ sent[Len(got) + 1] \notin Fitting
     \/ outcome' = "gone"
  /\ UNCHANGED <<sent, got, source>>

Next == Deliver \/ Close \/ End \/ \E f \in Frames : Send(f)

Spec == Init /\ [][Next]_vars

=============================================================================
