--------------------------- MODULE ChannelProofs ---------------------------
(***************************************************************************)
(* The control channel implements the queue of frames, for every set of    *)
(* frames, every header length, both limits and every socket buffer.       *)
(*                                                                          *)
(* ChannelInv says where the bytes are: the frames lie end to end (Laid),   *)
(* recv is inside the first one it has not returned (Aligned), and has of   *)
(* it what its step says (Within).  A step of recv then meets the bytes and *)
(* the descriptors of that frame and of no other.                           *)
(***************************************************************************)
EXTENDS Channel, SequenceTheorems, TLAPS

\* The header's length is a number.
LEMMA HeaderLen == HEADER_LEN \in Nat /\ HEADER_LEN > 0
BY ChannelAssumption

\* A frame is longer than its header.
LEMMA SizeType ==
  ASSUME NEW f \in Frames
  PROVE  Size(f) \in Nat /\ Size(f) > HEADER_LEN /\ f.json \in Nat /\ f.payload \in Nat
BY ChannelAssumption DEF Size

\* A frame is its parts.
LEMMA Rebuilt ==
  ASSUME NEW f \in Frames
  PROVE  f = [json |-> f.json, payload |-> f.payload, fds |-> f.fds] /\ f.fds \subseteq Descriptors
<1> f \in [json : Nat \ {0}, payload : Nat, fds : SUBSET Descriptors] BY ChannelAssumption
<1> QED OBVIOUS

\* A piece of what is left.
LEMMA Piece ==
  ASSUME NEW w \in Nat, NEW z \in Nat, NEW n \in 1..z
  PROVE  /\ n \in Nat /\ n > 0 /\ n <= z /\ w + n \in Nat /\ w + n > w /\ w + n <= w + z
         /\ n = z => w + n = w + z
         /\ n # z => w + n < w + z
OBVIOUS

\* Arithmetic of a piece inside a frame.
LEMMA InsideFrame ==
  ASSUME NEW t \in Nat, NEW b \in Nat, NEW z \in Nat, NEW n \in Nat,
         b <= t, n > 0, t - b >= HEADER_LEN, n < (b + z) - t
  PROVE  b <= t + n /\ (t + n) - b >= HEADER_LEN /\ (t + n) - b < z
BY HeaderLen

\* A recv that has just begun.
LEMMA AtStart == ASSUME NEW t \in Nat PROVE t - t < HEADER_LEN /\ t <= t /\ ~(t > t)
BY HeaderLen

\* What is left to the end of a frame.
LEMMA Remainder ==
  ASSUME NEW e \in Nat, NEW t \in Nat, NEW w \in Nat
  PROVE  /\ t + (e - t) <= w => e <= w
         /\ e - w > 0 => e > w /\ ~(e <= w)
OBVIOUS

\* The last index of a sequence.
LEMMA LastIndex == ASSUME NEW l \in Nat, NEW i \in 1..l, i + 1 \notin 1..l PROVE i = l /\ l # 0
OBVIOUS

\* Appending a frame keeps the frames and starts there were.
LEMMA Appended ==
  ASSUME NEW S, NEW s \in Seq(S), NEW e \in S
  PROVE  /\ Append(s, e) \in Seq(S) /\ Len(Append(s, e)) = Len(s) + 1 /\ Append(s, e) # <<>>
         /\ DOMAIN s = 1..Len(s) /\ DOMAIN Append(s, e) = 1 .. Len(s) + 1 /\ Len(s) \in Nat
         /\ \A i \in 1..Len(s) : Append(s, e)[i] = s[i]
         /\ Append(s, e)[Len(s) + 1] = e
OBVIOUS

\* A new pair of ends has the invariant.
LEMMA InitInv == Init => ChannelInv
BY HeaderLen DEF Init, ChannelInv, TypeOK, Laid, Aligned, Within, NoLens, Pending, Inside

\* The arithmetic of the invariant's parts.
LEMMA Facts ==
  ASSUME ChannelInv
  PROVE  /\ DOMAIN frames = 1..Len(frames) /\ DOMAIN starts = 1..Len(frames) /\ DOMAIN got = 1..Len(got)
         /\ Len(frames) \in Nat /\ Len(got) \in Nat /\ Pending = Len(got) + 1
         /\ frames = <<>> <=> Len(frames) = 0
         /\ \A i \in 1..Len(frames) :
              /\ frames[i] \in Frames /\ starts[i] \in Nat /\ Size(frames[i]) \in Nat
              /\ Size(frames[i]) > HEADER_LEN /\ EndOf(i) = starts[i] + Size(frames[i]) /\ EndOf(i) \in Nat
         /\ Len(frames) > 0 => /\ Rest = EndOf(Len(frames)) - written
                               /\ Len(frames) \in 1..Len(frames)
<1>1. /\ frames \in Seq(Frames) /\ starts \in Seq(Nat) /\ Len(starts) = Len(frames) /\ got \in Seq(Frames)
      /\ Len(frames) \in Nat /\ Len(got) \in Nat
  BY DEF ChannelInv, TypeOK
<1>2. frames = <<>> <=> Len(frames) = 0 BY <1>1, EmptySeq
<1>3. /\ DOMAIN frames = 1..Len(frames) /\ DOMAIN starts = 1..Len(frames) /\ DOMAIN got = 1..Len(got)
      /\ \A i \in 1..Len(frames) : frames[i] \in Frames /\ starts[i] \in Nat
  BY <1>1
<1>4. ASSUME NEW i \in 1..Len(frames)
      PROVE  /\ Size(frames[i]) \in Nat /\ Size(frames[i]) > HEADER_LEN
             /\ EndOf(i) = starts[i] + Size(frames[i]) /\ EndOf(i) \in Nat
  BY <1>3, SizeType DEF EndOf
<1>5. Rest = EndOf(Len(frames)) - written BY DEF Rest
<1> QED BY <1>1, <1>2, <1>3, <1>4, <1>5 DEF Pending

\* Only the pending frame begins where recv began.
LEMMA OnlyPending ==
  ASSUME ChannelInv, Pending \in DOMAIN frames, NEW k \in DOMAIN frames,
         starts[k] >= begun, starts[k] < EndOf(Pending)
  PROVE  k = Pending
<1>1. begun = starts[Pending] BY DEF ChannelInv, Aligned
<1>2. \A i, j \in DOMAIN frames : i < j => EndOf(i) <= starts[j] BY DEF ChannelInv, Laid
<1>3. /\ k \in 1..Len(frames) /\ Pending \in 1..Len(frames) /\ Len(frames) \in Nat
      /\ starts[k] \in Nat /\ starts[Pending] \in Nat /\ EndOf(k) \in Nat /\ EndOf(Pending) \in Nat
  BY Facts
<1>4. EndOf(k) > starts[k] BY <1>3, Facts, HeaderLen
<1>5. CASE k < Pending
  <2> EndOf(k) <= starts[Pending] BY <1>2, <1>5
  <2> QED BY <1>1, <1>3, <1>4
<1>6. CASE k > Pending
  <2> EndOf(Pending) <= starts[k] BY <1>2, <1>6
  <2> QED BY <1>3
<1> QED BY <1>3, <1>5, <1>6

\* The first sendmsg of a frame keeps the invariant: it lands where the last frame ends.
LEMMA SendInv == ASSUME ChannelInv, NEW f \in Frames, Send(f) PROVE ChannelInv'
<1>0. PICK L \in Nat : L = Len(frames) BY Facts
<1>1. PICK n \in 1..Size(f) : written' = written + n /\ snd' = IF n = Size(f) THEN "idle" ELSE "sending"
  BY DEF Send
<1>2. /\ frames \in Seq(Frames) /\ starts \in Seq(Nat) /\ Len(starts) = L /\ written \in Nat
      /\ taken \in Nat /\ begun \in Nat /\ got \in Seq(Frames) /\ L \in Nat
  BY <1>0 DEF ChannelInv, TypeOK
<1>3. /\ frames' = Append(frames, f) /\ starts' = Append(starts, written) /\ snd = "idle"
      /\ UNCHANGED <<taken, begun, step, lens, fds, got>>
  BY DEF Send, receiver
<1>4. /\ Size(f) \in Nat /\ n \in Nat /\ n > 0 /\ n <= Size(f) /\ written' \in Nat /\ written' > written
      /\ written' <= written + Size(f)
      /\ n = Size(f) => written' = written + Size(f)
      /\ n # Size(f) => written' < written + Size(f)
  <2>1. Size(f) \in Nat /\ n \in 1..Size(f) BY SizeType
  <2> QED BY <1>1, <1>2, <2>1, Piece, Zenon
<1>5. /\ DOMAIN frames = 1..L /\ \A i \in 1..L : starts[i] \in Nat /\ EndOf(i) \in Nat
      /\ Len(got) \in Nat /\ Pending = Len(got) + 1 /\ DOMAIN got = 1..Len(got)
      /\ frames = <<>> <=> L = 0
  BY <1>0, Facts
<1>6. /\ Len(frames') = L + 1 /\ DOMAIN frames' = 1 .. L + 1 /\ frames' \in Seq(Frames)
      /\ \A i \in 1..L : frames'[i] = frames[i]
      /\ frames'[L + 1] = f /\ frames' # <<>>
  BY <1>0, <1>2, <1>3, Appended
<1>7. /\ Len(starts') = L + 1 /\ starts' \in Seq(Nat) /\ \A i \in 1..L : starts'[i] = starts[i]
      /\ starts'[L + 1] = written
  BY <1>0, <1>2, <1>3, Appended
<1>8. /\ \A i \in 1..L : EndOf(i)' = EndOf(i)
      /\ EndOf(L + 1)' = written + Size(f) /\ Pending' = Pending
  <2>1. ASSUME NEW i \in 1..L PROVE EndOf(i)' = EndOf(i)
    <3> frames'[i] = frames[i] /\ starts'[i] = starts[i] BY <1>6, <1>7
    <3> QED BY Zenon DEF EndOf, Size
  <2>2. EndOf(L + 1)' = written + Size(f)
    <3> EndOf(L + 1)' = starts'[L + 1] + Size(frames'[L + 1]) BY Zenon DEF EndOf, Size
    <3> QED BY <1>6, <1>7, Zenon
  <2>3. Pending' = Pending BY <1>3 DEF Pending
  <2> QED BY <2>1, <2>2, <2>3, Zenon
<1>9. TypeOK' BY <1>1, <1>2, <1>3, <1>4, <1>6, <1>7 DEF ChannelInv, TypeOK
<1>10. \A i \in 1..L : starts[i] < written BY <1>5 DEF ChannelInv, Laid
<1>11. L > 0 => EndOf(L) = written BY <1>0, <1>3, <1>5 DEF ChannelInv, Laid
<1>12. ASSUME NEW i \in 1..L PROVE EndOf(i) <= written
  <2>1. CASE i = L BY <2>1, <1>2, <1>11
  <2>2. CASE i < L
    <3>1. L \in 1..L /\ i \in 1..L BY <2>2, <1>2
    <3>2. EndOf(i) <= starts[L] BY <3>1, <2>2, <1>5 DEF ChannelInv, Laid
    <3> QED BY <3>1, <3>2, <1>2, <1>5, <1>10
  <2> QED BY <2>1, <2>2, <1>2
<1>13. Laid'
  <2>1. ASSUME NEW i \in 1 .. L + 1 PROVE starts'[i] < written'
    <3>1. CASE i = L + 1 BY <3>1, <1>4, <1>7
    <3>2. CASE i \in 1..L
      <4> starts'[i] = starts[i] /\ starts[i] \in Nat /\ starts[i] < written BY <3>2, <1>5, <1>7, <1>10
      <4> QED BY <1>2, <1>4
    <3> QED BY <3>1, <3>2, <1>2
  <2>2. ASSUME NEW i \in 1 .. L + 1, NEW j \in 1 .. L + 1, i < j PROVE EndOf(i)' <= starts'[j]
    <3>0. i \in 1..L BY <2>2, <1>2
    <3>1. CASE j = L + 1 BY <3>0, <3>1, <1>7, <1>8, <1>12
    <3>2. CASE j \in 1..L
      <4>1. EndOf(i) <= starts[j] BY <3>0, <3>2, <2>2, <1>5 DEF ChannelInv, Laid
      <4> QED BY <3>0, <3>2, <4>1, <1>7, <1>8
    <3> QED BY <3>1, <3>2, <1>2
  <2>3. ASSUME NEW i \in 1 .. L + 1, i + 1 \in 1 .. L + 1 PROVE starts'[i + 1] = EndOf(i)'
    <3>0. i \in 1..L BY <2>3, <1>2
    <3>1. CASE i = L BY <3>0, <3>1, <1>2, <1>7, <1>8, <1>11
    <3>2. CASE i + 1 \in 1..L
      <4>1. starts[i + 1] = EndOf(i) BY <3>0, <3>2, <1>5 DEF ChannelInv, Laid
      <4> QED BY <3>0, <3>2, <4>1, <1>7, <1>8
    <3> QED BY <3>0, <3>1, <3>2, <1>2
  <2>4. /\ written' <= EndOf(L + 1)'
        /\ snd' = "idle" => written' = EndOf(L + 1)'
        /\ snd' = "sending" => written' < EndOf(L + 1)'
    <3>1. (snd' = "idle" => n = Size(f)) /\ (snd' = "sending" => n # Size(f)) BY <1>1
    <3> QED BY <3>1, <1>4, <1>8, Zenon
  <2>5. (EndOf(Len(frames)))' = EndOf(L + 1)' BY <1>6, Zenon DEF EndOf
  <2> QED BY <2>1, <2>2, <2>3, <2>4, <2>5, <1>6 DEF Laid
<1>14. Aligned'
  <2>0. Len(got) <= L /\ \A i \in DOMAIN got : got[i] = frames[i] BY <1>0 DEF ChannelInv, Aligned
  <2>1. \A i \in 1..Len(got) : i \in 1..L /\ got[i] = frames[i]
    BY <2>0, <1>0, <1>5
  <2>2. Pending \in 1 .. L + 1 BY <1>0, <1>2, <1>5 DEF ChannelInv, Aligned
  <2>3. begun = starts'[Pending]
    <3>1. CASE Pending \in 1..L BY <3>1, <1>5, <1>7 DEF ChannelInv, Aligned
    <3>2. CASE Pending = L + 1 BY <3>2, <1>2, <1>5, <1>7 DEF ChannelInv, Aligned
    <3> QED BY <3>1, <3>2, <2>2, <1>2
  <2>4. begun <= taken /\ taken <= written' BY <1>2, <1>4 DEF ChannelInv, Aligned
  <2>5. Len(got) <= L + 1 BY <2>2, <1>2, <1>5
  <2> QED BY <2>1, <2>2, <2>3, <2>4, <2>5, <1>3, <1>5, <1>6, <1>8 DEF Aligned
<1>15. Within'
  <2>1. CASE Pending \in 1..L
    <3> frames'[Pending'] = frames[Pending] BY <2>1, <1>6, <1>8
    <3> QED BY <1>3 DEF ChannelInv, Within, TooLarge, Size
  <2>2. CASE Pending \notin 1..L
    <3> begun = written /\ step # "body" /\ begun <= taken /\ taken <= written
      BY <2>2, <1>5 DEF ChannelInv, Aligned
    <3> ~(taken > begun) BY <1>2
    <3> QED BY <1>3 DEF ChannelInv, Within
  <2> QED BY <2>1, <2>2
<1> QED BY <1>9, <1>13, <1>14, <1>15 DEF ChannelInv

\* So does one for the rest of it.
LEMMA SendRestInv == ASSUME ChannelInv, SendRest PROVE ChannelInv'
<1>1. /\ frames # <<>> /\ Len(frames) > 0 /\ Rest = EndOf(Len(frames)) - written
      /\ EndOf(Len(frames)) \in Nat /\ written \in Nat
  BY Facts DEF ChannelInv, Laid, SendRest, TypeOK
<1>2. PICK n \in 1..Rest : written' = written + n /\ snd' = IF n = Rest THEN "idle" ELSE "sending"
  BY DEF SendRest
<1>3. /\ written' \in Nat /\ written' > written /\ written' <= EndOf(Len(frames))
      /\ IF n = Rest THEN written' = EndOf(Len(frames)) /\ snd' = "idle"
                     ELSE written' < EndOf(Len(frames)) /\ snd' = "sending"
      /\ UNCHANGED <<frames, starts, taken, begun, step, lens, fds, got>>
  BY <1>1, <1>2 DEF SendRest, receiver
<1>4. TypeOK' BY <1>3 DEF ChannelInv, TypeOK
<1>5. Laid'
  <2>1. \A i \in 1..Len(frames) : EndOf(i)' = EndOf(i) BY <1>3 DEF EndOf, Size
  <2>2. EndOf(Len(frames))' = EndOf(Len(frames)) /\ DOMAIN frames = 1..Len(frames) /\ Len(frames) \in Nat
    BY <1>1, <1>3, <2>1, Facts
  <2>3. ASSUME NEW i \in 1..Len(frames) PROVE starts'[i] < written'
    <3> starts[i] \in Nat /\ starts[i] < written BY Facts DEF ChannelInv, Laid
    <3> QED BY <1>1, <1>3
  <2>4. \A i, j \in 1..Len(frames) : i < j => EndOf(i)' <= starts'[j]
    BY <1>3, <2>1, <2>2 DEF ChannelInv, Laid
  <2>5. \A i \in 1..Len(frames) : i + 1 \in 1..Len(frames) => starts'[i + 1] = EndOf(i)'
    BY <1>3, <2>1, <2>2 DEF ChannelInv, Laid
  <2> QED BY <1>1, <1>3, <2>2, <2>3, <2>4, <2>5 DEF Laid
<1>6. Pending \in DOMAIN frames
  <2> written < EndOf(Len(frames)) BY <1>1 DEF ChannelInv, Laid, SendRest
  <2> QED BY <1>1 DEF ChannelInv, Aligned, Inside
<1>7. Aligned' /\ Within' BY <1>3, <1>6 DEF ChannelInv, Aligned, Within, Pending, TooLarge, Size, TypeOK
<1> QED BY <1>4, <1>5, <1>7 DEF ChannelInv

\* And the sender's end.
LEMMA CloseInv == ASSUME ChannelInv, Close PROVE ChannelInv'
<1>1. snd' \in {"closed", "reset"} /\ UNCHANGED <<frames, starts, written, taken, begun, step, lens, fds, got>>
  BY DEF Close, receiver
<1>2. UNCHANGED <<Inside, Pending>> /\ \A i : EndOf(i)' = EndOf(i)
  BY <1>1 DEF Inside, Pending, Rest, EndOf, Size
<1>3. TypeOK' BY <1>1 DEF ChannelInv, TypeOK
<1>4. Laid' BY <1>1, <1>2 DEF ChannelInv, Laid
<1>5. Aligned' BY <1>1, <1>2 DEF ChannelInv, Aligned
<1>6. Within' BY <1>1, <1>2 DEF ChannelInv, Within, TooLarge, Size
<1> QED BY <1>3, <1>4, <1>5, <1>6 DEF ChannelInv

\* What recv does leaves the frames where they are.
LEMMA LaidStays == ASSUME Laid, UNCHANGED sender PROVE Laid'
<1>1. UNCHANGED <<frames, starts, written, snd>> BY DEF sender
<1>2. \A i : EndOf(i)' = EndOf(i) BY <1>1 DEF EndOf, Size
<1> QED BY <1>1, <1>2 DEF Laid

\* A recv that ends, or goes with its process, leaves everything else as it was.
LEMMA EndInv ==
  ASSUME ChannelInv, step' \in {"none", "error", "gone"}, UNCHANGED <<sender, taken, begun, lens, fds, got>>
  PROVE  ChannelInv'
<1>1. UNCHANGED <<frames, starts, written, snd, taken, begun, lens, fds, got>> BY DEF sender
<1>2. UNCHANGED <<Inside, Pending>> BY <1>1 DEF Inside, Pending, Rest, EndOf, Size
<1>3. Laid' BY LaidStays DEF ChannelInv
<1>4. TypeOK' BY <1>1 DEF ChannelInv, TypeOK
<1>5. Aligned' BY <1>1, <1>2 DEF ChannelInv, Aligned
<1>6. Within' BY DEF Within
<1> QED BY <1>3, <1>4, <1>5, <1>6 DEF ChannelInv

\* Bytes that have come and are not read are the pending frame's.
LEMMA PendingHere ==
  ASSUME ChannelInv, taken < written
  PROVE  /\ Pending \in DOMAIN frames /\ Pending \in 1..Len(frames) /\ begun = starts[Pending]
         /\ frames[Pending] \in Frames /\ Size(frames[Pending]) \in Nat
         /\ EndOf(Pending) = begun + Size(frames[Pending]) /\ EndOf(Pending) \in Nat
<1>1. written \in Nat /\ taken \in Nat /\ begun \in Nat BY DEF ChannelInv, TypeOK
<1>2. Pending \in DOMAIN frames
  <2> begun <= taken BY DEF ChannelInv, Aligned
  <2> QED BY <1>1 DEF ChannelInv, Aligned
<1>3. begun = starts[Pending] BY <1>2 DEF ChannelInv, Aligned
<1> QED BY <1>2, <1>3, Facts

\* The descriptors among the next bytes of a header: the pending frame's, all of them
\* with its first byte.
LEMMA AttachedHere ==
  ASSUME ChannelInv, taken < written, NEW n \in Nat, n > 0, taken + n < EndOf(Pending)
  PROVE  UNION {Attached(m) : m \in taken + 1 .. taken + n} =
           IF taken = begun THEN frames[Pending].fds ELSE {}
<1>1. taken \in Nat /\ begun \in Nat /\ begun <= taken /\ begun = starts[Pending] /\ Pending \in DOMAIN frames
      /\ EndOf(Pending) \in Nat
  BY PendingHere DEF ChannelInv, TypeOK, Aligned
<1>2. ASSUME NEW m \in taken + 1 .. taken + n, NEW k \in DOMAIN frames, starts[k] + 1 = m
      PROVE  k = Pending /\ taken = begun
  <2>1. starts[k] \in Nat BY Facts
  <2>2. starts[k] >= begun /\ starts[k] < EndOf(Pending) /\ starts[k] >= taken BY <1>1, <1>2, <2>1
  <2>3. k = Pending BY <1>1, <2>2, OnlyPending
  <2> QED BY <1>1, <2>1, <2>2, <2>3
<1>3. CASE taken = begun
  <2>1. begun + 1 \in taken + 1 .. taken + n BY <1>1, <1>3
  <2>2. ASSUME NEW d \in frames[Pending].fds PROVE d \in Attached(begun + 1)
    BY <1>1 DEF Attached
  <2>3. ASSUME NEW m \in taken + 1 .. taken + n, NEW d \in Attached(m) PROVE d \in frames[Pending].fds
    BY <1>2 DEF Attached
  <2> QED BY <1>3, <2>1, <2>2, <2>3, Zenon
<1>4. CASE taken # begun
  <2> ASSUME NEW m \in taken + 1 .. taken + n, NEW d \in Attached(m) PROVE FALSE
    BY <1>2, <1>4 DEF Attached
  <2> QED BY <1>4, Zenon
<1> QED BY <1>3, <1>4

\* A recvmsg into the header meets the pending frame's bytes and descriptors only.
LEMMA RecvHeaderInv == ASSUME ChannelInv, RecvHeader PROVE ChannelInv'
<1>1. PICK n \in 1..Missing :
        /\ taken + n <= written /\ taken' = taken + n
        /\ fds' = fds \cup UNION {Attached(m) : m \in taken + 1 .. taken + n}
        /\ IF n < Missing
             THEN UNCHANGED <<step, lens>>
             ELSE /\ lens' \in {l \in Lengths : Says(begun, l)}
                  /\ step' = IF TooLarge(lens') THEN "error" ELSE "body"
  BY DEF RecvHeader
<1>2. /\ UNCHANGED <<frames, starts, written, snd, begun, got>> /\ UNCHANGED sender /\ step = "header"
      /\ written \in Nat /\ taken \in Nat /\ begun \in Nat /\ begun <= taken /\ taken - begun < HEADER_LEN
      /\ fds = IF taken > begun THEN frames[Pending].fds ELSE {}
  BY DEF RecvHeader, sender, ChannelInv, TypeOK, Aligned, Within
<1>3. /\ n \in Nat /\ n > 0 /\ taken < written /\ taken' \in Nat /\ taken' > begun
      /\ taken' - begun <= HEADER_LEN
      /\ n < Missing => taken' - begun < HEADER_LEN
      /\ ~(n < Missing) => taken' - begun = HEADER_LEN
  BY <1>1, <1>2, HeaderLen DEF Missing
<1>4. /\ Pending \in DOMAIN frames /\ Pending' = Pending /\ begun = starts[Pending]
      /\ frames[Pending] \in Frames /\ Size(frames[Pending]) \in Nat /\ Size(frames[Pending]) > HEADER_LEN
      /\ EndOf(Pending) = begun + Size(frames[Pending])
  BY <1>2, <1>3, PendingHere, SizeType DEF Pending
<1>5. fds' = frames[Pending].fds
  <2>1. taken + n < EndOf(Pending) BY <1>1, <1>2, <1>3, <1>4, HeaderLen
  <2>2. UNION {Attached(m) : m \in taken + 1 .. taken + n} = IF taken = begun THEN frames[Pending].fds ELSE {}
    BY <1>3, <2>1, AttachedHere
  <2>3. taken > begun \/ taken = begun BY <1>2
  <2> QED BY <1>1, <1>2, <2>2, <2>3
<1>6. ~(n < Missing) => /\ lens' \in [json : Nat, payload : Nat]
                        /\ lens'.json = frames[Pending].json /\ lens'.payload = frames[Pending].payload
                        /\ step' \in {"error", "body"}
                        /\ step' = "body" => ~TooLarge(lens')
  <2>1. SUFFICES ASSUME ~(n < Missing) PROVE
           /\ lens' \in [json : Nat, payload : Nat]
           /\ lens'.json = frames[Pending].json /\ lens'.payload = frames[Pending].payload
    BY <1>1
  <2>2. lens' \in Lengths /\ Says(begun, lens') BY <1>1, <2>1
  <2>3. {f.json : f \in Frames} \subseteq Nat /\ {f.payload : f \in Frames} \subseteq Nat BY SizeType
  <2> QED BY <2>2, <2>3, <1>4 DEF Lengths, Says
<1>7. TypeOK'
  <2>1. fds' \subseteq Descriptors BY <1>4, <1>5, Rebuilt
  <2>2. CASE n < Missing BY <2>1, <2>2, <1>1, <1>2, <1>3 DEF ChannelInv, TypeOK
  <2>3. CASE ~(n < Missing) BY <2>1, <2>3, <1>2, <1>3, <1>6 DEF ChannelInv, TypeOK
  <2> QED BY <2>2, <2>3
<1>8. Laid' BY <1>2, LaidStays DEF ChannelInv
<1>9. Aligned'
  <2>1. Len(got) <= Len(frames) /\ \A i \in DOMAIN got : got[i] = frames[i] BY DEF ChannelInv, Aligned
  <2>2. begun <= taken' /\ taken' <= written BY <1>1, <1>2, <1>3
  <2> QED BY <2>1, <2>2, <1>2, <1>4 DEF Aligned
<1>10. Within'
  <2>1. CASE n < Missing
    <3> step' = "header" BY <2>1, <1>1, <1>2
    <3> QED BY <2>1, <1>2, <1>3, <1>4, <1>5 DEF Within
  <2>2. CASE ~(n < Missing)
    <3>1. taken' - begun < Size(frames[Pending]) /\ taken' - begun >= HEADER_LEN
      BY <2>2, <1>3, <1>4, HeaderLen
    <3>2. (Size(frames[Pending]))' = Size(frames[Pending]) BY <1>2, <1>4 DEF Size
    <3>3. step' = "body" => ~(TooLarge(lens))' BY <2>2, <1>6 DEF TooLarge
    <3>4. step' # "header" BY <2>2, <1>6
    <3> QED BY <3>1, <3>2, <3>3, <3>4, <2>2, <1>2, <1>4, <1>5, <1>6 DEF Within
  <2> QED BY <2>1, <2>2
<1> QED BY <1>7, <1>8, <1>9, <1>10 DEF ChannelInv

\* What is left of a body is what is left of the pending frame, and the last of it
\* makes recv return that frame.
LEMMA BodyRead ==
  ASSUME ChannelInv, ReadBody
  PROVE  /\ taken < written /\ Left = EndOf(Pending) - taken
         /\ \E n \in 1..Left :
              /\ taken + n <= written /\ taken' = taken + n
              /\ \/ n < Left /\ UNCHANGED <<begun, step, lens, fds, got>>
                 \/ /\ n = Left /\ begun' = taken' /\ lens' = NoLens /\ fds' = {}
                    /\ got' = Append(got, frames[Pending]) /\ step' = "header"
<1>1. PICK n \in 1..Left :
       /\ taken + n <= written /\ taken' = taken + n
       /\ \/ n < Left /\ UNCHANGED <<begun, step, lens, fds, got>>
          \/ /\ n = Left /\ begun' = taken' /\ lens' = NoLens /\ fds' = {}
             /\ IF \E k \in DOMAIN frames : Decodes(k)
                  THEN /\ \E k \in DOMAIN frames : Decodes(k) /\ got' = Append(got, Received(k))
                       /\ step' = "header"
                  ELSE step' = "error" /\ UNCHANGED got
  BY DEF ReadBody
<1>2. /\ step = "body" /\ taken \in Nat /\ written \in Nat /\ begun \in Nat
      /\ lens.json = frames[Pending].json /\ lens.payload = frames[Pending].payload
      /\ fds = frames[Pending].fds /\ lens.json \in Nat /\ lens.payload \in Nat
  BY DEF ReadBody, ChannelInv, TypeOK, Within
<1>3. Pending \in DOMAIN frames /\ begun = starts[Pending] BY <1>2 DEF ChannelInv, Aligned
<1>4. Left = EndOf(Pending) - taken BY <1>2, <1>3, HeaderLen DEF Left, EndOf, Size
<1>5. EndOf(Pending) \in Nat /\ frames[Pending] \in Frames BY <1>3, Facts
<1>6. n \in Nat /\ n > 0 /\ taken < written BY <1>1, <1>2, <1>4, <1>5
<1>7. \A k \in DOMAIN frames : Decodes(k) <=> k = Pending
  <2>1. Decodes(Pending) BY <1>2, <1>3 DEF Decodes, Size
  <2>2. begun < EndOf(Pending) BY <1>3, <1>2, <1>5, HeaderLen, Facts
  <2>3. ASSUME NEW k \in DOMAIN frames, Decodes(k) PROVE k = Pending
    <3> starts[k] = begun BY <2>3 DEF Decodes
    <3> QED BY <1>2, <1>3, <2>2, OnlyPending
  <2> QED BY <2>1, <2>3
<1>8. Received(Pending) = frames[Pending] BY <1>2, <1>5, Rebuilt DEF Received
<1> QED BY <1>1, <1>3, <1>4, <1>6, <1>7, <1>8

\* A read of the body leaves recv inside the frame, or where the next one begins.
LEMMA ReadBodyInv == ASSUME ChannelInv, ReadBody PROVE ChannelInv'
<1>1. PICK n \in 1..Left :
       /\ taken + n <= written /\ taken' = taken + n
       /\ \/ n < Left /\ UNCHANGED <<begun, step, lens, fds, got>>
          \/ /\ n = Left /\ begun' = taken' /\ lens' = NoLens /\ fds' = {}
             /\ got' = Append(got, frames[Pending]) /\ step' = "header"
  BY BodyRead
<1>2. /\ UNCHANGED <<frames, starts, written, snd>> /\ UNCHANGED sender /\ step = "body"
      /\ written \in Nat /\ taken \in Nat /\ begun \in Nat /\ begun <= taken /\ got \in Seq(Frames)
      /\ taken - begun >= HEADER_LEN
  BY DEF ReadBody, sender, ChannelInv, TypeOK, Aligned, Within
<1>3. /\ Pending \in DOMAIN frames /\ Pending \in 1..Len(frames) /\ begun = starts[Pending]
      /\ frames[Pending] \in Frames /\ Size(frames[Pending]) \in Nat
      /\ EndOf(Pending) = begun + Size(frames[Pending]) /\ EndOf(Pending) \in Nat
      /\ Left = EndOf(Pending) - taken /\ Len(got) \in Nat /\ Pending = Len(got) + 1
  BY BodyRead, PendingHere, Facts
<1>4. n \in Nat /\ n > 0 /\ taken' \in Nat /\ taken' <= written BY <1>1, <1>2, <1>3
<1>5. Laid' BY <1>2, LaidStays DEF ChannelInv
<1>6. CASE n < Left /\ UNCHANGED <<begun, step, lens, fds, got>>
  <2>1. Pending' = Pending /\ (Size(frames[Pending]))' = Size(frames[Pending]) /\ (TooLarge(lens))' = TooLarge(lens)
    BY <1>2, <1>6 DEF Pending, Size, TooLarge
  <2>2. TypeOK' BY <1>2, <1>4, <1>6 DEF ChannelInv, TypeOK
  <2>3. begun <= taken' /\ taken' - begun >= HEADER_LEN /\ taken' - begun < Size(frames[Pending])
    <3>1. taken' = taken + n /\ n < (begun + Size(frames[Pending])) - taken BY <1>1, <1>3, <1>6
    <3>2. /\ begun <= taken + n /\ (taken + n) - begun >= HEADER_LEN
          /\ (taken + n) - begun < Size(frames[Pending])
      BY <3>1, <1>2, <1>3, <1>4, InsideFrame
    <3> QED BY <3>1, <3>2, Zenon
  <2>4. Aligned' BY <2>1, <2>3, <1>2, <1>3, <1>4, <1>6 DEF ChannelInv, Aligned
  <2>5. Within' BY <2>1, <2>3, <1>2, <1>6 DEF ChannelInv, Within
  <2> QED BY <2>2, <2>4, <2>5, <1>5 DEF ChannelInv
<1>7. CASE /\ n = Left /\ begun' = taken' /\ lens' = NoLens /\ fds' = {}
           /\ got' = Append(got, frames[Pending]) /\ step' = "header"
  <2>1. taken' = EndOf(Pending) BY <1>1, <1>2, <1>3, <1>7
  <2>2. /\ got' \in Seq(Frames) /\ Len(got') = Pending /\ DOMAIN got' = 1..Pending /\ Pending' = Pending + 1
        /\ \A i \in 1..Len(got) : got'[i] = got[i]
        /\ got'[Pending] = frames[Pending]
    BY <1>2, <1>3, <1>7, Appended DEF Pending
  <2>3. TypeOK' BY <2>2, <1>2, <1>4, <1>7 DEF ChannelInv, TypeOK, NoLens
  <2>4. \A i \in 1..Pending : got'[i] = frames[i]
    <3>1. \A i \in 1..Len(got) : got[i] = frames[i] BY Facts DEF ChannelInv, Aligned
    <3> QED BY <3>1, <2>2, <1>3
  <2>5. DOMAIN frames = 1..Len(frames) /\ Len(frames) \in Nat BY Facts
  <2>6. CASE Pending + 1 \in DOMAIN frames
    <3>1. begun' = starts[Pending + 1] BY <2>1, <2>6, <1>3, <1>7 DEF ChannelInv, Laid
    <3>2. Pending <= Len(frames) BY <2>5, <1>3
    <3>3. begun' <= taken' /\ taken' <= written /\ ~(taken' > begun') BY <1>4, <1>7
    <3>4. Aligned' BY <3>1, <3>2, <3>3, <2>2, <2>4, <2>6, <1>2 DEF Aligned
    <3>5. taken' - begun' < HEADER_LEN BY <1>4, <1>7, AtStart, Zenon
    <3>6. Within' BY <3>3, <3>5, <1>7 DEF Within
    <3> QED BY <3>4, <3>6, <2>3, <1>5 DEF ChannelInv
  <2>7. CASE Pending + 1 \notin DOMAIN frames
    <3>1. Pending = Len(frames) /\ frames # <<>>
      <4>1. Pending = Len(frames) /\ Len(frames) # 0 BY <2>5, <2>7, <1>3, LastIndex, Zenon
      <4> QED BY <4>1, Facts
    <3>2. written <= EndOf(Len(frames)) BY <3>1 DEF ChannelInv, Laid
    <3>3. written = EndOf(Len(frames)) /\ written = taken' BY <3>1, <3>2, <2>1, <1>2, <1>3, <1>4
    <3>4. ~Inside'
      <4>1. (EndOf(Len(frames)))' = EndOf(Len(frames)) BY <1>2 DEF EndOf, Size
      <4>2. Rest' = EndOf(Len(frames)) - written BY <4>1, <1>2 DEF Rest
      <4>3. Rest' = 0 BY <4>2, <3>3, <1>2, <2>1, <1>4
      <4> QED BY <4>3 DEF Inside
    <3>5. begun' <= taken' /\ taken' <= written /\ ~(taken' > begun') /\ Pending <= Len(frames)
      BY <3>1, <1>3, <1>4, <1>7, <2>5
    <3>6. Aligned' BY <3>3, <3>4, <3>5, <2>2, <2>4, <2>7, <1>2, <1>7 DEF Aligned
    <3>7. taken' - begun' < HEADER_LEN BY <1>4, <1>7, AtStart, Zenon
    <3>8. Within' BY <3>5, <3>7, <1>7 DEF Within
    <3> QED BY <3>6, <3>8, <2>3, <1>5 DEF ChannelInv
  <2> QED BY <2>6, <2>7
<1> QED BY <1>1, <1>6, <1>7

\* Every reachable state has the invariant.
THEOREM ChannelLaidOut == Spec => []ChannelInv
<1>1. ASSUME ChannelInv, [Next]_vars PROVE ChannelInv'
  <2>1. ASSUME NEW f \in Frames, Send(f) PROVE ChannelInv' BY <1>1, <2>1, SendInv
  <2>2. CASE SendRest BY <1>1, <2>2, SendRestInv
  <2>3. CASE Close BY <1>1, <2>3, CloseInv
  <2>4. CASE RecvHeader BY <1>1, <2>4, RecvHeaderInv
  <2>5. CASE ReadBody BY <1>1, <2>5, ReadBodyInv
  <2>6. CASE Eof BY <1>1, <2>6, EndInv DEF Eof
  <2>7. CASE ReceiverGoes BY <1>1, <2>7, EndInv DEF ReceiverGoes
  <2>8. CASE UNCHANGED vars
    <3>1. UNCHANGED <<frames, starts, written, snd, taken, begun, step, lens, fds, got>> /\ UNCHANGED sender
      BY <2>8 DEF vars, sender, receiver
    <3>2. UNCHANGED <<Inside, Pending>> BY <3>1 DEF Inside, Pending, Rest, EndOf, Size
    <3>3. TypeOK' BY <1>1, <3>1 DEF ChannelInv, TypeOK
    <3>4. Laid' BY <1>1, <3>1, LaidStays DEF ChannelInv
    <3>5. Aligned' BY <1>1, <3>1, <3>2 DEF ChannelInv, Aligned
    <3>6. Within' BY <1>1, <3>1, <3>2 DEF ChannelInv, Within, TooLarge, Size
    <3> QED BY <3>3, <3>4, <3>5, <3>6 DEF ChannelInv
  <2> QED BY <1>1, <2>1, <2>2, <2>3, <2>4, <2>5, <2>6, <2>7, <2>8 DEF Next, Recv
<1> QED BY <1>1, InitInv, PTL DEF Spec

-----------------------------------------------------------------------------
(* The queue.                                                                *)

\* Each step of the channel is a step of the queue, or changes nothing it sees.
LEMMA QueueStep == ASSUME ChannelInv, ChannelInv', [Next]_vars PROVE [Queue!Next]_(Queue!vars)
<1> DEFINE source == IF snd \in {"idle", "sending"} THEN "open" ELSE IF Inside THEN "torn" ELSE snd
           outcome == IF Open THEN "open" ELSE step
<1>0. Len(frames) \in Nat /\ Len(got) \in Nat /\ got \in Seq(Frames) /\ Pending = Len(got) + 1
  BY Facts DEF ChannelInv, TypeOK
<1>1. ASSUME NEW f \in Frames, Send(f) PROVE Queue!Send(f)
  <2>1. snd = "idle" /\ snd' \in {"idle", "sending"} /\ frames' = Append(frames, f) /\ UNCHANGED <<got, step>>
    BY <1>1 DEF Send, receiver
  <2> QED BY <2>1 DEF Queue!Send, Open
<1>2. CASE SendRest
  <2>1. snd = "sending" /\ snd' \in {"idle", "sending"} /\ UNCHANGED <<frames, got, step>>
    BY <1>2 DEF SendRest, receiver
  <2> QED BY <2>1 DEF Queue!vars, Open
<1>3. CASE Close
  <2>1. /\ snd \in {"idle", "sending"} /\ snd' \in {"closed", "reset"}
        /\ UNCHANGED <<frames, starts, written, got, step>>
    BY <1>3 DEF Close, receiver
  <2>2. Inside' => Len(got) < Len(frames)
    <3>1. Inside' = Inside BY <2>1 DEF Inside, Rest, EndOf, Size
    <3>2. Inside => Pending \in DOMAIN frames BY DEF ChannelInv, Aligned
    <3> QED BY <3>1, <3>2, <1>0, Facts
  <2> QED BY <2>1, <2>2 DEF Queue!Close, Queue!Next, Open
<1>4. CASE RecvHeader
  <2>1. UNCHANGED <<frames, starts, written, snd, got>> /\ step = "header" /\ step' \in {"header", "body", "error"}
    BY <1>4 DEF RecvHeader, sender
  <2>2. UNCHANGED source BY <2>1 DEF Inside, Rest, EndOf, Size
  <2>3. CASE step' # "error" BY <2>1, <2>2, <2>3 DEF Queue!vars, Open
  <2>4. CASE step' = "error"
    <3>1. PICK n \in 1..Missing : taken + n <= written /\ Says(begun, lens') /\ TooLarge(lens')
      BY <1>4, <2>1, <2>4 DEF RecvHeader
    <3>2. taken < written BY <3>1 DEF Missing, ChannelInv, TypeOK
    <3>3. Pending \in DOMAIN frames /\ starts[Pending] = begun /\ frames[Pending] \in Frames
      BY <3>2, PendingHere
    <3>4. TooLarge(frames[Pending]) BY <3>1, <3>3 DEF Says, TooLarge
    <3>5. Len(got) < Len(frames) BY <3>3, <1>0, Facts
    <3> QED BY <2>1, <2>2, <2>4, <3>4, <3>5, <1>0 DEF Queue!End, Queue!Next, Open
  <2> QED BY <2>3, <2>4
<1>5. CASE ReadBody
  <2>1. UNCHANGED <<frames, starts, written, snd>> /\ step = "body" BY <1>5 DEF ReadBody, sender
  <2>2. UNCHANGED source BY <2>1 DEF Inside, Rest, EndOf, Size
  <2>3. PICK n \in 1..Left :
         /\ taken + n <= written
         /\ \/ UNCHANGED <<step, got>>
            \/ n = Left /\ got' = Append(got, frames[Pending]) /\ step' = "header"
    BY <1>5, BodyRead
  <2>4. CASE UNCHANGED <<step, got>> BY <2>1, <2>2, <2>4 DEF Queue!vars, Open
  <2>5. CASE n = Left /\ got' = Append(got, frames[Pending]) /\ step' = "header"
    <3>1. taken < written /\ Left = EndOf(Pending) - taken BY <1>5, BodyRead
    <3>2. Pending \in 1..Len(frames) /\ frames[Pending] \in Frames /\ EndOf(Pending) \in Nat
      BY <3>1, PendingHere
    <3>3. ~TooLarge(frames[Pending]) BY <2>1 DEF ChannelInv, Within, TooLarge
    <3>4. EndOf(Pending) <= written
      <4>1. taken \in Nat /\ written \in Nat BY DEF ChannelInv, TypeOK
      <4>2. taken + (EndOf(Pending) - taken) <= written BY <2>3, <2>5, <3>1, Zenon
      <4> QED BY <4>1, <4>2, <3>2, Remainder, Zenon
    <3>5. Inside => Pending < Len(frames)
      <4>1. SUFFICES ASSUME Pending = Len(frames), Inside PROVE FALSE BY <3>2, <1>0
      <4>2. Rest = EndOf(Pending) - written /\ Rest > 0 BY <4>1, <3>2, <1>0, Facts DEF Inside
      <4>3. written \in Nat BY DEF ChannelInv, TypeOK
      <4> QED BY <4>2, <4>3, <3>2, <3>4, Remainder, Zenon
    <3>6. Len(got) < IF source = "torn" THEN Len(frames) - 1 ELSE Len(frames)
      <4>1. source = "torn" => Inside BY <2>1 DEF ChannelInv, TypeOK
      <4>2. Len(got) < Len(frames) /\ (Inside => Len(got) < Len(frames) - 1) BY <3>2, <3>5, <1>0
      <4> QED BY <4>1, <4>2, Zenon
    <3> QED BY <2>1, <2>2, <2>5, <3>2, <3>3, <3>6, <1>0 DEF Queue!Deliver, Queue!Whole, Queue!Next, Open
  <2> QED BY <2>3, <2>4, <2>5
<1>6. CASE Eof
  <2>1. /\ UNCHANGED <<frames, starts, written, snd, got>> /\ step \in {"header", "body"}
        /\ snd \in {"closed", "reset"} /\ taken = written
        /\ step' = IF AtBoundary /\ snd = "closed" THEN "none" ELSE "error"
    BY <1>6 DEF Eof, sender
  <2>2. UNCHANGED source BY <2>1 DEF Inside, Rest, EndOf, Size
  <2>3. /\ written \in Nat /\ taken \in Nat /\ begun \in Nat
        /\ DOMAIN frames = 1..Len(frames) /\ Len(got) <= Len(frames)
        /\ \A i \in 1..Len(got) : got[i] = frames[i]
    BY Facts DEF ChannelInv, TypeOK, Aligned
  <2>4. CASE Pending \in DOMAIN frames
    <3>1. /\ begun = starts[Pending] /\ frames[Pending] \in Frames /\ begun < written
          /\ Size(frames[Pending]) \in Nat /\ HEADER_LEN < Size(frames[Pending])
          /\ EndOf(Pending) = begun + Size(frames[Pending])
      BY <2>4, Facts, SizeType DEF ChannelInv, Laid, Aligned
    <3>2. taken - begun < Size(frames[Pending]) BY <3>1, <2>1, <2>3, HeaderLen DEF ChannelInv, Within
    <3>3. written < EndOf(Pending) BY <3>1, <3>2, <2>1, <2>3
    <3>4. Pending = Len(frames)
      <4>1. SUFFICES ASSUME Pending + 1 \in DOMAIN frames PROVE FALSE BY <2>3, <2>4, <1>0, LastIndex
      <4>2. starts[Pending + 1] = EndOf(Pending) /\ starts[Pending + 1] < written
        BY <4>1, <2>4 DEF ChannelInv, Laid
      <4> QED BY <4>2, <3>1, <3>3, <2>3
    <3>5. Inside
      <4>1. Rest = EndOf(Len(frames)) - written /\ frames # <<>> BY <2>3, <2>4, <1>0, Facts
      <4> QED BY <4>1, <3>1, <3>3, <3>4, <2>3 DEF Inside
    <3>6. step' = "error" BY <3>1, <2>1, <2>3 DEF AtBoundary
    <3>7. source = "torn" /\ Len(got) = Len(frames) - 1 BY <3>4, <3>5, <2>1, <1>0
    <3> QED BY <3>6, <3>7, <2>1, <2>2 DEF Queue!End, Queue!Whole, Queue!Next, Open
  <2>5. CASE Pending \notin DOMAIN frames
    <3>1. begun = written /\ ~Inside /\ step # "body" BY <2>5 DEF ChannelInv, Aligned
    <3>2. AtBoundary BY <3>1, <2>1, <2>3 DEF ChannelInv, Within, AtBoundary
    <3>3. Len(got) = Len(frames) BY <2>3, <2>5, <1>0
    <3>4. got = frames
      <4> frames \in Seq(Frames) BY DEF ChannelInv, TypeOK
      <4> QED BY <3>3, <2>3, <1>0, SeqEqual
    <3>5. source = snd BY <3>1, <2>1
    <3>6. CASE snd = "closed"
      <4> step' = "none" BY <3>2, <3>6, <2>1
      <4> QED BY <3>4, <3>5, <3>6, <2>1, <2>2 DEF Queue!End, Queue!Next, Open
    <3>7. CASE snd = "reset"
      <4> step' = "error" BY <3>7, <2>1
      <4> QED BY <3>3, <3>5, <3>7, <2>1, <2>2 DEF Queue!End, Queue!Whole, Queue!Next, Open
    <3> QED BY <3>6, <3>7, <2>1
  <2> QED BY <2>4, <2>5
<1>7. CASE ReceiverGoes
  <2>1. UNCHANGED <<frames, starts, written, snd, got>> /\ step \in {"header", "body"} /\ step' = "gone"
    BY <1>7 DEF ReceiverGoes, sender
  <2>2. UNCHANGED source BY <2>1 DEF Inside, Rest, EndOf, Size
  <2> QED BY <2>1, <2>2 DEF Queue!End, Queue!Next, Open
<1>8. CASE UNCHANGED vars
  BY <1>8 DEF vars, sender, receiver, Queue!vars, Open, Inside, Rest, EndOf, Size
<1> QED BY <1>1, <1>2, <1>3, <1>4, <1>5, <1>6, <1>7, <1>8 DEF Next, Recv, Queue!Next

\* The control channel gives its users the queue of frames.
THEOREM ChannelKeepsFrames == Spec => ImplementsQueue
<1>1. Init => Queue!Init BY DEF Init, Queue!Init, Open
<1>2. ChannelInv /\ ChannelInv' /\ [Next]_vars => [Queue!Next]_(Queue!vars) BY QueueStep
<1> QED BY <1>1, <1>2, ChannelLaidOut, PTL DEF Spec, ImplementsQueue, Queue!Spec

=============================================================================
