---------------------------- MODULE ByteStrings ----------------------------
(***************************************************************************)
(* The byte-string notation of a manifest's readiness probe: the loop that *)
(* reads it (decode_byte_string, manifest.rs) and the preview of a response *)
(* written in it (preview, host/probe.rs).  A character is its code point.  *)
(***************************************************************************)
EXTENDS Naturals, Sequences

CONSTANTS
  Chars,     \* bound: the characters considered
  Bytes,     \* bound: the bytes considered
  MaxChars,  \* bound: characters in a source
  Shown      \* how much of a response preview shows

StringAssumption ==
  Chars \subseteq Nat /\ Bytes \subseteq 0..255 /\ MaxChars \in Nat /\ Shown \in Nat

VARIABLES
  source,    \* what is decoded
  of,        \* the response it is the preview of, or <<>>
  rest,      \* chars
  bytes,
  verdict    \* "decoding", "ok" or "refused"

vars == <<source, of, rest, bytes, verdict>>

Backslash == 92
LowerX == 120
Printable == 32..126

\* to_digit(16), or 16 where there is none.
Digit(c) ==
  CASE c \in 48..57 -> c - 48
    [] c \in 65..70 -> c - 55
    [] c \in 97..102 -> c - 87
    [] OTHER -> 16

HexDigit(n) == IF n < 10 THEN n + 48 ELSE n + 87

PlainBackslash(byte) ==
  IF byte \in Printable THEN <<byte>>
  ELSE <<Backslash, LowerX, HexDigit(byte \div 16), HexDigit(byte % 16)>>

\* One byte of preview.
Spelled(byte) ==
  IF byte \in Printable \ {Backslash} THEN <<byte>>
  ELSE <<Backslash, LowerX, HexDigit(byte \div 16), HexDigit(byte % 16)>>

First(n, s) == SubSeq(s, 1, IF Len(s) < n THEN Len(s) ELSE n)
Dots(response) == IF Len(response) > Shown THEN <<46, 46, 46>> ELSE <<>>

\* What preview writes for the last n of the bytes it shows.
Written(response) ==
  LET shown == First(Shown, response)
      text[n \in 0..Len(shown)] ==
        IF n = 0 THEN Dots(response) ELSE Spelled(shown[Len(shown) - n + 1]) \o text[n - 1]
  IN  text

Preview(response) == Written(response)[Len(First(Shown, response))]

\* A manifest's string, or a preview copied into one.
Init ==
  /\ \/ of = <<>> /\ \E n \in 0..MaxChars : source \in [1..n -> Chars]
     \/ /\ \E n \in 0..(Shown + 1) : of \in [1..n -> Bytes]
        /\ source = Preview(of)
  /\ rest = source /\ bytes = <<>> /\ verdict = "decoding"

Takes(n, byte) ==
  rest' = SubSeq(rest, n + 1, Len(rest)) /\ bytes' = Append(bytes, byte) /\ UNCHANGED verdict

Refuses == verdict' = "refused" /\ UNCHANGED <<rest, bytes>>

\* Two hexadecimal digits follow.
TwoDigits == Len(rest) >= 4 /\ Digit(rest[3]) < 16 /\ Digit(rest[4]) < 16

Escape ==
  \/ Len(rest) >= 2 /\ rest[2] = Backslash /\ Takes(2, Backslash)
  \/ /\ Len(rest) >= 2 /\ rest[2] = LowerX
     /\ IF TwoDigits THEN Takes(4, Digit(rest[3]) * 16 + Digit(rest[4])) ELSE Refuses
  \/ (Len(rest) >= 2 => rest[2] \notin {Backslash, LowerX}) /\ Refuses

\* One turn of the loop.
Decode ==
  /\ verdict = "decoding"
  /\ \/ rest = <<>> /\ verdict' = "ok" /\ UNCHANGED <<rest, bytes>>
     \/ rest # <<>> /\ Head(rest) = Backslash /\ Escape
     \/ rest # <<>> /\ Head(rest) \in Printable \ {Backslash} /\ Takes(1, Head(rest))
     \/ rest # <<>> /\ Head(rest) \notin Printable /\ Refuses
  /\ UNCHANGED <<source, of>>

Next == Decode

Spec == Init /\ [][Next]_vars

-----------------------------------------------------------------------------
(* Properties.                                                               *)

\* The notation: how a source may spell a byte.
Spells(word, byte) ==
  \/ word = <<byte>> /\ byte \in Printable \ {Backslash}
  \/ word = <<Backslash, Backslash>> /\ byte = Backslash
  \/ /\ Len(word) = 4 /\ word[1] = Backslash /\ word[2] = LowerX
     /\ \E high, low \in 0..15 :
          Digit(word[3]) = high /\ Digit(word[4]) = low /\ byte = 16 * high + low

\* source is words for bs, one after the other: where[i] is the end of the i-th.
Reads(bs) ==
  \E where \in [0..Len(bs) -> 0..Len(source)] :
    /\ where[0] = 0 /\ where[Len(bs)] = Len(source)
    /\ \A i \in DOMAIN bs :
         where[i - 1] < where[i] /\ Spells(SubSeq(source, where[i - 1] + 1, where[i]), bs[i])

\* "Printable ASCII verbatim, \xNN for any byte, \\ for a backslash.  Everything else is
\* refused": the loop accepts what is a row of such words and gives the bytes they spell,
\* and it refuses only where some word is wrong: what it had read so far is a row of words
\* and no word begins what is left.
DecodesNotation ==
  /\ verdict = "ok" => Reads(bytes)
  /\ verdict = "refused" =>
       \A n \in 1..Len(rest) : \A byte \in 0..255 : ~Spells(SubSeq(rest, 1, n), byte)

\* A preview is "in the manifest's own byte-string notation, so a failed probe can be
\* compared with the pattern directly": copied into a manifest it is read as the bytes
\* the guest answered, and the dots where there were more.
PreviewDecodes ==
  of # <<>> => verdict # "refused" /\ (verdict = "ok" => bytes = First(Shown, of) \o Dots(of))

\* The manifest's notation is read by what decodes it and written by what shows a
\* response in it: DecodesNotation and PreviewDecodes.
ByteStringsAgree == DecodesNotation /\ PreviewDecodes

=============================================================================
