------------------------------ MODULE Notation ------------------------------
(***************************************************************************)
(* The byte strings that a manifest and a host's report have in common     *)
(* (ByteStrings), beside other components.                                  *)
(***************************************************************************)
CONSTANTS Chars, Bytes, MaxChars, Shown

VARIABLES source, of, rest, bytes, verdict

B == INSTANCE ByteStrings

\* ByteStringsAgree of ByteStrings: a manifest's byte string is read as its notation
\* says, and what preview writes is read back as the response.
ByteStringsAgree == B!ByteStringsAgree

=============================================================================
