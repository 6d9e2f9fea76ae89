----------------------------- MODULE MCHostLoop -----------------------------
(* TLC instance of HostLoop: a base host and one clone of it.                 *)
EXTENDS HostLoop
=============================================================================
