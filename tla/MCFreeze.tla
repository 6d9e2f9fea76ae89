------------------------------ MODULE MCFreeze ------------------------------
(***************************************************************************)
(* Small instances of Freeze.                                              *)
(***************************************************************************)
EXTENDS Freeze

CONSTANTS t1, t2, f1, f2, k1

=============================================================================
