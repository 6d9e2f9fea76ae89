---------------------------- MODULE MCTemplates ----------------------------
(* TLC instances of Templates: two requests, which are interchangeable in    *)
(* every invariant and action property (the liveness run does not use the    *)
(* symmetry).                                                                *)
EXTENDS Templates, TLC

Symmetry == Permutations(Requests)
=============================================================================
