--------------------------- MODULE MCModuleCache ---------------------------
(* TLC instances of ModuleCache: which threads share a process.              *)
EXTENDS ModuleCache

CONSTANTS p1, p2, p3

\* The first two threads in one process.
Together == [p \in Loaders |-> IF p = p2 THEN p1 ELSE p]
=============================================================================
