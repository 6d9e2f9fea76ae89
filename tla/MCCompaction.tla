---------------------------- MODULE MCCompaction ----------------------------
(***************************************************************************)
(* Small instances of Compaction.                                          *)
(***************************************************************************)
EXTENDS Compaction

CONSTANT Ends    \* bound: where overlays may end

MCIntervals == {<<a, b>> \in (0..(MaxPages - 1)) \X (1..Ends) : a < b}

\* No overlay, one, or two, which may touch, overlap or reach past the memory.
MCOverlays == {{a, b} : a, b \in MCIntervals} \cup {{}}

=============================================================================
