--------------------------- MODULE MCScratchPools ---------------------------
(* The buffers of a working set are interchangeable.                         *)
EXTENDS ScratchPools, TLC

Symmetry == Permutations(Buffer)
=============================================================================
