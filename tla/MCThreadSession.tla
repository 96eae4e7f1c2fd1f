--------------------------- MODULE MCThreadSession ---------------------------
(* Two threads and one more to create; threads, and the slots of calls, are *)
(* interchangeable.                                                         *)
EXTENDS ThreadSession

Symmetry == Permutations(Threads) \cup Permutations(Slots)
=============================================================================
