--------------------------- MODULE MCCommandQueue ---------------------------
(***************************************************************************)
(* Two commandIds and two contents, submitted in any combination; both are *)
(* interchangeable.                                                        *)
(***************************************************************************)
EXTENDS CommandQueue, TLC

Symmetry == Permutations(Ids) \cup Permutations(Bodies)
=============================================================================
