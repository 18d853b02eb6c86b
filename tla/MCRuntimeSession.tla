-------------------------- MODULE MCRuntimeSession --------------------------
(***************************************************************************)
(* Two page loads: the second client may connect while the first one's     *)
(* session is still being stopped.  The clients are interchangeable.       *)
(***************************************************************************)
EXTENDS RuntimeSession, TLC

ClientSymmetry == Permutations(Clients)
=============================================================================
