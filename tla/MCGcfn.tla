------------------------------- MODULE MCGcfn -------------------------------
(* Instances of Gcfn, and of its refinement of GcfnStack, for TLC. *)
EXTENDS GcfnRefinement, TLC
Symm == Permutations(Sock) \cup Permutations(Fn)
=============================================================================
