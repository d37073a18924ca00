---------------------------- MODULE MCGcfnAlloc -----------------------------
(* Instances of GcfnAlloc for TLC. *)
EXTENDS GcfnAlloc, TLC
Symm == Permutations(Sock) \cup Permutations(Fn)
=============================================================================
