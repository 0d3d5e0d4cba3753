-------------------------- MODULE HeapRefinementMC --------------------------
(* Small instances of the refinement for TLC. *)
EXTENDS HeapRefinement, ProxyLifetimeMC
=============================================================================
