---------------------------- MODULE GcRequestsMC ----------------------------
(* Instances of GcRequests for TLC. *)
EXTENDS GcRequests, TLC

\* Threads are interchangeable.
Symmetry == Permutations(Threads)
=============================================================================
