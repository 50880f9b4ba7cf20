----------------------------- MODULE AllocGensMC -----------------------------
(* AllocGens with interchangeable threads. *)
EXTENDS AllocGens, TLC

Symmetry == Permutations(Threads)
=============================================================================
