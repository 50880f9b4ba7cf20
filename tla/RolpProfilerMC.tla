---------------------------- MODULE RolpProfilerMC ----------------------------
EXTENDS RolpProfiler, TLC

MCRoundings == {[a \in Index |-> 0]}

Symmetry ==
  Permutations(Mutators) \cup Permutations(Workers) \cup Permutations(Objects)
=============================================================================
