------------------------------ MODULE MarkWordMC ------------------------------
EXTENDS MarkWord, TLC

Symmetry == Permutations(Threads)
=============================================================================
