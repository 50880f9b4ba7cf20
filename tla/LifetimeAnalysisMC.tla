-------------------------- MODULE LifetimeAnalysisMC --------------------------
(* Every curve over a few counts: none, one, two, ten and eleven,           *)
(* so that -0.1 is met exactly and the drops tie; every outcome of rounding. *)
EXTENDS LifetimeAnalysis

MCCounts         == {0, 1, 2, 10, 11}
MCInputCurves    == [Index -> MCCounts]
MCInputRoundings == {r \in [Index -> {-1, 1}] : r[GenArraySize - 1] = 1}
=============================================================================
