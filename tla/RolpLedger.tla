------------------------------ MODULE RolpLedger ------------------------------
(* The profiler's per-worker and merged tables implement the single ledger   *)
(* of SurvivorLedger.                                                        *)
EXTENDS RolpProfilerMC, FiniteSetsExt

Ages == 1 .. GenArraySize - 1

\* What has been recorded of key k at age a, wherever it is kept.
Recorded(k, a) ==
  promotions[k][a] + MapThenSumSet(LAMBDA w : survivors[w][k][a], Workers)

Abstract == INSTANCE SurvivorLedger WITH
  ledger   <- [k \in Keys |-> [a \in Ages |-> Recorded(k, a)]],
  expanded <- {s \in Sites : factor[s] > 0}

\* Workers counting privately and a merge at a later safepoint look like one
\* shared ledger: no survival is lost, counted twice, or moved to another site,
\* context or age by update_promotions, whatever runs between a pause and the
\* VM operation, and windows close as a whole.
ImplementsLedger == Abstract!Spec
=============================================================================
