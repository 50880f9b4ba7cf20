--------------------------- MODULE StaticAnalysisMC ---------------------------
(* StaticAnalysis with three sites in two buckets, and with                   *)
(* every file of at most three lines over a few kinds of line.                *)
EXTENDS StaticAnalysis, TLC

CONSTANTS a, b, c

MCSites == {a, b, c}
MCKey   == a :> 1 @@ b :> 2 @@ c :> 3

Lines == [type : {"NID"}, site : {a, c}, index : {1, 6}]
           \cup {[type |-> "MID", site |-> a, index |-> 3],
                 [type |-> "unknown", site |-> a, index |-> 3]}

MCFiles == {<<>>} \cup {<<k>> : k \in Lines} \cup {<<k, l>> : k, l \in Lines}
             \cup {<<k, l, m>> : k, l, m \in Lines}

Symmetry == Permutations(Threads)
=============================================================================
