--------------------------- MODULE LifetimeDecision ---------------------------
(***************************************************************************)
(* What normalize_derive_analyze (ng2c/vm_operations_ng2c.cpp) decides from *)
(* the survival curve of an allocation site: curve[0] objects allocated,    *)
(* curve[a] objects copied on reaching age a.                               *)
(*                                                                         *)
(* The code works on floats: normalized[i] = curve[i] / curve[0].  All the  *)
(* quotients share their denominator, so the model keeps the numerators and *)
(* compares them.  Float rounding is only visible where two exact values    *)
(* are equal; there `rounding[i]' says on which side of the exact value the *)
(* computed derivative[i] fell.  With curve[0] = 0 the quotients are        *)
(* infinite and the differences are -inf, +inf or NaN.                      *)
(***************************************************************************)
EXTENDS Integers

CONSTANT GenArraySize      \* NG2C_GEN_ARRAY_SIZE

ASSUME GenArraySizeAssumption == GenArraySize \in Nat /\ GenArraySize >= 2

Index  == 0 .. GenArraySize - 1
Curves == [Index -> Nat]

\* The verdict "survivals are scattered, look at more context".
Conflict  == -1
Decisions == Conflict .. GenArraySize - 2

\* normalized[i] times curve[0]: the loop leaves the last element zero.
Normalized(curve, i) == IF i < GenArraySize - 1 THEN curve[i] ELSE 0

\* normalized[i + 1] - normalized[i], times curve[0].
Slope(curve, i) == Normalized(curve, i + 1) - Normalized(curve, i)

\* derivative[i] # 0 once everything above -0.1 has been flattened to zero.
\* For curve[0] = 0: inf - inf = NaN and 0 - inf = -inf are not above -0.1.
Drops(curve, rounding, i) ==
  /\ i < GenArraySize - 1
  /\ IF curve[0] = 0
     THEN Normalized(curve, i) > 0
     ELSE \/ 10 * Slope(curve, i) < -curve[0]
          \/ 10 * Slope(curve, i) = -curve[0] /\ rounding[i] <= 0

\* derivative[i] < derivative[j], for an i that Drops.  For curve[0] = 0 only
\* -inf < 0 holds: NaN compares false with everything.
Steeper(curve, rounding, i, j) ==
  IF curve[0] = 0
  THEN Normalized(curve, i + 1) = 0 /\ ~Drops(curve, rounding, j)
  ELSE \/ ~Drops(curve, rounding, j)
       \/ Slope(curve, i) < Slope(curve, j)
       \/ Slope(curve, i) = Slope(curve, j) /\ rounding[i] < rounding[j]

-----------------------------------------------------------------------------
(* The verdict stated without a loop. *)

DropSet(curve, rounding) == {i \in Index : Drops(curve, rounding, i)}

\* The ages at which objects die form one run.
OneSegment(curve, rounding) ==
  \A i, j \in DropSet(curve, rounding), k \in Index :
    i < k /\ k < j => Drops(curve, rounding, k)

\* d is the earliest age with the steepest drop.  Without allocations the
\* drops are infinite and only the last age of the run can be told apart.
SteepestDrop(curve, rounding, d) ==
  /\ d \in DropSet(curve, rounding)
  /\ \A j \in DropSet(curve, rounding) :
       IF curve[0] = 0
       THEN j <= d
       ELSE /\ ~Steeper(curve, rounding, j, d)
            /\ j < d => Steeper(curve, rounding, d, j)

\* The verdicts of normalize_derive_analyze: Conflict for a curve that drops
\* in two separate places, 0 for one that does not drop, else where it drops.
IsDecision(curve, rounding, d) ==
  \/ d = Conflict /\ ~OneSegment(curve, rounding)
  \/ d = 0 /\ DropSet(curve, rounding) = {}
  \/ OneSegment(curve, rounding) /\ SteepestDrop(curve, rounding, d)
=============================================================================
