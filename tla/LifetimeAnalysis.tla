--------------------------- MODULE LifetimeAnalysis ---------------------------
(***************************************************************************)
(* The analysis loop of normalize_derive_analyze, one action per iteration: *)
(* it walks the derivative once, remembers the end of the segment it is in  *)
(* (segm, GenArraySize for none) and the steepest drop so far (min).        *)
(***************************************************************************)
EXTENDS LifetimeDecision

CONSTANTS InputCurves,      \* the curves given to the function
          InputRoundings    \* the outcomes of float rounding, per derivative

ASSUME InputAssumption ==
  /\ InputCurves \subseteq Curves
  /\ InputRoundings \subseteq [Index -> Int]

VARIABLES curve, rounding, i, segm, min, ret

loopVars == <<curve, rounding, i, segm, min, ret>>

Running == GenArraySize    \* ret before the function returns

LoopStart ==
  /\ curve \in InputCurves
  /\ rounding \in InputRoundings
  /\ i = 0
  /\ segm = GenArraySize
  /\ min = 0
  /\ ret = Running

\* derivative[i] = 0: on to the next age.
Skip ==
  /\ ret = Running /\ i < GenArraySize
  /\ ~Drops(curve, rounding, i)
  /\ i' = i + 1
  /\ UNCHANGED <<curve, rounding, segm, min, ret>>

\* Mutant: the segment is never extended, so any second drop is a conflict.
ExtendOnce ==
  /\ ret = Running /\ i < GenArraySize
  /\ Drops(curve, rounding, i)
  /\ i = segm + 1 \/ segm = GenArraySize
  /\ segm' = IF segm = GenArraySize THEN i ELSE segm
  /\ min' = IF Steeper(curve, rounding, i, min) THEN i ELSE min
  /\ i' = i + 1
  /\ UNCHANGED <<curve, rounding, ret>>

\* Start or extend the segment, and remember a steeper drop.
Extend ==
  /\ ret = Running /\ i < GenArraySize
  /\ Drops(curve, rounding, i)
  /\ i = segm + 1 \/ segm = GenArraySize
  /\ segm' = i
  /\ min' = IF Steeper(curve, rounding, i, min) THEN i ELSE min
  /\ i' = i + 1
  /\ UNCHANGED <<curve, rounding, ret>>

\* A drop that does not continue the segment already found.
ReturnConflict ==
  /\ ret = Running /\ i < GenArraySize
  /\ Drops(curve, rounding, i)
  /\ i # segm + 1 /\ segm # GenArraySize
  /\ ret' = Conflict
  /\ UNCHANGED <<curve, rounding, i, segm, min>>

Return ==
  /\ ret = Running /\ i = GenArraySize
  /\ ret' = min
  /\ UNCHANGED <<curve, rounding, i, segm, min>>

LoopNext == Skip \/ Extend \/ ReturnConflict \/ Return

LoopSpec == LoopStart /\ [][LoopNext]_loopVars

-----------------------------------------------------------------------------
LoopTypeOK ==
  /\ curve \in Curves
  /\ rounding \in [Index -> Int]
  /\ i \in 0 .. GenArraySize
  /\ segm \in 0 .. GenArraySize
  /\ min \in 0 .. GenArraySize - 2
  /\ ret \in Decisions \cup {Running}

\* The one-pass loop returns the verdict its callers act on: a conflict
\* exactly when objects die at two separate groups of ages, otherwise the
\* earliest age with the steepest drop (normalize_derive_analyze, its single
\* scan with segm and min against the definition over the whole curve).
Correct == ret # Running => IsDecision(curve, rounding, ret)

\* The verdict is a function of the curve: no second verdict fits the one
\* returned, so the hashtable order in update_target_gen cannot matter.
Unambiguous ==
  ret # Running => \A d \in Decisions : IsDecision(curve, rounding, d) => d = ret

-----------------------------------------------------------------------------
(* The loop invariant: what the scan of the ages below i has established. *)

Seen == {k \in DropSet(curve, rounding) : k < i}

LoopInv ==
  /\ LoopTypeOK
  /\ segm = GenArraySize => Seen = {} /\ min = 0
  /\ segm # GenArraySize =>
       /\ segm \in Seen
       /\ \A k \in Seen : k <= segm
       /\ \A j \in Seen, k \in Index : j < k /\ k < segm => k \in Seen
  /\ curve[0] # 0 /\ segm # GenArraySize =>
       /\ min \in Seen
       /\ \A j \in Seen : /\ ~Steeper(curve, rounding, j, min)
                          /\ j < min => Steeper(curve, rounding, min, j)
  /\ curve[0] = 0 =>
       \/ /\ min = 0
          /\ \A k \in Seen : Normalized(curve, k + 1) > 0
       \/ min \in Seen /\ Normalized(curve, min + 1) = 0 /\ segm = min
  /\ ret # Running => Correct
=============================================================================
