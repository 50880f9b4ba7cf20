---------------------------- MODULE SurvivorLedger ----------------------------
(***************************************************************************)
(* What the profiler's counters promise: one ledger of survivals per        *)
(* allocation site (per site and context once the site is expanded) and     *)
(* age, as if every GC worker wrote to it directly.  A survival is entered  *)
(* once, stays until its window closes, and is never moved.                 *)
(***************************************************************************)
EXTENDS Naturals

CONSTANTS Sites, Contexts, Ages

VARIABLES ledger, expanded

vars == <<ledger, expanded>>

Empty == [k \in Sites \X Contexts |-> [a \in Ages |-> 0]]

Init == ledger = Empty /\ expanded = {}

\* An object of site s tagged with context c is copied on reaching age a.
Record(s, c, a) ==
  /\ ledger' = [ledger EXCEPT ![IF s \in expanded THEN <<s, c>> ELSE <<s, 0>>][a] = @ + 1]
  /\ UNCHANGED expanded

\* A site is split by context: what its window has entered so far stays.
Expand(s) ==
  /\ s \notin expanded
  /\ expanded' = expanded \cup {s}
  /\ UNCHANGED ledger

Close == ledger' = Empty /\ UNCHANGED expanded

Next ==
  \/ \E s \in Sites, c \in Contexts, a \in Ages : Record(s, c, a)
  \/ \E s \in Sites : Expand(s)
  \/ Close

Spec == Init /\ [][Next]_vars
=============================================================================
