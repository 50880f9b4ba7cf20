-------------------------- MODULE RolpProfilerProofs --------------------------
(* The profiler's invariants and step properties for any number of sites,    *)
(* contexts, threads, workers and objects, any window length and both        *)
(* settings of the build flags.                                              *)
EXTENDS RolpProfiler, LifetimeAnalysis, TLAPS

\* A leaf that names no prover is for the SMT solver.
USE SMTT(60)

-----------------------------------------------------------------------------
(* Lemmas about the operators. *)

\* An unexpanded site uses slot 0 for every context, an expanded one a slot
\* per context (context * _factor).
LEMMA SlotCases ==
  ASSUME NEW s, NEW c \in Contexts, factor[s] \in {0, 1}
  PROVE  /\ Slot(s, c) \in Contexts
         /\ factor[s] = 0 => Slot(s, c) = 0 /\ Key(s, c) = <<s, 0>>
         /\ factor[s] = 1 => Slot(s, c) = c /\ Key(s, c) = <<s, c>>
<1>1. CASE factor[s] = 0
  BY <1>1, ProfilerAssumption DEF Slot, Key, Contexts
<1>2. CASE factor[s] = 1
  BY <1>2, ProfilerAssumption DEF Slot, Key, Contexts
<1> QED
  BY ZenonT(60), <1>1, <1>2

\* An age is recorded under an index of the curve other than 0, which is
\* reserved for the allocations (PromotionCounter::update).
LEMMA AgeIndexRange ==
  ASSUME NEW age \in 0 .. MaxAge
  PROVE  AgeIndex(age) \in Index /\ AgeIndex(age) > 0
BY ProfilerAssumption, GenArraySizeAssumption DEF AgeIndex, Index

\* A positive verdict names an age at which the curve is not zero.
LEMMA PositiveDecision ==
  ASSUME NEW ages \in Curves, NEW rnd \in [Index -> Int],
         NEW d \in Decisions, d > 0, IsDecision(ages, rnd, d)
  PROVE  d \in Index /\ ages[d] > 0
<1> USE GenArraySizeAssumption
<1>1. Drops(ages, rnd, d) /\ d \in Index
  BY DEF IsDecision, SteepestDrop, DropSet, Decisions, Conflict
<1>2. d < GenArraySize - 1 /\ d + 1 \in Index /\ 0 \in Index
  BY <1>1 DEF Drops, Index
<1>3. /\ Normalized(ages, d) = ages[d]
      /\ Normalized(ages, d) \in Nat /\ Normalized(ages, d + 1) \in Nat
      /\ ages[0] \in Nat
  BY ZenonT(60), <1>1, <1>2 DEF Normalized, Curves
<1>4. CASE ages[0] = 0
  BY ZenonT(60), <1>1, <1>3, <1>4 DEF Drops
<1>5. CASE ages[0] # 0
  BY <1>1, <1>3, <1>5 DEF Drops, Slope
<1> QED
  BY ZenonT(60), <1>1, <1>4, <1>5

\* The zero arrays are arrays.
LEMMA ZeroTypes == ZeroCurve \in Curves /\ ZeroSlots \in Slots /\ 0 \in Contexts
BY ProfilerAssumption DEF ZeroCurve, Curves, ZeroSlots, Slots, Contexts

-----------------------------------------------------------------------------
(* Type correctness. *)

LEMMA TypeInit == Init => TypeOK
<1> SUFFICES ASSUME Init PROVE TypeOK
  BY ZenonT(60)
<1> USE ProfilerAssumption, GenArraySizeAssumption, ZeroTypes
<1>1. /\ known \subseteq Sites /\ factor \in [Sites -> {0, 1}] /\ total \in Nat
      /\ tenuring \in 0 .. MaxAge
      /\ phase \in {"run", "evacuate", "merge", "update"}
      /\ cset \subseteq Objects /\ todo \subseteq Keys
  BY ZenonT(60) DEF Init
<1>2. target \in [Sites -> [Contexts -> 0 .. GenArraySize - 2]]
  BY DEF Init, ZeroSlots
<1>3. allocs \in [Sites -> Slots] /\ tracked \in [Sites -> Slots]
  BY ZenonT(60) DEF Init
<1>4. survivors \in [Workers -> [Keys -> Curves]] /\ promotions \in [Keys -> Curves]
  BY ZenonT(60) DEF Init
<1>5. heap \in [Objects -> Object]
  BY DEF Init, Object, Free
<1>6. mutator \in [Mutators -> Thread]
  BY DEF Init, Thread, Idle, Index
<1> QED
  BY ZenonT(60), <1>1, <1>2, <1>3, <1>4, <1>5, <1>6 DEF TypeOK

\* The fields of a thread record.
LEMMA ThreadFields ==
  ASSUME TypeOK, NEW m \in Mutators
  PROVE  /\ mutator[m].site \in Sites \cup {0} /\ mutator[m].context \in Contexts
         /\ mutator[m].count \in Nat /\ mutator[m].gen \in Index
<1>1. mutator[m] \in Thread
  BY ZenonT(60) DEF TypeOK
<1> QED
  BY ZenonT(60), <1>1 DEF Thread

\* A thread record after its pc is set, or after the thread resumes.
LEMMA ThreadTypes ==
  ASSUME TypeOK, NEW m \in Mutators
  PROVE  /\ Idle \in Thread
         /\ Resume(m) \in Thread
         /\ [mutator[m] EXCEPT !.pc = "place"] \in Thread
         /\ [mutator[m] EXCEPT !.pc = "gc"] \in Thread
         /\ [mutator[m] EXCEPT !.pc = "pause"] \in Thread
         /\ [mutator[m] EXCEPT !.pc = "vmop"] \in Thread
         /\ [mutator[m] EXCEPT !.pc = "doit"] \in Thread
<1>1. mutator[m] \in Thread
  BY DEF TypeOK
<1>2. Idle \in Thread
  BY ZeroTypes, GenArraySizeAssumption DEF Thread, Idle, Index
<1> QED
  BY ZenonT(60), <1>1, <1>2 DEF Thread, Resume

\* An object that is copied or left in place.
LEMMA ObjectTypes ==
  ASSUME TypeOK, NEW o \in Objects
  PROVE  /\ Free \in Object
         /\ heap[o].context \in Contexts /\ heap[o].age \in 0 .. MaxAge
         /\ \A a \in 0 .. MaxAge, y \in BOOLEAN :
              [heap[o] EXCEPT !.age = a, !.young = y] \in Object
         /\ [heap[o] EXCEPT !.young = FALSE] \in Object
<1>1. heap[o] \in Object
  BY ZenonT(60) DEF TypeOK
<1>2. Free \in Object
  BY ZeroTypes, ProfilerAssumption DEF Object, Free
<1> QED
  BY ZenonT(60), <1>1, <1>2 DEF Object

LEMMA TypeStep == TypeOK /\ [Next]_vars => TypeOK'
<1> SUFFICES ASSUME TypeOK, [Next]_vars PROVE TypeOK'
  BY ZenonT(60)
<1>t. /\ factor \in [Sites -> {0, 1}]
      /\ target \in [Sites -> [Contexts -> 0 .. GenArraySize - 2]]
      /\ allocs \in [Sites -> Slots] /\ tracked \in [Sites -> Slots]
  BY ZenonT(60) DEF TypeOK
<1>k. /\ survivors \in [Workers -> [Keys -> Curves]]
      /\ promotions \in [Keys -> Curves]
  BY ZenonT(60) DEF TypeOK
<1>h. heap \in [Objects -> Object]
  BY ZenonT(60) DEF TypeOK
<1>m. mutator \in [Mutators -> Thread]
  BY ZenonT(60) DEF TypeOK
<1>1. ASSUME NEW s \in Sites, add_entry(s) PROVE TypeOK'
  BY ZenonT(60), <1>1 DEF add_entry, TypeOK, counts
<1>2. ASSUME NEW m \in Mutators, NEW s \in Sites, NEW c \in ThreadContexts,
             LoadCounter(m, s, c)
      PROVE  TypeOK'
  <2>1. c \in Contexts /\ factor[s] \in {0, 1}
    BY ZenonT(60), <1>t, ProfilerAssumption DEF Contexts
  <2>2. Slot(s, c) \in Contexts
    BY ZenonT(60), <2>1, SlotCases
  <2>3. allocs[s][Slot(s, c)] \in Nat /\ target_gen(s, c) \in Index
    BY <2>2, <1>t, GenArraySizeAssumption DEF Slots, target_gen, Index
  <2>4. mutator' \in [Mutators -> Thread]
    BY ZenonT(60), <1>2, <1>m, <2>1, <2>3 DEF LoadCounter, Thread
  <2> QED
    BY ZenonT(60), <1>2, <2>4 DEF LoadCounter, TypeOK, tables, counts
<1>3. ASSUME NEW m \in Mutators, StoreCounter(m)
      PROVE  allocs' \in [Sites -> Slots] /\ tracked' \in [Sites -> Slots]
  <2>1. mutator[m].context \in Contexts /\ mutator[m].count + 1 \in Nat
    BY ThreadFields
  <2>2. CASE mutator[m].site \in Sites
    <3>1. Slot(mutator[m].site, mutator[m].context) \in Contexts
      BY ZenonT(60), <1>t, <2>1, <2>2, SlotCases
    <3> QED
      BY <1>3, <1>t, <2>1, <2>2, <3>1 DEF StoreCounter, Slots
  <2>3. CASE mutator[m].site \notin Sites
    <3>1. allocs' = allocs /\ tracked' = tracked
      BY ZenonT(60), <1>3, <1>t, <2>3 DEF StoreCounter
    <3> QED
      BY ZenonT(60), <3>1, <1>t
  <2> QED
    BY ZenonT(60), <2>2, <2>3
<1>4. ASSUME NEW m \in Mutators, NEW o \in Objects, Install(m, o)
      PROVE  heap' \in [Objects -> Object] /\ mutator' \in [Mutators -> Thread]
  <2>1. [site |-> mutator[m].site, context |-> mutator[m].context,
         age |-> 0, young |-> mutator[m].gen = 0] \in Object
    BY ThreadFields, ProfilerAssumption DEF Object
  <2> QED
    BY ZenonT(60), <1>4, <1>h, <1>m, <2>1, ThreadTypes DEF Install
<1>5. ASSUME NEW m \in Mutators, NEW o \in Objects, FastAllocate(m, o) PROVE TypeOK'
  BY ZenonT(60), <1>3, <1>4, <1>5 DEF FastAllocate, TypeOK, counts
<1>6. ASSUME NEW m \in Mutators, SlowCount(m) PROVE TypeOK'
  <2>1. mutator' \in [Mutators -> Thread]
    BY ZenonT(60), <1>6, ThreadTypes DEF SlowCount, TypeOK
  <2> QED
    BY ZenonT(60), <1>3, <1>6, <2>1 DEF SlowCount, TypeOK, counts
<1>7. ASSUME NEW m \in Mutators, NEW o \in Objects, SlowAllocate(m, o) PROVE TypeOK'
  BY ZenonT(60), <1>4, <1>7 DEF SlowAllocate, TypeOK, tables, counts
<1>8. ASSUME NEW m \in Mutators, SlowFail(m) PROVE TypeOK'
  BY ZenonT(60), <1>8, ThreadTypes DEF SlowFail, TypeOK, tables, counts
<1>9. ASSUME NEW m \in Mutators, RequestCollection(m) PROVE TypeOK'
  BY ZenonT(60), <1>9, ThreadTypes DEF RequestCollection, TypeOK, tables, counts
<1>10. ASSUME NEW m \in Mutators, SkipCollection(m) PROVE TypeOK'
  <2>1. mutator' \in [Mutators -> Thread]
    BY ZenonT(60), <1>10, <1>m, ThreadTypes DEF SkipCollection
  <2> QED
    BY ZenonT(60), <1>10, <2>1 DEF SkipCollection, TypeOK, tables, counts
<1>11. ASSUME NEW m \in Mutators, StartPause(m) PROVE TypeOK'
  BY ZenonT(60), <1>11, ThreadTypes DEF StartPause, TypeOK, tables, counts
<1>12. ASSUME NEW w \in Workers, NEW o \in Objects, NEW stays \in BOOLEAN,
              NEW displaced \in BOOLEAN, copy_to_survivor_space(w, o, stays, displaced)
       PROVE  TypeOK'
  <2>1. heap' \in [Objects -> Object]
    <3>1. (IF stays /\ heap[o].age < MaxAge THEN heap[o].age + 1 ELSE heap[o].age) \in 0 .. MaxAge
      <4>1. heap[o].age \in 0 .. MaxAge /\ MaxAge \in Nat
        BY ZenonT(60), ObjectTypes, ProfilerAssumption
      <4> QED
        BY <4>1
    <3>2. [heap[o] EXCEPT !.age = IF stays /\ @ < MaxAge THEN @ + 1 ELSE @,
                          !.young = stays] \in Object
      BY ZenonT(60), <3>1, ObjectTypes
    <3> QED
      BY ZenonT(60), <1>12, <1>h, <3>2 DEF copy_to_survivor_space
  <2>2. survivors' \in [Workers -> [Keys -> Curves]]
    <3>1. heap[o].context \in Contexts /\ heap[o].age \in 0 .. MaxAge
      BY ZenonT(60), ObjectTypes
    <3>2. ASSUME heap[o].site \in known
          PROVE  Key(heap[o].site, heap[o].context) \in Keys
      BY ZenonT(60), <3>1, <3>2, ZeroTypes DEF TypeOK, Key, Keys
    <3> QED
      BY <1>12, <1>k, <3>1, <3>2, AgeIndexRange DEF copy_to_survivor_space, Curves
  <2> QED
    BY ZenonT(60), <1>12, <2>1, <2>2 DEF copy_to_survivor_space, TypeOK, tables
<1>13. ASSUME NEW o \in Objects, NEW preserved \in BOOLEAN,
              handle_evacuation_failure(o, preserved)
       PROVE  TypeOK'
  <2>1. heap' \in [Objects -> Object]
    BY ZenonT(60), <1>13, <1>h, ObjectTypes DEF handle_evacuation_failure
  <2> QED
    BY ZenonT(60), <1>13, <2>1 DEF handle_evacuation_failure, TypeOK, tables, counts
<1>14. ASSUME NEW m \in Mutators, EndPause(m) PROVE TypeOK'
  <2>1. heap' \in [Objects -> Object]
    BY ZenonT(60), <1>14, <1>h, ObjectTypes DEF EndPause
  <2> QED
    BY ZenonT(60), <1>14, <2>1, ThreadTypes DEF EndPause, TypeOK, tables, counts
<1>15. ASSUME NEW m \in Mutators, FullCollection(m) PROVE TypeOK'
  <2>1. heap' \in [Objects -> Object]
    BY ZenonT(60), <1>15, <1>h, ObjectTypes DEF FullCollection
  <2> QED
    BY ZenonT(60), <1>15, <2>1, ThreadTypes DEF FullCollection, TypeOK, tables, counts
<1>16. ASSUME NEW m \in Mutators, CountCollection(m) PROVE TypeOK'
  <2>1. mutator' \in [Mutators -> Thread]
    BY ZenonT(60), <1>16, <1>m, ThreadTypes DEF CountCollection
  <2>2. total' \in Nat /\ tenuring' \in 0 .. MaxAge
    BY <1>16, ProfilerAssumption DEF CountCollection, TypeOK, TenuringAfter
  <2> QED
    BY ZenonT(60), <1>16, <2>1, <2>2 DEF CountCollection, TypeOK, tables, counts
<1>17. ASSUME NEW m \in Mutators, BeginMerge(m) PROVE TypeOK'
  <2>1. mutator' \in [Mutators -> Thread]
    BY ZenonT(60), <1>17, <1>m, ThreadTypes DEF BeginMerge
  <2>2. total' \in Nat
    BY <1>17 DEF BeginMerge, TypeOK
  <2> QED
    BY ZenonT(60), <1>17, <2>1, <2>2 DEF BeginMerge, TypeOK, tables, counts
<1>18. ASSUME NEW w \in Workers, NEW k \in Keys, update_promotions(w, k) PROVE TypeOK'
  <2>1. promotions' \in [Keys -> Curves]
    <3>1. \A g \in Keys :
            [a \in Index |-> IF a = 0 THEN promotions[g][0]
                             ELSE promotions[g][a] + survivors[w][k][a]] \in Curves
      BY <1>k, GenArraySizeAssumption DEF Curves, Index
    <3>2. Key(k[1], k[2]) \in Keys
      BY ZenonT(60), ZeroTypes DEF Key, Keys
    <3> QED
      BY ZenonT(60), <1>18, <1>k, <3>1, <3>2 DEF update_promotions
  <2>2. survivors' \in [Workers -> [Keys -> Curves]]
    BY ZenonT(60), <1>18, <1>k, ZeroTypes DEF update_promotions
  <2> QED
    BY ZenonT(60), <1>18, <2>1, <2>2 DEF update_promotions, TypeOK, tables
<1>19. ASSUME BeginUpdate PROVE TypeOK'
  BY ZenonT(60), <1>19 DEF BeginUpdate, TypeOK, tables, counts
<1>20. ASSUME NEW k \in Keys, NEW rnd \in Roundings, NEW decision \in Decisions,
              update_target_gen(k, rnd, decision)
       PROVE  TypeOK'
  <2>1. k[1] \in Sites /\ k[2] \in Contexts /\ factor[k[1]] \in {0, 1}
    BY ZenonT(60), <1>t DEF Keys
  <2>2. Slot(k[1], k[2]) \in Contexts
    BY ZenonT(60), <2>1, SlotCases
  <2>3. promotions' \in [Keys -> Curves]
    <3>1. allocs[k[1]][Slot(k[1], k[2])] \in Nat
      BY ZenonT(60), <2>1, <2>2, <1>t DEF Slots
    <3>2. [promotions[k] EXCEPT ![0] = @ + allocs[k[1]][Slot(k[1], k[2])]] \in Curves
      BY <3>1, <1>k, GenArraySizeAssumption DEF Curves, Index
    <3> QED
      BY ZenonT(60), <1>20, <1>k, <3>2 DEF update_target_gen
  <2>4. /\ factor' \in [Sites -> {0, 1}]
        /\ target' \in [Sites -> [Contexts -> 0 .. GenArraySize - 2]]
        /\ allocs' \in [Sites -> Slots] /\ tracked' \in [Sites -> Slots]
    <3>1. CASE decision > 0 /\ ProfAlloc
      <4>1. target' = [target EXCEPT ![k[1]][Slot(k[1], k[2])] = decision]
            /\ UNCHANGED <<factor, allocs, tracked>>
        BY <1>20, <3>1 DEF update_target_gen, Decisions
      <4>2. decision \in 0 .. GenArraySize - 2
        BY <3>1, GenArraySizeAssumption DEF Decisions, Conflict
      <4> QED
        BY ZenonT(60), <4>1, <4>2, <2>1, <2>2, <1>t
    <3>2. CASE prepare_contexts(k[1])
      BY ZenonT(60), <3>2, <2>1, <1>t, ZeroTypes DEF prepare_contexts, Slots
    <3>3. CASE UNCHANGED <<factor, target, allocs, tracked>>
      BY ZenonT(60), <3>3, <1>t
    <3> QED
      BY ZenonT(60), <1>20, <3>1, <3>2, <3>3 DEF update_target_gen
  <2> QED
    BY ZenonT(60), <1>20, <2>3, <2>4 DEF update_target_gen, TypeOK
<1>21. ASSUME NEW m \in Mutators, CloseWindow(m) PROVE TypeOK'
  <2>1. allocs' \in [Sites -> Slots] /\ tracked' \in [Sites -> Slots]
    BY ZenonT(60), <1>21, <1>t, ZeroTypes DEF CloseWindow, Zeroed, Slots
  <2> QED
    <3>1. mutator' \in [Mutators -> Thread]
      BY ZenonT(60), <1>21, <1>m, ThreadTypes DEF CloseWindow
    <3>2. promotions' \in [Keys -> Curves] /\ tenuring' \in 0 .. MaxAge
      BY <1>21, ProfilerAssumption, ZeroTypes DEF CloseWindow, TypeOK, TenuringAfter
    <3> QED
      BY ZenonT(60), <1>21, <2>1, <3>1, <3>2 DEF CloseWindow, TypeOK
<1>22. CASE UNCHANGED vars
  BY ZenonT(60), <1>22 DEF vars, TypeOK
<1> QED
  BY ZenonT(60), <1>1, <1>2, <1>5, <1>6, <1>7, <1>8, <1>9, <1>10, <1>11, <1>12, <1>13, <1>14,
     <1>15, <1>16, <1>17, <1>18, <1>19, <1>20, <1>21, <1>22
  DEF Next, Allocation, Collection, VMOperation

\* The tables, headers and threads of the profiler keep their types: a target
\* generation stays in 0 .. NG2C_GEN_ARRAY_SIZE - 2, as the assertions of
\* inc_target_gen and target_gen require.
THEOREM TypeCorrect == Spec => []TypeOK
BY TypeInit, TypeStep, PTL DEF Spec

-----------------------------------------------------------------------------
(* The inductive invariant. *)

LEMMA InvInit == Init => ProfilerInv
<1> SUFFICES ASSUME Init PROVE ProfilerInv
  OBVIOUS
<1>1. TypeOK
  BY ZenonT(60), TypeInit
<1>2. KeysAgree
  BY ZenonT(60), ZeroTypes DEF Init, KeysAgree, ZeroSlots, Keys
<1>3. NeverOvercounts
  BY DEF Init, NeverOvercounts, ZeroSlots
<1> QED
  BY ZenonT(60), <1>1, <1>2, <1>3 DEF Init, ProfilerInv, LoadedCounts, UpdateLoop, Idle

\* A step that leaves the tables alone and takes no thread into an increment
\* or, without merging, into the update loop.
QuietStep ==
  /\ UNCHANGED <<factor, allocs, tracked, survivors, promotions, todo>>
  /\ \A m \in Mutators : mutator'[m].pc = "count" => mutator'[m] = mutator[m] /\ phase' = phase
  /\ phase' = "update" => phase = "update"

LEMMA QuietStepKeepsInv ==
  ASSUME ProfilerInv, TypeOK', QuietStep PROVE ProfilerInv'
<1>1. KeysAgree'
  BY ZenonT(60) DEF ProfilerInv, KeysAgree, QuietStep
<1>2. NeverOvercounts'
  BY ZenonT(60) DEF ProfilerInv, NeverOvercounts, QuietStep
<1>3. LoadedCounts'
  BY ZenonT(60) DEF ProfilerInv, LoadedCounts, QuietStep, Slot
<1>4. UpdateLoop'
  BY ZenonT(60) DEF ProfilerInv, UpdateLoop, QuietStep
<1> QED
  BY ZenonT(60), <1>1, <1>2, <1>3, <1>4 DEF ProfilerInv

LEMMA InvStep == ProfilerInv /\ [Next]_vars => ProfilerInv'
<1> SUFFICES ASSUME ProfilerInv, [Next]_vars PROVE ProfilerInv'
  OBVIOUS
<1>t. TypeOK /\ TypeOK'
  BY ZenonT(60), TypeStep DEF ProfilerInv
<1>m. mutator \in [Mutators -> Thread]
  BY ZenonT(60), <1>t DEF TypeOK
<1>f. /\ factor \in [Sites -> {0, 1}]
      /\ allocs \in [Sites -> Slots] /\ tracked \in [Sites -> Slots]
  BY ZenonT(60), <1>t DEF TypeOK
<1>i. KeysAgree /\ NeverOvercounts /\ LoadedCounts /\ UpdateLoop
  BY ZenonT(60) DEF ProfilerInv
<1>r. \A m \in Mutators : Resume(m).pc # "count"
  BY ZenonT(60), <1>m DEF Resume, Thread
<1>1. ASSUME NEW s \in Sites, add_entry(s) PROVE ProfilerInv'
  <2>1. QuietStep
    BY ZenonT(60), <1>1 DEF add_entry, counts, QuietStep
  <2> QED
    BY ZenonT(60), <2>1, <1>t, QuietStepKeepsInv
<1>2. ASSUME NEW m \in Mutators, NEW s \in Sites, NEW c \in ThreadContexts,
             LoadCounter(m, s, c)
      PROVE  ProfilerInv'
  <2>1. /\ UNCHANGED <<factor, allocs, tracked, survivors, promotions, todo, phase>>
        /\ phase = "run"
        /\ mutator' = [mutator EXCEPT ![m] =
             [pc |-> "count", site |-> s, context |-> c,
              count |-> allocs[s][Slot(s, c)], gen |-> target_gen(s, c)]]
    BY ZenonT(60), <1>2 DEF LoadCounter, tables, counts
  <2>2. c \in Contexts /\ Slot(s, c) \in Contexts
    BY ZenonT(60), <1>f, ProfilerAssumption, SlotCases DEF Contexts
  <2>3. allocs[s][Slot(s, c)] <= tracked[s][Slot(s, c)]
    BY ZenonT(60), <2>2, <1>i DEF NeverOvercounts
  <2>4. LoadedCounts'
    BY ZenonT(60), <2>1, <2>3, <1>i, <1>m DEF LoadedCounts, Slot
  <2>5. KeysAgree' /\ NeverOvercounts' /\ UpdateLoop'
    BY ZenonT(60), <2>1, <1>i DEF KeysAgree, NeverOvercounts, UpdateLoop
  <2> QED
    BY ZenonT(60), <2>4, <2>5, <1>t DEF ProfilerInv
<1>3. ASSUME NEW m \in Mutators, StoreCounter(m), mutator[m].pc = "count",
             UNCHANGED <<factor, survivors, promotions, todo, phase>>,
             NEW r, r.pc # "count", mutator' = [mutator EXCEPT ![m] = r]
      PROVE  ProfilerInv'
  <2> DEFINE s == mutator[m].site
             idx == Slot(s, mutator[m].context)
  <2>1. s \in Sites /\ mutator[m].context \in Contexts /\ mutator[m].count \in Nat
        /\ mutator[m].count <= tracked[s][idx] /\ phase = "run"
    BY ZenonT(60), <1>3, <1>i, <1>t, ThreadFields DEF LoadedCounts
  <2>2. idx \in Contexts /\ (factor[s] = 0 => idx = 0)
    BY ZenonT(60), <2>1, <1>f, SlotCases
  <2>3. /\ allocs' = [allocs EXCEPT ![s][idx] = mutator[m].count + 1]
        /\ tracked' = [tracked EXCEPT ![s][idx] = @ + 1]
    BY ZenonT(60), <1>3 DEF StoreCounter
  <2>n. tracked[s][idx] \in Nat
    BY ZenonT(60), <2>1, <2>2, <1>f DEF Slots
  <2> HIDE DEF s, idx
  <2>4. \A s2 \in Sites, c2 \in Contexts :
          /\ tracked[s2][c2] \in Nat
          /\ tracked[s2][c2] <= tracked'[s2][c2]
          /\ allocs'[s2][c2] = IF s2 = s /\ c2 = idx THEN mutator[m].count + 1 ELSE allocs[s2][c2]
          /\ tracked'[s2][c2] = IF s2 = s /\ c2 = idx THEN tracked[s][idx] + 1 ELSE tracked[s2][c2]
    BY <2>1, <2>2, <2>3, <1>f DEF Slots
  <2>5. NeverOvercounts'
    BY <2>1, <2>4, <2>n, <1>i DEF NeverOvercounts
  <2>6. KeysAgree'
    <3>1. ASSUME NEW s2 \in Sites, NEW c2 \in Contexts \ {0}, factor[s2] = 0
          PROVE  allocs'[s2][c2] = 0
      <4>1. ~(s2 = s /\ c2 = idx)
        BY ZenonT(60), <2>2, <3>1
      <4>2. allocs'[s2][c2] = allocs[s2][c2]
        BY ZenonT(60), <4>1, <2>4
      <4> QED
        BY ZenonT(60), <4>2, <3>1, <1>i DEF KeysAgree
    <3> QED
      BY ZenonT(60), <3>1, <1>3, <1>i DEF KeysAgree
  <2>7. LoadedCounts'
    <3>1. SUFFICES ASSUME NEW n \in Mutators, mutator'[n].pc = "count"
                   PROVE  /\ phase' = "run"
                          /\ mutator'[n].site \in Sites
                          /\ mutator'[n].count <=
                               tracked'[mutator'[n].site]
                                       [mutator'[n].context * factor'[mutator'[n].site]]
      BY ZenonT(60) DEF LoadedCounts, Slot
    <3>2. mutator'[n] = mutator[n]
      BY ZenonT(60), <3>1, <1>3, <1>m
    <3> DEFINE s2 == mutator[n].site
               c2 == Slot(s2, mutator[n].context)
    <3>3. s2 \in Sites /\ mutator[n].count \in Nat /\ mutator[n].context \in Contexts
          /\ mutator[n].count <= tracked[s2][c2] /\ phase = "run"
      BY ZenonT(60), <3>1, <3>2, <1>i, <1>t, ThreadFields DEF LoadedCounts
    <3>4. c2 \in Contexts
      BY ZenonT(60), <3>3, <1>f, SlotCases
    <3>5. tracked[s2][c2] \in Nat /\ tracked'[s2][c2] \in Nat /\ tracked[s2][c2] <= tracked'[s2][c2]
      BY <3>3, <3>4, <2>4, <1>t DEF TypeOK, Slots
    <3>6. mutator[n].count <= tracked'[s2][c2]
      BY <3>3, <3>5
    <3> QED
      BY ZenonT(60), <3>2, <3>3, <3>6, <1>3 DEF Slot
  <2>8. UpdateLoop'
    BY ZenonT(60), <1>3, <1>i DEF UpdateLoop
  <2> QED
    BY ZenonT(60), <2>5, <2>6, <2>7, <2>8, <1>t DEF ProfilerInv
<1>4. ASSUME NEW m \in Mutators, NEW o \in Objects, FastAllocate(m, o) PROVE ProfilerInv'
  <2>1. Idle.pc # "count" /\ mutator' = [mutator EXCEPT ![m] = Idle]
    BY ZenonT(60), <1>4 DEF FastAllocate, Install, Idle
  <2> QED
    BY ZenonT(60), <1>3, <1>4, <2>1 DEF FastAllocate, counts
<1>5. ASSUME NEW m \in Mutators, SlowCount(m) PROVE ProfilerInv'
  <2> DEFINE r == [mutator[m] EXCEPT !.pc = "place"]
  <2>1. r.pc # "count" /\ mutator' = [mutator EXCEPT ![m] = r]
    BY ZenonT(60), <1>5, <1>m DEF SlowCount, Thread
  <2> HIDE DEF r
  <2> QED
    BY ZenonT(60), <1>3, <1>5, <2>1 DEF SlowCount, counts
<1>6. ASSUME NEW m \in Mutators,
             \/ \E o \in Objects : SlowAllocate(m, o)
             \/ SlowFail(m) \/ RequestCollection(m) \/ SkipCollection(m)
             \/ CountCollection(m) \/ FullCollection(m)
      PROVE  ProfilerInv'
  <2>1. UNCHANGED <<factor, allocs, tracked, survivors, promotions, todo, phase>>
    BY ZenonT(60), <1>6 DEF SlowAllocate, SlowFail, RequestCollection, SkipCollection,
                CountCollection, FullCollection, tables, counts
  <2>2. \E r : r.pc # "count" /\ mutator' = [mutator EXCEPT ![m] = r]
    <3>1. /\ Idle.pc # "count" /\ Resume(m).pc # "count"
          /\ [mutator[m] EXCEPT !.pc = "gc"].pc # "count"
          /\ [mutator[m] EXCEPT !.pc = "vmop"].pc # "count"
      BY ZenonT(60), <1>r, <1>m DEF Idle, Thread
    <3> QED
      BY ZenonT(60), <1>6, <3>1 DEF SlowAllocate, Install, SlowFail, RequestCollection, SkipCollection,
                        CountCollection, FullCollection
  <2>3. QuietStep
    BY ZenonT(60), <2>1, <2>2, <1>m DEF QuietStep
  <2> QED
    BY <2>3, <1>t, QuietStepKeepsInv
<1>7. ASSUME NEW m \in Mutators, StartPause(m) \/ EndPause(m) \/ BeginMerge(m)
      PROVE  ProfilerInv'
  <2>1. /\ UNCHANGED <<factor, allocs, tracked, survivors, promotions, todo>>
        /\ phase' # "update"
    BY ZenonT(60), <1>7 DEF StartPause, EndPause, BeginMerge, tables, counts
  <2>2. \A n \in Mutators : mutator[n].pc # "count"
    BY ZenonT(60), <1>7, <1>i DEF StartPause, EndPause, BeginMerge, AtSafepoint, LoadedCounts
  <2>3. \E p \in {"pause", "vmop", "doit"} : mutator' = [mutator EXCEPT ![m].pc = p]
    BY ZenonT(60), <1>7 DEF StartPause, EndPause, BeginMerge
  <2>4. \A n \in Mutators : mutator'[n].pc # "count"
    BY ZenonT(60), <2>2, <2>3, <1>m DEF Thread
  <2>5. QuietStep
    BY ZenonT(60), <2>1, <2>4 DEF QuietStep
  <2> QED
    BY <2>5, <1>t, QuietStepKeepsInv
<1>8. ASSUME NEW o \in Objects, NEW preserved \in BOOLEAN,
             handle_evacuation_failure(o, preserved)
      PROVE  ProfilerInv'
  <2>1. QuietStep
    BY ZenonT(60), <1>8 DEF handle_evacuation_failure, tables, counts, QuietStep
  <2> QED
    BY ZenonT(60), <2>1, <1>t, QuietStepKeepsInv
<1>9. ASSUME NEW w \in Workers, NEW o \in Objects, NEW stays \in BOOLEAN,
             NEW displaced \in BOOLEAN, copy_to_survivor_space(w, o, stays, displaced)
      PROVE  ProfilerInv'
  <2> DEFINE k == Key(heap[o].site, heap[o].context)
             a == AgeIndex(heap[o].age)
  <2>1. /\ UNCHANGED <<factor, allocs, tracked, promotions, todo, mutator, phase>>
        /\ phase = "evacuate"
        /\ \/ survivors' = survivors
           \/ heap[o].site \in known /\ survivors' = [survivors EXCEPT ![w][k][a] = @ + 1]
    BY ZenonT(60), <1>9 DEF copy_to_survivor_space, tables
  <2>2. KeysAgree'
    <3>1. CASE survivors' = survivors
      BY ZenonT(60), <3>1, <2>1, <1>i DEF KeysAgree
    <3>2. CASE heap[o].site \in known /\ survivors' = [survivors EXCEPT ![w][k][a] = @ + 1]
      <4>1. heap[o].site \in Sites /\ heap[o].context \in Contexts
        BY ZenonT(60), <3>2, <1>t, ObjectTypes DEF TypeOK
      <4>2. ASSUME NEW s \in Sites, NEW c \in Contexts \ {0}, factor[s] = 0
            PROVE  k # <<s, c>>
        BY <4>1, <4>2 DEF Key
      <4>3. survivors \in [Workers -> [Keys -> Curves]]
        BY ZenonT(60), <1>t DEF TypeOK
      <4>4. ASSUME NEW v \in Workers, NEW j \in Keys, j # k
            PROVE  survivors'[v][j] = survivors[v][j]
        <5> HIDE DEF k, a
        <5> QED
          BY ZenonT(60), <4>3, <4>4, <3>2
      <4>5. ASSUME NEW s \in Sites, NEW c \in Contexts \ {0}, factor[s] = 0, NEW v \in Workers
            PROVE  survivors'[v][<<s, c>>] = ZeroCurve
        <5>1. <<s, c>> \in Keys /\ <<s, c>> # k
          BY ZenonT(60), <4>2, <4>5 DEF Keys
        <5>2. survivors'[v][<<s, c>>] = survivors[v][<<s, c>>]
          BY ZenonT(60), <4>4, <5>1
        <5> QED
          BY ZenonT(60), <5>2, <4>5, <1>i DEF KeysAgree
      <4> QED
        BY ZenonT(60), <4>5, <2>1, <1>i DEF KeysAgree
    <3> QED
      BY ZenonT(60), <3>1, <3>2, <2>1
  <2>3. NeverOvercounts' /\ LoadedCounts' /\ UpdateLoop'
    BY ZenonT(60), <2>1, <1>i DEF NeverOvercounts, LoadedCounts, UpdateLoop, Slot
  <2> QED
    BY ZenonT(60), <2>2, <2>3, <1>t DEF ProfilerInv
<1>10. ASSUME NEW w \in Workers, NEW k \in Keys, update_promotions(w, k) PROVE ProfilerInv'
  <2> DEFINE g == Key(k[1], k[2])
             merged == [a \in Index |-> IF a = 0 THEN promotions[g][0]
                                        ELSE promotions[g][a] + survivors[w][k][a]]
  <2>1. /\ UNCHANGED <<factor, allocs, tracked, todo, mutator, phase>>
        /\ phase = "merge"
        /\ promotions' = [promotions EXCEPT ![g] = merged]
        /\ survivors' = [survivors EXCEPT ![w][k] = ZeroCurve]
    BY ZenonT(60), <1>10 DEF update_promotions, tables
  <2>2. /\ survivors \in [Workers -> [Keys -> Curves]]
        /\ promotions \in [Keys -> Curves]
    BY ZenonT(60), <1>t DEF TypeOK
  <2>3. k[1] \in Sites /\ k[2] \in Contexts
    BY ZenonT(60) DEF Keys
  <2>4. ASSUME NEW s \in Sites, NEW c \in Contexts \ {0}, factor[s] = 0
        PROVE  <<s, c>> \in Keys /\ <<s, c>> # g
    BY <2>4, <2>3 DEF Key, Keys
  <2> HIDE DEF g, merged
  <2>5. \A j \in Keys : j # g => promotions'[j] = promotions[j]
    BY ZenonT(60), <2>1, <2>2
  <2>6. \A v \in Workers, j \in Keys :
          survivors'[v][j] = survivors[v][j] \/ survivors'[v][j] = ZeroCurve
    BY ZenonT(60), <2>1, <2>2
  <2>7. KeysAgree'
    <3>1. ASSUME NEW s \in Sites, NEW c \in Contexts \ {0}, factor[s] = 0
          PROVE  /\ allocs[s][c] = 0
                 /\ promotions'[<<s, c>>] = ZeroCurve
                 /\ \A v \in Workers : survivors'[v][<<s, c>>] = ZeroCurve
      <4>1. <<s, c>> \in Keys /\ <<s, c>> # g
        BY ZenonT(60), <2>4, <3>1
      <4>2. /\ allocs[s][c] = 0 /\ promotions[<<s, c>>] = ZeroCurve
            /\ \A v \in Workers : survivors[v][<<s, c>>] = ZeroCurve
        BY ZenonT(60), <3>1, <1>i DEF KeysAgree
      <4>3. promotions'[<<s, c>>] = ZeroCurve
        BY ZenonT(60), <4>1, <4>2, <2>5
      <4>4. \A v \in Workers : survivors'[v][<<s, c>>] = ZeroCurve
        BY ZenonT(60), <4>1, <4>2, <2>6
      <4> QED
        BY ZenonT(60), <4>2, <4>3, <4>4
    <3> QED
      BY ZenonT(60), <3>1, <2>1 DEF KeysAgree
  <2>8. NeverOvercounts' /\ LoadedCounts' /\ UpdateLoop'
    BY ZenonT(60), <2>1, <1>i DEF NeverOvercounts, LoadedCounts, UpdateLoop, Slot
  <2> QED
    BY ZenonT(60), <2>7, <2>8, <1>t DEF ProfilerInv
<1>11. ASSUME BeginUpdate PROVE ProfilerInv'
  <2>1. /\ UNCHANGED <<factor, allocs, tracked, survivors, promotions, mutator>>
        /\ phase = "merge"
        /\ todo' = {k \in Keys : promotions[k] # ZeroCurve}
        /\ \A w \in Workers, k \in Keys : survivors[w][k] = ZeroCurve
    BY ZenonT(60), <1>11 DEF BeginUpdate, Merged, tables, counts
  <2>2. ASSUME NEW k \in todo', k[2] # 0 PROVE factor[k[1]] = 1
    <3>1. /\ k = <<k[1], k[2]>> /\ k[1] \in Sites /\ k[2] \in Contexts \ {0}
          /\ promotions[k] # ZeroCurve
      BY <2>1, <2>2 DEF Keys
    <3>2. factor[k[1]] # 0
      BY <3>1, <1>i DEF KeysAgree
    <3> QED
      BY ZenonT(60), <3>1, <3>2, <1>f
  <2>3. UpdateLoop'
    BY ZenonT(60), <2>1, <2>2 DEF UpdateLoop
  <2>4. KeysAgree' /\ NeverOvercounts'
    BY ZenonT(60), <2>1, <1>i DEF KeysAgree, NeverOvercounts
  <2>5. LoadedCounts'
    BY ZenonT(60), <2>1, <1>i DEF LoadedCounts
  <2> QED
    BY ZenonT(60), <2>3, <2>4, <2>5, <1>t DEF ProfilerInv
<1>12. ASSUME NEW k \in Keys, NEW rnd \in Roundings, NEW decision \in Decisions,
              update_target_gen(k, rnd, decision)
       PROVE  ProfilerInv'
  <2> DEFINE s == k[1]
             ages == [promotions[k] EXCEPT ![0] = @ + allocs[s][Slot(s, k[2])]]
  <2>1. /\ UNCHANGED <<survivors, mutator, phase>> /\ phase = "update"
        /\ k \in todo /\ todo' = todo \ {k}
        /\ promotions' = [promotions EXCEPT ![k] = ages]
        /\ UNCHANGED <<factor, allocs, tracked>> \/ prepare_contexts(s)
    BY ZenonT(60), <1>12 DEF update_target_gen
  <2>2. k = <<s, k[2]>> /\ s \in Sites /\ k[2] \in Contexts /\ 0 \in Contexts
    BY ZeroTypes DEF Keys
  <2>3. k[2] # 0 => factor[s] = 1
    BY ZenonT(60), <2>1, <1>i DEF UpdateLoop
  <2>p. promotions \in [Keys -> Curves]
    BY ZenonT(60), <1>t DEF TypeOK
  <2>4. \A r \in Sites : factor'[r] = 0 => factor[r] = 0
    BY <2>1, <2>2, <1>f DEF prepare_contexts
  <2>5. \A r \in Sites : factor[r] = 1 => factor'[r] = 1
    BY ZenonT(60), <2>1, <2>2, <1>f DEF prepare_contexts
  <2>6. \A r \in Sites, c \in Contexts :
          \/ allocs'[r][c] = allocs[r][c] /\ tracked'[r][c] = tracked[r][c]
          \/ allocs'[r][c] = 0 /\ tracked'[r][c] = 0
    <3>1. CASE UNCHANGED <<factor, allocs, tracked>>
      BY ZenonT(60), <3>1
    <3>2. CASE prepare_contexts(s)
      BY ZenonT(60), <3>2, <2>2, <1>f DEF prepare_contexts, Slots
    <3> QED
      BY ZenonT(60), <3>1, <3>2, <2>1
  <2> HIDE DEF ages
  <2>7. KeysAgree'
    <3>1. ASSUME NEW r \in Sites, NEW c \in Contexts \ {0}, factor'[r] = 0
          PROVE  /\ allocs'[r][c] = 0
                 /\ promotions'[<<r, c>>] = ZeroCurve
                 /\ \A v \in Workers : survivors'[v][<<r, c>>] = ZeroCurve
      <4>1. factor[r] = 0
        BY ZenonT(60), <2>4, <3>1
      <4>2. /\ allocs[r][c] = 0 /\ promotions[<<r, c>>] = ZeroCurve
            /\ \A v \in Workers : survivors[v][<<r, c>>] = ZeroCurve
        BY ZenonT(60), <4>1, <3>1, <1>i DEF KeysAgree
      <4>3. <<r, c>> \in Keys /\ <<r, c>> # k
        BY <4>1, <3>1, <2>2, <2>3 DEF Keys
      <4>4. promotions'[<<r, c>>] = promotions[<<r, c>>]
        BY ZenonT(60), <4>3, <2>1, <2>p
      <4>5. allocs'[r][c] = 0
        BY ZenonT(60), <4>2, <2>6, <3>1
      <4> QED
        BY ZenonT(60), <4>2, <4>4, <4>5, <2>1
    <3> QED
      BY ZenonT(60), <3>1 DEF KeysAgree
  <2>8. NeverOvercounts'
    BY <2>6, <1>i DEF NeverOvercounts
  <2>9. LoadedCounts'
    BY ZenonT(60), <2>1, <1>i DEF LoadedCounts
  <2>10. UpdateLoop'
    <3>1. ASSUME NEW j \in todo', j[2] # 0 PROVE factor'[j[1]] = 1
      <4>1. j \in todo /\ j[1] \in Sites
        BY ZenonT(60), <2>1, <3>1, <1>t DEF TypeOK, Keys
      <4> QED
        BY ZenonT(60), <4>1, <3>1, <2>5, <1>i DEF UpdateLoop
    <3> QED
      BY ZenonT(60), <3>1, <2>1, <1>i DEF UpdateLoop
  <2> QED
    BY ZenonT(60), <2>7, <2>8, <2>9, <2>10, <1>t DEF ProfilerInv
<1>13. ASSUME NEW m \in Mutators, CloseWindow(m) PROVE ProfilerInv'
  <2>1. /\ UNCHANGED <<factor, survivors, todo>> /\ phase' = "run"
        /\ phase \in {"merge", "update"}
        /\ allocs' = [s \in Sites |-> Zeroed(allocs[s], s)]
        /\ tracked' = [s \in Sites |-> Zeroed(tracked[s], s)]
        /\ promotions' = [k \in Keys |-> ZeroCurve]
        /\ mutator' = [mutator EXCEPT ![m] = Resume(m)]
    BY ZenonT(60), <1>13 DEF CloseWindow, Merged
  <2>2. \A s \in Sites, c \in Contexts :
          \/ allocs'[s][c] = allocs[s][c] /\ tracked'[s][c] = tracked[s][c]
          \/ allocs'[s][c] = 0 /\ tracked'[s][c] = 0
    BY ZenonT(60), <2>1, <1>f DEF Zeroed, ZeroSlots, Slots
  <2>3. KeysAgree'
    <3>1. \A s \in Sites, c \in Contexts : promotions'[<<s, c>>] = ZeroCurve
      BY ZenonT(60), <2>1 DEF Keys
    <3> QED
      BY ZenonT(60), <3>1, <2>1, <2>2, <1>i DEF KeysAgree
  <2>4. NeverOvercounts'
    BY <2>2, <1>i DEF NeverOvercounts
  <2>5. LoadedCounts'
    <3>1. \A n \in Mutators : mutator[n].pc # "count"
      BY ZenonT(60), <2>1, <1>i DEF LoadedCounts
    <3>2. \A n \in Mutators : mutator'[n].pc # "count"
      BY ZenonT(60), <3>1, <2>1, <1>m, <1>r
    <3> QED
      BY ZenonT(60), <3>2 DEF LoadedCounts
  <2>6. UpdateLoop'
    BY ZenonT(60), <2>1, <1>i DEF UpdateLoop
  <2> QED
    BY ZenonT(60), <2>3, <2>4, <2>5, <2>6, <1>t DEF ProfilerInv
<1>14. CASE UNCHANGED vars
  <2>1. QuietStep
    BY ZenonT(60), <1>14 DEF vars, QuietStep
  <2> QED
    BY ZenonT(60), <2>1, <1>t, QuietStepKeepsInv
<1> QED
  BY ZenonT(60), <1>1, <1>2, <1>4, <1>5, <1>6, <1>7, <1>8, <1>9, <1>10, <1>11, <1>12, <1>13, <1>14
  DEF Next, Allocation, Collection, VMOperation

\* ProfilerInv is an invariant of the profiler.
THEOREM ProfilerInvariance == Spec => []ProfilerInv
BY InvInit, InvStep, PTL DEF Spec

\* Counting, merging and deciding use one counter of a site until its contexts
\* are expanded.
THEOREM CountersAgree == Spec => []KeysAgree
<1>1. ProfilerInv => KeysAgree
  BY ZenonT(60) DEF ProfilerInv
<1> QED
  BY <1>1, ProfilerInvariance, PTL

\* The unsynchronised increments of any number of threads never make an
\* allocation counter exceed the number of counted allocations.
THEOREM CountersNeverTooHigh == Spec => []NeverOvercounts
<1>1. ProfilerInv => NeverOvercounts
  BY ZenonT(60) DEF ProfilerInv
<1> QED
  BY <1>1, ProfilerInvariance, PTL

-----------------------------------------------------------------------------
(* The step properties. *)

\* A step of WindowsStartEmpty.
EmptyStart ==
  (phase \in {"merge", "update"} /\ phase' = "run") =>
    /\ \A s \in Sites : allocs'[s] = ZeroSlots
    /\ \A k \in Keys : promotions'[k] = ZeroCurve
    /\ \A w \in Workers, k \in Keys : survivors'[w][k] = ZeroCurve

LEMMA EmptyStartStep == ProfilerInv /\ [Next]_vars => [EmptyStart]_vars
<1> SUFFICES ASSUME ProfilerInv, [Next]_vars, phase \in {"merge", "update"}, phase' = "run"
             PROVE  EmptyStart
  BY ZenonT(60) DEF EmptyStart
<1>1. PICK m \in Mutators : CloseWindow(m)
  BY ZenonT(60) DEF Next, Allocation, Collection, VMOperation, vars, add_entry, LoadCounter,
         FastAllocate, SlowAllocate, SlowCount, SlowFail, RequestCollection,
         SkipCollection, StartPause, AtSafepoint, FullCollection, copy_to_survivor_space,
         handle_evacuation_failure, EndPause, CountCollection, BeginMerge,
         update_promotions, BeginUpdate, update_target_gen
<1>2. \A w \in Workers, k \in Keys : survivors'[w][k] = ZeroCurve
  BY ZenonT(60), <1>1 DEF CloseWindow, Merged, ProfilerInv, UpdateLoop
<1>3. \A k \in Keys : promotions'[k] = ZeroCurve
  BY ZenonT(60), <1>1 DEF CloseWindow
<1>4. ASSUME NEW s \in Sites PROVE allocs'[s] = ZeroSlots
  <2>1. allocs[s] \in Slots /\ factor[s] \in {0, 1} /\ allocs'[s] = Zeroed(allocs[s], s)
    BY ZenonT(60), <1>1 DEF CloseWindow, ProfilerInv, TypeOK
  <2>2. CASE factor[s] = 1
    BY <2>1, <2>2 DEF Zeroed
  <2>3. CASE factor[s] = 0
    <3>1. \A c \in Contexts \ {0} : allocs[s][c] = 0
      BY ZenonT(60), <2>3 DEF ProfilerInv, KeysAgree
    <3>2. [allocs[s] EXCEPT ![0] = 0] = ZeroSlots
      BY ZenonT(60), <3>1, <2>1 DEF Slots, ZeroSlots
    <3> QED
      BY ZenonT(60), <3>2, <2>1, <2>3 DEF Zeroed
  <2> QED
    BY ZenonT(60), <2>1, <2>2, <2>3
<1> QED
  BY ZenonT(60), <1>2, <1>3, <1>4 DEF EmptyStart

\* Every window of NG2CUpdateThreshold collections starts from zero counters.
THEOREM WindowsAreSeparate == Spec => WindowsStartEmpty
<1>1. ProfilerInv /\ [Next]_vars => [EmptyStart]_vars
  BY ZenonT(60), EmptyStartStep
<1> QED
  BY <1>1, ProfilerInvariance, PTL DEF Spec, WindowsStartEmpty, EmptyStart

\* A step of TargetsHaveEvidence.
Evidence ==
  \A s \in Sites, c \in Contexts :
    target_gen(s, c)' # target_gen(s, c) => promotions[Key(s, c)][target_gen(s, c)'] > 0

LEMMA EvidenceStep == ProfilerInv /\ [Next]_vars => [Evidence]_vars
<1> SUFFICES ASSUME ProfilerInv, [Next]_vars PROVE Evidence
  BY ZenonT(60)
<1>t. /\ factor \in [Sites -> {0, 1}]
      /\ target \in [Sites -> [Contexts -> 0 .. GenArraySize - 2]]
      /\ allocs \in [Sites -> Slots] /\ promotions \in [Keys -> Curves]
      /\ target' \in [Sites -> [Contexts -> 0 .. GenArraySize - 2]]
      /\ todo \subseteq Keys
  BY ZenonT(60), TypeStep DEF ProfilerInv, TypeOK
<1>1. CASE UNCHANGED <<factor, target>>
  BY ZenonT(60), <1>1 DEF Evidence, target_gen, Slot
<1>2. ASSUME NEW k \in Keys, NEW rnd \in Roundings, NEW decision \in Decisions,
             update_target_gen(k, rnd, decision)
      PROVE  Evidence
  <2> DEFINE s == k[1]
             c == k[2]
             ages == [promotions[k] EXCEPT ![0] = @ + allocs[s][Slot(s, c)]]
  <2>1. k = <<s, c>> /\ s \in Sites /\ c \in Contexts /\ 0 \in Contexts /\ k \in todo
    BY <1>2, ZeroTypes DEF Keys, update_target_gen
  <2>2. c # 0 => factor[s] = 1
    BY ZenonT(60), <2>1 DEF ProfilerInv, UpdateLoop
  <2>3. CASE decision > 0 /\ target' = [target EXCEPT ![s][Slot(s, c)] = decision]
             /\ factor' = factor
    <3>1. Slot(s, c) = c
      BY <2>1, <2>2, <1>t, SlotCases
    <3>2. allocs[s][Slot(s, c)] \in Nat
      BY <3>1, <2>1, <1>t DEF Slots
    <3>3. ages \in Curves
      BY <3>2, <1>t, GenArraySizeAssumption DEF Curves, Index
    <3>4. IsDecision(ages, rnd, decision)
      BY ZenonT(60), <1>2 DEF update_target_gen
    <3>5. decision \in Index /\ ages[decision] > 0
      BY ZenonT(60), <2>3, <3>3, <3>4, PositiveDecision, ProfilerAssumption
    <3>6. promotions[k][decision] > 0
      BY <3>5, <2>3, <1>t DEF Curves
    <3>7. ASSUME NEW r \in Sites, NEW d \in Contexts,
                 target'[r][d * factor[r]] # target[r][d * factor[r]]
          PROVE  r = s /\ d * factor[r] = c /\ target'[r][d * factor[r]] = decision
      <4>1. d * factor[r] \in Contexts
        BY ZenonT(60), <1>t, SlotCases DEF Slot
      <4> QED
        BY ZenonT(60), <4>1, <3>7, <3>1, <2>1, <2>3, <1>t
    <3>8. ASSUME NEW r \in Sites, NEW d \in Contexts, r = s, d * factor[r] = c
          PROVE  Key(r, d) = k
      <4>1. factor[r] \in {0, 1} /\ Slot(r, d) = c
        BY ZenonT(60), <3>8, <1>t DEF Slot
      <4>2. CASE factor[r] = 0
        BY <4>1, <4>2, <3>8, <2>1, SlotCases
      <4>3. CASE factor[r] = 1
        BY <4>1, <4>3, <3>8, <2>1, SlotCases
      <4> QED
        BY ZenonT(60), <4>1, <4>2, <4>3
    <3> QED
      BY <3>6, <3>7, <3>8, <2>3 DEF Evidence, target_gen, Slot
  <2>4. CASE prepare_contexts(s) /\ factor[s] = 0
    <3>1. ASSUME NEW r \in Sites, NEW d \in Contexts
          PROVE  target'[r][d * factor'[r]] = target[r][d * factor[r]]
      <4>1. CASE r = s
        <5>1. factor'[r] = 1 /\ target'[r] = [e \in Contexts |-> target[r][0]]
          BY ZenonT(60), <4>1, <2>4, <2>1, <1>t DEF prepare_contexts
        <5>2. d * factor'[r] = d /\ d * factor[r] = 0
          BY <5>1, <4>1, <2>4 DEF Contexts
        <5> QED
          BY ZenonT(60), <5>1, <5>2
      <4>2. CASE r # s
        BY ZenonT(60), <4>2, <2>4, <1>t DEF prepare_contexts
      <4> QED
        BY ZenonT(60), <4>1, <4>2
    <3> QED
      BY ZenonT(60), <3>1 DEF Evidence, target_gen, Slot
  <2> QED
    BY ZenonT(60), <1>1, <1>2, <2>3, <2>4 DEF update_target_gen
<1>3. \/ UNCHANGED <<factor, target>>
      \/ \E k \in Keys, rnd \in Roundings, decision \in Decisions :
           update_target_gen(k, rnd, decision)
  BY ZenonT(60) DEF Next, Allocation, Collection, VMOperation, vars, tables, add_entry, LoadCounter,
         FastAllocate, SlowAllocate, SlowCount, SlowFail, RequestCollection,
         SkipCollection, StartPause, FullCollection, copy_to_survivor_space,
         handle_evacuation_failure, EndPause, CountCollection, BeginMerge,
         update_promotions, BeginUpdate, CloseWindow
<1> QED
  BY ZenonT(60), <1>1, <1>2, <1>3

\* A context's target generation changes only to an age at which objects of
\* that context were seen to survive in the current window.
THEOREM DecisionsHaveEvidence == Spec => TargetsHaveEvidence
<1>1. ProfilerInv /\ [Next]_vars => [Evidence]_vars
  BY EvidenceStep
<1> QED
  BY <1>1, ProfilerInvariance, PTL DEF Spec, TargetsHaveEvidence, Evidence
-----------------------------------------------------------------------------
(* The profile becomes final. *)

\* A window is merged and updated only while sites are profiled.
ProfilingInv == phase \in {"merge", "update"} => should_profile(total)

\* Once profiling is over it stays over: the number of collections only grows.
LEMMA ProfilingEnds ==
  ASSUME NEW t \in Nat, ~should_profile(t)
  PROVE  ~should_profile(t + 1)
<1>1. t \div UpdateThreshold \in Nat /\ (t + 1) \div UpdateThreshold \in Nat
  BY ProfilerAssumption
<1>2. t \div UpdateThreshold <= (t + 1) \div UpdateThreshold
  BY ProfilerAssumption
<1> QED
  BY <1>1, <1>2 DEF should_profile

\* A step of ProfileIsFinal.
Final ==
  ~should_profile(total) =>
    UNCHANGED <<factor, target, survivors, promotions>> /\ ~should_profile(total)'

\* What a step does to the phase and to the number of collections.
LEMMA PhaseStep ==
  ASSUME TypeOK, ProfilingInv, [Next]_vars
  PROVE  /\ total' \in {total, total + 1}
         /\ ProfilingInv'
         /\ \/ UNCHANGED <<factor, target, survivors, promotions>>
            \/ phase \in {"merge", "update"}
            \/ should_profile(total)
<1> USE DEF ProfilingInv, should_profile
<1>1. CASE Allocation \/ UNCHANGED vars
  BY <1>1 DEF Allocation, vars, tables, counts, add_entry, LoadCounter, FastAllocate,
     SlowAllocate, SlowCount, SlowFail
<1>2. CASE Collection
  <2>1. CASE \E m \in Mutators : RequestCollection(m) \/ SkipCollection(m) \/ FullCollection(m)
    BY ZenonT(60), <2>1 DEF RequestCollection, SkipCollection, FullCollection, tables, counts
  <2>2. CASE \E m \in Mutators : StartPause(m) \/ EndPause(m)
    BY ZenonT(60), <2>2 DEF StartPause, EndPause, tables, counts
  <2>3. CASE \E w \in Workers, o \in Objects, stays, displaced \in BOOLEAN :
               copy_to_survivor_space(w, o, stays, displaced)
    BY <2>3 DEF copy_to_survivor_space, tables, counts
  <2>4. CASE \E o \in Objects, preserved \in BOOLEAN : handle_evacuation_failure(o, preserved)
    BY ZenonT(60), <2>4 DEF handle_evacuation_failure, tables, counts
  <2> QED
    BY ZenonT(60), <1>2, <2>1, <2>2, <2>3, <2>4 DEF Collection
<1>3. CASE VMOperation
  BY ZenonT(60), <1>3 DEF VMOperation, tables, counts, AtSafepoint, CountCollection, BeginMerge,
  CloseWindow,
     Merged, update_promotions, BeginUpdate, update_target_gen
<1> QED
  BY ZenonT(60), <1>1, <1>2, <1>3 DEF Next

\* After four windows nothing is recorded, merged, decided or expanded any more,
\* whatever pause or VM operation is still under way.
THEOREM ProfileEnds == Spec => ProfileIsFinal
<1>1. Init => ProfilingInv
  BY ZenonT(60) DEF Init, ProfilingInv
<1>2. TypeOK /\ ProfilingInv /\ [Next]_vars => ProfilingInv'
  BY ZenonT(60), PhaseStep
<1>3. TypeOK /\ ProfilingInv /\ [Next]_vars => [Final]_vars
  <2> SUFFICES ASSUME TypeOK, ProfilingInv, [Next]_vars, ~should_profile(total)
               PROVE  Final
    BY ZenonT(60) DEF Final
  <2>1. UNCHANGED <<factor, target, survivors, promotions>>
    BY ZenonT(60), PhaseStep DEF ProfilingInv
  <2>2. ~should_profile(total')
    BY ZenonT(60), PhaseStep, ProfilingEnds DEF TypeOK
  <2> QED
    BY ZenonT(60), <2>1, <2>2 DEF Final, should_profile
<1> QED
  BY <1>1, <1>2, <1>3, TypeCorrect, PTL DEF Spec, ProfileIsFinal, Final

-----------------------------------------------------------------------------
(* The analysis loop of normalize_derive_analyze returns the one verdict that *)
(* IsDecision describes, for every array size, every curve and every outcome  *)
(* of float rounding.                                                         *)

\* The scaled normalized array holds naturals and ends in 0
\* (normalize_derive_analyze zero-initialises it and fills all but the last).
LEMMA NormalizedType ==
  ASSUME NEW c \in Curves, NEW k \in 0 .. GenArraySize
  PROVE  /\ Normalized(c, k) \in Nat
         /\ k >= GenArraySize - 1 => Normalized(c, k) = 0
BY GenArraySizeAssumption DEF Normalized, Curves, Index

\* Slopes are integers.
LEMMA SlopeType ==
  ASSUME NEW c \in Curves, NEW k \in Index
  PROVE  Slope(c, k) \in Int
BY NormalizedType, GenArraySizeAssumption DEF Slope, Index

\* A drop is never at the last age, whose derivative the loop leaves at zero.
LEMMA DropsBelowLast ==
  ASSUME NEW c \in Curves, NEW r \in [Index -> Int],
         NEW k \in DropSet(c, r)
  PROVE  k \in 0 .. GenArraySize - 2 /\ k \in Index /\ Drops(c, r, k)
BY GenArraySizeAssumption DEF DropSet, Drops, Index

\* With allocations counted, comparing derivatives is a strict order in which
\* an age that is not steeper than m loses to every age that is.
LEMMA SteeperOrder ==
  ASSUME NEW c \in Curves, c[0] # 0, NEW r \in [Index -> Int],
         NEW a \in DropSet(c, r), NEW b \in DropSet(c, r), NEW m \in DropSet(c, r)
  PROVE  /\ ~Steeper(c, r, a, a)
         /\ ~Steeper(c, r, b, m) /\ Steeper(c, r, a, m)
              => Steeper(c, r, a, b) /\ ~Steeper(c, r, b, a)
<1>1. /\ Drops(c, r, a) /\ Drops(c, r, b) /\ Drops(c, r, m)
      /\ a \in Index /\ b \in Index /\ m \in Index
  BY ZenonT(60), DropsBelowLast
<1>2. /\ Slope(c, a) \in Int /\ Slope(c, b) \in Int /\ Slope(c, m) \in Int
      /\ r[a] \in Int /\ r[b] \in Int /\ r[m] \in Int
  BY ZenonT(60), <1>1, SlopeType
<1> QED
  BY <1>1, <1>2 DEF Steeper

\* At most one verdict fits a curve.
LEMMA DecisionUnique ==
  ASSUME NEW c \in Curves, NEW r \in [Index -> Int],
         NEW d, NEW e, IsDecision(c, r, d), IsDecision(c, r, e)
  PROVE  d = e
<1>1. CASE ~OneSegment(c, r)
  BY <1>1 DEF IsDecision, OneSegment
<1>2. CASE DropSet(c, r) = {}
  BY ZenonT(60), <1>2 DEF IsDecision, OneSegment, SteepestDrop
<1>3. CASE OneSegment(c, r) /\ DropSet(c, r) # {}
  <2>1. SteepestDrop(c, r, d) /\ SteepestDrop(c, r, e)
    BY ZenonT(60), <1>3 DEF IsDecision
  <2>2. d \in Index /\ e \in Index
    BY ZenonT(60), <2>1 DEF SteepestDrop, DropSet
  <2>3. d \in Int /\ e \in Int
    BY <2>2, GenArraySizeAssumption DEF Index
  <2> QED
    BY <2>1, <2>3 DEF SteepestDrop
<1> QED
  BY ZenonT(60), <1>1, <1>2, <1>3

-----------------------------------------------------------------------------
(* The loop invariant. *)

LEMMA LoopInit == LoopStart => LoopInv
<1> SUFFICES ASSUME LoopStart PROVE LoopInv
  OBVIOUS
<1> USE GenArraySizeAssumption, InputAssumption DEF LoopStart, Curves, Index
<1>1. LoopTypeOK
  BY DEF LoopTypeOK, Decisions, Conflict, Running
<1>2. Seen = {}
  BY DEF Seen, DropSet, Index
<1> QED
  BY ZenonT(60), <1>1, <1>2 DEF LoopInv

LEMMA LoopStep == LoopInv /\ [LoopNext]_loopVars => LoopInv'
<1> SUFFICES ASSUME LoopInv, [LoopNext]_loopVars PROVE LoopInv'
  OBVIOUS
<1> USE GenArraySizeAssumption
<1>t. /\ LoopTypeOK /\ curve \in Curves /\ rounding \in [Index -> Int]
      /\ i \in 0 .. GenArraySize
  BY ZenonT(60) DEF LoopInv, LoopTypeOK
<1>1. CASE Skip
  <2>1. LoopTypeOK'
    BY <1>1, <1>t DEF Skip, LoopTypeOK
  <2>2. Seen' = Seen
    BY <1>1, <1>t DEF Skip, Seen, DropSet, Index
  <2>3. UNCHANGED <<curve, rounding, segm, min, ret>> /\ ret = Running
    BY ZenonT(60), <1>1 DEF Skip
  <2> QED
    BY ZenonT(60), <2>1, <2>2, <2>3 DEF LoopInv
<1>2. CASE Extend
  <2>1. /\ UNCHANGED <<curve, rounding, ret>> /\ ret = Running
        /\ i \in DropSet(curve, rounding) /\ i \in Index
        /\ i \in 0 .. GenArraySize - 2
        /\ Drops(curve, rounding, i)
        /\ segm' = i /\ i' = i + 1
        /\ min' = IF Steeper(curve, rounding, i, min) THEN i ELSE min
        /\ i = segm + 1 \/ segm = GenArraySize
    BY <1>2, <1>t DEF Extend, DropSet, Index, Drops
  <2>2. LoopTypeOK'
    BY <2>1, <1>t DEF LoopTypeOK
  <2>3. Seen' = Seen \cup {i}
    BY <2>1, <1>t DEF Seen, DropSet, Index
  <2>4. \A k \in Seen : k \in 0 .. GenArraySize - 2 /\ k < i /\ k \in DropSet(curve, rounding)
    BY ZenonT(60), <1>t, DropsBelowLast DEF Seen
  <2>5. /\ i \in Seen'
        /\ \A k \in Seen' : k <= i
        /\ \A j \in Seen', k \in Index : j < k /\ k < i => k \in Seen'
    <3>1. CASE segm = GenArraySize
      BY <3>1, <2>3, <2>1, <1>t DEF LoopInv, Index
    <3>2. CASE segm # GenArraySize
      <4>1. /\ i = segm + 1 /\ segm \in Seen
            /\ \A k \in Seen : k <= segm
            /\ \A j \in Seen, k \in Index : j < k /\ k < segm => k \in Seen
        BY ZenonT(60), <3>2, <2>1 DEF LoopInv
      <4>2. ASSUME NEW j \in Seen', NEW k \in Index, j < k, k < i PROVE k \in Seen'
        <5>1. j \in Seen
          BY <4>2, <2>3, <1>t DEF Index
        <5>2. k = segm \/ k < segm
          BY <4>2, <4>1, <2>4, <1>t DEF Index
        <5> QED
          BY ZenonT(60), <5>1, <5>2, <4>1, <4>2, <2>3
      <4> QED
        BY <4>1, <4>2, <2>3, <2>4, <1>t
    <3> QED
      BY ZenonT(60), <3>1, <3>2
  <2>6. ASSUME curve[0] # 0
        PROVE  /\ min' \in Seen'
               /\ \A j \in Seen' :
                    /\ ~Steeper(curve, rounding, j, min')
                    /\ j < min' => Steeper(curve, rounding, min', j)
    <3>1. CASE segm = GenArraySize
      <4>1. Seen = {} /\ min = 0
        BY ZenonT(60), <3>1 DEF LoopInv
      <4>2. min' = i
        <5>1. CASE i = 0
          BY <5>1, <4>1, <2>1
        <5>2. CASE i # 0
          <6>1. ~Drops(curve, rounding, 0)
            BY <5>2, <4>1, <1>t DEF Seen, DropSet, Index
          <6> QED
            BY ZenonT(60), <6>1, <4>1, <2>1, <2>6 DEF Steeper
        <5> QED
          BY <5>1, <5>2
      <4>3. ~Steeper(curve, rounding, i, i)
        BY ZenonT(60), <2>1, <2>6, <1>t, SteeperOrder
      <4> QED
        BY <4>1, <4>2, <4>3, <2>3, <2>1, <1>t
    <3>2. CASE segm # GenArraySize
      <4>1. /\ min \in Seen
            /\ \A j \in Seen : /\ ~Steeper(curve, rounding, j, min)
                               /\ j < min => Steeper(curve, rounding, min, j)
        BY ZenonT(60), <3>2, <2>6 DEF LoopInv
      <4>2. CASE Steeper(curve, rounding, i, min)
        <5>1. ASSUME NEW j \in Seen
              PROVE  Steeper(curve, rounding, i, j) /\ ~Steeper(curve, rounding, j, i)
          <6>1. j \in DropSet(curve, rounding) /\ min \in DropSet(curve, rounding)
            BY ZenonT(60), <4>1, <2>4
          <6>2. i \in DropSet(curve, rounding) /\ curve \in Curves /\ rounding \in [Index -> Int]
            BY ZenonT(60), <2>1, <1>t
          <6>3. ~Steeper(curve, rounding, j, min)
            BY ZenonT(60), <4>1
          <6> QED
            BY ZenonT(60), <6>1, <6>2, <6>3, <4>2, <2>6, SteeperOrder
        <5>2. ~Steeper(curve, rounding, i, i)
          BY <2>1, <2>6, <1>t, SteeperOrder
        <5> QED
          BY <5>1, <5>2, <4>2, <2>1, <2>3, <1>t
      <4>3. CASE ~Steeper(curve, rounding, i, min)
        <5>1. min' = min /\ min < i /\ min \in Int /\ i \in Int
          BY <4>1, <4>3, <2>1, <2>4
        <5>2. ASSUME NEW j \in Seen'
              PROVE  /\ ~Steeper(curve, rounding, j, min)
                     /\ j < min => Steeper(curve, rounding, min, j)
          <6>1. j \in Seen \/ (j = i /\ ~(j < min))
            BY <5>1, <2>3
          <6> QED
            BY ZenonT(60), <6>1, <4>1, <4>3
        <5> QED
          BY ZenonT(60), <5>1, <5>2, <4>1, <2>3
      <4> QED
        BY ZenonT(60), <4>2, <4>3
    <3> QED
      BY ZenonT(60), <3>1, <3>2
  <2>7. ASSUME curve[0] = 0
        PROVE  \/ /\ min' = 0
                  /\ \A k \in Seen' : Normalized(curve, k + 1) > 0
               \/ min' \in Seen' /\ Normalized(curve, min' + 1) = 0 /\ segm' = min'
    <3>1. Normalized(curve, i) > 0 /\ Normalized(curve, i) \in Nat
          /\ Normalized(curve, i + 1) \in Nat
      BY <2>1, <2>7, <1>t, NormalizedType DEF Drops, Index
    <3>2. min = 0 /\ \A k \in Seen : Normalized(curve, k + 1) > 0
      <4>1. CASE segm = GenArraySize
        BY ZenonT(60), <4>1 DEF LoopInv
      <4>2. CASE segm # GenArraySize
        <5>1. segm = min => min + 1 = i
          BY ZenonT(60), <4>2, <2>1, <1>t DEF LoopTypeOK
        <5> QED
          BY <5>1, <3>1, <2>7 DEF LoopInv
      <4> QED
        BY ZenonT(60), <4>1, <4>2
    <3>3. ~Drops(curve, rounding, 0)
      BY <2>7, <1>t DEF Drops, Normalized
    <3>4. CASE Normalized(curve, i + 1) = 0
      BY <3>2, <3>3, <3>4, <2>1, <2>3, <2>7 DEF Steeper
    <3>5. CASE Normalized(curve, i + 1) # 0
      BY <3>1, <3>2, <3>5, <2>1, <2>3, <2>7 DEF Steeper
    <3> QED
      BY ZenonT(60), <3>4, <3>5
  <2> QED
    BY <2>1, <2>2, <2>5, <2>6, <2>7 DEF LoopInv
<1>3. CASE ReturnConflict
  <2>1. /\ UNCHANGED <<curve, rounding, i, segm, min>> /\ ret' = Conflict
        /\ i \in DropSet(curve, rounding) /\ i \in Index
        /\ i # segm + 1 /\ segm # GenArraySize
    BY <1>3, <1>t DEF ReturnConflict, DropSet, Index
  <2>2. segm \in Seen /\ \A k \in Seen : k <= segm
    BY ZenonT(60), <2>1 DEF LoopInv
  <2>3. /\ segm \in DropSet(curve, rounding) /\ segm < i /\ segm + 1 \in Index
        /\ segm \in Int
    BY <2>1, <2>2, <1>t DEF Seen, LoopTypeOK, Index
  <2>4. ~Drops(curve, rounding, segm + 1)
    <3>1. segm + 1 \notin Seen
      BY <2>2, <2>3
    <3>2. segm + 1 < i
      BY <2>1, <2>3, <1>t DEF Index
    <3> QED
      BY ZenonT(60), <3>1, <3>2, <2>3 DEF Seen, DropSet
  <2>5. ~OneSegment(curve, rounding)
    <3>1. segm < segm + 1 /\ segm + 1 < i
      BY <2>1, <2>3, <1>t DEF Index
    <3> QED
      BY ZenonT(60), <3>1, <2>1, <2>3, <2>4 DEF OneSegment
  <2>6. Correct'
    BY ZenonT(60), <2>1, <2>5 DEF Correct, IsDecision
  <2>7. LoopTypeOK'
    BY <2>1, <1>t DEF LoopTypeOK, Decisions, Conflict
  <2>8. Seen' = Seen
    BY ZenonT(60), <2>1 DEF Seen
  <2> QED
    BY ZenonT(60), <2>1, <2>6, <2>7, <2>8 DEF LoopInv
<1>4. CASE Return
  <2>1. /\ UNCHANGED <<curve, rounding, i, segm, min>> /\ ret' = min
        /\ i = GenArraySize
    BY ZenonT(60), <1>4 DEF Return
  <2>2. Seen = DropSet(curve, rounding)
    BY <2>1, <1>t DEF Seen, DropSet, Index
  <2>3. IsDecision(curve, rounding, min)
    <3>1. CASE segm = GenArraySize
      BY ZenonT(60), <3>1, <2>2 DEF LoopInv, IsDecision
    <3>2. CASE segm # GenArraySize
      <4>1. /\ segm \in Seen /\ \A k \in Seen : k <= segm
            /\ \A j \in Seen, k \in Index : j < k /\ k < segm => k \in Seen
        BY ZenonT(60), <3>2 DEF LoopInv
      <4>2. OneSegment(curve, rounding)
        <5>1. \A k \in Seen : k \in 0 .. GenArraySize - 2 /\ Drops(curve, rounding, k)
          BY ZenonT(60), <2>2, <1>t, DropsBelowLast
        <5>2. ASSUME NEW a \in DropSet(curve, rounding), NEW b \in DropSet(curve, rounding),
                     NEW k \in Index, a < k, k < b
              PROVE  Drops(curve, rounding, k)
          <6>1. k < segm
            BY <5>1, <5>2, <4>1, <2>2 DEF Index
          <6>2. k \in Seen
            BY ZenonT(60), <6>1, <5>2, <4>1, <2>2
          <6> QED
            BY ZenonT(60), <6>2, <5>1
        <5> QED
          BY ZenonT(60), <5>2 DEF OneSegment
      <4>3. SteepestDrop(curve, rounding, min)
        <5>1. CASE curve[0] # 0
          BY ZenonT(60), <5>1, <3>2, <2>2 DEF LoopInv, SteepestDrop
        <5>2. CASE curve[0] = 0
          <6>1. segm = min
            <7>1. SUFFICES ASSUME \A k \in Seen : Normalized(curve, k + 1) > 0
                           PROVE  FALSE
              BY ZenonT(60), <5>2 DEF LoopInv
            <7>2. segm \in 0 .. GenArraySize - 2 /\ Normalized(curve, segm + 1) > 0
              BY ZenonT(60), <7>1, <4>1, <2>2, <1>t, DropsBelowLast
            <7>3. segm + 1 < GenArraySize - 1
              BY <7>2, <1>t, NormalizedType
            <7>4. segm + 1 \in Seen
              BY <7>2, <7>3, <5>2, <2>2 DEF DropSet, Drops, Index
            <7> QED
              BY <7>4, <7>2, <4>1
          <6> QED
            BY ZenonT(60), <6>1, <5>2, <4>1, <2>2 DEF SteepestDrop
        <5> QED
          BY ZenonT(60), <5>1, <5>2
      <4> QED
        BY ZenonT(60), <4>2, <4>3 DEF IsDecision
    <3> QED
      BY ZenonT(60), <3>1, <3>2
  <2>4. Correct'
    BY ZenonT(60), <2>1, <2>3 DEF Correct
  <2>5. LoopTypeOK'
    BY <2>1, <1>t DEF LoopTypeOK, Decisions, Conflict
  <2>6. Seen' = Seen
    BY ZenonT(60), <2>1 DEF Seen
  <2> QED
    BY ZenonT(60), <2>1, <2>4, <2>5, <2>6 DEF LoopInv
<1>5. CASE UNCHANGED loopVars
  BY ZenonT(60), <1>5 DEF loopVars, LoopInv, LoopTypeOK, Seen, Correct
<1> QED
  BY ZenonT(60), <1>1, <1>2, <1>3, <1>4, <1>5 DEF LoopNext

LEMMA LoopInvariance == LoopSpec => []LoopInv
BY LoopInit, LoopStep, PTL DEF LoopSpec

\* Every variable of normalize_derive_analyze stays in range: in particular
\* the function never answers an age beyond NG2C_GEN_ARRAY_SIZE - 2.
THEOREM LoopTypes == LoopSpec => []LoopTypeOK
<1>1. LoopInv => LoopTypeOK
  BY ZenonT(60) DEF LoopInv
<1> QED
  BY <1>1, LoopInvariance, PTL

\* normalize_derive_analyze returns the verdict that its curve calls for, for
\* every array size and every curve.
THEOREM AnalysisCorrect == LoopSpec => []Correct
<1>1. LoopInv => Correct
  BY ZenonT(60) DEF LoopInv, Correct
<1> QED
  BY <1>1, LoopInvariance, PTL

\* ... and no other verdict would be justified by that curve.
THEOREM AnalysisUnambiguous == LoopSpec => []Unambiguous
<1>1. LoopInv => Unambiguous
  BY ZenonT(60), DecisionUnique DEF LoopInv, LoopTypeOK, Correct, Unambiguous
<1> QED
  BY <1>1, LoopInvariance, PTL
=============================================================================
