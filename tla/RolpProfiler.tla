----------------------------- MODULE RolpProfiler -----------------------------
(***************************************************************************)
(* The ROLP profiler: Java threads tag and count the objects they allocate, *)
(* GC workers count the tagged objects they copy, and after a collection a  *)
(* VM operation (NG2C_MergeAllocCounters) merges the workers' counters and, *)
(* every UpdateThreshold collections, turns each allocation site's survival *)
(* curve into a target generation or splits the site by context.            *)
(*                                                                         *)
(* Java threads run only in phase "run".  A pause ("evacuate") and the VM   *)
(* operation ("merge", "update") run at separate safepoints, so threads may *)
(* run between a pause and the operation it leads to.  A header is modelled *)
(* by its tag and age; an object without a tag is of no interest here and   *)
(* its place counts as free.                                                *)
(***************************************************************************)
EXTENDS LifetimeDecision

CONSTANTS
  Sites,            \* 16-bit allocation site ids; 0 is "no site"
  NumContexts,      \* NG2C_MAX_ALLOC_SITE: length of the per-context arrays
  ThreadContexts,   \* contexts a Java thread may be in (thread->context() & 0xFFFF)
  Mutators,         \* Java threads
  Workers,          \* GC worker threads (NamedThread)
  Objects,          \* places for tagged objects
  MaxAge,           \* markOopDesc::max_age
  UpdateThreshold,  \* NG2CUpdateThreshold
  InitialTenuring,  \* MaxTenuringThreshold at startup
  ProfAlloc,        \* NG2C_PROF_ALLOC: decisions update target generations
  ProfContext,      \* NG2C_PROF_CONTEXT: conflicts expand contexts
  Roundings,        \* outcomes of float rounding
  MaxAllocs,        \* bound: value of an allocation counter
  MaxCollections    \* bound: number of VM operations

ASSUME ProfilerAssumption ==
  /\ Sites \subseteq Nat \ {0}
  /\ NumContexts \in Nat \ {0}
  /\ ThreadContexts \subseteq 0 .. NumContexts - 1
  /\ MaxAge \in Nat \ {0}
  /\ UpdateThreshold \in Nat \ {0}
  /\ InitialTenuring \in 0 .. MaxAge
  /\ ProfAlloc \in BOOLEAN /\ ProfContext \in BOOLEAN
  /\ Roundings \subseteq [Index -> Int]
  /\ MaxAllocs \in Nat /\ MaxCollections \in Nat

VARIABLES
  known,        \* sites that have an entry in the MethodBciHashtable
  factor,       \* NGenerationArray::_factor of each site: 0, or 1 once expanded
  target,       \* NGenerationArray::_target_gen
  allocs,       \* NGenerationArray::_allocs_gen
  survivors,    \* PromotionCounters of each GC worker
  promotions,   \* Universe::promotion_counters(), the merged ones
  total,        \* _total_update_target_gen
  tenuring,     \* the flag MaxTenuringThreshold
  heap,         \* the tagged objects
  mutator,      \* where each Java thread is in allocating or collecting
  phase,        \* who runs: Java threads, a pause, or the VM operation
  cset,         \* objects of the collection set not yet reached by a worker
  todo,         \* entries update_target_gen has yet to visit
  tracked       \* history: counter stores per slot since it was last zeroed

tables == <<known, factor, target, allocs, tracked>>
counts == <<survivors, promotions>>
vars   == <<known, factor, target, allocs, survivors, promotions, total,
            tenuring, heap, mutator, phase, cset, todo, tracked>>

Contexts == 0 .. NumContexts - 1
Keys     == Sites \X Contexts           \* alloc_site_id << 16 | context
ZeroCurve == [a \in Index |-> 0]
ZeroSlots == [c \in Contexts |-> 0]

\* _contexts index used for a context: context * _factor.
Slot(s, c) == c * factor[s]

\* Mutant: the tag's context is used before the site is expanded.
KeyUnexpanded(s, c) == <<s, c>>

\* The counter an object's tag selects: its own context once the site is
\* expanded, context 0 before.
Key(s, c) == IF factor[s] > 0 THEN <<s, c>> ELSE <<s, 0>>

target_gen(s, c) == target[s][Slot(s, c)]

should_profile(t) == t \div UpdateThreshold <= 3

\* doit()'s last statement.
TenuringAfter(t) == IF should_profile(t) THEN tenuring ELSE 1

-----------------------------------------------------------------------------
Object == [site : Sites \cup {0}, context : Contexts, age : 0 .. MaxAge, young : BOOLEAN]
Free   == [site |-> 0, context |-> 0, age |-> 0, young |-> FALSE]

Idle == [pc |-> "idle", site |-> 0, context |-> 0, count |-> 0, gen |-> 0]

\* Where a thread goes on after a collection it asked for: back to the
\* allocation it was serving, or to the caller of System.gc().
Resume(m) == [mutator[m] EXCEPT !.pc = IF mutator[m].site = 0 THEN "idle" ELSE "place"]

\* Mutant: a thread may be stopped inside an increment.
AtAnyPoint == phase = "run"

\* No thread is between the load and the store of an allocation counter:
\* neither compiled code nor the runtime polls for a safepoint there.
AtSafepoint == phase = "run" /\ \A m \in Mutators : mutator[m].pc # "count"

Init ==
  /\ known = {}
  /\ factor = [s \in Sites |-> 0]
  /\ target = [s \in Sites |-> ZeroSlots]
  /\ allocs = [s \in Sites |-> ZeroSlots]
  /\ survivors = [w \in Workers |-> [k \in Keys |-> ZeroCurve]]
  /\ promotions = [k \in Keys |-> ZeroCurve]
  /\ total = 0
  /\ tenuring = InitialTenuring
  /\ heap = [o \in Objects |-> Free]
  /\ mutator = [m \in Mutators |-> Idle]
  /\ phase = "run"
  /\ cset = {}
  /\ todo = {}
  /\ tracked = [s \in Sites |-> ZeroSlots]

-----------------------------------------------------------------------------
(* Compilation and allocation. *)

\* C2 compiles an allocation site.  Compiler threads do not stop at safepoints.
add_entry(s) ==
  /\ s \notin known
  /\ known' = known \cup {s}
  /\ UNCHANGED <<factor, target, allocs, counts, total, tenuring, heap, mutator,
                 phase, cset, todo, tracked>>

\* An allocation at site s in context c reads its counter and target
\* generation (compiled code, or inc_number_allocs and target_gen).
LoadCounter(m, s, c) ==
  /\ phase = "run"
  /\ mutator[m].pc = "idle"
  /\ s \in known
  /\ allocs[s][Slot(s, c)] < MaxAllocs
  /\ mutator' = [mutator EXCEPT ![m] =
       [pc |-> "count", site |-> s, context |-> c,
        count |-> allocs[s][Slot(s, c)], gen |-> target_gen(s, c)]]
  /\ UNCHANGED <<tables, counts, total, tenuring, heap, phase, cset, todo>>

\* The unsynchronised store that ends the increment.
StoreCounter(m) ==
  LET s == mutator[m].site
      i == Slot(s, mutator[m].context)
  IN  /\ allocs' = [allocs EXCEPT ![s][i] = mutator[m].count + 1]
      /\ tracked' = [tracked EXCEPT ![s][i] = @ + 1]

\* The object gets its header: the tag, age 0, young unless pretenured.
Install(m, o) ==
  /\ heap[o].site = 0
  /\ heap' = [heap EXCEPT ![o] =
       [site |-> mutator[m].site, context |-> mutator[m].context,
        age |-> 0, young |-> mutator[m].gen = 0]]
  /\ mutator' = [mutator EXCEPT ![m] = Idle]

\* Compiled code finds room in the TLAB: no safepoint before the object exists.
FastAllocate(m, o) ==
  /\ phase = "run"
  /\ mutator[m].pc = "count"
  /\ StoreCounter(m)
  /\ Install(m, o)
  /\ UNCHANGED <<known, factor, target, counts, total, tenuring, phase, cset, todo>>

\* obj_allocate counts, then allocates by a path that may stop for a collection.
SlowCount(m) ==
  /\ phase = "run"
  /\ mutator[m].pc = "count"
  /\ StoreCounter(m)
  /\ mutator' = [mutator EXCEPT ![m].pc = "place"]
  /\ UNCHANGED <<known, factor, target, counts, total, tenuring, heap, phase, cset, todo>>

SlowAllocate(m, o) ==
  /\ phase = "run"
  /\ mutator[m].pc = "place"
  /\ Install(m, o)
  /\ UNCHANGED <<tables, counts, total, tenuring, phase, cset, todo>>

\* OutOfMemoryError: the allocation stays counted.
SlowFail(m) ==
  /\ phase = "run"
  /\ mutator[m].pc = "place"
  /\ mutator' = [mutator EXCEPT ![m] = Idle]
  /\ UNCHANGED <<tables, counts, total, tenuring, heap, phase, cset, todo>>

-----------------------------------------------------------------------------
(* Collections. *)

\* A thread needs memory (mem_allocate, attempt_allocation_slow) or calls
\* System.gc() (collect).
RequestCollection(m) ==
  /\ phase = "run"
  /\ mutator[m].pc \in {"idle", "place"}
  /\ total < MaxCollections
  /\ mutator' = [mutator EXCEPT ![m].pc = "gc"]
  /\ UNCHANGED <<tables, counts, total, tenuring, heap, phase, cset, todo>>

\* No pause takes place: another thread collected first, or the GC locker is
\* held (Resume); or the allocation succeeds at the safepoint without a pause,
\* or collect() goes on without one, and the VM operation runs all the same.
SkipCollection(m) ==
  /\ phase = "run"
  /\ mutator[m].pc = "gc"
  /\ \/ mutator' = [mutator EXCEPT ![m] = Resume(m)]
     \/ mutator' = [mutator EXCEPT ![m].pc = "vmop"]
  /\ UNCHANGED <<tables, counts, total, tenuring, heap, phase, cset, todo>>

\* An evacuation pause: every young object and some old ones.
StartPause(m) ==
  /\ AtSafepoint
  /\ mutator[m].pc = "gc"
  /\ \E old \in SUBSET {o \in Objects : heap[o].site # 0 /\ ~heap[o].young} :
       cset' = old \cup {o \in Objects : heap[o].young}
  /\ mutator' = [mutator EXCEPT ![m].pc = "pause"]
  /\ phase' = "evacuate"
  /\ UNCHANGED <<tables, counts, total, tenuring, heap, todo>>

\* PromotionCounter::update for the age an object reaches by being copied.
AgeIndex(age) ==
  LET reached == IF age = MaxAge THEN age ELSE age + 1
  IN  IF reached >= GenArraySize THEN GenArraySize - 1 ELSE reached

\* Worker w copies object o.  It stays young only below the tenuring threshold
\* computed for this pause, which is at most the flag and drops to 0 when the
\* survivor regions run out.  A displaced header (a lock word) shows no tag.
copy_to_survivor_space(w, o, stays, displaced) ==
  LET obj == heap[o]
      k   == Key(obj.site, obj.context)
  IN  /\ phase = "evacuate"
      /\ o \in cset
      /\ stays => obj.young /\ obj.age < tenuring
      /\ cset' = cset \ {o}
      /\ heap' = [heap EXCEPT ![o] =
           [obj EXCEPT !.age = IF stays /\ @ < MaxAge THEN @ + 1 ELSE @,
                       !.young = stays]]
      /\ survivors' =
           IF should_profile(total) /\ ~displaced /\ obj.site \in known
           THEN [survivors EXCEPT ![w][k][AgeIndex(obj.age)] = @ + 1]
           ELSE survivors
      /\ UNCHANGED <<tables, promotions, total, tenuring, mutator, phase, todo>>

\* No room to copy o: it stays in place, its region becomes old, and its
\* header is kept only if must_be_preserved_for_promotion_failure says so.
handle_evacuation_failure(o, preserved) ==
  /\ phase = "evacuate"
  /\ o \in cset
  /\ cset' = cset \ {o}
  /\ heap' = [heap EXCEPT ![o] = IF preserved THEN [@ EXCEPT !.young = FALSE] ELSE Free]
  /\ UNCHANGED <<tables, counts, total, tenuring, mutator, phase, todo>>

\* What no worker reached is dead.  The thread goes on to the VM operation.
EndPause(m) ==
  /\ phase = "evacuate"
  /\ mutator[m].pc = "pause"
  /\ heap' = [o \in Objects |-> IF o \in cset THEN Free ELSE heap[o]]
  /\ cset' = {}
  /\ mutator' = [mutator EXCEPT ![m].pc = "vmop"]
  /\ phase' = "run"
  /\ UNCHANGED <<tables, counts, total, tenuring, todo>>

\* A full collection: survivors end up old, unpreserved headers are reset and
\* nothing is counted.
FullCollection(m) ==
  /\ AtSafepoint
  /\ mutator[m].pc = "gc"
  /\ \E kept \in SUBSET {o \in Objects : heap[o].site # 0} :
       heap' = [o \in Objects |-> IF o \in kept THEN [heap[o] EXCEPT !.young = FALSE] ELSE Free]
  /\ mutator' = [mutator EXCEPT ![m].pc = "vmop"]
  /\ UNCHANGED <<tables, counts, total, tenuring, phase, cset, todo>>

-----------------------------------------------------------------------------
(* NG2C_MergeAllocCounters::doit, at its own safepoint. *)

\* A collection that does not end a window only counts.
CountCollection(m) ==
  /\ AtSafepoint
  /\ mutator[m].pc = "vmop"
  /\ (total + 1) % UpdateThreshold # 0 \/ ~should_profile(total + 1)
  /\ total' = total + 1
  /\ tenuring' = TenuringAfter(total + 1)
  /\ mutator' = [mutator EXCEPT ![m] = Resume(m)]
  /\ UNCHANGED <<tables, counts, heap, phase, cset, todo>>

\* Mutant: a window is merged whether or not profiling is still on.
BeginMergeAlways(m) ==
  /\ AtSafepoint
  /\ mutator[m].pc = "vmop"
  /\ (total + 1) % UpdateThreshold = 0
  /\ total' = total + 1
  /\ mutator' = [mutator EXCEPT ![m].pc = "doit"]
  /\ phase' = "merge"
  /\ UNCHANGED <<tables, counts, tenuring, heap, cset, todo>>

BeginMerge(m) ==
  /\ AtSafepoint
  /\ mutator[m].pc = "vmop"
  /\ (total + 1) % UpdateThreshold = 0 /\ should_profile(total + 1)
  /\ total' = total + 1
  /\ mutator' = [mutator EXCEPT ![m].pc = "doit"]
  /\ phase' = "merge"
  /\ UNCHANGED <<tables, counts, tenuring, heap, cset, todo>>

\* Mutant: the context is dropped although the site is expanded.
update_promotions_by_site(w, k) ==
  LET g == <<k[1], 0>>
  IN  /\ phase = "merge"
      /\ survivors[w][k] # ZeroCurve
      /\ promotions' = [promotions EXCEPT ![g] =
           [a \in Index |-> IF a = 0 THEN @[0] ELSE @[a] + survivors[w][k][a]]]
      /\ survivors' = [survivors EXCEPT ![w][k] = ZeroCurve]
      /\ UNCHANGED <<tables, total, tenuring, heap, mutator, phase, cset, todo>>

\* One entry of one worker's table is added to the merged table and zeroed;
\* an entry that is all zero changes nothing.
update_promotions(w, k) ==
  LET g == Key(k[1], k[2])
  IN  /\ phase = "merge"
      /\ survivors[w][k] # ZeroCurve
      /\ promotions' = [promotions EXCEPT ![g] =
           [a \in Index |-> IF a = 0 THEN @[0] ELSE @[a] + survivors[w][k][a]]]
      /\ survivors' = [survivors EXCEPT ![w][k] = ZeroCurve]
      /\ UNCHANGED <<tables, total, tenuring, heap, mutator, phase, cset, todo>>

Merged == phase = "merge" /\ \A w \in Workers, k \in Keys : survivors[w][k] = ZeroCurve

\* From the second window on.  An entry without survivors is decided 0 and
\* changes nothing, so only the others are visited.
BeginUpdate ==
  /\ Merged
  /\ total \div UpdateThreshold > 1
  /\ phase' = "update"
  /\ todo' = {k \in Keys : promotions[k] # ZeroCurve}
  /\ UNCHANGED <<tables, counts, total, tenuring, heap, mutator, cset>>

\* Mutant: the other contexts do not inherit the site's target generation.
prepare_contexts_no_copy(s) ==
  /\ factor' = [factor EXCEPT ![s] = 1]
  /\ allocs' = [allocs EXCEPT ![s][0] = 0]
  /\ tracked' = [tracked EXCEPT ![s][0] = 0]
  /\ UNCHANGED target

\* NGenerationArray::prepare_contexts.
prepare_contexts(s) ==
  /\ factor' = [factor EXCEPT ![s] = 1]
  /\ allocs' = [allocs EXCEPT ![s][0] = 0]
  /\ tracked' = [tracked EXCEPT ![s][0] = 0]
  /\ target' = [target EXCEPT ![s] = [c \in Contexts |-> @[0]]]

\* Mutant: an entry whose site has just been expanded is visited again.
update_target_gen_again(k, rounding, decision) ==
  LET s == k[1]
      c == k[2]
      curve == [promotions[k] EXCEPT ![0] = @ + allocs[s][Slot(s, c)]]
  IN  /\ phase = "update"
      /\ k \in todo
      /\ IsDecision(curve, rounding, decision)
      /\ todo' = IF decision < 0 THEN todo ELSE todo \ {k}
      /\ promotions' = [promotions EXCEPT ![k] = curve]
      /\ IF decision < 0 /\ factor[s] = 0
         THEN prepare_contexts(s)
         ELSE UNCHANGED <<factor, target, allocs, tracked>>
      /\ UNCHANGED <<known, survivors, total, tenuring, heap, mutator, phase, cset>>

\* One iteration of update_target_gen.
update_target_gen(k, rounding, decision) ==
  LET s == k[1]
      c == k[2]
      curve == [promotions[k] EXCEPT ![0] = @ + allocs[s][Slot(s, c)]]
  IN  /\ phase = "update"
      /\ k \in todo
      /\ IsDecision(curve, rounding, decision)
      /\ todo' = todo \ {k}
      /\ promotions' = [promotions EXCEPT ![k] = curve]
      /\ \/ /\ decision > 0 /\ ProfAlloc
            /\ target' = [target EXCEPT ![s][Slot(s, c)] = decision]
            /\ UNCHANGED <<factor, allocs, tracked>>
         \/ /\ decision < 0 /\ factor[s] = 0 /\ ProfContext
            /\ prepare_contexts(s)
         \/ /\ \/ decision = 0
               \/ decision > 0 /\ ~ProfAlloc
               \/ decision < 0 /\ (factor[s] > 0 \/ ~ProfContext)
            /\ UNCHANGED <<factor, target, allocs, tracked>>
      /\ UNCHANGED <<known, survivors, total, tenuring, heap, mutator, phase, cset>>

\* Mutant: zero() resets one slot of every site.
ZeroedFirst(slots, s) == [slots EXCEPT ![0] = 0]

\* MethodBciHashtable::zero: one slot of a site, or all once it is expanded.
Zeroed(slots, s) ==
  IF factor[s] > 0 THEN ZeroSlots ELSE [slots EXCEPT ![0] = 0]

\* The window ends: both tables are zeroed and the thread is released.
CloseWindow(m) ==
  /\ \/ Merged /\ total \div UpdateThreshold <= 1
     \/ phase = "update" /\ todo = {}
  /\ mutator[m].pc = "doit"
  /\ allocs' = [s \in Sites |-> Zeroed(allocs[s], s)]
  /\ tracked' = [s \in Sites |-> Zeroed(tracked[s], s)]
  /\ promotions' = [k \in Keys |-> ZeroCurve]
  /\ tenuring' = TenuringAfter(total)
  /\ mutator' = [mutator EXCEPT ![m] = Resume(m)]
  /\ phase' = "run"
  /\ UNCHANGED <<known, factor, target, survivors, total, heap, cset, todo>>

-----------------------------------------------------------------------------
Allocation ==
  \/ \E s \in Sites : add_entry(s)
  \/ \E m \in Mutators, s \in Sites, c \in ThreadContexts : LoadCounter(m, s, c)
  \/ \E m \in Mutators, o \in Objects : FastAllocate(m, o) \/ SlowAllocate(m, o)
  \/ \E m \in Mutators : SlowCount(m) \/ SlowFail(m)

Collection ==
  \/ \E m \in Mutators :
       RequestCollection(m) \/ SkipCollection(m) \/ StartPause(m) \/ FullCollection(m)
  \/ \E w \in Workers, o \in Objects, stays, displaced \in BOOLEAN :
       copy_to_survivor_space(w, o, stays, displaced)
  \/ \E o \in Objects, preserved \in BOOLEAN : handle_evacuation_failure(o, preserved)
  \/ \E m \in Mutators : EndPause(m)

VMOperation ==
  \/ \E m \in Mutators : CountCollection(m) \/ BeginMerge(m) \/ CloseWindow(m)
  \/ \E w \in Workers, k \in Keys : update_promotions(w, k)
  \/ BeginUpdate
  \/ \E k \in Keys, rounding \in Roundings, decision \in Decisions :
       update_target_gen(k, rounding, decision)

Next == Allocation \/ Collection \/ VMOperation

\* Inside a safepoint the GC workers and the VM thread keep running.
SafepointStep == phase # "run" /\ (Collection \/ VMOperation)

Spec     == Init /\ [][Next]_vars
FairSpec == Spec /\ WF_vars(SafepointStep)

-----------------------------------------------------------------------------
Slots  == [Contexts -> Nat]
Thread == [pc : {"idle", "count", "place", "gc", "pause", "vmop", "doit"},
           site : Sites \cup {0}, context : Contexts, count : Nat, gen : Index]

TypeOK ==
  /\ known \subseteq Sites
  /\ factor \in [Sites -> {0, 1}]
  /\ target \in [Sites -> [Contexts -> 0 .. GenArraySize - 2]]
  /\ allocs \in [Sites -> Slots]
  /\ survivors \in [Workers -> [Keys -> Curves]]
  /\ promotions \in [Keys -> Curves]
  /\ total \in Nat
  /\ tenuring \in 0 .. MaxAge
  /\ heap \in [Objects -> Object]
  /\ mutator \in [Mutators -> Thread]
  /\ phase \in {"run", "evacuate", "merge", "update"}
  /\ cset \subseteq Objects
  /\ todo \subseteq Keys
  /\ tracked \in [Sites -> Slots]

\* Recording, merging and deciding agree on the counter of a site: as long as
\* its contexts are not expanded, only context 0 holds counts, in every
\* worker's table, in the merged one and in the allocation counters.  An
\* expansion at a safepoint thus finds nothing under another context
\* (copy_to_survivor_space, update_promotions, inc_number_allocs).
KeysAgree ==
  \A s \in Sites, c \in Contexts \ {0} : factor[s] = 0 =>
    /\ allocs[s][c] = 0
    /\ promotions[<<s, c>>] = ZeroCurve
    /\ \A w \in Workers : survivors[w][<<s, c>>] = ZeroCurve

\* The racy increment loses updates but never invents one: a counter stays at
\* or below the number of stores since it was zeroed, because no thread holds
\* a loaded value across the safepoint that zeroes it (macro.cpp
\* initialize_object, inc_number_allocs, zero and prepare_contexts).
NeverOvercounts ==
  \A s \in Sites, c \in Contexts : allocs[s][c] <= tracked[s][c]

\* A window starts from nothing: when the VM operation has closed one, every
\* allocation counter and every survivor counter is zero, although zero()
\* resets a single slot of a site that is not expanded and resets no worker.
WindowsStartEmpty ==
  [][(phase \in {"merge", "update"} /\ phase' = "run") =>
       /\ \A s \in Sites : allocs'[s] = ZeroSlots
       /\ \A k \in Keys : promotions'[k] = ZeroCurve
       /\ \A w \in Workers, k \in Keys : survivors'[w][k] = ZeroCurve]_vars

\* No thread is inside an increment while the world is stopped, and what it
\* has loaded is not too high.
LoadedCounts ==
  \A m \in Mutators : mutator[m].pc = "count" =>
    /\ phase = "run"
    /\ mutator[m].site \in Sites
    /\ mutator[m].count <= tracked[mutator[m].site][Slot(mutator[m].site, mutator[m].context)]

\* update_target_gen visits other contexts only of expanded sites, and runs
\* after every worker has been merged.
UpdateLoop ==
  /\ \A k \in todo : k[2] # 0 => factor[k[1]] = 1
  /\ phase = "update" => \A w \in Workers, k \in Keys : survivors[w][k] = ZeroCurve

\* The inductive strengthening of KeysAgree and NeverOvercounts.
ProfilerInv == TypeOK /\ KeysAgree /\ NeverOvercounts /\ LoadedCounts /\ UpdateLoop

\* Evidence for every pretenuring decision: the generation a context allocates
\* into changes only to an age at which objects of that very context (or of
\* the site, before expansion) were counted as surviving in this window.
\* Expanding contexts therefore moves no context to another generation.
TargetsHaveEvidence ==
  [][\A s \in Sites, c \in Contexts :
       target_gen(s, c)' # target_gen(s, c) =>
         promotions[Key(s, c)][target_gen(s, c)'] > 0]_vars

\* Once NG2CUpdateThreshold * 4 collections have been counted the profile is
\* final: no counter is recorded or merged, no target generation changes and
\* no site is expanded any more, also by a pause or a VM operation requested
\* before (should_profile in doit and copy_to_survivor_space).
ProfileIsFinal ==
  [][~should_profile(total) =>
       UNCHANGED <<factor, target, survivors, promotions>> /\ ~should_profile(total)']_vars

\* The pauses and the VM operation end: merging and updating visit finitely
\* many entries and normalize_derive_analyze always has a verdict.
SafepointsEnd == phase # "run" ~> phase = "run"
=============================================================================
