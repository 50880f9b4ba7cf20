------------------------------ MODULE AllocGens ------------------------------
(***************************************************************************)
(* The generations behind System.newAllocGen, setAllocGen and              *)
(* collectAllocGen: the heap's growable array of generation allocation     *)
(* regions, which threads extend under HeapGen_lock and allocations index  *)
(* without it, and the array of TLABs each thread has.  A generation's     *)
(* region is written as the generation's number, 0 is NULL.                *)
(***************************************************************************)
EXTENDS Naturals, Sequences

CONSTANTS
  Threads,
  NoThread,
  GenArraySize,    \* NG2C_GEN_ARRAY_SIZE, the TLABs of a thread and the first capacity
  MaxGens          \* bound: generations the program creates

ASSUME AllocGensAssumption ==
  NoThread \notin Threads /\ GenArraySize \in Nat \ {0, 1} /\ MaxGens \in Nat

VARIABLES
  HeapGen_lock,    \* its owner
  len,             \* _len of _gen_alloc_regions
  max,             \* its _max
  data,            \* its _data: number of the buffer in use; 1 is the first
  buffer,          \* the elements of each buffer that was allocated
  freed,           \* buffers given back to the C heap
  alloc_gen,       \* Thread::_alloc_gen
  genTlab,         \* Thread::_genTlab: the generation whose TLAB it is
  at               \* where each thread is

heap == <<len, max, data, buffer, freed>>
vars == <<HeapGen_lock, heap, alloc_gen, genTlab, at>>

Gens  == 0 .. GenArraySize + MaxGens
NULL  == 0
Idle  == [pc |-> "idle", gen |-> 0, data |-> 0, region |-> 0]

\* What lies beyond the array of TLABs, and what a freed buffer holds.
Garbage == GenArraySize + MaxGens + 1

Init ==
  /\ HeapGen_lock = NoThread
  /\ len = GenArraySize /\ max = GenArraySize /\ data = 1
  /\ buffer = << [g \in 0 .. GenArraySize - 1 |-> g] >>
  /\ freed = {}
  /\ alloc_gen = [t \in Threads |-> 1]
  /\ genTlab = [t \in Threads |-> 1]
  /\ at = [t \in Threads |-> Idle]

\* Thread::set_alloc_gen.  There is no check of gen in a product build.
set_alloc_gen(t, gen) ==
  /\ alloc_gen' = [alloc_gen EXCEPT ![t] = gen]
  /\ genTlab' = [genTlab EXCEPT ![t] = IF gen < GenArraySize THEN gen ELSE Garbage]

-----------------------------------------------------------------------------
(* System.newAllocGen *)

\* Mutant: HeapGen_lock is not taken.
NewWithoutLock(t) ==
  /\ at[t].pc = "idle" /\ len < GenArraySize + MaxGens
  /\ at' = [at EXCEPT ![t] = [Idle EXCEPT !.pc = "push", !.gen = len]]
  /\ UNCHANGED <<HeapGen_lock, heap, alloc_gen, genTlab>>

NewAllocGen(t) ==
  /\ at[t].pc = "idle" /\ len < GenArraySize + MaxGens
  /\ HeapGen_lock = NoThread
  /\ HeapGen_lock' = t
  /\ at' = [at EXCEPT ![t] = [Idle EXCEPT !.pc = "push", !.gen = len]]
  /\ UNCHANGED <<heap, alloc_gen, genTlab>>

\* Mutant: the last element is not copied.
grow_short(t) ==
  /\ at[t].pc = "push" /\ len = max
  /\ max' = 2 * max
  /\ buffer' = Append(buffer, [g \in 0 .. 2 * max - 1 |->
                               IF g < len - 1 THEN buffer[data][g] ELSE NULL])
  /\ freed' = freed \cup {data}
  /\ at' = [at EXCEPT ![t].pc = "swap"]
  /\ UNCHANGED <<HeapGen_lock, len, data, alloc_gen, genTlab>>

\* GrowableArray::grow, up to FreeHeap(_data); the capacity doubles.
grow(t) ==
  /\ at[t].pc = "push" /\ len = max
  /\ max' = 2 * max
  /\ buffer' = Append(buffer, [g \in 0 .. 2 * max - 1 |->
                               IF g < len THEN buffer[data][g] ELSE NULL])
  /\ freed' = freed \cup {data}
  /\ at' = [at EXCEPT ![t].pc = "swap"]
  /\ UNCHANGED <<HeapGen_lock, len, data, alloc_gen, genTlab>>

\* The last statement of grow.
SetData(t) ==
  /\ at[t].pc = "swap"
  /\ data' = Len(buffer)
  /\ at' = [at EXCEPT ![t].pc = "push"]
  /\ UNCHANGED <<HeapGen_lock, len, max, buffer, freed, alloc_gen, genTlab>>

\* Mutant: the array grows one element too late.
append_late(t) ==
  /\ at[t].pc = "push" /\ len <= max
  /\ buffer' = [buffer EXCEPT ![data] = [g \in DOMAIN @ |-> IF g = len THEN at[t].gen ELSE @[g]]]
  /\ len' = len + 1
  /\ HeapGen_lock' = NoThread
  /\ set_alloc_gen(t, at[t].gen)
  /\ at' = [at EXCEPT ![t] = Idle]
  /\ UNCHANGED <<max, data, freed>>

\* The rest of append, the release of the lock, and JVM_NewAllocGen's
\* set_alloc_gen with the number new_alloc_gen read at its start.
append(t) ==
  /\ at[t].pc = "push" /\ len < max
  /\ buffer' = [buffer EXCEPT ![data][len] = at[t].gen]
  /\ len' = len + 1
  /\ HeapGen_lock' = NoThread
  /\ set_alloc_gen(t, at[t].gen)
  /\ at' = [at EXCEPT ![t] = Idle]
  /\ UNCHANGED <<max, data, freed>>

-----------------------------------------------------------------------------
(* System.setAllocGen, and obj_allocate's switch to the target generation. *)
SetAllocGen(t) ==
  /\ at[t].pc = "idle"
  /\ \E gen \in 0 .. len - 1 : set_alloc_gen(t, gen)
  /\ UNCHANGED <<HeapGen_lock, heap, at>>

\* gen_attempt_allocation, which indexes the array without a lock: _data is
\* loaded, and then the element.
LoadData(t) ==
  /\ at[t].pc = "idle" /\ alloc_gen[t] > 0
  /\ at' = [at EXCEPT ![t] = [Idle EXCEPT !.pc = "index", !.gen = alloc_gen[t], !.data = data]]
  /\ UNCHANGED <<HeapGen_lock, heap, alloc_gen, genTlab>>

LoadRegion(t) ==
  /\ at[t].pc = "index"
  /\ \E region \in {buffer[at[t].data][at[t].gen]}
                     \cup (IF at[t].data \in freed THEN {Garbage} ELSE {}) :
       at' = [at EXCEPT ![t].pc = "allocate", ![t].region = region]
  /\ UNCHANGED <<HeapGen_lock, heap, alloc_gen, genTlab>>

Allocated(t) ==
  /\ at[t].pc = "allocate"
  /\ at' = [at EXCEPT ![t] = Idle]
  /\ UNCHANGED <<HeapGen_lock, heap, alloc_gen, genTlab>>

\* collect_alloc_gen, the part under the lock; GcRequests has the rest.
collect_alloc_gen(t) ==
  /\ at[t].pc = "idle" /\ HeapGen_lock = NoThread
  /\ \E gen \in 0 .. len :
       at' = [at EXCEPT ![t] = IF gen >= len THEN Idle
                               ELSE [Idle EXCEPT !.pc = "collect", !.gen = gen,
                                                 !.region = buffer[data][gen]]]
  /\ UNCHANGED <<HeapGen_lock, heap, alloc_gen, genTlab>>

Collected(t) ==
  /\ at[t].pc = "collect" /\ at[t].region # NULL
  /\ at' = [at EXCEPT ![t] = Idle]
  /\ UNCHANGED <<HeapGen_lock, heap, alloc_gen, genTlab>>

Next == \E t \in Threads :
  \/ NewAllocGen(t) \/ grow(t) \/ SetData(t) \/ append(t)
  \/ SetAllocGen(t) \/ LoadData(t) \/ LoadRegion(t) \/ Allocated(t)
  \/ collect_alloc_gen(t) \/ Collected(t)

Spec == Init /\ [][Next]_vars

-----------------------------------------------------------------------------
TypeOK ==
  /\ HeapGen_lock \in Threads \cup {NoThread}
  /\ len \in Gens /\ max \in Nat /\ len <= max
  /\ data \in 1 .. Len(buffer) /\ freed \subseteq 1 .. Len(buffer)
  /\ \A b \in 1 .. Len(buffer) : \A g \in DOMAIN buffer[b] : buffer[b][g] \in Gens
  /\ alloc_gen \in [Threads -> Gens] /\ genTlab \in [Threads -> Gens \cup {Garbage}]
  /\ at \in [Threads -> [pc : {"idle", "push", "swap", "index", "allocate", "collect"},
                         gen : Gens, data : 0 .. Len(buffer), region : Gens \cup {Garbage}]]

\* new_alloc_gen: "Last gen alloc should be the new one."  However many threads
\* create generations at a time, the region of every generation is found at
\* the generation's own number, so no two calls return the same generation,
\* and no growth of the array loses one.
GensInPlace == \A g \in 1 .. len - 1 : g \in DOMAIN buffer[data] /\ buffer[data][g] = g

\* An allocation that indexes the array without the lock, while other threads
\* append to it and replace its elements, uses the region of its thread's
\* generation.  The one exception is a thread whose buffer grow() has freed
\* between the two loads.
AllocatesFromOwnGen ==
  \A t \in Threads : at[t].pc = "allocate" /\ at[t].data \notin freed
                      => at[t].region = at[t].gen
=============================================================================
