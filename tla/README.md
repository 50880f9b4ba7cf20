# A TLA+ model of ROLP, the lifetime profiler of this JVM

The repository is OpenJDK 8 HotSpot with NG2C (G1 with several allocation
generations) and ROLP, a profiler that learns at which age the objects of an
allocation site die, so that they can be allocated directly in a generation of
their own. This directory specifies ROLP and what it touches. Source paths
below are relative to `src/src/share/vm`.

## 1. How the profiler works

1. C2 numbers allocation sites (16-bit ids) and enters them in the
   `MethodBciHashtable`. The code of a site increments an allocation counter
   without synchronisation, reads the site's target generation, and writes
   `site << 16 | context` (the tag) into the upper half of the new object's
   mark word. The runtime does the same in `obj_allocate`, where a collection
   may come between counting and tagging.
2. In an evacuation pause, every GC worker that copies a tagged object counts it
   in a private table, under the age it reaches. Objects whose mark word is a
   lock word show no tag.
3. After a collection the requesting thread runs `NG2C_MergeAllocCounters`, a VM
   operation. Every `NG2CUpdateThreshold`-th one closes a *window*: the private
   tables are merged, each site's survival curve is analysed
   (`normalize_derive_analyze`), and then all counters are zeroed.
4. A curve that drops in one place yields an age: the target generation
   (`NG2C_PROF_ALLOC`). A curve that drops in several places is a *conflict*: the
   site is *expanded*, and from then on counted per calling context
   (`NG2C_PROF_CONTEXT`).
5. Profiling stops when the operation has been counted
   `4 * NG2CUpdateThreshold` times; `MaxTenuringThreshold` becomes 1.

As the source stands, `NG2C_PROF_ALLOC` is commented out in
`make/linux/makefiles/vm.make`, and `ContextIndex` is constructed with tracking
off (`ng2c/ng2c_globals.hpp:29`; the constructor that turns it on is the next,
commented line), so every thread's context is 0xFFFF. The options and the set of
contexts are constants of the model. The theorems hold for all of their values.
The passing runs turn both on, where more can go wrong. `mark_word_layout`, which
ends in a counterexample, uses the values of the source as it stands.

Around the profiler stands NG2C. A program creates generations, selects one per
thread and allocates in it, through TLABs carved from the generation's *active
region*; it starts a new *epoch* of a generation when the objects of the old one
are about to die together (`collect_alloc_gen`). Regions of a generation are not
young: their references have to reach the remembered sets, which NG2C does by
dirtying the cards of a block when it is carved and queueing the cards of the
whole region once it is retired and has no TLAB left. The collections that all of
this triggers go through G1's requests, the GC locker and the marking cycles, and
each request that ends starts the profiling operation of step 3.

## 2. Inventory

| component | state | operations | what makes it hard | properties |
|---|---|---|---|---|
| lifetime analysis | curve, segment, minimum | one pass over the curve | division by zero allocations, ties, rounding | verdict equals a loop-free definition, which is unique |
| profiling windows | window count, merged table | merge, update, expand, zero, stop | counts recorded, merged and judged at different safepoints | keys agree, windows are separate, decisions have evidence, profile is final |
| allocation-site table | entries, counters, targets, factor | add_entry, get_entry, zero, prepare_contexts | racy increments, compilers insert during safepoints | counters never too high |
| promotion counters | a table per worker | update, merge | privately kept until a later safepoint | refines one ledger |
| object header | mark word, displaced headers, monitor | lock, inflate, hash, copy, preserve | tag and hash overlap | hash stable, tag kept, counted for own site |
| allocation paths | thread's step | count, allocate, tag | a collection in the middle | as for windows |
| allocation-site table, as memory | buckets, entries, mutex | add_entry, get_entry, zero | readers without a lock; compilers insert during safepoints | implements an atomic registry; zero() complete; calls return |
| generation regions and TLABs | active region, TLAB count, flag, cards | carve, register, retire, queue cards, refine, rebase, pause | count and flag read in opposite orders; registration and dirtying after the block is carved | references found, held blocks kept, active region carved, operations end |
| generation API | growing array, TLAB array | new, set, collect, allocate | readers without a lock, 16 slots | generations in place, own generation used |
| collection requests | counts, GC locker, marking cycles, epochs | allocate, System.gc, collect_alloc_gen, critical regions | overtaken and locked-out requests, retries, waiters | exact count, cycles nest, epochs separate, requests return |
| biased headers | owner and epoch, prototype, stacks | bias, rebias, revoke, bulk operations, hash, full GC | tag written over the owner | mutual exclusion, revoked in time, epochs on stacks |
| static analysis tables | chains, ids | parse, look up, add | compilers insert without a lock | a site gets its own id |
| thread contexts | context | add, subtract, recalculate | inert in this source | none, see section 7 |

`PROJECT.json` has the full list of components and of the hazards, each at the
line where it bites.

## 3. Modules

| module | models | kind |
|---|---|---|
| `LifetimeDecision` | the verdict on a curve, stated over the whole curve | operators |
| `LifetimeAnalysis` | `normalize_derive_analyze`, one action per kind of iteration | state machine |
| `RolpProfiler` | threads, pauses, tables and the VM operation, composed | state machine |
| `RolpProfilerProofs` | | proofs, of `LifetimeAnalysis` too |
| `SurvivorLedger` | what the counters promise: one ledger | abstract specification |
| `RolpLedger` | the refinement mapping from `RolpProfiler` to `SurvivorLedger` | refinement |
| `MarkWord` | one tagged object's header | state machine |
| `MarkWordProofs` | | proofs |
| `Hashtable` | the memory accesses of `BasicHashtable` | state and operators, extended by the next two |
| `SiteTable` | `MethodBciHashtable`: unlocked lookups, insertion, `zero()` | state machine |
| `SiteRegistry` | what that table promises: an atomic registry of sites | abstract specification |
| `SiteTableProofs` | | proofs, of the refinement too |
| `StaticAnalysis` | `StaticAnalysis`: ids of sites from a file or from hashes | state machine |
| `StaticAnalysisProofs` | | proofs |
| `GenRegions` | regions, TLABs, cards and refinement of one generation | state machine |
| `GenRegionsProofs` | | proofs |
| `AllocGens` | the list of generations and a thread's choice of one | state machine |
| `AllocGensProofs` | | proofs |
| `GcRequests` | requests for collections, GC locker, marking cycles, epochs | state machine |
| `GcRequestsProofs` | | proofs |
| `BiasedTag` | biased locking of one object with a tag | state machine |
| `BiasedTagProofs` | | proofs |
| `...MC` | constants and symmetry for TLC | |

Definitions keep the source's names; `PROJECT.json` maps each to its lines.
Definitions whose comment starts with *Mutant* are deliberate errors. No
specification uses them: put in the place of the definition that follows, each
makes a property fail.

**LifetimeDecision and LifetimeAnalysis.** All quotients of the code share their
denominator, so the model compares numerators. Rounding can only matter where
two exact values are equal; there, `rounding` gives the outcome, and every outcome
is considered. With no allocations in the window the quotients are infinite and
the differences NaN or infinite; the comparisons are modelled case by case.

**RolpProfiler.** `known`, `factor`, `target` and `allocs` are the
`MethodBciHashtable` and its `NGenerationArray`s; `survivors` the workers'
tables; `promotions` the merged one; `total` is `_total_update_target_gen`.
`heap` holds the tagged objects only. An increment is two steps, `LoadCounter`
and the store. `FastAllocate` (compiled code) stores and tags without a safepoint
in between; `SlowCount` and `SlowAllocate` (`obj_allocate`) may be separated by a
collection. `add_entry` is enabled also while the world is stopped, because
compiler threads do not stop. A pause copies the objects one at a time, in any
order and by any worker. A copy may fail. What is not reached is dead.
`update_promotions` and `update_target_gen` handle one hashtable entry per
step, in any order, because bucket order is arbitrary. The verdict is
`IsDecision` of `LifetimeDecision`, which `AnalysisCorrect` justifies.
Abstractions: ids of sites that do not collide; entries of zeros are not
visited, since they change nothing; a displaced header is a Boolean choice here
(`MarkWord` has the detail).

**MarkWord.** The tag takes bits 32 to 63 and the hash bits 8 to 38. A header is
split where these fields overlap: `site`, `shared`, `low`, and the age. The
object is not biasable: an array, an instance allocated before biased locking
starts, or any object under `-XX:-UseBiasedLocking`. Threads stack-lock, inflate
(with the INFLATING word between the two steps), enter and leave the monitor, and
compute the identity hash with its compare-and-swaps. Safepoints deflate the
monitor and may copy the object, or reset its header after a failed evacuation or
a full collection. Recursive locking leaves the header alone and wait/notify reach
it only through `inflate`; both are left out.

**Hashtable, SiteTable, SiteRegistry.** `Hashtable` has one operator per memory
access: reading a bucket, the loop condition of the lookups, filling an entry,
linking it, publishing it. `SiteTable` says which thread makes them in which order.
Java and GC threads walk a chain entry by entry without a lock; `add_entry` takes
the mutex. `zero()` walks bucket by bucket at a safepoint while compiler threads,
which are in native code, go on inserting. `SiteRegistry` is the promise: a call
takes effect in one step. `RolpProfiler` uses the table in that form, and the
refinement justifies it. The mapping computes what an unfinished lookup will return
from the part of the chain ahead of it.

**StaticAnalysis.** The same chains with another protocol: `add_index` takes no
lock and does not look for the key. With a file, the constructor parses it before any
compiler thread runs; without one ("full mode"), compiler threads add what they miss.
Which of the two is a variable chosen in the initial state. The two lookups in a
row at lines 234 and 237 are one in the model, as the result of the first is not
used. Each load and each store of the shared table is a step, since nothing keeps
two compiler threads from taking the same entry: `taken` is a history variable with
the entry each `ContextIndex` was given. An insertion may then be lost to another,
or an entry have the key of one and the index of the other. A lookup that finds
nothing after its insertion, or a link that has become NULL, leaves the thread at
`null`.

**GenRegions.** One generation. A request is one block, and a block has one card.
`pc` follows a thread through `gen_attempt_allocation`, `par_allocate`,
`new_alloc_region_and_allocate`, `retire_region`, `register_tlab` and
`make_parsable` with a step per shared access, under `Heap_lock` and
the lock of each region. `unrecorded` is a history variable: cards with a reference
that no remembered set has. `Store` and `write_ref_field_work` are the mutator,
`refine_card` and `ScanCard` the refinement thread, the three safepoint actions are
a pause, `rebase_alloc_gen` and a full collection. Threads allocate in TLABs and
outside them, and the cleared flag of a retired region may stay in a store buffer
for a while, since no fence follows it. Both can leave a card unqueued; the
history variable `missed` holds exactly these cards, and the two properties about
references say that there are no others. A card does not influence another one, so
the constant `Followed` selects the cards that are followed. When no region is left
the thread stays at `null`, since the code goes on with an unread count. A
thread that waited for the lock of a region which was reclaimed meanwhile stays at
`stale`: it would carve a block out of memory that is not its generation's.

**AllocGens.** The array `_gen_alloc_regions` is a sequence of buffers, one per
`grow`, with `data` the current one. `new_alloc_gen` writes under `HeapGen_lock` in
the steps of `GrowableArray`; allocations load `_data` and then the element, without
the lock. What a freed buffer or the memory beyond a thread's TLAB array
holds is `Garbage`.

**GcRequests.** Every request reads counters, submits a VM operation and compares
the counters under `Heap_lock`. Only whether a counter has changed since it was read
matters, so that is the state (`collected`, `started`, `completed`), and the model
has no bound on collections. `behind` holds the calls of `collect_alloc_gen` whose
epoch the active region predates, and `fetched` the same for a region that a thread
is about to publish. Prologue, operation and epilogue are separate steps; the
count of critical threads is taken at the safepoint. The requests are an allocation
that fails, `System.gc()` under `-XX:+ExplicitGCInvokesConcurrent`, any other cause of
`collect()`, `collect_alloc_gen`, an allocation in the generation, and a critical
region.

**BiasedTag.** A tag has a nonzero site in bits 48 to 63, where a thread's address
has zeros, so it is an owner that is in no list of threads. The compiled fast paths
(`biased_locking_enter`) read the header and swap it in separate steps with no
safepoint between. The steps of `revoke_and_rebias` follow, then the VM operations.
Whether a revocation becomes a bulk one depends on a count shared by the whole class,
so each result of `update_heuristics` is possible. A monitor slot lists its object
before it is locked, as in the interpreter. The first lock, hash or full collection
removes the tag; from then on `MarkWord` continues the story.

## 4. Runs

| run | question | bounds | states |
|---|---|---|---|
| `lifetime_analysis` | does the scan return the verdict the whole curve calls for? | 5 ages, counts 0, 1, 2, 10, 11: exact -0.1 slopes, ties, zero allocations | |
| `profiler_races` | do windows stay apart and counters agree, with two threads racing on counters and collections? | 2 threads, 1 worker, threshold 1, 3 collections, 2 contexts | 780,000 |
| `profiler_ledger` | do the workers' tables and the merge implement one ledger, is the profile final, does every safepoint end? | 1 thread, 2 workers, threshold 2, 9 collections; profiling stops at the 8th | 130,000 |
| `mark_word` | are hash and tag safe from each other? | 3 threads, 2 sites, 3 x 2 hash values, 2 ages | |
| `mark_word_layout` | does the hash have its own bits, as the layout says? **No** | 2 threads | |
| `gen_regions` | does every reference in a generation reach a pause, are held blocks kept, do allocations end? | 2 threads, 2 regions of 2 blocks, 1 followed card | 470,000 |
| `gc_requests` | epochs, GC locker, marking cycles: safety | 2 threads, all requests, 1 retry after the locker | 750,000 |
| `gc_requests_live` | does the locker's collection happen, do requests return? | 2 threads, 4 requests, no retry | 130,000 |
| `site_table` | does the table with unlocked readers implement an atomic registry, is `zero()` complete? | 3 threads, 2 sites in one bucket of 2 | 85,000 |
| `static_analysis` | is an id the id of the site, with and without a file? | 2 compiler threads, 3 sites, files of up to 3 lines, 4 entries, ids mod 4 | 850,000 |
| `biased_tag` | does a tag in the place of an owner ever break biased locking? | 2 threads, header fresh or tagged, 2 epochs | 64,000 |
| `alloc_gens` | are generations found while the array grows? | 3 threads, array grows from 2 over 4 to 8, 3 generations created | 35,000 |

**Why these bounds.** *Profiler:* two windows are needed for a decision and a third
for its effect; two contexts make an expansion visible; two workers make the merge
add; two threads lose an increment of two. Four ages leave room for a curve with
separated drops. `MaxAllocs` and `MaxCollections` bound the counters in the guards
of `LoadCounter` and `RequestCollection`. *Regions:* with two regions, one can be
retired while the other is active, and freed and taken again; with two blocks, one
region has two TLABs, so that its last TLAB and its retirement can meet. One
followed card is enough because cards are independent and regions are
interchangeable; it is the last card of its region. *Requests:* a
requester that is overtaken needs one other thread; counters are reduced to
"changed since read" and have no bound. *Site table:* a writer, a reader and a third
thread competing for the lock, and a chain of two. *Static analysis:* two of the
sites share a bucket, an id of the file exceeds its range, one site is a Java site. *Biased locking:* the
code has four epochs; two wrap around sooner, and what is safe with two is harder.

**Type invariants** are proved (section 5) for every module. The inductive invariants of section 5 were checked with TLC on the
constants of these runs before they were proved.

**Deadlock** is checked in `mark_word`, `gc_requests`, `gc_requests_live`,
`site_table` and `biased_tag`. Elsewhere the system may stop: at the bounds of the
profiler and of `MaxGens`; at the return of the scan; at the points `null` and
`stale` described above; and in `AllocGens` in `collect_alloc_gen` of generation 0,
which dereferences a null pointer.

**Symmetry** of threads, workers, objects and sites, which are only compared for
equality, is used in runs without liveness and refinement.

**Fairness.**

| specification | assumed | because |
|---|---|---|
| `RolpProfiler` | WF of `SafepointStep` | inside a safepoint the VM thread and the workers run, and nothing disables them; nothing is assumed of Java threads |
| `GenRegions` | SF of each `ThreadStep` | a thread inside the VM runs on; the monitors hand themselves to waiters. A thread in Java code owes nothing, nor does the refinement thread |
| `GcRequests` | SF of `Continue`, WF of `unlock_critical`, SF of `ConcurrentMark` | as above; JNI requires critical regions to be short; marking completes |
| `SiteTable` | WF of each step of a call, SF of `Lock` | the mutex is passed on to waiters |
| `BiasedTag` | SF of `Continue`, `slow_enter`, `biased_locking_exit` | a thread that has started to lock, unlock or hash goes on, and leaves what it entered |

`RequestsReturn` has a premise: the other threads leave the collector alone from
some point on. Without it `collect()` may be overtaken for ever, since it retries
until its own request is served.

### What the counterexample shows

`mark_word_layout`: the comment (`oops/markOop.hpp:47`) gives the hash 24 bits
below the tag. The constants give it 31, seven of them inside the tag. Contexts
are 0xFFFF, so these seven bits are ones in every tagged header, and
`FastHashCode` returns them as the hash: objects with tags share one identity
hash. The passing run shows what still holds: the hash is stable, and such a tag is
never overwritten and always preserved, because the header looks hashed. With
contexts that have zeros there, a hash may overwrite the shared bits of the tag, and
an unhashed header loses its tag in a full collection, but the object is never
counted for another site.

### Exceptions the properties make room for

The models contain these behaviours, and the properties are stated so that they hold
with them. Each is a place where the code does less than its comments or
assertions suggest.

- Note 3 (`ng2c/vm_operations_ng2c.hpp:103`): an object allocated in one window
  and copied in the next is analysed without its allocation. `Correct` covers the
  curves this leads to.
- `g1CollectedHeap.cpp:2691`: `collect()` starts the profiling operation also after
  a pause that was locked out, so a window may have fewer collections than
  `NG2CUpdateThreshold`.
- `missed` in `GenRegions`: the two races described in section 3.
- `heapRegion.inline.hpp:40`: the thread at `stale`. `g1CollectedHeap.cpp:6760`: the
  thread at `null`, where an assertion says that a region is always found.
- `heapRegion.cpp:557` asserts that a refined card's region has no active TLAB. A TLAB
  registered late makes it fail; since its end queues the cards again, no
  reference is lost.
- `g1CollectedHeap.cpp:988, 1056`: an allocation that was stalled by the GC locker as
  often as the code retries returns NULL without having collected.
- `AllocatesFromOwnGen`: a reader whose buffer `grow()` frees between its two loads
  reads freed memory. `runtime/thread.cpp:4793`: a thread that selects a generation
  above 15 has a TLAB pointer beyond the array of 16.
- `IdOfSite` excepts entries that were taken for two insertions: `new_entry` stores
  hash and literal one after the other (`utilities/hashtable.cpp:66, 75`), so the key of
  one compiler thread may end up with the index of another, and a site gets the id of
  another site. For the same reason one of them may lose its entry, contrary to
  "context index should exist!" (`ng2c/ng2c_static_analysis.cpp:242`), and a chain may lead
  back to itself, which the model has no property about.
  `ng2c_static_analysis.hpp:18` calls ids unique; they are 16 bits of a hash.
- `HeuristicsCountOwners`: hashing a tagged object that was never locked counts as a
  revocation, because the tag looks like an owner (`runtime/biasedLocking.cpp:530`).

## 5. Proofs

Proved with TLAPS, for every value of the constants that satisfies the named
assumptions. Besides typing (and that `NoThread`, `NoRegion` and `NULL` are not threads,
regions or owners) these are:

| assumption | says | because |
|---|---|---|
| `GenArraySizeAssumption` | a curve has at least 2 entries | `NG2C_GEN_ARRAY_SIZE` is 16 |
| `ProfilerAssumption` | `UpdateThreshold` is not 0 | the code divides by it |
| `HashtableAssumption`, `SiteTableAssumption` | at least one bucket; sites are positive | the table is constructed with buckets; 0 is "no site" |
| `StaticAnalysisAssumption` | keys are naturals, an index of the file is any integer; at least one id | a key is an unsigned hash, `strtol` reads a long of either sign, ids have 16 bits |
| `BiasedTagAssumption` | tag, NULL and threads differ; at least one epoch | section 3, BiasedTag |
| `MarkWordAssumption` | either part of the hash has at least one bit; sites are not 0 | the fields of `markOop.hpp` overlap in part |
| `AllocGensAssumption` | the array starts with at least 2 elements | 16 generations are created when the VM starts |
| `ThreadsAssumption` (requests), `ThreadAssumption` (regions) | the threads are finitely many | the code counts them |
| `BlocksAssumption` | a region has room for at least one block | |

No bound on threads, workers, objects, sites, contexts, entries, epochs, regions, blocks,
retries or collections is used. Where a module's inductive invariant is called `IInv`,
its proof has one lemma per action or group of actions.

- `RolpProfilerProofs`: `TypeCorrect`, then `ProfilerInvariance` for
  `ProfilerInv`, the inductive strengthening of `KeysAgree` and
  `NeverOvercounts`. The two are not inductive by themselves. `NeverOvercounts`
  needs `LoadedCounts`: a value a thread has loaded is not above the count of
  stores, which survives zeroing only because no thread is inside an increment at
  a safepoint. `KeysAgree` needs `UpdateLoop`: the entries still to be visited
  have a context only if their site is expanded. `CountersAgree` and
  `CountersNeverTooHigh` follow. `WindowsAreSeparate` and `DecisionsHaveEvidence`
  are action properties, proved from the same invariant and, for the latter, from
  a lemma that a positive verdict is an age with survivors. `ProfileEnds`
  (`ProfileIsFinal`) needs that a window is merged only while sites are profiled, and
  that `should_profile`, a quotient of the count, does not become true again.
- In the same module, for `LifetimeAnalysis` and every set of curves and roundings:
  `LoopTypes`, `AnalysisCorrect` (`Correct`), `AnalysisUnambiguous`.
  The loop invariant says that the drops found so far form a run ending at `segm`, and
  that `min` is the earliest steepest of them. A separate lemma shows that at most one
  decision satisfies the definition.
- `SiteTableProofs`: `Invariant`, `TypeCorrect`, `ZeroComplete`. A chain is a
  linked list, and following links is recursion, which the provers do not reach. The
  invariant avoids it: entries are taken in increasing order under the
  mutex, so an entry's link always leads to a smaller one, the newest in its bucket
  below it. `Lists` says just that of every linked entry and every bucket,
  `OneUnlinked` that only the holder of the mutex has an entry that is not linked
  yet, `Calls` where each walk may stand. `ZeroReachesAll` adds that what `zero()` has
  still to visit lies ahead on the chain.
- In the same module `Refinement`: that `SiteTable` implements `SiteRegistry`.
  A lookup takes effect when it loads the head of the bucket; a registration
  when it stores it, or at the lookup that finds the site. That every later step is a
  stutter needs the invariant: what is published after a walk has begun is not
  ahead of it.
- `StaticAnalysisProofs`: `IdsAreOwn`, `ParserFindsEntry`, `TypeCorrect`. In full mode
  threads overwrite each other's entries, and no statement about the chains survives.
  What does is `OwnIds`: a link leads to an entry that is filled, the literal of an entry
  is an index the entry was taken for, and if it was taken for that one only
  (`Alone`), the hash is of the same insertion. Its inductive part is that a thread
  which has taken such an entry finds it as it left it, up to the store of the literal
  (`OwnThread`), and that threads insert different indexes (`Apart`). With a file the
  constructor is alone (`Phases`), so line n becomes entry n (`Chains`), and each bucket
  lists its lines from the last to the first. Keys repeat there; `Lookups` says that a
  walk has passed no line of its key, so it stops at the last one. `ParserFindsEntry` is
  the assertion "could not retrieve value from hashtable" of `parse_from_file`
  (`ng2c/ng2c_static_analysis.cpp:132`).
- `BiasedTagProofs`: `Invariant`, then `TypeCorrect`, `MutualExclusion`, `Revoked`,
  `OwnRevocation`, `EpochsOnStacks`, `HeuristicsSeeOwners`. Mutual exclusion alone is not inductive: a
  thread acts on headers and prototypes it read earlier. The strengthening says what
  is still true of such a value at each point between a read and its
  compare-and-swap (`EnteringInv`, `ReadingInv`, `BranchInv`), of a requested revocation
  (`PendingInv`), and that a valid bias is kept while its owner is inside
  (`ValidKept`). `HeuristicsSeeOwners` adds `OwnersInv`: an object never biased toward a
  thread keeps the owner it was allocated with while someone waits for its lock.
- `MarkWordProofs`: `HashIsStable`, `CountsOwnSite`, `TagIsKept`, `MarkWordTypes`. The
  argument follows the header wherever it is kept: in the mark, in the box of the
  owner or in the monitor (`Real`). One lemma, `HeaderStep`, serves all actions: a step
  leaves the site and the hash alone, or the header had no hash. What makes it true
  is that no thread acts on a place the header has left (`Places`), and that a header
  about to be installed replaces one without a hash (`Drawn`).
- `AllocGensProofs`: `GensAreInPlace`, `AllocationsUseOwnGen`, `AllocGensTypes`. Readers
  take no lock, so the invariant speaks of every buffer a thread may have loaded
  (`Loaded`) and of the one `grow` has filled and not yet installed (`Storage`).
- `GcRequestsProofs`: `EpochsAreSeparate`, `LockerCollectsWithoutCriticals`,
  `LockerCountIsExact`, `MarkingCyclesNest`, `ACycleToWaitFor`, `GcRequestsTypes`.
  `Control` and `HeapLock` say where a thread is with which request and lock. The count of
  the GC locker is exact only while a collection is needed; `Locker` adds that the
  threads that wait to enter are not counted twice, `Collector` that one thread at
  most collects for the locker and what it has seen. `Epochs` says that a call whose
  epoch the active region predates still has its collection to come, `CycleComes` that
  a wish for a cycle stands until a pause has come.
- `GenRegionsProofs`: `NoReferenceIsLost`, `PausesFindReferences`, `HeldBlocksAreKept`,
  `ActiveRegionIsCarved`, `GenRegionsTypes`. A region other than the active one is full
  (`Full`), so every block is carved once. For the references, `Due` lists who may be
  bound to queue the cards of a region: it is not retired, it has a TLAB or will have,
  or the thread that retires it or the owner of its last TLAB is not done. `Queued` says
  that a dirty card is queued or its region is `Due`; `Logged` that a reference no
  remembered set has is on a dirty card, is being refined, or is about to be logged.
  The race between `retire_region` and `del_active_tlab` is the step in which a disjunct
  of `Due` ends: flag and count are read in opposite orders, so the other side's
  disjunct holds or the cards have been queued. The store buffer breaks this order, and
  the cards it leaves behind are those in `missed`. Most steps touch little of this: the
  lemmas `HeldAlone`, `TlabsAlone`, `ControlAlone`, `LocksAlone`, `DueAlone` and
  `QueuedAlone` say which conjunct survives a step that leaves which variables alone,
  and the proof of an action argues only about the rest.

Only model-checked: the liveness properties (`SafepointsEnd`, `OperationsEnd`,
`LockerClears`, `RequestsReturn`, `CallsReturn`), which are beyond the
prover, and the refinement of `SurvivorLedger` (a sum over workers, that is, induction
over a finite set).

## 6. Open points

1. `MarkWord` and `BiasedTag` in one model: the first lock of a biased, tagged object
   leads from one to the other.
2. `ThreadContext`, should a build turn the tracking of contexts on.

## 7. Not modelled

The repository is a whole OpenJDK 8 HotSpot; the models cover what ROLP and NG2C
added or changed and the parts of G1 and the runtime that these meet. That is a small
share of all lines, and it stays one: the rest (interpreter, compilers, class
loading, the other collectors, tracing, remembered-set tables, policy, other
platforms) is inherited and takes part only through the steps above.

- *Thread contexts* are inert in this source: `_context` is constructed as 0xFFFF
  (`runtime/thread.cpp:312`), and no call tracks its context
  (`ng2c/ng2c_globals.hpp:29`; the only call of `set_track_context` is commented out at
  `ng2c/ng2c_static_analysis.cpp:303`).
- *Static analysis:* reading the file and hashing strings; the table of call sites,
  which is the same code as the table of allocation sites.
- *GenRegions:* humongous objects, requests of several blocks, several
  generations (which share nothing but the free list), the sizing of TLABs.
- *GcRequests:* humongous requests, the remark pause, `GC_locker::lock()`, nested
  critical regions, and the wait for regions that a cleanup is still freeing.
- *Headers:* recursive locking, `wait`/`notify`, JNI monitor entry, threads that exit
  while they own a bias. The counts behind `update_heuristics` belong to a class.
- Printing and statistics. `get_entry_not_null` of `MethodBciHashtable` has no caller.
- `_total_update_target_gen` is 32 bits wide and would wrap after 2^32 collections; the
  model's count does not wrap. `NG2CUpdateThreshold = 0` divides by zero and is excluded
  by `ProfilerAssumption`.
