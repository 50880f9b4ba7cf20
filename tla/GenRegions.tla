---------------------------- MODULE GenRegions ----------------------------
(***************************************************************************)
(* The allocation region of one dynamic generation, the TLABs threads      *)
(* carve out of it, and the dirty cards that make its references known to  *)
(* the remembered sets.                                                    *)
(*                                                                         *)
(* A block carved out of a generation's region has its cards dirtied at    *)
(* once (gen_attempt_allocation), so the write barrier never logs stores   *)
(* into it.  Instead the whole region is put on the dirty card queue when  *)
(* it is both retired and without active TLABs: by the thread that retires *)
(* the region if it finds no TLAB (GenAllocRegion::retire_region), by the  *)
(* thread that gives up the last TLAB if it finds the region retired       *)
(* (HeapRegion::del_active_tlab).  The two decide without a common lock.   *)
(*                                                                         *)
(* Two ways past this protocol are kept apart in the history variable      *)
(* missed: an object allocated outside TLABs has its card dirtied when the *)
(* region may be retired already, and the cleared flag of a retired region *)
(* may sit in a store buffer while the last TLAB's owner reads it.         *)
(*                                                                         *)
(* Requests are one block each, so a region that refuses one is full and   *)
(* fill_up_remaining_space only matters at safepoints.                     *)
(***************************************************************************)
EXTENDS Integers, FiniteSets

CONSTANTS
  Threads,        \* mutator threads
  NoThread,
  Regions,        \* heap regions
  NoRegion,       \* NULL, and the dummy region, which is always full
  RegionBlocks,   \* blocks in a region
  Followed        \* the cards, each a region and a block, that are followed:
                  \* what becomes of a card does not depend on the others

ASSUME ThreadAssumption == NoThread \notin Threads /\ IsFiniteSet(Threads)
ASSUME RegionAssumption == NoRegion \notin Regions
ASSUME BlocksAssumption == RegionBlocks \in Nat \ {0}

VARIABLES
  free,         \* _free_list
  gen,          \* HeapRegion::_gen
  gen_alloc,    \* HeapRegion::_is_gen_alloc_region, as other threads see it
  buffered,     \* the region whose cleared flag is still in t's store buffer
  active_tlabs, \* HeapRegion::_active_tlabs
  top,          \* blocks carved out of the region
  alloc_region, \* GenAllocRegion::_alloc_region
  Heap_lock,
  par_lock,     \* _par_alloc_lock of each region
  dirty,        \* cards (one per block) holding dirty_card
  queue,        \* cards on the dirty card queues
  refining,     \* the card the refinement thread has cleaned and will scan
  unrecorded,   \* blocks with a reference no remembered set has
  missed,       \* history: cards the two exceptions above may leave unqueued
  tlab,         \* the block of each thread's generation TLAB
  pc, reg, blk, kind   \* each thread's control point and locals

regionVars == <<free, gen, top, alloc_region>>
tlabVars   == <<active_tlabs, tlab>>
flagVars   == <<gen_alloc, buffered, missed>>
lockVars   == <<Heap_lock, par_lock>>
cardVars   == <<dirty, queue, refining, unrecorded>>
locals     == <<reg, blk, kind>>
vars == <<regionVars, tlabVars, flagVars, lockVars, cardVars, pc, locals>>

Blocks == 1 .. RegionBlocks
Gen == 1
Cards(r) == {c \in Followed : c[1] = r}
NoCard == <<NoRegion, 0>>

ASSUME FollowedAssumption == Followed \subseteq Regions \X Blocks

\* The control points of allocate_from_tlab_slow, gen_attempt_allocation,
\* make_parsable and write_ref_field_work.
Points == {"idle", "dec", "count", "flag", "enqueue", "read", "par", "wait",
           "cas", "heap", "clear", "tlabs", "enqueue_mr", "new", "null",
           "mark", "stale", "register", "init", "post"}

\* The kinds of work a thread may be doing at a control point.
Kinds == {"none", "tlab", "direct", "exit"}

Init ==
  /\ free = Regions
  /\ gen = [r \in Regions |-> -1]
  /\ gen_alloc = [r \in Regions |-> FALSE]
  /\ buffered = [t \in Threads |-> NoRegion]
  /\ active_tlabs = [r \in Regions |-> 0]
  /\ top = [r \in Regions |-> 0]
  /\ alloc_region = NoRegion
  /\ Heap_lock = NoThread
  /\ par_lock = [r \in Regions |-> NoThread]
  /\ dirty = {} /\ queue = {} /\ refining = NoCard /\ unrecorded = {}
  /\ missed = {}
  /\ tlab = [t \in Threads |-> NoCard]
  /\ pc = [t \in Threads |-> "idle"]
  /\ reg = [t \in Threads |-> NoRegion]
  /\ blk = [t \in Threads |-> 0]
  /\ kind = [t \in Threads |-> "none"]

Goto(t, p) == pc' = [pc EXCEPT ![t] = p]

\* Back to running Java code: the frame's locals are gone.
Return(t) ==
  /\ Goto(t, "idle")
  /\ reg' = [reg EXCEPT ![t] = NoRegion]
  /\ blk' = [blk EXCEPT ![t] = 0]
  /\ kind' = [kind EXCEPT ![t] = "none"]

\* After a TLAB is given up: go on to allocate the next one, or exit.
AfterRetire(t) ==
  IF kind[t] = "exit"
  THEN Return(t)
  ELSE /\ Goto(t, "read")
       /\ reg' = [reg EXCEPT ![t] = NoRegion]
       /\ UNCHANGED <<blk, kind>>

\* The retirement of r has begun, whether or not other threads see it yet.
Retired(r) == ~gen_alloc[r] \/ \E t \in Threads : buffered[t] = r

-----------------------------------------------------------------------------
(* Giving up a TLAB: make_parsable(true) and del_active_tlab.              *)

\* A TLAB refill (clear_before_allocation) or a thread's exit.
make_parsable(t, k) ==
  /\ pc[t] = "idle"
  /\ k = "exit" => tlab[t] # NoCard
  /\ kind' = [kind EXCEPT ![t] = k]
  /\ IF tlab[t] = NoCard
     THEN Goto(t, "read") /\ UNCHANGED reg
     ELSE Goto(t, "dec") /\ reg' = [reg EXCEPT ![t] = tlab[t][1]]
  /\ UNCHANGED <<regionVars, tlabVars, flagVars, lockVars, cardVars, blk>>

\* Atomic::dec(&_active_tlabs); the filler object has made the TLAB parsable.
DecActiveTlabs(t) ==
  /\ pc[t] = "dec"
  /\ active_tlabs' = [active_tlabs EXCEPT ![reg[t]] = @ - 1]
  /\ tlab' = [tlab EXCEPT ![t] = NoCard]
  /\ Goto(t, "count")
  /\ UNCHANGED <<regionVars, flagVars, lockVars, cardVars, locals>>

\* _gen > 0 && !_active_tlabs
ReadActiveTlabs(t) ==
  /\ pc[t] = "count"
  /\ IF gen[reg[t]] > 0 /\ active_tlabs[reg[t]] = 0
     THEN Goto(t, "flag") /\ UNCHANGED locals
     ELSE AfterRetire(t)
  /\ UNCHANGED <<regionVars, tlabVars, flagVars, lockVars, cardVars>>

\* Mutant: the last TLAB's owner leaves the region to its retirement.
ReadGenAllocOnly(t) ==
  /\ pc[t] = "flag"
  /\ AfterRetire(t)
  /\ UNCHANGED <<regionVars, tlabVars, flagVars, lockVars, cardVars>>

\* && !_is_gen_alloc_region
ReadGenAlloc(t) ==
  /\ pc[t] = "flag"
  /\ IF gen_alloc[reg[t]]
     THEN AfterRetire(t)
     ELSE Goto(t, "enqueue") /\ UNCHANGED locals
  /\ missed' = IF gen_alloc[reg[t]] /\ Retired(reg[t])
               THEN missed \union Cards(reg[t]) ELSE missed
  /\ UNCHANGED <<regionVars, tlabVars, gen_alloc, buffered, lockVars, cardVars>>

enqueue_gen_cards(t) ==
  /\ pc[t] = "enqueue"
  /\ queue' = queue \union Cards(reg[t])
  /\ AfterRetire(t)
  /\ UNCHANGED <<regionVars, tlabVars, flagVars, lockVars,
                 dirty, refining, unrecorded>>

-----------------------------------------------------------------------------
(* Allocating a block: gen_attempt_allocation.                             *)

\* An object outside TLABs (mem_allocate).
StartDirect(t) ==
  /\ pc[t] = "idle"
  /\ Goto(t, "read")
  /\ kind' = [kind EXCEPT ![t] = "direct"]
  /\ UNCHANGED <<regionVars, tlabVars, flagVars, lockVars, cardVars, reg, blk>>

\* alloc_region = _alloc_region; the dummy region refuses every request.
ReadAllocRegion(t) ==
  /\ pc[t] = "read"
  /\ reg' = [reg EXCEPT ![t] = alloc_region]
  /\ Goto(t, IF alloc_region # NoRegion THEN "par"
             ELSE IF Heap_lock = t THEN "new" ELSE "heap")
  /\ UNCHANGED <<regionVars, tlabVars, flagVars, lockVars, cardVars, blk, kind>>

\* MutexLocker x(&_par_alloc_lock): a thread that finds it taken blocks, and
\* a blocked thread does not hold up safepoints.
ParLock(t) ==
  /\ pc[t] \in {"par", "wait"}
  /\ IF par_lock[reg[t]] = NoThread
     THEN /\ par_lock' = [par_lock EXCEPT ![reg[t]] = t]
          /\ Goto(t, "cas")
     ELSE /\ pc[t] = "par"
          /\ Goto(t, "wait")
          /\ UNCHANGED par_lock
  /\ UNCHANGED <<regionVars, tlabVars, flagVars, Heap_lock, cardVars, locals>>

\* Mutant: success under Heap_lock returns without unlocking it.
par_allocate_locked(t) ==
  /\ pc[t] = "cas"
  /\ par_lock' = [par_lock EXCEPT ![reg[t]] = NoThread]
  /\ IF top[reg[t]] < RegionBlocks
     THEN /\ top' = [top EXCEPT ![reg[t]] = @ + 1]
          /\ blk' = [blk EXCEPT ![t] = top[reg[t]] + 1]
          /\ Goto(t, "mark")
     ELSE /\ Goto(t, IF Heap_lock = t THEN "clear" ELSE "heap")
          /\ UNCHANGED <<top, blk>>
  /\ UNCHANGED <<free, gen, alloc_region, tlabVars, flagVars, cardVars,
                 Heap_lock, reg, kind>>

\* par_allocate, and the unlock.  A refused thread goes on to take Heap_lock
\* and try again; refused again under it, the thread retires the region.  A
\* region that was reclaimed while the thread waited for its lock has room
\* again, but the block is memory others may use: what the thread does with
\* it is undefined, and the model follows that thread no further.
par_allocate(t) ==
  /\ pc[t] = "cas"
  /\ par_lock' = [par_lock EXCEPT ![reg[t]] = NoThread]
  /\ \/ /\ top[reg[t]] < RegionBlocks /\ gen[reg[t]] = Gen
        /\ top' = [top EXCEPT ![reg[t]] = @ + 1]
        /\ blk' = [blk EXCEPT ![t] = top[reg[t]] + 1]
        /\ Goto(t, "mark")
        /\ Heap_lock' = IF Heap_lock = t THEN NoThread ELSE Heap_lock
     \/ /\ top[reg[t]] < RegionBlocks /\ gen[reg[t]] # Gen
        /\ Goto(t, "stale")
        /\ UNCHANGED <<top, blk, Heap_lock>>
     \/ /\ top[reg[t]] = RegionBlocks
        /\ Goto(t, IF Heap_lock = t THEN "clear" ELSE "heap")
        /\ UNCHANGED <<top, blk, Heap_lock>>
  /\ UNCHANGED <<free, gen, alloc_region, tlabVars, flagVars, cardVars,
                 reg, kind>>

LockHeap(t) ==
  /\ pc[t] = "heap"
  /\ Heap_lock = NoThread
  /\ Heap_lock' = t
  /\ Goto(t, "read")
  /\ reg' = [reg EXCEPT ![t] = NoRegion]
  /\ UNCHANGED <<regionVars, tlabVars, flagVars, par_lock, cardVars, blk, kind>>

\* set_gen_alloc_region(false), a plain store: it may stay in the thread's
\* store buffer while the thread goes on to read _active_tlabs.
ClearGenAlloc(t) ==
  /\ pc[t] = "clear"
  /\ \/ /\ gen_alloc' = [gen_alloc EXCEPT ![reg[t]] = FALSE]
        /\ UNCHANGED buffered
     \/ /\ buffered' = [buffered EXCEPT ![t] = reg[t]]
        /\ UNCHANGED gen_alloc
  /\ Goto(t, "tlabs")
  /\ UNCHANGED <<regionVars, tlabVars, missed, lockVars, cardVars, locals>>

\* The processor's store buffer drains.
Drain(t) ==
  /\ buffered[t] # NoRegion
  /\ gen_alloc' = [gen_alloc EXCEPT ![buffered[t]] = FALSE]
  /\ buffered' = [buffered EXCEPT ![t] = NoRegion]
  /\ UNCHANGED <<regionVars, tlabVars, missed, lockVars, cardVars, pc, locals>>

\* Mutant: retirement leaves the cards to the TLABs' owners.
ReadNoTlabs(t) ==
  /\ pc[t] = "tlabs"
  /\ Goto(t, "new")
  /\ UNCHANGED <<regionVars, tlabVars, flagVars, lockVars, cardVars, locals>>

\* if (alloc_region->gen() && !alloc_region->get_active_tlabs())
ReadTlabsOfRetired(t) ==
  /\ pc[t] = "tlabs"
  /\ Goto(t, IF gen[reg[t]] # 0 /\ active_tlabs[reg[t]] = 0
             THEN "enqueue_mr" ELSE "new")
  /\ UNCHANGED <<regionVars, tlabVars, flagVars, lockVars, cardVars, locals>>

EnqueueRetired(t) ==
  /\ pc[t] = "enqueue_mr"
  /\ queue' = queue \union Cards(reg[t])
  /\ Goto(t, "new")
  /\ UNCHANGED <<regionVars, tlabVars, flagVars, lockVars,
                 dirty, refining, unrecorded, locals>>

\* new_gen_alloc_region, the first allocation out of the new region, its
\* publication and the unlock, which drains the store buffer.  Without a
\* free region GenAllocRegion::allocate_new_region uses a NULL region.
new_alloc_region_and_allocate(t) ==
  /\ pc[t] = "new"
  /\ buffered[t] = NoRegion
  /\ \/ \E r \in free :
          /\ free' = free \ {r}
          /\ gen' = [gen EXCEPT ![r] = Gen]
          /\ gen_alloc' = [gen_alloc EXCEPT ![r] = TRUE]
          /\ top' = [top EXCEPT ![r] = @ + 1]
          /\ alloc_region' = r
          /\ reg' = [reg EXCEPT ![t] = r]
          /\ blk' = [blk EXCEPT ![t] = top[r] + 1]
          /\ Heap_lock' = NoThread
          /\ Goto(t, "mark")
     \/ /\ free = {}
        /\ alloc_region' = NoRegion
        /\ Goto(t, "null")
        /\ UNCHANGED <<free, gen, gen_alloc, top, reg, blk, Heap_lock>>
  /\ UNCHANGED <<tlabVars, buffered, missed, par_lock, cardVars, kind>>

\* g1_mark_as_dirty, once the block has been carved out and the locks are free.
g1_mark_as_dirty(t) ==
  /\ pc[t] = "mark"
  /\ dirty' = dirty \union ({<<reg[t], blk[t]>>} \intersect Followed)
  /\ Goto(t, IF kind[t] = "tlab" THEN "register" ELSE "init")
  /\ missed' = IF kind[t] = "direct" /\ Retired(reg[t])
               THEN missed \union ({<<reg[t], blk[t]>>} \intersect Followed)
               ELSE missed
  /\ UNCHANGED <<regionVars, tlabVars, gen_alloc, buffered, lockVars,
                 queue, refining, unrecorded, locals>>

\* register_tlab: setHeapRegion and add_active_tlab.
register_tlab(t) ==
  /\ pc[t] = "register"
  /\ tlab' = [tlab EXCEPT ![t] = <<reg[t], blk[t]>>]
  /\ active_tlabs' = [active_tlabs EXCEPT ![reg[t]] = @ + 1]
  /\ Return(t)
  /\ UNCHANGED <<regionVars, flagVars, lockVars, cardVars>>

\* The object's klass is installed: its block can be walked from here on.
InitObject(t) ==
  /\ pc[t] = "init"
  /\ Return(t)
  /\ UNCHANGED <<regionVars, tlabVars, flagVars, lockVars, cardVars>>

-----------------------------------------------------------------------------
(* Stores, the write barrier and concurrent refinement.                    *)

\* The blocks no thread has finished handing out: memory that may not parse.
Held == {tlab[t] : t \in Threads} \union
        {<<reg[t], blk[t]>> : t \in {u \in Threads :
                                pc[u] \in {"mark", "register", "init"}}}

\* A thread stores a reference into an object of block c, which is its own
\* TLAB's or already handed out; the write barrier is still to come.
Store(t, c) ==
  /\ pc[t] = "idle"
  /\ c[1] \notin free /\ gen[c[1]] = Gen
  /\ c[2] <= top[c[1]]
  /\ c \in Held => tlab[t] = c
  /\ unrecorded' = unrecorded \union {c}
  /\ reg' = [reg EXCEPT ![t] = c[1]]
  /\ blk' = [blk EXCEPT ![t] = c[2]]
  /\ Goto(t, "post")
  /\ UNCHANGED <<regionVars, tlabVars, flagVars, lockVars,
                 dirty, queue, refining, kind>>

\* The barrier logs the card unless it is dirty already.
write_ref_field_work(t) ==
  /\ pc[t] = "post"
  /\ LET c == <<reg[t], blk[t]>> IN
       /\ dirty' = dirty \union {c}
       /\ queue' = IF c \in dirty THEN queue ELSE queue \union {c}
  /\ Return(t)
  /\ UNCHANGED <<regionVars, tlabVars, flagVars, lockVars, refining, unrecorded>>

\* refine_card up to the cleaning of the card.  A card that is no longer
\* dirty, or beyond the region's top, is dropped.
refine_card(c) ==
  /\ refining = NoCard
  /\ c \in queue
  /\ queue' = queue \ {c}
  /\ IF c \in dirty /\ c[2] <= top[c[1]]
     THEN dirty' = dirty \ {c} /\ refining' = c
     ELSE UNCHANGED <<dirty, refining>>
  /\ UNCHANGED <<regionVars, tlabVars, flagVars, lockVars, unrecorded, pc, locals>>

\* The scan of the card's objects.  Memory a thread still holds may stop it
\* (the klass word is NULL): the card is dirtied and queued again.  Or it
\* parses, and the references stored so far are recorded.
ScanCard ==
  /\ refining # NoCard
  /\ refining' = NoCard
  /\ \/ /\ unrecorded' = unrecorded \ {refining}
        /\ UNCHANGED <<dirty, queue>>
     \/ /\ refining \in Held
        /\ dirty' = dirty \union {refining}
        /\ queue' = IF refining \in dirty THEN queue
                    ELSE queue \union {refining}
        /\ UNCHANGED unrecorded
  /\ UNCHANGED <<regionVars, tlabVars, flagVars, lockVars, pc, locals>>

-----------------------------------------------------------------------------
(* Safepoints.  The requester holds Heap_lock; the other threads run Java  *)
(* code or are blocked on a lock.  The VM thread passes an allocation lock *)
(* that a stopped thread was given but has not entered (Monitor::lock).    *)

AtSafepoint ==
  /\ Heap_lock = NoThread
  /\ refining = NoCard
  /\ \A t \in Threads : pc[t] \in {"idle", "heap", "wait"}

\* ensure_parsability(true) on every thread, then release_gen_alloc_regions:
\* the same enqueue decisions as above, taken by the VM thread alone.
ActiveAfter(r) == active_tlabs[r] - Cardinality({t \in Threads : tlab[t][1] = r})

EnqueuedAtRelease ==
  UNION {Cards(r) : r \in {q \in Regions :
            /\ gen[q] > 0 /\ ActiveAfter(q) = 0
            /\ \/ q = alloc_region
               \/ ~gen_alloc[q] /\ \E t \in Threads : tlab[t][1] = q}}

\* Mutant: ensure_parsability(false), which leaves the TLABs to their threads.
release_keep_tlabs ==
  /\ UNCHANGED tlab
  /\ active_tlabs' = [r \in Regions |-> ActiveAfter(r)]
  /\ gen_alloc' = [r \in Regions |-> gen_alloc[r] /\ r # alloc_region]
  /\ alloc_region' = NoRegion

release_gen_alloc_regions ==
  /\ tlab' = [t \in Threads |-> NoCard]
  /\ active_tlabs' = [r \in Regions |-> ActiveAfter(r)]
  /\ gen_alloc' = [r \in Regions |-> gen_alloc[r] /\ r # alloc_region]
  /\ alloc_region' = NoRegion

\* Mutant: the region is released without filling it up.
TopAsIs == top

\* fill_up_remaining_space of the region that is released.
FilledTop == [r \in Regions |-> IF r = alloc_region THEN RegionBlocks ELSE top[r]]

\* VM_Rebase_Gen: the generation's TLABs and region are given up, nothing moves.
rebase_alloc_gen ==
  /\ AtSafepoint
  /\ release_gen_alloc_regions
  /\ top' = FilledTop
  /\ queue' = queue \union EnqueuedAtRelease
  /\ UNCHANGED <<free, gen, buffered, missed, lockVars, dirty, refining, unrecorded,
                 pc, locals>>

\* An evacuation pause: the cards queued are all refined, and the regions of
\* the collection set, retired ones, are evacuated, cleared and freed.
do_collection_pause_at_safepoint(cset) ==
  /\ AtSafepoint
  /\ cset \subseteq Regions \ (free \union {alloc_region})
  /\ release_gen_alloc_regions
  /\ LET refined == (queue \union EnqueuedAtRelease) \intersect dirty
         kept == Followed \ UNION {Cards(r) : r \in cset}
     IN /\ dirty' = (dirty \ refined) \intersect kept
        /\ unrecorded' = (unrecorded \ refined) \intersect kept
        /\ missed' = missed \intersect kept
  /\ queue' = {}
  /\ free' = free \union cset
  /\ gen' = [r \in Regions |-> IF r \in cset THEN -1 ELSE gen[r]]
  /\ top' = [r \in Regions |-> IF r \in cset THEN 0 ELSE FilledTop[r]]
  /\ UNCHANGED <<buffered, lockVars, refining, pc, locals>>

\* A full collection compacts the heap into regions of no generation, drops
\* the queued cards and rebuilds every remembered set.
do_collection(used) ==
  /\ AtSafepoint
  /\ \A r \in free : used[r] = 0
  /\ release_gen_alloc_regions
  /\ top' = used
  /\ free' = {r \in Regions : used[r] = 0}
  /\ gen' = [r \in Regions |-> -1]
  /\ dirty' = {} /\ queue' = {} /\ unrecorded' = {} /\ missed' = {}
  /\ UNCHANGED <<buffered, lockVars, refining, pc, locals>>

-----------------------------------------------------------------------------
\* A thread in the VM or in the write barrier takes its next step.
ThreadStep(t) ==
  \/ DecActiveTlabs(t) \/ ReadActiveTlabs(t) \/ ReadGenAlloc(t)
  \/ enqueue_gen_cards(t)
  \/ ReadAllocRegion(t) \/ ParLock(t) \/ par_allocate(t) \/ LockHeap(t)
  \/ ClearGenAlloc(t) \/ Drain(t) \/ ReadTlabsOfRetired(t)
  \/ EnqueueRetired(t) \/ new_alloc_region_and_allocate(t)
  \/ g1_mark_as_dirty(t) \/ register_tlab(t) \/ InitObject(t)
  \/ write_ref_field_work(t)

Refinement == ScanCard \/ \E c \in queue : refine_card(c)

Safepoint ==
  \/ rebase_alloc_gen
  \/ \E cset \in SUBSET Regions : do_collection_pause_at_safepoint(cset)
  \/ \E used \in [Regions -> 0 .. RegionBlocks] : do_collection(used)

Next ==
  \/ \E t \in Threads :
       \/ ThreadStep(t)
       \/ make_parsable(t, "tlab") \/ make_parsable(t, "exit")
       \/ StartDirect(t)
       \/ \E c \in Followed : Store(t, c)
  \/ Refinement
  \/ Safepoint

Spec == Init /\ [][Next]_vars

\* A thread inside the VM or the barrier keeps running, and the monitors hand
\* a lock to each of their waiters in the end.  Nothing makes Java code run,
\* cards be refined or safepoints come.
FairSpec == Spec /\ \A t \in Threads : SF_vars(ThreadStep(t))

-----------------------------------------------------------------------------
TypeOK ==
  /\ free \subseteq Regions
  /\ gen \in [Regions -> {-1, Gen}]
  /\ gen_alloc \in [Regions -> BOOLEAN]
  /\ buffered \in [Threads -> Regions \union {NoRegion}]
  /\ active_tlabs \in [Regions -> 0 .. Cardinality(Threads)]
  /\ top \in [Regions -> 0 .. RegionBlocks]
  /\ alloc_region \in Regions \union {NoRegion}
  /\ Heap_lock \in Threads \union {NoThread}
  /\ par_lock \in [Regions -> Threads \union {NoThread}]
  /\ dirty \subseteq Followed /\ queue \subseteq Followed
  /\ unrecorded \subseteq Followed /\ missed \subseteq Followed
  /\ refining \in Followed \union {NoCard}
  /\ tlab \in [Threads -> (Regions \X Blocks) \union {NoCard}]
  /\ pc \in [Threads -> Points]
  /\ reg \in [Threads -> Regions \union {NoRegion}]
  /\ blk \in [Threads -> 0 .. RegionBlocks]
  /\ kind \in [Threads -> Kinds]

\* A block a thread holds (its TLAB, or memory it is still setting up) is held
\* by no other thread, lies below its region's top, and its region belongs to
\* the generation: no pause frees or compacts a region under a live TLAB.
HoldsBlock(t, c) ==
  \/ tlab[t] = c
  \/ pc[t] \in {"mark", "register", "init"} /\ <<reg[t], blk[t]>> = c

HeldBlocksKept ==
  \A t \in Threads : \A c \in Regions \X Blocks : HoldsBlock(t, c) =>
    /\ c[1] \notin free /\ gen[c[1]] = Gen /\ c[2] <= top[c[1]]
    /\ \A u \in Threads \ {t} : ~HoldsBlock(u, c)

\* First-level allocation carves memory "out of the active region": a thread
\* that finds room in the region it read earlier finds it in the region that
\* is active now, since a retired region is always filled up first, unless a
\* collection has taken the region from the generation meanwhile.
CarvesActiveRegion ==
  \A t \in Threads :
    pc[t] = "cas" /\ top[reg[t]] < RegionBlocks /\ gen[reg[t]] = Gen
      => reg[t] = alloc_region

\* A thread is still inside an operation that concerns region r.
Busy(t, r) == pc[t] \notin {"idle", "heap", "read"} /\ reg[t] = r

\* Nothing more will happen to region r by itself: it is retired, no TLAB is
\* active in it and no thread is on its way to register or give up one.
Settled(r) ==
  /\ ~gen_alloc[r] /\ active_tlabs[r] = 0
  /\ \A t \in Threads : buffered[t] # r /\ ~Busy(t, r)

\* No reference is lost: once a region is settled, every reference stored in
\* it that no remembered set has is on a dirty card in a queue or is being
\* scanned.  Either the retiring thread or the last TLAB's owner queued it.
\* The cards in missed are the only exceptions.
NoReferenceLost ==
  \A c \in unrecorded \ missed : Settled(c[1]) => c \in (queue \intersect dirty) \union {refining}

\* Whenever a pause may come, each reference that no remembered set has is on
\* a dirty card that is queued already or that giving up the TLABs and the
\* region queues: but for the cards in missed, the remembered sets the pause
\* works with are complete.
PauseFindsReferences ==
  AtSafepoint =>
    unrecorded \ missed \subseteq (queue \union EnqueuedAtRelease) \intersect dirty

\* An allocation, or the giving up of a TLAB, comes to an end, so a thread is
\* outside of them again and again: no thread waits forever on Heap_lock, an
\* allocation lock or a region that stays full, whatever pauses come in between,
\* unless the VM has run out of regions or a thread has allocated from a
\* reclaimed one.
OperationsEnd ==
  \A t \in Threads :
    []<>(pc[t] = "idle" \/ \E u \in Threads : pc[u] \in {"null", "stale"})
=============================================================================
