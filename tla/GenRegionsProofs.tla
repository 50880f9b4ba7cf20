-------------------------- MODULE GenRegionsProofs --------------------------
(***************************************************************************)
(* The safety of a generation's allocation region, for any number of       *)
(* threads, regions and blocks and for any cards that are followed.        *)
(*                                                                         *)
(* A region other than the active one is full (Full), so a block is carved *)
(* out of a region once.  The references: a block is dirtied before it is  *)
(* used, so the barrier is silent and each reference is on a dirty card    *)
(* (Logged); and a dirty card is queued, or somebody is still bound to     *)
(* queue its whole region (Queued).  Due lists who that can be.  The two   *)
(* sides of the race, the retiring thread and the last TLAB's owner, are   *)
(* two of its disjuncts, and the steps by which each of them leaves show   *)
(* that it leaves the duty to another or has queued the cards.             *)
(***************************************************************************)
EXTENDS GenRegions, TLAPS

\* A leaf that names no prover is for the SMT solver.
USE SMTT(60)

InTlab == {"dec", "count", "flag", "enqueue"}
InAlloc == {"read", "par", "wait", "cas", "heap", "clear", "tlabs", "enqueue_mr",
            "new", "null", "mark", "stale", "register", "init"}
UnderLock == {"read", "par", "wait", "cas", "clear", "tlabs", "enqueue_mr", "new", "null"}

\* Where a thread can be with which locals.
Control ==
  \A t \in Threads :
    /\ pc[t] \in InTlab => kind[t] \in {"tlab", "exit"} /\ reg[t] \in Regions /\ gen[reg[t]] = Gen
    /\ pc[t] \in InAlloc => kind[t] \in {"tlab", "direct"}
    /\ pc[t] \in {"idle", "post"} => kind[t] = "none"
    /\ pc[t] = "register" => kind[t] = "tlab"
    /\ pc[t] \in {"par", "wait", "cas", "clear", "tlabs", "enqueue_mr"} => reg[t] \in Regions
    /\ pc[t] \in {"mark", "register", "init"} => reg[t] \in Regions /\ blk[t] \in Blocks
    /\ pc[t] = "post" => <<reg[t], blk[t]>> \in Followed

\* The locks.  The holder of Heap_lock has the active region.
Locks ==
  /\ \A t \in Threads :
       /\ pc[t] \in {"clear", "tlabs", "enqueue_mr", "new", "null"} => Heap_lock = t
       /\ Heap_lock = t => pc[t] \in UnderLock
       /\ Heap_lock = t /\ pc[t] \notin {"read", "null"} => reg[t] = alloc_region
       /\ pc[t] = "cas" => par_lock[reg[t]] = t
  /\ \A r \in Regions : par_lock[r] # NoThread => pc[par_lock[r]] = "cas" /\ reg[par_lock[r]] = r

\* A free region is empty, and a region that the generation has given up, or is
\* giving up, is full.
Full ==
  /\ \A r \in free : gen[r] = -1 /\ top[r] = 0
  /\ alloc_region # NoRegion => gen[alloc_region] = Gen
  /\ \A r \in Regions : gen[r] = Gen /\ r # alloc_region => top[r] = RegionBlocks
  /\ \A t \in Threads :
       pc[t] \in {"clear", "tlabs", "enqueue_mr", "new"} /\ alloc_region # NoRegion
         => top[alloc_region] = RegionBlocks

\* The flag of the active region, which its retirement clears.
Flags ==
  /\ \A r \in Regions : gen_alloc[r] => r = alloc_region
  /\ alloc_region # NoRegion /\ (\A t \in Threads : pc[t] \notin {"tlabs", "enqueue_mr", "new"})
       => gen_alloc[alloc_region]
  /\ \A t \in Threads : buffered[t] # NoRegion =>
       pc[t] \in {"tlabs", "enqueue_mr", "new"} /\ buffered[t] = alloc_region
  /\ \A t \in Threads :
       pc[t] \in {"tlabs", "enqueue_mr", "new"} /\ buffered[t] = NoRegion /\ alloc_region # NoRegion
         => ~gen_alloc[alloc_region]

\* The threads whose TLAB is in region r, and the count of them.
Owners(r) == {t \in Threads : tlab[t][1] = r}

Tlabs ==
  /\ \A r \in Regions : active_tlabs[r] = Cardinality(Owners(r))
  /\ \A t \in Threads : /\ pc[t] = "dec" => tlab[t] # NoCard /\ tlab[t][1] = reg[t]
                        /\ kind[t] = "tlab" /\ pc[t] # "dec" => tlab[t] = NoCard

\* Somebody is bound to queue the cards of region r: it is not retired; or it
\* has a TLAB, or will have, or has had one whose owner is not done; or the
\* thread that retires it is not done.
Due(r) ==
  \/ ~Retired(r)
  \/ active_tlabs[r] > 0
  \/ \E t \in Threads :
       /\ reg[t] = r
       /\ \/ pc[t] \in {"count", "flag", "enqueue", "register", "tlabs", "enqueue_mr"}
          \/ pc[t] = "mark" /\ kind[t] = "tlab"

\* Cards belong to blocks that have been carved out of the generation's regions.
Known ==
  /\ \A c \in dirty \union unrecorded : gen[c[1]] = Gen /\ c[2] <= top[c[1]]
  /\ refining # NoCard => gen[refining[1]] = Gen /\ refining[2] <= top[refining[1]]
  /\ \A t \in Threads : pc[t] = "post" => gen[reg[t]] = Gen /\ blk[t] <= top[reg[t]]

Queued == \A c \in dirty \ missed : c \in queue \/ Due(c[1])

Logged ==
  \A c \in unrecorded \ missed :
    c \in dirty \/ c = refining \/ \E t \in Threads : pc[t] = "post" /\ <<reg[t], blk[t]>> = c

IInv ==
  /\ TypeOK /\ Control /\ Locks /\ Full /\ Flags /\ Tlabs
  /\ HeldBlocksKept /\ Known /\ Queued /\ Logged
-----------------------------------------------------------------------------
\* A card is a region and a block.
LEMMA CardFacts ==
  \A c \in Followed : /\ c = <<c[1], c[2]>> /\ c[1] \in Regions /\ c[2] \in Blocks
                      /\ c[2] \in 0 .. RegionBlocks /\ c[2] \in Nat /\ c[2] <= RegionBlocks
  BY FollowedAssumption, BlocksAssumption DEF Blocks

\* NoCard is not a card.
LEMMA NoCardApart ==
  NoCard \notin Regions \X Blocks /\ NoCard \notin Followed /\ NoCard[1] \notin Regions
  BY FollowedAssumption, RegionAssumption DEF NoCard

\* Blocks are not given back outside safepoints, so a step by which nobody
\* comes to hold a block leaves the holders apart.
LEMMA HeldKept ==
  ASSUME IInv, UNCHANGED <<free, gen>>,
         \A r \in Regions : top[r] <= top'[r],
         \A u \in Threads : \A c \in Regions \X Blocks : HoldsBlock(u, c)' => HoldsBlock(u, c),
         top' \in [Regions -> 0 .. RegionBlocks]
  PROVE  HeldBlocksKept'
<1> SUFFICES ASSUME NEW u \in Threads, NEW c \in Regions \X Blocks, HoldsBlock(u, c)'
             PROVE  /\ c[1] \notin free' /\ gen'[c[1]] = Gen /\ c[2] <= top'[c[1]]
                    /\ \A v \in Threads \ {u} : ~HoldsBlock(v, c)'
  BY ZenonT(60) DEF HeldBlocksKept
<1>1. /\ c[1] \notin free /\ gen[c[1]] = Gen /\ c[2] <= top[c[1]]
      /\ \A v \in Threads \ {u} : ~HoldsBlock(v, c)
  BY ZenonT(60) DEF IInv, HeldBlocksKept
<1>2. c[2] <= top'[c[1]]
  BY <1>1 DEF IInv, TypeOK, Blocks
<1> QED
  BY ZenonT(60), <1>1, <1>2

\* The region of a TLAB, or of a block being set up, belongs to the generation.
LEMMA HeldRegions ==
  ASSUME IInv, NEW t \in Threads
  PROVE  /\ tlab[t] # NoCard => tlab[t][1] \in Regions /\ gen[tlab[t][1]] = Gen
         /\ pc[t] \in {"mark", "register", "init"} =>
              reg[t] \in Regions /\ gen[reg[t]] = Gen /\ blk[t] <= top[reg[t]]
<1>1. ASSUME tlab[t] # NoCard
      PROVE  tlab[t][1] \in Regions /\ gen[tlab[t][1]] = Gen
  BY ZenonT(60), <1>1 DEF IInv, TypeOK, HeldBlocksKept, HoldsBlock
<1>2. ASSUME pc[t] \in {"mark", "register", "init"}
      PROVE  reg[t] \in Regions /\ gen[reg[t]] = Gen /\ blk[t] <= top[reg[t]]
  <2>1. <<reg[t], blk[t]>> \in Regions \X Blocks
    BY ZenonT(60), <1>2 DEF IInv, Control
  <2> QED
    BY ZenonT(60), <1>2, <2>1 DEF IInv, HeldBlocksKept, HoldsBlock
<1> QED
  BY ZenonT(60), <1>1, <1>2

\* What the proofs use of counting sets of threads (ThreadCountsHold, below).
ThreadCounts ==
  /\ Cardinality(Threads) \in Nat
  /\ \A S \in SUBSET Threads :
       /\ Cardinality(S) \in 0 .. Cardinality(Threads)
       /\ Cardinality(S) = 0 <=> S = {}
       /\ \A t \in S : Cardinality(S \ {t}) = Cardinality(S) - 1
       /\ \A t \in Threads \ S : Cardinality(S \union {t}) = Cardinality(S) + 1

\* The count of TLABs is zero exactly when nobody has one in the region.
LEMMA ActiveCount ==
  ASSUME ThreadCounts, IInv, NEW r \in Regions
  PROVE  active_tlabs[r] \in Nat /\ (active_tlabs[r] = 0 <=> Owners(r) = {})
<1>1. Owners(r) \in SUBSET Threads
  BY ZenonT(60) DEF Owners
<1> QED
  BY <1>1 DEF ThreadCounts, IInv, Tlabs

\* Who holds the allocation lock of a region is a thread inside par_allocate.
LEMMA ParLockHeld ==
  ASSUME IInv, NEW r \in Regions, par_lock[r] # NoThread
  PROVE  par_lock[r] \in Threads /\ pc[par_lock[r]] = "cas" /\ reg[par_lock[r]] = r
<1>1. par_lock[r] \in Threads \union {NoThread}
  <2>1. par_lock \in [Regions -> Threads \union {NoThread}]
    BY ZenonT(60) DEF IInv, TypeOK
  <2> QED
    BY ZenonT(60), <2>1
<1>2. Locks
  BY ZenonT(60) DEF IInv
<1>3. \A q \in Regions : par_lock[q] # NoThread => pc[par_lock[q]] = "cas" /\ reg[par_lock[q]] = q
  BY ZenonT(60), <1>2 DEF Locks
<1> QED
  BY ZenonT(60), <1>1, <1>3

\* Only thread t moves.
Alone(t) ==
  \A u \in Threads \ {t} :
    pc'[u] = pc[u] /\ reg'[u] = reg[u] /\ blk'[u] = blk[u] /\ kind'[u] = kind[u]

\* What a step of t leaves alone, part by part.  No block changes hands:
LEMMA HeldFrame ==
  ASSUME IInv, UNCHANGED <<free, gen, top>>,
         \A u \in Threads : \A c \in Regions \X Blocks : HoldsBlock(u, c)' => HoldsBlock(u, c)
  PROVE  HeldBlocksKept'
<1> SUFFICES ASSUME NEW u \in Threads, NEW c \in Regions \X Blocks, HoldsBlock(u, c)'
             PROVE  /\ c[1] \notin free' /\ gen'[c[1]] = Gen /\ c[2] <= top'[c[1]]
                    /\ \A v \in Threads \ {u} : ~HoldsBlock(v, c)'
  BY ZenonT(60) DEF HeldBlocksKept
<1>1. /\ c[1] \notin free /\ gen[c[1]] = Gen /\ c[2] <= top[c[1]]
      /\ \A v \in Threads \ {u} : ~HoldsBlock(v, c)
  BY ZenonT(60) DEF IInv, HeldBlocksKept
<1> QED
  BY ZenonT(60), <1>1

\* the thread does not come to hold a block,
LEMMA HeldAlone ==
  ASSUME IInv, NEW t \in Threads, Alone(t), UNCHANGED <<free, gen, top, tlab>>,
         \/ pc'[t] \notin {"mark", "register", "init"}
         \/ pc[t] \in {"mark", "register", "init"} /\ reg'[t] = reg[t] /\ blk'[t] = blk[t]
  PROVE  HeldBlocksKept'
<1>1. ASSUME NEW u \in Threads, NEW c \in Regions \X Blocks, HoldsBlock(u, c)'
      PROVE  HoldsBlock(u, c)
  BY ZenonT(60), <1>1 DEF HoldsBlock, Alone
<1> QED
  BY ZenonT(60), <1>1, HeldFrame

\* no TLAB is taken or given up,
LEMMA TlabsAlone ==
  ASSUME IInv, NEW t \in Threads, Alone(t), UNCHANGED <<active_tlabs, tlab>>,
         pc[t] # "dec", pc'[t] # "dec", kind'[t] = kind[t] \/ kind'[t] # "tlab"
  PROVE  Tlabs'
<1>1. \A r \in Regions : Owners(r)' = Owners(r) /\ active_tlabs'[r] = active_tlabs[r]
  BY ZenonT(60) DEF Owners
<1>2. \A r \in Regions : active_tlabs'[r] = Cardinality(Owners(r)')
  BY ZenonT(60), <1>1 DEF IInv, Tlabs
<1>3. ASSUME NEW u \in Threads
      PROVE  /\ pc'[u] = "dec" => tlab'[u] # NoCard /\ tlab'[u][1] = reg'[u]
             /\ kind'[u] = "tlab" /\ pc'[u] # "dec" => tlab'[u] = NoCard
  BY ZenonT(60) DEF IInv, Tlabs, Alone
<1> QED
  BY ZenonT(60), <1>2, <1>3 DEF Tlabs

\* the other threads keep their locals,
LEMMA ControlAlone ==
  ASSUME IInv, NEW t \in Threads, Alone(t),
         \A q \in Regions : gen[q] = Gen => gen'[q] = Gen,
         pc'[t] \in InTlab => /\ kind'[t] \in {"tlab", "exit"}
                             /\ reg'[t] \in Regions /\ gen'[reg'[t]] = Gen,
         pc'[t] \in InAlloc => kind'[t] \in {"tlab", "direct"},
         pc'[t] \in {"idle", "post"} => kind'[t] = "none",
         pc'[t] = "register" => kind'[t] = "tlab",
         pc'[t] \in {"par", "wait", "cas", "clear", "tlabs", "enqueue_mr"} => reg'[t] \in Regions,
         pc'[t] \in {"mark", "register", "init"} => reg'[t] \in Regions /\ blk'[t] \in Blocks,
         pc'[t] = "post" => <<reg'[t], blk'[t]>> \in Followed
  PROVE  Control'
<1>1. ASSUME NEW u \in Threads \ {t}
      PROVE  pc'[u] = pc[u] /\ reg'[u] = reg[u] /\ blk'[u] = blk[u] /\ kind'[u] = kind[u]
  BY ZenonT(60) DEF Alone
<1>2. ASSUME NEW u \in Threads \ {t}, pc[u] \in InTlab
      PROVE  kind[u] \in {"tlab", "exit"} /\ reg[u] \in Regions /\ gen'[reg[u]] = Gen
  BY ZenonT(60), <1>2 DEF IInv, Control
<1>3. ASSUME NEW u \in Threads \ {t}
      PROVE  /\ pc[u] \in InAlloc => kind[u] \in {"tlab", "direct"}
             /\ pc[u] \in {"idle", "post"} => kind[u] = "none"
             /\ pc[u] = "register" => kind[u] = "tlab"
             /\ pc[u] \in {"par", "wait", "cas", "clear", "tlabs", "enqueue_mr"} => reg[u] \in Regions
             /\ pc[u] \in {"mark", "register", "init"} => reg[u] \in Regions /\ blk[u] \in Blocks
             /\ pc[u] = "post" => <<reg[u], blk[u]>> \in Followed
  BY ZenonT(60) DEF IInv, Control
<1> QED
  BY ZenonT(60), <1>1, <1>2, <1>3 DEF Control

\* no lock changes hands,
LEMMA LocksAlone ==
  ASSUME IInv, NEW t \in Threads, Alone(t), UNCHANGED <<Heap_lock, par_lock, alloc_region>>,
         pc[t] # "cas", pc'[t] # "cas",
         pc'[t] \in {"clear", "tlabs", "enqueue_mr", "new", "null"} => Heap_lock = t,
         Heap_lock = t => /\ pc'[t] \in UnderLock
                          /\ pc'[t] \notin {"read", "null"} => reg'[t] = alloc_region
  PROVE  Locks'
<1>1. ASSUME NEW u \in Threads
      PROVE  /\ pc'[u] \in {"clear", "tlabs", "enqueue_mr", "new", "null"} => Heap_lock' = u
             /\ Heap_lock' = u => pc'[u] \in UnderLock
             /\ Heap_lock' = u /\ pc'[u] \notin {"read", "null"} => reg'[u] = alloc_region'
             /\ pc'[u] = "cas" => par_lock'[reg'[u]] = u
  <2>1. CASE u = t
    BY ZenonT(60), <2>1
  <2>2. CASE u # t
    <3>1. pc'[u] = pc[u] /\ reg'[u] = reg[u]
      BY ZenonT(60), <2>2 DEF Alone
    <3> QED
      BY ZenonT(60), <3>1 DEF IInv, Locks
  <2> QED
    BY ZenonT(60), <2>1, <2>2
<1>2. ASSUME NEW r \in Regions, par_lock'[r] # NoThread
      PROVE  pc'[par_lock'[r]] = "cas" /\ reg'[par_lock'[r]] = r
  <2>1. par_lock[r] \in Threads /\ pc[par_lock[r]] = "cas" /\ reg[par_lock[r]] = r
    BY ZenonT(60), <1>2, ParLockHeld
  <2> QED
    BY ZenonT(60), <2>1 DEF Alone
<1> QED
  BY ZenonT(60), <1>1, <1>2 DEF Locks

\* the duties of the others stay,
LEMMA DueAlone ==
  ASSUME NEW t \in Threads, Alone(t), NEW r, Due(r), UNCHANGED <<gen_alloc, buffered>>,
         active_tlabs'[r] = active_tlabs[r],
         \/ reg[t] # r
         \/ pc[t] \notin {"count", "flag", "enqueue", "register", "tlabs", "enqueue_mr", "mark"}
         \/ Due(r)'
  PROVE  Due(r)'
<1>1. CASE ~Retired(r)
  <2>1. ~Retired(r)'
    BY ZenonT(60), <1>1 DEF Retired
  <2> QED
    BY ZenonT(60), <2>1 DEF Due
<1>2. CASE active_tlabs[r] > 0
  BY ZenonT(60), <1>2 DEF Due
<1>3. ASSUME NEW u \in Threads, reg[u] = r,
             \/ pc[u] \in {"count", "flag", "enqueue", "register", "tlabs", "enqueue_mr"}
             \/ pc[u] = "mark" /\ kind[u] = "tlab"
      PROVE  Due(r)'
  <2>1. CASE u = t
    BY ZenonT(60), <1>3, <2>1
  <2>2. CASE u # t
    BY ZenonT(60), <1>3, <2>2 DEF Due, Alone
  <2> QED
    BY ZenonT(60), <2>1, <2>2
<1> QED
  BY ZenonT(60), <1>1, <1>2, <1>3 DEF Due

\* and so what is queued or will be.
LEMMA QueuedAlone ==
  ASSUME IInv, NEW t \in Threads, Alone(t), queue \subseteq queue',
         UNCHANGED <<gen_alloc, buffered, active_tlabs, dirty, missed>>,
         pc[t] \notin {"count", "flag", "enqueue", "register", "tlabs", "enqueue_mr", "mark"}
  PROVE  Queued'
<1>1. \A r : Due(r) => Due(r)'
  BY ZenonT(60), DueAlone
<1> QED
  BY ZenonT(60), <1>1 DEF IInv, Queued

\* The thread has given up its TLAB and exits or goes on to allocate.
LEMMA AfterRetireStep ==
  ASSUME IInv, NEW t \in Threads, pc[t] \in InTlab, AfterRetire(t)
  PROVE  /\ Alone(t)
         /\ \/ pc'[t] = "idle" /\ kind'[t] = "none"
            \/ pc'[t] = "read" /\ kind[t] = "tlab" /\ kind'[t] = "tlab"
<1>1. CASE kind[t] = "exit"
  BY ZenonT(60), <1>1 DEF AfterRetire, Return, Goto, Alone, IInv, TypeOK
<1>2. CASE kind[t] # "exit"
  <2>1. kind[t] = "tlab"
    BY ZenonT(60), <1>2 DEF IInv, Control
  <2>2. /\ pc' = [pc EXCEPT ![t] = "read"] /\ reg' = [reg EXCEPT ![t] = NoRegion]
        /\ UNCHANGED <<blk, kind>>
    BY ZenonT(60), <1>2 DEF AfterRetire, Goto
  <2> QED
    BY ZenonT(60), <2>1, <2>2 DEF Alone, IInv, TypeOK
<1> QED
  BY ZenonT(60), <1>1, <1>2

\* Its place in the code and its locals have their types.
LEMMA AfterRetireTypes ==
  ASSUME TypeOK, NEW t \in Threads, AfterRetire(t)
  PROVE  /\ pc' \in [Threads -> Points] /\ kind' \in [Threads -> Kinds]
         /\ reg' \in [Threads -> Regions \union {NoRegion}]
         /\ blk' \in [Threads -> 0 .. RegionBlocks]
<1>1. CASE kind[t] = "exit"
  BY <1>1, BlocksAssumption DEF AfterRetire, Return, Goto, TypeOK, Points, Kinds
<1>2. CASE kind[t] # "exit"
  BY ZenonT(60), <1>2 DEF AfterRetire, Goto, TypeOK, Points
<1> QED
  BY ZenonT(60), <1>1, <1>2

\* A thread starts to give up its TLAB: it still counts as active.
LEMMA MakeParsableStep ==
  ASSUME IInv, NEW t \in Threads, make_parsable(t, "tlab") \/ make_parsable(t, "exit")
  PROVE  IInv'
<1>0. /\ Alone(t) /\ pc[t] = "idle" /\ Heap_lock # t
      /\ \/ tlab[t] = NoCard /\ pc'[t] = "read" /\ kind'[t] = "tlab"
         \/ tlab[t] # NoCard /\ pc'[t] = "dec" /\ kind'[t] \in {"tlab", "exit"} /\ reg'[t] = tlab[t][1]
      /\ UNCHANGED <<free, gen, top, alloc_region, active_tlabs, tlab, gen_alloc, buffered,
                     Heap_lock, par_lock, missed, dirty, queue>>
  <2>1. pc[t] = "idle" /\ Heap_lock # t
    BY ZenonT(60) DEF make_parsable, IInv, Locks, UnderLock
  <2> QED
    BY ZenonT(60), <2>1 DEF make_parsable, Goto, IInv, TypeOK, Alone, regionVars, tlabVars, flagVars,
    lockVars, cardVars
<1>1. TypeOK'
  <2>1. tlab[t] # NoCard => tlab[t][1] \in Regions
    BY ZenonT(60) DEF IInv, TypeOK
  <2>2. reg' \in [Threads -> Regions \union {NoRegion}]
    BY ZenonT(60), <2>1 DEF make_parsable, IInv, TypeOK
  <2>3. pc' \in [Threads -> Points] /\ kind' \in [Threads -> Kinds]
    BY DEF make_parsable, Goto, IInv, TypeOK, Points, Kinds
  <2> QED
    BY ZenonT(60), <2>2, <2>3
       DEF make_parsable, IInv, TypeOK, regionVars, tlabVars, flagVars, lockVars, cardVars
<1>2. Control'
  <2>1. CASE pc'[t] = "read"
    BY ZenonT(60), <1>0, <2>1, ControlAlone DEF InTlab
  <2>2. CASE pc'[t] = "dec"
    BY ZenonT(60), <1>0, <2>2, HeldRegions, ControlAlone DEF InAlloc
  <2> QED
    BY ZenonT(60), <1>0, <2>1, <2>2
<1>3. Locks'
  BY ZenonT(60), <1>0, LocksAlone
<1>4. Full'
  BY ZenonT(60), <1>0 DEF IInv, Full, Alone
<1>5. Flags'
  BY ZenonT(60), <1>0 DEF IInv, Flags, Alone
<1>6. Tlabs'
  <2>1. \A r \in Regions : Owners(r)' = Owners(r) /\ active_tlabs'[r] = active_tlabs[r]
    BY ZenonT(60), <1>0 DEF Owners
  <2> QED
    BY ZenonT(60), <1>0, <2>1 DEF IInv, Tlabs, Alone
<1>7. HeldBlocksKept'
  BY ZenonT(60), <1>0, HeldAlone
<1>8. Known'
  BY ZenonT(60) DEF IInv, TypeOK, Known, make_parsable, Goto, regionVars, cardVars
<1>9. Queued'
  BY ZenonT(60), <1>0, QueuedAlone
<1>10. Logged'
  BY ZenonT(60) DEF IInv, TypeOK, Logged, make_parsable, Goto, flagVars, cardVars
<1> QED
  BY ZenonT(60), <1>1, <1>2, <1>3, <1>4, <1>5, <1>6, <1>7, <1>8, <1>9, <1>10 DEF IInv

\* del_active_tlab, with the count down: another TLAB is left to queue the cards, or
\* the flag is read next.
LEMMA ReadActiveTlabsStep ==
  ASSUME IInv, NEW t \in Threads, ReadActiveTlabs(t)
  PROVE  IInv'
<1>0. /\ Alone(t) /\ pc[t] = "count" /\ Heap_lock # t
      /\ \/ pc'[t] = "flag" /\ reg'[t] = reg[t] /\ kind'[t] = kind[t]
         \/ pc'[t] = "idle" /\ kind'[t] = "none"
         \/ pc'[t] = "read" /\ kind[t] = "tlab" /\ kind'[t] = "tlab"
      /\ UNCHANGED <<free, gen, top, alloc_region, active_tlabs, tlab, gen_alloc, buffered,
                     Heap_lock, par_lock, missed, dirty, queue, refining, unrecorded>>
  <2>1. pc[t] = "count" /\ pc[t] \in InTlab /\ Heap_lock # t
    BY ZenonT(60) DEF ReadActiveTlabs, InTlab, IInv, Locks, UnderLock
  <2>2. UNCHANGED <<free, gen, top, alloc_region, active_tlabs, tlab, gen_alloc, buffered,
                    Heap_lock, par_lock, missed, dirty, queue, refining, unrecorded>>
    BY ZenonT(60) DEF ReadActiveTlabs, regionVars, tlabVars, flagVars, lockVars, cardVars
  <2>3. CASE AfterRetire(t)
    BY ZenonT(60), <2>1, <2>2, <2>3, AfterRetireStep
  <2>4. CASE ~AfterRetire(t)
    BY ZenonT(60), <2>1, <2>2, <2>4 DEF ReadActiveTlabs, Goto, IInv, TypeOK, Alone, locals
  <2> QED
    BY ZenonT(60), <2>3, <2>4
<1>1. TypeOK'
  <2>1. /\ pc' \in [Threads -> Points] /\ kind' \in [Threads -> Kinds]
        /\ reg' \in [Threads -> Regions \union {NoRegion}]
        /\ blk' \in [Threads -> 0 .. RegionBlocks]
    BY ZenonT(60), AfterRetireTypes DEF ReadActiveTlabs, Goto, IInv, TypeOK, Points, locals
  <2> QED
    BY ZenonT(60), <2>1
       DEF ReadActiveTlabs, IInv, TypeOK, regionVars, tlabVars, flagVars, lockVars, cardVars
<1>2. Control'
  <2>1. pc[t] \in InTlab
    BY ZenonT(60), <1>0 DEF InTlab
  <2>2. CASE pc'[t] = "flag"
    <3>1. kind'[t] \in {"tlab", "exit"} /\ reg'[t] \in Regions /\ gen'[reg'[t]] = Gen
      BY ZenonT(60), <1>0, <2>1, <2>2 DEF IInv, Control
    <3> QED
      BY ZenonT(60), <1>0, <2>2, <3>1, ControlAlone DEF InAlloc
  <2>3. CASE pc'[t] = "idle"
    BY ZenonT(60), <1>0, <2>3, ControlAlone DEF InTlab, InAlloc
  <2>4. CASE pc'[t] = "read"
    BY ZenonT(60), <1>0, <2>4, ControlAlone DEF InTlab
  <2> QED
    BY ZenonT(60), <1>0, <2>2, <2>3, <2>4
<1>3. Locks'
  BY ZenonT(60), <1>0, LocksAlone
<1>4. Full'
  BY ZenonT(60), <1>0 DEF IInv, Full, Alone
<1>5. Flags'
  BY ZenonT(60), <1>0 DEF IInv, Flags, Alone
<1>6. Tlabs'
  BY ZenonT(60), <1>0, TlabsAlone
<1>7. HeldBlocksKept'
  BY ZenonT(60), <1>0, HeldAlone
<1>8. Known'
  BY ZenonT(60), <1>0 DEF IInv, Known, Alone
<1>9. Queued'
  <2> SUFFICES ASSUME NEW c \in dirty \ missed, Due(c[1])
               PROVE  Due(c[1])'
    BY ZenonT(60) DEF ReadActiveTlabs, IInv, Queued, flagVars, cardVars
  <2>1. \/ active_tlabs[reg[t]] > 0
        \/ pc'[t] = "flag" /\ reg'[t] = reg[t]
    <3>1. reg[t] \in Regions /\ gen[reg[t]] > 0
      <4>1. pc[t] \in InTlab
        BY ZenonT(60) DEF ReadActiveTlabs, InTlab
      <4>2. reg[t] \in Regions /\ gen[reg[t]] = Gen
        BY ZenonT(60), <4>1 DEF IInv, Control
      <4> QED
        BY <4>2 DEF Gen
    <3>2. active_tlabs[reg[t]] \in Nat
      BY <3>1 DEF IInv, TypeOK
    <3> QED
      BY <3>1 DEF ReadActiveTlabs, IInv, TypeOK, Goto, locals
  <2>2. c[1] = reg[t] => Due(c[1])'
    BY ZenonT(60), <1>0, <2>1 DEF Due
  <2> QED
    BY ZenonT(60), <1>0, <2>2, DueAlone
<1>10. Logged'
  BY ZenonT(60), <1>0 DEF IInv, Logged, Alone
<1> QED
  BY ZenonT(60), <1>1, <1>2, <1>3, <1>4, <1>5, <1>6, <1>7, <1>8, <1>9, <1>10 DEF IInv

\* del_active_tlab finds the flag set, so the retirement is to come, or queues the
\* cards itself.  A flag still in a store buffer is how cards come to be missed.
LEMMA ReadGenAllocStep ==
  ASSUME IInv, NEW t \in Threads, ReadGenAlloc(t)
  PROVE  IInv'
<1>0. /\ Alone(t) /\ pc[t] = "flag" /\ Heap_lock # t
      /\ \/ pc'[t] = "enqueue" /\ reg'[t] = reg[t] /\ kind'[t] = kind[t]
         \/ pc'[t] = "idle" /\ kind'[t] = "none"
         \/ pc'[t] = "read" /\ kind[t] = "tlab" /\ kind'[t] = "tlab"
      /\ UNCHANGED <<free, gen, top, alloc_region, active_tlabs, tlab, gen_alloc, buffered,
                     Heap_lock, par_lock, dirty, queue, refining, unrecorded>>
  <2>1. pc[t] = "flag" /\ pc[t] \in InTlab /\ Heap_lock # t
    BY ZenonT(60) DEF ReadGenAlloc, InTlab, IInv, Locks, UnderLock
  <2>2. UNCHANGED <<free, gen, top, alloc_region, active_tlabs, tlab, gen_alloc, buffered,
                    Heap_lock, par_lock, dirty, queue, refining, unrecorded>>
    BY ZenonT(60) DEF ReadGenAlloc, regionVars, tlabVars, flagVars, lockVars, cardVars
  <2>3. CASE AfterRetire(t)
    BY ZenonT(60), <2>1, <2>2, <2>3, AfterRetireStep
  <2>4. CASE ~AfterRetire(t)
    BY ZenonT(60), <2>1, <2>2, <2>4 DEF ReadGenAlloc, Goto, IInv, TypeOK, Alone, locals
  <2> QED
    BY ZenonT(60), <2>3, <2>4
<1>1. TypeOK'
  <2>1. /\ pc' \in [Threads -> Points] /\ kind' \in [Threads -> Kinds]
        /\ reg' \in [Threads -> Regions \union {NoRegion}]
        /\ blk' \in [Threads -> 0 .. RegionBlocks]
    BY ZenonT(60), AfterRetireTypes DEF ReadGenAlloc, Goto, IInv, TypeOK, Points, locals
  <2>2. missed' \subseteq Followed
    BY ZenonT(60) DEF ReadGenAlloc, IInv, TypeOK, Cards
  <2> QED
    BY ZenonT(60), <2>1, <2>2
       DEF ReadGenAlloc, IInv, TypeOK, regionVars, tlabVars, lockVars, cardVars
<1>2. Control'
  <2>1. pc[t] \in InTlab
    BY ZenonT(60), <1>0 DEF InTlab
  <2>2. CASE pc'[t] = "enqueue"
    <3>1. kind'[t] \in {"tlab", "exit"} /\ reg'[t] \in Regions /\ gen'[reg'[t]] = Gen
      BY ZenonT(60), <1>0, <2>1, <2>2 DEF IInv, Control
    <3> QED
      BY ZenonT(60), <1>0, <2>2, <3>1, ControlAlone DEF InAlloc
  <2>3. CASE pc'[t] = "idle"
    BY ZenonT(60), <1>0, <2>3, ControlAlone DEF InTlab, InAlloc
  <2>4. CASE pc'[t] = "read"
    BY ZenonT(60), <1>0, <2>4, ControlAlone DEF InTlab
  <2> QED
    BY ZenonT(60), <1>0, <2>2, <2>3, <2>4
<1>3. Locks'
  BY ZenonT(60), <1>0, LocksAlone
<1>4. Full'
  BY ZenonT(60), <1>0 DEF IInv, Full, Alone
<1>5. Flags'
  BY ZenonT(60), <1>0 DEF IInv, Flags, Alone
<1>6. Tlabs'
  BY ZenonT(60), <1>0, TlabsAlone
<1>7. HeldBlocksKept'
  BY ZenonT(60), <1>0, HeldAlone
<1>8. Known'
  BY ZenonT(60), <1>0 DEF IInv, Known, Alone
<1>9. Queued'
  <2> SUFFICES ASSUME NEW c \in dirty \ missed', Due(c[1])
               PROVE  Due(c[1])'
    BY ZenonT(60), <1>0 DEF ReadGenAlloc, IInv, Queued
  <2>1. CASE c[1] # reg[t]
    BY ZenonT(60), <1>0, <2>1, DueAlone
  <2>2. CASE c[1] = reg[t] /\ gen_alloc[reg[t]]
    <3>1. ~Retired(reg[t])
      BY ZenonT(60), <2>2 DEF ReadGenAlloc, IInv, TypeOK, Cards
    <3> QED
      BY ZenonT(60), <1>0, <2>2, <3>1 DEF Due, Retired
  <2>3. CASE c[1] = reg[t] /\ ~gen_alloc[reg[t]]
    <3>1. pc'[t] = "enqueue" /\ reg'[t] = reg[t]
      BY ZenonT(60), <1>0, <2>3 DEF ReadGenAlloc, Goto, IInv, TypeOK, locals
    <3> QED
      BY ZenonT(60), <2>3, <3>1 DEF Due
  <2> QED
    BY ZenonT(60), <2>1, <2>2, <2>3
<1>10. Logged'
  <2>1. missed \subseteq missed'
    BY ZenonT(60) DEF ReadGenAlloc
  <2> QED
    BY ZenonT(60), <1>0, <2>1 DEF IInv, Logged, Alone
<1> QED
  BY ZenonT(60), <1>1, <1>2, <1>3, <1>4, <1>5, <1>6, <1>7, <1>8, <1>9, <1>10 DEF IInv

\* An allocation outside the TLAB begins.
LEMMA StartDirectStep ==
  ASSUME IInv, NEW t \in Threads, StartDirect(t)
  PROVE  IInv'
<1>0. /\ Alone(t) /\ pc[t] = "idle" /\ Heap_lock # t /\ pc'[t] = "read" /\ kind'[t] = "direct"
      /\ UNCHANGED <<free, gen, top, alloc_region, active_tlabs, tlab, gen_alloc, buffered,
                     Heap_lock, par_lock, missed, dirty, queue>>
  <2>1. pc[t] = "idle" /\ Heap_lock # t
    BY ZenonT(60) DEF StartDirect, IInv, Locks, UnderLock
  <2> QED
    BY ZenonT(60), <2>1 DEF StartDirect, Goto, IInv, TypeOK, Alone, regionVars, tlabVars, flagVars,
       lockVars, cardVars
<1>1. TypeOK'
  BY ZenonT(60) DEF IInv, TypeOK, Points, Kinds, StartDirect, Goto, regionVars, tlabVars, flagVars,
         lockVars, cardVars
<1>2. Control'
  BY ZenonT(60) DEF IInv, TypeOK, Control, InTlab, StartDirect, Goto, regionVars
<1>3. Locks'
  BY ZenonT(60), <1>0, LocksAlone
<1>4. Full'
  BY ZenonT(60) DEF IInv, TypeOK, Full, StartDirect, Goto, regionVars
<1>5. Flags'
  BY ZenonT(60) DEF IInv, TypeOK, Flags, StartDirect, Goto, regionVars, flagVars
<1>6. Tlabs'
  BY ZenonT(60), <1>0, TlabsAlone
<1>7. HeldBlocksKept'
  BY ZenonT(60), <1>0, HeldAlone
<1>8. Known'
  BY ZenonT(60) DEF IInv, TypeOK, Known, StartDirect, Goto, regionVars, cardVars
<1>9. Queued'
  BY ZenonT(60), <1>0, QueuedAlone
<1>10. Logged'
  BY ZenonT(60) DEF IInv, TypeOK, Logged, StartDirect, Goto, flagVars, cardVars
<1> QED
  BY ZenonT(60), <1>1, <1>2, <1>3, <1>4, <1>5, <1>6, <1>7, <1>8, <1>9, <1>10 DEF IInv

\* The owner of the last TLAB queues the cards of the region.
LEMMA EnqueueStep ==
  ASSUME IInv, NEW t \in Threads, enqueue_gen_cards(t)
  PROVE  IInv'
<1>0. /\ Alone(t) /\ pc[t] = "enqueue" /\ Heap_lock # t
      /\ \/ pc'[t] = "idle" /\ kind'[t] = "none"
         \/ pc'[t] = "read" /\ kind[t] = "tlab" /\ kind'[t] = "tlab"
      /\ UNCHANGED <<free, gen, top, alloc_region, active_tlabs, tlab, gen_alloc, buffered,
                     Heap_lock, par_lock, missed, dirty, refining, unrecorded>>
  <2>1. pc[t] = "enqueue" /\ pc[t] \in InTlab /\ AfterRetire(t) /\ Heap_lock # t
    BY ZenonT(60) DEF enqueue_gen_cards, InTlab, IInv, Locks, UnderLock
  <2> QED
    BY ZenonT(60), <2>1, AfterRetireStep DEF enqueue_gen_cards, regionVars, tlabVars, flagVars, lockVars
<1>1. TypeOK'
  <2>1. /\ pc' \in [Threads -> Points] /\ kind' \in [Threads -> Kinds]
        /\ reg' \in [Threads -> Regions \union {NoRegion}]
        /\ blk' \in [Threads -> 0 .. RegionBlocks]
    BY ZenonT(60), AfterRetireTypes DEF enqueue_gen_cards, IInv
  <2>2. queue' \subseteq Followed
    BY ZenonT(60) DEF enqueue_gen_cards, IInv, TypeOK, Cards
  <2> QED
    BY ZenonT(60), <2>1, <2>2
       DEF enqueue_gen_cards, IInv, TypeOK, regionVars, tlabVars, flagVars, lockVars
<1>2. Control'
  <2>1. CASE pc'[t] = "idle"
    BY ZenonT(60), <1>0, <2>1, ControlAlone DEF InTlab, InAlloc
  <2>2. CASE pc'[t] = "read"
    BY ZenonT(60), <1>0, <2>2, ControlAlone DEF InTlab
  <2> QED
    BY ZenonT(60), <1>0, <2>1, <2>2
<1>3. Locks'
  BY ZenonT(60), <1>0, LocksAlone
<1>4. Full'
  BY ZenonT(60), <1>0 DEF IInv, Full, Alone
<1>5. Flags'
  BY ZenonT(60), <1>0 DEF IInv, Flags, Alone
<1>6. Tlabs'
  BY ZenonT(60), <1>0, TlabsAlone
<1>7. HeldBlocksKept'
  BY ZenonT(60), <1>0, HeldAlone
<1>8. Known'
  BY ZenonT(60), <1>0 DEF IInv, Known, Alone
<1>9. Queued'
  <2> SUFFICES ASSUME NEW c \in dirty \ missed
               PROVE  c \in queue' \/ Due(c[1])'
    BY ZenonT(60), <1>0 DEF Queued
  <2>1. c \in Followed /\ (c \in queue \/ Due(c[1]))
    BY ZenonT(60) DEF IInv, TypeOK, Queued
  <2>2. queue \subseteq queue' /\ (c[1] = reg[t] => c \in queue')
    BY ZenonT(60), <2>1 DEF enqueue_gen_cards, Cards
  <2> QED
    BY ZenonT(60), <1>0, <2>1, <2>2, DueAlone
<1>10. Logged'
  BY ZenonT(60), <1>0 DEF IInv, Logged, Alone
<1> QED
  BY ZenonT(60), <1>1, <1>2, <1>3, <1>4, <1>5, <1>6, <1>7, <1>8, <1>9, <1>10 DEF IInv

\* The active region is read, with or without Heap_lock.
LEMMA ReadAllocRegionStep ==
  ASSUME IInv, NEW t \in Threads, ReadAllocRegion(t)
  PROVE  IInv'
<1>0. /\ Alone(t) /\ pc[t] = "read" /\ reg'[t] = alloc_region /\ kind'[t] = kind[t]
      /\ pc'[t] \in {"par", "new", "heap"}
      /\ Heap_lock = t <=> pc'[t] = "new" \/ (pc'[t] = "par" /\ Heap_lock = t)
      /\ UNCHANGED <<free, gen, top, alloc_region, active_tlabs, tlab, gen_alloc, buffered,
                     Heap_lock, par_lock, missed, dirty, queue>>
  BY ZenonT(60) DEF ReadAllocRegion, Goto, IInv, TypeOK, Alone, regionVars, tlabVars, flagVars,
     lockVars, cardVars
<1>1. TypeOK'
  BY ZenonT(60) DEF IInv, TypeOK, Points, ReadAllocRegion, Goto, regionVars, tlabVars, flagVars,
  lockVars,
         cardVars
<1>2. Control'
  BY ZenonT(60) DEF IInv, TypeOK, Control, InTlab, InAlloc, ReadAllocRegion, Goto, regionVars
<1>3. Locks'
  BY ZenonT(60), <1>0, LocksAlone DEF UnderLock
<1>4. Full'
  BY ZenonT(60) DEF IInv, TypeOK, Full, ReadAllocRegion, Goto, regionVars
<1>5. Flags'
  BY ZenonT(60) DEF IInv, TypeOK, Flags, ReadAllocRegion, Goto, regionVars, flagVars
<1>6. Tlabs'
  BY ZenonT(60), <1>0, TlabsAlone
<1>7. HeldBlocksKept'
  BY ZenonT(60), <1>0, HeldAlone
<1>8. Known'
  BY ZenonT(60) DEF IInv, TypeOK, Known, ReadAllocRegion, Goto, regionVars, cardVars
<1>9. Queued'
  BY ZenonT(60), <1>0, QueuedAlone
<1>10. Logged'
  BY ZenonT(60) DEF IInv, TypeOK, Logged, ReadAllocRegion, Goto, flagVars, cardVars
<1> QED
  BY ZenonT(60), <1>1, <1>2, <1>3, <1>4, <1>5, <1>6, <1>7, <1>8, <1>9, <1>10 DEF IInv

\* The lock of the region is taken; the region may have changed meanwhile.
LEMMA ParLockStep ==
  ASSUME IInv, NEW t \in Threads, ParLock(t)
  PROVE  IInv'
<1>0. /\ Alone(t) /\ pc[t] \in {"par", "wait"} /\ kind'[t] = kind[t] /\ pc'[t] \in {"wait", "cas"}
      /\ UNCHANGED <<free, gen, top, alloc_region, active_tlabs, tlab, gen_alloc, buffered,
                     Heap_lock, missed, dirty, queue, reg, blk>>
  BY ZenonT(60) DEF ParLock, Goto, IInv, TypeOK, Alone, regionVars, tlabVars, flagVars, cardVars,
     locals
<1>1. TypeOK'
  BY ZenonT(60) DEF IInv, TypeOK, Points, ParLock, Goto, regionVars, tlabVars, flagVars, cardVars,
  locals
<1>2. Control'
  <2>1. kind[t] \in {"tlab", "direct"} /\ reg[t] \in Regions
    BY ZenonT(60), <1>0 DEF IInv, Control, InAlloc
  <2> QED
    BY ZenonT(60), <1>0, <2>1, ControlAlone DEF InTlab
<1>3. Locks'
  <2>1. CASE par_lock[reg[t]] = NoThread
    <3>0. /\ pc[t] \in {"par", "wait"} /\ par_lock' = [par_lock EXCEPT ![reg[t]] = t] /\ Goto(t, "cas")
          /\ UNCHANGED <<reg, blk, kind, Heap_lock, alloc_region>>
      BY ZenonT(60), <2>1 DEF ParLock, locals, regionVars
    <3>1. /\ reg[t] \in Regions /\ pc'[t] = "cas" /\ Alone(t)
          /\ UNCHANGED <<reg, Heap_lock, alloc_region>>
          /\ par_lock'[reg[t]] = t /\ \A r \in Regions \ {reg[t]} : par_lock'[r] = par_lock[r]
      BY ZenonT(60), <3>0 DEF IInv, TypeOK, Control, Alone, Goto
    <3>2. \A u \in Threads \ {t} : pc[u] = "cas" => reg[u] \in Regions /\ reg[u] # reg[t]
      <4>1. \A u \in Threads : pc[u] = "cas" => reg[u] \in Regions /\ par_lock[reg[u]] = u
        BY ZenonT(60) DEF IInv, Control, Locks
      <4> QED
        BY ZenonT(60), <2>1, <4>1, ThreadAssumption
    <3>3. \A r \in Regions : par_lock[r] # t
      <4>1. ASSUME NEW r \in Regions, par_lock[r] = t
            PROVE  FALSE
        <5>1. par_lock[r] # NoThread
          BY ZenonT(60), <4>1, ThreadAssumption
        <5>2. pc[t] = "cas"
          BY ZenonT(60), <4>1, <5>1, ParLockHeld
        <5> QED
          BY ZenonT(60), <3>0, <5>2
      <4> QED
        BY ZenonT(60), <4>1
    <3>4. ASSUME NEW u \in Threads
          PROVE  /\ pc'[u] \in {"clear", "tlabs", "enqueue_mr", "new", "null"} => Heap_lock' = u
                 /\ Heap_lock' = u => pc'[u] \in UnderLock
                 /\ Heap_lock' = u /\ pc'[u] \notin {"read", "null"} => reg'[u] = alloc_region'
                 /\ pc'[u] = "cas" => par_lock'[reg'[u]] = u
      <4>1. CASE u = t
        <5>1. Heap_lock = t => reg[t] = alloc_region
          BY ZenonT(60), <3>0 DEF IInv, Locks
        <5> QED
          BY ZenonT(60), <3>1, <4>1, <5>1 DEF UnderLock
      <4>2. CASE u # t
        <5>1. pc'[u] = pc[u] /\ reg'[u] = reg[u]
          BY ZenonT(60), <3>1, <4>2 DEF Alone
        <5>2. pc[u] = "cas" => par_lock'[reg[u]] = u
          BY ZenonT(60), <3>1, <3>2, <4>2 DEF IInv, Locks
        <5> QED
          BY ZenonT(60), <3>1, <5>1, <5>2 DEF IInv, Locks
      <4> QED
        BY ZenonT(60), <4>1, <4>2
    <3>5. ASSUME NEW r \in Regions, par_lock'[r] # NoThread
          PROVE  pc'[par_lock'[r]] = "cas" /\ reg'[par_lock'[r]] = r
      <4>1. CASE r = reg[t]
        BY ZenonT(60), <3>1, <4>1
      <4>2. CASE r # reg[t]
        <5>1. par_lock'[r] = par_lock[r] /\ par_lock[r] \in Threads \ {t}
          BY ZenonT(60), <3>1, <3>3, <3>5, <4>2 DEF IInv, TypeOK
        <5>2. pc[par_lock[r]] = "cas" /\ reg[par_lock[r]] = r
          BY ZenonT(60), <3>5, <5>1 DEF IInv, Locks
        <5> QED
          BY ZenonT(60), <3>1, <5>1, <5>2 DEF Alone
      <4> QED
        BY ZenonT(60), <4>1, <4>2
    <3> QED
      BY ZenonT(60), <3>4, <3>5 DEF Locks
  <2>2. CASE par_lock[reg[t]] # NoThread
    <3>1. pc[t] = "par" /\ pc'[t] = "wait" /\ UNCHANGED par_lock
      BY ZenonT(60), <2>2 DEF ParLock, Goto, IInv, TypeOK
    <3>2. Heap_lock = t => reg[t] = alloc_region
      BY ZenonT(60), <3>1 DEF IInv, Locks
    <3> QED
      BY ZenonT(60), <1>0, <3>1, <3>2, LocksAlone DEF UnderLock
  <2> QED
    BY ZenonT(60), <2>1, <2>2
<1>4. Full'
  BY ZenonT(60) DEF IInv, TypeOK, Full, ParLock, Goto, regionVars
<1>5. Flags'
  BY ZenonT(60), <1>0 DEF IInv, Flags, Alone
<1>6. Tlabs'
  BY ZenonT(60), <1>0, TlabsAlone
<1>7. HeldBlocksKept'
  BY ZenonT(60), <1>0, HeldAlone
<1>8. Known'
  BY ZenonT(60) DEF IInv, TypeOK, Known, ParLock, Goto, regionVars, cardVars, locals
<1>9. Queued'
  BY ZenonT(60), <1>0, QueuedAlone
<1>10. Logged'
  BY ZenonT(60) DEF IInv, TypeOK, Logged, ParLock, Goto, flagVars, cardVars, locals
<1> QED
  BY ZenonT(60), <1>1, <1>2, <1>3, <1>4, <1>5, <1>6, <1>7, <1>8, <1>9, <1>10 DEF IInv

\* The second attempt is made under Heap_lock.
LEMMA LockHeapStep ==
  ASSUME IInv, NEW t \in Threads, LockHeap(t)
  PROVE  IInv'
<1>0. /\ Alone(t) /\ pc[t] = "heap" /\ pc'[t] = "read" /\ kind'[t] = kind[t] /\ Heap_lock = NoThread
      /\ Heap_lock' = t
      /\ UNCHANGED <<free, gen, top, alloc_region, active_tlabs, tlab, gen_alloc, buffered,
                     par_lock, missed, dirty, queue>>
  BY ZenonT(60) DEF LockHeap, Goto, IInv, TypeOK, Alone, regionVars, tlabVars, flagVars, cardVars
<1>1. TypeOK'
  BY ZenonT(60) DEF IInv, TypeOK, Points, LockHeap, Goto, regionVars, tlabVars, flagVars, cardVars
<1>2. Control'
  BY ZenonT(60) DEF IInv, TypeOK, Control, InTlab, InAlloc, LockHeap, Goto, regionVars
<1>3. Locks'
  <2>1. \A u \in Threads :
          /\ pc[u] \notin {"clear", "tlabs", "enqueue_mr", "new", "null"}
          /\ pc[u] = "cas" => par_lock[reg[u]] = u
    BY ZenonT(60), <1>0, ThreadAssumption DEF IInv, Locks
  <2>2. \A r \in Regions : par_lock[r] # NoThread =>
          par_lock[r] \in Threads /\ pc[par_lock[r]] = "cas" /\ reg[par_lock[r]] = r
    BY ZenonT(60), ParLockHeld
  <2>3. \A r \in Regions : par_lock'[r] # NoThread =>
          pc'[par_lock'[r]] = "cas" /\ reg'[par_lock'[r]] = r
    BY ZenonT(60), <1>0, <2>2 DEF Alone
  <2>4. ASSUME NEW u \in Threads
        PROVE  /\ pc'[u] \in {"clear", "tlabs", "enqueue_mr", "new", "null"} => Heap_lock' = u
               /\ Heap_lock' = u => pc'[u] \in UnderLock
               /\ Heap_lock' = u /\ pc'[u] \notin {"read", "null"} => reg'[u] = alloc_region'
               /\ pc'[u] = "cas" => par_lock'[reg'[u]] = u
    <3>1. CASE u = t
      BY ZenonT(60), <1>0, <3>1 DEF UnderLock
    <3>2. CASE u # t
      <4>1. pc'[u] = pc[u] /\ reg'[u] = reg[u] /\ Heap_lock' # u
        BY ZenonT(60), <1>0, <3>2 DEF Alone
      <4> QED
        BY ZenonT(60), <1>0, <2>1, <4>1
    <3> QED
      BY ZenonT(60), <3>1, <3>2
  <2> QED
    BY ZenonT(60), <2>3, <2>4 DEF Locks
<1>4. Full'
  BY ZenonT(60) DEF IInv, TypeOK, Full, LockHeap, Goto, regionVars
<1>5. Flags'
  BY ZenonT(60) DEF IInv, TypeOK, Flags, LockHeap, Goto, regionVars, flagVars
<1>6. Tlabs'
  BY ZenonT(60), <1>0, TlabsAlone
<1>7. HeldBlocksKept'
  BY ZenonT(60), <1>0, HeldAlone
<1>8. Known'
  BY ZenonT(60) DEF IInv, TypeOK, Known, LockHeap, Goto, regionVars, cardVars
<1>9. Queued'
  BY ZenonT(60), <1>0, QueuedAlone
<1>10. Logged'
  BY ZenonT(60) DEF IInv, TypeOK, Logged, LockHeap, Goto, flagVars, cardVars
<1> QED
  BY ZenonT(60), <1>1, <1>2, <1>3, <1>4, <1>5, <1>6, <1>7, <1>8, <1>9, <1>10 DEF IInv

\* The retirement clears the flag: the thread that retires is bound from here on.
LEMMA ClearGenAllocStep ==
  ASSUME IInv, NEW t \in Threads, ClearGenAlloc(t)
  PROVE  IInv'
<1>1. /\ reg[t] \in Regions /\ reg[t] = alloc_region
      /\ pc[t] = "clear" /\ Heap_lock = t /\ pc'[t] = "tlabs" /\ Alone(t)
      /\ UNCHANGED <<free, gen, top, alloc_region, active_tlabs, tlab, Heap_lock, par_lock, missed,
                     dirty, queue, reg, kind>>
      /\ \A u \in Threads \ {t} : pc[u] \notin {"tlabs", "enqueue_mr", "new"} /\ buffered[u] = NoRegion
  <2>1. reg[t] \in Regions /\ Heap_lock = t /\ reg[t] = alloc_region
    BY ZenonT(60) DEF ClearGenAlloc, IInv, Control, Locks
  <2>2. \A u \in Threads \ {t} : pc[u] \notin {"tlabs", "enqueue_mr", "new"}
    BY ZenonT(60), <2>1 DEF IInv, Locks
  <2>3. \A u \in Threads \ {t} : buffered[u] = NoRegion
    BY ZenonT(60), <2>2 DEF IInv, Flags
  <2> QED
    BY ZenonT(60), <2>1, <2>2, <2>3 DEF ClearGenAlloc, IInv, TypeOK, Alone, Goto, locals, regionVars,
       tlabVars, lockVars, cardVars
<1>2. /\ gen_alloc' \in [Regions -> BOOLEAN] /\ buffered' \in [Threads -> Regions \union {NoRegion}]
      /\ \/ ~gen_alloc'[reg[t]] /\ UNCHANGED buffered
         \/ buffered'[t] = reg[t] /\ UNCHANGED gen_alloc
      /\ \A r \in Regions \ {reg[t]} : gen_alloc'[r] = gen_alloc[r]
      /\ \A u \in Threads \ {t} : buffered'[u] = buffered[u]
  BY ZenonT(60), <1>1 DEF ClearGenAlloc, IInv, TypeOK
<1>3. TypeOK'
  BY ZenonT(60), BlocksAssumption DEF IInv, TypeOK, Points, Kinds, Cards, NoCard, ClearGenAlloc, Goto,
     regionVars, tlabVars, flagVars, lockVars, cardVars, locals
<1>4. Control'
  BY ZenonT(60) DEF IInv, TypeOK, Control, InTlab, InAlloc, ClearGenAlloc, Goto, regionVars, locals
<1>5. Locks'
  BY ZenonT(60), <1>1, LocksAlone DEF UnderLock
<1>6. Full'
  BY ZenonT(60) DEF IInv, Full, ClearGenAlloc, regionVars
<1>7. Flags'
  BY ZenonT(60), <1>1, <1>2 DEF IInv, Flags, Alone
<1>8. Tlabs'
  BY ZenonT(60), <1>1, TlabsAlone
<1>9. HeldBlocksKept'
  BY ZenonT(60), <1>1, HeldAlone
<1>10. Known'
  BY ZenonT(60) DEF IInv, TypeOK, Known, ClearGenAlloc, Goto, regionVars, cardVars, locals
<1>11. Queued'
  <2> SUFFICES ASSUME NEW c \in dirty \ missed, Due(c[1])
               PROVE  Due(c[1])'
    BY ZenonT(60) DEF ClearGenAlloc, IInv, Queued, cardVars
  <2>1. CASE c[1] = reg[t]
    BY ZenonT(60), <1>1, <2>1 DEF Due
  <2>2. CASE c[1] # reg[t]
    <3>1. c[1] \in Regions
      BY ZenonT(60), CardFacts DEF IInv, TypeOK
    <3>2. Retired(c[1])' => Retired(c[1])
      BY ZenonT(60), <1>2, <2>2, <3>1 DEF Retired
    <3> QED
      BY ZenonT(60), <1>1, <3>2 DEF ClearGenAlloc, Due, Alone, tlabVars
  <2> QED
    BY ZenonT(60), <2>1, <2>2
<1>12. Logged'
  BY ZenonT(60) DEF IInv, TypeOK, Logged, ClearGenAlloc, Goto, cardVars, locals
<1> QED
  BY ZenonT(60), <1>3, <1>4, <1>5, <1>6, <1>7, <1>8, <1>9, <1>10, <1>11, <1>12 DEF IInv

\* The cleared flag leaves the store buffer.
LEMMA DrainStep ==
  ASSUME IInv, NEW t \in Threads, Drain(t)
  PROVE  IInv'
<1>1. TypeOK'
  BY ZenonT(60) DEF IInv, TypeOK, Drain, regionVars, tlabVars, lockVars, cardVars, locals
<1>2. Control'
  BY ZenonT(60) DEF IInv, Control, Drain, regionVars, locals
<1>3. Locks'
  BY ZenonT(60) DEF IInv, Locks, Drain, regionVars, lockVars, locals
<1>4. Full'
  BY ZenonT(60) DEF IInv, Full, Drain, regionVars
<1>5. Flags'
  BY ZenonT(60) DEF IInv, TypeOK, Flags, Drain, regionVars
<1>6. Tlabs'
  BY ZenonT(60) DEF IInv, TypeOK, Tlabs, Owners, Drain, tlabVars, locals
<1>7. HeldBlocksKept'
  <2>1. UNCHANGED <<free, gen, top, tlab, pc, reg, blk>>
    BY ZenonT(60) DEF Drain, regionVars, tlabVars, locals
  <2> QED
    BY ZenonT(60), <2>1, HeldFrame DEF HoldsBlock
<1>8. Known'
  BY ZenonT(60) DEF IInv, Known, Drain, regionVars, cardVars, locals
<1>9. Queued'
  <2> SUFFICES ASSUME NEW c \in dirty \ missed, Due(c[1])
               PROVE  Due(c[1])'
    BY ZenonT(60) DEF Drain, IInv, Queued, cardVars
  <2>1. c[1] \in Regions /\ buffered[t] \in Regions
    BY ZenonT(60), FollowedAssumption DEF Drain, IInv, TypeOK
  <2>2. Retired(c[1])' => Retired(c[1])
    <3>1. /\ gen_alloc'[c[1]] = IF c[1] = buffered[t] THEN FALSE ELSE gen_alloc[c[1]]
          /\ \A u \in Threads : buffered'[u] = IF u = t THEN NoRegion ELSE buffered[u]
      BY ZenonT(60), <2>1 DEF Drain, IInv, TypeOK
    <3> QED
      BY ZenonT(60), <2>1, <3>1, RegionAssumption DEF Retired
  <2> QED
    BY ZenonT(60), <2>2 DEF Drain, Due, tlabVars, locals
<1>10. Logged'
  BY ZenonT(60) DEF IInv, Logged, Drain, cardVars, locals
<1> QED
  BY ZenonT(60), <1>1, <1>2, <1>3, <1>4, <1>5, <1>6, <1>7, <1>8, <1>9, <1>10 DEF IInv

\* The retiring thread finds a TLAB, which is bound then, or queues the cards.
LEMMA ReadTlabsStep ==
  ASSUME IInv, NEW t \in Threads, ReadTlabsOfRetired(t)
  PROVE  IInv'
<1>0. /\ Alone(t) /\ pc[t] = "tlabs" /\ pc'[t] \in {"enqueue_mr", "new"} /\ Heap_lock = t
      /\ reg[t] = alloc_region /\ kind'[t] = kind[t]
      /\ UNCHANGED <<free, gen, top, alloc_region, active_tlabs, tlab, gen_alloc, buffered,
                     Heap_lock, par_lock, missed, dirty, queue, reg>>
  <2>1. pc[t] = "tlabs" /\ Heap_lock = t /\ reg[t] = alloc_region
    BY ZenonT(60) DEF ReadTlabsOfRetired, IInv, Locks
  <2> QED
    BY ZenonT(60), <2>1 DEF ReadTlabsOfRetired, Goto, IInv, TypeOK, Alone, regionVars, tlabVars,
       flagVars, lockVars, cardVars, locals
<1>1. TypeOK'
  BY ZenonT(60) DEF IInv, TypeOK, Points, ReadTlabsOfRetired, Goto, regionVars, tlabVars, flagVars,
         lockVars, cardVars, locals
<1>2. Control'
  BY ZenonT(60) DEF IInv, TypeOK, Control, InTlab, InAlloc, ReadTlabsOfRetired, Goto, regionVars, locals
<1>3. Locks'
  BY ZenonT(60), <1>0, LocksAlone DEF UnderLock
<1>4. Full'
  BY ZenonT(60) DEF IInv, Full, ReadTlabsOfRetired, regionVars
<1>5. Flags'
  BY ZenonT(60) DEF IInv, TypeOK, Flags, ReadTlabsOfRetired, Goto, regionVars, flagVars
<1>6. Tlabs'
  BY ZenonT(60), <1>0, TlabsAlone
<1>7. HeldBlocksKept'
  BY ZenonT(60), <1>0, HeldAlone
<1>8. Known'
  BY ZenonT(60) DEF IInv, TypeOK, Known, ReadTlabsOfRetired, Goto, regionVars, cardVars, locals
<1>9. Queued'
  <2> SUFFICES ASSUME NEW c \in dirty \ missed, Due(c[1])
               PROVE  Due(c[1])'
    BY ZenonT(60) DEF ReadTlabsOfRetired, IInv, Queued, flagVars, cardVars
  <2>1. \/ active_tlabs[reg[t]] > 0
        \/ pc'[t] = "enqueue_mr" /\ reg'[t] = reg[t]
    <3>1. reg[t] \in Regions /\ gen[reg[t]] # 0
      <4>1. reg[t] \in Regions
        BY ZenonT(60) DEF ReadTlabsOfRetired, IInv, Control
      <4>2. gen[reg[t]] \in {-1, Gen}
        BY ZenonT(60), <4>1 DEF IInv, TypeOK
      <4> QED
        BY <4>1, <4>2 DEF Gen
    <3>2. active_tlabs[reg[t]] \in Nat
      BY <3>1 DEF IInv, TypeOK
    <3> QED
      BY <3>1 DEF ReadTlabsOfRetired, IInv, TypeOK, Goto, locals
  <2>2. c[1] = reg[t] => Due(c[1])'
    BY ZenonT(60), <1>0, <2>1 DEF Due
  <2> QED
    BY ZenonT(60), <1>0, <2>2, DueAlone
<1>10. Logged'
  BY ZenonT(60) DEF IInv, TypeOK, Logged, ReadTlabsOfRetired, Goto, flagVars, cardVars, locals
<1> QED
  BY ZenonT(60), <1>1, <1>2, <1>3, <1>4, <1>5, <1>6, <1>7, <1>8, <1>9, <1>10 DEF IInv

\* The retiring thread queues the cards.
LEMMA EnqueueRetiredStep ==
  ASSUME IInv, NEW t \in Threads, EnqueueRetired(t)
  PROVE  IInv'
<1>0. /\ Alone(t) /\ pc[t] = "enqueue_mr" /\ pc'[t] = "new" /\ Heap_lock = t
      /\ reg[t] = alloc_region /\ kind'[t] = kind[t]
      /\ UNCHANGED <<free, gen, top, alloc_region, active_tlabs, tlab, gen_alloc, buffered,
                     Heap_lock, par_lock, reg>>
  <2>1. pc[t] = "enqueue_mr" /\ Heap_lock = t /\ reg[t] = alloc_region
    BY ZenonT(60) DEF EnqueueRetired, IInv, Locks
  <2> QED
    BY ZenonT(60), <2>1 DEF EnqueueRetired, Goto, IInv, TypeOK, Alone, regionVars, tlabVars,
       flagVars, lockVars, locals
<1>1. TypeOK'
  BY ZenonT(60) DEF IInv, TypeOK, Points, Cards, EnqueueRetired, Goto, regionVars, tlabVars, flagVars,
         lockVars, locals
<1>2. Control'
  BY ZenonT(60) DEF IInv, TypeOK, Control, InTlab, InAlloc, EnqueueRetired, Goto, regionVars, locals
<1>3. Locks'
  BY ZenonT(60), <1>0, LocksAlone DEF UnderLock
<1>4. Full'
  BY ZenonT(60) DEF IInv, Full, EnqueueRetired, regionVars
<1>5. Flags'
  BY ZenonT(60) DEF IInv, TypeOK, Flags, EnqueueRetired, Goto, regionVars, flagVars
<1>6. Tlabs'
  BY ZenonT(60), <1>0, TlabsAlone
<1>7. HeldBlocksKept'
  BY ZenonT(60), <1>0, HeldAlone
<1>8. Known'
  BY ZenonT(60) DEF IInv, TypeOK, Known, EnqueueRetired, Goto, regionVars, locals
<1>9. Queued'
  <2>1. queue' = queue \union Cards(reg[t]) /\ UNCHANGED <<dirty, missed>> /\ dirty \subseteq Followed
    BY ZenonT(60) DEF EnqueueRetired, flagVars, IInv, TypeOK
  <2> SUFFICES ASSUME NEW c \in dirty \ missed
               PROVE  c \in queue' \/ Due(c[1])'
    BY ZenonT(60), <2>1 DEF Queued
  <2>2. c \in queue \/ Due(c[1])
    BY ZenonT(60) DEF IInv, Queued
  <2>3. CASE reg[t] = c[1]
    BY ZenonT(60), <2>1, <2>3 DEF Cards
  <2>4. CASE reg[t] # c[1] /\ Due(c[1])
    BY ZenonT(60), <1>0, <2>4, DueAlone
  <2> QED
    BY ZenonT(60), <2>1, <2>2, <2>3, <2>4
<1>10. Logged'
  BY ZenonT(60) DEF IInv, TypeOK, Logged, EnqueueRetired, Goto, flagVars, locals
<1> QED
  BY ZenonT(60), <1>1, <1>2, <1>3, <1>4, <1>5, <1>6, <1>7, <1>8, <1>9, <1>10 DEF IInv

\* An object outside TLABs has been set up.
LEMMA InitObjectStep ==
  ASSUME IInv, NEW t \in Threads, InitObject(t)
  PROVE  IInv'
<1>0. /\ Alone(t) /\ pc[t] = "init" /\ pc'[t] = "idle" /\ kind'[t] = "none" /\ Heap_lock # t
      /\ UNCHANGED <<free, gen, top, alloc_region, active_tlabs, tlab, gen_alloc, buffered,
                     Heap_lock, par_lock, missed, dirty, queue>>
  <2>1. pc[t] = "init" /\ Heap_lock # t
    BY ZenonT(60) DEF InitObject, IInv, Locks, UnderLock
  <2> QED
    BY ZenonT(60), <2>1 DEF InitObject, Return, Goto, IInv, TypeOK, Alone, regionVars, tlabVars,
       flagVars, lockVars, cardVars
<1>1. TypeOK'
  BY BlocksAssumption DEF IInv, TypeOK, Points, Kinds, InitObject, Return, Goto, regionVars,
     tlabVars, flagVars, lockVars, cardVars
<1>2. Control'
  BY ZenonT(60) DEF IInv, TypeOK, Control, InTlab, InAlloc, InitObject, Return, Goto, regionVars
<1>3. Locks'
  BY ZenonT(60), <1>0, LocksAlone
<1>4. Full'
  BY ZenonT(60) DEF IInv, TypeOK, Full, InitObject, Return, Goto, regionVars
<1>5. Flags'
  BY ZenonT(60) DEF IInv, TypeOK, Flags, InitObject, Return, Goto, regionVars, flagVars
<1>6. Tlabs'
  BY ZenonT(60), <1>0, TlabsAlone
<1>7. HeldBlocksKept'
  BY ZenonT(60), <1>0, HeldAlone
<1>8. Known'
  BY ZenonT(60) DEF IInv, TypeOK, Known, InitObject, Return, Goto, regionVars, cardVars
<1>9. Queued'
  BY ZenonT(60), <1>0, QueuedAlone
<1>10. Logged'
  BY ZenonT(60) DEF IInv, TypeOK, Logged, InitObject, Return, Goto, flagVars, cardVars
<1> QED
  BY ZenonT(60), <1>1, <1>2, <1>3, <1>4, <1>5, <1>6, <1>7, <1>8, <1>9, <1>10 DEF IInv

\* A reference is stored; the barrier is to come.
LEMMA StoreStep ==
  ASSUME IInv, NEW t \in Threads, NEW c \in Followed, Store(t, c)
  PROVE  IInv'
<1>0. /\ Alone(t) /\ pc[t] = "idle" /\ pc'[t] = "post" /\ kind'[t] = kind[t] /\ Heap_lock # t
      /\ UNCHANGED <<free, gen, top, alloc_region, active_tlabs, tlab, gen_alloc, buffered,
                     Heap_lock, par_lock, missed, dirty, queue>>
  <2>1. pc[t] = "idle" /\ Heap_lock # t
    BY ZenonT(60) DEF Store, IInv, Locks, UnderLock
  <2> QED
    BY ZenonT(60), <2>1 DEF Store, Goto, IInv, TypeOK, Alone, regionVars, tlabVars, flagVars, lockVars
<1>1. c[1] \in Regions /\ c[2] \in Blocks /\ c[2] \in 0 .. RegionBlocks /\ c = <<c[1], c[2]>>
  BY ZenonT(60), CardFacts
<1>2. TypeOK'
  BY ZenonT(60), <1>1 DEF IInv, TypeOK, Points, Store, Goto, regionVars, tlabVars, flagVars, lockVars
<1>3. Control'
  BY ZenonT(60), <1>1 DEF IInv, TypeOK, Control, InTlab, InAlloc, Store, Goto, regionVars
<1>4. Locks'
  BY ZenonT(60), <1>0, LocksAlone
<1>5. Full'
  BY ZenonT(60) DEF IInv, TypeOK, Full, Store, Goto, regionVars
<1>6. Flags'
  BY ZenonT(60) DEF IInv, TypeOK, Flags, Store, Goto, regionVars, flagVars
<1>7. Tlabs'
  BY ZenonT(60), <1>0, TlabsAlone
<1>8. HeldBlocksKept'
  BY ZenonT(60), <1>0, HeldAlone
<1>9. Known'
  BY ZenonT(60) DEF IInv, TypeOK, Known, Store, Goto, regionVars
<1>10. Queued'
  BY ZenonT(60), <1>0, QueuedAlone
<1>11. Logged'
  BY ZenonT(60), <1>1 DEF IInv, TypeOK, Logged, Store, Goto, flagVars
<1> QED
  BY ZenonT(60), <1>2, <1>3, <1>4, <1>5, <1>6, <1>7, <1>8, <1>9, <1>10, <1>11 DEF IInv

\* The barrier: a card that is dirty already is queued, or will be.
LEMMA BarrierStep ==
  ASSUME IInv, NEW t \in Threads, write_ref_field_work(t)
  PROVE  IInv'
<1>0. /\ Alone(t) /\ pc[t] = "post" /\ pc'[t] = "idle" /\ kind'[t] = "none" /\ Heap_lock # t
      /\ UNCHANGED <<free, gen, top, alloc_region, active_tlabs, tlab, gen_alloc, buffered,
                     Heap_lock, par_lock, missed, refining, unrecorded>>
      /\ dirty' = dirty \union {<<reg[t], blk[t]>>}
  <2>1. pc[t] = "post" /\ Heap_lock # t
    BY ZenonT(60) DEF write_ref_field_work, IInv, Locks, UnderLock
  <2> QED
    BY ZenonT(60), <2>1 DEF write_ref_field_work, Return, Goto, IInv, TypeOK, Alone, regionVars,
       tlabVars, flagVars, lockVars
<1>1. <<reg[t], blk[t]>> \in Followed
  BY ZenonT(60) DEF write_ref_field_work, IInv, Control
<1>2. TypeOK'
  <2>1. dirty' \subseteq Followed /\ queue' \subseteq Followed
    BY ZenonT(60), <1>1 DEF write_ref_field_work, IInv, TypeOK
  <2>2. /\ pc' \in [Threads -> Points] /\ reg' \in [Threads -> Regions \union {NoRegion}]
        /\ blk' \in [Threads -> 0 .. RegionBlocks] /\ kind' \in [Threads -> Kinds]
    BY BlocksAssumption DEF write_ref_field_work, Return, Goto, IInv, TypeOK, Points, Kinds
  <2> QED
    BY ZenonT(60), <2>1, <2>2
       DEF write_ref_field_work, IInv, TypeOK, regionVars, tlabVars, flagVars, lockVars
<1>3. Control'
  BY ZenonT(60) DEF IInv, TypeOK, Control, InTlab, InAlloc, write_ref_field_work, Return, Goto,
  regionVars
<1>4. Locks'
  BY ZenonT(60), <1>0, LocksAlone
<1>5. Full'
  BY ZenonT(60) DEF IInv, TypeOK, Full, write_ref_field_work, Return, Goto, regionVars
<1>6. Flags'
  BY ZenonT(60) DEF IInv, TypeOK, Flags, write_ref_field_work, Return, Goto, regionVars, flagVars
<1>7. Tlabs'
  BY ZenonT(60), <1>0, TlabsAlone
<1>8. HeldBlocksKept'
  BY ZenonT(60), <1>0, HeldAlone
<1>9. Known'
  <2>1. gen[reg[t]] = Gen /\ blk[t] <= top[reg[t]]
    BY ZenonT(60), <1>0 DEF IInv, Known
  <2>2. \A c \in dirty' \union unrecorded' : gen[c[1]] = Gen /\ c[2] <= top[c[1]]
    <3> SUFFICES ASSUME NEW c \in dirty' \union unrecorded'
                 PROVE  gen[c[1]] = Gen /\ c[2] <= top[c[1]]
      BY ZenonT(60)
    <3>1. CASE c \in dirty \union unrecorded
      BY ZenonT(60), <3>1 DEF IInv, Known
    <3>2. CASE c = <<reg[t], blk[t]>>
      <4>1. c[1] = reg[t] /\ c[2] = blk[t]
        BY ZenonT(60), <3>2
      <4> QED
        BY ZenonT(60), <2>1, <4>1
    <3> QED
      BY ZenonT(60), <1>0, <3>1, <3>2
  <2> QED
    BY ZenonT(60), <1>0, <2>2 DEF IInv, Known, Alone
<1>10. Queued'
  <2>1. Alone(t) /\ pc[t] = "post"
    BY ZenonT(60) DEF write_ref_field_work, Return, Goto, IInv, TypeOK, Alone
  <2>2. \A r : Due(r) => Due(r)'
    BY ZenonT(60), <2>1 DEF write_ref_field_work, Due, Retired, Alone, tlabVars, flagVars
  <2>3. /\ dirty' = dirty \union {<<reg[t], blk[t]>>} /\ queue \subseteq queue'
        /\ <<reg[t], blk[t]>> \in dirty \/ <<reg[t], blk[t]>> \in queue'
        /\ missed' = missed
    BY ZenonT(60) DEF write_ref_field_work, flagVars
  <2> QED
    BY ZenonT(60), <2>2, <2>3 DEF IInv, Queued
<1>11. Logged'
  BY ZenonT(60) DEF IInv, TypeOK, Logged, write_ref_field_work, Return, Goto, flagVars
<1> QED
  BY ZenonT(60), <1>2, <1>3, <1>4, <1>5, <1>6, <1>7, <1>8, <1>9, <1>10, <1>11 DEF IInv

\* The card of a new block is dirtied while somebody is bound to queue it; a block
\* outside TLABs in a retired region is the other way cards come to be missed.
LEMMA MarkStep ==
  ASSUME IInv, NEW t \in Threads, g1_mark_as_dirty(t)
  PROVE  IInv'
<1>0. /\ Alone(t) /\ pc[t] = "mark" /\ pc'[t] \in {"register", "init"} /\ Heap_lock # t
      /\ UNCHANGED <<free, gen, top, alloc_region, active_tlabs, tlab, gen_alloc, buffered,
                     Heap_lock, par_lock, refining, unrecorded, reg, blk, kind>>
      /\ dirty' \subseteq dirty \union {<<reg[t], blk[t]>>}
  <2>1. pc[t] = "mark" /\ Heap_lock # t
    BY ZenonT(60) DEF g1_mark_as_dirty, IInv, Locks, UnderLock
  <2> QED
    BY ZenonT(60), <2>1 DEF g1_mark_as_dirty, Goto, IInv, TypeOK, Alone, regionVars, tlabVars,
       lockVars, locals
<1>1. TypeOK'
  BY ZenonT(60) DEF IInv, TypeOK, Points, g1_mark_as_dirty, Goto, regionVars, tlabVars, lockVars, locals
<1>2. Control'
  BY ZenonT(60) DEF IInv, TypeOK, Control, InTlab, InAlloc, g1_mark_as_dirty, Goto, regionVars, locals
<1>3. Locks'
  BY ZenonT(60), <1>0, LocksAlone
<1>4. Full'
  BY ZenonT(60) DEF IInv, TypeOK, Full, g1_mark_as_dirty, Goto, regionVars
<1>5. Flags'
  BY ZenonT(60) DEF IInv, TypeOK, Flags, g1_mark_as_dirty, Goto, regionVars
<1>6. Tlabs'
  BY ZenonT(60), <1>0, TlabsAlone
<1>7. HeldBlocksKept'
  BY ZenonT(60), <1>0, HeldAlone
<1>8. Known'
  <2>1. gen[reg[t]] = Gen /\ blk[t] <= top[reg[t]]
    BY ZenonT(60), <1>0, HeldRegions
  <2>2. ASSUME NEW c \in dirty' \union unrecorded'
        PROVE  gen[c[1]] = Gen /\ c[2] <= top[c[1]]
    <3>1. CASE c \in dirty \union unrecorded
      BY ZenonT(60), <3>1 DEF IInv, Known
    <3>2. CASE c = <<reg[t], blk[t]>>
      <4>1. c[1] = reg[t] /\ c[2] = blk[t]
        BY ZenonT(60), <3>2
      <4> QED
        BY ZenonT(60), <2>1, <4>1
    <3> QED
      BY ZenonT(60), <1>0, <3>1, <3>2
  <2> QED
    BY ZenonT(60), <1>0, <2>2 DEF IInv, Known, Alone
<1>9. Queued'
  <2> SUFFICES ASSUME NEW c \in dirty' \ missed'
               PROVE  c \in queue \/ Due(c[1])'
    BY ZenonT(60) DEF g1_mark_as_dirty, Queued
  <2>1. /\ Alone(t) /\ UNCHANGED <<reg, kind, active_tlabs, gen_alloc, buffered>>
        /\ pc'[t] = IF kind[t] = "tlab" THEN "register" ELSE "init"
    BY ZenonT(60) DEF g1_mark_as_dirty, IInv, TypeOK, Alone, Goto, locals, tlabVars
  <2>2. CASE c \in dirty \ missed
    <3>1. c \in queue \/ Due(c[1])
      BY ZenonT(60), <2>2 DEF IInv, Queued
    <3>2. ~Retired(c[1]) => ~Retired(c[1])'
      BY ZenonT(60), <2>1 DEF Retired
    <3>3. ASSUME NEW u \in Threads, reg[u] = c[1],
                 \/ pc[u] \in {"count", "flag", "enqueue", "register", "tlabs", "enqueue_mr"}
                 \/ pc[u] = "mark" /\ kind[u] = "tlab"
          PROVE  Due(c[1])'
      BY ZenonT(60), <2>1, <3>3 DEF g1_mark_as_dirty, Due, Alone
    <3> QED
      BY ZenonT(60), <2>1, <3>1, <3>2, <3>3 DEF Due
  <2>3. CASE c \notin dirty \ missed
    <3>1. c = <<reg[t], blk[t]>> /\ (kind[t] = "tlab" \/ ~Retired(reg[t]))
      BY ZenonT(60), <2>3 DEF g1_mark_as_dirty, IInv, Control, InAlloc
    <3> QED
      BY ZenonT(60), <2>1, <3>1 DEF Due, Retired
  <2> QED
    BY ZenonT(60), <2>2, <2>3
<1>10. Logged'
  BY ZenonT(60) DEF IInv, TypeOK, Logged, g1_mark_as_dirty, Goto, locals
<1> QED
  BY ZenonT(60), <1>1, <1>2, <1>3, <1>4, <1>5, <1>6, <1>7, <1>8, <1>9, <1>10 DEF IInv

\* A refinement thread cleans a card before it scans it.
LEMMA RefineStep ==
  ASSUME IInv, NEW c \in queue, refine_card(c)
  PROVE  IInv'
<1>1. /\ queue' = queue \ {c} /\ refining = NoCard
      /\ c \in dirty => dirty' = dirty \ {c} /\ refining' = c
      /\ c \notin dirty => dirty' = dirty /\ refining' = refining
      /\ UNCHANGED <<free, gen, top, tlab, missed, unrecorded, gen_alloc, buffered, active_tlabs,
                     pc, reg, blk, kind>>
  BY ZenonT(60) DEF refine_card, IInv, Known, regionVars, flagVars, tlabVars, locals
<1>2. TypeOK'
  BY ZenonT(60) DEF IInv, TypeOK, refine_card, regionVars, tlabVars, flagVars, lockVars, locals
<1>3. Control'
  BY ZenonT(60) DEF IInv, Control, refine_card, regionVars, locals
<1>4. Locks'
  BY ZenonT(60) DEF IInv, Locks, refine_card, regionVars, lockVars, locals
<1>5. Full'
  BY ZenonT(60) DEF IInv, Full, refine_card, regionVars
<1>6. Flags'
  BY ZenonT(60) DEF IInv, Flags, refine_card, regionVars, flagVars
<1>7. Tlabs'
  BY ZenonT(60) DEF IInv, Tlabs, Owners, NoCard, refine_card, tlabVars, locals
<1>8. HeldBlocksKept'
  BY ZenonT(60), <1>1, HeldFrame DEF HoldsBlock
<1>9. Known'
  BY ZenonT(60) DEF IInv, Known, refine_card, regionVars, locals
<1>10. Queued'
  <2>1. \A r : Due(r) => Due(r)'
    BY ZenonT(60), <1>1 DEF Due, Retired
  <2>2. ASSUME NEW q \in dirty' \ missed'
        PROVE  q \in dirty \ missed /\ q # c
    <3>1. CASE c \in dirty
      BY ZenonT(60), <1>1, <3>1
    <3>2. CASE c \notin dirty
      BY <1>1, <3>2
    <3> QED
      BY ZenonT(60), <3>1, <3>2
  <2> QED
    BY ZenonT(60), <1>1, <2>1, <2>2 DEF IInv, Queued
<1>11. Logged'
  <2>1. \A q \in Followed : q # NoCard
    BY ZenonT(60), NoCardApart
  <2> QED
    BY ZenonT(60), <1>1, <2>1 DEF IInv, TypeOK, Logged
<1> QED
  BY ZenonT(60), <1>2, <1>3, <1>4, <1>5, <1>6, <1>7, <1>8, <1>9, <1>10, <1>11 DEF IInv

\* The scan enters the references in the remembered sets.
LEMMA ScanStep ==
  ASSUME IInv, ScanCard
  PROVE  IInv'
<1>1. TypeOK'
  BY ZenonT(60) DEF IInv, TypeOK, ScanCard, regionVars, tlabVars, flagVars, lockVars, locals
<1>2. Control'
  BY ZenonT(60) DEF IInv, Control, ScanCard, regionVars, locals
<1>3. Locks'
  BY ZenonT(60) DEF IInv, Locks, ScanCard, regionVars, lockVars, locals
<1>4. Full'
  BY ZenonT(60) DEF IInv, Full, ScanCard, regionVars
<1>5. Flags'
  BY ZenonT(60) DEF IInv, Flags, ScanCard, regionVars, flagVars
<1>6. Tlabs'
  BY ZenonT(60), RegionAssumption DEF IInv, Tlabs, Owners, ScanCard, tlabVars, locals
<1>7. HeldBlocksKept'
  <2>1. UNCHANGED <<free, gen, top, tlab, pc, reg, blk>>
    BY ZenonT(60) DEF ScanCard, regionVars, tlabVars, locals
  <2> QED
    BY ZenonT(60), <2>1, HeldFrame DEF HoldsBlock
<1>8. Known'
  BY ZenonT(60) DEF IInv, Known, ScanCard, regionVars, locals
<1>9. Queued'
  <2>1. UNCHANGED <<gen_alloc, buffered, active_tlabs, missed, pc, reg, kind>>
    BY ZenonT(60) DEF ScanCard, tlabVars, flagVars, locals
  <2>2. \A r : Due(r) => Due(r)'
    BY ZenonT(60), <2>1 DEF Due, Retired
  <2>3. queue \subseteq queue' /\ \A c \in dirty' : c \in dirty \/ c \in queue'
    BY ZenonT(60) DEF ScanCard
  <2> QED
    BY ZenonT(60), <2>1, <2>2, <2>3 DEF IInv, Queued
<1>10. Logged'
  BY ZenonT(60) DEF IInv, Logged, ScanCard, flagVars, locals
<1> QED
  BY ZenonT(60), <1>1, <1>2, <1>3, <1>4, <1>5, <1>6, <1>7, <1>8, <1>9, <1>10 DEF IInv

\* The count of TLABs goes down, and its owner stays bound.
LEMMA DecStep ==
  ASSUME ThreadCounts, IInv, NEW t \in Threads, DecActiveTlabs(t)
  PROVE  IInv'
<1>0. /\ pc[t] = "dec" /\ Heap_lock # t /\ tlab'[t] = NoCard
      /\ \A u \in Threads \ {t} : tlab'[u] = tlab[u]
      /\ UNCHANGED <<free, gen, top, alloc_region, gen_alloc, buffered, Heap_lock, par_lock>>
  <2>1. pc[t] = "dec" /\ Heap_lock # t
    BY ZenonT(60) DEF DecActiveTlabs, IInv, Locks, UnderLock
  <2> QED
    BY ZenonT(60), <2>1 DEF DecActiveTlabs, IInv, TypeOK, regionVars, flagVars, lockVars
<1>1. /\ reg[t] \in Regions /\ reg[t] # NoRegion /\ tlab[t][1] = reg[t] /\ Alone(t)
      /\ pc'[t] = "count" /\ UNCHANGED <<reg, blk, kind>>
  BY RegionAssumption DEF DecActiveTlabs, IInv, TypeOK, Tlabs, Alone, Goto, locals
<1>2. \A r \in Regions : Owners(r)' = IF r = reg[t] THEN Owners(r) \ {t} ELSE Owners(r)
  BY ZenonT(60), <1>1, RegionAssumption DEF DecActiveTlabs, IInv, TypeOK, Owners, NoCard
<1>3. \A r \in Regions : active_tlabs'[r] = Cardinality(Owners(r)')
  <2> SUFFICES ASSUME NEW r \in Regions PROVE active_tlabs'[r] = Cardinality(Owners(r)')
    BY ZenonT(60)
  <2>1. active_tlabs[r] = Cardinality(Owners(r)) /\ Owners(r) \in SUBSET Threads
    BY ZenonT(60) DEF IInv, Tlabs, Owners
  <2>2. t \in Owners(reg[t])
    BY ZenonT(60), <1>1 DEF Owners
  <2>3. t \in Owners(r) => Cardinality(Owners(r) \ {t}) = Cardinality(Owners(r)) - 1
    BY ZenonT(60), <2>1 DEF ThreadCounts
  <2> QED
    BY ZenonT(60), <1>1, <1>2, <2>1, <2>2, <2>3 DEF DecActiveTlabs, IInv, TypeOK
<1>4. TypeOK'
  <2>1. active_tlabs' \in [Regions -> 0 .. Cardinality(Threads)]
    <3>1. \A r \in Regions : Cardinality(Owners(r)') \in 0 .. Cardinality(Threads)
      <4>1. \A r \in Regions : Owners(r)' \subseteq Threads
        BY ZenonT(60) DEF Owners
      <4> QED
        BY ZenonT(60), <4>1 DEF ThreadCounts
    <3>2. active_tlabs' = [r \in Regions |-> active_tlabs'[r]]
      BY ZenonT(60) DEF DecActiveTlabs, IInv, TypeOK
    <3> QED
      BY ZenonT(60), <1>3, <3>1, <3>2
  <2> QED
    BY ZenonT(60), <2>1 DEF DecActiveTlabs, Goto, IInv, TypeOK, Points, regionVars, flagVars, lockVars,
       cardVars, locals
<1>5. Control'
  BY ZenonT(60) DEF IInv, TypeOK, Control, InTlab, InAlloc, DecActiveTlabs, Goto, regionVars, locals
<1>6. Locks'
  BY ZenonT(60), <1>0, <1>1, LocksAlone
<1>7. Full'
  BY ZenonT(60) DEF IInv, TypeOK, Full, DecActiveTlabs, Goto, regionVars
<1>8. Flags'
  BY ZenonT(60) DEF IInv, TypeOK, Flags, DecActiveTlabs, Goto, regionVars, flagVars
<1>9. Tlabs'
  <2>1. ASSUME NEW u \in Threads
        PROVE  /\ pc'[u] = "dec" => tlab'[u] # NoCard /\ tlab'[u][1] = reg'[u]
               /\ kind'[u] = "tlab" /\ pc'[u] # "dec" => tlab'[u] = NoCard
    BY ZenonT(60), <1>0, <1>1 DEF IInv, Tlabs, Alone
  <2> QED
    BY ZenonT(60), <1>3, <2>1 DEF Tlabs
<1>10. HeldBlocksKept'
  <2>1. ASSUME NEW u \in Threads, NEW c \in Regions \X Blocks, HoldsBlock(u, c)'
        PROVE  HoldsBlock(u, c)
    BY ZenonT(60), <1>0, <1>1, <2>1, NoCardApart DEF HoldsBlock, Alone
  <2> QED
    BY ZenonT(60), <1>0, <2>1, HeldFrame
<1>11. Known'
  BY ZenonT(60) DEF IInv, TypeOK, Known, DecActiveTlabs, Goto, regionVars, cardVars, locals
<1>12. Queued'
  <2> SUFFICES ASSUME NEW c \in dirty \ missed, Due(c[1])
               PROVE  Due(c[1])'
    BY ZenonT(60) DEF DecActiveTlabs, IInv, Queued, flagVars, cardVars
  <2>1. CASE c[1] = reg[t]
    BY ZenonT(60), <1>1, <2>1 DEF Due
  <2>2. CASE c[1] # reg[t]
    <3>1. active_tlabs'[c[1]] = active_tlabs[c[1]]
      <4>1. c[1] \in Regions
        BY ZenonT(60), CardFacts DEF IInv, TypeOK
      <4> QED
        BY ZenonT(60), <2>2, <4>1 DEF DecActiveTlabs, IInv, TypeOK
    <3> QED
      BY ZenonT(60), <1>0, <1>1, <2>2, <3>1, DueAlone
  <2> QED
    BY ZenonT(60), <2>1, <2>2
<1>13. Logged'
  BY ZenonT(60) DEF IInv, TypeOK, Logged, DecActiveTlabs, Goto, flagVars, cardVars, locals
<1> QED
  BY ZenonT(60), <1>4, <1>5, <1>6, <1>7, <1>8, <1>9, <1>10, <1>11, <1>12, <1>13 DEF IInv

\* The block becomes the TLAB of its thread, which is bound from here on.
LEMMA RegisterStep ==
  ASSUME ThreadCounts, IInv, NEW t \in Threads, register_tlab(t)
  PROVE  IInv'
<1>0. /\ pc[t] = "register" /\ Heap_lock # t /\ tlab'[t] = <<reg[t], blk[t]>>
      /\ \A u \in Threads \ {t} : tlab'[u] = tlab[u]
      /\ UNCHANGED <<free, gen, top, alloc_region, gen_alloc, buffered, Heap_lock, par_lock>>
  <2>1. pc[t] = "register" /\ Heap_lock # t
    BY ZenonT(60) DEF register_tlab, IInv, Locks, UnderLock
  <2> QED
    BY ZenonT(60), <2>1 DEF register_tlab, IInv, TypeOK, regionVars, flagVars, lockVars
<1>1. /\ reg[t] \in Regions /\ reg[t] # NoRegion /\ blk[t] \in Blocks /\ kind[t] = "tlab"
      /\ tlab[t] = NoCard
      /\ Alone(t) /\ pc'[t] = "idle" /\ kind'[t] = "none"
  BY ZenonT(60), RegionAssumption DEF register_tlab, Return, Goto, IInv, TypeOK, Control, Tlabs, Alone
<1>2. \A r \in Regions : Owners(r)' = IF r = reg[t] THEN Owners(r) \union {t} ELSE Owners(r)
  <2>1. tlab'[t][1] = reg[t]
    BY <1>0
  <2>2. \A r \in Regions : tlab[t][1] # r
    BY ZenonT(60), <1>1, NoCardApart
  <2> QED
    BY ZenonT(60), <1>0, <1>1, <2>1, <2>2 DEF Owners
<1>3. \A r \in Regions : active_tlabs'[r] = Cardinality(Owners(r)')
  <2> SUFFICES ASSUME NEW r \in Regions PROVE active_tlabs'[r] = Cardinality(Owners(r)')
    BY ZenonT(60)
  <2>1. active_tlabs[r] = Cardinality(Owners(r)) /\ Owners(r) \in SUBSET Threads
    BY ZenonT(60) DEF IInv, Tlabs, Owners
  <2>2. t \notin Owners(r)
    BY ZenonT(60), <1>1, NoCardApart DEF Owners
  <2>3. Cardinality(Owners(r) \union {t}) = Cardinality(Owners(r)) + 1
    BY ZenonT(60), <2>1, <2>2 DEF ThreadCounts
  <2> QED
    BY ZenonT(60), <1>1, <1>2, <2>1, <2>3 DEF register_tlab, IInv, TypeOK
<1>4. TypeOK'
  <2>1. active_tlabs' \in [Regions -> 0 .. Cardinality(Threads)]
    <3>1. \A r \in Regions : Cardinality(Owners(r)') \in 0 .. Cardinality(Threads)
      <4>1. \A r \in Regions : Owners(r)' \subseteq Threads
        BY ZenonT(60) DEF Owners
      <4> QED
        BY ZenonT(60), <4>1 DEF ThreadCounts
    <3>2. active_tlabs' = [r \in Regions |-> active_tlabs'[r]]
      BY ZenonT(60) DEF register_tlab, IInv, TypeOK
    <3> QED
      BY ZenonT(60), <1>3, <3>1, <3>2
  <2> QED
    <3>1. 0 \in 0 .. RegionBlocks
      BY BlocksAssumption
    <3> QED
      BY ZenonT(60), <1>1, <2>1, <3>1 DEF register_tlab, Return, Goto, IInv, TypeOK, Points, Kinds,
         regionVars, flagVars, lockVars, cardVars
<1>5. Control'
  BY ZenonT(60) DEF IInv, TypeOK, Control, InTlab, InAlloc, register_tlab, Return, Goto, regionVars
<1>6. Locks'
  BY ZenonT(60), <1>0, <1>1, LocksAlone
<1>7. Full'
  BY ZenonT(60) DEF IInv, TypeOK, Full, register_tlab, Return, Goto, regionVars
<1>8. Flags'
  BY ZenonT(60) DEF IInv, TypeOK, Flags, register_tlab, Return, Goto, regionVars, flagVars
<1>9. Tlabs'
  <2>1. ASSUME NEW u \in Threads
        PROVE  /\ pc'[u] = "dec" => tlab'[u] # NoCard /\ tlab'[u][1] = reg'[u]
               /\ kind'[u] = "tlab" /\ pc'[u] # "dec" => tlab'[u] = NoCard
    BY ZenonT(60), <1>0, <1>1 DEF IInv, Tlabs, Alone
  <2> QED
    BY ZenonT(60), <1>3, <2>1 DEF Tlabs
<1>10. HeldBlocksKept'
  <2>1. ASSUME NEW u \in Threads, NEW c \in Regions \X Blocks, HoldsBlock(u, c)'
        PROVE  HoldsBlock(u, c)
    BY ZenonT(60), <1>0, <1>1, <2>1 DEF HoldsBlock, Alone
  <2> QED
    BY ZenonT(60), <1>0, <2>1, HeldFrame
<1>11. Known'
  BY ZenonT(60) DEF IInv, TypeOK, Known, register_tlab, Return, Goto, regionVars, cardVars
<1>12. Queued'
  <2> SUFFICES ASSUME NEW c \in dirty \ missed, Due(c[1])
               PROVE  Due(c[1])'
    BY ZenonT(60) DEF register_tlab, IInv, Queued, flagVars, cardVars
  <2>0. c[1] \in Regions
    BY ZenonT(60), CardFacts DEF IInv, TypeOK
  <2>1. CASE c[1] = reg[t]
    <3>1. active_tlabs'[reg[t]] > 0
      BY <1>1 DEF register_tlab, IInv, TypeOK
    <3> QED
      BY ZenonT(60), <2>1, <3>1 DEF Due
  <2>2. CASE c[1] # reg[t]
    <3>1. active_tlabs'[c[1]] = active_tlabs[c[1]]
      BY ZenonT(60), <2>0, <2>2 DEF register_tlab, IInv, TypeOK
    <3> QED
      BY ZenonT(60), <1>0, <1>1, <2>2, <3>1, DueAlone
  <2> QED
    BY ZenonT(60), <2>1, <2>2
<1>13. Logged'
  BY ZenonT(60) DEF IInv, TypeOK, Logged, register_tlab, Return, Goto, flagVars, cardVars
<1> QED
  BY ZenonT(60), <1>4, <1>5, <1>6, <1>7, <1>8, <1>9, <1>10, <1>11, <1>12, <1>13 DEF IInv

\* A block is carved out of region r by t, above all the blocks held in it.
LEMMA HeldCarved ==
  ASSUME IInv, NEW t \in Threads, NEW r \in Regions, top[r] < RegionBlocks,
         top' = [top EXCEPT ![r] = top[r] + 1],
         free' \subseteq free, r \notin free', gen'[r] = Gen,
         \A q \in Regions : gen[q] = Gen => gen'[q] = Gen,
         \A u \in Threads : \A c \in Regions \X Blocks :
           HoldsBlock(u, c)' => HoldsBlock(u, c) \/ (u = t /\ c = <<r, top[r] + 1>>)
  PROVE  HeldBlocksKept'
<1>1. /\ top[r] \in 0 .. RegionBlocks /\ top'[r] = top[r] + 1
      /\ \A q \in Regions \ {r} : top'[q] = top[q]
      /\ \A q \in Regions : top[q] \in 0 .. RegionBlocks
  BY ZenonT(60) DEF IInv, TypeOK
<1>2. ASSUME NEW u \in Threads, NEW c \in Regions \X Blocks, HoldsBlock(u, c)
      PROVE  /\ c # <<r, top[r] + 1>>
             /\ c[1] \notin free' /\ gen'[c[1]] = Gen /\ c[2] <= top'[c[1]]
             /\ \A v \in Threads \ {u} : ~HoldsBlock(v, c)
  <2>1. /\ c[1] \notin free /\ gen[c[1]] = Gen /\ c[2] <= top[c[1]]
        /\ \A v \in Threads \ {u} : ~HoldsBlock(v, c)
    BY ZenonT(60), <1>2 DEF IInv, HeldBlocksKept
  <2>2. c[1] \in Regions /\ c[2] \in Nat
    BY BlocksAssumption DEF Blocks
  <2>3. c # <<r, top[r] + 1>>
    BY <1>1, <2>1, <2>2
  <2>4. c[2] <= top'[c[1]]
    BY <1>1, <2>1, <2>2
  <2> QED
    BY ZenonT(60), <2>1, <2>3, <2>4
<1> SUFFICES ASSUME NEW u \in Threads, NEW c \in Regions \X Blocks, HoldsBlock(u, c)'
             PROVE  /\ c[1] \notin free' /\ gen'[c[1]] = Gen /\ c[2] <= top'[c[1]]
                    /\ \A v \in Threads \ {u} : ~HoldsBlock(v, c)'
  BY ZenonT(60) DEF HeldBlocksKept
<1>3. CASE HoldsBlock(u, c)
  BY ZenonT(60), <1>2, <1>3
<1>4. CASE ~HoldsBlock(u, c)
  <2>1. u = t /\ c = <<r, top[r] + 1>>
    BY ZenonT(60), <1>4
  <2>2. c[1] = r /\ c[2] = top'[r]
    BY ZenonT(60), <1>1, <2>1
  <2> QED
    BY <1>1, <1>2
<1> QED
  BY ZenonT(60), <1>3, <1>4

\* A block is carved out of a region with room, which is the active one.
LEMMA CarveStep ==
  ASSUME IInv, NEW t \in Threads, par_allocate(t), top[reg[t]] < RegionBlocks, gen[reg[t]] = Gen
  PROVE  IInv'
<1>1. /\ reg[t] \in Regions /\ reg[t] = alloc_region /\ par_lock[reg[t]] = t /\ pc[t] = "cas"
      /\ top[reg[t]] \in 0 .. RegionBlocks
  <2>1. pc[t] = "cas"
    BY ZenonT(60) DEF par_allocate
  <2>2. reg[t] \in Regions /\ par_lock[reg[t]] = t
    BY ZenonT(60), <2>1 DEF IInv, Control, Locks
  <2>3. top[reg[t]] \in 0 .. RegionBlocks
    BY ZenonT(60), <2>2 DEF IInv, TypeOK
  <2>4. reg[t] = alloc_region
    BY <2>2, BlocksAssumption DEF IInv, Full
  <2> QED
    BY ZenonT(60), <2>1, <2>2, <2>3, <2>4
<1>2. /\ par_lock' = [par_lock EXCEPT ![reg[t]] = NoThread]
      /\ top' = [top EXCEPT ![reg[t]] = top[reg[t]] + 1]
      /\ blk' = [blk EXCEPT ![t] = top[reg[t]] + 1]
      /\ pc' = [pc EXCEPT ![t] = "mark"]
      /\ Heap_lock' = IF Heap_lock = t THEN NoThread ELSE Heap_lock
      /\ UNCHANGED <<free, gen, alloc_region, active_tlabs, tlab, gen_alloc, buffered, missed,
                     dirty, queue, refining, unrecorded, reg, kind>>
  <2>1. top[reg[t]] # RegionBlocks
    BY <1>1
  <2> QED
    BY ZenonT(60), <2>1 DEF par_allocate, Goto, tlabVars, flagVars, cardVars
<1>3. /\ top[reg[t]] + 1 \in Blocks /\ top[reg[t]] + 1 \in 0 .. RegionBlocks
      /\ \A q \in Regions : top[q] <= top'[q]
  BY <1>1, <1>2, BlocksAssumption DEF Blocks, IInv, TypeOK
<1>4. /\ Alone(t) /\ pc'[t] = "mark" /\ blk'[t] = top[reg[t]] + 1
  BY ZenonT(60), <1>2 DEF IInv, TypeOK, Alone
<1>5. TypeOK'
  BY ZenonT(60), <1>1, <1>2, <1>3 DEF IInv, TypeOK, Points
<1>6. Control'
  <2>1. kind[t] \in {"tlab", "direct"}
    BY ZenonT(60), <1>1 DEF IInv, Control, InAlloc
  <2>2. \A u \in Threads \ {t} :
          pc'[u] = pc[u] /\ reg'[u] = reg[u] /\ blk'[u] = blk[u] /\ kind'[u] = kind[u]
    BY ZenonT(60), <1>4 DEF Alone
  <2>3. pc'[t] = "mark" /\ reg'[t] \in Regions /\ blk'[t] \in Blocks /\ kind'[t] = kind[t]
    BY ZenonT(60), <1>1, <1>2, <1>3, <1>4
  <2> QED
    BY ZenonT(60), <1>2, <2>1, <2>2, <2>3 DEF IInv, Control, InTlab
<1>7. Locks'
  <2>1. \A u \in Threads \ {t} : pc[u] = "cas" => reg[u] # reg[t] /\ reg[u] \in Regions
    <3>1. \A u \in Threads : pc[u] = "cas" => reg[u] \in Regions /\ par_lock[reg[u]] = u
      BY ZenonT(60) DEF IInv, Control, Locks
    <3> QED
      BY ZenonT(60), <1>1, <3>1
  <2>2. par_lock'[reg[t]] = NoThread /\ \A r \in Regions \ {reg[t]} : par_lock'[r] = par_lock[r]
    BY ZenonT(60), <1>1, <1>2 DEF IInv, TypeOK
  <2>3. ASSUME NEW u \in Threads
        PROVE  /\ pc'[u] \in {"clear", "tlabs", "enqueue_mr", "new", "null"} => Heap_lock' = u
               /\ Heap_lock' = u => pc'[u] \in UnderLock
               /\ Heap_lock' = u /\ pc'[u] \notin {"read", "null"} => reg'[u] = alloc_region'
               /\ pc'[u] = "cas" => par_lock'[reg'[u]] = u
    <3>1. CASE u = t
      <4>1. Heap_lock' # t
        BY ZenonT(60), <1>2, ThreadAssumption
      <4> QED
        BY ZenonT(60), <1>4, <3>1, <4>1
    <3>2. CASE u # t
      <4>1. pc'[u] = pc[u] /\ reg'[u] = reg[u] /\ (Heap_lock' = u <=> Heap_lock = u)
        BY ZenonT(60), <1>2, <1>4, <3>2, ThreadAssumption DEF Alone
      <4>2. pc[u] = "cas" => par_lock'[reg[u]] = u
        BY ZenonT(60), <2>1, <2>2, <3>2 DEF IInv, Locks
      <4> QED
        BY ZenonT(60), <1>2, <4>1, <4>2 DEF IInv, Locks
    <3> QED
      BY ZenonT(60), <3>1, <3>2
  <2>4. ASSUME NEW r \in Regions, par_lock'[r] # NoThread
        PROVE  pc'[par_lock'[r]] = "cas" /\ reg'[par_lock'[r]] = r
    <3>1. r # reg[t] /\ par_lock'[r] = par_lock[r] /\ par_lock[r] \in Threads
      BY ZenonT(60), <2>2, <2>4 DEF IInv, TypeOK
    <3>2. pc[par_lock[r]] = "cas" /\ reg[par_lock[r]] = r
      BY ZenonT(60), <2>4, <3>1 DEF IInv, Locks
    <3> QED
      BY ZenonT(60), <1>4, <3>1, <3>2 DEF Alone
  <2> QED
    BY ZenonT(60), <2>3, <2>4 DEF Locks
<1>8. Full'
  <2>1. \A u \in Threads : pc[u] \notin {"clear", "tlabs", "enqueue_mr", "new"}
    <3>1. alloc_region # NoRegion /\ top[alloc_region] # RegionBlocks
      BY <1>1, RegionAssumption
    <3> QED
      BY ZenonT(60), <3>1 DEF IInv, Full
  <2>2. reg[t] \notin free
    BY DEF IInv, Full, Gen
  <2>3. \A q \in Regions \ {reg[t]} : top'[q] = top[q]
    BY ZenonT(60), <1>2 DEF IInv, TypeOK
  <2>4. \A u \in Threads : pc'[u] \notin {"clear", "tlabs", "enqueue_mr", "new"}
    BY ZenonT(60), <1>4, <2>1 DEF Alone
  <2>5. \A r \in free : r \in Regions \ {reg[t]}
    BY ZenonT(60), <2>2 DEF IInv, TypeOK
  <2> QED
    BY ZenonT(60), <1>1, <1>2, <2>3, <2>4, <2>5 DEF IInv, Full
<1>9. Flags'
  <2>1. \A u \in Threads : pc'[u] \in {"tlabs", "enqueue_mr", "new"} <=>
                            pc[u] \in {"tlabs", "enqueue_mr", "new"}
    BY ZenonT(60), <1>1, <1>4 DEF Alone
  <2> QED
    BY ZenonT(60), <1>2, <2>1 DEF IInv, Flags
<1>10. Tlabs'
  <2>1. \A r \in Regions : Owners(r)' = Owners(r) /\ active_tlabs'[r] = active_tlabs[r]
    BY ZenonT(60), <1>2 DEF Owners
  <2>2. \A u \in Threads : /\ pc'[u] = "dec" => pc[u] = "dec"
                           /\ pc'[u] # "dec" => pc[u] # "dec"
    BY ZenonT(60), <1>1, <1>4 DEF Alone
  <2> QED
    BY ZenonT(60), <1>2, <2>1, <2>2 DEF IInv, Tlabs
<1>11. HeldBlocksKept'
  <2>1. reg[t] \notin free
    BY DEF IInv, Full, Gen
  <2>2. \A u \in Threads : \A c \in Regions \X Blocks :
          HoldsBlock(u, c)' => HoldsBlock(u, c) \/ (u = t /\ c = <<reg[t], top[reg[t]] + 1>>)
    BY ZenonT(60), <1>2, <1>4 DEF HoldsBlock, Alone
  <2> QED
    BY ZenonT(60), <1>1, <1>2, <2>1, <2>2, HeldCarved
<1>12. Known'
  <2>1. \A q \in Regions : \A b \in Nat : b <= top[q] => b <= top'[q]
    BY <1>1, <1>2, <1>3 DEF IInv, TypeOK
  <2>2. \A c \in Followed : c[1] \in Regions /\ c[2] \in Nat
    BY ZenonT(60), CardFacts
  <2>3. \A c \in dirty \union unrecorded : gen[c[1]] = Gen /\ c[2] <= top'[c[1]]
    BY ZenonT(60), <2>1, <2>2 DEF IInv, TypeOK, Known
  <2>4. refining # NoCard => gen[refining[1]] = Gen /\ refining[2] <= top'[refining[1]]
    BY ZenonT(60), <2>1, <2>2 DEF IInv, TypeOK, Known
  <2>5. ASSUME NEW u \in Threads, pc[u] = "post"
        PROVE  gen[reg[u]] = Gen /\ blk[u] <= top'[reg[u]]
    <3>1. <<reg[u], blk[u]>> \in Followed
      BY ZenonT(60), <2>5 DEF IInv, Control
    <3>2. reg[u] \in Regions /\ blk[u] \in Nat
      BY <3>1, <2>2
    <3> QED
      BY ZenonT(60), <2>1, <2>5, <3>2 DEF IInv, Known
  <2> QED
    BY ZenonT(60), <1>2, <1>4, <2>3, <2>4, <2>5 DEF Known, Alone
<1>13. Queued'
  BY ZenonT(60), <1>1, <1>2, <1>4, QueuedAlone
<1>14. Logged'
  <2>1. \A u \in Threads :
          pc[u] = "post" => pc'[u] = "post" /\ reg'[u] = reg[u] /\ blk'[u] = blk[u]
    BY ZenonT(60), <1>1, <1>4 DEF Alone
  <2> QED
    BY ZenonT(60), <1>2, <2>1 DEF IInv, Logged
<1> QED
  BY ZenonT(60), <1>5, <1>6, <1>7, <1>8, <1>9, <1>10, <1>11, <1>12, <1>13, <1>14 DEF IInv

\* The region has no room, or is not the generation's any more.
LEMMA RefusedStep ==
  ASSUME IInv, NEW t \in Threads, par_allocate(t), ~(top[reg[t]] < RegionBlocks /\ gen[reg[t]] = Gen)
  PROVE  IInv'
<1>1. pc[t] = "cas" /\ reg[t] \in Regions /\ par_lock[reg[t]] = t
  <2>1. pc[t] = "cas"
    BY ZenonT(60) DEF par_allocate
  <2> QED
    BY ZenonT(60), <2>1 DEF IInv, Control, Locks
<1>2. /\ Alone(t) /\ kind'[t] = kind[t] /\ queue' = queue
      /\ UNCHANGED <<reg, alloc_region, Heap_lock, gen, free, top, active_tlabs, tlab, gen_alloc,
                     buffered, missed, dirty>>
      /\ \/ pc'[t] = "stale" /\ gen[reg[t]] # Gen
         \/ pc'[t] = "clear" /\ Heap_lock = t /\ top[reg[t]] = RegionBlocks
         \/ pc'[t] = "heap" /\ Heap_lock # t
  BY ZenonT(60) DEF par_allocate, Goto, IInv, TypeOK, Alone, tlabVars, flagVars, cardVars
<1>3. /\ par_lock'[reg[t]] = NoThread /\ \A r \in Regions \ {reg[t]} : par_lock'[r] = par_lock[r]
  BY ZenonT(60), <1>1 DEF par_allocate, IInv, TypeOK
<1>4. Heap_lock = t => reg[t] = alloc_region /\ gen[reg[t]] = Gen
  <2>1. Heap_lock = t => reg[t] = alloc_region
    BY ZenonT(60), <1>1 DEF IInv, Locks
  <2> QED
    BY ZenonT(60), <1>1, <2>1, RegionAssumption DEF IInv, Full
<1>5. TypeOK'
  BY ZenonT(60), BlocksAssumption DEF IInv, TypeOK, Points, Kinds, Cards, NoCard, par_allocate, Goto,
     tlabVars, flagVars, cardVars
<1>6. Control'
  <2>1. kind[t] \in {"tlab", "direct"}
    BY ZenonT(60), <1>1 DEF IInv, Control, InAlloc
  <2> QED
    BY ZenonT(60), <1>1, <1>2, <2>1, ControlAlone DEF InTlab
<1>7. Locks'
  <2>1. \A u \in Threads \ {t} : pc[u] = "cas" => reg[u] # reg[t] /\ reg[u] \in Regions
    <3>1. \A u \in Threads : pc[u] = "cas" => reg[u] \in Regions /\ par_lock[reg[u]] = u
      BY ZenonT(60) DEF IInv, Control, Locks
    <3> QED
      BY ZenonT(60), <1>1, <3>1
  <2>2. \A u \in Threads \ {t} :
          /\ pc'[u] \in {"clear", "tlabs", "enqueue_mr", "new", "null"} => Heap_lock' = u
          /\ Heap_lock' = u => pc'[u] \in UnderLock
          /\ Heap_lock' = u /\ pc'[u] \notin {"read", "null"} => reg'[u] = alloc_region'
          /\ pc'[u] = "cas" => par_lock'[reg'[u]] = u
    <3> TAKE u \in Threads \ {t}
    <3>1. pc'[u] = pc[u] /\ reg'[u] = reg[u]
      BY ZenonT(60), <1>2 DEF Alone
    <3>2. pc[u] = "cas" => par_lock'[reg[u]] = u
      BY ZenonT(60), <1>3, <2>1 DEF IInv, Locks
    <3> QED
      BY ZenonT(60), <1>2, <3>1, <3>2 DEF IInv, Locks
  <2>3. /\ pc'[t] \in {"clear", "tlabs", "enqueue_mr", "new", "null"} => Heap_lock' = t
        /\ Heap_lock' = t => pc'[t] \in UnderLock /\ reg'[t] = alloc_region'
        /\ pc'[t] # "cas"
    BY ZenonT(60), <1>2, <1>4 DEF UnderLock
  <2>4. ASSUME NEW r \in Regions, par_lock'[r] # NoThread
        PROVE  pc'[par_lock'[r]] = "cas" /\ reg'[par_lock'[r]] = r
    <3>1. r # reg[t] /\ par_lock'[r] = par_lock[r] /\ par_lock[r] \in Threads
      BY ZenonT(60), <1>3, <2>4 DEF IInv, TypeOK
    <3>2. pc[par_lock[r]] = "cas" /\ reg[par_lock[r]] = r
      BY ZenonT(60), <2>4, <3>1 DEF IInv, Locks
    <3> QED
      BY ZenonT(60), <1>2, <3>1, <3>2 DEF Alone
  <2> QED
    BY ZenonT(60), <2>2, <2>3, <2>4 DEF Locks
<1>8. Full'
  BY ZenonT(60), <1>2, <1>4 DEF IInv, Full, Alone
<1>9. Flags'
  BY ZenonT(60), <1>1, <1>2 DEF IInv, Flags, Alone
<1>10. Tlabs'
  BY ZenonT(60), <1>1, <1>2, TlabsAlone
<1>11. HeldBlocksKept'
  BY ZenonT(60), <1>1, <1>2, HeldAlone
<1>12. Known'
  BY ZenonT(60) DEF IInv, TypeOK, Known, par_allocate, Goto, cardVars
<1>13. Queued'
  BY ZenonT(60), <1>1, <1>2, QueuedAlone
<1>14. Logged'
  BY ZenonT(60) DEF IInv, TypeOK, Logged, par_allocate, Goto, flagVars, cardVars
<1> QED
  BY ZenonT(60), <1>5, <1>6, <1>7, <1>8, <1>9, <1>10, <1>11, <1>12, <1>13, <1>14 DEF IInv

\* The two outcomes of new_alloc_region_and_allocate: the new region r, or none.
Renewed(t, r) ==
  /\ pc[t] = "new" /\ buffered[t] = NoRegion
  /\ free' = free \ {r}
  /\ gen' = [gen EXCEPT ![r] = Gen]
  /\ gen_alloc' = [gen_alloc EXCEPT ![r] = TRUE]
  /\ top' = [top EXCEPT ![r] = @ + 1]
  /\ alloc_region' = r
  /\ reg' = [reg EXCEPT ![t] = r]
  /\ blk' = [blk EXCEPT ![t] = top[r] + 1]
  /\ Heap_lock' = NoThread
  /\ pc' = [pc EXCEPT ![t] = "mark"]
  /\ UNCHANGED <<tlabVars, buffered, missed, par_lock, cardVars, kind>>

OutOfRegions(t) ==
  /\ pc[t] = "new" /\ buffered[t] = NoRegion
  /\ free = {} /\ alloc_region' = NoRegion
  /\ pc' = [pc EXCEPT ![t] = "null"]
  /\ UNCHANGED <<free, gen, gen_alloc, top, reg, blk, Heap_lock, tlabVars, buffered, missed,
                 par_lock, cardVars, kind>>

\* A free region becomes the active one, and the block is carved out of it.
LEMMA NewRegionStep ==
  ASSUME IInv, NEW t \in Threads, NEW r \in free, Renewed(t, r)
  PROVE  IInv'
<1>1. /\ r \in Regions /\ r # NoRegion /\ gen[r] = -1 /\ top[r] = 0 /\ r # alloc_region
      /\ pc[t] = "new" /\ Heap_lock = t
      /\ \A u \in Threads \ {t} : pc[u] \notin {"clear", "tlabs", "enqueue_mr", "new", "null"}
  <2>1. r \in Regions /\ r # NoRegion /\ gen[r] = -1 /\ top[r] = 0
    BY ZenonT(60), RegionAssumption DEF IInv, TypeOK, Full
  <2>2. r # alloc_region
    BY <2>1 DEF IInv, Full, Gen
  <2>3. pc[t] = "new" /\ Heap_lock = t
    BY ZenonT(60) DEF Renewed, IInv, Locks
  <2> QED
    BY ZenonT(60), <2>1, <2>2, <2>3 DEF IInv, Locks
<1>2. /\ Alone(t) /\ pc'[t] = "mark" /\ reg'[t] = r /\ blk'[t] = 1 /\ 1 \in Blocks
      /\ 1 \in 0 .. RegionBlocks
      /\ gen'[r] = Gen /\ top'[r] = 1
      /\ \A q \in Regions \ {r} : gen'[q] = gen[q] /\ top'[q] = top[q]
      /\ free' = free \ {r} /\ alloc_region' = r /\ Heap_lock' = NoThread
      /\ UNCHANGED <<active_tlabs, tlab, buffered, missed, par_lock, dirty, queue, refining,
                     unrecorded, kind>>
  BY <1>1, BlocksAssumption DEF Renewed, IInv, TypeOK, Alone, Blocks, tlabVars, cardVars
<1>3. alloc_region # NoRegion =>
        alloc_region \in Regions /\ top[alloc_region] = RegionBlocks /\ ~gen_alloc[alloc_region]
  BY ZenonT(60) DEF Renewed, IInv, TypeOK, Full, Flags
<1>4. gen_alloc'[r] /\ \A q \in Regions \ {r} : gen_alloc'[q] <=> gen_alloc[q]
  BY ZenonT(60) DEF Renewed, IInv, TypeOK
<1>5. \A q \in Regions : gen[q] = Gen => gen'[q] = Gen
  BY ZenonT(60), <1>2
<1>6. TypeOK'
  BY ZenonT(60), <1>2 DEF Renewed, IInv, TypeOK, Points
<1>7. Control'
  <2>1. pc[t] \in InAlloc /\ kind'[t] = kind[t]
    BY ZenonT(60), <1>1, <1>2 DEF InAlloc
  <2>2. kind'[t] \in {"tlab", "direct"}
    BY ZenonT(60), <2>1 DEF IInv, Control
  <2> QED
    BY ZenonT(60), <1>1, <1>2, <1>5, <2>2, ControlAlone DEF InTlab
<1>8. Locks'
  <2>1. \A u \in Threads : pc'[u] \notin {"clear", "tlabs", "enqueue_mr", "new", "null"}
    BY ZenonT(60), <1>1, <1>2 DEF Alone
  <2>2. \A u \in Threads : pc'[u] = "cas" => par_lock'[reg'[u]] = u
    <3>1. \A u \in Threads \ {t} : pc'[u] = pc[u] /\ reg'[u] = reg[u]
      BY ZenonT(60), <1>2 DEF Alone
    <3>2. \A u \in Threads : pc[u] = "cas" => par_lock[reg[u]] = u
      BY ZenonT(60) DEF IInv, Locks
    <3> QED
      BY ZenonT(60), <1>2, <3>1, <3>2
  <2>3. ASSUME NEW q \in Regions, par_lock'[q] # NoThread
        PROVE  pc'[par_lock'[q]] = "cas" /\ reg'[par_lock'[q]] = q
    <3>1. par_lock[q] \in Threads /\ pc[par_lock[q]] = "cas" /\ reg[par_lock[q]] = q
      <4>1. par_lock[q] # NoThread
        BY ZenonT(60), <1>2, <2>3
      <4> QED
        BY ZenonT(60), <4>1, ParLockHeld
    <3> QED
      BY ZenonT(60), <1>1, <1>2, <3>1 DEF Alone
  <2> QED
    BY ZenonT(60), <1>2, <2>1, <2>2, <2>3, ThreadAssumption DEF Locks
<1>9. Full'
  <2>1. \A q \in free' : gen'[q] = -1 /\ top'[q] = 0
    BY ZenonT(60), <1>2 DEF IInv, TypeOK, Full
  <2>2. \A q \in Regions : gen'[q] = Gen /\ q # r => top'[q] = RegionBlocks
    BY ZenonT(60), <1>2, <1>3, RegionAssumption DEF IInv, Full
  <2>3. \A u \in Threads : pc'[u] \notin {"clear", "tlabs", "enqueue_mr", "new"}
    <3>1. \A u \in Threads : pc'[u] \notin {"clear", "tlabs", "enqueue_mr", "new", "null"}
      BY ZenonT(60), <1>1, <1>2 DEF Alone
    <3> QED
      BY ZenonT(60), <3>1
  <2> QED
    BY ZenonT(60), <1>2, <2>1, <2>2, <2>3 DEF Full
<1>10. Flags'
  <2>1. \A u \in Threads : pc'[u] \notin {"tlabs", "enqueue_mr", "new"}
    <3>1. \A u \in Threads : pc'[u] \notin {"clear", "tlabs", "enqueue_mr", "new", "null"}
      BY ZenonT(60), <1>1, <1>2 DEF Alone
    <3> QED
      BY ZenonT(60), <3>1
  <2>2. \A u \in Threads : buffered[u] = NoRegion
    BY ZenonT(60), <1>1 DEF Renewed, IInv, Flags
  <2>3. \A q \in Regions : gen_alloc'[q] => q = r
    BY ZenonT(60), <1>4, <1>3, RegionAssumption DEF IInv, Flags
  <2> QED
    BY ZenonT(60), <1>2, <1>4, <2>1, <2>2, <2>3 DEF Flags
<1>11. Tlabs'
  BY ZenonT(60), <1>1, <1>2, TlabsAlone
<1>12. HeldBlocksKept'
  <2>1. \A u \in Threads : \A c \in Regions \X Blocks :
          HoldsBlock(u, c)' => HoldsBlock(u, c) \/ (u = t /\ c = <<r, top[r] + 1>>)
    <3> SUFFICES ASSUME NEW u \in Threads, NEW c \in Regions \X Blocks, HoldsBlock(u, c)'
                 PROVE  HoldsBlock(u, c) \/ (u = t /\ c = <<r, top[r] + 1>>)
      BY ZenonT(60)
    <3>1. blk'[t] = top[r] + 1
      BY ZenonT(60) DEF Renewed, IInv, TypeOK
    <3> QED
      BY ZenonT(60), <1>2, <3>1 DEF HoldsBlock, Alone
  <2>2. top[r] < RegionBlocks
    BY <1>1, BlocksAssumption
  <2> QED
    BY ZenonT(60), <1>1, <1>2, <1>5, <2>1, <2>2, HeldCarved DEF Renewed
<1>13. Known'
  <2>1. \A q \in Regions : \A b : gen[q] = Gen /\ b <= top[q] => gen'[q] = Gen /\ b <= top'[q]
    BY <1>1, <1>2 DEF Gen
  <2>2. \A c \in Followed : c[1] \in Regions
    BY ZenonT(60), CardFacts
  <2>3. \A c \in dirty \union unrecorded : gen'[c[1]] = Gen /\ c[2] <= top'[c[1]]
    BY ZenonT(60), <2>1, <2>2 DEF IInv, TypeOK, Known
  <2>4. refining # NoCard => gen'[refining[1]] = Gen /\ refining[2] <= top'[refining[1]]
    BY ZenonT(60), <2>1, <2>2 DEF IInv, TypeOK, Known
  <2>5. ASSUME NEW u \in Threads \ {t}, pc[u] = "post"
        PROVE  gen'[reg[u]] = Gen /\ blk[u] <= top'[reg[u]]
    <3>1. <<reg[u], blk[u]>> \in Followed
      BY ZenonT(60), <2>5 DEF IInv, Control
    <3>2. reg[u] \in Regions
      BY ZenonT(60), <3>1, FollowedAssumption
    <3> QED
      BY ZenonT(60), <2>1, <2>5, <3>2 DEF IInv, Known
  <2> QED
    BY ZenonT(60), <1>2, <2>3, <2>4, <2>5 DEF Known, Alone
<1>14. Queued'
  <2> SUFFICES ASSUME NEW c \in dirty \ missed, Due(c[1])
               PROVE  Due(c[1])'
    BY ZenonT(60), <1>2 DEF IInv, Queued
  <2>1. c[1] \in Regions
    BY ZenonT(60), CardFacts DEF IInv, TypeOK
  <2>2. Retired(c[1])' => Retired(c[1])
    BY ZenonT(60), <1>2, <1>4, <2>1 DEF Retired
  <2> QED
    BY ZenonT(60), <1>1, <1>2, <2>2 DEF Due, Alone
<1>15. Logged'
  <2> SUFFICES ASSUME NEW c \in unrecorded \ missed, NEW u \in Threads, pc[u] = "post",
                      <<reg[u], blk[u]>> = c
               PROVE  pc'[u] = "post" /\ <<reg'[u], blk'[u]>> = c
    BY ZenonT(60), <1>2 DEF IInv, Logged
  <2> QED
    BY ZenonT(60), <1>1, <1>2 DEF Alone
<1> QED
  BY ZenonT(60), <1>6, <1>7, <1>8, <1>9, <1>10, <1>11, <1>12, <1>13, <1>14, <1>15 DEF IInv

\* No region is left.
LEMMA NullRegionStep ==
  ASSUME IInv, NEW t \in Threads, OutOfRegions(t)
  PROVE  IInv'
<1>1. /\ Heap_lock = t /\ Alone(t) /\ pc[t] = "new" /\ pc'[t] = "null" /\ kind'[t] = kind[t]
      /\ UNCHANGED <<free, gen, top, active_tlabs, tlab, gen_alloc, buffered, missed, dirty, queue,
                     refining, unrecorded, Heap_lock, par_lock, reg, blk>>
      /\ \A u \in Threads \ {t} : pc[u] \notin {"clear", "tlabs", "enqueue_mr", "new", "null"}
  BY ZenonT(60) DEF OutOfRegions, IInv, TypeOK, Locks, Alone, tlabVars, cardVars
<1>2. alloc_region # NoRegion =>
        alloc_region \in Regions /\ top[alloc_region] = RegionBlocks /\ ~gen_alloc[alloc_region]
  BY ZenonT(60) DEF OutOfRegions, IInv, TypeOK, Full, Flags
<1>3. TypeOK'
  BY ZenonT(60) DEF IInv, TypeOK, Points, OutOfRegions, tlabVars, cardVars
<1>4. Control'
  <2>1. kind[t] \in {"tlab", "direct"}
    BY ZenonT(60), <1>1 DEF IInv, Control, InAlloc
  <2> QED
    BY ZenonT(60), <1>1, <2>1, ControlAlone DEF InTlab
<1>5. Locks'
  <2>1. ASSUME NEW u \in Threads
        PROVE  /\ pc'[u] \in {"clear", "tlabs", "enqueue_mr", "new", "null"} => Heap_lock' = u
               /\ Heap_lock' = u => pc'[u] \in UnderLock /\ pc'[u] \in {"read", "null"}
               /\ pc'[u] = "cas" => par_lock'[reg'[u]] = u
    <3>1. CASE u = t
      BY ZenonT(60), <1>1, <3>1 DEF UnderLock
    <3>2. CASE u # t
      BY ZenonT(60), <1>1, <3>2 DEF IInv, Locks, Alone
    <3> QED
      BY ZenonT(60), <3>1, <3>2
  <2>2. ASSUME NEW q \in Regions, par_lock'[q] # NoThread
        PROVE  pc'[par_lock'[q]] = "cas" /\ reg'[par_lock'[q]] = q
    <3>1. par_lock[q] \in Threads /\ pc[par_lock[q]] = "cas" /\ reg[par_lock[q]] = q
      <4>1. par_lock[q] # NoThread
        BY ZenonT(60), <1>1, <2>2
      <4> QED
        BY ZenonT(60), <4>1, ParLockHeld
    <3> QED
      BY ZenonT(60), <1>1, <3>1 DEF Alone
  <2> QED
    BY ZenonT(60), <2>1, <2>2 DEF Locks
<1>6. Full'
  BY ZenonT(60) DEF OutOfRegions, IInv, Full
<1>7. Flags'
  BY ZenonT(60), <1>1 DEF OutOfRegions, IInv, Flags
<1>8. Tlabs'
  BY ZenonT(60), <1>1, TlabsAlone
<1>9. HeldBlocksKept'
  BY ZenonT(60), <1>1, HeldAlone
<1>10. Known'
  BY ZenonT(60), <1>1 DEF IInv, Known, Alone
<1>11. Queued'
  BY ZenonT(60), <1>1, QueuedAlone
<1>12. Logged'
  BY ZenonT(60), <1>1 DEF IInv, Logged, Alone
<1> QED
  BY ZenonT(60), <1>3, <1>4, <1>5, <1>6, <1>7, <1>8, <1>9, <1>10, <1>11, <1>12 DEF IInv

-----------------------------------------------------------------------------
(* Safepoints. *)

\* What holds when a pause may come: no lock is held, no retirement is under
\* way, each TLAB that is counted is a thread's, and whoever is bound to queue a
\* card is an owner of a TLAB or the retirement of the active region.
LEMMA AtSafepointFacts ==
  ASSUME ThreadCounts, IInv, AtSafepoint
  PROVE  /\ \A t \in Threads : pc[t] \in {"idle", "heap", "wait"} /\ buffered[t] = NoRegion
         /\ \A r \in Regions : par_lock[r] = NoThread /\ ActiveAfter(r) = 0
         /\ Heap_lock = NoThread /\ refining = NoCard
         /\ dirty \ missed \subseteq queue \union EnqueuedAtRelease
         /\ unrecorded \ missed \subseteq dirty
<1>1. \A t \in Threads : pc[t] \in {"idle", "heap", "wait"}
  BY ZenonT(60) DEF AtSafepoint
<1>2. \A t \in Threads : buffered[t] = NoRegion
  BY ZenonT(60), <1>1 DEF IInv, Flags
<1>3. \A r \in Regions : par_lock[r] = NoThread
  BY <1>1 DEF IInv, TypeOK, Locks
<1>4. \A r \in Regions : ActiveAfter(r) = 0
  <2> SUFFICES ASSUME NEW r \in Regions PROVE ActiveAfter(r) = 0
    BY ZenonT(60)
  <2>1. active_tlabs[r] \in Nat /\ active_tlabs[r] = Cardinality(Owners(r))
    BY ZenonT(60), ActiveCount DEF IInv, Tlabs
  <2>2. ActiveAfter(r) = active_tlabs[r] - Cardinality(Owners(r))
    BY ZenonT(60) DEF ActiveAfter, Owners
  <2> QED
    BY <2>1, <2>2
<1>5. ASSUME NEW c \in dirty \ missed
      PROVE  c \in queue \union EnqueuedAtRelease
  <2>1. c \in Followed /\ c[1] \in Regions /\ gen[c[1]] = Gen
    BY ZenonT(60), FollowedAssumption DEF IInv, TypeOK, Known
  <2>2. c \in queue \/ Due(c[1])
    BY ZenonT(60) DEF IInv, Queued
  <2>3. CASE Due(c[1])
    <3>1. gen_alloc[c[1]] \/ active_tlabs[c[1]] > 0
      BY ZenonT(60), <1>1, <2>3 DEF Due, Retired
    <3>2. gen_alloc[c[1]] => c[1] = alloc_region
      BY ZenonT(60), <2>1 DEF IInv, Flags
    <3>3. active_tlabs[c[1]] > 0 => \E t \in Threads : tlab[t][1] = c[1]
      <4>1. active_tlabs[c[1]] > 0 => Owners(c[1]) # {}
        BY <2>1, ActiveCount
      <4> QED
        BY ZenonT(60), <4>1 DEF Owners
    <3>4. gen[c[1]] > 0
      BY <2>1 DEF Gen
    <3>5. c \in Cards(c[1])
      BY ZenonT(60), <2>1 DEF Cards
    <3> QED
      BY ZenonT(60), <1>4, <2>1, <3>1, <3>2, <3>3, <3>4, <3>5 DEF EnqueuedAtRelease
  <2> QED
    BY ZenonT(60), <2>2, <2>3
<1>6. ASSUME NEW c \in unrecorded \ missed
      PROVE  c \in dirty
  <2>1. c \in Regions \X Blocks
    BY ZenonT(60), FollowedAssumption DEF IInv, TypeOK
  <2> QED
    BY <2>1, RegionAssumption DEF AtSafepoint, IInv, Logged, NoCard
<1> QED
  BY ZenonT(60), <1>2, <1>3, <1>4, <1>5, <1>6 DEF AtSafepoint

\* The TLABs and the active region are given up, and the regions left to the
\* generation are full.
LEMMA Released ==
  ASSUME ThreadCounts, IInv, AtSafepoint, release_gen_alloc_regions,
         UNCHANGED <<buffered, lockVars, refining, pc, locals>>,
         free' \subseteq Regions, gen' \in [Regions -> {-1, Gen}],
         top' \in [Regions -> 0 .. RegionBlocks],
         \A r \in free' : gen'[r] = -1 /\ top'[r] = 0,
         \A r \in Regions : gen'[r] = Gen => top'[r] = RegionBlocks,
         dirty' \subseteq Followed, queue' \subseteq Followed, unrecorded' \subseteq Followed,
         missed' \subseteq Followed,
         \A c \in dirty' \union unrecorded' : gen'[c[1]] = Gen /\ c[2] <= top'[c[1]],
         dirty' \ missed' \subseteq queue', unrecorded' \ missed' \subseteq dirty'
  PROVE  IInv'
<1>1. /\ tlab' = [t \in Threads |-> NoCard] /\ alloc_region' = NoRegion
      /\ active_tlabs' = [r \in Regions |-> ActiveAfter(r)]
      /\ gen_alloc' = [r \in Regions |-> gen_alloc[r] /\ r # alloc_region]
      /\ UNCHANGED <<buffered, Heap_lock, par_lock, refining, pc, reg, blk, kind>>
  BY ZenonT(60) DEF release_gen_alloc_regions, lockVars, locals
<1>2. /\ \A t \in Threads : pc[t] \in {"idle", "heap", "wait"} /\ buffered[t] = NoRegion
      /\ \A r \in Regions : par_lock[r] = NoThread /\ ActiveAfter(r) = 0
      /\ Heap_lock = NoThread /\ refining = NoCard
  BY ZenonT(60), AtSafepointFacts
<1>3. TypeOK'
  <2>1. Cardinality(Threads) \in Nat
    BY ZenonT(60) DEF ThreadCounts
  <2>2. active_tlabs' \in [Regions -> 0 .. Cardinality(Threads)]
    <3>1. 0 \in 0 .. Cardinality(Threads)
      BY <2>1
    <3> QED
      BY ZenonT(60), <1>1, <1>2, <3>1
  <2>3. gen_alloc' \in [Regions -> BOOLEAN]
    BY ZenonT(60), <1>1
  <2> QED
    BY ZenonT(60), <1>1, <2>2 DEF IInv, TypeOK
<1>4. Control'
  BY ZenonT(60), <1>1, <1>2 DEF IInv, Control, InTlab
<1>5. Locks'
  BY ZenonT(60), <1>1, <1>2, ThreadAssumption DEF Locks
<1>6. Full'
  BY ZenonT(60), <1>1, <1>2 DEF Full
<1>7. Flags'
  BY ZenonT(60), <1>1, <1>2 DEF IInv, Flags
<1>8. Tlabs'
  <2>1. \A r \in Regions : Owners(r)' = {}
    BY ZenonT(60), <1>1, RegionAssumption DEF Owners, NoCard
  <2>2. Cardinality({}) = 0
    BY ZenonT(60) DEF ThreadCounts
  <2> QED
    BY ZenonT(60), <1>1, <1>2, <2>1, <2>2 DEF Tlabs
<1>9. HeldBlocksKept'
  <2>1. \A u \in Threads : \A c \in Regions \X Blocks : ~HoldsBlock(u, c)'
    BY ZenonT(60), <1>1, <1>2, NoCardApart DEF HoldsBlock
  <2> QED
    BY ZenonT(60), <2>1 DEF HeldBlocksKept
<1>10. Known'
  BY ZenonT(60), <1>1, <1>2 DEF Known
<1>11. Queued' /\ Logged'
  BY ZenonT(60) DEF Queued, Logged
<1> QED
  BY ZenonT(60), <1>3, <1>4, <1>5, <1>6, <1>7, <1>8, <1>9, <1>10, <1>11 DEF IInv

\* The region that is released is filled up.
LEMMA FilledTopFacts ==
  ASSUME IInv
  PROVE  /\ FilledTop \in [Regions -> 0 .. RegionBlocks]
         /\ \A r \in Regions : top[r] <= FilledTop[r]
         /\ \A r \in Regions : gen[r] = Gen => FilledTop[r] = RegionBlocks
         /\ \A r \in free : FilledTop[r] = 0
<1>1. /\ FilledTop \in [Regions -> 0 .. RegionBlocks]
      /\ \A r \in Regions : top[r] <= FilledTop[r]
  BY BlocksAssumption DEF IInv, TypeOK, FilledTop
<1>2. \A r \in Regions : gen[r] = Gen => FilledTop[r] = RegionBlocks
  BY ZenonT(60) DEF IInv, Full, FilledTop
<1>3. \A r \in free : r \in Regions /\ r # alloc_region /\ top[r] = 0
  BY RegionAssumption DEF IInv, TypeOK, Full, Gen
<1>4. \A r \in free : FilledTop[r] = 0
  BY ZenonT(60), <1>3 DEF FilledTop
<1> QED
  BY ZenonT(60), <1>1, <1>2, <1>4

\* The cards a release queues are followed ones.
LEMMA EnqueuedFollowed == EnqueuedAtRelease \subseteq Followed
  BY ZenonT(60) DEF EnqueuedAtRelease, Cards

\* rebase_alloc_gen gives the active region up at a safepoint.
LEMMA RebaseStep ==
  ASSUME ThreadCounts, IInv, rebase_alloc_gen
  PROVE  IInv'
<1>1. /\ AtSafepoint /\ release_gen_alloc_regions
      /\ top' = FilledTop /\ queue' = queue \union EnqueuedAtRelease
      /\ UNCHANGED <<free, gen, buffered, missed, lockVars, dirty, refining, unrecorded, pc, locals>>
  BY ZenonT(60) DEF rebase_alloc_gen
<1>2. /\ free \subseteq Regions /\ gen \in [Regions -> {-1, Gen}]
      /\ dirty \subseteq Followed /\ queue' \subseteq Followed /\ unrecorded \subseteq Followed
      /\ missed \subseteq Followed
  BY ZenonT(60), <1>1, EnqueuedFollowed DEF IInv, TypeOK
<1>3. /\ \A r \in free : gen[r] = -1 /\ top'[r] = 0
      /\ \A r \in Regions : gen[r] = Gen => top'[r] = RegionBlocks
  BY ZenonT(60), <1>1, FilledTopFacts DEF IInv, Full
<1>4. \A c \in dirty \union unrecorded : gen[c[1]] = Gen /\ c[2] <= top'[c[1]]
  <2> SUFFICES ASSUME NEW c \in dirty \union unrecorded PROVE gen[c[1]] = Gen /\ c[2] <= top'[c[1]]
    BY ZenonT(60)
  <2>1. c[1] \in Regions /\ c[2] \in Nat /\ gen[c[1]] = Gen /\ c[2] <= RegionBlocks
    BY ZenonT(60), CardFacts DEF IInv, TypeOK, Known
  <2> QED
    BY ZenonT(60), <1>3, <2>1
<1>5. dirty \ missed \subseteq queue' /\ unrecorded \ missed \subseteq dirty
  BY ZenonT(60), <1>1, AtSafepointFacts
<1> QED
  BY ZenonT(60), <1>1, <1>2, <1>3, <1>4, <1>5, FilledTopFacts, Released

\* The pause refines every card that is not missed.
LEMMA PauseStep ==
  ASSUME ThreadCounts, IInv, NEW cset \in SUBSET Regions, do_collection_pause_at_safepoint(cset)
  PROVE  IInv'
<1> DEFINE refined == (queue \union EnqueuedAtRelease) \intersect dirty
           kept == Followed \ UNION {Cards(r) : r \in cset}
<1>1. /\ AtSafepoint /\ release_gen_alloc_regions
      /\ dirty' = (dirty \ refined) \intersect kept
      /\ unrecorded' = (unrecorded \ refined) \intersect kept
      /\ missed' = missed \intersect kept
      /\ queue' = {} /\ free' = free \union cset
      /\ gen' = [r \in Regions |-> IF r \in cset THEN -1 ELSE gen[r]]
      /\ top' = [r \in Regions |-> IF r \in cset THEN 0 ELSE FilledTop[r]]
      /\ UNCHANGED <<buffered, lockVars, refining, pc, locals>>
  BY ZenonT(60) DEF do_collection_pause_at_safepoint
<1>2. /\ free' \subseteq Regions /\ gen' \in [Regions -> {-1, Gen}]
      /\ dirty' \subseteq Followed /\ queue' \subseteq Followed /\ unrecorded' \subseteq Followed
      /\ missed' \subseteq Followed
  BY ZenonT(60), <1>1 DEF IInv, TypeOK
<1>3. top' \in [Regions -> 0 .. RegionBlocks]
  <2>1. 0 \in 0 .. RegionBlocks
    BY BlocksAssumption
  <2> QED
    BY ZenonT(60), <1>1, <2>1, FilledTopFacts
<1>4. /\ \A r \in free' : gen'[r] = -1 /\ top'[r] = 0
      /\ \A r \in Regions : gen'[r] = Gen => top'[r] = RegionBlocks
  <2>1. \A r \in Regions : gen'[r] = Gen => r \notin cset /\ gen[r] = Gen
    BY <1>1 DEF Gen
  <2>2. \A r \in free : r \in Regions /\ gen[r] = -1 /\ FilledTop[r] = 0
    BY ZenonT(60), FilledTopFacts DEF IInv, TypeOK, Full
  <2>3. \A r \in free' : gen'[r] = -1 /\ top'[r] = 0
    BY ZenonT(60), <1>1, <2>2
  <2>4. \A r \in Regions : gen'[r] = Gen => top'[r] = RegionBlocks
    BY ZenonT(60), <1>1, <2>1, FilledTopFacts
  <2> QED
    BY ZenonT(60), <2>3, <2>4
<1>5. \A c \in dirty' \union unrecorded' : gen'[c[1]] = Gen /\ c[2] <= top'[c[1]]
  <2> SUFFICES ASSUME NEW c \in dirty' \union unrecorded' PROVE gen'[c[1]] = Gen /\ c[2] <= top'[c[1]]
    BY ZenonT(60)
  <2>1. c \in dirty \union unrecorded /\ c \in kept
    BY ZenonT(60), <1>1
  <2>2. c[1] \in Regions /\ c[2] \in Nat /\ gen[c[1]] = Gen /\ c[2] <= RegionBlocks
    BY ZenonT(60), <2>1, CardFacts DEF IInv, TypeOK, Known
  <2>3. c[1] \notin cset
    BY <2>1 DEF Cards
  <2>4. gen'[c[1]] = Gen
    BY ZenonT(60), <1>1, <2>2, <2>3
  <2> QED
    BY ZenonT(60), <1>4, <2>2, <2>4
<1>6. dirty' \ missed' \subseteq queue' /\ unrecorded' \ missed' \subseteq dirty'
  <2>1. /\ dirty \ missed \subseteq queue \union EnqueuedAtRelease
        /\ unrecorded \ missed \subseteq dirty
    BY ZenonT(60), <1>1, AtSafepointFacts
  <2> QED
    BY ZenonT(60), <1>1, <2>1
<1> QED
  BY ZenonT(60), <1>1, <1>2, <1>3, <1>4, <1>5, <1>6, Released

\* A full collection drops the cards and rebuilds the remembered sets.
LEMMA FullCollectionStep ==
  ASSUME ThreadCounts, IInv, NEW used \in [Regions -> 0 .. RegionBlocks], do_collection(used)
  PROVE  IInv'
<1>1. /\ AtSafepoint /\ release_gen_alloc_regions /\ top' = used
      /\ free' = {r \in Regions : used[r] = 0} /\ gen' = [r \in Regions |-> -1]
      /\ dirty' = {} /\ queue' = {} /\ unrecorded' = {} /\ missed' = {}
      /\ UNCHANGED <<buffered, lockVars, refining, pc, locals>>
  BY ZenonT(60) DEF do_collection
<1>2. /\ free' \subseteq Regions /\ gen' \in [Regions -> {-1, Gen}]
      /\ \A r \in free' : gen'[r] = -1 /\ top'[r] = 0
      /\ \A r \in Regions : gen'[r] # Gen
  BY <1>1 DEF Gen
<1> QED
  BY ZenonT(60), <1>1, <1>2, Released

-----------------------------------------------------------------------------
FS == INSTANCE FiniteSetTheorems

\* The library's finite sets and their cardinality are those of the model.
LEMMA SameCardinality ==
  \A S : (IsFiniteSet(S) <=> FS!IsFiniteSet(S)) /\ Cardinality(S) = FS!Cardinality(S)
BY ZenonT(60) DEF IsFiniteSet, FS!IsFiniteSet, Cardinality, FS!Cardinality

\* There are finitely many threads.
LEMMA ThreadCountsHold == ThreadCounts
<1>1. FS!IsFiniteSet(Threads) /\ Cardinality(Threads) \in Nat
  BY ZenonT(60), ThreadAssumption, SameCardinality, FS!FS_CardinalityType
<1>2. ASSUME NEW S \in SUBSET Threads
      PROVE  FS!IsFiniteSet(S) /\ Cardinality(S) \in 0 .. Cardinality(Threads)
  <2>1. FS!IsFiniteSet(S) /\ FS!Cardinality(S) <= FS!Cardinality(Threads)
    BY ZenonT(60), <1>1, FS!FS_Subset
  <2>2. FS!Cardinality(S) \in Nat
    BY ZenonT(60), <2>1, FS!FS_CardinalityType
  <2> QED
    BY <1>1, <2>1, <2>2, SameCardinality
<1>3. ASSUME NEW S \in SUBSET Threads
      PROVE  /\ Cardinality(S) = 0 <=> S = {}
             /\ \A t \in S : Cardinality(S \ {t}) = Cardinality(S) - 1
             /\ \A t \in Threads \ S : Cardinality(S \union {t}) = Cardinality(S) + 1
  BY ZenonT(60), <1>2, SameCardinality, FS!FS_EmptySet, FS!FS_RemoveElement, FS!FS_AddElement
<1> QED
  BY ZenonT(60), <1>1, <1>2, <1>3 DEF ThreadCounts

\* The generation has no region yet.
LEMMA InitHolds == Init => IInv
<1> SUFFICES ASSUME Init PROVE IInv
  BY ZenonT(60)
<1>1. Cardinality(Threads) \in Nat /\ Cardinality({}) = 0
  BY ZenonT(60), ThreadCountsHold DEF ThreadCounts
<1>2. TypeOK
  <2>1. /\ active_tlabs \in [Regions -> 0 .. Cardinality(Threads)]
        /\ top \in [Regions -> 0 .. RegionBlocks] /\ blk \in [Threads -> 0 .. RegionBlocks]
    BY <1>1, BlocksAssumption DEF Init
  <2>2. /\ pc \in [Threads -> Points] /\ kind \in [Threads -> Kinds]
        /\ reg \in [Threads -> Regions \union {NoRegion}]
        /\ buffered \in [Threads -> Regions \union {NoRegion}]
        /\ tlab \in [Threads -> (Regions \X Blocks) \union {NoCard}]
        /\ par_lock \in [Regions -> Threads \union {NoThread}]
    BY ZenonT(60) DEF Init, Points, Kinds
  <2>3. gen \in [Regions -> {-1, Gen}] /\ gen_alloc \in [Regions -> BOOLEAN]
    BY ZenonT(60) DEF Init
  <2> QED
    BY ZenonT(60), <2>1, <2>2 DEF Init, TypeOK
<1>3. Control /\ Locks
  BY ZenonT(60), ThreadAssumption DEF Init, Control, Locks, InTlab, InAlloc
<1>4. Full /\ Flags
  BY DEF Init, Full, Flags, Gen
<1>5. Tlabs
  <2>1. \A r \in Regions : Owners(r) = {}
    BY ZenonT(60), RegionAssumption DEF Init, Owners, NoCard
  <2> QED
    BY ZenonT(60), <1>1, <2>1 DEF Init, Tlabs
<1>6. HeldBlocksKept
  BY ZenonT(60), NoCardApart DEF Init, HeldBlocksKept, HoldsBlock
<1>7. Known /\ Queued /\ Logged
  BY ZenonT(60) DEF Init, Known, Queued, Logged
<1> QED
  BY ZenonT(60), <1>2, <1>3, <1>4, <1>5, <1>6, <1>7 DEF IInv

\* new_alloc_region_and_allocate finds a region or none.
LEMMA NewRegionOutcomes ==
  ASSUME NEW t \in Threads, new_alloc_region_and_allocate(t)
  PROVE  (\E r \in free : Renewed(t, r)) \/ OutOfRegions(t)
  BY ZenonT(60) DEF new_alloc_region_and_allocate, Renewed, OutOfRegions, Goto

\* Every step preserves the invariant.
LEMMA NextPreserves ==
  ASSUME IInv, [Next]_vars
  PROVE  IInv'
<1>1. ASSUME NEW t \in Threads, ThreadStep(t)
      PROVE  IInv'
  <2>1. CASE new_alloc_region_and_allocate(t)
    BY ZenonT(60), <2>1, NewRegionOutcomes, NewRegionStep, NullRegionStep
  <2>2. CASE par_allocate(t)
    BY ZenonT(60), <2>2, CarveStep, RefusedStep
  <2> QED
    BY ZenonT(60), <1>1, <2>1, <2>2, ThreadCountsHold, DecStep, ReadActiveTlabsStep, ReadGenAllocStep,
       EnqueueStep, ReadAllocRegionStep, ParLockStep, LockHeapStep, ClearGenAllocStep, DrainStep,
       ReadTlabsStep, EnqueueRetiredStep, MarkStep, RegisterStep, InitObjectStep, BarrierStep
       DEF ThreadStep
<1>2. ASSUME NEW t \in Threads,
             \/ make_parsable(t, "tlab") \/ make_parsable(t, "exit")
             \/ StartDirect(t)
             \/ \E c \in Followed : Store(t, c)
      PROVE  IInv'
  BY ZenonT(60), <1>2, MakeParsableStep, StartDirectStep, StoreStep
<1>3. CASE Refinement
  BY ZenonT(60), <1>3, ScanStep, RefineStep DEF Refinement
<1>4. CASE Safepoint
  BY ZenonT(60), <1>4, ThreadCountsHold, RebaseStep, PauseStep, FullCollectionStep DEF Safepoint
<1>5. CASE UNCHANGED vars
  <2> USE <1>5 DEF vars, regionVars, tlabVars, flagVars, lockVars, cardVars, locals
  <2>1. TypeOK' /\ Control' /\ Locks'
    BY ZenonT(60) DEF IInv, TypeOK, Control, Locks
  <2>2. Full' /\ Flags' /\ Known'
    BY ZenonT(60) DEF IInv, Full, Flags, Known
  <2>3. Tlabs'
    BY ZenonT(60) DEF IInv, Tlabs, Owners
  <2>4. HeldBlocksKept'
    BY ZenonT(60), HeldFrame DEF HoldsBlock
  <2>5. Queued' /\ Logged'
    BY ZenonT(60) DEF IInv, Queued, Due, Retired, Logged
  <2> QED
    BY ZenonT(60), <2>1, <2>2, <2>3, <2>4, <2>5 DEF IInv
<1> QED
  BY ZenonT(60), <1>1, <1>2, <1>3, <1>4, <1>5 DEF Next

\* The inductive invariant.
LEMMA Invariance == Spec => []IInv
<1>1. Init => IInv
  BY ZenonT(60), InitHolds
<1>2. IInv /\ [Next]_vars => IInv'
  BY ZenonT(60), NextPreserves
<1> QED
  BY <1>1, <1>2, PTL DEF Spec

\* No reference is lost, for any number of threads, regions and blocks: when a
\* region is retired and no TLAB is left in it, the retiring thread or the last
\* TLAB's owner has queued its cards, in whatever order retire_region and
\* del_active_tlab read each other's flag and count.  The cards in missed are
\* the only exceptions.
THEOREM NoReferenceIsLost == Spec => []NoReferenceLost
<1>1. IInv => NoReferenceLost
  <2> SUFFICES ASSUME IInv, NEW c \in unrecorded \ missed, Settled(c[1])
               PROVE  c \in (queue \intersect dirty) \union {refining}
    BY ZenonT(60) DEF NoReferenceLost
  <2>1. ~Due(c[1])
    BY DEF Settled, Due, Retired, Busy
  <2>2. \A t \in Threads : pc[t] = "post" => <<reg[t], blk[t]>> # c
    BY DEF Settled, Busy
  <2>3. c \in dirty \/ c = refining
    BY ZenonT(60), <2>2 DEF IInv, Logged
  <2>4. c \in dirty => c \in queue
    BY ZenonT(60), <2>1 DEF IInv, Queued
  <2> QED
    BY ZenonT(60), <2>3, <2>4
<1> QED
  BY <1>1, Invariance, PTL

\* The remembered sets a pause works with are complete but for the cards in
\* missed: what is not queued is queued when the TLABs and the active region are
\* given up (ensure_parsability and release_gen_alloc_regions).
THEOREM PausesFindReferences == Spec => []PauseFindsReferences
<1>1. IInv => PauseFindsReferences
  BY ZenonT(60), ThreadCountsHold, AtSafepointFacts DEF PauseFindsReferences
<1> QED
  BY <1>1, Invariance, PTL

\* No pause frees or compacts a region under a TLAB or an object being set up,
\* and no block is handed out twice, whatever threads wait on _par_alloc_lock of
\* a region while it is retired, reclaimed and used again.
THEOREM HeldBlocksAreKept == Spec => []HeldBlocksKept
<1>1. IInv => HeldBlocksKept
  BY ZenonT(60) DEF IInv
<1> QED
  BY <1>1, Invariance, PTL

\* A thread that finds room in a region of the generation finds it in the active
\* one, although it read _alloc_region before it got the region's lock.
THEOREM ActiveRegionIsCarved == Spec => []CarvesActiveRegion
<1>1. IInv => CarvesActiveRegion
  <2> SUFFICES ASSUME IInv, NEW t \in Threads, pc[t] = "cas", top[reg[t]] < RegionBlocks,
                      gen[reg[t]] = Gen
               PROVE  reg[t] = alloc_region
    BY ZenonT(60) DEF CarvesActiveRegion
  <2>1. reg[t] \in Regions
    BY ZenonT(60) DEF IInv, Control
  <2>2. top[reg[t]] # RegionBlocks
    BY BlocksAssumption
  <2> QED
    BY ZenonT(60), <2>1, <2>2 DEF IInv, Full
<1> QED
  BY <1>1, Invariance, PTL

\* The types of the state.  _active_tlabs never underflows and top never passes
\* the end of a region.
THEOREM GenRegionsTypes == Spec => []TypeOK
<1>1. IInv => TypeOK
  BY ZenonT(60) DEF IInv
<1> QED
  BY <1>1, Invariance, PTL

=============================================================================
