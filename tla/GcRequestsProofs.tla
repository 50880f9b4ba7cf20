--------------------------- MODULE GcRequestsProofs ---------------------------
(***************************************************************************)
(* The safety of collection requests, for any number of threads, any mix   *)
(* of requests and any number of retries.                                  *)
(*                                                                         *)
(* Each property needs to know where a thread can be with which request    *)
(* (Control) and who holds Heap_lock (HeapLock).  On these rest the GC     *)
(* locker (Locker): its count is exact while it matters because threads    *)
(* then take the slow paths, and one thread at most collects for it.  The  *)
(* epochs (Epochs) and the wait for a cycle (CycleComes) depend on what a  *)
(* request knows when it gives up.                                         *)
(***************************************************************************)
EXTENDS GcRequests, TLAPS

\* A leaf that names no prover is for the SMT solver.
USE SMTT(60)

\* A thread has a request exactly when it is inside the VM for one, and only
\* then copies of the counters.
Control ==
  \A t \in Threads :
    /\ req[t] = "none" <=> pc[t] \in {"java", "jni_lock", "jni_unlock"}
    /\ req[t] = "none" => ~collected[t] /\ ~started[t] /\ ~completed[t]

\* Heap_lock is held from a VM operation's prologue to its epilogue, and while
\* a generation's region is allocated.  Only meanwhile a caller of
\* collect_alloc_gen can miss the epoch of that region.
HeapLock ==
  /\ \A t \in Threads : pc[t] \in {"queued", "epilogue", "publish"} <=> Heap_lock = t
  /\ fetched # {} => \E t \in Threads : pc[t] = "publish"

\* Threads that wait to enter a critical region.
Waiting == {t \in Threads : pc[t] = "jni_lock"}

\* The GC locker.  A count that is not exact is never raised beyond the number
\* of threads by those that wait from the time when it was.
Locker ==
  /\ LockerCountExact
  /\ jni_lock_count + Cardinality(Waiting) <= Cardinality(Threads)
  /\ \A t \in in_critical : pc[t] \in {"java", "jni_unlock"}
  /\ \A t \in Threads : pc[t] = "jni_unlock" => t \in in_critical /\ needs_gc
  /\ doing_gc => in_critical = {} /\ needs_gc

\* The one thread that collects for the locker.
Collector ==
  \A t \in Threads :
    /\ req[t] = "critical" =>
         /\ doing_gc
         /\ \A u \in Threads : req[u] = "critical" => u = t
         /\ pc[t] \in {"read_counts", "prologue", "queued", "epilogue", "after", "merge", "locker_done"}
         /\ pc[t] # "read_counts" => op[t] = "locker"
         /\ pc[t] \in {"epilogue", "after", "merge", "locker_done"} => collected[t]
    /\ op[t] = "locker" => req[t] = "critical" /\ outcome[t] # "failed"
    /\ pc[t] = "locker_done" => req[t] = "critical"

\* A caller of collect_alloc_gen whose epoch is missing still has its collection
\* to come, or will retry.
Epochs ==
  \A t \in behind \union fetched :
    /\ req[t] = "collect_gen" /\ ~started[t]
    /\ pc[t] \in {"read_counts", "prologue", "queued", "epilogue", "after", "stall"}
    /\ pc[t] \in {"prologue", "queued"} => op[t] \in {"initial", "rebase"}
    /\ pc[t] \in {"epilogue", "after"} => op[t] = "initial" /\ outcome[t] = "failed"

\* The wish for a cycle stands until a pause has come: the locker's collector
\* has seen none since it read the count.
CycleComes ==
  \A t \in Threads :
    pc[t] = "wait_cycle" \/ (pc[t] = "epilogue" /\ op[t] = "initial") =>
      \/ completed[t] \/ cm # "idle"
      \/ initiate /\ needs_gc /\ \A u \in Threads : req[u] = "critical" => ~collected[u]

IInv == TypeOK /\ Control /\ HeapLock /\ Locker /\ Collector /\ CyclesNest /\ Epochs /\ CycleComes

-----------------------------------------------------------------------------
(* The count of critical regions. *)

\* What the proofs use of counting sets of threads (ThreadCountsHold, below).
ThreadCounts ==
  /\ \A S \in SUBSET Threads :
       /\ Cardinality(S) \in Nat
       /\ Cardinality(S) = 0 => S = {}
       /\ \A t \in S : Cardinality(S \ {t}) = Cardinality(S) - 1
       /\ \A t \in Threads \ S : Cardinality(S \union {t}) = Cardinality(S) + 1
  /\ \A S, W \in SUBSET Threads :
       S \cap W = {} => Cardinality(S) + Cardinality(W) <= Cardinality(Threads)

\* A thread with a request is in no critical region.
LEMMA Outside ==
  ASSUME IInv, NEW t \in Threads, req[t] # "none"
  PROVE  t \notin in_critical /\ pc[t] \notin {"java", "jni_lock", "jni_unlock"}
  BY ZenonT(60) DEF IInv, Control, Locker

\* A thread in a critical region does not wait to enter one.
LEMMA WaitingApart ==
  ASSUME IInv
  PROVE  in_critical \subseteq Threads /\ Waiting \subseteq Threads /\ in_critical \cap Waiting = {}
  BY ZenonT(60) DEF IInv, TypeOK, Locker, Waiting

\* The sets the locker counts, and its count.
LEMMA CriticalCounts ==
  ASSUME ThreadCounts, IInv
  PROVE  /\ Cardinality(in_critical) \in Nat /\ Cardinality(Waiting) \in Nat
         /\ Cardinality(Threads) \in Nat /\ jni_lock_count \in Nat
         /\ Cardinality(in_critical) + Cardinality(Waiting) <= Cardinality(Threads)
<1>1. /\ Cardinality(in_critical) \in Nat /\ Cardinality(Waiting) \in Nat
      /\ Cardinality(Threads) \in Nat
      /\ Cardinality(in_critical) + Cardinality(Waiting) <= Cardinality(Threads)
  BY ZenonT(60), WaitingApart DEF ThreadCounts
<1>2. jni_lock_count \in 0 .. Cardinality(Threads)
  BY ZenonT(60) DEF IInv, TypeOK
<1> QED
  BY <1>1, <1>2

\* A step that does not concern the locker: the thread that takes it is in no
\* critical region and does not wait for one.
LEMMA LockerKept ==
  ASSUME IInv, NEW t \in Threads, t \notin in_critical, pc[t] \notin {"jni_lock", "jni_unlock"},
         NEW p \in Points \ {"jni_lock", "jni_unlock"}, Goto(t, p), UNCHANGED lockerVars
  PROVE  Locker' /\ jni_lock_count' \in 0 .. Cardinality(Threads)
<1>1. pc' \in [Threads -> Points] /\ pc'[t] = p /\ \A u \in Threads \ {t} : pc'[u] = pc[u]
  BY ZenonT(60) DEF IInv, TypeOK, Goto
<1>2. Waiting' = Waiting
  BY ZenonT(60), <1>1 DEF Waiting
<1> QED
  BY ZenonT(60), <1>1, <1>2 DEF IInv, TypeOK, Locker, LockerCountExact, lockerVars

\* The same when a safepoint counts the critical regions again.
LEMMA LockerCounted ==
  ASSUME ThreadCounts, IInv, NEW t \in Threads, t \notin in_critical,
         pc[t] \notin {"jni_lock", "jni_unlock"},
         NEW p \in Points \ {"jni_lock", "jni_unlock"}, Goto(t, p), CountCritical,
         UNCHANGED <<in_critical, doing_gc>>, needs_gc' \in BOOLEAN, needs_gc => needs_gc'
  PROVE  Locker' /\ jni_lock_count' \in 0 .. Cardinality(Threads)
<1>1. pc' \in [Threads -> Points] /\ pc'[t] = p /\ \A u \in Threads \ {t} : pc'[u] = pc[u]
  BY ZenonT(60) DEF IInv, TypeOK, Goto
<1>2. Waiting' = Waiting
  BY ZenonT(60), <1>1 DEF Waiting
<1>3. /\ Cardinality(in_critical) \in Nat /\ Cardinality(Waiting) \in Nat
      /\ Cardinality(Threads) \in Nat
      /\ Cardinality(in_critical) + Cardinality(Waiting) <= Cardinality(Threads)
  BY ZenonT(60), CriticalCounts
<1>4. jni_lock_count' = Cardinality(in_critical)
  BY ZenonT(60) DEF CountCritical
<1> QED
  BY <1>1, <1>2, <1>3, <1>4 DEF IInv, TypeOK, Locker, LockerCountExact

\* What Return leaves of the thread's record.
LEMMA ReturnTypes ==
  ASSUME TypeOK, NEW t \in Threads, Return(t)
  PROVE  /\ pc' \in [Threads -> Points] /\ req' \in [Threads -> AllRequests \union {"none"}]
         /\ op' \in [Threads -> Ops] /\ outcome' \in [Threads -> Outcomes]
         /\ retries' \in [Threads -> 0 .. LockerRetries + 1]
         /\ collected' \in [Threads -> BOOLEAN] /\ started' \in [Threads -> BOOLEAN]
         /\ completed' \in [Threads -> BOOLEAN]
<1>1. pc' \in [Threads -> Points] /\ req' \in [Threads -> AllRequests \union {"none"}]
  BY ZenonT(60) DEF TypeOK, Return, Goto, Points
<1>2. op' \in [Threads -> Ops] /\ outcome' \in [Threads -> Outcomes]
  BY ZenonT(60) DEF TypeOK, Return, Ops, Outcomes
<1>3. retries' \in [Threads -> 0 .. LockerRetries + 1]
  BY RetriesAssumption DEF TypeOK, Return
<1>4. /\ collected' \in [Threads -> BOOLEAN] /\ started' \in [Threads -> BOOLEAN]
      /\ completed' \in [Threads -> BOOLEAN]
  BY ZenonT(60) DEF TypeOK, Return
<1> QED
  BY ZenonT(60), <1>1, <1>2, <1>3, <1>4

-----------------------------------------------------------------------------
(* Allocation and collect(). *)

\* An allocation enters its slow path.
LEMMA StartAllocStep ==
  ASSUME IInv, NEW t \in Threads, StartAlloc(t)
  PROVE  IInv'
<1>1. Locker' /\ jni_lock_count' \in 0 .. Cardinality(Threads)
  BY ZenonT(60), Outside, LockerKept DEF IInv, TypeOK, Control, Points, StartAlloc, Begin, Goto,
  lockerVars,
     cycleVars, epochVars, countVars
<1>2. TypeOK'
  BY ZenonT(60) DEF IInv, TypeOK, Points, AllRequests, StartAlloc, Begin, Goto, lockerVars, cycleVars,
         epochVars, countVars
<1>3. Control'
  BY ZenonT(60) DEF IInv, TypeOK, Control, StartAlloc, Begin, Goto, countVars
<1>4. HeapLock'
  BY ZenonT(60) DEF IInv, TypeOK, HeapLock, StartAlloc, Begin, Goto, epochVars
<1>5. Collector'
  BY DEF IInv, TypeOK, Collector, StartAlloc, Begin, Goto, lockerVars, countVars
<1>6. CyclesNest'
  BY ZenonT(60) DEF IInv, CyclesNest, StartAlloc, cycleVars
<1>7. Epochs'
  BY ZenonT(60) DEF IInv, TypeOK, Epochs, StartAlloc, Begin, Goto, epochVars, countVars
<1>8. CycleComes'
  BY ZenonT(60) DEF IInv, TypeOK, CycleComes, StartAlloc, Begin, Goto, lockerVars, cycleVars, countVars
<1> QED
  BY ZenonT(60), <1>1, <1>2, <1>3, <1>4, <1>5, <1>6, <1>7, <1>8 DEF IInv

\* The block under Heap_lock: the thread returns, stalls or asks for a pause.
LEMMA SlowStep ==
  ASSUME IInv, NEW t \in Threads, attempt_allocation_slow(t)
  PROVE  IInv'
<1>1. Locker' /\ jni_lock_count' \in 0 .. Cardinality(Threads)
  BY ZenonT(60), Outside, LockerKept DEF IInv, Control, Points, attempt_allocation_slow, Return, Submit
<1>2. TypeOK'
  <2> USE DEF attempt_allocation_slow
  <2>1. UNCHANGED <<Heap_lock, lockerVars, cycleVars, epochVars>> /\ TypeOK
    BY ZenonT(60) DEF IInv
  <2>2. CASE Return(t) /\ room' \in BOOLEAN
    BY ZenonT(60), <2>1, <2>2, ReturnTypes DEF TypeOK, lockerVars, cycleVars, epochVars
  <2>3. CASE /\ Goto(t, "stall") /\ outcome' = [outcome EXCEPT ![t] = "none"]
             /\ UNCHANGED <<room, req, op, retries, countVars>>
    BY ZenonT(60), <2>1, <2>3
       DEF TypeOK, Goto, Points, Outcomes, lockerVars, cycleVars, epochVars, countVars
  <2>4. CASE /\ collected' = [collected EXCEPT ![t] = FALSE] /\ Submit(t, "inc")
             /\ UNCHANGED <<room, req, retries, started, completed>>
    BY ZenonT(60), <2>1, <2>4
       DEF TypeOK, Submit, Goto, Points, Ops, Outcomes, lockerVars, cycleVars, epochVars
  <2> QED
    BY ZenonT(60), <2>1, <2>2, <2>3, <2>4 DEF TypeOK
<1>3. Control'
  BY DEF IInv, TypeOK, Control, attempt_allocation_slow, Return, Submit, Goto, countVars
<1>4. HeapLock'
  BY ZenonT(60) DEF IInv, TypeOK, HeapLock, attempt_allocation_slow, Return, Submit, Goto, epochVars
<1>5. Collector'
  BY DEF IInv, TypeOK, Collector, attempt_allocation_slow, Return, Submit, Goto, lockerVars,
         countVars
<1>6. CyclesNest'
  BY ZenonT(60) DEF IInv, CyclesNest, attempt_allocation_slow, cycleVars
<1>7. Epochs'
  BY DEF IInv, TypeOK, Epochs, attempt_allocation_slow, Return, Submit, Goto, epochVars,
         countVars
<1>8. CycleComes'
  BY DEF IInv, TypeOK, CycleComes, attempt_allocation_slow, Return, Submit, Goto, lockerVars,
         cycleVars, countVars
<1> QED
  BY ZenonT(60), <1>1, <1>2, <1>3, <1>4, <1>5, <1>6, <1>7, <1>8 DEF IInv

\* A stalled allocation gives up or tries again.
LEMMA StallStep ==
  ASSUME IInv, NEW t \in Threads, stall_until_clear(t)
  PROVE  IInv'
<1>1. Locker' /\ jni_lock_count' \in 0 .. Cardinality(Threads)
  BY ZenonT(60), Outside, LockerKept DEF Points, stall_until_clear
<1>2. TypeOK'
  BY RetriesAssumption DEF IInv, TypeOK, Points, stall_until_clear, Goto, lockerVars, cycleVars,
     epochVars, countVars
<1>3. Control'
  BY ZenonT(60) DEF IInv, TypeOK, Control, stall_until_clear, Goto, countVars
<1>4. HeapLock'
  BY ZenonT(60) DEF IInv, TypeOK, HeapLock, stall_until_clear, Goto, epochVars
<1>5. Collector'
  BY DEF IInv, TypeOK, Collector, stall_until_clear, Goto, lockerVars, countVars
<1>6. CyclesNest'
  BY ZenonT(60) DEF IInv, CyclesNest, stall_until_clear, cycleVars
<1>7. Epochs'
  BY ZenonT(60) DEF IInv, TypeOK, Epochs, stall_until_clear, Goto, epochVars, countVars
<1>8. CycleComes'
  BY ZenonT(60) DEF IInv, TypeOK, CycleComes, stall_until_clear, Goto, lockerVars, cycleVars, countVars
<1> QED
  BY <1>1, <1>2, <1>3, <1>4, <1>5, <1>6, <1>7, <1>8 DEF IInv

\* An attempt without Heap_lock.
LEMMA RetryStep ==
  ASSUME IInv, NEW t \in Threads, RetryAllocation(t)
  PROVE  IInv'
<1>1. Locker' /\ jni_lock_count' \in 0 .. Cardinality(Threads)
  BY ZenonT(60), Outside, LockerKept DEF IInv, Control, Points, RetryAllocation, Return
<1>2. TypeOK'
  <2> USE DEF RetryAllocation
  <2>1. UNCHANGED <<Heap_lock, lockerVars, cycleVars, epochVars>> /\ TypeOK
    BY ZenonT(60) DEF IInv
  <2>2. CASE room
    BY ZenonT(60), <2>1, <2>2, ReturnTypes DEF TypeOK, lockerVars, cycleVars, epochVars
  <2>3. CASE ~room
    BY ZenonT(60), <2>1, <2>3 DEF TypeOK, Goto, Points, lockerVars, cycleVars, epochVars, countVars
  <2> QED
    BY ZenonT(60), <2>2, <2>3
<1>3. Control'
  BY DEF IInv, TypeOK, Control, RetryAllocation, Return, Goto, countVars
<1>4. HeapLock'
  BY DEF IInv, TypeOK, HeapLock, RetryAllocation, Return, Goto, epochVars
<1>5. Collector'
  BY DEF IInv, TypeOK, Collector, RetryAllocation, Return, Goto, lockerVars, countVars
<1>6. CyclesNest'
  BY ZenonT(60) DEF IInv, CyclesNest, RetryAllocation, cycleVars
<1>7. Epochs'
  BY DEF IInv, TypeOK, Epochs, RetryAllocation, Return, Goto, epochVars, countVars
<1>8. CycleComes'
  BY DEF IInv, TypeOK, CycleComes, RetryAllocation, Return, Goto, lockerVars, cycleVars,
         countVars
<1> QED
  BY <1>1, <1>2, <1>3, <1>4, <1>5, <1>6, <1>7, <1>8 DEF IInv

\* The last resort of an allocation reads the count of collections anew.
LEMMA CollectForAllocationStep ==
  ASSUME IInv, NEW t \in Threads, CollectForAllocation(t)
  PROVE  IInv'
<1>1. Locker' /\ jni_lock_count' \in 0 .. Cardinality(Threads)
  BY ZenonT(60), Outside, LockerKept DEF IInv, TypeOK, Control, Points, CollectForAllocation, Submit,
  Goto,
     lockerVars, cycleVars, epochVars, countVars
<1>2. TypeOK'
  BY ZenonT(60) DEF IInv, TypeOK, Points, Ops, Outcomes, CollectForAllocation, Submit, Goto, lockerVars,
         cycleVars, epochVars
<1>3. Control'
  BY ZenonT(60) DEF IInv, TypeOK, Control, CollectForAllocation, Submit, Goto
<1>4. HeapLock'
  BY ZenonT(60) DEF IInv, TypeOK, HeapLock, CollectForAllocation, Submit, Goto, epochVars
<1>5. Collector'
  BY DEF IInv, TypeOK, Collector, CollectForAllocation, Submit, Goto, lockerVars
<1>6. CyclesNest'
  BY ZenonT(60) DEF IInv, CyclesNest, CollectForAllocation, cycleVars
<1>7. Epochs'
  BY ZenonT(60) DEF IInv, TypeOK, Epochs, CollectForAllocation, Submit, Goto, epochVars
<1>8. CycleComes'
  BY ZenonT(60) DEF IInv, TypeOK, CycleComes, CollectForAllocation, Submit, Goto, lockerVars, cycleVars
<1> QED
  BY <1>1, <1>2, <1>3, <1>4, <1>5, <1>6, <1>7, <1>8 DEF IInv

\* collect() begins.
LEMMA StartCollectStep ==
  ASSUME IInv, NEW t \in Threads, StartCollect(t)
  PROVE  IInv'
<1>1. Locker' /\ jni_lock_count' \in 0 .. Cardinality(Threads)
  BY ZenonT(60), Outside, LockerKept DEF IInv, TypeOK, Control, Points, StartCollect, Begin, Goto,
     lockerVars, cycleVars, epochVars, countVars
<1>2. TypeOK'
  BY ZenonT(60) DEF IInv, TypeOK, Points, AllRequests, StartCollect, Begin, Goto, lockerVars, cycleVars,
         epochVars, countVars
<1>3. Control'
  BY ZenonT(60) DEF IInv, TypeOK, Control, StartCollect, Begin, Goto, countVars
<1>4. HeapLock'
  BY ZenonT(60) DEF IInv, TypeOK, HeapLock, StartCollect, Begin, Goto, epochVars
<1>5. Collector'
  BY DEF IInv, TypeOK, Collector, StartCollect, Begin, Goto, lockerVars, countVars
<1>6. CyclesNest'
  BY ZenonT(60) DEF IInv, CyclesNest, StartCollect, cycleVars
<1>7. Epochs'
  BY ZenonT(60) DEF IInv, TypeOK, Epochs, StartCollect, Begin, Goto, epochVars, countVars
<1>8. CycleComes'
  BY ZenonT(60) DEF IInv, TypeOK, CycleComes, StartCollect, Begin, Goto, lockerVars, cycleVars,
  countVars
<1> QED
  BY <1>1, <1>2, <1>3, <1>4, <1>5, <1>6, <1>7, <1>8 DEF IInv

\* A new epoch begins: the caller is behind if a region is in use or being taken.
LEMMA CollectAllocGenStep ==
  ASSUME IInv, NEW t \in Threads, collect_alloc_gen(t)
  PROVE  IInv'
<1>1. Locker' /\ jni_lock_count' \in 0 .. Cardinality(Threads)
  BY ZenonT(60), LockerKept DEF Points, collect_alloc_gen, Begin
<1>2. TypeOK'
  BY ZenonT(60) DEF IInv, TypeOK, Points, Ops, AllRequests, collect_alloc_gen, Begin, Goto, lockerVars,
         cycleVars, countVars
<1>3. Control'
  BY ZenonT(60) DEF IInv, TypeOK, Control, collect_alloc_gen, Begin, Goto, countVars
<1>4. HeapLock'
  BY ZenonT(60) DEF IInv, TypeOK, HeapLock, collect_alloc_gen, Begin, Goto
<1>5. Collector'
  BY DEF IInv, TypeOK, Collector, collect_alloc_gen, Begin, Goto, lockerVars, countVars
<1>6. CyclesNest'
  BY ZenonT(60) DEF IInv, CyclesNest, collect_alloc_gen, cycleVars
<1>7. Epochs'
  <2>1. /\ pc'[t] = "read_counts" \/ (pc'[t] = "prologue" /\ op'[t] = "rebase")
        /\ req'[t] = "collect_gen" /\ ~started'[t]
    BY ZenonT(60) DEF IInv, TypeOK, Control, collect_alloc_gen, Begin, Goto, countVars
  <2>2. \A u \in Threads \ {t} : /\ pc'[u] = pc[u] /\ req'[u] = req[u] /\ op'[u] = op[u]
                                 /\ started'[u] = started[u] /\ outcome'[u] = outcome[u]
    BY ZenonT(60) DEF IInv, TypeOK, collect_alloc_gen, Begin, Goto, countVars
  <2>3. behind' \union fetched' \subseteq behind \union fetched \union {t}
    BY ZenonT(60) DEF collect_alloc_gen
  <2>4. behind \union fetched \subseteq Threads
    BY ZenonT(60) DEF IInv, TypeOK
  <2> QED
    BY ZenonT(60), <2>1, <2>2, <2>3, <2>4 DEF IInv, Epochs
<1>8. CycleComes'
  BY ZenonT(60) DEF IInv, TypeOK, CycleComes, collect_alloc_gen, Begin, Goto, lockerVars, cycleVars,
         countVars
<1> QED
  BY <1>1, <1>2, <1>3, <1>4, <1>5, <1>6, <1>7, <1>8 DEF IInv

\* collect() reads the counts and submits the operation of its cause.
LEMMA CollectStep ==
  ASSUME IInv, NEW t \in Threads, collect(t)
  PROVE  IInv'
<1>1. Locker' /\ jni_lock_count' \in 0 .. Cardinality(Threads)
  BY ZenonT(60), Outside, LockerKept DEF IInv, TypeOK, Control, Points, collect, Submit, Goto,
  lockerVars,
     cycleVars, epochVars, countVars
<1>2. TypeOK'
  BY ZenonT(60) DEF IInv, TypeOK, Points, Ops, Outcomes, collect, Submit, Goto, lockerVars, cycleVars,
         epochVars
<1>3. Control'
  BY ZenonT(60) DEF IInv, TypeOK, Control, collect, Submit, Goto
<1>4. HeapLock'
  BY ZenonT(60) DEF IInv, TypeOK, HeapLock, collect, Submit, Goto, epochVars
<1>5. Collector'
  BY DEF IInv, TypeOK, Collector, collect, Submit, Goto, lockerVars
<1>6. CyclesNest'
  BY ZenonT(60) DEF IInv, CyclesNest, collect, cycleVars
<1>7. Epochs'
  BY DEF IInv, TypeOK, Epochs, collect, Submit, Goto, epochVars
<1>8. CycleComes'
  BY ZenonT(60) DEF IInv, TypeOK, CycleComes, collect, Submit, Goto, lockerVars, cycleVars
<1> QED
  BY <1>1, <1>2, <1>3, <1>4, <1>5, <1>6, <1>7, <1>8 DEF IInv

\* A retry of collect() waits for the locker.
LEMMA StallRetryStep ==
  ASSUME IInv, NEW t \in Threads, StallRetry(t)
  PROVE  IInv'
<1>1. Locker' /\ jni_lock_count' \in 0 .. Cardinality(Threads)
  BY ZenonT(60), Outside, LockerKept DEF IInv, TypeOK, Control, Points, StallRetry, Goto, lockerVars,
     cycleVars, epochVars, countVars
<1>2. TypeOK'
  BY ZenonT(60) DEF IInv, TypeOK, Points, StallRetry, Goto, lockerVars, cycleVars, epochVars, countVars
<1>3. Control'
  BY ZenonT(60) DEF IInv, TypeOK, Control, StallRetry, Goto, countVars
<1>4. HeapLock'
  BY ZenonT(60) DEF IInv, TypeOK, HeapLock, StallRetry, Goto, epochVars
<1>5. Collector'
  BY DEF IInv, TypeOK, Collector, StallRetry, Goto, lockerVars, countVars
<1>6. CyclesNest'
  BY ZenonT(60) DEF IInv, CyclesNest, StallRetry, cycleVars
<1>7. Epochs'
  BY ZenonT(60) DEF IInv, TypeOK, Epochs, StallRetry, Goto, epochVars, countVars
<1>8. CycleComes'
  BY ZenonT(60) DEF IInv, TypeOK, CycleComes, StallRetry, Goto, cycleVars, countVars
<1> QED
  BY <1>1, <1>2, <1>3, <1>4, <1>5, <1>6, <1>7, <1>8 DEF IInv

\* A region is taken for the generation; the old one is retired first.
LEMMA NewRegionStep ==
  ASSUME IInv, NEW t \in Threads, allocate_new_region(t)
  PROVE  IInv'
<1>1. Locker' /\ jni_lock_count' \in 0 .. Cardinality(Threads)
  BY ZenonT(60), Outside, LockerKept DEF IInv, TypeOK, Control, Points, allocate_new_region, Begin,
  Goto,
     lockerVars, cycleVars, epochVars, countVars
<1>2. TypeOK'
  BY ZenonT(60), <1>1, RetriesAssumption DEF IInv, TypeOK, Points, Ops, Outcomes, AllRequests,
     allocate_new_region, Begin, Goto, lockerVars, cycleVars, epochVars, countVars
<1>3. Control'
  BY ZenonT(60) DEF IInv, TypeOK, Control, allocate_new_region, Begin, Goto, countVars
<1>4. HeapLock'
  BY ZenonT(60), ThreadsAssumption DEF IInv, TypeOK, HeapLock, allocate_new_region, Begin, Goto
<1>5. Collector'
  BY DEF IInv, TypeOK, Collector, allocate_new_region, Begin, Goto, lockerVars, countVars
<1>6. CyclesNest'
  BY ZenonT(60) DEF IInv, CyclesNest, allocate_new_region, cycleVars
<1>7. Epochs'
  BY ZenonT(60) DEF IInv, TypeOK, Epochs, allocate_new_region, Begin, Goto, countVars
<1>8. CycleComes'
  BY ZenonT(60) DEF IInv, TypeOK, CycleComes, allocate_new_region, Begin, Goto, lockerVars, cycleVars,
  countVars
<1> QED
  BY <1>1, <1>2, <1>3, <1>4, <1>5, <1>6, <1>7, <1>8 DEF IInv

\* The region becomes active: callers that began meanwhile are behind it.
LEMMA PublishStep ==
  ASSUME IInv, NEW t \in Threads, PublishRegion(t)
  PROVE  IInv'
<1>1. Locker' /\ jni_lock_count' \in 0 .. Cardinality(Threads)
  BY ZenonT(60), Outside, LockerKept DEF IInv, TypeOK, Control, Points, PublishRegion, Return, Goto,
     lockerVars, cycleVars, epochVars, countVars
<1>2. TypeOK'
  BY RetriesAssumption
     DEF IInv, TypeOK, Points, Ops, Outcomes, PublishRegion, Return, Goto, lockerVars, cycleVars
<1>3. Control'
  BY ZenonT(60) DEF IInv, TypeOK, Control, PublishRegion, Return, Goto
<1>4. HeapLock'
  BY ZenonT(60), ThreadsAssumption DEF IInv, TypeOK, HeapLock, PublishRegion, Return, Goto
<1>5. Collector'
  BY DEF IInv, TypeOK, Collector, PublishRegion, Return, Goto, lockerVars
<1>6. CyclesNest'
  BY ZenonT(60) DEF IInv, CyclesNest, PublishRegion, cycleVars
<1>7. Epochs'
  BY ZenonT(60) DEF IInv, TypeOK, Epochs, PublishRegion, Return, Goto
<1>8. CycleComes'
  BY ZenonT(60) DEF IInv, TypeOK, CycleComes, PublishRegion, Return, Goto, lockerVars, cycleVars
<1> QED
  BY <1>1, <1>2, <1>3, <1>4, <1>5, <1>6, <1>7, <1>8 DEF IInv

\* The operation takes Heap_lock or is skipped; collect_alloc_gen never skips.
LEMMA PrologueStep ==
  ASSUME ThreadCounts, IInv, NEW t \in Threads, doit_prologue(t)
  PROVE  IInv'
<1>1. Locker' /\ jni_lock_count' \in 0 .. Cardinality(Threads)
  BY ZenonT(60), Outside, LockerKept DEF IInv, Control, Points, doit_prologue
<1>2. TypeOK'
  BY ZenonT(60) DEF IInv, TypeOK, Points, Outcomes, doit_prologue, Goto, lockerVars, cycleVars,
  epochVars,
         countVars
<1>3. Control'
  BY ZenonT(60) DEF IInv, TypeOK, Control, doit_prologue, Goto, countVars
<1>4. HeapLock'
  BY ThreadsAssumption DEF IInv, TypeOK, HeapLock, doit_prologue, Goto, epochVars
<1>5. Collector'
  <2>1. req[t] = "critical" => ~(needs_gc /\ jni_lock_count > 0)
    BY CriticalCounts DEF ThreadCounts, IInv, TypeOK, Collector, Locker, LockerCountExact
  <2>2. \A u \in Threads \ {t} : pc'[u] = pc[u] /\ outcome'[u] = outcome[u]
    BY ZenonT(60) DEF IInv, TypeOK, doit_prologue, Goto
  <2>3. \/ pc'[t] = "queued" /\ outcome' = outcome
        \/ pc'[t] = "after" /\ MaySkip(t) /\ outcome'[t] = "skipped"
    BY ZenonT(60) DEF IInv, TypeOK, doit_prologue, Goto
  <2>4. req' = req /\ op' = op /\ collected' = collected /\ doing_gc' = doing_gc /\ pc[t] = "prologue"
    BY ZenonT(60) DEF doit_prologue, lockerVars, countVars
  <2> QED
    BY <2>1, <2>2, <2>3, <2>4 DEF IInv, Collector, MaySkip
<1>6. CyclesNest'
  BY ZenonT(60) DEF IInv, CyclesNest, doit_prologue, cycleVars
<1>7. Epochs'
  BY DEF IInv, TypeOK, Epochs, doit_prologue, MaySkip, Goto, epochVars, countVars
<1>8. CycleComes'
  BY ZenonT(60) DEF IInv, TypeOK, CycleComes, doit_prologue, Goto, lockerVars, cycleVars, countVars
<1> QED
  BY ZenonT(60), <1>1, <1>2, <1>3, <1>4, <1>5, <1>6, <1>7, <1>8 DEF IInv

\* Heap_lock is released, and a concurrent System.gc() starts to wait.
LEMMA EpilogueStep ==
  ASSUME IInv, NEW t \in Threads, doit_epilogue(t)
  PROVE  IInv'
<1>1. Locker' /\ jni_lock_count' \in 0 .. Cardinality(Threads)
  BY ZenonT(60), Outside, LockerKept DEF IInv, TypeOK, Control, Points, doit_epilogue, Goto, lockerVars,
     cycleVars, epochVars, countVars
<1>2. TypeOK'
  BY ZenonT(60) DEF IInv, TypeOK, Points, doit_epilogue, Goto, lockerVars, cycleVars, epochVars,
  countVars
<1>3. Control'
  BY ZenonT(60) DEF IInv, TypeOK, Control, doit_epilogue, Goto, countVars
<1>4. HeapLock'
  BY ZenonT(60), ThreadsAssumption DEF IInv, TypeOK, HeapLock, doit_epilogue, Goto, epochVars
<1>5. Collector'
  BY DEF IInv, TypeOK, Collector, doit_epilogue, Goto, lockerVars, countVars
<1>6. CyclesNest'
  BY ZenonT(60) DEF IInv, CyclesNest, doit_epilogue, cycleVars
<1>7. Epochs'
  BY ZenonT(60) DEF IInv, TypeOK, Epochs, doit_epilogue, Goto, epochVars, countVars
<1>8. CycleComes'
  BY ZenonT(60) DEF IInv, TypeOK, CycleComes, doit_epilogue, Goto, lockerVars, cycleVars, countVars
<1> QED
  BY <1>1, <1>2, <1>3, <1>4, <1>5, <1>6, <1>7, <1>8 DEF IInv

\* The wait ends with a completed cycle.
LEMMA WaitCycleStep ==
  ASSUME IInv, NEW t \in Threads, WaitCycle(t)
  PROVE  IInv'
<1>1. Locker' /\ jni_lock_count' \in 0 .. Cardinality(Threads)
  BY ZenonT(60), Outside, LockerKept DEF IInv, TypeOK, Control, Points, WaitCycle, Goto, lockerVars,
     cycleVars, epochVars, countVars
<1>2. TypeOK'
  BY ZenonT(60) DEF IInv, TypeOK, Points, WaitCycle, Goto, lockerVars, cycleVars, epochVars, countVars
<1>3. Control'
  BY ZenonT(60) DEF IInv, TypeOK, Control, WaitCycle, Goto, countVars
<1>4. HeapLock'
  BY ZenonT(60) DEF IInv, TypeOK, HeapLock, WaitCycle, Goto, epochVars
<1>5. Collector'
  BY ZenonT(60) DEF IInv, TypeOK, Collector, WaitCycle, Goto, lockerVars, countVars
<1>6. CyclesNest'
  BY ZenonT(60) DEF IInv, CyclesNest, WaitCycle, cycleVars
<1>7. Epochs'
  BY ZenonT(60) DEF IInv, TypeOK, Epochs, WaitCycle, Goto, epochVars, countVars
<1>8. CycleComes'
  BY ZenonT(60) DEF IInv, TypeOK, CycleComes, WaitCycle, Goto, lockerVars, cycleVars, countVars
<1> QED
  BY <1>1, <1>2, <1>3, <1>4, <1>5, <1>6, <1>7, <1>8 DEF IInv

\* A request ends or is made again: collect_alloc_gen only ends when not behind.
LEMMA AfterStep ==
  ASSUME IInv, NEW t \in Threads, After(t)
  PROVE  IInv'
<1>1. Locker' /\ jni_lock_count' \in 0 .. Cardinality(Threads)
  BY ZenonT(60), Outside, LockerKept DEF IInv, Control, Points, After, Return
<1>2. TypeOK'
  <2>1. UNCHANGED <<Heap_lock, room, lockerVars, cycleVars, epochVars>> /\ TypeOK
    BY ZenonT(60) DEF IInv, After
  <2>2. CASE Return(t)
    BY ZenonT(60), <2>1, <2>2, ReturnTypes DEF TypeOK, lockerVars, cycleVars, epochVars
  <2>3. CASE \E p \in Points : Goto(t, p) /\ UNCHANGED <<req, op, outcome, retries, countVars>>
    BY ZenonT(60), <2>1, <2>3 DEF TypeOK, Goto, lockerVars, cycleVars, epochVars, countVars
  <2> QED
    BY ZenonT(60), <2>2, <2>3 DEF After, Points
<1>3. Control'
  BY DEF IInv, TypeOK, Control, After, Return, Goto, countVars
<1>4. HeapLock'
  BY DEF IInv, TypeOK, HeapLock, After, Return, Goto, epochVars
<1>5. Collector'
  BY DEF IInv, TypeOK, Collector, After, Return, collect_retries, Goto, lockerVars, countVars
<1>6. CyclesNest'
  BY ZenonT(60) DEF IInv, CyclesNest, After, cycleVars
<1>7. Epochs'
  BY DEF IInv, TypeOK, Epochs, After, Return, collect_retries, Goto, epochVars, countVars
<1>8. CycleComes'
  BY DEF IInv, TypeOK, CycleComes, After, Return, Goto, lockerVars, cycleVars, countVars
<1> QED
  BY <1>1, <1>2, <1>3, <1>4, <1>5, <1>6, <1>7, <1>8 DEF IInv

\* The profiling operation counts the critical regions like any safepoint.
LEMMA MergeStep ==
  ASSUME ThreadCounts, IInv, NEW t \in Threads, MergeAllocCounters(t)
  PROVE  IInv'
<1>1. Locker' /\ jni_lock_count' \in 0 .. Cardinality(Threads)
  BY ZenonT(60), Outside, LockerCounted DEF IInv, TypeOK, Control, Points, MergeAllocCounters, Return
<1>2. TypeOK'
  <2>1. UNCHANGED <<Heap_lock, room, in_critical, needs_gc, doing_gc, cycleVars, epochVars>> /\ TypeOK
    BY ZenonT(60) DEF IInv, MergeAllocCounters
  <2>2. CASE Return(t)
    BY ZenonT(60), <1>1, <2>1, <2>2, ReturnTypes DEF TypeOK, cycleVars, epochVars
  <2>3. CASE \E p \in Points : Goto(t, p) /\ UNCHANGED <<req, op, outcome, retries, countVars>>
    BY ZenonT(60), <1>1, <2>1, <2>3 DEF TypeOK, Goto, cycleVars, epochVars, countVars
  <2> QED
    BY ZenonT(60), <2>2, <2>3 DEF MergeAllocCounters, Points
<1>3. Control'
  BY DEF IInv, TypeOK, Control, MergeAllocCounters, Return, Goto, countVars
<1>4. HeapLock'
  BY DEF IInv, TypeOK, HeapLock, MergeAllocCounters, Return, Goto, epochVars
<1>5. Collector'
  BY DEF IInv, TypeOK, Collector, MergeAllocCounters, Return, Goto, countVars
<1>6. CyclesNest'
  BY ZenonT(60) DEF IInv, CyclesNest, MergeAllocCounters, cycleVars
<1>7. Epochs'
  BY DEF IInv, TypeOK, Epochs, MergeAllocCounters, Return, Goto, epochVars, countVars
<1>8. CycleComes'
  BY DEF IInv, TypeOK, CycleComes, MergeAllocCounters, Return, Goto, cycleVars, countVars
<1> QED
  BY ZenonT(60), <1>1, <1>2, <1>3, <1>4, <1>5, <1>6, <1>7, <1>8 DEF IInv

\* The collector for the locker reopens the critical regions.
LEMMA LockerDoneStep ==
  ASSUME IInv, NEW t \in Threads, LockerDone(t)
  PROVE  IInv'
<1>1. /\ req[t] = "critical" /\ collected[t] /\ in_critical = {} /\ needs_gc
      /\ \A u \in Threads : pc[u] # "jni_unlock"
  BY ZenonT(60) DEF LockerDone, IInv, Collector, Locker
<1>2. /\ doing_gc' = FALSE /\ needs_gc' = FALSE /\ Return(t) /\ pc[t] = "locker_done"
      /\ UNCHANGED <<Heap_lock, room, in_critical, jni_lock_count, cycleVars, epochVars>>
  BY ZenonT(60) DEF LockerDone
<1>3. Locker' /\ jni_lock_count' \in 0 .. Cardinality(Threads)
  <2>1. pc'[t] = "java" /\ \A u \in Threads \ {t} : pc'[u] = pc[u]
    BY ZenonT(60), <1>2 DEF IInv, TypeOK, Return, Goto
  <2>2. Waiting' = Waiting
    BY ZenonT(60), <1>2, <2>1 DEF Waiting
  <2> QED
    BY ZenonT(60), <1>1, <1>2, <2>1, <2>2 DEF IInv, TypeOK, Locker, LockerCountExact
<1>4. TypeOK'
  BY ZenonT(60), <1>3, <1>2, ReturnTypes DEF IInv, TypeOK, cycleVars, epochVars
<1>5. Control'
  BY ZenonT(60) DEF IInv, TypeOK, Control, LockerDone, Return, Goto
<1>6. HeapLock'
  BY ZenonT(60) DEF IInv, TypeOK, HeapLock, LockerDone, Return, Goto, epochVars
<1>7. Collector'
  BY DEF IInv, TypeOK, Collector, LockerDone, Return, Goto
<1>8. CyclesNest'
  BY ZenonT(60) DEF IInv, CyclesNest, LockerDone, cycleVars
<1>9. Epochs'
  BY ZenonT(60) DEF IInv, TypeOK, Epochs, LockerDone, Return, Goto, epochVars
<1>10. CycleComes'
  <2>1. \A u \in Threads : pc[u] = "wait_cycle" \/ (pc[u] = "epilogue" /\ op[u] = "initial") =>
          completed[u] \/ cm # "idle"
    BY ZenonT(60), <1>1 DEF IInv, CycleComes
  <2>2. pc'[t] = "java" /\ \A u \in Threads \ {t} : /\ pc'[u] = pc[u] /\ op'[u] = op[u]
                                                    /\ completed'[u] = completed[u]
    BY ZenonT(60), <1>2 DEF IInv, TypeOK, Return, Goto
  <2> QED
    BY ZenonT(60), <1>2, <2>1, <2>2 DEF CycleComes, cycleVars
<1> QED
  BY <1>3, <1>4, <1>5, <1>6, <1>7, <1>8, <1>9, <1>10 DEF IInv

-----------------------------------------------------------------------------
(* The VM operations.  Each ends in one of four ways. *)

\* The VM operation of t, which holds Heap_lock, is over: no region is being
\* allocated and no other operation is under way.
Finished(t, o) ==
  /\ pc' \in [Threads -> Points] /\ outcome' \in [Threads -> Outcomes]
  /\ req[t] # "none" /\ Heap_lock = t /\ fetched = {}
  /\ pc'[t] = "epilogue" /\ outcome'[t] = o
  /\ \A u \in Threads \ {t} : /\ pc'[u] = pc[u] /\ outcome'[u] = outcome[u]
                              /\ pc[u] \notin {"queued", "epilogue", "publish"}
  /\ UNCHANGED <<Heap_lock, in_critical, doing_gc, req, op, retries>>

\* What the end of an operation leaves: the outcome and an exact count.
LEMMA FinishStep ==
  ASSUME ThreadCounts, IInv, NEW t \in Threads, pc[t] = "queued", NEW o \in Outcomes, Finish(t, o),
         needs_gc' \in BOOLEAN, needs_gc => needs_gc'
  PROVE  Finished(t, o) /\ Locker' /\ jni_lock_count' \in 0 .. Cardinality(Threads)
<1>1. /\ pc' = [pc EXCEPT ![t] = "epilogue"] /\ outcome' = [outcome EXCEPT ![t] = o]
      /\ CountCritical /\ Goto(t, "epilogue")
      /\ UNCHANGED <<Heap_lock, in_critical, doing_gc, req, op, retries>>
  BY ZenonT(60) DEF Finish, Goto
<1>2. req[t] # "none" /\ Heap_lock = t /\ fetched = {}
  BY ZenonT(60) DEF IInv, Control, HeapLock
<1>3. Locker' /\ jni_lock_count' \in 0 .. Cardinality(Threads)
  BY ZenonT(60), <1>1, <1>2, Outside, LockerCounted DEF Points
<1>4. /\ pc' \in [Threads -> Points] /\ outcome' \in [Threads -> Outcomes]
      /\ pc'[t] = "epilogue" /\ outcome'[t] = o
      /\ \A u \in Threads \ {t} : pc'[u] = pc[u] /\ outcome'[u] = outcome[u]
  BY ZenonT(60), <1>1 DEF IInv, TypeOK, Points
<1>5. \A u \in Threads \ {t} : pc[u] \notin {"queued", "epilogue", "publish"}
  BY ZenonT(60), <1>2 DEF IInv, HeapLock
<1> QED
  BY ZenonT(60), <1>1, <1>2, <1>3, <1>4, <1>5 DEF Finished

\* What a requester has noticed of a counter.
LEMMA NoticedTypes ==
  ASSUME NEW f \in [Threads -> BOOLEAN]
  PROVE  /\ Noticed(f) \in [Threads -> BOOLEAN]
         /\ \A u \in Threads : Noticed(f)[u] <=> f[u] \/ req[u] # "none"
  BY ZenonT(60) DEF Noticed

\* No collection: there was room, or a cycle was in progress, or the generation
\* was rebased.
LEMMA FinishOnly ==
  ASSUME ThreadCounts, IInv, NEW t \in Threads, pc[t] = "queued", NEW o \in Outcomes, Finish(t, o),
         UNCHANGED <<needs_gc, cycleVars, collected, started, fetched>>, room' \in BOOLEAN,
         active' \in BOOLEAN, behind' \subseteq behind, op[t] = "rebase" => behind' = {},
         op[t] = "initial" => o = "failed" /\ cm # "idle", op[t] # "locker",
         completed' = completed \/ completed' = [completed EXCEPT ![t] = FALSE]
  PROVE  IInv'
<1>1. Finished(t, o) /\ Locker' /\ jni_lock_count' \in 0 .. Cardinality(Threads)
  BY ZenonT(60), FinishStep DEF IInv, TypeOK
<1>2. TypeOK'
  BY ZenonT(60), <1>1 DEF Finished, IInv, TypeOK, cycleVars
<1>3. Control'
  BY ZenonT(60), <1>1 DEF Finished, IInv, TypeOK, Control
<1>4. HeapLock'
  BY ZenonT(60), <1>1 DEF Finished, HeapLock
<1>5. Collector'
  BY <1>1 DEF Finished, IInv, TypeOK, Collector
<1>6. CyclesNest'
  BY ZenonT(60) DEF IInv, CyclesNest, cycleVars
<1>7. Epochs'
  BY <1>1 DEF Finished, IInv, TypeOK, Epochs
<1>8. CycleComes'
  BY ZenonT(60), <1>1 DEF Finished, IInv, TypeOK, CycleComes, cycleVars
<1> QED
  BY ZenonT(60), <1>1, <1>2, <1>3, <1>4, <1>5, <1>6, <1>7, <1>8 DEF IInv

\* The locker keeps the collection from happening.  A thread is in a critical
\* region, so nobody collects for the locker.
LEMMA LockedOutStep ==
  ASSUME ThreadCounts, IInv, NEW t \in Threads, pc[t] = "queued", LockedOut(t),
         initiate' \in BOOLEAN, initiate => initiate',
         op[t] # "rebase", op[t] = "initial" => initiate',
         completed' = completed \/ completed' = [completed EXCEPT ![t] = FALSE]
  PROVE  IInv'
<1>1. /\ Finish(t, "failed") /\ needs_gc' = TRUE /\ in_critical # {}
      /\ UNCHANGED <<room, open_cycles, cm, active, behind, fetched, collected, started>>
  BY ZenonT(60) DEF LockedOut, epochVars
<1>2. Finished(t, "failed") /\ Locker' /\ jni_lock_count' \in 0 .. Cardinality(Threads)
  <2>1. "failed" \in Outcomes
    BY ZenonT(60) DEF Outcomes
  <2> QED
    BY ZenonT(60), <1>1, <2>1, FinishStep
<1>3. \A u \in Threads : req[u] # "critical" /\ op[u] # "locker"
  BY ZenonT(60), <1>1 DEF IInv, Locker, Collector
<1>4. TypeOK'
  BY ZenonT(60), <1>1, <1>2 DEF Finished, IInv, TypeOK
<1>5. Control'
  BY ZenonT(60), <1>1, <1>2 DEF Finished, IInv, TypeOK, Control
<1>6. HeapLock'
  BY ZenonT(60), <1>1, <1>2 DEF Finished, HeapLock
<1>7. Collector'
  BY ZenonT(60), <1>2, <1>3 DEF Finished, IInv, TypeOK, Collector
<1>8. CyclesNest'
  BY ZenonT(60), <1>1 DEF IInv, CyclesNest
<1>9. Epochs'
  BY <1>1, <1>2 DEF Finished, IInv, TypeOK, Epochs
<1>10. CycleComes'
  BY ZenonT(60), <1>1, <1>2, <1>3 DEF Finished, IInv, TypeOK, CycleComes
<1> QED
  BY ZenonT(60), <1>2, <1>4, <1>5, <1>6, <1>7, <1>8, <1>9, <1>10 DEF IInv

\* An evacuation pause.  It retires the generation's region, and it starts the
\* cycle that a thread wished for, if none is in progress.
LEMMA PauseStep ==
  ASSUME ThreadCounts, IInv, NEW t \in Threads, pc[t] = "queued",
         NEW ask \in BOOLEAN, NEW o \in {"allocated", "collected"},
         do_collection_pause_at_safepoint(t, ask, o), initiate => ask,
         op[t] = "initial" => ask /\ cm = "idle",
         completed' = completed \/ completed' = [completed EXCEPT ![t] = FALSE]
  PROVE  IInv'
<1>1. /\ Finish(t, o) /\ UNCHANGED <<needs_gc, fetched>> /\ room' \in BOOLEAN
      /\ active' = FALSE /\ behind' = {} /\ collected' = Noticed(collected)
      /\ initiate' \in BOOLEAN
      /\ \/ /\ ask /\ cm = "idle" /\ open_cycles' = open_cycles + 1 /\ cm' = "marking"
            /\ started' = Noticed(started)
         \/ ~(ask /\ cm = "idle") /\ UNCHANGED <<open_cycles, cm, started>>
  BY ZenonT(60) DEF do_collection_pause_at_safepoint
<1>2. Finished(t, o) /\ Locker' /\ jni_lock_count' \in 0 .. Cardinality(Threads)
  BY ZenonT(60), <1>1, FinishStep DEF Outcomes, IInv, TypeOK
<1>3. /\ collected' \in [Threads -> BOOLEAN] /\ started' \in [Threads -> BOOLEAN]
      /\ \A u \in Threads : collected'[u] <=> collected[u] \/ req[u] # "none"
      /\ \A u \in Threads : started'[u] => started[u] \/ req[u] # "none"
  BY <1>1, NoticedTypes DEF IInv, TypeOK
<1>4. CyclesNest' /\ open_cycles' \in 0 .. 2 /\ cm' \in {"idle", "marking", "finishing"}
  BY <1>1 DEF IInv, TypeOK, CyclesNest
<1>5. TypeOK'
  BY ZenonT(60), <1>1, <1>2, <1>3, <1>4 DEF Finished, IInv, TypeOK
<1>6. Control'
  BY ZenonT(60), <1>2, <1>3 DEF Finished, IInv, TypeOK, Control
<1>7. HeapLock'
  BY ZenonT(60), <1>1, <1>2 DEF Finished, HeapLock
<1>8. Collector'
  BY <1>2, <1>3 DEF Finished, IInv, TypeOK, Collector
<1>9. Epochs'
  BY ZenonT(60), <1>1, <1>2 DEF Finished, Epochs
<1>10. CycleComes'
  <2>1. cm # "idle" \/ ask => cm' # "idle"
    BY ZenonT(60), <1>1
  <2> QED
    BY ZenonT(60), <1>2, <2>1 DEF Finished, IInv, TypeOK, CycleComes
<1> QED
  BY ZenonT(60), <1>2, <1>4, <1>5, <1>6, <1>7, <1>8, <1>9, <1>10 DEF IInv

\* A full collection, which is never the locker's own.  Whoever waits for a
\* cycle takes it for one.
LEMMA CollectionStep ==
  ASSUME ThreadCounts, IInv, NEW t \in Threads, pc[t] = "queued", NEW o \in {"allocated", "collected"},
         do_collection(t, o), op[t] \in {"full", "for_alloc"}
  PROVE  IInv'
<1>1. /\ Finish(t, o) /\ UNCHANGED <<needs_gc, fetched, open_cycles>> /\ room' \in BOOLEAN
      /\ active' = FALSE /\ behind' = {} /\ collected' = Noticed(collected)
      /\ initiate' = FALSE /\ started' = Noticed(started) /\ completed' = Noticed(completed)
      /\ cm' = IF cm = "marking" THEN "finishing" ELSE cm
  BY ZenonT(60) DEF do_collection
<1>2. Finished(t, o) /\ Locker' /\ jni_lock_count' \in 0 .. Cardinality(Threads)
  BY ZenonT(60), <1>1, FinishStep DEF Outcomes, IInv, TypeOK
<1>3. /\ collected' \in [Threads -> BOOLEAN] /\ started' \in [Threads -> BOOLEAN]
      /\ completed' \in [Threads -> BOOLEAN]
      /\ \A u \in Threads : /\ collected'[u] <=> collected[u] \/ req[u] # "none"
                            /\ started'[u] <=> started[u] \/ req[u] # "none"
                            /\ completed'[u] <=> completed[u] \/ req[u] # "none"
  BY ZenonT(60), <1>1, NoticedTypes DEF IInv, TypeOK
<1>4. CyclesNest' /\ cm' \in {"idle", "marking", "finishing"}
  BY ZenonT(60), <1>1 DEF IInv, TypeOK, CyclesNest
<1>5. TypeOK'
  BY ZenonT(60), <1>1, <1>2, <1>3, <1>4 DEF Finished, IInv, TypeOK
<1>6. Control'
  BY ZenonT(60), <1>2, <1>3 DEF Finished, IInv, TypeOK, Control
<1>7. HeapLock'
  BY ZenonT(60), <1>1, <1>2 DEF Finished, HeapLock
<1>8. Collector'
  BY <1>2, <1>3 DEF Finished, IInv, TypeOK, Collector
<1>9. Epochs'
  BY ZenonT(60), <1>1, <1>2 DEF Finished, Epochs
<1>10. CycleComes'
  BY ZenonT(60), <1>2, <1>3 DEF Finished, IInv, TypeOK, Control, CycleComes
<1> QED
  BY ZenonT(60), <1>2, <1>4, <1>5, <1>6, <1>7, <1>8, <1>9, <1>10 DEF IInv

\* The six VM operations are instances of the four cases above.
LEMMA DoitStep ==
  ASSUME ThreadCounts, IInv, NEW t \in Threads,
         \/ DoitInc(t) \/ DoitLocker(t) \/ DoitInitial(t)
         \/ DoitFull(t) \/ DoitForAlloc(t) \/ DoitRebase(t)
  PROVE  IInv'
<1>0. initiate \in BOOLEAN /\ active \in BOOLEAN
  BY ZenonT(60) DEF IInv, TypeOK
<1>1. CASE DoitInc(t)
  <2>1. CASE room /\ room' \in BOOLEAN /\ Finish(t, "allocated")
             /\ UNCHANGED <<needs_gc, cycleVars, epochVars, collected, started>>
    BY ZenonT(60), <1>0, <1>1, <2>1, FinishOnly DEF DoitInc, Outcomes, epochVars
  <2>2. CASE LockedOut(t) /\ UNCHANGED initiate
    BY ZenonT(60), <1>0, <1>1, <2>2, LockedOutStep DEF DoitInc
  <2>3. CASE \E o \in {"allocated", "collected"} : do_collection_pause_at_safepoint(t, initiate, o)
    BY ZenonT(60), <1>0, <1>1, <2>3, PauseStep DEF DoitInc
  <2> QED
    BY ZenonT(60), <1>1, <2>1, <2>2, <2>3 DEF DoitInc
<1>2. CASE DoitLocker(t)
  BY ZenonT(60), <1>0, <1>2, LockedOutStep, PauseStep DEF DoitLocker
<1>3. CASE DoitInitial(t)
  <2>1. CASE cm # "idle" /\ Finish(t, "failed")
             /\ UNCHANGED <<room, needs_gc, cycleVars, epochVars, collected, started>>
    <3>1. room' \in BOOLEAN
      BY ZenonT(60), <2>1 DEF IInv, TypeOK
    <3> QED
      BY ZenonT(60), <1>0, <1>3, <2>1, <3>1, FinishOnly DEF DoitInitial, Outcomes, epochVars
  <2>2. CASE LockedOut(t) /\ initiate' = TRUE
    BY ZenonT(60), <1>3, <2>2, LockedOutStep DEF DoitInitial
  <2>3. CASE cm = "idle" /\ do_collection_pause_at_safepoint(t, TRUE, "collected")
    BY ZenonT(60), <1>0, <1>3, <2>3, PauseStep DEF DoitInitial
  <2> QED
    BY ZenonT(60), <1>3, <2>1, <2>2, <2>3 DEF DoitInitial
<1>4. CASE DoitFull(t)
  BY ZenonT(60), <1>0, <1>4, LockedOutStep, CollectionStep DEF DoitFull
<1>5. CASE DoitForAlloc(t)
  <2>1. CASE room' \in BOOLEAN /\ Finish(t, "allocated")
             /\ UNCHANGED <<needs_gc, cycleVars, epochVars, countVars>>
    BY ZenonT(60), <1>0, <1>5, <2>1, FinishOnly DEF DoitForAlloc, Outcomes, epochVars, countVars
  <2>2. CASE LockedOut(t) /\ UNCHANGED <<initiate, completed>>
    BY ZenonT(60), <1>0, <1>5, <2>2, LockedOutStep DEF DoitForAlloc
  <2>3. CASE \E o \in {"allocated", "collected"} : do_collection(t, o)
    BY ZenonT(60), <1>5, <2>3, CollectionStep DEF DoitForAlloc
  <2> QED
    BY ZenonT(60), <1>5, <2>1, <2>2, <2>3 DEF DoitForAlloc
<1>6. CASE DoitRebase(t)
  <2>1. room' \in BOOLEAN
    BY ZenonT(60), <1>6 DEF DoitRebase, IInv, TypeOK
  <2> QED
    BY ZenonT(60), <1>0, <1>6, <2>1, FinishOnly DEF DoitRebase, Outcomes, countVars
<1> QED
  BY ZenonT(60), <1>1, <1>2, <1>3, <1>4, <1>5, <1>6

-----------------------------------------------------------------------------
(* The slow and the fast paths of the locker. *)

\* A thread enters a critical region, or must wait because a collection is needed.
LEMMA LockStep ==
  ASSUME ThreadCounts, IInv, NEW t \in Threads, lock_critical(t)
  PROVE  IInv'
<1>1. req[t] = "none"
  BY ZenonT(60) DEF lock_critical, IInv, Control
<1>2. Locker' /\ jni_lock_count' \in 0 .. Cardinality(Threads)
  <2>1. CASE needs_gc
    <3>1. Waiting' = Waiting \union {t} /\ Waiting' \subseteq Threads /\ in_critical \cap Waiting' = {}
      BY <2>1, WaitingApart DEF lock_critical, Goto, Waiting, IInv, TypeOK
    <3>2. jni_lock_count = Cardinality(in_critical)
      BY ZenonT(60), <2>1 DEF IInv, Locker, LockerCountExact
    <3>3. jni_lock_count + Cardinality(Waiting') <= Cardinality(Threads)
      BY ZenonT(60), <3>1, <3>2, WaitingApart DEF ThreadCounts
    <3> QED
      BY <3>3 DEF lock_critical, Goto, IInv, TypeOK, Locker, LockerCountExact
  <2>2. CASE ~needs_gc
    <3>1. Waiting' = Waiting
      BY ZenonT(60), <2>2 DEF lock_critical, Waiting
    <3> QED
      BY ZenonT(60), <2>2, <3>1 DEF lock_critical, IInv, TypeOK, Locker, LockerCountExact
  <2> QED
    BY ZenonT(60), <2>1, <2>2
<1>3. TypeOK'
  BY ZenonT(60) DEF lock_critical, Goto, IInv, TypeOK, Points, cycleVars, epochVars, countVars
<1>4. Control'
  BY ZenonT(60) DEF lock_critical, Goto, IInv, TypeOK, Control, countVars
<1>5. HeapLock'
  BY ZenonT(60) DEF lock_critical, Goto, IInv, TypeOK, HeapLock, epochVars
<1>6. Collector'
  BY DEF lock_critical, Goto, IInv, TypeOK, Collector, countVars
<1>7. CyclesNest'
  BY ZenonT(60) DEF lock_critical, IInv, CyclesNest, cycleVars
<1>8. Epochs'
  BY ZenonT(60) DEF lock_critical, Goto, IInv, TypeOK, Epochs, epochVars, countVars
<1>9. CycleComes'
  BY ZenonT(60) DEF lock_critical, Goto, IInv, TypeOK, CycleComes, cycleVars, countVars
<1> QED
  BY <1>2, <1>3, <1>4, <1>5, <1>6, <1>7, <1>8, <1>9 DEF IInv

\* A thread leaves a critical region by the fast or the slow path.
LEMMA UnlockStep ==
  ASSUME IInv, NEW t \in Threads, unlock_critical(t)
  PROVE  IInv'
<1>1. req[t] = "none"
  BY ZenonT(60) DEF unlock_critical, IInv, Control
<1>2. Locker' /\ jni_lock_count' \in 0 .. Cardinality(Threads)
  <2>1. Waiting' = Waiting
    BY ZenonT(60) DEF unlock_critical, Goto, Waiting, IInv, TypeOK
  <2>2. CASE needs_gc
    BY <2>1 DEF unlock_critical, Goto, IInv, TypeOK, Locker, LockerCountExact
  <2>3. CASE ~needs_gc
    BY ZenonT(60), <2>1, <2>3 DEF unlock_critical, IInv, TypeOK, Locker, LockerCountExact
  <2> QED
    BY ZenonT(60), <2>2, <2>3
<1>3. TypeOK'
  BY ZenonT(60) DEF unlock_critical, Goto, IInv, TypeOK, Points, cycleVars, epochVars, countVars
<1>4. Control'
  BY ZenonT(60) DEF unlock_critical, Goto, IInv, TypeOK, Control, countVars
<1>5. HeapLock'
  BY ZenonT(60) DEF unlock_critical, Goto, IInv, TypeOK, HeapLock, epochVars
<1>6. Collector'
  BY DEF unlock_critical, Goto, IInv, TypeOK, Collector, countVars
<1>7. CyclesNest'
  BY ZenonT(60) DEF unlock_critical, IInv, CyclesNest, cycleVars
<1>8. Epochs'
  BY ZenonT(60) DEF unlock_critical, Goto, IInv, TypeOK, Epochs, epochVars, countVars
<1>9. CycleComes'
  BY ZenonT(60) DEF unlock_critical, Goto, IInv, TypeOK, CycleComes, cycleVars, countVars
<1> QED
  BY <1>2, <1>3, <1>4, <1>5, <1>6, <1>7, <1>8, <1>9 DEF IInv

\* The slow entry counts, and finds no collection for the locker under way.
LEMMA JniLockStep ==
  ASSUME ThreadCounts, IInv, NEW t \in Threads, jni_lock(t)
  PROVE  IInv'
<1>1. req[t] = "none" /\ t \notin in_critical /\ t \in Waiting
  BY ZenonT(60) DEF jni_lock, IInv, Control, Locker, Waiting
<1>2. /\ Cardinality(in_critical) \in Nat /\ Cardinality(Waiting) \in Nat
      /\ Cardinality(Threads) \in Nat
      /\ jni_lock_count \in Nat
  BY ZenonT(60), CriticalCounts
<1>3. Locker' /\ jni_lock_count' \in 0 .. Cardinality(Threads)
  <2>1. Waiting' = Waiting \ {t}
    BY ZenonT(60) DEF jni_lock, Goto, Waiting, IInv, TypeOK
  <2>2. /\ Cardinality(Waiting \ {t}) = Cardinality(Waiting) - 1
        /\ Cardinality(in_critical \union {t}) = Cardinality(in_critical) + 1
    BY ZenonT(60), <1>1, WaitingApart DEF ThreadCounts
  <2>3. jni_lock_count' + Cardinality(Waiting') <= Cardinality(Threads) /\ LockerCountExact'
    BY <1>2, <2>1, <2>2 DEF jni_lock, IInv, Locker, LockerCountExact
  <2>4. Cardinality(Waiting') \in Nat
    BY ZenonT(60), <2>1, WaitingApart DEF ThreadCounts
  <2>5. jni_lock_count' \in 0 .. Cardinality(Threads)
    BY <1>2, <2>3, <2>4 DEF jni_lock
  <2> QED
    BY ZenonT(60), <2>3, <2>5 DEF jni_lock, Goto, IInv, TypeOK, Locker
<1>4. TypeOK'
  BY ZenonT(60), <1>3 DEF jni_lock, Goto, IInv, TypeOK, Points, cycleVars, epochVars, countVars
<1>5. Control'
  BY ZenonT(60), <1>1 DEF jni_lock, Goto, IInv, TypeOK, Control, countVars
<1>6. HeapLock'
  BY ZenonT(60) DEF jni_lock, Goto, IInv, TypeOK, HeapLock, epochVars
<1>7. Collector'
  BY ZenonT(60) DEF jni_lock, Goto, IInv, TypeOK, Collector
<1>8. CyclesNest'
  BY ZenonT(60) DEF jni_lock, IInv, CyclesNest, cycleVars
<1>9. Epochs'
  BY ZenonT(60) DEF jni_lock, Goto, IInv, TypeOK, Epochs, epochVars, countVars
<1>10. CycleComes'
  BY ZenonT(60) DEF jni_lock, Goto, IInv, TypeOK, CycleComes, cycleVars, countVars
<1> QED
  BY <1>3, <1>4, <1>5, <1>6, <1>7, <1>8, <1>9, <1>10 DEF IInv

\* The slow exit; the last thread out becomes the one collector.
LEMMA JniUnlockStep ==
  ASSUME ThreadCounts, IInv, NEW t \in Threads, jni_unlock(t)
  PROVE  IInv'
<1>1. /\ req[t] = "none" /\ t \in in_critical /\ needs_gc /\ ~collected[t]
      /\ jni_lock_count = Cardinality(in_critical)
      /\ \A u \in Threads : req[u] # "critical" /\ op[u] # "locker"
  BY ZenonT(60) DEF jni_unlock, IInv, Control, Locker, LockerCountExact, Collector
<1>2. /\ Cardinality(in_critical) \in Nat /\ Cardinality(Waiting) \in Nat
      /\ Cardinality(Threads) \in Nat
      /\ jni_lock_count \in Nat
  BY ZenonT(60), CriticalCounts
<1>3. Locker' /\ jni_lock_count' \in 0 .. Cardinality(Threads)
  <2>1. Waiting' = Waiting
    BY ZenonT(60) DEF jni_unlock, Goto, Waiting, IInv, TypeOK
  <2>2. /\ Cardinality(in_critical \ {t}) = Cardinality(in_critical) - 1
        /\ Cardinality(in_critical \ {t}) \in Nat
    BY ZenonT(60), <1>1, WaitingApart DEF ThreadCounts
  <2>3. jni_lock_count' = Cardinality(in_critical') /\ jni_lock_count' = jni_lock_count - 1
    BY ZenonT(60), <1>1, <2>2 DEF jni_unlock
  <2>4. jni_lock_count = 1 => in_critical' = {}
    <3>1. in_critical \ {t} \subseteq Threads
      BY ZenonT(60) DEF IInv, TypeOK
    <3>2. Cardinality(in_critical \ {t}) = 0 => in_critical \ {t} = {}
      BY ZenonT(60), <3>1 DEF ThreadCounts
    <3> QED
      BY <1>1, <2>2, <3>2 DEF jni_unlock
  <2>5. /\ jni_lock_count' \in 0 .. Cardinality(Threads)
        /\ jni_lock_count' + Cardinality(Waiting') <= Cardinality(Threads)
    BY <1>1, <1>2, <2>1, <2>2, <2>3 DEF IInv, Locker
  <2>6. doing_gc' => in_critical' = {} /\ needs_gc'
    BY ZenonT(60), <1>1, <2>4 DEF jni_unlock, IInv, Locker
  <2>7. /\ \A u \in in_critical' : pc'[u] \in {"java", "jni_unlock"}
        /\ \A u \in Threads : pc'[u] = "jni_unlock" => u \in in_critical' /\ needs_gc'
    BY ZenonT(60) DEF jni_unlock, Goto, IInv, TypeOK, Locker
  <2> QED
    BY ZenonT(60), <2>3, <2>5, <2>6, <2>7 DEF Locker, LockerCountExact
<1>4. TypeOK'
  BY ZenonT(60), <1>3, <1>1, ThreadsAssumption
     DEF jni_unlock, Goto, IInv, TypeOK, Points, AllRequests, cycleVars, epochVars, countVars
<1>5. Control'
  BY ZenonT(60) DEF jni_unlock, Goto, IInv, TypeOK, Control, countVars
<1>6. HeapLock'
  BY ZenonT(60) DEF jni_unlock, Goto, IInv, TypeOK, HeapLock, epochVars
<1>7. Collector'
  BY <1>1 DEF jni_unlock, Goto, IInv, TypeOK, Collector
<1>8. CyclesNest'
  BY ZenonT(60) DEF jni_unlock, IInv, CyclesNest, cycleVars
<1>9. Epochs'
  BY DEF jni_unlock, Goto, IInv, TypeOK, Epochs, epochVars, countVars
<1>10. CycleComes'
  BY ZenonT(60), <1>1 DEF jni_unlock, Goto, IInv, TypeOK, CycleComes, cycleVars, countVars
<1> QED
  BY <1>3, <1>4, <1>5, <1>6, <1>7, <1>8, <1>9, <1>10 DEF IInv

-----------------------------------------------------------------------------
(* The concurrent mark thread. *)

\* The cleanup pause counts the critical regions, and counts as a collection.
LEMMA CleanupStep ==
  ASSUME ThreadCounts, IInv, Cleanup
  PROVE  IInv'
<1>1. /\ collected' \in [Threads -> BOOLEAN]
      /\ \A u \in Threads : collected'[u] <=> collected[u] \/ req[u] # "none"
  BY ZenonT(60), NoticedTypes DEF Cleanup, IInv, TypeOK
<1>2. /\ cm = "marking" /\ cm' = "finishing" /\ room' \in BOOLEAN
      /\ UNCHANGED <<Heap_lock, in_critical, needs_gc, doing_gc, open_cycles, initiate,
                     active, behind, fetched, started, completed, pc, req, op, outcome, retries>>
      /\ jni_lock_count' = Cardinality(in_critical)
  BY ZenonT(60) DEF Cleanup, CountCritical, epochVars, threadVars, IInv, TypeOK
<1>3. Locker' /\ jni_lock_count' \in 0 .. Cardinality(Threads)
  <2>1. Waiting' = Waiting
    BY ZenonT(60), <1>2 DEF Waiting
  <2>2. /\ Cardinality(in_critical) \in Nat /\ Cardinality(Waiting) \in Nat
        /\ Cardinality(Threads) \in Nat
        /\ Cardinality(in_critical) + Cardinality(Waiting) <= Cardinality(Threads)
    BY ZenonT(60), CriticalCounts
  <2> QED
    <3>1. LockerCountExact'
      BY ZenonT(60), <1>2 DEF LockerCountExact
    <3>2. /\ jni_lock_count' \in 0 .. Cardinality(Threads)
          /\ jni_lock_count' + Cardinality(Waiting') <= Cardinality(Threads)
      BY <1>2, <2>1, <2>2
    <3> QED
      BY ZenonT(60), <1>2, <3>1, <3>2 DEF IInv, Locker
<1>4. TypeOK'
  BY ZenonT(60), <1>1, <1>2, <1>3 DEF IInv, TypeOK
<1>5. Control' /\ HeapLock'
  BY ZenonT(60), <1>1, <1>2 DEF IInv, Control, HeapLock
<1>6. Epochs'
  BY ZenonT(60), <1>2 DEF IInv, Epochs
<1>7. Collector'
  <2>1. UNCHANGED <<doing_gc, pc, req, op, outcome>>
    BY ZenonT(60), <1>2
  <2>2. \A u \in Threads : collected[u] => collected'[u]
    BY ZenonT(60), <1>1
  <2> QED
    BY ZenonT(60), <2>1, <2>2 DEF IInv, Collector
<1>8. CyclesNest' /\ CycleComes'
  BY ZenonT(60), <1>2 DEF IInv, CyclesNest, CycleComes
<1> QED
  BY ZenonT(60), <1>3, <1>4, <1>5, <1>7, <1>8, <1>6 DEF IInv

\* The end of a cycle: whoever waits for one has a request, and notices.
LEMMA CompletedStep ==
  ASSUME IInv, increment_old_marking_cycles_completed
  PROVE  IInv'
<1>1. /\ completed' \in [Threads -> BOOLEAN]
      /\ \A u \in Threads : completed'[u] <=> completed[u] \/ req[u] # "none"
  BY ZenonT(60), NoticedTypes DEF increment_old_marking_cycles_completed, IInv, TypeOK
<1>2. /\ cm = "finishing" /\ cm' = "idle" /\ open_cycles' = open_cycles - 1
      /\ UNCHANGED <<Heap_lock, room, in_critical, needs_gc, doing_gc, jni_lock_count, initiate,
                     active, behind, fetched, collected, started, pc, req, op, outcome, retries>>
  BY ZenonT(60) DEF increment_old_marking_cycles_completed, lockerVars, epochVars, threadVars
<1>3. CyclesNest' /\ open_cycles' \in 0 .. 2
  BY <1>2 DEF IInv, CyclesNest
<1>4. TypeOK'
  BY ZenonT(60), <1>1, <1>2, <1>3 DEF IInv, TypeOK
<1>5. Control' /\ HeapLock'
  BY ZenonT(60), <1>1, <1>2 DEF IInv, Control, HeapLock
<1>6. Locker'
  BY ZenonT(60), <1>2 DEF IInv, Locker, LockerCountExact, Waiting
<1>7. CycleComes'
  <2>1. UNCHANGED <<pc, op>>
    BY ZenonT(60), <1>2
  <2>2. \A u \in Threads : pc[u] \in {"wait_cycle", "epilogue"} => completed'[u]
    BY ZenonT(60), <1>1 DEF IInv, Control
  <2> QED
    BY ZenonT(60), <2>1, <2>2 DEF CycleComes
<1>8. Epochs'
  BY ZenonT(60), <1>2 DEF IInv, Epochs
<1>9. Collector'
  BY ZenonT(60), <1>2 DEF IInv, Collector
<1> QED
  BY ZenonT(60), <1>3, <1>4, <1>5, <1>6, <1>7, <1>8, <1>9 DEF IInv

-----------------------------------------------------------------------------
FS == INSTANCE FiniteSetTheorems

\* The library's finite sets and their cardinality are those of the model.
LEMMA SameCardinality ==
  \A S : (IsFiniteSet(S) <=> FS!IsFiniteSet(S)) /\ Cardinality(S) = FS!Cardinality(S)
BY ZenonT(60) DEF IsFiniteSet, FS!IsFiniteSet, Cardinality, FS!Cardinality

\* There are finitely many threads.
LEMMA ThreadCountsHold == ThreadCounts
<1>1. ASSUME NEW S \in SUBSET Threads
      PROVE  FS!IsFiniteSet(S) /\ Cardinality(S) = FS!Cardinality(S) /\ Cardinality(S) \in Nat
  <2>1. FS!IsFiniteSet(Threads)
    BY ZenonT(60), ThreadsAssumption, SameCardinality
  <2>2. FS!IsFiniteSet(S)
    BY ZenonT(60), <2>1, FS!FS_Subset
  <2> QED
    BY ZenonT(60), <2>2, SameCardinality, FS!FS_CardinalityType
<1>2. ASSUME NEW S \in SUBSET Threads
      PROVE  /\ Cardinality(S) = 0 => S = {}
             /\ \A t \in S : Cardinality(S \ {t}) = Cardinality(S) - 1
             /\ \A t \in Threads \ S : Cardinality(S \union {t}) = Cardinality(S) + 1
  BY ZenonT(60), <1>1, SameCardinality, FS!FS_EmptySet, FS!FS_RemoveElement, FS!FS_AddElement
<1>3. ASSUME NEW S \in SUBSET Threads, NEW W \in SUBSET Threads, S \cap W = {}
      PROVE  Cardinality(S) + Cardinality(W) <= Cardinality(Threads)
  <2>1. /\ FS!IsFiniteSet(S) /\ FS!IsFiniteSet(W) /\ FS!IsFiniteSet(Threads)
        /\ Cardinality(S) \in Nat /\ Cardinality(W) \in Nat
    BY ZenonT(60), <1>1
  <2>2. FS!Cardinality(S \cup W)
          = FS!Cardinality(S) + FS!Cardinality(W) - FS!Cardinality(S \cap W)
    BY ZenonT(60), <2>1, FS!FS_Union
  <2>3. FS!Cardinality(S \cap W) = 0
    BY ZenonT(60), <1>3, FS!FS_EmptySet
  <2>4. FS!Cardinality(S \cup W) <= FS!Cardinality(Threads)
    BY ZenonT(60), <2>1, FS!FS_Subset
  <2> QED
    BY <2>1, <2>2, <2>3, <2>4, SameCardinality
<1> QED
  BY ZenonT(60), <1>1, <1>2, <1>3 DEF ThreadCounts

\* Nobody has a request, and no cycle is open.
LEMMA InitHolds == Init => IInv
<1> SUFFICES ASSUME Init PROVE IInv
  BY ZenonT(60)
<1>1. Waiting = {} /\ Cardinality({}) = 0 /\ Cardinality(Threads) \in Nat
  BY ZenonT(60), SameCardinality, FS!FS_EmptySet, ThreadCountsHold DEF Init, Waiting, ThreadCounts
<1>2. TypeOK
  <2>1. /\ pc \in [Threads -> Points] /\ req \in [Threads -> AllRequests \union {"none"}]
        /\ op \in [Threads -> Ops] /\ outcome \in [Threads -> Outcomes]
    BY ZenonT(60) DEF Init, Points, Ops, Outcomes
  <2>2. retries \in [Threads -> 0 .. LockerRetries + 1]
    BY RetriesAssumption DEF Init
  <2>3. /\ collected \in [Threads -> BOOLEAN] /\ started \in [Threads -> BOOLEAN]
        /\ completed \in [Threads -> BOOLEAN]
    BY ZenonT(60) DEF Init
  <2>4. jni_lock_count \in 0 .. Cardinality(Threads) /\ open_cycles \in 0 .. 2
    BY <1>1 DEF Init
  <2>5. /\ Heap_lock \in Threads \union {NoThread} /\ in_critical \subseteq Threads
        /\ room \in BOOLEAN /\ needs_gc \in BOOLEAN /\ doing_gc \in BOOLEAN
        /\ cm \in {"idle", "marking", "finishing"} /\ initiate \in BOOLEAN
        /\ active \in BOOLEAN /\ behind \subseteq Threads /\ fetched \subseteq Threads
    BY ZenonT(60) DEF Init
  <2> QED
    BY ZenonT(60), <2>1, <2>2, <2>3, <2>4, <2>5 DEF TypeOK
<1>3. Control /\ HeapLock
  BY ZenonT(60), ThreadsAssumption DEF Init, Control, HeapLock
<1>4. Locker
  BY <1>1 DEF Init, Locker, LockerCountExact
<1>5. Collector /\ CyclesNest /\ Epochs /\ CycleComes
  BY ZenonT(60) DEF Init, Collector, CyclesNest, Epochs, CycleComes
<1> QED
  BY ZenonT(60), <1>2, <1>3, <1>4, <1>5 DEF IInv

\* Every step preserves the invariant.
LEMMA NextPreserves ==
  ASSUME IInv, [Next]_vars
  PROVE  IInv'
<1>1. ASSUME NEW t \in Threads,
             \/ StartAlloc(t) \/ StartCollect(t) \/ collect_alloc_gen(t)
             \/ allocate_new_region(t) \/ lock_critical(t) \/ unlock_critical(t)
      PROVE  IInv'
  BY ZenonT(60), <1>1, ThreadCountsHold, StartAllocStep, StartCollectStep, CollectAllocGenStep,
  NewRegionStep,
  LockStep,
     UnlockStep
<1>2. ASSUME NEW t \in Threads, Continue(t)
      PROVE  IInv'
  BY ZenonT(60), <1>2, ThreadCountsHold, SlowStep, StallStep, RetryStep, CollectForAllocationStep,
  CollectStep,
     StallRetryStep, PublishStep, PrologueStep, DoitStep, EpilogueStep, WaitCycleStep,
     AfterStep, MergeStep, JniLockStep, JniUnlockStep, LockerDoneStep DEF Continue
<1>3. CASE ConcurrentMark
  BY ZenonT(60), <1>3, ThreadCountsHold, CleanupStep, CompletedStep DEF ConcurrentMark
<1>4. CASE UNCHANGED vars
  <2> USE <1>4 DEF vars, lockerVars, cycleVars, epochVars, countVars, threadVars
  <2>1. TypeOK'
    BY ZenonT(60) DEF IInv, TypeOK
  <2>2. Control' /\ HeapLock'
    BY ZenonT(60) DEF IInv, Control, HeapLock
  <2>3. Locker'
    <3>1. Waiting' = Waiting
      BY ZenonT(60) DEF Waiting
    <3> QED
      BY ZenonT(60), <3>1 DEF IInv, Locker, LockerCountExact
  <2>4. Collector'
    BY ZenonT(60) DEF IInv, Collector
  <2>5. CyclesNest' /\ Epochs'
    BY ZenonT(60) DEF IInv, CyclesNest, Epochs
  <2>6. CycleComes'
    BY ZenonT(60) DEF IInv, CycleComes
  <2> QED
    BY ZenonT(60), <2>1, <2>2, <2>3, <2>4, <2>5, <2>6 DEF IInv
<1> QED
  BY ZenonT(60), <1>1, <1>2, <1>3, <1>4 DEF Next

\* The inductive invariant.
LEMMA Invariance == Spec => []IInv
<1>1. Init => IInv
  BY ZenonT(60), InitHolds
<1>2. IInv /\ [Next]_vars => IInv'
  BY ZenonT(60), NextPreserves
<1> QED
  BY <1>1, <1>2, PTL DEF Spec

\* When collect_alloc_gen returns, no region of the earlier epoch is in use for
\* the generation or about to be published for it: not if the call rebased the
\* generation, not if it collected, and not if it gave up because another
\* thread's cycle had started.  For any number of threads and retries.
THEOREM EpochsAreSeparate == Spec => []EpochsSeparate
<1>1. IInv => EpochsSeparate
  BY ZenonT(60) DEF IInv, Epochs, EpochsSeparate
<1> QED
  BY <1>1, Invariance, PTL

\* While the last thread out of a critical region collects for the GC locker, no
\* other thread enters one, and its own operation is never locked out.
THEOREM LockerCollectsWithoutCriticals == Spec => []LockerCollectsAlone
<1>1. IInv => LockerCollectsAlone
  BY ZenonT(60) DEF IInv, Locker, Collector, LockerCollectsAlone
<1> QED
  BY <1>1, Invariance, PTL

\* jni_lock_count is the number of threads in critical regions whenever a GC is
\* needed, although the fast paths leave it alone and the safepoints that
\* recompute it race with them.
THEOREM LockerCountIsExact == Spec => []LockerCountExact
<1>1. IInv => LockerCountExact
  BY ZenonT(60) DEF IInv, Locker
<1> QED
  BY <1>1, Invariance, PTL

\* The assertions of increment_old_marking_cycles_started and _completed never
\* fail, however full collections fall into concurrent cycles.
THEOREM MarkingCyclesNest == Spec => []CyclesNest
<1>1. IInv => CyclesNest
  BY ZenonT(60) DEF IInv
<1> QED
  BY <1>1, Invariance, PTL

\* A concurrent System.gc() that waits for a cycle to complete has one to wait
\* for, or a collection that will start one, also when its own pause was locked
\* out by a critical region.
THEOREM ACycleToWaitFor == Spec => []CycleToWaitFor
<1>1. IInv => CycleToWaitFor
  BY ZenonT(60) DEF IInv, CycleComes, CycleToWaitFor
<1> QED
  BY <1>1, Invariance, PTL

\* The types of the state; the retries of attempt_allocation_slow, the locker's
\* count and the open cycles stay within their bounds.
THEOREM GcRequestsTypes == Spec => []TypeOK
<1>1. IInv => TypeOK
  BY ZenonT(60) DEF IInv
<1> QED
  BY <1>1, Invariance, PTL
=============================================================================
