---------------------------- MODULE GcRequests ----------------------------
(***************************************************************************)
(* How threads ask for collections and what they may conclude from the     *)
(* answer: the slow path of allocation, System.gc(), the collection of a   *)
(* generation (collect_alloc_gen), the GC locker of JNI critical regions,  *)
(* and the concurrent marking cycles all of these start, skip or wait for. *)
(*                                                                         *)
(* A request reads a counter, queues a VM operation and compares the       *)
(* counter again once it owns Heap_lock.  Only whether a counter changed   *)
(* since a thread read it matters, so that is what the state keeps:        *)
(* collected[t], started[t] and completed[t] for total_collections() and   *)
(* the two counters of old marking cycles.  In the same way behind is the  *)
(* set of callers of collect_alloc_gen whose new epoch the generation's    *)
(* active region does not have yet.                                        *)
(***************************************************************************)
EXTENDS Integers, FiniteSets

CONSTANTS
  Threads,
  NoThread,
  Requests,            \* what threads do, a subset of the requests below
  LockerRetries        \* GCLockerRetryAllocationCount

\* An allocation, System.gc() with ExplicitGCInvokesConcurrent, any other cause
\* of collect(), the collection of a generation, a new region of a generation,
\* a critical region.
AllRequests ==
  {"alloc", "system_gc", "full_gc", "collect_gen", "gen_alloc", "critical"}

ASSUME RequestsAssumption == Requests \subseteq AllRequests
ASSUME ThreadsAssumption == NoThread \notin Threads /\ IsFiniteSet(Threads)
ASSUME RetriesAssumption == LockerRetries \in Nat

VARIABLES
  Heap_lock,        \* the thread in its VM operation's prologue .. epilogue
  room,             \* the mutator's region, or a new one, has room
  in_critical,      \* threads in a JNI critical region
  needs_gc, doing_gc, jni_lock_count,   \* GC_locker
  open_cycles,      \* _old_marking_cycles_started - .._completed
  cm,               \* the concurrent mark thread
  initiate,         \* initiate_conc_mark_if_possible()
  active,           \* the generation has an active region
  behind,           \* callers whose epoch the generation's region predates
  fetched,          \* the same for the region a thread is allocating
  pc, req, op, outcome, retries,   \* each thread's control and locals
  collected, started, completed    \* counters that changed since they were read

lockerVars == <<in_critical, needs_gc, doing_gc, jni_lock_count>>
cycleVars  == <<open_cycles, cm, initiate>>
epochVars  == <<active, behind, fetched>>
countVars  == <<collected, started, completed>>
threadVars == <<pc, req, op, outcome, retries>>
vars == <<Heap_lock, room, lockerVars, cycleVars, epochVars, countVars,
          threadVars>>

Points == {"java", "slow", "stall", "retry", "null", "read_counts", "prologue",
           "queued", "epilogue", "wait_cycle", "after", "merge", "locker_done",
           "jni_lock", "jni_unlock", "publish"}
Ops == {"none", "inc", "for_alloc", "full", "initial", "locker", "rebase"}
Outcomes == {"none", "skipped", "failed", "allocated", "collected"}

Init ==
  /\ Heap_lock = NoThread /\ room = TRUE
  /\ in_critical = {} /\ needs_gc = FALSE /\ doing_gc = FALSE
  /\ jni_lock_count = 0
  /\ open_cycles = 0 /\ cm = "idle" /\ initiate = FALSE
  /\ active = FALSE /\ behind = {} /\ fetched = {}
  /\ pc = [t \in Threads |-> "java"]
  /\ req = [t \in Threads |-> "none"]
  /\ op = [t \in Threads |-> "none"]
  /\ outcome = [t \in Threads |-> "none"]
  /\ retries = [t \in Threads |-> 0]
  /\ collected = [t \in Threads |-> FALSE]
  /\ started = [t \in Threads |-> FALSE]
  /\ completed = [t \in Threads |-> FALSE]

Goto(t, p) == pc' = [pc EXCEPT ![t] = p]

\* The request returns to Java code.  Its copies of the counters are gone.
Return(t) ==
  /\ Goto(t, "java")
  /\ req' = [req EXCEPT ![t] = "none"]
  /\ op' = [op EXCEPT ![t] = "none"]
  /\ outcome' = [outcome EXCEPT ![t] = "none"]
  /\ retries' = [retries EXCEPT ![t] = 0]
  /\ collected' = [collected EXCEPT ![t] = FALSE]
  /\ started' = [started EXCEPT ![t] = FALSE]
  /\ completed' = [completed EXCEPT ![t] = FALSE]

\* The thread, in Java code and not in a critical region, starts a request.
Begin(t, r, p) ==
  /\ r \in Requests
  /\ pc[t] = "java" /\ t \notin in_critical
  /\ req' = [req EXCEPT ![t] = r]
  /\ Goto(t, p)

\* A change of a counter, as every thread with a request will notice it.
Noticed(count) == [t \in Threads |-> count[t] \/ req[t] # "none"]

\* The VM operation o is handed to the VM thread: first its prologue.
Submit(t, o) ==
  /\ op' = [op EXCEPT ![t] = o]
  /\ outcome' = [outcome EXCEPT ![t] = "none"]
  /\ Goto(t, "prologue")

-----------------------------------------------------------------------------
(* The slow path of allocation: mem_allocate and attempt_allocation_slow.  *)

StartAlloc(t) ==
  /\ Begin(t, "alloc", "slow")
  /\ UNCHANGED <<Heap_lock, room, lockerVars, cycleVars, epochVars, countVars,
                 op, outcome, retries>>

\* The block under Heap_lock: allocate, decide to wait for the GC locker, or
\* read the GC count and ask for a pause.
attempt_allocation_slow(t) ==
  /\ pc[t] = "slow" /\ Heap_lock = NoThread
  /\ \/ /\ room
        /\ room' \in BOOLEAN
        /\ Return(t)
     \/ /\ ~room /\ needs_gc /\ jni_lock_count > 0   \* the young list expands
        /\ Return(t)
        /\ UNCHANGED room
     \/ /\ ~room /\ needs_gc
        /\ Goto(t, "stall")
        /\ outcome' = [outcome EXCEPT ![t] = "none"]
        /\ UNCHANGED <<room, req, op, retries, countVars>>
     \/ /\ ~room /\ ~needs_gc
        /\ collected' = [collected EXCEPT ![t] = FALSE]
        /\ Submit(t, "inc")
        /\ UNCHANGED <<room, req, retries, started, completed>>
  /\ UNCHANGED <<Heap_lock, lockerVars, cycleVars, epochVars>>

\* A thread the GC locker keeps from allocating gives up after a number of
\* stalls; otherwise stall_until_clear() and another attempt.
stall_until_clear(t) ==
  /\ pc[t] = "stall" /\ req[t] = "alloc"
  /\ \/ /\ retries[t] > LockerRetries
        /\ Goto(t, "null")
        /\ UNCHANGED retries
     \/ /\ retries[t] <= LockerRetries
        /\ ~needs_gc
        /\ retries' = [retries EXCEPT ![t] = @ + 1]
        /\ Goto(t, "retry")
  /\ UNCHANGED <<Heap_lock, room, lockerVars, cycleVars, epochVars, countVars,
                 req, op, outcome>>

\* The attempt without Heap_lock, before the next round.
RetryAllocation(t) ==
  /\ pc[t] = "retry"
  /\ IF room
     THEN room' \in BOOLEAN /\ Return(t)
     ELSE Goto(t, "slow") /\ UNCHANGED <<room, req, op, outcome, retries, countVars>>
  /\ UNCHANGED <<Heap_lock, lockerVars, cycleVars, epochVars>>

\* attempt_allocation_slow returns NULL with the GC count read under
\* Heap_lock; mem_allocate submits VM_G1CollectForAllocation.
CollectForAllocation(t) ==
  /\ pc[t] = "null" /\ Heap_lock = NoThread
  /\ collected' = [collected EXCEPT ![t] = FALSE]
  /\ Submit(t, "for_alloc")
  /\ UNCHANGED <<Heap_lock, room, lockerVars, cycleVars, epochVars, started,
                 completed, req, retries>>

-----------------------------------------------------------------------------
(* G1CollectedHeap::collect and its callers.                               *)

StartCollect(t) ==
  /\ \E r \in {"system_gc", "full_gc"} : Begin(t, r, "read_counts")
  /\ UNCHANGED <<Heap_lock, room, lockerVars, cycleVars, epochVars, countVars,
                 op, outcome, retries>>

\* collect_alloc_gen: new_epoch() under HeapGen_lock, then, by the occupancy
\* of the heap, a collection or a VM_Rebase_Gen with a dummy GC count.
collect_alloc_gen(t) ==
  /\ \/ Begin(t, "collect_gen", "read_counts") /\ UNCHANGED op
     \/ Begin(t, "collect_gen", "prologue") /\ op' = [op EXCEPT ![t] = "rebase"]
  /\ behind' = IF active THEN behind \union {t} ELSE behind
  /\ fetched' = IF \E u \in Threads : pc[u] = "publish"
                THEN fetched \union {t} ELSE fetched
  /\ UNCHANGED <<Heap_lock, room, lockerVars, cycleVars, active, countVars,
                 outcome, retries>>

\* The counts are read under Heap_lock, at the start of each round.
collect(t) ==
  /\ pc[t] = "read_counts" /\ Heap_lock = NoThread
  /\ collected' = [collected EXCEPT ![t] = FALSE]
  /\ started' = [started EXCEPT ![t] = FALSE]
  /\ Submit(t, CASE req[t] = "critical" -> "locker"
                 [] req[t] \in {"collect_gen", "system_gc"} -> "initial"
                 [] OTHER -> "full")
  /\ UNCHANGED <<Heap_lock, room, lockerVars, cycleVars, epochVars, completed,
                 req, retries>>

\* Mutant: collect() never retries.
collect_gives_up(t) == FALSE

\* What collect() does with a pause that did not happen: retry, unless a
\* marking cycle or a full collection started since the counts were read.
collect_retries(t) ==
  /\ op[t] = "initial"
  /\ outcome[t] \in {"skipped", "failed"}
  /\ ~started[t]

\* The stall of a retry, for as long as the GC locker still needs its GC.
StallRetry(t) ==
  /\ pc[t] = "stall" /\ req[t] # "alloc"
  /\ ~needs_gc
  /\ Goto(t, "read_counts")
  /\ UNCHANGED <<Heap_lock, room, lockerVars, cycleVars, epochVars, countVars,
                 req, op, outcome, retries>>

-----------------------------------------------------------------------------
(* A generation's new region: GenAllocRegion::allocate_new_region reads    *)
(* the epoch and the region becomes active, both under Heap_lock.          *)

allocate_new_region(t) ==
  /\ Heap_lock = NoThread
  /\ Begin(t, "gen_alloc", "publish")
  /\ Heap_lock' = t
  /\ active' = FALSE /\ behind' = {}     \* the old region is retired first
  /\ UNCHANGED <<room, lockerVars, cycleVars, fetched, countVars, op, outcome,
                 retries>>

PublishRegion(t) ==
  /\ pc[t] = "publish"
  /\ Heap_lock' = NoThread
  /\ active' = TRUE /\ behind' = fetched /\ fetched' = {}
  /\ Return(t)
  /\ UNCHANGED <<room, lockerVars, cycleVars>>

-----------------------------------------------------------------------------
(* VM operations: the requester's prologue, the safepoint, its epilogue.   *)

\* skip_operation(): another collection came first.  An active GC locker that
\* already waits for its GC is a reason too in a heap that cannot expand, and
\* the heap's size is not modelled.  No reason counts for _collect_gen.
MustSkip(t) == req[t] # "collect_gen" /\ collected[t]
MaySkip(t) ==
  req[t] # "collect_gen" /\ (collected[t] \/ (needs_gc /\ jni_lock_count > 0))

doit_prologue(t) ==
  /\ pc[t] = "prologue" /\ Heap_lock = NoThread
  /\ \/ /\ MaySkip(t)
        /\ outcome' = [outcome EXCEPT ![t] = "skipped"]
        /\ Goto(t, "after")
        /\ UNCHANGED Heap_lock
     \/ /\ ~MustSkip(t)
        /\ Heap_lock' = t
        /\ Goto(t, "queued")
        /\ UNCHANGED outcome
  /\ UNCHANGED <<room, lockerVars, cycleVars, epochVars, countVars, req, op,
                 retries>>

\* Mutant: the count is left to the slow paths.
KeepCount == UNCHANGED jni_lock_count

\* A safepoint counts the threads in critical regions.
CountCritical == jni_lock_count' = Cardinality(in_critical)

\* The operation is over; the requester finds outcome o.
Finish(t, o) ==
  /\ outcome' = [outcome EXCEPT ![t] = o]
  /\ Goto(t, "epilogue")
  /\ CountCritical
  /\ UNCHANGED <<Heap_lock, in_critical, doing_gc, req, op, retries>>

\* check_active_before_gc() keeps the collection from happening.
LockedOut(t) ==
  /\ in_critical # {}
  /\ needs_gc' = TRUE
  /\ Finish(t, "failed")
  /\ UNCHANGED <<room, open_cycles, cm, epochVars, collected, started>>

\* Mutant: a cycle is started although one is in progress.
do_collection_pause_overlap(t, ask, o) ==
  /\ in_critical = {}
  /\ IF ask
     THEN /\ open_cycles' = open_cycles + 1
          /\ cm' = "marking"
          /\ initiate' = FALSE
          /\ started' = Noticed(started)
     ELSE /\ initiate' \in {ask, TRUE}
          /\ UNCHANGED <<open_cycles, cm, started>>
  /\ collected' = Noticed(collected)
  /\ active' = FALSE /\ behind' = {}
  /\ room' \in BOOLEAN
  /\ Finish(t, o)
  /\ UNCHANGED <<needs_gc, fetched>>

\* An evacuation pause.  It starts a marking cycle if one was asked for and
\* none is in progress; otherwise it may find that one is needed.
do_collection_pause_at_safepoint(t, ask, o) ==
  /\ in_critical = {}
  /\ IF ask /\ cm = "idle"
     THEN /\ open_cycles' = open_cycles + 1
          /\ cm' = "marking"
          /\ initiate' = FALSE
          /\ started' = Noticed(started)
     ELSE /\ initiate' \in {ask, TRUE}
          /\ UNCHANGED <<open_cycles, cm, started>>
  /\ collected' = Noticed(collected)
  /\ active' = FALSE /\ behind' = {}
  /\ room' \in BOOLEAN
  /\ Finish(t, o)
  /\ UNCHANGED <<needs_gc, fetched>>

\* VM_G1IncCollectionPause::doit for an allocation: allocate if there is room
\* by now, or collect and try again.
DoitInc(t) ==
  /\ pc[t] = "queued" /\ op[t] = "inc"
  /\ \/ /\ room
        /\ room' \in BOOLEAN
        /\ Finish(t, "allocated")
        /\ UNCHANGED <<needs_gc, cycleVars, epochVars, collected, started>>
     \/ ~room /\ LockedOut(t) /\ UNCHANGED initiate
     \/ ~room /\ \E o \in {"allocated", "collected"} :
                   do_collection_pause_at_safepoint(t, initiate, o)
  /\ UNCHANGED completed

\* The same operation for the GC locker: no allocation, no marking cycle.
DoitLocker(t) ==
  /\ pc[t] = "queued" /\ op[t] = "locker"
  /\ \/ LockedOut(t) /\ UNCHANGED initiate
     \/ do_collection_pause_at_safepoint(t, initiate, "collected")
  /\ UNCHANGED completed

\* Mutant: a pause that is locked out forgets its wish for a cycle.
DoitInitialForgets(t) ==
  /\ pc[t] = "queued" /\ op[t] = "initial"
  /\ completed' = [completed EXCEPT ![t] = FALSE]
  /\ \/ /\ cm # "idle"
        /\ Finish(t, "failed")
        /\ UNCHANGED <<room, needs_gc, cycleVars, epochVars, collected, started>>
     \/ cm = "idle" /\ LockedOut(t) /\ UNCHANGED initiate
     \/ cm = "idle" /\ do_collection_pause_at_safepoint(t, TRUE, "collected")

\* And for a marking cycle, which fails while one is in progress.  A pause
\* that is locked out leaves its wish for a cycle to the next pause.
DoitInitial(t) ==
  /\ pc[t] = "queued" /\ op[t] = "initial"
  /\ completed' = [completed EXCEPT ![t] = FALSE]
  /\ \/ /\ cm # "idle"
        /\ Finish(t, "failed")
        /\ UNCHANGED <<room, needs_gc, cycleVars, epochVars, collected, started>>
     \/ cm = "idle" /\ LockedOut(t) /\ initiate' = TRUE
     \/ cm = "idle" /\ do_collection_pause_at_safepoint(t, TRUE, "collected")

\* A full collection counts as a marking cycle that starts and completes, and
\* aborts the cycle in progress, whose thread still has to finish it.
do_collection(t, o) ==
  /\ in_critical = {}
  /\ cm' = IF cm = "marking" THEN "finishing" ELSE cm
  /\ initiate' = FALSE
  /\ collected' = Noticed(collected)
  /\ started' = Noticed(started)
  /\ completed' = Noticed(completed)
  /\ active' = FALSE /\ behind' = {}
  /\ room' \in BOOLEAN
  /\ Finish(t, o)
  /\ UNCHANGED <<needs_gc, open_cycles, fetched>>

DoitFull(t) ==
  /\ pc[t] = "queued" /\ op[t] = "full"
  /\ \/ LockedOut(t) /\ UNCHANGED <<initiate, completed>>
     \/ do_collection(t, "collected")

\* VM_G1CollectForAllocation: room by now, or room made by expanding the
\* heap, saves the collection.
DoitForAlloc(t) ==
  /\ pc[t] = "queued" /\ op[t] = "for_alloc"
  /\ \/ /\ room' \in BOOLEAN
        /\ Finish(t, "allocated")
        /\ UNCHANGED <<needs_gc, cycleVars, epochVars, countVars>>
     \/ ~room /\ LockedOut(t) /\ UNCHANGED <<initiate, completed>>
     \/ ~room /\ \E o \in {"allocated", "collected"} : do_collection(t, o)

\* VM_Rebase_Gen: the active region is retired.
DoitRebase(t) ==
  /\ pc[t] = "queued" /\ op[t] = "rebase"
  /\ active' = FALSE /\ behind' = {}
  /\ Finish(t, "collected")
  /\ UNCHANGED <<room, needs_gc, cycleVars, fetched, countVars>>

\* Heap_lock is released; a concurrent System.gc() then waits for a marking
\* cycle to complete.
doit_epilogue(t) ==
  /\ pc[t] = "epilogue"
  /\ Heap_lock' = NoThread
  /\ Goto(t, IF op[t] = "initial" /\ req[t] = "system_gc"
             THEN "wait_cycle" ELSE "after")
  /\ UNCHANGED <<room, lockerVars, cycleVars, epochVars, countVars, req, op,
                 outcome, retries>>

WaitCycle(t) ==
  /\ pc[t] = "wait_cycle"
  /\ completed[t]
  /\ Goto(t, "after")
  /\ UNCHANGED <<Heap_lock, room, lockerVars, cycleVars, epochVars, countVars,
                 req, op, outcome, retries>>

\* What the requester does next.  A collection, or an allocation by a VM
\* operation, is followed by the profiler's NG2C_MergeAllocCounters, and so is
\* the end of collect(), whatever happened.
After(t) ==
  /\ pc[t] = "after"
  /\ CASE req[t] = "alloc" /\ outcome[t] \in {"allocated", "collected"} ->
             Goto(t, "merge") /\ UNCHANGED <<req, op, outcome, retries, countVars>>
       [] req[t] = "alloc" /\ outcome[t] \in {"skipped", "failed"} ->
             IF op[t] = "for_alloc" /\ retries[t] > LockerRetries
             THEN Return(t)
             ELSE Goto(t, "retry")
                  /\ UNCHANGED <<req, op, outcome, retries, countVars>>
       [] op[t] = "rebase" -> Return(t)
       [] OTHER ->
             /\ Goto(t, IF ~collect_retries(t) THEN "merge"
                        ELSE IF needs_gc /\ jni_lock_count > 0 THEN "stall"
                        ELSE "read_counts")
             /\ UNCHANGED <<req, op, outcome, retries, countVars>>
  /\ UNCHANGED <<Heap_lock, room, lockerVars, cycleVars, epochVars>>

\* The safepoint of NG2C_MergeAllocCounters.
MergeAllocCounters(t) ==
  /\ pc[t] = "merge"
  /\ CountCritical
  /\ CASE req[t] = "critical" ->
             Goto(t, "locker_done")
             /\ UNCHANGED <<req, op, outcome, retries, countVars>>
       [] op[t] = "inc" /\ outcome[t] = "collected" ->
             Goto(t, "null")
             /\ UNCHANGED <<req, op, outcome, retries, countVars>>
       [] OTHER -> Return(t)
  /\ UNCHANGED <<Heap_lock, room, in_critical, needs_gc, doing_gc, cycleVars,
                 epochVars>>

-----------------------------------------------------------------------------
(* JNI critical regions: GC_locker.                                        *)

\* The fast path, while no GC is needed; else the slow one.
lock_critical(t) ==
  /\ "critical" \in Requests
  /\ pc[t] = "java" /\ t \notin in_critical
  /\ IF needs_gc
     THEN Goto(t, "jni_lock") /\ UNCHANGED in_critical
     ELSE in_critical' = in_critical \union {t} /\ UNCHANGED pc
  /\ UNCHANGED <<Heap_lock, room, needs_gc, doing_gc, jni_lock_count, cycleVars,
                 epochVars, countVars, req, op, outcome, retries>>

\* Mutant: a thread does not wait for the GC in progress.
jni_lock_during_gc(t) ==
  /\ pc[t] = "jni_lock"
  /\ ~(needs_gc /\ jni_lock_count > 0)
  /\ in_critical' = in_critical \union {t}
  /\ jni_lock_count' = jni_lock_count + 1
  /\ Goto(t, "java")
  /\ UNCHANGED <<Heap_lock, room, needs_gc, doing_gc, cycleVars, epochVars,
                 countVars, req, op, outcome, retries>>

jni_lock(t) ==
  /\ pc[t] = "jni_lock"
  /\ ~(needs_gc /\ jni_lock_count > 0) /\ ~doing_gc
  /\ in_critical' = in_critical \union {t}
  /\ jni_lock_count' = jni_lock_count + 1
  /\ Goto(t, "java")
  /\ UNCHANGED <<Heap_lock, room, needs_gc, doing_gc, cycleVars, epochVars,
                 countVars, req, op, outcome, retries>>

\* Mutant: the fast path is taken whatever the state.
unlock_critical_fast(t) ==
  /\ pc[t] = "java" /\ t \in in_critical
  /\ in_critical' = in_critical \ {t}
  /\ UNCHANGED <<Heap_lock, room, needs_gc, doing_gc, jni_lock_count, cycleVars,
                 epochVars, countVars, threadVars>>

unlock_critical(t) ==
  /\ pc[t] = "java" /\ t \in in_critical
  /\ IF needs_gc
     THEN Goto(t, "jni_unlock") /\ UNCHANGED in_critical
     ELSE in_critical' = in_critical \ {t} /\ UNCHANGED pc
  /\ UNCHANGED <<Heap_lock, room, needs_gc, doing_gc, jni_lock_count, cycleVars,
                 epochVars, countVars, req, op, outcome, retries>>

\* Mutant: the count is tested before it is decremented.
jni_unlock_early(t) ==
  /\ pc[t] = "jni_unlock"
  /\ in_critical' = in_critical \ {t}
  /\ jni_lock_count' = jni_lock_count - 1
  /\ IF needs_gc /\ jni_lock_count = 0
     THEN /\ doing_gc' = TRUE
          /\ req' = [req EXCEPT ![t] = "critical"]
          /\ Goto(t, "read_counts")
     ELSE Goto(t, "java") /\ UNCHANGED <<doing_gc, req>>
  /\ UNCHANGED <<Heap_lock, room, needs_gc, cycleVars, epochVars, countVars,
                 op, outcome, retries>>

\* The last thread out of a critical region performs the GC that is needed.
jni_unlock(t) ==
  /\ pc[t] = "jni_unlock"
  /\ in_critical' = in_critical \ {t}
  /\ jni_lock_count' = jni_lock_count - 1
  /\ IF needs_gc /\ jni_lock_count = 1
     THEN /\ doing_gc' = TRUE
          /\ req' = [req EXCEPT ![t] = "critical"]
          /\ Goto(t, "read_counts")
     ELSE Goto(t, "java") /\ UNCHANGED <<doing_gc, req>>
  /\ UNCHANGED <<Heap_lock, room, needs_gc, cycleVars, epochVars, countVars,
                 op, outcome, retries>>

\* Back from its collection, it lets the waiting threads go on.
LockerDone(t) ==
  /\ pc[t] = "locker_done"
  /\ doing_gc' = FALSE /\ needs_gc' = FALSE
  /\ Return(t)
  /\ UNCHANGED <<Heap_lock, room, in_critical, jni_lock_count, cycleVars,
                 epochVars>>

-----------------------------------------------------------------------------
(* The concurrent mark thread.                                             *)

\* The cleanup pause, which counts as a collection and may free regions.
Cleanup ==
  /\ cm = "marking" /\ Heap_lock = NoThread
  /\ cm' = "finishing"
  /\ collected' = Noticed(collected)
  /\ room' \in {room, TRUE}
  /\ CountCritical
  /\ UNCHANGED <<Heap_lock, in_critical, needs_gc, doing_gc, open_cycles,
                 initiate, epochVars, started, completed, threadVars>>

increment_old_marking_cycles_completed ==
  /\ cm = "finishing"
  /\ cm' = "idle"
  /\ open_cycles' = open_cycles - 1
  /\ completed' = Noticed(completed)
  /\ UNCHANGED <<Heap_lock, room, lockerVars, initiate, epochVars, collected,
                 started, threadVars>>

-----------------------------------------------------------------------------
\* Thread t goes on with its request; the VM thread executes its operation.
Continue(t) ==
  \/ attempt_allocation_slow(t) \/ stall_until_clear(t) \/ RetryAllocation(t)
  \/ CollectForAllocation(t) \/ collect(t) \/ StallRetry(t)
  \/ PublishRegion(t)
  \/ doit_prologue(t) \/ DoitInc(t) \/ DoitLocker(t) \/ DoitInitial(t)
  \/ DoitFull(t) \/ DoitForAlloc(t) \/ DoitRebase(t) \/ doit_epilogue(t)
  \/ WaitCycle(t) \/ After(t) \/ MergeAllocCounters(t)
  \/ jni_lock(t) \/ jni_unlock(t) \/ LockerDone(t)

ConcurrentMark == Cleanup \/ increment_old_marking_cycles_completed

Next ==
  \/ \E t \in Threads :
       \/ StartAlloc(t) \/ StartCollect(t) \/ collect_alloc_gen(t)
       \/ allocate_new_region(t) \/ lock_critical(t) \/ unlock_critical(t)
       \/ Continue(t)
  \/ ConcurrentMark

Spec == Init /\ [][Next]_vars

\* Threads and the VM thread keep running and monitors hand a lock to each of
\* their waiters in the end; a marking cycle completes; critical regions are,
\* "by spec, well bounded".  Nothing makes a thread start a request.
FairSpec ==
  /\ Spec
  /\ \A t \in Threads : SF_vars(Continue(t)) /\ WF_vars(unlock_critical(t))
  /\ SF_vars(ConcurrentMark)

-----------------------------------------------------------------------------
TypeOK ==
  /\ Heap_lock \in Threads \union {NoThread}
  /\ room \in BOOLEAN /\ needs_gc \in BOOLEAN /\ doing_gc \in BOOLEAN
  /\ in_critical \subseteq Threads
  /\ jni_lock_count \in 0 .. Cardinality(Threads)
  /\ open_cycles \in 0 .. 2
  /\ cm \in {"idle", "marking", "finishing"} /\ initiate \in BOOLEAN
  /\ active \in BOOLEAN /\ behind \subseteq Threads /\ fetched \subseteq Threads
  /\ pc \in [Threads -> Points]
  /\ req \in [Threads -> AllRequests \union {"none"}]
  /\ op \in [Threads -> Ops] /\ outcome \in [Threads -> Outcomes]
  /\ retries \in [Threads -> 0 .. LockerRetries + 1]
  /\ collected \in [Threads -> BOOLEAN]
  /\ started \in [Threads -> BOOLEAN] /\ completed \in [Threads -> BOOLEAN]

\* When collect_alloc_gen returns, the generation no longer allocates into a
\* region of an earlier epoch, whether the call rebased the generation,
\* collected, or gave up because another cycle started meanwhile.
EpochsSeparate == \A t \in behind \union fetched : req[t] = "collect_gen"

\* The GC locker keeps its word while the last thread out collects: until it
\* has finished, no thread is in a critical region, so its own request is
\* never locked out ("GC_locker cannot be active when initiating GC").
LockerCollectsAlone ==
  /\ doing_gc => in_critical = {}
  /\ \A t \in Threads : op[t] = "locker" => outcome[t] # "failed"

\* While a GC is needed the count of critical regions is exact, although the
\* fast paths do not maintain it: it decides who performs the GC.
LockerCountExact == needs_gc => jni_lock_count = Cardinality(in_critical)

\* The assertions of increment_old_marking_cycles_started and _completed: one
\* cycle is open exactly while the concurrent mark thread is in a cycle, also
\* when full collections are nested in it.
CyclesNest == open_cycles = IF cm = "idle" THEN 0 ELSE 1

\* A concurrent System.gc() never waits for nothing.  Until a cycle completes,
\* one is in progress; or the operation was locked out, its wish for a cycle
\* still stands and the locker's GC, which will start the cycle, is to come.
CycleToWaitFor ==
  \A t \in Threads :
    pc[t] = "wait_cycle" =>
      completed[t] \/ cm # "idle" \/ (initiate /\ needs_gc)

\* A thread that waits for the locker's GC is not forgotten: the GC is
\* performed by the last thread out and the need for it is cleared.
LockerClears == needs_gc ~> ~needs_gc

\* Every request returns once the other threads leave the collector alone.
Alone(t) ==
  /\ in_critical \subseteq {t}
  /\ \A u \in Threads \ {t} : pc[u] = "java"

RequestsReturn ==
  \A t \in Threads : <>[]Alone(t) => (pc[t] # "java" ~> pc[t] = "java")
=============================================================================
