---------------------------- MODULE BiasedTagProofs ----------------------------
(***************************************************************************)
(* Biased locking of a tagged object is a lock for every number of threads  *)
(* and of epochs: whoever believes to hold it is named by the header.       *)
(***************************************************************************)
EXTENDS BiasedTag, TLAPS

\* A leaf that names no prover is for the SMT solver.
USE SMTT(60)

\* A thread between its read of the mark and what it does about it.
Reading(t) == pc[t] \in {"enter", "revoke", "heuristics"}

\* A thread in the runtime on its way to the lock.
Pending(t) == want[t] = "lock" /\ pc[t] \notin {"idle", "enter"}

\* A bias toward t that is valid in the current epoch.
Valid(m, t) == prototype.biased /\ m = Biased(t, prototype.epoch)

\* An unbiased mark is one of the two kinds, and a locked one names a holder.
MarkShape ==
  /\ mark.kind = "unlocked" => mark = Unlocked
  /\ mark.kind = "locked" => mark.owner \in holds /\ mark = Locked(mark.owner)

\* A thread that enters the monitor does not hold it yet.
EnteringInv ==
  \A t \in Threads :
     /\ pc[t] = "enter" => want[t] = "lock"
     /\ want[t] = "lock" /\ pc[t] # "idle" => t \notin holds

\* While a thread waits in the runtime for the lock the mark is not biased
\* toward it, and is not left in an expired epoch.
PendingInv ==
  \A t \in Threads :
     Pending(t) /\ has_bias_pattern(mark) =>
        /\ mark.owner # t
        /\ prototype.biased => mark.epoch = prototype.epoch

\* What a reader knows of a biased mark: it saw a bias too, and a bias that
\* came since is another thread's and of the current epoch.
ReadingInv ==
  \A t \in Threads :
     Reading(t) /\ has_bias_pattern(mark) =>
        /\ has_bias_pattern(seen[t])
        /\ mark # seen[t] =>
              /\ prototype.biased /\ mark.epoch = prototype.epoch
              /\ pc[t] = "enter" => mark.owner # t

\* Nobody takes away a valid bias outside a safepoint, except its owner.
ValidKept ==
  \A t \in Threads : Reading(t) /\ Valid(seen[t], t) => mark = seen[t]

\* What is left of the tests in revoke_and_rebias when the heuristics are asked.
BranchInv ==
  \A t \in Threads :
     /\ pc[t] = "heuristics" /\ has_bias_pattern(seen[t]) /\ seen[t].owner # NULL
           => prototype.biased
     /\ pc[t] = "own" => mark = seen[t] /\ Valid(mark, t)

\* A bias that may reach the heuristics was a thread's or is a tag: an object
\* never biased toward a thread keeps the owner it was allocated with as long
\* as a thread waits in the runtime for its lock, and between the read and the
\* compare-and-exchange of the thread that computes its hash.
OwnersInv ==
  has_bias_pattern(mark) =>
    /\ mark.owner \in Threads => owned
    /\ \A t \in Threads :
         Pending(t) \/ pc[t] = "heuristics" \/ (Reading(t) /\ mark # seen[t])
            => owned \/ mark.owner = Tag

IInv ==
  /\ TypeOK /\ MarkShape /\ HolderInMark /\ RevokedByNow
  /\ EnteringInv /\ PendingInv /\ ReadingInv /\ ValidKept /\ BranchInv

-----------------------------------------------------------------------------
(* The initial states, and what revoke_bias leaves behind.                    *)

\* A fresh object is biased in the current epoch, toward nobody or its tag.
LEMMA InitInv == Init => IInv
<1> SUFFICES ASSUME Init PROVE IInv
  BY ZenonT(60)
<1>1. PICK owner \in Fresh, epoch \in EpochNumbers :
         mark = Biased(owner, epoch) /\ prototype = [biased |-> TRUE, epoch |-> epoch]
  BY ZenonT(60) DEF Init
<1>2. owner \in Owners /\ 0 \in EpochNumbers
  BY BiasedTagAssumption DEF Owners, EpochNumbers
<1>3. TypeOK
  BY ZenonT(60), <1>1, <1>2 DEF Init, TypeOK, Biased, Unlocked, Marks, Owners, Pcs
<1> QED
  BY ZenonT(60), <1>1, <1>3
  DEF Init, IInv, MarkShape, HolderInMark, RevokedByNow, EnteringInv, PendingInv,
      ReadingInv, ValidKept, BranchInv, Pending, Reading, Biased

\* The outcomes of revoke_bias, by the owner that the header names.
LEMMA RevokeResult ==
  ASSUME NEW m \in Marks, NEW allow \in BOOLEAN
  PROVE  /\ ~has_bias_pattern(m) => revoke_bias(m, allow) = m
         /\ has_bias_pattern(m) /\ m.owner \in Threads /\ Listed(m.owner)
               => revoke_bias(m, allow) = Locked(m.owner)
         /\ has_bias_pattern(m) /\ ~(m.owner \in Threads /\ Listed(m.owner)) /\ ~allow
               => revoke_bias(m, allow) = Unlocked
         /\ has_bias_pattern(m) /\ ~(m.owner \in Threads /\ Listed(m.owner)) /\ allow
               => revoke_bias(m, allow) \in {m, Biased(NULL, 0)}
BY ZenonT(60), BiasedTagAssumption DEF revoke_bias

\* A revocation at a safepoint leaves no bias, and leaves the lock with the
\* thread that holds it.
LEMMA RevokeAtSafepoint ==
  ASSUME IInv, AtSafepoint, NEW m \in Marks,
         m = mark \/ (has_bias_pattern(mark) /\ m.kind = "biased" /\ m.owner = mark.owner)
  PROVE  /\ revoke_bias(m, FALSE) \in Marks
         /\ ~has_bias_pattern(revoke_bias(m, FALSE))
         /\ holds = {} => revoke_bias(m, FALSE) = Unlocked
         /\ \A u \in holds : revoke_bias(m, FALSE) = Locked(u)
<1> DEFINE r == revoke_bias(m, FALSE)
<1>1. /\ ~has_bias_pattern(m) => r = m
      /\ has_bias_pattern(m) /\ m.owner \in Threads /\ Listed(m.owner) => r = Locked(m.owner)
      /\ has_bias_pattern(m) /\ ~(m.owner \in Threads /\ Listed(m.owner)) => r = Unlocked
  BY ZenonT(60), RevokeResult
<1>2. /\ Unlocked \in Marks /\ ~has_bias_pattern(Unlocked)
      /\ \A u \in Threads : Locked(u) \in Marks /\ ~has_bias_pattern(Locked(u))
  BY BiasedTagAssumption DEF Unlocked, Locked, Marks, Owners, EpochNumbers, has_bias_pattern
<1>3. holds \subseteq Threads
  BY ZenonT(60) DEF IInv, TypeOK
<1>4. \A u \in Threads : has_bias_pattern(mark) /\ mark.owner = u /\ Listed(u) => u \in holds
  BY ZenonT(60) DEF IInv, PendingInv, Pending, Listed, AtSafepoint
<1>5. \A u \in holds : Listed(u)
  BY ZenonT(60) DEF Listed
<1>6. \A u \in holds : mark = Locked(u) \/ (has_bias_pattern(mark) /\ mark.owner = u)
  BY DEF IInv, HolderInMark, Biased, has_bias_pattern
<1>7. ~has_bias_pattern(mark) => mark = Unlocked \/ (\E u \in holds : mark = Locked(u))
  BY ZenonT(60) DEF IInv, TypeOK, MarkShape, Marks, has_bias_pattern
<1>8. /\ \A u, v \in holds : Locked(u) = Locked(v) => u = v
      /\ \A u \in holds : Locked(u) # Unlocked
  BY ZenonT(60) DEF Locked, Unlocked
<1> HIDE DEF r
<1>9. CASE ~has_bias_pattern(m)
  <2>1. m = mark /\ r = mark
    BY ZenonT(60), <1>1, <1>9 DEF has_bias_pattern
  <2> QED
    BY ZenonT(60), <1>2, <1>3, <1>6, <1>7, <1>9, <2>1 DEF r
<1>10. CASE has_bias_pattern(m) /\ m.owner \in Threads /\ Listed(m.owner)
  <2>1. m.owner \in holds /\ r = Locked(m.owner)
    BY ZenonT(60), <1>1, <1>4, <1>10 DEF has_bias_pattern
  <2>2. \A u \in holds : u = m.owner
    BY ZenonT(60), <1>2, <1>3, <1>6, <1>10 DEF has_bias_pattern
  <2> QED
    BY ZenonT(60), <1>2, <1>3, <2>1, <2>2 DEF r
<1>11. CASE has_bias_pattern(m) /\ ~(m.owner \in Threads /\ Listed(m.owner))
  <2>1. holds = {}
    BY ZenonT(60), <1>2, <1>3, <1>5, <1>6, <1>11 DEF has_bias_pattern
  <2> QED
    BY ZenonT(60), <1>1, <1>2, <1>11, <2>1 DEF r
<1> QED
  BY ZenonT(60), <1>9, <1>10, <1>11

-----------------------------------------------------------------------------
(* One lemma for each part of the next-state relation.                        *)

\* The fast path: a compare-and-exchange never hits a valid bias.
LEMMA EnterStep ==
  ASSUME IInv, NEW t \in Threads,
         \/ Lock(t) \/ EnterUnbiased(t) \/ EnterBiased(t)
         \/ try_revoke_bias(t) \/ try_rebias(t) \/ AcquireBias(t)
  PROVE  IInv'
<1> USE BiasedTagAssumption
    DEF IInv, TypeOK, MarkShape, HolderInMark, RevokedByNow, EnteringInv, PendingInv,
        ReadingInv, ValidKept, BranchInv, Pending, Reading, Valid, has_bias_pattern,
        Biased, Unlocked, Locked, Marks, Owners, EpochNumbers, Pcs, Goto
<1>1. CASE Lock(t)
  BY <1>1 DEF Lock
<1>2. CASE EnterUnbiased(t)
  BY ZenonT(60), <1>2 DEF EnterUnbiased
<1>3. CASE EnterBiased(t)
  BY <1>3 DEF EnterBiased
<1>4. CASE try_revoke_bias(t)
  BY <1>4 DEF try_revoke_bias, Exchange
<1>5. CASE try_rebias(t)
  BY <1>5 DEF try_rebias, Exchange
<1>6. CASE AcquireBias(t)
  BY <1>6 DEF AcquireBias, Exchange
<1> QED
  BY ZenonT(60), <1>1, <1>2, <1>3, <1>4, <1>5, <1>6

\* Leaving the monitor, asking for the hash, and the code for unbiased objects.
LEMMA CallStep ==
  ASSUME IInv, NEW t \in Threads,
         biased_locking_exit(t) \/ FastHashCode(t) \/ slow_enter(t) \/ Hashed(t)
  PROVE  IInv'
<1> USE BiasedTagAssumption
    DEF IInv, TypeOK, MarkShape, HolderInMark, RevokedByNow, EnteringInv, PendingInv,
        ReadingInv, ValidKept, BranchInv, Pending, Reading, Valid, has_bias_pattern,
        Biased, Unlocked, Locked, Marks, Owners, EpochNumbers, Pcs, Goto
<1>1. CASE biased_locking_exit(t)
  BY <1>1 DEF biased_locking_exit
<1>2. CASE FastHashCode(t)
  BY <1>2 DEF FastHashCode
<1>3. CASE slow_enter(t)
  BY <1>3 DEF slow_enter
<1>4. CASE Hashed(t)
  BY ZenonT(60), <1>4 DEF Hashed
<1> QED
  BY ZenonT(60), <1>1, <1>2, <1>3, <1>4

\* The branches of revoke_and_rebias before the heuristics.
LEMMA RevokeStep ==
  ASSUME IInv, NEW t \in Threads,
         \/ LoadMark(t) \/ RevokeAnonymous(t) \/ RevokeStaleClass(t)
         \/ RevokeExpired(t) \/ NoShortcut(t) \/ update_heuristics(t)
  PROVE  IInv'
<1> USE BiasedTagAssumption
    DEF IInv, TypeOK, MarkShape, HolderInMark, RevokedByNow, EnteringInv, PendingInv,
        ReadingInv, ValidKept, BranchInv, Pending, Reading, Valid, has_bias_pattern,
        Biased, Unlocked, Locked, Marks, Owners, EpochNumbers, Pcs, Goto
<1>1. CASE LoadMark(t)
  BY <1>1 DEF LoadMark
<1>2. CASE RevokeAnonymous(t)
  BY <1>2 DEF RevokeAnonymous, Exchange
<1>3. CASE RevokeStaleClass(t)
  BY <1>3 DEF RevokeStaleClass, Exchange, InBiasedBranch
<1>4. CASE RevokeExpired(t)
  <2>1. CASE want[t] = "lock"
    BY <1>4, <2>1 DEF RevokeExpired, Exchange, InBiasedBranch
  <2>2. CASE want[t] # "lock"
    BY <1>4, <2>2 DEF RevokeExpired, Exchange, InBiasedBranch
  <2> QED
    BY ZenonT(60), <2>1, <2>2
<1>5. CASE NoShortcut(t)
  BY <1>5 DEF NoShortcut, InBiasedBranch
<1>6. CASE update_heuristics(t)
  BY <1>6 DEF update_heuristics
<1> QED
  BY ZenonT(60), <1>1, <1>2, <1>3, <1>4, <1>5, <1>6

\* A step that takes the bias away, leaves the lock with its holder and goes
\* on to the code for unbiased objects.
LEMMA RevokedStep ==
  ASSUME IInv, NEW t \in Threads,
         pc[t] \in {"own", "single", "bulk_rebias", "bulk_revoke"},
         AtSafepoint \/ (pc[t] = "own" /\ prototype' = prototype),
         mark' \in Marks, ~has_bias_pattern(mark'),
         holds = {} => mark' = Unlocked,
         \A u \in holds : mark' = Locked(u),
         prototype' \in [biased : BOOLEAN, epoch : EpochNumbers],
         Goto(t, "slow"),
         UNCHANGED <<want, seen, holds>>, owned' \in BOOLEAN
  PROVE  IInv'
<1> USE BiasedTagAssumption
    DEF IInv, TypeOK, MarkShape, HolderInMark, RevokedByNow, EnteringInv, PendingInv,
        ReadingInv, ValidKept, BranchInv, Pending, Reading, Valid, has_bias_pattern,
        Biased, Unlocked, Locked, Marks, Owners, EpochNumbers, Pcs, Goto
<1>1. TypeOK' /\ MarkShape' /\ HolderInMark' /\ RevokedByNow' /\ EnteringInv'
  OBVIOUS
<1>2. PendingInv' /\ ReadingInv'
  BY ZenonT(60)
<1>3. CASE AtSafepoint
  BY <1>1, <1>2, <1>3 DEF AtSafepoint
<1>4. CASE pc[t] = "own" /\ prototype' = prototype
  <2>1. \A u \in Threads \ {t} : ~Valid(seen[u], u) \/ ~(Reading(u) \/ pc[u] = "own")
    BY <1>4
  <2> QED
    BY <1>1, <1>2, <1>4, <2>1
<1> QED
  BY ZenonT(60), <1>3, <1>4

\* A thread revokes its own valid bias.
LEMMA OwnStep ==
  ASSUME IInv, NEW t \in Threads, RevokeOwn(t)
  PROVE  IInv'
<1>1. pc[t] = "own" /\ mark = seen[t] /\ Valid(mark, t)
  BY ZenonT(60) DEF RevokeOwn, IInv, BranchInv
<1>2. mark \in Marks /\ has_bias_pattern(mark) /\ mark.owner = t
  BY <1>1 DEF IInv, TypeOK, Valid, Biased, has_bias_pattern
<1>3. Listed(t) => t \in holds
  BY ZenonT(60), <1>1, <1>2 DEF IInv, PendingInv, Pending, Listed
<1>4. \A u \in holds : u = t /\ Listed(t)
  BY <1>2 DEF IInv, HolderInMark, Locked, Biased, has_bias_pattern, Listed
<1>5. mark' = revoke_bias(mark, FALSE)
  BY ZenonT(60), <1>1 DEF RevokeOwn
<1>6. /\ Listed(t) => mark' = Locked(t)
      /\ ~Listed(t) => mark' = Unlocked
  BY ZenonT(60), <1>2, <1>5, RevokeResult
<1>7. /\ Unlocked \in Marks /\ ~has_bias_pattern(Unlocked)
      /\ Locked(t) \in Marks /\ ~has_bias_pattern(Locked(t))
  BY BiasedTagAssumption DEF Unlocked, Locked, Marks, Owners, EpochNumbers, has_bias_pattern
<1>8. mark' \in Marks /\ ~has_bias_pattern(mark')
  BY ZenonT(60), <1>6, <1>7 DEF has_bias_pattern
<1>9. prototype' \in [biased : BOOLEAN, epoch : EpochNumbers] /\ owned' \in BOOLEAN
  BY ZenonT(60) DEF RevokeOwn, IInv, TypeOK
<1> QED
  BY ZenonT(60), <1>1, <1>3, <1>4, <1>6, <1>8, <1>9, RevokedStep DEF RevokeOwn

\* The class of the object after a bulk rebias.
LEMMA NewPrototypeType ==
  ASSUME TypeOK
  PROVE  /\ NewPrototype \in [biased : BOOLEAN, epoch : EpochNumbers]
         /\ NewPrototype.biased = prototype.biased
BY BiasedTagAssumption DEF TypeOK, NewPrototype, incr_bias_epoch, EpochNumbers

\* The VM operations that revoke the bias of the object.
LEMMA RevokeOperation ==
  ASSUME IInv, NEW t \in Threads, VM_RevokeBias(t) \/ VM_BulkRevoke(t)
  PROVE  IInv'
<1> DEFINE r == revoke_bias(mark, FALSE)
<1>1. AtSafepoint /\ pc[t] \in {"single", "bulk_revoke"} /\ mark \in Marks /\ owned \in BOOLEAN
  BY ZenonT(60) DEF VM_RevokeBias, VM_BulkRevoke, IInv, TypeOK
<1>2. /\ r \in Marks /\ ~has_bias_pattern(r)
      /\ holds = {} => r = Unlocked
      /\ \A u \in holds : r = Locked(u)
  BY ZenonT(60), <1>1, RevokeAtSafepoint
<1>3. revoke_bias(r, FALSE) = r
  BY ZenonT(60), <1>2, RevokeResult
<1>4. mark' = r
  BY ZenonT(60), <1>3 DEF VM_RevokeBias, VM_BulkRevoke, BulkRevoked
<1> HIDE DEF r
<1>5. prototype' \in [biased : BOOLEAN, epoch : EpochNumbers]
  <2>1. 0 \in EpochNumbers
    BY BiasedTagAssumption DEF EpochNumbers
  <2>2. prototype' = prototype \/ prototype' = [biased |-> FALSE, epoch |-> 0]
    BY ZenonT(60) DEF VM_RevokeBias, VM_BulkRevoke
  <2>3. prototype \in [biased : BOOLEAN, epoch : EpochNumbers]
    BY ZenonT(60) DEF IInv, TypeOK
  <2>4. [biased |-> FALSE, epoch |-> 0] \in [biased : BOOLEAN, epoch : EpochNumbers]
    BY ZenonT(60), <2>1
  <2> QED
    BY <2>2, <2>3, <2>4, ZenonT(60)
<1> QED
  BY ZenonT(60), <1>1, <1>2, <1>4, <1>5, RevokedStep DEF VM_RevokeBias, VM_BulkRevoke, has_bias_pattern

\* The VM operation that gives the class a new epoch, and the object to the
\* thread that asks for the lock unless another thread holds it.
LEMMA RebiasOperation ==
  ASSUME IInv, NEW t \in Threads, VM_BulkRebias(t)
  PROVE  IInv'
<1> DEFINE b == IF prototype.biased THEN BulkRebiased(mark, NewPrototype) ELSE mark
           allow == want[t] = "lock" /\ prototype.biased
           m == revoke_bias(b, allow)
           kept == has_bias_pattern(b) /\ ~(b.owner \in Threads /\ Listed(b.owner)) /\ allow
<1>1. AtSafepoint /\ pc[t] = "bulk_rebias" /\ TypeOK
  BY ZenonT(60) DEF VM_BulkRebias, IInv
<1>2. /\ b \in Marks
      /\ b = mark \/ (has_bias_pattern(mark) /\ b.kind = "biased" /\ b.owner = mark.owner)
  BY ZenonT(60), <1>1, NewPrototypeType DEF TypeOK, BulkRebiased, Marks, has_bias_pattern
<1>3. prototype' \in [biased : BOOLEAN, epoch : EpochNumbers] /\ prototype'.biased = prototype.biased
  BY ZenonT(60), <1>1, NewPrototypeType DEF VM_BulkRebias
<1>4. allow \in BOOLEAN
  BY ZenonT(60)
<1>5. CASE ~kept
  <2>1. m = revoke_bias(b, FALSE)
    BY ZenonT(60), <1>2, <1>4, <1>5, RevokeResult DEF has_bias_pattern
  <2>2. /\ m \in Marks /\ ~has_bias_pattern(m)
        /\ holds = {} => m = Unlocked
        /\ \A u \in holds : m = Locked(u)
    BY ZenonT(60), <1>1, <1>2, <2>1, RevokeAtSafepoint
  <2>3. mark' = m /\ Goto(t, "slow") /\ UNCHANGED <<want, seen, holds>> /\ owned' \in BOOLEAN
    BY ZenonT(60), <1>1, <2>2 DEF VM_BulkRebias, TypeOK
  <2> HIDE DEF m
  <2> QED
    BY ZenonT(60), <1>1, <1>3, <2>2, <2>3, RevokedStep DEF has_bias_pattern
<1>6. CASE kept
  <2>1. has_bias_pattern(m)
    <3>1. m \in {b, Biased(NULL, 0)}
      BY ZenonT(60), <1>2, <1>4, <1>6, RevokeResult
    <3> HIDE DEF m
    <3> QED
      BY <1>6, <3>1 DEF has_bias_pattern, Biased
  <2>2. holds = {}
    BY <1>1, <1>2, <1>6 DEF IInv, TypeOK, HolderInMark, Listed, Locked, Biased, has_bias_pattern
  <2>3. /\ mark' = Biased(t, prototype'.epoch) /\ prototype'.biased
        /\ Goto(t, "idle") /\ holds' = {t} /\ owned' \in BOOLEAN /\ UNCHANGED <<want, seen>>
    BY ZenonT(60), <1>3, <1>6, <2>1, <2>2 DEF VM_BulkRebias
  <2>4. ~\E u \in Threads : pc[u] = "slow"
    BY ZenonT(60), <1>2, <1>6 DEF IInv, RevokedByNow, has_bias_pattern
  <2> HIDE DEF m, kept, b, allow
  <2>5. TypeOK'
    BY ZenonT(60), <1>1, <1>3, <2>3 DEF TypeOK, Biased, Marks, Owners, Goto, Pcs
  <2>6. MarkShape' /\ HolderInMark' /\ RevokedByNow' /\ EnteringInv'
    BY ZenonT(60), <1>1, <2>2, <2>3, <2>4
    DEF IInv, TypeOK, MarkShape, HolderInMark, RevokedByNow, EnteringInv, Biased, Goto
  <2>7. PendingInv'
    BY ZenonT(60), <1>1, <2>3 DEF TypeOK, PendingInv, Pending, Biased, Goto
  <2>8. ReadingInv' /\ ValidKept' /\ BranchInv'
    BY ZenonT(60), <1>1, <2>3 DEF TypeOK, AtSafepoint, ReadingInv, ValidKept, BranchInv, Reading, Goto
  <2> QED
    BY ZenonT(60), <2>5, <2>6, <2>7, <2>8 DEF IInv
<1> QED
  BY ZenonT(60), <1>5, <1>6

\* The bulk operations for other objects of the class, and full collections.
LEMMA SafepointStep ==
  ASSUME IInv, BulkRebiasOther \/ BulkRevokeOther \/ FullCollection
  PROVE  IInv'
<1> USE BiasedTagAssumption
    DEF IInv, TypeOK, MarkShape, HolderInMark, RevokedByNow, EnteringInv, PendingInv,
        ReadingInv, ValidKept, BranchInv, Pending, Reading, Valid, has_bias_pattern,
        Biased, Unlocked, Locked, Marks, Owners, EpochNumbers, Pcs,
        AtSafepoint, Listed
<1>1. CASE BulkRebiasOther
  BY <1>1 DEF BulkRebiasOther, BulkRebiased, NewPrototype, incr_bias_epoch
<1>2. CASE BulkRevokeOther
  BY <1>2 DEF BulkRevokeOther, BulkRevoked, revoke_bias
<1>3. CASE FullCollection
  BY <1>3 DEF FullCollection, CompactedMark
<1> QED
  BY ZenonT(60), <1>1, <1>2, <1>3

\* A step that changes nothing.
LEMMA StutterStep ==
  ASSUME IInv, UNCHANGED vars
  PROVE  IInv'
BY ZenonT(60) DEF vars, IInv, TypeOK, MarkShape, HolderInMark, RevokedByNow, EnteringInv, PendingInv,
       ReadingInv, ValidKept, BranchInv, Pending, Reading, Valid

-----------------------------------------------------------------------------
(* The theorems.                                                              *)

\* The inductive invariant: what each thread knows of the header between its
\* read and its write, and what the header says of the holder.
THEOREM Invariant == Spec => []IInv
<1>1. IInv /\ [Next]_vars => IInv'
  BY ZenonT(60), EnterStep, CallStep, RevokeStep, OwnStep, RevokeOperation, RebiasOperation,
     SafepointStep, StutterStep DEF Next, Continue
<1> QED
  BY <1>1, InitInv, PTL DEF Spec

\* The marks are well formed and the epoch stays within its bits.
THEOREM TypeCorrect == Spec => []TypeOK
<1>1. IInv => TypeOK
  BY ZenonT(60) DEF IInv
<1> QED
  BY <1>1, Invariant, PTL

\* Biased locking is a lock also for tagged objects: a thread that believes it
\* holds the monitor is the one that the header names, for every number of
\* threads and of epochs.
THEOREM MutualExclusion == Spec => []HolderInMark
<1>1. IInv => HolderInMark
  BY ZenonT(60) DEF IInv
<1> QED
  BY <1>1, Invariant, PTL

\* The bias is gone whenever the code for unbiased objects is reached, whichever
\* thread won the races in revoke_and_rebias and in the assembly code.
THEOREM Revoked == Spec => []RevokedByNow
<1>1. IInv => RevokedByNow
  BY ZenonT(60) DEF IInv
<1> QED
  BY <1>1, Invariant, PTL

\* The plain store with which a thread revokes a bias outside a safepoint
\* meets no other writer, and the bias is its own.
THEOREM OwnRevocation == Spec => []OwnRevocationAlone
<1>1. IInv => OwnRevocationAlone
  BY DEF IInv, BranchInv, OwnRevocationAlone, Valid, Biased
<1> QED
  BY <1>1, Invariant, PTL

\* The epochs a bulk rebias finds on the stacks are those its assertion expects.
THEOREM EpochsOnStacks == Spec => []ListedEpochCurrent
<1>1. IInv => ListedEpochCurrent
  BY DEF IInv, TypeOK, HolderInMark, PendingInv, Pending, ListedEpochCurrent, Listed,
         AtSafepoint, Locked, Biased, has_bias_pattern
<1> QED
  BY <1>1, Invariant, PTL

-----------------------------------------------------------------------------
(* The owners that the heuristics are told of.                                *)

\* The steps of one thread outside a safepoint.
LEMMA OwnersThreadStep ==
  ASSUME IInv, OwnersInv, NEW t \in Threads,
         \/ Lock(t) \/ EnterUnbiased(t) \/ EnterBiased(t) \/ try_revoke_bias(t)
         \/ try_rebias(t) \/ AcquireBias(t)
         \/ biased_locking_exit(t) \/ FastHashCode(t) \/ slow_enter(t) \/ Hashed(t)
         \/ LoadMark(t) \/ RevokeAnonymous(t) \/ RevokeStaleClass(t)
         \/ RevokeExpired(t) \/ NoShortcut(t) \/ update_heuristics(t)
  PROVE  OwnersInv'
<1> USE BiasedTagAssumption
    DEF IInv, TypeOK, OwnersInv, Pending, Reading, has_bias_pattern,
        Biased, Unlocked, Locked, Marks, Owners, Goto
<1>1. CASE Lock(t) \/ EnterUnbiased(t) \/ EnterBiased(t)
  BY <1>1 DEF Lock, EnterUnbiased, EnterBiased, ReadingInv
<1>2. CASE try_revoke_bias(t)
  BY ZenonT(60), <1>2 DEF try_revoke_bias, Exchange, ReadingInv
<1>3. CASE try_rebias(t)
  BY ZenonT(60), <1>3 DEF try_rebias, Exchange
<1>4. CASE AcquireBias(t)
  BY ZenonT(60), <1>4 DEF AcquireBias, Exchange
<1>5. CASE biased_locking_exit(t) \/ FastHashCode(t) \/ slow_enter(t) \/ Hashed(t)
  <2>1. CASE biased_locking_exit(t)
    BY ZenonT(60), <2>1 DEF biased_locking_exit
  <2>2. CASE FastHashCode(t)
    BY ZenonT(60), <2>2 DEF FastHashCode
  <2>3. CASE slow_enter(t)
    BY ZenonT(60), <2>3 DEF slow_enter
  <2>4. CASE Hashed(t)
    BY ZenonT(60), <2>4 DEF Hashed
  <2> QED
    BY ZenonT(60), <1>5, <2>1, <2>2, <2>3, <2>4
<1>6. CASE LoadMark(t)
  BY ZenonT(60), <1>6 DEF LoadMark
<1>7. CASE RevokeAnonymous(t) \/ RevokeStaleClass(t)
  <2>1. CASE RevokeAnonymous(t)
    BY ZenonT(60), <2>1 DEF RevokeAnonymous, Exchange
  <2>2. CASE RevokeStaleClass(t)
    BY ZenonT(60), <2>2 DEF RevokeStaleClass, Exchange, InBiasedBranch, ReadingInv
  <2> QED
    BY ZenonT(60), <1>7, <2>1, <2>2
<1>8. CASE RevokeExpired(t)
  <2>1. CASE want[t] = "lock"
    BY ZenonT(60), <1>8, <2>1 DEF RevokeExpired, Exchange, InBiasedBranch
  <2>2. CASE want[t] # "lock"
    <3>1. CASE mark = seen[t]
      <4>1. mark' = Unlocked
        BY ZenonT(60), <1>8, <2>2, <3>1 DEF RevokeExpired, Exchange
      <4>2. ~has_bias_pattern(mark')
        BY ZenonT(60), <4>1
      <4> QED
        BY ZenonT(60), <4>2
    <3>2. CASE mark # seen[t]
      BY ZenonT(60), <1>8, <2>2, <3>2 DEF RevokeExpired, Exchange, InBiasedBranch
    <3> QED
      BY ZenonT(60), <3>1, <3>2
  <2> QED
    BY ZenonT(60), <2>1, <2>2
<1>9. CASE NoShortcut(t)
  BY ZenonT(60), <1>9 DEF NoShortcut, InBiasedBranch, ReadingInv
<1>10. CASE update_heuristics(t)
  BY ZenonT(60), <1>10 DEF update_heuristics
<1> QED
  BY ZenonT(60), <1>1, <1>2, <1>3, <1>4, <1>5, <1>6, <1>7, <1>8, <1>9, <1>10

\* A revocation by its owner and the VM operations.
LEMMA OwnersRevokeStep ==
  ASSUME IInv, OwnersInv, NEW t \in Threads,
         RevokeOwn(t) \/ VM_RevokeBias(t) \/ VM_BulkRebias(t) \/ VM_BulkRevoke(t)
  PROVE  OwnersInv'
<1>1. \A m \in Marks : ~has_bias_pattern(revoke_bias(m, FALSE))
  BY ZenonT(60), BiasedTagAssumption DEF revoke_bias, has_bias_pattern, Unlocked, Locked, Marks
<1>2. mark \in Marks /\ seen[t] \in Marks
  BY ZenonT(60) DEF IInv, TypeOK
<1>3. CASE RevokeOwn(t) \/ VM_RevokeBias(t)
  BY ZenonT(60), <1>1, <1>2, <1>3 DEF RevokeOwn, VM_RevokeBias, OwnersInv
<1>4. CASE VM_BulkRevoke(t)
  <2>1. BulkRevoked(mark) \in Marks
    BY <1>2, BiasedTagAssumption
    DEF BulkRevoked, revoke_bias, Marks, Owners, EpochNumbers, Unlocked, Locked
  <2> QED
    BY ZenonT(60), <1>1, <1>4, <2>1 DEF VM_BulkRevoke, OwnersInv
<1>5. CASE VM_BulkRebias(t)
  <2>1. has_bias_pattern(mark') => owned'
    BY ZenonT(60), <1>2, <1>5, BiasedTagAssumption
    DEF VM_BulkRebias, BulkRebiased, revoke_bias, has_bias_pattern, Marks, Unlocked, Locked, Biased
  <2> QED
    BY ZenonT(60), <2>1 DEF OwnersInv
<1> QED
  BY ZenonT(60), <1>3, <1>4, <1>5

\* The operations for other objects of the class, and full collections: an
\* object on the stack of a waiting thread keeps its owner.
LEMMA OwnersSafepointStep ==
  ASSUME IInv, OwnersInv, BulkRebiasOther \/ BulkRevokeOther \/ FullCollection
  PROVE  OwnersInv'
<1> USE BiasedTagAssumption
    DEF IInv, TypeOK, OwnersInv, Pending, Reading, has_bias_pattern,
        Biased, Unlocked, Locked, Marks, AtSafepoint, Listed
<1>1. CASE BulkRebiasOther
  BY ZenonT(60), <1>1 DEF BulkRebiasOther, BulkRebiased
<1>2. CASE BulkRevokeOther
  BY ZenonT(60), <1>2 DEF BulkRevokeOther, BulkRevoked, revoke_bias
<1>3. CASE FullCollection
  BY ZenonT(60), <1>3 DEF FullCollection, CompactedMark
<1> QED
  BY ZenonT(60), <1>1, <1>2, <1>3

\* Only objects once biased toward a thread, and tagged ones, feed the
\* heuristics that may revoke the bias of a whole class.
THEOREM HeuristicsSeeOwners == Spec => []HeuristicsCountOwners
<1>1. Init => OwnersInv
  BY BiasedTagAssumption DEF Init, OwnersInv, Pending, Reading, Biased
<1>2. IInv /\ OwnersInv /\ [Next]_vars => OwnersInv'
  <2>1. IInv /\ OwnersInv /\ UNCHANGED vars => OwnersInv'
    BY DEF vars, OwnersInv, Pending, Reading
  <2> QED
    BY ZenonT(60), <2>1, OwnersThreadStep, OwnersRevokeStep, OwnersSafepointStep DEF Next, Continue
<1>3. OwnersInv => HeuristicsCountOwners
  BY ZenonT(60) DEF OwnersInv, HeuristicsCountOwners
<1> QED
  BY <1>1, <1>2, <1>3, Invariant, PTL DEF Spec

=============================================================================
