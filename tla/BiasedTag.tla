------------------------------- MODULE BiasedTag -------------------------------
(***************************************************************************)
(* Biased locking (runtime/biasedLocking.cpp) of one object whose header    *)
(* carries an allocation-site tag.  The tag is written over the prototype   *)
(* header of the class and takes the bits that name the thread an object is *)
(* biased toward, so a fresh tagged object looks biased toward a thread     *)
(* that does not exist.  The site is not zero and the upper 16 bits of a    *)
(* thread's address are, so no tag is the address of a thread.              *)
(*                                                                         *)
(* A mark is biased (owner and epoch), unlocked or locked; what happens to  *)
(* a mark that is no longer biased is module MarkWord's subject.  The       *)
(* revocation count of the class is shared with all its other objects, so   *)
(* update_heuristics may choose any of its results.  Recursive locking and  *)
(* the exit of threads are left out.                                        *)
(***************************************************************************)
EXTENDS Naturals

CONSTANTS
  Threads,   \* Java threads
  NULL,      \* no bias owner: the object is biased anonymously
  Tag,       \* the bias owner that a tagged header seems to have
  Fresh,     \* what a fresh header may hold where the owner is: NULL, Tag
  Epochs     \* number of bias epochs, markOopDesc::max_bias_epoch + 1

ASSUME BiasedTagAssumption ==
  /\ NULL \notin Threads /\ Tag \notin Threads /\ NULL # Tag
  /\ Fresh \subseteq {NULL, Tag}
  /\ Epochs \in Nat \ {0}

VARIABLES
  mark,       \* the mark word of the object
  prototype,  \* the prototype header of its class: [biased, epoch]
  pc,         \* where each thread is
  want,       \* what each thread calls: "lock" or "hash"
  seen,       \* the mark word each thread has read
  holds,      \* the threads that believe they hold the lock
  owned       \* history: the object was once biased toward a thread

vars == <<mark, prototype, pc, want, seen, holds, owned>>

Owners == Threads \cup {NULL, Tag}
EpochNumbers == 0 .. Epochs - 1

Biased(owner, epoch) == [kind |-> "biased", owner |-> owner, epoch |-> epoch]
Unlocked == [kind |-> "unlocked", owner |-> NULL, epoch |-> 0]
Locked(t) == [kind |-> "locked", owner |-> t, epoch |-> 0]

has_bias_pattern(m) == m.kind = "biased"

Marks == [kind : {"biased", "unlocked", "locked"}, owner : Owners, epoch : EpochNumbers]
Pcs == {"idle", "enter", "runtime", "revoke", "heuristics", "own",
        "single", "bulk_rebias", "bulk_revoke", "slow"}

\* The object is allocated while its class may be biased: its header is the
\* prototype header, with the tag of its site when it has one.
Init ==
  /\ \E owner \in Fresh, epoch \in EpochNumbers :
        /\ mark = Biased(owner, epoch)
        /\ prototype = [biased |-> TRUE, epoch |-> epoch]
  /\ pc = [t \in Threads |-> "idle"]
  /\ want = [t \in Threads |-> "lock"]
  /\ seen = [t \in Threads |-> Unlocked]
  /\ holds = {}
  /\ owned = FALSE

Goto(t, label) == pc' = [pc EXCEPT ![t] = label]

\* The slot of a monitor names the object before the locking code runs, so a
\* stack walk finds the monitors held and those being entered.
Listed(t) == t \in holds \/ (want[t] = "lock" /\ pc[t] # "idle")

\* Compiled code and the runtime reach no safepoint between reading the mark
\* and the compare-and-exchange or the VM operation that follows.
AtSafepoint == \A t \in Threads : pc[t] \notin {"enter", "revoke", "heuristics", "own"}

-----------------------------------------------------------------------------
(* Entering a monitor: the assembly fast path (biased_locking_enter).         *)

Lock(t) ==
  /\ pc[t] = "idle" /\ t \notin holds
  /\ want' = [want EXCEPT ![t] = "lock"]
  /\ seen' = [seen EXCEPT ![t] = mark]
  /\ Goto(t, "enter")
  /\ UNCHANGED <<mark, prototype, holds, owned>>

\* Compare-and-exchange of the mark; `won' and `lost' say where t goes on.  A
\* thread that installed its own bias holds the lock.
Exchange(t, expected, new, won, lost) ==
  /\ mark' = IF mark = expected THEN new ELSE mark
  /\ Goto(t, IF mark = expected THEN won ELSE lost)
  /\ holds' = IF mark = expected /\ new.owner = t THEN holds \cup {t} ELSE holds
  /\ owned' = (owned \/ (mark = expected /\ new.owner = t))
  /\ UNCHANGED <<prototype, want, seen>>

\* The header is not biased: go on with the locking code of unbiased objects.
EnterUnbiased(t) ==
  /\ pc[t] = "enter" /\ ~has_bias_pattern(seen[t])
  /\ Goto(t, "slow")
  /\ UNCHANGED <<mark, prototype, want, seen, holds, owned>>

\* Biased toward this thread in the current epoch: nothing is written.
EnterBiased(t) ==
  /\ pc[t] = "enter" /\ prototype.biased
  /\ seen[t] = Biased(t, prototype.epoch)
  /\ holds' = holds \cup {t}
  /\ Goto(t, "idle")
  /\ UNCHANGED <<mark, prototype, want, seen, owned>>

\* Mutant: the stale bias is left in the header.
try_revoke_nothing(t) ==
  /\ pc[t] = "enter" /\ has_bias_pattern(seen[t]) /\ ~prototype.biased
  /\ Exchange(t, seen[t], seen[t], "slow", "slow")

try_revoke_bias(t) ==
  /\ pc[t] = "enter" /\ has_bias_pattern(seen[t]) /\ ~prototype.biased
  /\ Exchange(t, seen[t], Unlocked, "slow", "slow")

try_rebias(t) ==
  /\ pc[t] = "enter" /\ has_bias_pattern(seen[t]) /\ prototype.biased
  /\ seen[t].epoch # prototype.epoch
  /\ Exchange(t, seen[t], Biased(t, prototype.epoch), "idle", "runtime")

\* The expected header has no owner: it fails on an object biased toward
\* another thread, and on a tagged one.
AcquireBias(t) ==
  /\ pc[t] = "enter" /\ has_bias_pattern(seen[t]) /\ prototype.biased
  /\ seen[t].epoch = prototype.epoch /\ seen[t].owner # t
  /\ Exchange(t, Biased(NULL, seen[t].epoch), Biased(t, seen[t].epoch), "idle", "runtime")

\* Mutant: leaving a monitor never writes the header.
exit_as_if_biased(t) ==
  /\ pc[t] = "idle" /\ t \in holds
  /\ holds' = holds \ {t}
  /\ UNCHANGED <<mark, prototype, pc, want, seen, owned>>

\* Leaving the monitor of a biased object does nothing to its header.
biased_locking_exit(t) ==
  /\ pc[t] = "idle" /\ t \in holds
  /\ holds' = holds \ {t}
  /\ mark' = IF has_bias_pattern(mark) THEN mark ELSE Unlocked
  /\ UNCHANGED <<prototype, pc, want, seen, owned>>

\* FastHashCode: a biased header has no room for a hash.
FastHashCode(t) ==
  /\ pc[t] = "idle"
  /\ want' = [want EXCEPT ![t] = "hash"]
  /\ Goto(t, IF has_bias_pattern(mark) THEN "runtime" ELSE "slow")
  /\ UNCHANGED <<mark, prototype, seen, holds, owned>>

-----------------------------------------------------------------------------
(* revoke_and_rebias: a lock attempts to rebias the object, a hash does not.  *)

LoadMark(t) ==
  /\ pc[t] = "runtime"
  /\ seen' = [seen EXCEPT ![t] = mark]
  /\ Goto(t, "revoke")
  /\ UNCHANGED <<mark, prototype, want, holds, owned>>

\* Mutant: an anonymous bias is not told apart from a thread's.
RevokeAnonymousLate(t) ==
  /\ pc[t] = "revoke" /\ want[t] = "hash"
  /\ has_bias_pattern(seen[t]) /\ seen[t].owner = NULL
  /\ Goto(t, "heuristics")
  /\ UNCHANGED <<mark, prototype, want, seen, holds, owned>>

RevokeAnonymous(t) ==
  /\ pc[t] = "revoke" /\ want[t] = "hash"
  /\ has_bias_pattern(seen[t]) /\ seen[t].owner = NULL
  /\ Exchange(t, seen[t], Unlocked, "slow", "heuristics")

\* The branches for a biased header that the first one does not take.
InBiasedBranch(t) ==
  /\ pc[t] = "revoke" /\ has_bias_pattern(seen[t])
  /\ want[t] = "lock" \/ seen[t].owner # NULL

\* The class is no longer biasable: the result is BIAS_REVOKED in any case.
RevokeStaleClass(t) ==
  /\ InBiasedBranch(t) /\ ~prototype.biased
  /\ Exchange(t, seen[t], Unlocked, "slow", "slow")

\* The epoch of the bias has expired.  A thread that locks has listed the
\* object, and a listed object has the epoch of its class (ListedEpochCurrent):
\* the assembly code leaves the first case nothing to do.
RevokeExpired(t) ==
  /\ InBiasedBranch(t) /\ prototype.biased /\ seen[t].epoch # prototype.epoch
  /\ IF want[t] = "lock"
     THEN Exchange(t, seen[t], Biased(t, prototype.epoch), "idle", "heuristics")
     ELSE Exchange(t, seen[t], Unlocked, "slow", "heuristics")

NoShortcut(t) ==
  /\ pc[t] = "revoke"
  /\ \/ ~has_bias_pattern(seen[t])
     \/ InBiasedBranch(t) /\ prototype.biased /\ seen[t].epoch = prototype.epoch
  /\ Goto(t, "heuristics")
  /\ UNCHANGED <<mark, prototype, want, seen, holds, owned>>

\* Mutant: the epoch of the bias is not compared with that of the class.
update_heuristics_any_epoch(t) ==
  /\ pc[t] = "heuristics"
  /\ IF ~has_bias_pattern(mark)
     THEN Goto(t, "slow") /\ UNCHANGED seen
     ELSE IF seen[t].owner = t
          THEN Goto(t, "own") /\ seen' = [seen EXCEPT ![t] = mark]
          ELSE Goto(t, "single") /\ UNCHANGED seen
  /\ UNCHANGED <<mark, prototype, want, holds, owned>>

\* A thread that revokes its own bias walks its own stack, without a
\* safepoint; everything else becomes a VM operation.
update_heuristics(t) ==
  /\ pc[t] = "heuristics"
  /\ IF ~has_bias_pattern(mark)
     THEN Goto(t, "slow") /\ UNCHANGED seen
     ELSE \/ /\ seen[t].owner = t /\ prototype.epoch = seen[t].epoch
             /\ seen' = [seen EXCEPT ![t] = mark]
             /\ Goto(t, "own")
          \/ /\ ~(seen[t].owner = t /\ prototype.epoch = seen[t].epoch)
             /\ Goto(t, "single") /\ UNCHANGED seen
          \/ /\ \E bulk \in {"bulk_rebias", "bulk_revoke"} : Goto(t, bulk)
             /\ UNCHANGED seen
  /\ UNCHANGED <<mark, prototype, want, holds, owned>>

\* The header revoke_bias leaves behind.  The owner of a tagged header is not
\* in the list of threads: its bias is revoked like a dead thread's.
revoke_bias(m, allow_rebias) ==
  CASE ~has_bias_pattern(m) -> m
    [] has_bias_pattern(m) /\ m.owner = NULL -> IF allow_rebias THEN m ELSE Unlocked
    [] has_bias_pattern(m) /\ m.owner # NULL ->
         IF m.owner \in Threads /\ Listed(m.owner) THEN Locked(m.owner)
         ELSE IF allow_rebias THEN Biased(NULL, 0) ELSE Unlocked

\* The write is a plain store of what was computed from the mark read before.
RevokeOwn(t) ==
  /\ pc[t] = "own"
  /\ mark' = revoke_bias(seen[t], FALSE)
  /\ Goto(t, "slow")
  /\ UNCHANGED <<prototype, want, seen, holds, owned>>

-----------------------------------------------------------------------------
(* VM operations, at a safepoint.                                             *)

incr_bias_epoch(p) == [p EXCEPT !.epoch = (@ + 1) % Epochs]

\* Mutant: only the monitors of the requesting thread are adjusted.
BulkRebiasedUnwalked(m, p) == m

\* A bulk rebias gives the biased objects that are locked, or being locked,
\* the new epoch of their class.
BulkRebiased(m, p) ==
  IF has_bias_pattern(m) /\ \E t \in Threads : Listed(t) THEN [m EXCEPT !.epoch = p.epoch] ELSE m

\* A bulk revocation revokes the biases of those objects.
BulkRevoked(m) ==
  IF \E t \in Threads : Listed(t) THEN revoke_bias(m, FALSE) ELSE m

NewPrototype == IF prototype.biased THEN incr_bias_epoch(prototype) ELSE prototype

VM_RevokeBias(t) ==
  /\ pc[t] = "single" /\ AtSafepoint
  /\ mark' = revoke_bias(mark, FALSE)
  /\ Goto(t, "slow")
  /\ UNCHANGED <<prototype, want, seen, holds, owned>>

\* The object itself is revoked too, or rebiased toward a thread locking it.
VM_BulkRebias(t) ==
  LET m == revoke_bias(IF prototype.biased THEN BulkRebiased(mark, NewPrototype) ELSE mark,
                       want[t] = "lock" /\ prototype.biased)
      rebiased == want[t] = "lock" /\ has_bias_pattern(m) /\ prototype.biased
  IN /\ pc[t] = "bulk_rebias" /\ AtSafepoint
     /\ prototype' = NewPrototype
     /\ mark' = IF rebiased THEN Biased(t, NewPrototype.epoch) ELSE m
     /\ Goto(t, IF rebiased THEN "idle" ELSE "slow")
     /\ holds' = IF rebiased THEN holds \cup {t} ELSE holds
     /\ owned' = (owned \/ rebiased)
     /\ UNCHANGED <<want, seen>>

VM_BulkRevoke(t) ==
  /\ pc[t] = "bulk_revoke" /\ AtSafepoint
  /\ prototype' = [biased |-> FALSE, epoch |-> 0]
  /\ mark' = revoke_bias(BulkRevoked(mark), FALSE)
  /\ Goto(t, "slow")
  /\ UNCHANGED <<want, seen, holds, owned>>

\* The same operations, requested for another object of the class.
BulkRebiasOther ==
  /\ AtSafepoint
  /\ prototype.biased
  /\ prototype' = NewPrototype
  /\ mark' = BulkRebiased(mark, NewPrototype)
  /\ UNCHANGED <<pc, want, seen, holds, owned>>

BulkRevokeOther ==
  /\ AtSafepoint
  /\ prototype' = [biased |-> FALSE, epoch |-> 0]
  /\ mark' = BulkRevoked(mark)
  /\ UNCHANGED <<pc, want, seen, holds, owned>>

\* Mutant: a full collection resets every biased header.
ResetMark(m) ==
  IF ~has_bias_pattern(m) THEN m
  ELSE IF prototype.biased THEN Biased(NULL, prototype.epoch) ELSE Unlocked

\* A full collection keeps the headers that are not biased, saves those of
\* the biased objects on some stack, and gives the others their prototype.
CompactedMark(m) ==
  IF ~has_bias_pattern(m) \/ \E t \in Threads : Listed(t) THEN m
  ELSE IF prototype.biased THEN Biased(NULL, prototype.epoch) ELSE Unlocked

FullCollection ==
  /\ AtSafepoint
  /\ mark' = CompactedMark(mark)
  /\ UNCHANGED <<prototype, pc, want, seen, holds, owned>>

-----------------------------------------------------------------------------
(* The header is not biased: slow_enter, or the hash is installed.            *)

slow_enter(t) ==
  /\ pc[t] = "slow" /\ want[t] = "lock" /\ mark = Unlocked
  /\ mark' = Locked(t)
  /\ holds' = holds \cup {t}
  /\ Goto(t, "idle")
  /\ UNCHANGED <<prototype, want, seen, owned>>

Hashed(t) ==
  /\ pc[t] = "slow" /\ want[t] = "hash" /\ ~has_bias_pattern(mark)
  /\ Goto(t, "idle")
  /\ UNCHANGED <<mark, prototype, want, seen, holds, owned>>

Continue(t) ==
  \/ EnterUnbiased(t) \/ EnterBiased(t)
  \/ try_revoke_bias(t) \/ try_rebias(t) \/ AcquireBias(t)
  \/ LoadMark(t)
  \/ RevokeAnonymous(t) \/ RevokeStaleClass(t)
  \/ RevokeExpired(t) \/ NoShortcut(t)
  \/ update_heuristics(t) \/ RevokeOwn(t)
  \/ VM_RevokeBias(t) \/ VM_BulkRebias(t) \/ VM_BulkRevoke(t)
  \/ Hashed(t)

Next ==
  \/ \E t \in Threads :
        \/ Lock(t) \/ biased_locking_exit(t) \/ FastHashCode(t)
        \/ Continue(t) \/ slow_enter(t)
  \/ BulkRebiasOther \/ BulkRevokeOther \/ FullCollection

Spec == Init /\ [][Next]_vars

\* Threads run on and the VM thread reaches its safepoints; a thread queued on
\* a monitor gets it when it is released again and again, and a holder leaves.
FairSpec ==
  /\ Spec
  /\ \A t \in Threads :
        /\ SF_vars(Continue(t))
        /\ SF_vars(slow_enter(t))
        /\ SF_vars(biased_locking_exit(t))

-----------------------------------------------------------------------------
(* Properties.                                                                *)

TypeOK ==
  /\ mark \in Marks
  /\ prototype \in [biased : BOOLEAN, epoch : EpochNumbers]
  /\ pc \in [Threads -> Pcs]
  /\ want \in [Threads -> {"lock", "hash"}]
  /\ seen \in [Threads -> Marks]
  /\ holds \subseteq Threads
  /\ owned \in BOOLEAN

\* A thread that believes it holds the lock is the one its header names: the
\* header is biased toward it in the current epoch of a biasable class, or
\* locked by it.  So no two threads hold the lock at once, whatever fast paths,
\* revocations, bulk operations and full collections come between, and
\* whether or not the object was tagged.
HolderInMark ==
  \A t \in holds :
     \/ mark = Locked(t)
     \/ prototype.biased /\ mark = Biased(t, prototype.epoch)

\* "biases should be revoked by now", "even if we raced, should still be
\* revoked": when the runtime goes on to the code for unbiased objects, the
\* header is not biased, whichever thread won the races before.
RevokedByNow ==
  \A t \in Threads : pc[t] = "slow" => ~has_bias_pattern(mark)

\* "error in bias epoch adjustment": a biased header that a bulk rebias finds
\* on a stack is of the current epoch, even when the thread that lists it
\* only waits for the revocation of a tag.
ListedEpochCurrent ==
  (/\ AtSafepoint /\ has_bias_pattern(mark) /\ prototype.biased
   /\ \E t \in Threads : Listed(t))
  => mark.epoch = prototype.epoch

\* "There are no races with revocations occurring in other threads": a thread
\* that revokes a bias without a safepoint revokes its own, so the stack it
\* walks is its own, and the header does not change between the read and the
\* plain store.
OwnRevocationAlone ==
  \A t \in Threads : pc[t] = "own" => mark = seen[t] /\ mark.owner = t

\* The revocation heuristics, which may revoke the bias of a whole class, are
\* fed by objects that were once biased toward a thread, as in HotSpot, and
\* otherwise only by tagged ones: to revoke_and_rebias an allocation site in
\* the header is an owner, also when no thread has ever locked the object.
HeuristicsCountOwners ==
  \A t \in Threads :
    pc[t] = "heuristics" /\ has_bias_pattern(mark) => owned \/ mark.owner = Tag

\* Entering a monitor and computing a hash both come to an end, also when the
\* header has to be revoked first.
CallsReturn ==
  \A t \in Threads : (pc[t] # "idle") ~> (pc[t] = "idle")

=============================================================================
