------------------------------- MODULE MarkWord -------------------------------
(***************************************************************************)
(* The header of one object that carries an allocation-site tag             *)
(* (oops/markOop.hpp), under everything that rewrites it: locking,          *)
(* inflation and deflation, identity hashing (runtime/synchronizer.cpp),    *)
(* and the collections that copy the object, fail to copy it or compact it. *)
(* The object is not biasable: an array, an instance allocated before       *)
(* biased locking starts, or any object under -XX:-UseBiasedLocking.        *)
(*                                                                         *)
(* The tag takes bits 32..63 of the word and the hash bits 8..38, so seven  *)
(* bits belong to both.  A header is modelled by the fields that overlap or *)
(* not: `site' (bits 39..63: the site and the upper bits of its context),   *)
(* `shared' (bits 32..38), `low' (bits 8..31) and the age.  A thread whose  *)
(* context is not tracked has context 0xFFFF: all shared bits are ones.     *)
(***************************************************************************)
EXTENDS Naturals

CONSTANTS
  Threads,      \* Java threads
  NoThread,     \* no owner
  Sites,        \* values of bits 39..63; 0 is "no site"
  Shared,       \* values of bits 32..38 in the contexts threads allocate in
  SharedSize,   \* 2 ^ 7
  LowSize,      \* 2 ^ 24
  MaxAge        \* markOopDesc::max_age

ASSUME MarkWordAssumption ==
  /\ NoThread \notin Threads
  /\ Sites \subseteq Nat \ {0}
  /\ SharedSize \in Nat \ {0, 1} /\ LowSize \in Nat \ {0, 1}
  /\ Shared \subseteq 0 .. SharedSize - 1
  /\ MaxAge \in Nat

VARIABLES
  mark,       \* the mark word of the object
  box,        \* each thread's BasicLock: the displaced header
  monitor,    \* the ObjectMonitor, when the mark points to one
  thread,     \* where each thread is
  tag,        \* history: the tag the object was allocated with
  returned,   \* history: the identity hashes returned so far
  installed,  \* history: a hash from get_next_hash was installed
  counted     \* history: the tags under which pauses counted the object

vars == <<mark, box, monitor, thread, tag, returned, installed, counted>>

Header == [site : Sites \cup {0}, shared : 0 .. SharedSize - 1,
           low : 0 .. LowSize - 1, age : 0 .. MaxAge]
Prototype == [site |-> 0, shared |-> 0, low |-> 0, age |-> 0]

ng2c_prof(h) == <<h.site, h.shared>>

hash(h) == h.shared * LowSize + h.low

\* Mutant: the hash is stored one field too high.
copy_set_hash_wide(h, value) ==
  [h EXCEPT !.site = IF value \div LowSize \in Sites THEN value \div LowSize ELSE 0,
            !.shared = value % LowSize]

copy_set_hash(h, value) ==
  [h EXCEPT !.shared = value \div LowSize, !.low = value % LowSize]

\* Mutant: the age runs into the next field.
incr_age_unbounded(h) == [h EXCEPT !.age = @ + 1]

incr_age(h) == [h EXCEPT !.age = IF @ = MaxAge THEN @ ELSE @ + 1]

\* get_next_hash never returns no_hash.
NewHashes == 1 .. SharedSize * LowSize - 1

\* The states of a mark word.  A stack-locked word points to the owner's box.
Neutral(h) == [kind |-> "neutral", header |-> h, owner |-> NoThread]
Locked(t)  == [kind |-> "locked", header |-> Prototype, owner |-> t]
Inflating  == [kind |-> "inflating", header |-> Prototype, owner |-> NoThread]
Inflated   == [kind |-> "monitor", header |-> Prototype, owner |-> NoThread]

NoMonitor == [header |-> Prototype, owner |-> NoThread]
Resting   == [pc |-> "idle", then |-> "idle", holds |-> FALSE,
              old |-> Prototype, new |-> Prototype, owner |-> NoThread]

Init ==
  /\ \E s \in Sites, c \in Shared :
       /\ tag = <<s, c>>
       /\ mark = Neutral([site |-> s, shared |-> c, low |-> 0, age |-> 0])
  /\ box = [t \in Threads |-> Prototype]
  /\ monitor = NoMonitor
  /\ thread = [t \in Threads |-> Resting]
  /\ returned = {}
  /\ installed = FALSE
  /\ counted = {}

-----------------------------------------------------------------------------
(* Locking. *)

\* On to pc, with no locals left over.
Goto(t, pc) == thread' = [thread EXCEPT ![t] = [Resting EXCEPT !.pc = pc, !.holds = thread[t].holds]]

\* inflate() on behalf of `then'.
GotoInflate(t, then) ==
  thread' = [thread EXCEPT ![t] = [Resting EXCEPT !.pc = "inflate", !.then = then,
                                                  !.holds = thread[t].holds]]

\* The compare-and-swap of slow_enter succeeds.
slow_enter(t) ==
  /\ thread[t].pc = "idle" /\ ~thread[t].holds
  /\ mark.kind = "neutral"
  /\ box' = [box EXCEPT ![t] = mark.header]
  /\ mark' = Locked(t)
  /\ thread' = [thread EXCEPT ![t].holds = TRUE]
  /\ UNCHANGED <<monitor, tag, returned, installed, counted>>

\* It fails, or the object is locked: inflate and enter the monitor.
EnterContended(t) ==
  /\ thread[t].pc = "idle" /\ ~thread[t].holds
  /\ GotoInflate(t, "enter")
  /\ UNCHANGED <<mark, box, monitor, tag, returned, installed, counted>>

Enter(t) ==
  /\ thread[t].pc = "enter"
  /\ monitor.owner = NoThread
  /\ monitor' = [monitor EXCEPT !.owner = t]
  /\ thread' = [thread EXCEPT ![t].pc = "idle", ![t].holds = TRUE]
  /\ UNCHANGED <<mark, box, tag, returned, installed, counted>>

\* Swing the displaced header back, or leave the monitor.  While the word is
\* INFLATING neither is possible.
fast_exit(t) ==
  /\ thread[t].pc = "idle" /\ thread[t].holds
  /\ \/ /\ mark = Locked(t)
        /\ mark' = Neutral(box[t])
        /\ box' = [box EXCEPT ![t] = Prototype]
        /\ UNCHANGED monitor
     \/ /\ mark.kind = "monitor"
        /\ monitor' = [monitor EXCEPT !.owner = NoThread]
        /\ box' = [box EXCEPT ![t] = Prototype]
        /\ UNCHANGED mark
  /\ thread' = [thread EXCEPT ![t].holds = FALSE]
  /\ UNCHANGED <<tag, returned, installed, counted>>

\* One iteration of inflate()'s loop that gets somewhere.
inflate(t) ==
  /\ thread[t].pc = "inflate"
  /\ \/ /\ mark.kind = "monitor"
        /\ Goto(t, thread[t].then)
        /\ UNCHANGED <<mark, monitor>>
     \/ /\ mark.kind = "neutral"
        /\ mark' = Inflated
        /\ monitor' = [header |-> mark.header, owner |-> NoThread]
        /\ Goto(t, thread[t].then)
     \/ /\ mark.kind = "locked"
        /\ mark' = Inflating
        /\ thread' = [thread EXCEPT ![t].pc = "publish", ![t].owner = mark.owner]
        /\ UNCHANGED monitor
  /\ UNCHANGED <<box, tag, returned, installed, counted>>

\* Mutant: the monitor is published with a fresh header.
PublishFresh(t) ==
  /\ thread[t].pc = "publish"
  /\ monitor' = [header |-> Prototype, owner |-> thread[t].owner]
  /\ mark' = Inflated
  /\ Goto(t, thread[t].then)
  /\ UNCHANGED <<box, tag, returned, installed, counted>>

\* The thread that wrote INFLATING moves the displaced header to the monitor.
Publish(t) ==
  /\ thread[t].pc = "publish"
  /\ monitor' = [header |-> box[thread[t].owner], owner |-> thread[t].owner]
  /\ mark' = Inflated
  /\ Goto(t, thread[t].then)
  /\ UNCHANGED <<box, tag, returned, installed, counted>>

-----------------------------------------------------------------------------
(* FastHashCode. *)

Return(t, value) ==
  /\ returned' = returned \cup {value}
  /\ Goto(t, "idle")

\* The header a thread may read the hash from without inflating.
Readable(t) ==
  \/ mark.kind \in {"neutral", "monitor"}
  \/ mark = Locked(t)

HeaderFor(t) ==
  CASE mark.kind = "neutral" -> mark.header
    [] mark.kind = "monitor" -> monitor.header
    [] mark.kind = "locked"  -> box[t]

\* ReadStableMark, then what the state of the word calls for.
FastHashCode(t) ==
  /\ thread[t].pc = "idle"
  /\ mark.kind # "inflating"
  /\ \/ /\ Readable(t) /\ hash(HeaderFor(t)) # 0
        /\ Return(t, hash(HeaderFor(t)))
     \/ /\ mark.kind = "neutral" /\ hash(mark.header) = 0
        /\ \E value \in NewHashes :
             thread' = [thread EXCEPT ![t].pc = "cas", ![t].old = mark.header,
                                      ![t].new = copy_set_hash(mark.header, value)]
        /\ UNCHANGED returned
     \/ /\ mark.kind # "neutral"
        /\ Readable(t) => hash(HeaderFor(t)) = 0
        /\ GotoInflate(t, "hash")
        /\ UNCHANGED returned
  /\ UNCHANGED <<mark, box, monitor, tag, installed, counted>>

\* Mutant: the header is stored without comparing.
InstallHashBlindly(t) ==
  /\ thread[t].pc = "cas"
  /\ mark' = Neutral(thread[t].new)
  /\ Return(t, hash(thread[t].new))
  /\ installed' = TRUE
  /\ UNCHANGED <<box, monitor, tag, counted>>

\* The compare-and-swap of the new header, or on to inflate().
InstallHash(t) ==
  /\ thread[t].pc = "cas"
  /\ IF mark = Neutral(thread[t].old)
     THEN /\ mark' = Neutral(thread[t].new)
          /\ installed' = TRUE
          /\ Return(t, hash(thread[t].new))
     ELSE GotoInflate(t, "hash") /\ UNCHANGED <<mark, returned, installed>>
  /\ UNCHANGED <<box, monitor, tag, counted>>

MonitorHash(t) ==
  /\ thread[t].pc = "hash"
  /\ IF hash(monitor.header) # 0
     THEN Return(t, hash(monitor.header))
     ELSE /\ \E value \in NewHashes :
               thread' = [thread EXCEPT ![t].pc = "moncas", ![t].old = monitor.header,
                                        ![t].new = copy_set_hash(monitor.header, value)]
          /\ UNCHANGED returned
  /\ UNCHANGED <<mark, box, monitor, tag, installed, counted>>

InstallMonitorHash(t) ==
  /\ thread[t].pc = "moncas"
  /\ IF monitor.header = thread[t].old
     THEN /\ monitor' = [monitor EXCEPT !.header = thread[t].new]
          /\ installed' = TRUE
          /\ Return(t, hash(thread[t].new))
     ELSE Return(t, hash(monitor.header)) /\ UNCHANGED <<monitor, installed>>
  /\ UNCHANGED <<mark, box, tag, counted>>

-----------------------------------------------------------------------------
(* Safepoints.  Threads are stopped outside these routines or blocked on the *)
(* monitor; idle monitors are deflated first.                                *)

AtSafepoint == \A t \in Threads : thread[t].pc \in {"idle", "enter"}

is_busy == monitor.owner # NoThread \/ \E t \in Threads : thread[t].pc = "enter"

\* What deflate_idle_monitors leaves of the word and the monitor.
Deflated == IF mark.kind = "monitor" /\ ~is_busy THEN Neutral(monitor.header) ELSE mark
MonitorLeft == IF mark.kind = "monitor" /\ is_busy THEN monitor ELSE NoMonitor

\* A safepoint that does not move the object.
deflate_idle_monitors ==
  /\ AtSafepoint
  /\ mark' = Deflated
  /\ monitor' = MonitorLeft
  /\ UNCHANGED <<box, thread, tag, returned, installed, counted>>

\* must_be_preserved and must_be_preserved_for_promotion_failure.
must_be_preserved(m) == m.kind # "neutral" \/ hash(m.header) # 0

\* A pause copies the object and counts it under the tag its mark shows (the
\* upper half of a pointer shows no site).  The age of a survivor is
\* incremented wherever its header is.
copy_to_survivor_space(survives) ==
  /\ AtSafepoint
  /\ counted' = IF Deflated.kind = "neutral" /\ Deflated.header.site # 0
                THEN counted \cup {ng2c_prof(Deflated.header)} ELSE counted
  /\ mark' = IF survives /\ Deflated.kind = "neutral"
             THEN Neutral(incr_age(Deflated.header)) ELSE Deflated
  /\ box' = IF survives /\ Deflated.kind = "locked"
            THEN [box EXCEPT ![Deflated.owner] = incr_age(@)] ELSE box
  /\ monitor' = IF survives /\ Deflated.kind = "monitor"
                THEN [MonitorLeft EXCEPT !.header = incr_age(@)] ELSE MonitorLeft
  /\ UNCHANGED <<thread, tag, returned, installed>>

\* An evacuation failure or a full collection: the mark word is used for
\* forwarding and set to the prototype unless it had to be preserved.
ResetHeader ==
  /\ AtSafepoint
  /\ mark' = IF must_be_preserved(Deflated) THEN Deflated ELSE Neutral(Prototype)
  /\ monitor' = MonitorLeft
  /\ UNCHANGED <<box, thread, tag, returned, installed, counted>>

Next ==
  \/ \E t \in Threads :
       \/ slow_enter(t) \/ EnterContended(t) \/ Enter(t) \/ fast_exit(t)
       \/ inflate(t) \/ Publish(t)
       \/ FastHashCode(t) \/ InstallHash(t) \/ MonitorHash(t) \/ InstallMonitorHash(t)
  \/ \E survives \in BOOLEAN : copy_to_survivor_space(survives)
  \/ ResetHeader
  \/ deflate_idle_monitors

Spec == Init /\ [][Next]_vars

-----------------------------------------------------------------------------
Thread == [pc : {"idle", "inflate", "publish", "enter", "cas", "hash", "moncas"},
           then : {"idle", "enter", "hash"}, holds : BOOLEAN,
           old : Header, new : Header, owner : Threads \cup {NoThread}]

TypeOK ==
  /\ mark \in [kind : {"neutral", "locked", "inflating", "monitor"},
               header : Header, owner : Threads \cup {NoThread}]
  /\ box \in [Threads -> Header]
  /\ monitor \in [header : Header, owner : Threads \cup {NoThread}]
  /\ thread \in [Threads -> Thread]
  /\ tag \in Sites \X (0 .. SharedSize - 1)
  /\ returned \subseteq Nat /\ installed \in BOOLEAN
  /\ counted \subseteq Sites \X (0 .. SharedSize - 1)

\* The header itself, wherever it is kept.
Real ==
  CASE mark.kind = "neutral"   -> mark.header
    [] mark.kind = "locked"    -> box[mark.owner]
    [] mark.kind = "monitor"   -> monitor.header
    [] mark.kind = "inflating" ->
         box[thread[CHOOSE t \in Threads : thread[t].pc = "publish"].owner]

\* The identity hash is stable: all threads that ever asked got the same value,
\* although the tag supplies seven of its bits, and across locking, inflation,
\* deflation, failed evacuations and full collections (FastHashCode).
HashStable == \A a, b \in returned : a = b

\* A pause counts the object for its own allocation site or not at all
\* (copy_to_survivor_space reads the tag from whatever the mark word is).
CountedForOwnSite == \A c \in counted : c[1] = tag[1]

\* A tag with a one among the shared bits, as in the context 0xFFFF of a thread
\* that tracks no context, is never changed: those bits make the header look
\* hashed, so no hash is installed over them and every collection preserves it.
TagKept == tag[2] # 0 => ng2c_prof(Real) = tag

\* What the layout comment of markOop.hpp says, "ng2c_context:32 hash:24": the
\* hash has bits of its own, so an object has no hash, and FastHashCode returns
\* none, before one was drawn and installed.
HashesAreInstalled == returned # {} => installed
=============================================================================
