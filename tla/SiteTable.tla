------------------------------ MODULE SiteTable ------------------------------
(***************************************************************************)
(* The table of allocation sites (ng2c/method_bci_hashtable.cpp).  Compiler *)
(* threads register a site under a pthread mutex while they expand an       *)
(* allocation; Java threads and GC threads look sites up without a lock;    *)
(* the VM operation walks the whole table, at a safepoint, to zero the      *)
(* allocation counters.  A compiler thread works in native code, so it goes *)
(* on registering sites during the safepoint.                               *)
(***************************************************************************)
EXTENDS Hashtable

CONSTANTS
  Threads,    \* the threads that call the table
  NoThread,   \* no owner of the mutex
  Sites       \* 16-bit allocation site ids; 0 is "no site"

ASSUME SiteTableAssumption == NoThread \notin Threads /\ Sites \subseteq Nat \ {0}

VARIABLES
  lock,       \* owner of the pthread mutex
  arrays,     \* number of NGenerationArrays built; the arrays are 1 .. arrays
  at,         \* the call each thread is in and where it is
  vm,         \* where zero() is
  reset,      \* history: how often this zero() has reset each entry's array
  due         \* history: entries in the table when it began

vars == <<table, lock, arrays, at, vm, reset, due>>
walk == <<vm, reset, due>>

Idle   == [pc |-> "idle", op |-> "none", hash |-> 0, entry |-> NULL, array |-> NULL]
VMIdle == [pc |-> "idle", index |-> 0, entry |-> NULL]

Init ==
  /\ InitTable
  /\ lock = NoThread
  /\ arrays = 0
  /\ at = [t \in Threads |-> Idle]
  /\ vm = VMIdle
  /\ reset = [e \in Slots |-> 0]
  /\ due = {}

\* Entries a reader can reach: slots are linked in the order they are taken.
Linked == {e \in Slots : entry[e].hash # 0 /\ e <= bucket(entry[e].hash)}

Goto(t, pc) == at' = [at EXCEPT ![t].pc = pc]

-----------------------------------------------------------------------------
(* Calls. *)

\* A compiler thread registers a site; macro.cpp never passes the id 0.
CallAdd(t) ==
  /\ at[t].pc = "idle"
  /\ \E h \in Sites : at' = [at EXCEPT ![t] = [Idle EXCEPT !.pc = "lock", !.op = "add", !.hash = h]]
  /\ UNCHANGED <<table, lock, arrays, walk>>

\* No Java thread and no GC worker runs while zero() does.
CallGet(t) ==
  /\ at[t].pc = "idle" /\ vm.pc = "idle"
  /\ \E h \in Sites \cup {0} :
       at' = [at EXCEPT ![t] = [Idle EXCEPT !.pc = "bucket", !.op = "get", !.hash = h]]
  /\ UNCHANGED <<table, lock, arrays, walk>>

\* Mutant: registering does not wait for the mutex.
NoLock(t) ==
  /\ at[t].pc = "lock"
  /\ Goto(t, "bucket")
  /\ UNCHANGED <<table, lock, arrays, walk>>

Lock(t) ==
  /\ at[t].pc = "lock" /\ lock = NoThread
  /\ lock' = t
  /\ Goto(t, "bucket")
  /\ UNCHANGED <<table, arrays, walk>>

\* get_entry is over: get_entry's caller has its result, add_entry goes on.
Got(t, array) ==
  at' = [at EXCEPT ![t].array = array, ![t].entry = NULL,
                   ![t].pc = CASE at[t].op = "get" -> "return"
                               [] at[t].op = "add" /\ array # NULL -> "unlock"
                               [] OTHER -> "take"]

\* get_entry up to its loop; the load of the bucket is a load-acquire.
get_entry(t) ==
  /\ at[t].pc = "bucket"
  /\ IF at[t].hash = 0 \/ bucket(at[t].hash) = NULL
     THEN Got(t, NULL)
     ELSE at' = [at EXCEPT ![t].entry = bucket(at[t].hash), ![t].pc = "walk"]
  /\ UNCHANGED <<table, lock, arrays, walk>>

\* Mutant: the lookup ends only when it has found the site.
WalkUntilFound(t) ==
  /\ at[t].pc = "walk"
  /\ IF entry[at[t].entry].hash = at[t].hash \/ at[t].op = "add"
     THEN Got(t, LiteralAt(at[t].entry, at[t].hash))
     ELSE at' = [at EXCEPT ![t].entry = IF entry[@].next = NULL THEN @ ELSE entry[@].next]
  /\ UNCHANGED <<table, lock, arrays, walk>>

\* One turn of get_entry's loop.
Walk(t) ==
  /\ at[t].pc = "walk"
  /\ IF LoopEnds(at[t].entry, at[t].hash)
     THEN Got(t, LiteralAt(at[t].entry, at[t].hash))
     ELSE at' = [at EXCEPT ![t].entry = entry[@].next]
  /\ UNCHANGED <<table, lock, arrays, walk>>

\* The rest of add_entry: build the array, take an entry, link it, publish it.
TakeEntry(t) ==
  /\ at[t].pc = "take" /\ first_free \in Slots
  /\ arrays' = arrays + 1
  /\ at' = [at EXCEPT ![t].pc = "fill", ![t].entry = first_free, ![t].array = arrays + 1]
  /\ UNCHANGED <<table, lock, walk>>

FillEntry(t) ==
  /\ at[t].pc = "fill"
  /\ new_entry(at[t].entry, at[t].hash, at[t].array)
  /\ Goto(t, "link")
  /\ UNCHANGED <<lock, arrays, walk>>

Link(t) ==
  /\ at[t].pc = "link"
  /\ set_next(at[t].entry, at[t].hash)
  /\ Goto(t, "publish")
  /\ UNCHANGED <<lock, arrays, walk>>

Publish(t) ==
  /\ at[t].pc = "publish"
  /\ set_entry(at[t].entry, at[t].hash)
  /\ at' = [at EXCEPT ![t].pc = "unlock", ![t].entry = NULL]
  /\ UNCHANGED <<lock, arrays, walk>>

Unlock(t) ==
  /\ at[t].pc = "unlock"
  /\ lock' = NoThread
  /\ Goto(t, "return")
  /\ UNCHANGED <<table, arrays, walk>>

\* The caller goes on with at[t].array.
Return(t) ==
  /\ at[t].pc = "return"
  /\ at' = [at EXCEPT ![t] = Idle]
  /\ UNCHANGED <<table, lock, arrays, walk>>

-----------------------------------------------------------------------------
(* zero(), run by the VM thread at a safepoint. *)

StartZero ==
  /\ vm.pc = "idle"
  /\ \A t \in Threads : at[t].op # "get"
  /\ vm' = [VMIdle EXCEPT !.pc = "bucket"]
  /\ due' = Linked
  /\ UNCHANGED <<table, lock, arrays, at, reset>>

\* The outer loop: the head of the next bucket, or the end of the table.
ZeroBucket ==
  /\ vm.pc = "bucket"
  /\ vm' = IF vm.index = TableSize THEN [vm EXCEPT !.pc = "end"]
           ELSE [pc |-> IF buckets[vm.index] = NULL THEN "bucket" ELSE "entry",
                 index |-> IF buckets[vm.index] = NULL THEN vm.index + 1 ELSE vm.index,
                 entry |-> buckets[vm.index]]
  /\ UNCHANGED <<table, lock, arrays, at, reset, due>>

\* Mutant: the inner loop stops before the last entry of a bucket.
ZeroEntryButLast ==
  /\ vm.pc = "entry"
  /\ LET p == entry[vm.entry].next IN
     /\ reset' = IF p = NULL THEN reset ELSE [reset EXCEPT ![vm.entry] = @ + 1]
     /\ vm' = IF p = NULL THEN [pc |-> "bucket", index |-> vm.index + 1, entry |-> NULL]
              ELSE [vm EXCEPT !.entry = p]
  /\ UNCHANGED <<table, lock, arrays, at, due>>

\* The inner loop: reset the array's counters and follow the link.
ZeroEntry ==
  /\ vm.pc = "entry"
  /\ reset' = [reset EXCEPT ![vm.entry] = @ + 1]
  /\ LET p == entry[vm.entry].next IN
     vm' = IF p = NULL THEN [pc |-> "bucket", index |-> vm.index + 1, entry |-> NULL]
           ELSE [vm EXCEPT !.entry = p]
  /\ UNCHANGED <<table, lock, arrays, at, due>>

EndZero ==
  /\ vm.pc = "end"
  /\ vm' = VMIdle
  /\ reset' = [e \in Slots |-> 0]
  /\ due' = {}
  /\ UNCHANGED <<table, lock, arrays, at>>

zero == StartZero \/ ZeroBucket \/ ZeroEntry \/ EndZero

-----------------------------------------------------------------------------
Step(t) ==
  \/ Lock(t) \/ get_entry(t) \/ Walk(t) \/ TakeEntry(t) \/ FillEntry(t)
  \/ Link(t) \/ Publish(t) \/ Unlock(t) \/ Return(t)

Next == zero \/ \E t \in Threads : CallAdd(t) \/ CallGet(t) \/ Step(t)

Spec == Init /\ [][Next]_vars

\* A running thread gets on; a thread that waits for the mutex gets it at the
\* latest when it has been free infinitely often.
FairSpec == Spec /\ \A t \in Threads : WF_vars(Step(t)) /\ SF_vars(Lock(t))

-----------------------------------------------------------------------------
PCs == {"idle", "lock", "bucket", "walk", "take", "fill", "link", "publish", "unlock", "return"}

TypeOK ==
  /\ buckets \in [0 .. TableSize - 1 -> Slots \cup {NULL}]
  /\ entry \in [Slots -> [hash : Sites \cup {0}, literal : Nat, next : Slots \cup {NULL}]]
  /\ first_free \in 1 .. MaxEntries + 1
  /\ lock \in Threads \cup {NoThread}
  /\ arrays \in Nat
  /\ at \in [Threads -> [pc : PCs, op : {"none", "add", "get"}, hash : Sites \cup {0},
                         entry : Slots \cup {NULL}, array : Nat]]
  /\ vm \in [pc : {"idle", "bucket", "entry", "end"}, index : 0 .. TableSize,
             entry : Slots \cup {NULL}]
  /\ reset \in [Slots -> Nat]
  /\ due \subseteq Slots

\* The entries for site h from entry e down its list: the slots of a list
\* decrease along it.
From(e, h) == {x \in 1 .. e : entry[x].hash = h}

ArrayFrom(e, h) ==
  IF From(e, h) = {} THEN NULL ELSE entry[CHOOSE x \in From(e, h) : TRUE].literal

\* The call of thread t as SiteRegistry sees it.  A lookup takes effect when
\* it loads the head of the bucket, a registration when it stores it or finds
\* the site under the mutex.
AbstractCall(t) ==
  [op |-> at[t].op, hash |-> at[t].hash,
   phase |-> CASE at[t].pc = "idle" -> "idle"
               [] at[t].pc \in {"unlock", "return"} -> "done"
               [] at[t].pc = "walk" /\ at[t].op = "get" -> "done"
               [] OTHER -> "called",
   array |-> CASE at[t].pc \in {"unlock", "return"} -> at[t].array
               [] at[t].pc = "walk" /\ at[t].op = "get" -> ArrayFrom(at[t].entry, at[t].hash)
               [] OTHER -> NULL]

SiteArrays == [s \in Sites |-> ArrayFrom(bucket(s), s)]
CallMap    == [t \in Threads |-> AbstractCall(t)]

Registry == INSTANCE SiteRegistry WITH registry <- SiteArrays, call <- CallMap

\* The table is a registry: although get_entry walks lists that add_entry is
\* changing, every call returns what it would have returned had it run alone
\* at one moment between its call and its return, and a site has one array.
IsRegistry == Registry!Spec

\* zero() resets the counters of every site registered before it began, once
\* and only once, however many sites are registered while it walks the table.
ZeroReachesAll == vm.pc = "end" => \A e \in due : reset[e] = 1

\* add_entry and get_entry return, although lookups take no lock and
\* registrations wait for each other.
CallsReturn == \A t \in Threads : at[t].pc # "idle" ~> at[t].pc = "idle"
=============================================================================
