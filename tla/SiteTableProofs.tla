--------------------------- MODULE SiteTableProofs ---------------------------
(* The table of allocation sites implements the registry, and zero() reaches *)
(* every site, for any number of threads, sites and buckets.                 *)
(*                                                                           *)
(* The lists are described without following links: entries are taken in     *)
(* increasing order under the mutex, so the list from an entry e holds the   *)
(* entries up to e of the same bucket.                                       *)
EXTENDS SiteTable, TLAPS

\* A leaf that names no prover is for the SMT solver.
USE SMTT(60)

Index(e) == hash_to_index(entry[e].hash)

\* Written entries hold distinct sites and distinct arrays; the others are untouched.
Written ==
  /\ \A e \in Slots : e < first_free => entry[e].hash \in Sites /\ entry[e].literal \in 1 .. arrays
  /\ \A e \in Slots : e >= first_free => entry[e].hash = 0
  /\ \A d, e \in Slots : d < e /\ e < first_free =>
       entry[d].hash # entry[e].hash /\ entry[d].literal # entry[e].literal

\* The head of a bucket is one of its entries, and the link of a linked entry
\* is the entry of the same bucket before it.
Lists ==
  /\ \A i \in 0 .. TableSize - 1 : buckets[i] # NULL => buckets[i] < first_free /\ Index(buckets[i]) = i
  /\ \A e \in Linked : /\ entry[e].next < e
                       /\ entry[e].next # NULL => Index(entry[e].next) = Index(e)
                       /\ \A x \in Slots : entry[e].next < x /\ x < e => Index(x) # Index(e)

\* Only the entry of a registration under way is written and not yet linked.
OneUnlinked ==
  \A e \in Slots : e < first_free /\ e \notin Linked =>
    \E t \in Threads : at[t].pc \in {"link", "publish"} /\ at[t].entry = e

Inside(t) ==
  \/ at[t].pc \in {"take", "fill", "link", "publish", "unlock"}
  \/ at[t].op = "add" /\ at[t].pc \in {"bucket", "walk"}

\* Whoever is between the lock and the unlock owns the mutex.
Mutex == \A t \in Threads : Inside(t) <=> lock = t

\* What a call knows of the table, by where it is.
NotRegistered(h, above) == \A x \in Slots : above < x /\ x < first_free => entry[x].hash # h

CallOK(t) ==
  /\ at[t].pc = "idle" => at[t] = Idle
  /\ at[t].pc # "idle" => at[t].op # "none"
  /\ at[t].pc \in {"lock", "take", "fill", "link", "publish", "unlock"} => at[t].op = "add"
  /\ at[t].op = "add" => at[t].hash \in Sites
  /\ at[t].pc = "walk" => /\ at[t].hash \in Sites
                          /\ at[t].entry \in Linked
                          /\ Index(at[t].entry) = hash_to_index(at[t].hash)
                          /\ at[t].op = "add" => NotRegistered(at[t].hash, at[t].entry)
  /\ at[t].pc \in {"take", "fill"} => NotRegistered(at[t].hash, 0)
  /\ at[t].pc = "fill" => /\ at[t].entry = first_free /\ first_free \in Slots
                          /\ at[t].array = arrays /\ arrays > 0
                          /\ \A x \in Slots : x < first_free => entry[x].literal # arrays
  /\ at[t].pc \in {"link", "publish"} =>
       /\ at[t].entry \in Slots /\ at[t].entry < first_free /\ at[t].entry \notin Linked
       /\ entry[at[t].entry].hash = at[t].hash
       /\ entry[at[t].entry].literal = at[t].array
  /\ at[t].pc = "publish" => entry[at[t].entry].next = bucket(at[t].hash)

Calls == \A t \in Threads : CallOK(t)

\* How far zero() has come: the sites due are reset bucket by bucket, and
\* within a bucket from the head down.
ZeroOK ==
  /\ due \subseteq Linked
  /\ vm.pc = "idle" => reset = [e \in Slots |-> 0]
  /\ vm.pc = "entry" => vm.index < TableSize /\ vm.entry \in Linked /\ Index(vm.entry) = vm.index
  /\ vm.pc = "end" => vm.index = TableSize
  /\ vm.pc \in {"bucket", "entry", "end"} => \A e \in due :
       /\ Index(e) < vm.index => reset[e] = 1
       /\ Index(e) > vm.index => reset[e] = 0
       /\ Index(e) = vm.index => reset[e] = IF vm.pc = "entry" /\ vm.entry < e THEN 1 ELSE 0

TableInv == TypeOK /\ Written /\ Lists /\ OneUnlinked /\ Mutex /\ Calls
IInv == TableInv /\ ZeroOK

-----------------------------------------------------------------------------
(* Lemmas about the table. *)

\* A site's bucket exists.
LEMMA IndexRange == \A h \in Nat : hash_to_index(h) \in 0 .. TableSize - 1
BY HashtableAssumption DEF hash_to_index

\* The fields of an entry and of a call, and a bucket's head.
LEMMA Fields ==
  ASSUME TypeOK
  PROVE  /\ \A e \in Slots : /\ entry[e].hash \in Sites \cup {0} /\ entry[e].hash \in Nat
                              /\ entry[e].literal \in Nat
                              /\ entry[e].next \in Slots \cup {0}
                              /\ Index(e) \in 0 .. TableSize - 1
         /\ \A t \in Threads : /\ at[t].pc \in PCs /\ at[t].op \in {"none", "add", "get"}
                               /\ at[t].hash \in Sites \cup {0} /\ at[t].hash \in Nat
                               /\ at[t].entry \in Slots \cup {0} /\ at[t].array \in Nat
         /\ \A h \in Nat : bucket(h) \in Slots \cup {0}
         /\ first_free \in Nat /\ arrays \in Nat /\ Slots \subseteq Nat /\ 0 \notin Slots
<1> USE HashtableAssumption, SiteTableAssumption, IndexRange
<1>1. \A e \in Slots : entry[e] \in [hash : Sites \cup {0}, literal : Nat, next : Slots \cup {NULL}]
  BY ZenonT(60) DEF TypeOK
<1>2. \A e \in Slots : /\ entry[e].hash \in Sites \cup {0} /\ entry[e].literal \in Nat
                       /\ entry[e].next \in Slots \cup {0}
  BY ZenonT(60), <1>1 DEF NULL
<1>3. \A e \in Slots : Index(e) \in 0 .. TableSize - 1
  BY ZenonT(60), <1>2 DEF Index
<1>4. \A t \in Threads : at[t] \in [pc : PCs, op : {"none", "add", "get"}, hash : Sites \cup {0},
                                     entry : Slots \cup {NULL}, array : Nat]
  BY ZenonT(60) DEF TypeOK
<1>5. \A t \in Threads : /\ at[t].pc \in PCs /\ at[t].op \in {"none", "add", "get"}
                         /\ at[t].hash \in Sites \cup {0}
                         /\ at[t].entry \in Slots \cup {0} /\ at[t].array \in Nat
  BY ZenonT(60), <1>4 DEF NULL
<1>6. \A h \in Nat : bucket(h) \in Slots \cup {0}
  BY ZenonT(60) DEF TypeOK, bucket, NULL
<1>7. first_free \in Nat /\ arrays \in Nat /\ Slots \subseteq Nat /\ 0 \notin Slots
  BY DEF TypeOK, Slots
<1>8. \A h \in Sites \cup {0} : h \in Nat
  OBVIOUS
<1> QED
  BY ZenonT(60), <1>2, <1>3, <1>5, <1>6, <1>7, <1>8

\* A written entry that no registration has in hand is linked, so the entries
\* of a site's bucket above its head are in hand.
LEMMA LinkedBelowFree ==
  ASSUME TypeOK, Written
  PROVE  /\ Linked \subseteq Slots
         /\ \A e \in Linked : e < first_free /\ entry[e].hash \in Sites
<1> USE SiteTableAssumption
<1>1. \A e \in Linked : e \in Slots /\ entry[e].hash # 0
  BY ZenonT(60) DEF Linked
<1> QED
  BY <1>1, Fields DEF Written

-----------------------------------------------------------------------------
(* The initial state. *)

LEMMA InitInv == Init => IInv
<1> SUFFICES ASSUME Init PROVE IInv
  BY ZenonT(60)
<1> USE HashtableAssumption, SiteTableAssumption
<1>1. TypeOK
  BY DEF Init, InitTable, TypeOK, Unwritten, Idle, VMIdle, PCs, NULL, Slots
<1>2. \A e \in Slots : entry[e].hash = 0
  BY ZenonT(60) DEF Init, InitTable, Unwritten
<1>3. Linked = {}
  BY ZenonT(60), <1>2 DEF Linked
<1>4. Written
  BY <1>2, Fields, <1>1 DEF Written, Init, InitTable, Slots
<1>5. Lists
  BY ZenonT(60), <1>3 DEF Lists, Init, InitTable
<1>6. OneUnlinked
  BY DEF OneUnlinked, Init, InitTable, Slots
<1>7. Mutex
  BY ZenonT(60) DEF Mutex, Inside, Init, Idle
<1>8. Calls
  BY ZenonT(60) DEF Calls, CallOK, Init, Idle
<1>9. ZeroOK
  BY ZenonT(60) DEF ZeroOK, Init, VMIdle
<1> QED
  BY ZenonT(60), <1>1, <1>4, <1>5, <1>6, <1>7, <1>8, <1>9 DEF IInv, TableInv

-----------------------------------------------------------------------------
(* Type correctness. *)

Call == [pc : PCs, op : {"none", "add", "get"}, hash : Sites \cup {0},
         entry : Slots \cup {NULL}, array : Nat]

LEMMA TypeStep ==
  ASSUME IInv, [Next]_vars
  PROVE  TypeOK'
<1> USE HashtableAssumption, SiteTableAssumption
<1>0. TypeOK /\ at \in [Threads -> Call] /\ Calls
  BY ZenonT(60) DEF IInv, TableInv, TypeOK, Call
<1>1. ASSUME NEW t \in Threads, CallAdd(t) \/ CallGet(t)
      PROVE  TypeOK'
  <2>1. \A h \in Sites \cup {0} : /\ [Idle EXCEPT !.pc = "lock", !.op = "add", !.hash = h] \in Call
                                  /\ [Idle EXCEPT !.pc = "bucket", !.op = "get", !.hash = h] \in Call
    BY ZenonT(60) DEF Idle, Call, PCs, NULL
  <2>2. PICK r \in Call : at' = [at EXCEPT ![t] = r]
    <3>1. CASE CallAdd(t)
      BY ZenonT(60), <2>1, <3>1 DEF CallAdd
    <3>2. CASE CallGet(t)
      BY ZenonT(60), <2>1, <3>2 DEF CallGet
    <3> QED
      BY ZenonT(60), <1>1, <3>1, <3>2
  <2>3. at' \in [Threads -> Call]
    BY ZenonT(60), <1>0, <2>2
  <2> QED
    BY ZenonT(60), <1>0, <1>1, <2>3 DEF CallAdd, CallGet, TypeOK, Call, table, walk
<1>2. ASSUME NEW t \in Threads, Lock(t) \/ Unlock(t) \/ Return(t)
      PROVE  TypeOK'
  <2>1. /\ at[t] \in Call /\ Idle \in Call
        /\ [at[t] EXCEPT !.pc = "bucket"] \in Call /\ [at[t] EXCEPT !.pc = "return"] \in Call
    BY <1>0 DEF Idle, Call, PCs, NULL
  <2>2. at' \in [Threads -> Call]
    BY ZenonT(60), <1>0, <1>2, <2>1 DEF Lock, Unlock, Return, Goto
  <2> QED
    BY <1>0, <1>2, <2>2 DEF Lock, Unlock, Return, TypeOK, Call, table, walk
<1>3. ASSUME NEW t \in Threads, NEW a \in Nat, Got(t, a)
      PROVE  at' \in [Threads -> Call]
  <2>1. at[t] \in Call
    BY ZenonT(60), <1>0
  <2>2. \A pc \in PCs : [at[t] EXCEPT !.array = a, !.entry = NULL, !.pc = pc] \in Call
    BY ZenonT(60), <2>1 DEF Call, NULL
  <2> QED
    BY ZenonT(60), <1>0, <1>3, <2>2 DEF Got, PCs
<1>4. ASSUME NEW t \in Threads, get_entry(t)
      PROVE  TypeOK'
  <2>1. at[t] \in Call
    BY ZenonT(60), <1>0
  <2>2. \A e \in Slots \cup {NULL} : [at[t] EXCEPT !.entry = e, !.pc = "walk"] \in Call
    BY ZenonT(60), <2>1 DEF Call, PCs, NULL
  <2>3. bucket(at[t].hash) \in Slots \cup {NULL}
    BY ZenonT(60), <1>0, Fields DEF NULL
  <2>4. at' \in [Threads -> Call]
    BY ZenonT(60), <1>0, <1>3, <1>4, <2>2, <2>3 DEF get_entry, NULL
  <2> QED
    BY ZenonT(60), <1>0, <1>4, <2>4 DEF get_entry, TypeOK, Call, table, walk
<1>5. ASSUME NEW t \in Threads, Walk(t)
      PROVE  TypeOK'
  <2>1. at[t] \in Call /\ at[t].entry \in Slots
    BY ZenonT(60), <1>0, <1>5, Fields DEF Walk, Calls, CallOK, Linked
  <2>2. /\ LiteralAt(at[t].entry, at[t].hash) \in Nat
        /\ entry[at[t].entry].next \in Slots \cup {NULL}
    BY ZenonT(60), <1>0, <2>1, Fields DEF LiteralAt, NULL
  <2>3. [at[t] EXCEPT !.entry = entry[at[t].entry].next] \in Call
    BY ZenonT(60), <2>1, <2>2 DEF Call
  <2>4. at' \in [Threads -> Call]
    BY ZenonT(60), <1>0, <1>3, <1>5, <2>2, <2>3 DEF Walk
  <2> QED
    BY ZenonT(60), <1>0, <1>5, <2>4 DEF Walk, TypeOK, Call, table, walk
<1>6. ASSUME NEW t \in Threads, TakeEntry(t)
      PROVE  TypeOK'
  <2>1. at[t] \in Call
    BY <1>0
  <2>0. first_free \in Slots /\ arrays + 1 \in Nat
    BY <1>0, <1>6 DEF TakeEntry, TypeOK
  <2>2. [at[t] EXCEPT !.pc = "fill", !.entry = first_free, !.array = arrays + 1] \in Call
    BY ZenonT(60), <2>0, <2>1 DEF Call, PCs
  <2>3. at' \in [Threads -> Call]
    BY ZenonT(60), <1>0, <1>6, <2>2 DEF TakeEntry
  <2> QED
    BY ZenonT(60), <1>0, <1>6, <2>3 DEF TakeEntry, TypeOK, Call, table, walk
<1>7. ASSUME NEW t \in Threads, NEW pc \in PCs, Goto(t, pc)
      PROVE  at' \in [Threads -> Call]
  <2>1. [at[t] EXCEPT !.pc = pc] \in Call
    BY <1>0 DEF Call
  <2> QED
    BY ZenonT(60), <1>0, <1>7, <2>1 DEF Goto
<1>8. ASSUME NEW t \in Threads, FillEntry(t)
      PROVE  TypeOK'
  <2>1. at' \in [Threads -> Call]
    BY ZenonT(60), <1>7, <1>8 DEF FillEntry, PCs
  <2>2. /\ at[t].entry = first_free /\ first_free \in Slots /\ at[t].hash \in Sites
        /\ at[t].array \in Nat
    BY ZenonT(60), <1>0, <1>8, Fields DEF FillEntry, Calls, CallOK
  <2>3. entry[at[t].entry] \in [hash : Sites \cup {0}, literal : Nat, next : Slots \cup {NULL}]
    BY ZenonT(60), <1>0, <2>2 DEF TypeOK
  <2>4. [entry[at[t].entry] EXCEPT !.hash = at[t].hash, !.literal = at[t].array]
          \in [hash : Sites \cup {0}, literal : Nat, next : Slots \cup {NULL}]
    BY ZenonT(60), <2>2, <2>3
  <2>5. entry' \in [Slots -> [hash : Sites \cup {0}, literal : Nat, next : Slots \cup {NULL}]]
    BY <1>0, <1>8, <2>2, <2>4 DEF FillEntry, new_entry, TypeOK
  <2>6. first_free' \in 1 .. MaxEntries + 1
    BY <1>0, <1>8, <2>2 DEF FillEntry, new_entry, TypeOK, Slots
  <2> QED
    BY ZenonT(60), <1>0, <1>8, <2>1, <2>5, <2>6 DEF FillEntry, new_entry, TypeOK, Call, walk
<1>9. ASSUME NEW t \in Threads, Link(t)
      PROVE  TypeOK'
  <2>1. at' \in [Threads -> Call]
    BY ZenonT(60), <1>7, <1>9 DEF Link, PCs
  <2>2. at[t].entry \in Slots /\ bucket(at[t].hash) \in Slots \cup {NULL}
    BY ZenonT(60), <1>0, <1>9, Fields DEF Link, Calls, CallOK, NULL
  <2>3. entry[at[t].entry] \in [hash : Sites \cup {0}, literal : Nat, next : Slots \cup {NULL}]
    BY ZenonT(60), <1>0, <2>2 DEF TypeOK
  <2>4. [entry[at[t].entry] EXCEPT !.next = bucket(at[t].hash)]
          \in [hash : Sites \cup {0}, literal : Nat, next : Slots \cup {NULL}]
    BY ZenonT(60), <2>2, <2>3
  <2>5. entry' \in [Slots -> [hash : Sites \cup {0}, literal : Nat, next : Slots \cup {NULL}]]
    BY ZenonT(60), <1>0, <1>9, <2>2, <2>4 DEF Link, set_next, TypeOK
  <2> QED
    BY ZenonT(60), <1>0, <1>9, <2>1, <2>5 DEF Link, set_next, TypeOK, Call, walk
<1>10. ASSUME NEW t \in Threads, Publish(t)
       PROVE  TypeOK'
  <2>1. at[t] \in Call /\ at[t].entry \in Slots
    BY ZenonT(60), <1>0, <1>10 DEF Publish, Calls, CallOK
  <2>2. [at[t] EXCEPT !.pc = "unlock", !.entry = NULL] \in Call
    BY ZenonT(60), <2>1 DEF Call, PCs
  <2>3. at' \in [Threads -> Call]
    BY ZenonT(60), <1>0, <1>10, <2>2 DEF Publish
  <2>4. buckets' \in [0 .. TableSize - 1 -> Slots \cup {NULL}]
    BY ZenonT(60), <1>0, <1>10, <2>1 DEF Publish, set_entry, TypeOK
  <2> QED
    BY ZenonT(60), <1>0, <1>10, <2>3, <2>4 DEF Publish, set_entry, TypeOK, Call, walk
<1>11. ASSUME zero
       PROVE  TypeOK'
  <2>0. /\ vm.pc = "entry" => vm.entry \in Slots /\ vm.index \in 0 .. TableSize - 1
        /\ Linked \subseteq Slots
        /\ vm.index \in 0 .. TableSize
    <3>1. vm.index \in 0 .. TableSize
      BY ZenonT(60), <1>0 DEF TypeOK
    <3> QED
      BY <3>1 DEF IInv, ZeroOK, Linked
  <2>1. UNCHANGED <<buckets, entry, first_free, lock, arrays, at>>
    BY ZenonT(60), <1>11 DEF zero, StartZero, ZeroBucket, ZeroEntry, EndZero, table
  <2>2. vm' \in [pc : {"idle", "bucket", "entry", "end"},
                 index : 0 .. TableSize, entry : Slots \cup {NULL}]
    <3>1. CASE StartZero \/ EndZero
      BY <3>1 DEF StartZero, EndZero, VMIdle, NULL
    <3>2. CASE ZeroBucket
      <4>1. vm \in [pc : {"idle", "bucket", "entry", "end"},
                    index : 0 .. TableSize, entry : Slots \cup {NULL}]
        BY ZenonT(60), <1>0 DEF TypeOK
      <4>2. CASE vm.index = TableSize
        BY ZenonT(60), <3>2, <4>1, <4>2 DEF ZeroBucket
      <4>3. CASE vm.index # TableSize
        <5>1. buckets[vm.index] \in Slots \cup {NULL} /\ vm.index + 1 \in 0 .. TableSize
          BY <1>0, <2>0, <4>3 DEF TypeOK
        <5> QED
          BY ZenonT(60), <2>0, <3>2, <4>3, <5>1 DEF ZeroBucket
      <4> QED
        BY ZenonT(60), <4>2, <4>3
    <3>3. CASE ZeroEntry
      <4>1. vm \in [pc : {"idle", "bucket", "entry", "end"},
                    index : 0 .. TableSize, entry : Slots \cup {NULL}]
        BY <1>0 DEF TypeOK
      <4>2. entry[vm.entry].next \in Slots \cup {NULL} /\ vm.index + 1 \in 0 .. TableSize
        BY <1>0, <2>0, <3>3, Fields DEF ZeroEntry, NULL
      <4> QED
        BY ZenonT(60), <3>3, <4>1, <4>2 DEF ZeroEntry, NULL
    <3> QED
      BY ZenonT(60), <1>11, <3>1, <3>2, <3>3 DEF zero
  <2>3. reset' \in [Slots -> Nat] /\ due' \subseteq Slots
    BY <1>0, <1>11, <2>0 DEF zero, StartZero, ZeroBucket, ZeroEntry, EndZero, TypeOK
  <2> QED
    BY ZenonT(60), <1>0, <2>1, <2>2, <2>3 DEF TypeOK
<1>12. CASE UNCHANGED vars
  BY ZenonT(60), <1>0, <1>12 DEF vars, table, TypeOK
<1> QED
  BY ZenonT(60), <1>1, <1>2, <1>4, <1>5, <1>6, <1>8, <1>9, <1>10, <1>11, <1>12 DEF Next, Step

-----------------------------------------------------------------------------
(* The table and the calls. *)

\* Two threads are never both between the lock and the unlock.
LEMMA InsideAlone ==
  ASSUME Mutex, NEW t \in Threads, NEW u \in Threads, Inside(t), Inside(u)
  PROVE  t = u
BY ZenonT(60) DEF Mutex

\* A step of one call that leaves the table alone.
LEMMA QuietStep ==
  ASSUME IInv, TypeOK', NEW t \in Threads, UNCHANGED table,
         arrays' = arrays \/ (arrays' = arrays + 1 /\ Inside(t)),
         \A u \in Threads : u # t => at'[u] = at[u],
         at[t].pc \notin {"link", "publish"},
         CallOK(t)', Mutex'
  PROVE  TableInv'
<1>0. /\ TypeOK /\ Written /\ Lists /\ OneUnlinked /\ Mutex /\ Calls
      /\ buckets' = buckets /\ entry' = entry /\ first_free' = first_free
  BY ZenonT(60) DEF IInv, TableInv, table
<1>1. Linked' = Linked
  BY ZenonT(60), <1>0 DEF Linked, bucket
<1>2. Written'
  BY <1>0, Fields DEF Written
<1>3. Lists'
  BY ZenonT(60), <1>0, <1>1 DEF Lists, Index
<1>4. OneUnlinked'
  BY ZenonT(60), <1>0, <1>1 DEF OneUnlinked
<1>5. ASSUME NEW u \in Threads, u # t
      PROVE  CallOK(u)'
  <2>1. at'[u] = at[u] /\ CallOK(u)
    BY ZenonT(60), <1>0, <1>5 DEF Calls
  <2>2. arrays' # arrays => at[u].pc # "fill"
    BY ZenonT(60), <1>0, <1>5, InsideAlone, Fields DEF Inside
  <2> QED
    BY <1>0, <1>1, <2>1, <2>2 DEF CallOK, NotRegistered, Index, bucket
<1>6. Calls'
  BY ZenonT(60), <1>5 DEF Calls
<1> QED
  BY ZenonT(60), <1>2, <1>3, <1>4, <1>6 DEF TableInv

LEMMA CallStep ==
  ASSUME IInv, TypeOK', NEW t \in Threads,
         CallAdd(t) \/ CallGet(t) \/ Lock(t) \/ Unlock(t) \/ Return(t)
  PROVE  TableInv'
<1> USE SiteTableAssumption
<1>0. TypeOK /\ Mutex /\ CallOK(t) /\ at \in [Threads -> Call] /\ at[t] \in Call
  BY ZenonT(60) DEF IInv, TableInv, Calls, TypeOK, Call
<1>1. CASE CallAdd(t) \/ CallGet(t)
  <2>1. PICK h \in Sites \cup {0}, op \in {"add", "get"} :
          /\ op = "add" => h \in Sites
          /\ at' = [at EXCEPT ![t] = [Idle EXCEPT !.pc = IF op = "add" THEN "lock" ELSE "bucket",
                                                 !.op = op, !.hash = h]]
    <3>1. CASE CallAdd(t)
      BY ZenonT(60), <3>1 DEF CallAdd
    <3>2. CASE CallGet(t)
      BY ZenonT(60), <3>2 DEF CallGet
    <3> QED
      BY ZenonT(60), <1>1, <3>1, <3>2
  <2>2. /\ at'[t].pc = IF op = "add" THEN "lock" ELSE "bucket"
        /\ at'[t].op = op /\ at'[t].hash = h
        /\ \A u \in Threads : u # t => at'[u] = at[u]
    BY ZenonT(60), <1>0, <2>1 DEF Idle
  <2>3. at[t].pc = "idle" /\ at[t].op = "none" /\ lock' = lock /\ arrays' = arrays /\ UNCHANGED table
    <3>1. at[t].pc = "idle" /\ lock' = lock /\ arrays' = arrays /\ UNCHANGED table
      BY ZenonT(60), <1>1 DEF CallAdd, CallGet
    <3>2. at[t] = Idle
      BY ZenonT(60), <1>0, <3>1 DEF CallOK
    <3> QED
      BY <3>1, <3>2 DEF Idle
  <2>4. CallOK(t)'
    BY <2>1, <2>2 DEF CallOK
  <2>5. Mutex'
    BY <1>0, <2>2, <2>3 DEF Mutex, Inside
  <2> QED
    BY ZenonT(60), <2>2, <2>3, <2>4, <2>5, QuietStep
<1>2. CASE Lock(t)
  <2>1. /\ at'[t].pc = "bucket" /\ at'[t].op = at[t].op /\ at'[t].hash = at[t].hash
        /\ \A u \in Threads : u # t => at'[u] = at[u]
    BY ZenonT(60), <1>0, <1>2 DEF Lock, Goto, Call
  <2>2. /\ at[t].pc = "lock" /\ at[t].op = "add" /\ at[t].hash \in Sites /\ lock = NoThread /\ lock' = t
        /\ arrays' = arrays /\ UNCHANGED table
    BY ZenonT(60), <1>0, <1>2 DEF Lock, CallOK
  <2>3. CallOK(t)'
    BY ZenonT(60), <2>1, <2>2 DEF CallOK
  <2>4. Mutex'
    BY <1>0, <2>1, <2>2 DEF Mutex, Inside
  <2> QED
    BY ZenonT(60), <2>1, <2>2, <2>3, <2>4, QuietStep
<1>3. CASE Unlock(t)
  <2>1. /\ at'[t].pc = "return" /\ at'[t].op = at[t].op /\ at'[t].hash = at[t].hash
        /\ \A u \in Threads : u # t => at'[u] = at[u]
    BY ZenonT(60), <1>0, <1>3 DEF Unlock, Goto, Call
  <2>2. /\ at[t].pc = "unlock" /\ at[t].op = "add" /\ at[t].hash \in Sites /\ lock' = NoThread
        /\ arrays' = arrays /\ UNCHANGED table
    BY ZenonT(60), <1>0, <1>3 DEF Unlock, CallOK
  <2>3. CallOK(t)'
    BY ZenonT(60), <2>1, <2>2 DEF CallOK
  <2>4. Mutex'
    BY <1>0, <2>1, <2>2 DEF Mutex, Inside
  <2> QED
    BY ZenonT(60), <2>1, <2>2, <2>3, <2>4, QuietStep
<1>4. CASE Return(t)
  <2>1. at'[t] = Idle /\ \A u \in Threads : u # t => at'[u] = at[u]
    BY ZenonT(60), <1>0, <1>4 DEF Return
  <2>2. at[t].pc = "return" /\ lock' = lock /\ arrays' = arrays /\ UNCHANGED table
    BY ZenonT(60), <1>4 DEF Return
  <2>3. CallOK(t)'
    BY <2>1 DEF CallOK, Idle
  <2>4. Mutex'
    BY <1>0, <2>1, <2>2 DEF Mutex, Inside, Idle
  <2> QED
    BY ZenonT(60), <2>1, <2>2, <2>3, <2>4, QuietStep
<1> QED
  BY ZenonT(60), <1>1, <1>2, <1>3, <1>4

\* The owner of the mutex sees every registered site from the bucket's head,
\* unless it has an entry in hand.
LEMMA AboveHead ==
  ASSUME TableInv, NEW t \in Threads, Inside(t), at[t].pc \notin {"link", "publish"},
         NEW h \in Sites
  PROVE  NotRegistered(h, bucket(h))
<1> USE SiteTableAssumption
<1>1. SUFFICES ASSUME NEW x \in Slots, bucket(h) < x, x < first_free, entry[x].hash = h
               PROVE  FALSE
  BY ZenonT(60) DEF NotRegistered
<1>2. h \in Nat /\ bucket(h) \in Nat /\ x \in Nat
  BY Fields DEF TableInv
<1>3. x \notin Linked
  BY <1>1, <1>2 DEF Linked
<1>4. PICK u \in Threads : at[u].pc \in {"link", "publish"}
  BY ZenonT(60), <1>1, <1>3 DEF TableInv, OneUnlinked
<1> QED
  BY ZenonT(60), <1>4, InsideAlone DEF Inside, TableInv

\* What get_entry's result makes of the call.
LEMMA GotFields ==
  ASSUME TypeOK, NEW t \in Threads, NEW a, Got(t, a)
  PROVE  /\ at'[t].op = at[t].op /\ at'[t].hash = at[t].hash /\ at'[t].array = a
         /\ at[t].op = "get" => at'[t].pc = "return"
         /\ at[t].op = "add" => at'[t].pc = IF a # NULL THEN "unlock" ELSE "take"
         /\ \A u \in Threads : u # t => at'[u] = at[u]
<1>1. at \in [Threads -> Call] /\ at[t] \in Call
  BY ZenonT(60) DEF TypeOK, Call
<1> QED
  BY ZenonT(60), <1>1 DEF Got, Call

LEMMA GetEntryStep ==
  ASSUME IInv, TypeOK', NEW t \in Threads, get_entry(t)
  PROVE  TableInv'
<1> USE SiteTableAssumption
<1>0. /\ TableInv /\ TypeOK /\ Written /\ Lists /\ Mutex /\ CallOK(t)
      /\ at \in [Threads -> Call] /\ at[t] \in Call
  BY ZenonT(60) DEF IInv, TableInv, Calls, TypeOK, Call
<1>1. /\ at[t].pc = "bucket" /\ at[t].op \in {"add", "get"}
      /\ lock' = lock /\ arrays' = arrays /\ UNCHANGED table
      /\ buckets' = buckets /\ entry' = entry /\ first_free' = first_free
      /\ at[t].hash \in Nat
  BY ZenonT(60), <1>0, Fields DEF get_entry, CallOK, table
<1>2. at[t].op = "add" => at[t].hash \in Sites /\ NotRegistered(at[t].hash, bucket(at[t].hash))
  BY ZenonT(60), <1>0, <1>1, AboveHead DEF CallOK, Inside
<1>3. CASE at[t].hash = 0 \/ bucket(at[t].hash) = NULL
  <2>1. /\ at'[t].op = at[t].op /\ at'[t].hash = at[t].hash
        /\ at[t].op = "get" => at'[t].pc = "return"
        /\ at[t].op = "add" => at'[t].pc = "take"
        /\ \A u \in Threads : u # t => at'[u] = at[u]
    BY ZenonT(60), <1>0, <1>3, GotFields DEF get_entry
  <2>2. at[t].op = "add" => NotRegistered(at[t].hash, 0)'
    <3>1. at[t].op = "add" => NotRegistered(at[t].hash, 0)
      BY ZenonT(60), <1>2, <1>3 DEF NULL
    <3> QED
      BY ZenonT(60), <1>1, <2>1, <3>1 DEF NotRegistered
  <2>3. CallOK(t)'
    BY ZenonT(60), <1>1, <1>2, <2>1, <2>2 DEF CallOK, NotRegistered
  <2>4. Mutex'
    BY <1>0, <1>1, <2>1 DEF Mutex, Inside
  <2> QED
    BY ZenonT(60), <1>1, <2>1, <2>3, <2>4, QuietStep
<1>4. CASE at[t].hash # 0 /\ bucket(at[t].hash) # NULL
  <2> DEFINE e == bucket(at[t].hash)
  <2>1. /\ at'[t].op = at[t].op /\ at'[t].hash = at[t].hash
        /\ at'[t].pc = "walk" /\ at'[t].entry = e
        /\ \A u \in Threads : u # t => at'[u] = at[u]
    BY <1>0, <1>4 DEF get_entry, Call
  <2>2. at[t].hash \in Sites /\ e \in Slots
    BY ZenonT(60), <1>0, <1>1, <1>4, Fields DEF NULL
  <2>3. e < first_free /\ Index(e) = hash_to_index(at[t].hash)
    BY ZenonT(60), <1>0, <1>1, <1>4, IndexRange DEF Lists, bucket
  <2>4. e \in Linked
    <3>1. entry[e].hash # 0
      BY ZenonT(60), <1>0, <2>2, <2>3 DEF Written
    <3>2. bucket(entry[e].hash) = e
      BY ZenonT(60), <2>3 DEF bucket, Index
    <3> QED
      BY <2>2, <3>1, <3>2, Fields, <1>0 DEF Linked
  <2>5. Linked' = Linked
    BY ZenonT(60), <1>1 DEF Linked, bucket
  <2> HIDE DEF e
  <2>6. CallOK(t)'
    <3>1. at[t].op = "add" => NotRegistered(at[t].hash, e)
      BY ZenonT(60), <1>2 DEF e
    <3>2. at'[t].op = "add" => NotRegistered(at[t].hash, at[t].entry)'
      BY ZenonT(60), <1>1, <2>1, <3>1 DEF NotRegistered
    <3>3. at'[t].entry \in Linked' /\ Index(at[t].entry)' = hash_to_index(at'[t].hash)
      BY ZenonT(60), <1>1, <2>1, <2>3, <2>4, <2>5 DEF Index
    <3> QED
      BY ZenonT(60), <1>1, <1>2, <2>1, <2>2, <3>2, <3>3 DEF CallOK
  <2>7. Mutex'
    BY <1>0, <1>1, <2>1 DEF Mutex, Inside
  <2> QED
    BY ZenonT(60), <1>1, <2>1, <2>6, <2>7, QuietStep
<1> QED
  BY ZenonT(60), <1>3, <1>4

LEMMA WalkStep ==
  ASSUME IInv, TypeOK', NEW t \in Threads, Walk(t)
  PROVE  TableInv'
<1> USE SiteTableAssumption
<1> DEFINE e == at[t].entry
           h == at[t].hash
           n == entry[e].next
<1>0. /\ TableInv /\ TypeOK /\ Written /\ Lists /\ Mutex /\ CallOK(t)
      /\ at \in [Threads -> Call] /\ at[t] \in Call
  BY ZenonT(60) DEF IInv, TableInv, Calls, TypeOK, Call
<1>1. /\ at[t].pc = "walk" /\ at[t].op \in {"add", "get"} /\ h \in Sites
      /\ e \in Linked /\ Index(e) = hash_to_index(h)
      /\ at[t].op = "add" => NotRegistered(h, e)
      /\ lock' = lock /\ arrays' = arrays /\ UNCHANGED table
      /\ buckets' = buckets /\ entry' = entry /\ first_free' = first_free
  BY ZenonT(60), <1>0, Fields DEF Walk, CallOK, table
<1>2. /\ e \in Slots /\ e < first_free /\ entry[e].hash \in Sites
      /\ n \in Slots \cup {0} /\ n < e
      /\ entry[e].literal \in 1 .. arrays
  BY ZenonT(60), <1>0, <1>1, LinkedBelowFree, Fields DEF Lists, Written
<1>3. entry[e].hash # h /\ at[t].op = "add" => NotRegistered(h, n)
  <2>1. SUFFICES ASSUME entry[e].hash # h, at[t].op = "add", NEW x \in Slots,
                        n < x, x < first_free, entry[x].hash = h
                 PROVE  FALSE
    BY ZenonT(60) DEF NotRegistered
  <2>2. CASE x < e
    <3>1. Index(x) # Index(e)
      BY ZenonT(60), <1>0, <1>1, <2>1, <2>2 DEF Lists
    <3> QED
      BY ZenonT(60), <1>1, <2>1, <3>1 DEF Index
  <2>3. CASE x > e
    BY ZenonT(60), <1>1, <2>1, <2>3 DEF NotRegistered
  <2> QED
    BY <1>0, <1>2, <2>1, <2>2, <2>3, Fields
<1>4. CASE LoopEnds(e, h)
  <2>1. Got(t, LiteralAt(e, h))
    BY ZenonT(60), <1>4 DEF Walk
  <2>2. /\ at'[t].op = at[t].op /\ at'[t].hash = h
        /\ at[t].op = "get" => at'[t].pc = "return"
        /\ at[t].op = "add" => at'[t].pc = IF LiteralAt(e, h) # NULL THEN "unlock" ELSE "take"
        /\ \A u \in Threads : u # t => at'[u] = at[u]
    BY ZenonT(60), <1>0, <2>1, GotFields
  <2>3. LiteralAt(e, h) = NULL => entry[e].hash # h /\ n = 0
    BY <1>0, <1>2, <1>4, Fields DEF LiteralAt, LoopEnds, NULL
  <2>4. at'[t].pc = "take" => at[t].op = "add" /\ NotRegistered(h, 0)
    BY ZenonT(60), <1>1, <1>3, <2>2, <2>3
  <2>5. at'[t].pc = "take" => NotRegistered(at[t].hash, 0)'
    BY ZenonT(60), <1>1, <2>2, <2>4 DEF NotRegistered
  <2>6. CallOK(t)'
    BY ZenonT(60), <1>1, <2>2, <2>4, <2>5 DEF CallOK
  <2>7. Mutex'
    BY <1>0, <1>1, <2>2 DEF Mutex, Inside
  <2> QED
    BY ZenonT(60), <1>1, <2>2, <2>6, <2>7, QuietStep
<1>5. CASE ~LoopEnds(e, h)
  <2>1. /\ at'[t].op = at[t].op /\ at'[t].hash = h
        /\ at'[t].pc = "walk" /\ at'[t].entry = n
        /\ \A u \in Threads : u # t => at'[u] = at[u]
    BY <1>0, <1>1, <1>5 DEF Walk, Call
  <2>2. n # 0 /\ entry[e].hash # h /\ n \in Slots /\ Index(n) = Index(e)
    BY ZenonT(60), <1>0, <1>1, <1>2, <1>5 DEF LoopEnds, NULL, Lists
  <2>3. n \in Linked
    <3>1. n < first_free
      BY <1>0, <1>2, <2>2, Fields
    <3>2. entry[n].hash \in Sites
      BY ZenonT(60), <1>0, <2>2, <3>1 DEF Written
    <3>3. bucket(entry[n].hash) = bucket(entry[e].hash) /\ e <= bucket(entry[e].hash)
      BY ZenonT(60), <1>1, <2>2 DEF Index, bucket, Linked
    <3>4. bucket(entry[e].hash) \in Nat
      BY <1>0, <1>2, Fields
    <3>5. n <= bucket(entry[n].hash)
      BY <1>0, <1>2, <2>2, <3>3, <3>4, Fields
    <3> QED
      BY ZenonT(60), <2>2, <3>2, <3>5 DEF Linked
  <2>4. Linked' = Linked
    BY ZenonT(60), <1>1 DEF Linked, bucket
  <2> HIDE DEF e, h, n
  <2>5. at'[t].op = "add" => NotRegistered(at[t].hash, at[t].entry)'
    BY ZenonT(60), <1>1, <1>3, <2>1, <2>2 DEF NotRegistered
  <2>6. at'[t].entry \in Linked' /\ Index(at[t].entry)' = hash_to_index(at'[t].hash)
    BY ZenonT(60), <1>1, <2>1, <2>2, <2>3, <2>4 DEF Index
  <2>7. CallOK(t)'
    BY ZenonT(60), <1>1, <2>1, <2>5, <2>6 DEF CallOK
  <2>8. Mutex'
    BY <1>0, <1>1, <2>1 DEF Mutex, Inside
  <2> QED
    BY ZenonT(60), <1>1, <2>1, <2>7, <2>8, QuietStep
<1> QED
  BY ZenonT(60), <1>4, <1>5

LEMMA TakeStep ==
  ASSUME IInv, TypeOK', NEW t \in Threads, TakeEntry(t)
  PROVE  TableInv'
<1> USE SiteTableAssumption
<1>0. /\ TypeOK /\ Written /\ Mutex /\ CallOK(t)
      /\ at \in [Threads -> Call] /\ at[t] \in Call
  BY ZenonT(60) DEF IInv, TableInv, Calls, TypeOK, Call
<1>1. /\ at[t].pc = "take" /\ at[t].op = "add" /\ at[t].hash \in Sites
      /\ NotRegistered(at[t].hash, 0) /\ first_free \in Slots
      /\ lock' = lock /\ arrays' = arrays + 1 /\ UNCHANGED table
      /\ buckets' = buckets /\ entry' = entry /\ first_free' = first_free
  BY ZenonT(60), <1>0 DEF TakeEntry, CallOK, table
<1>2. /\ at'[t].op = at[t].op /\ at'[t].hash = at[t].hash
      /\ at'[t].pc = "fill" /\ at'[t].entry = first_free /\ at'[t].array = arrays + 1
      /\ \A u \in Threads : u # t => at'[u] = at[u]
  BY ZenonT(60), <1>0 DEF TakeEntry, Call
<1>3. \A x \in Slots : x < first_free => entry[x].literal # arrays + 1
  BY <1>0, Fields DEF Written
<1>4. NotRegistered(at[t].hash, 0)'
  BY ZenonT(60), <1>1, <1>2 DEF NotRegistered
<1>5. CallOK(t)'
  <2>1. arrays \in Nat
    BY ZenonT(60), <1>0, Fields
  <2> QED
    BY <1>1, <1>2, <1>3, <1>4, <2>1 DEF CallOK
<1>6. Mutex'
  BY <1>0, <1>1, <1>2 DEF Mutex, Inside
<1> QED
  BY ZenonT(60), <1>1, <1>2, <1>5, <1>6, QuietStep DEF Inside

\* The effect of FillEntry: one more entry is written, none is linked.
LEMMA FillEffect ==
  ASSUME IInv, NEW t \in Threads, FillEntry(t)
  PROVE  /\ first_free \in Slots /\ first_free' = first_free + 1 /\ buckets' = buckets
         /\ arrays' = arrays /\ lock' = lock
         /\ entry'[first_free].hash = at[t].hash /\ entry'[first_free].literal = at[t].array
         /\ \A x \in Slots : x # first_free => entry'[x] = entry[x]
         /\ Linked' = Linked
         /\ at'[t] = [at[t] EXCEPT !.pc = "link"]
         /\ \A u \in Threads : u # t => at'[u] = at[u]
<1> USE SiteTableAssumption
<1>0. /\ TypeOK /\ Written /\ Lists /\ CallOK(t)
      /\ at \in [Threads -> Call] /\ at[t] \in Call
  BY ZenonT(60) DEF IInv, TableInv, Calls, TypeOK, Call
<1>1. /\ first_free \in Slots /\ at[t].entry = first_free /\ first_free' = first_free + 1
      /\ buckets' = buckets /\ arrays' = arrays /\ lock' = lock
  BY ZenonT(60), <1>0, Fields DEF FillEntry, new_entry, CallOK
<1>2. entry \in [Slots -> [hash : Sites \cup {0}, literal : Nat, next : Slots \cup {NULL}]]
  BY ZenonT(60), <1>0 DEF TypeOK
<1>3. /\ entry'[first_free].hash = at[t].hash /\ entry'[first_free].literal = at[t].array
      /\ \A x \in Slots : x # first_free => entry'[x] = entry[x]
  BY <1>1, <1>2 DEF FillEntry, new_entry
<1>4. first_free \notin Linked
  BY <1>0, LinkedBelowFree, Fields
<1>5. first_free \notin Linked'
  <2>1. at[t].hash \in Nat /\ bucket(at[t].hash) \in Nat
    BY <1>0, Fields
  <2>2. bucket(at[t].hash) < first_free
    <3>1. CASE bucket(at[t].hash) = 0
      BY <1>1, <3>1, Fields, <1>0
    <3>2. CASE bucket(at[t].hash) # 0
      BY ZenonT(60), <1>0, <2>1, <3>2, IndexRange DEF Lists, bucket, NULL
    <3> QED
      BY ZenonT(60), <3>1, <3>2
  <2>4. first_free \in Linked' => first_free <= bucket(at[t].hash)
    BY ZenonT(60), <1>1, <1>3 DEF Linked, bucket
  <2> QED
    BY <1>0, <2>1, <2>2, <2>4, Fields
<1>6. Linked' = Linked
  BY <1>1, <1>3, <1>4, <1>5 DEF Linked, bucket
<1> QED
  BY ZenonT(60), <1>0, <1>1, <1>3, <1>6 DEF FillEntry, Goto

LEMMA FillStep ==
  ASSUME IInv, TypeOK', NEW t \in Threads, FillEntry(t)
  PROVE  TableInv'
<1> USE SiteTableAssumption
<1>0. /\ TypeOK /\ Written /\ Lists /\ OneUnlinked /\ Mutex /\ Calls /\ CallOK(t)
      /\ at \in [Threads -> Call] /\ at[t] \in Call
  BY ZenonT(60) DEF IInv, TableInv, Calls, TypeOK, Call
<1>1. /\ at[t].pc = "fill" /\ at[t].op = "add" /\ at[t].hash \in Sites /\ at[t].entry = first_free
      /\ NotRegistered(at[t].hash, 0) /\ at[t].array = arrays /\ arrays > 0
      /\ \A x \in Slots : x < first_free => entry[x].literal # arrays
  BY ZenonT(60), <1>0 DEF FillEntry, CallOK
<1>E. /\ first_free \in Slots /\ first_free' = first_free + 1 /\ buckets' = buckets
      /\ arrays' = arrays /\ lock' = lock
      /\ entry'[first_free].hash = at[t].hash /\ entry'[first_free].literal = arrays
      /\ \A x \in Slots : x # first_free => entry'[x] = entry[x]
      /\ Linked' = Linked
      /\ at'[t] = [at[t] EXCEPT !.pc = "link"]
      /\ \A u \in Threads : u # t => at'[u] = at[u]
  BY ZenonT(60), <1>1, FillEffect
<1>F. /\ first_free \in Nat /\ arrays \in Nat /\ Slots \subseteq Nat /\ 0 \notin Slots
      /\ \A x \in Slots : entry[x].next \in Slots \cup {0}
  BY ZenonT(60), <1>0, Fields
<1>2. /\ at'[t].op = "add" /\ at'[t].hash = at[t].hash /\ at'[t].pc = "link"
      /\ at'[t].entry = first_free /\ at'[t].array = arrays
  BY ZenonT(60), <1>0, <1>1, <1>E DEF Call
<1>3. \A x \in Linked : x \in Slots /\ x < first_free /\ x # first_free
  BY <1>0, LinkedBelowFree, <1>F
<1>4. Written'
  <2>1. \A x \in Slots : x < first_free' => x < first_free \/ x = first_free
    BY <1>0, <1>E, <1>F
  <2>2. \A x \in Slots : x < first_free => entry[x].hash # at[t].hash
    BY <1>0, <1>1, <1>F DEF NotRegistered
  <2>3. \A x \in Slots : x < first_free => x # first_free
    BY <1>0, <1>F
  <2>4. \A x \in Slots : x < first_free' =>
          entry'[x].hash \in Sites /\ entry'[x].literal \in 1 .. arrays'
    <3>1. arrays \in 1 .. arrays
      BY <1>0, <1>1, <1>F
    <3> QED
      BY <1>0, <1>1, <2>1, <2>3, <3>1, <1>E DEF Written
  <2>5. \A x \in Slots : x >= first_free' => entry'[x].hash = 0
    <3>1. \A x \in Slots : x >= first_free' => x >= first_free /\ x # first_free
      BY <1>0, <1>E, <1>F
    <3> QED
      BY <1>0, <3>1, <1>E DEF Written
  <2>6. ASSUME NEW c \in Slots, NEW d \in Slots, c < d, d < first_free'
        PROVE  entry'[c].hash # entry'[d].hash /\ entry'[c].literal # entry'[d].literal
    <3>1. c < first_free /\ entry'[c] = entry[c]
      BY <1>0, <2>1, <2>6, <1>E, <1>F
    <3>2. CASE d < first_free
      BY <1>0, <2>3, <2>6, <3>1, <3>2, <1>E DEF Written
    <3>3. CASE d = first_free
      BY <1>1, <2>2, <3>1, <3>3, <1>E
    <3> QED
      BY ZenonT(60), <2>1, <2>6, <3>2, <3>3
  <2> QED
    BY ZenonT(60), <2>4, <2>5, <2>6 DEF Written
<1>5. Lists'
  <2>1. ASSUME NEW i \in 0 .. TableSize - 1, buckets[i] # NULL
        PROVE  buckets[i] < first_free' /\ Index(buckets[i])' = i
    <3>1. buckets[i] \in Slots /\ buckets[i] < first_free /\ Index(buckets[i]) = i
      BY <1>0, <2>1 DEF Lists, TypeOK
    <3>2. buckets[i] \in Nat /\ first_free \in Nat
      BY ZenonT(60), <3>1, <1>F
    <3>3. buckets[i] # first_free /\ buckets[i] < first_free + 1
      BY <3>1, <3>2
    <3> QED
      BY ZenonT(60), <3>1, <3>3, <1>E DEF Index
  <2>2. ASSUME NEW x \in Linked
        PROVE  /\ entry'[x] = entry[x]
               /\ entry[x].next < x
               /\ entry[x].next # NULL => Index(entry[x].next)' = Index(x)'
               /\ \A y \in Slots : entry[x].next < y /\ y < x => Index(y)' # Index(x)'
    <3>1. entry'[x] = entry[x] /\ x \in Slots /\ x < first_free
      BY ZenonT(60), <1>3, <2>2, <1>E
    <3>2. entry[x].next \in Slots \cup {NULL} /\ entry[x].next < x
      BY ZenonT(60), <1>0, <2>2, <3>1, <1>F DEF Lists, NULL
    <3>3. \A y \in Slots : y < x => entry'[y] = entry[y]
      BY <1>0, <3>1, <1>E, <1>F
    <3> QED
      BY <1>0, <2>2, <3>1, <3>2, <3>3 DEF Lists, Index
  <2> QED
    BY ZenonT(60), <2>1, <2>2, <1>E DEF Lists
<1>6. OneUnlinked'
  <2>1. ASSUME NEW x \in Slots, x < first_free', x \notin Linked
        PROVE  \E u \in Threads : at'[u].pc \in {"link", "publish"} /\ at'[u].entry = x
    <3>1. CASE x = first_free
      BY <1>2, <3>1
    <3>2. CASE x < first_free
      <4>1. PICK u \in Threads : at[u].pc \in {"link", "publish"} /\ at[u].entry = x
        BY ZenonT(60), <1>0, <2>1, <3>2 DEF OneUnlinked
      <4> QED
        BY ZenonT(60), <1>1, <4>1, <1>E
    <3> QED
      BY <1>0, <2>1, <3>1, <3>2, <1>E, <1>F
  <2> QED
    BY ZenonT(60), <2>1, <1>E DEF OneUnlinked
<1>7. Mutex'
  BY ZenonT(60), <1>0, <1>1, <1>2, <1>E DEF Mutex, Inside
<1>8. CallOK(t)'
  <2>1. first_free < first_free' /\ first_free \notin Linked'
    BY <1>0, <1>3, <1>E, <1>F
  <2> QED
    BY ZenonT(60), <1>1, <1>2, <2>1, <1>E DEF CallOK
<1>9. ASSUME NEW u \in Threads, u # t
      PROVE  CallOK(u)'
  <2>1. at'[u] = at[u] /\ CallOK(u)
    BY ZenonT(60), <1>0, <1>9, <1>E DEF Calls
  <2>2. ~Inside(u)
    BY ZenonT(60), <1>0, <1>1, <1>9, InsideAlone DEF Inside
  <2>3. at[u].pc = "walk" => /\ at[u].entry \in Linked' /\ at[u].op # "add"
                             /\ entry'[at[u].entry] = entry[at[u].entry]
    BY ZenonT(60), <1>3, <2>1, <2>2, <1>E DEF CallOK, Inside
  <2> QED
    BY ZenonT(60), <2>1, <2>2, <2>3 DEF CallOK, Inside, Index
<1> QED
  BY ZenonT(60), <1>4, <1>5, <1>6, <1>7, <1>8, <1>9 DEF TableInv, Calls

LEMMA LinkStep ==
  ASSUME IInv, TypeOK', NEW t \in Threads, Link(t)
  PROVE  TableInv'
<1> USE SiteTableAssumption
<1>0. /\ TypeOK /\ Written /\ Lists /\ OneUnlinked /\ Mutex /\ Calls /\ CallOK(t)
      /\ at \in [Threads -> Call] /\ at[t] \in Call
  BY ZenonT(60) DEF IInv, TableInv, Calls, TypeOK, Call
<1> DEFINE e == at[t].entry
<1>1. /\ at[t].pc = "link" /\ at[t].op = "add" /\ at[t].hash \in Sites
      /\ e \in Slots /\ e < first_free /\ e \notin Linked
      /\ entry[e].hash = at[t].hash /\ entry[e].literal = at[t].array
  BY ZenonT(60), <1>0 DEF Link, CallOK
<1>E. e \in Slots /\ e < first_free /\ e \notin Linked
  BY ZenonT(60), <1>1
<1>2. /\ first_free' = first_free /\ buckets' = buckets /\ arrays' = arrays /\ lock' = lock
      /\ entry' = [entry EXCEPT ![e].next = bucket(at[t].hash)]
      /\ at'[t].op = "add" /\ at'[t].hash = at[t].hash /\ at'[t].pc = "publish"
      /\ at'[t].entry = e /\ at'[t].array = at[t].array
      /\ \A u \in Threads : u # t => at'[u] = at[u]
  BY ZenonT(60), <1>0, <1>1 DEF Link, set_next, Goto, Call
<1>3. /\ entry'[e].next = bucket(at[t].hash)
      /\ \A x \in Slots : /\ entry'[x].hash = entry[x].hash /\ entry'[x].literal = entry[x].literal
                          /\ x # e => entry'[x] = entry[x]
  <2>1. entry \in [Slots -> [hash : Sites \cup {0}, literal : Nat, next : Slots \cup {NULL}]]
    BY ZenonT(60), <1>0 DEF TypeOK
  <2> QED
    BY <1>1, <1>2, <2>1
<1> HIDE DEF e
<1>4. Linked' = Linked
  BY <1>2, <1>3 DEF Linked, bucket
<1>5. Written'
  BY <1>0, <1>2, <1>3 DEF Written
<1>6. Lists'
  <2>1. ASSUME NEW i \in 0 .. TableSize - 1, buckets[i] # NULL
        PROVE  buckets[i] < first_free /\ Index(buckets[i])' = i
    <3>1. buckets[i] \in Slots /\ buckets[i] < first_free /\ Index(buckets[i]) = i
      BY <1>0, <2>1 DEF Lists, TypeOK
    <3> QED
      BY <1>2, <1>3, <3>1 DEF Index
  <2>2. ASSUME NEW x \in Linked
        PROVE  /\ entry'[x] = entry[x]
               /\ entry[x].next < x
               /\ entry[x].next # NULL => Index(entry[x].next)' = Index(x)'
               /\ \A y \in Slots : entry[x].next < y /\ y < x => Index(y)' # Index(x)'
    <3>1. x \in Slots /\ x # e
      BY ZenonT(60), <1>E, <2>2 DEF Linked
    <3>2. entry'[x] = entry[x]
      BY <1>3, <3>1
    <3>3. entry[x].next \in Slots \cup {NULL}
      BY ZenonT(60), <1>0, <3>1, Fields DEF NULL
    <3>4. /\ entry[x].next < x
          /\ entry[x].next # NULL => Index(entry[x].next) = Index(x)
          /\ \A y \in Slots : entry[x].next < y /\ y < x => Index(y) # Index(x)
      BY ZenonT(60), <1>0, <2>2 DEF Lists
    <3>5. \A y \in Slots : hash_to_index(entry'[y].hash) = Index(y)
      BY ZenonT(60), <1>3 DEF Index
    <3> QED
      BY ZenonT(60), <3>1, <3>2, <3>3, <3>4, <3>5 DEF Index
  <2> QED
    BY ZenonT(60), <1>2, <1>4, <2>1, <2>2 DEF Lists
<1>7. OneUnlinked'
  <2>1. ASSUME NEW x \in Slots, x < first_free, x \notin Linked
        PROVE  \E u \in Threads : at'[u].pc \in {"link", "publish"} /\ at'[u].entry = x
    <3>1. PICK u \in Threads : at[u].pc \in {"link", "publish"} /\ at[u].entry = x
      BY ZenonT(60), <1>0, <2>1 DEF OneUnlinked
    <3> QED
      BY ZenonT(60), <1>2, <3>1 DEF e
  <2> QED
    BY ZenonT(60), <1>2, <1>4, <2>1 DEF OneUnlinked
<1>8. Mutex'
  BY <1>0, <1>1, <1>2 DEF Mutex, Inside
<1>9. CallOK(t)'
  <2>1. entry'[e].next = bucket(at[t].hash)'
    BY ZenonT(60), <1>2, <1>3 DEF bucket
  <2>2. entry'[e].hash = at'[t].hash /\ entry'[e].literal = at'[t].array
    BY ZenonT(60), <1>1, <1>2, <1>3 DEF e
  <2>3. e \in Slots /\ e < first_free' /\ e \notin Linked'
    BY ZenonT(60), <1>E, <1>2, <1>4
  <2> QED
    BY ZenonT(60), <1>1, <1>2, <2>1, <2>2, <2>3 DEF CallOK, bucket
<1>10. ASSUME NEW u \in Threads, u # t
       PROVE  CallOK(u)'
  <2>1. at'[u] = at[u] /\ CallOK(u)
    BY ZenonT(60), <1>0, <1>2, <1>10 DEF Calls
  <2>2. ~Inside(u)
    BY ZenonT(60), <1>0, <1>1, <1>10, InsideAlone DEF Inside
  <2>3. at[u].pc = "walk" => /\ at[u].entry \in Linked' /\ at[u].entry \in Slots /\ at[u].op # "add"
                             /\ entry'[at[u].entry].hash = entry[at[u].entry].hash
    BY <1>3, <1>4, <2>1, <2>2 DEF CallOK, Inside, Linked
  <2> QED
    BY ZenonT(60), <2>1, <2>2, <2>3 DEF CallOK, Inside, Index
<1> QED
  BY <1>5, <1>6, <1>7, <1>8, <1>9, <1>10 DEF TableInv, Calls

\* The effect of Publish: the entry in hand becomes the head of its bucket,
\* above all others of the bucket.
LEMMA PublishEffect ==
  ASSUME IInv, NEW t \in Threads, Publish(t), NEW e, e = at[t].entry
  PROVE  /\ e \in Slots /\ e < first_free /\ e \notin Linked
         /\ entry[e].hash = at[t].hash /\ entry[e].literal = at[t].array /\ at[t].hash \in Sites
         /\ entry[e].next = bucket(at[t].hash) /\ bucket(at[t].hash) < e
         /\ buckets'[hash_to_index(at[t].hash)] = e
         /\ \A i \in 0 .. TableSize - 1 : i # hash_to_index(at[t].hash) => buckets'[i] = buckets[i]
         /\ \A x \in Slots : x < first_free /\ x \notin Linked => x = e
         /\ Linked' = Linked \cup {e}
         /\ at[t].pc = "publish" /\ at[t].op = "add"
         /\ entry' = entry /\ first_free' = first_free /\ arrays' = arrays /\ lock' = lock
         /\ at'[t] = [at[t] EXCEPT !.pc = "unlock", !.entry = NULL]
         /\ \A u \in Threads : u # t => at'[u] = at[u]
<1> USE SiteTableAssumption
<1>0. /\ TypeOK /\ Written /\ Lists /\ OneUnlinked /\ Mutex /\ CallOK(t)
      /\ at \in [Threads -> Call]
      /\ buckets \in [0 .. TableSize - 1 -> Slots \cup {NULL}]
  BY ZenonT(60) DEF IInv, TableInv, Calls, TypeOK, Call
<1>1. /\ at[t].pc = "publish" /\ at[t].op = "add" /\ at[t].hash \in Sites
      /\ e \in Slots /\ e < first_free /\ e \notin Linked
      /\ entry[e].hash = at[t].hash /\ entry[e].literal = at[t].array
      /\ entry[e].next = bucket(at[t].hash)
  BY ZenonT(60), <1>0 DEF Publish, CallOK
<1>2. /\ entry' = entry /\ first_free' = first_free /\ arrays' = arrays /\ lock' = lock
      /\ buckets' = [buckets EXCEPT ![hash_to_index(at[t].hash)] = e]
      /\ at'[t] = [at[t] EXCEPT !.pc = "unlock", !.entry = NULL]
      /\ \A u \in Threads : u # t => at'[u] = at[u]
  BY ZenonT(60), <1>0 DEF Publish, set_entry
<1>3. /\ at[t].hash \in Nat /\ hash_to_index(at[t].hash) \in 0 .. TableSize - 1
      /\ bucket(at[t].hash) \in Nat /\ e \in Nat
  <2>1. at[t].hash \in Nat /\ e \in Nat
    BY ZenonT(60), <1>0, <1>1, Fields
  <2>2. bucket(at[t].hash) \in Nat
    BY <1>0, <2>1, Fields
  <2> QED
    BY ZenonT(60), <2>1, <2>2, IndexRange
<1>4. /\ buckets'[hash_to_index(at[t].hash)] = e
      /\ \A i \in 0 .. TableSize - 1 : i # hash_to_index(at[t].hash) => buckets'[i] = buckets[i]
  BY ZenonT(60), <1>0, <1>2, <1>3
<1>5. bucket(at[t].hash) < e
  <2>1. ~(e <= bucket(at[t].hash))
    BY ZenonT(60), <1>1 DEF Linked
  <2> QED
    BY <1>3, <2>1
<1>6. ASSUME NEW x \in Slots, x < first_free, x \notin Linked
      PROVE  x = e
  <2>1. PICK u \in Threads : at[u].pc \in {"link", "publish"} /\ at[u].entry = x
    BY ZenonT(60), <1>0, <1>6 DEF OneUnlinked
  <2> QED
    BY ZenonT(60), <1>0, <1>1, <2>1, InsideAlone DEF Inside
<1>7. ASSUME NEW x \in Slots
      PROVE  x \in Linked' <=> x \in Linked \/ x = e
  <2>1. /\ x \in Linked <=> entry[x].hash # 0 /\ x <= buckets[Index(x)]
        /\ x \in Linked' <=> entry[x].hash # 0 /\ x <= buckets'[Index(x)]
    BY <1>2 DEF Linked, bucket, Index
  <2>2. Index(x) \in 0 .. TableSize - 1 /\ x \in Nat
    BY ZenonT(60), <1>0, Fields
  <2>3. CASE Index(x) # hash_to_index(at[t].hash)
    BY ZenonT(60), <1>1, <1>4, <2>1, <2>2, <2>3 DEF Index
  <2>4. CASE Index(x) = hash_to_index(at[t].hash)
    <3>1. buckets'[Index(x)] = e /\ buckets[Index(x)] < e /\ buckets[Index(x)] \in Nat
      BY ZenonT(60), <1>3, <1>4, <1>5, <2>4 DEF bucket
    <3>2. x \in Linked => x \in Linked'
      BY <1>3, <2>1, <2>2, <3>1
    <3>3. x = e => x \in Linked'
      BY <1>1, <1>3, <2>1, <3>1
    <3>4. x \in Linked' => x < first_free
      <4>1. ~(x >= first_free) => x < first_free
        BY <1>0, <2>2, Fields
      <4> QED
        BY ZenonT(60), <1>0, <2>1, <4>1 DEF Written
    <3> QED
      BY ZenonT(60), <1>6, <3>2, <3>3, <3>4
  <2> QED
    BY <2>3, <2>4
<1>8. Linked' = Linked \cup {e}
  <2>1. Linked \subseteq Slots /\ Linked' \subseteq Slots
    BY DEF Linked
  <2> QED
    BY ZenonT(60), <1>1, <1>7, <2>1
<1> QED
  BY ZenonT(60), <1>1, <1>2, <1>4, <1>5, <1>6, <1>8

LEMMA PublishStep ==
  ASSUME IInv, TypeOK', NEW t \in Threads, Publish(t)
  PROVE  TableInv'
<1> USE SiteTableAssumption
<1>0. /\ TypeOK /\ Written /\ Lists /\ OneUnlinked /\ Mutex /\ Calls /\ CallOK(t)
      /\ at[t] \in Call
  BY ZenonT(60) DEF IInv, TableInv, Calls, TypeOK, Call
<1>1. PICK e : e = at[t].entry
  BY ZenonT(60)
<1>2. /\ e \in Slots /\ e < first_free /\ e \notin Linked
      /\ entry[e].hash = at[t].hash /\ at[t].hash \in Sites
      /\ entry[e].next = bucket(at[t].hash) /\ bucket(at[t].hash) < e
      /\ buckets'[hash_to_index(at[t].hash)] = e
      /\ \A i \in 0 .. TableSize - 1 : i # hash_to_index(at[t].hash) => buckets'[i] = buckets[i]
      /\ \A x \in Slots : x < first_free /\ x \notin Linked => x = e
      /\ Linked' = Linked \cup {e}
      /\ at[t].pc = "publish" /\ at[t].op = "add"
      /\ entry' = entry /\ first_free' = first_free /\ arrays' = arrays /\ lock' = lock
      /\ at'[t] = [at[t] EXCEPT !.pc = "unlock", !.entry = NULL]
      /\ \A u \in Threads : u # t => at'[u] = at[u]
  BY ZenonT(60), <1>1, PublishEffect
<1>3. at'[t].pc = "unlock" /\ at'[t].op = "add" /\ at'[t].hash = at[t].hash
  BY ZenonT(60), <1>0, <1>2 DEF Call
<1>4. Written'
  BY <1>0, <1>2 DEF Written
<1>5. Lists'
  <2>1. ASSUME NEW i \in 0 .. TableSize - 1, buckets'[i] # NULL
        PROVE  buckets'[i] < first_free /\ hash_to_index(entry[buckets'[i]].hash) = i
    <3>1. CASE i = hash_to_index(at[t].hash)
      BY ZenonT(60), <1>2, <3>1
    <3>2. CASE i # hash_to_index(at[t].hash)
      BY <1>0, <1>2, <2>1, <3>2 DEF Lists, Index
    <3> QED
      BY ZenonT(60), <3>1, <3>2
  <2>2. /\ entry[e].next < e
        /\ entry[e].next # NULL => Index(entry[e].next) = Index(e)
        /\ \A y \in Slots : entry[e].next < y /\ y < e => Index(y) # Index(e)
    <3>1. Index(e) = hash_to_index(at[t].hash) /\ Index(e) \in 0 .. TableSize - 1
      BY ZenonT(60), <1>0, <1>2, Fields DEF Index
    <3>2. entry[e].next = buckets[Index(e)]
      BY ZenonT(60), <1>2, <3>1 DEF bucket
    <3>3. entry[e].next # NULL => Index(entry[e].next) = Index(e)
      BY <1>0, <3>1, <3>2 DEF Lists
    <3>4. ASSUME NEW y \in Slots, entry[e].next < y, y < e, Index(y) = Index(e)
          PROVE  FALSE
      <4>1. y \in Nat /\ e \in Nat /\ first_free \in Nat /\ buckets[Index(e)] \in Nat
        <5>1. buckets[Index(e)] = bucket(at[t].hash) /\ at[t].hash \in Nat
          BY ZenonT(60), <1>0, <1>2, <3>1, Fields DEF bucket
        <5> QED
          BY <1>0, <1>2, <5>1, Fields
      <4>2. y < first_free /\ y # e /\ ~(y <= buckets[Index(e)])
        BY <1>2, <3>2, <3>4, <4>1
      <4>3. y \notin Linked
        BY ZenonT(60), <3>4, <4>2 DEF Linked, bucket, Index
      <4> QED
        BY ZenonT(60), <1>2, <4>2, <4>3
    <3> QED
      BY ZenonT(60), <1>2, <3>3, <3>4
  <2>3. \A x \in Linked' : /\ entry[x].next < x
                           /\ entry[x].next # NULL => Index(entry[x].next) = Index(x)
                           /\ \A y \in Slots : entry[x].next < y /\ y < x => Index(y) # Index(x)
    BY <1>0, <1>2, <2>2 DEF Lists
  <2>4. entry' = entry /\ first_free' = first_free
    BY ZenonT(60), <1>2
  <2> QED
    BY ZenonT(60), <2>1, <2>3, <2>4 DEF Lists, Index
<1>6. OneUnlinked'
  BY ZenonT(60), <1>2 DEF OneUnlinked
<1>7. Mutex'
  BY ZenonT(60), <1>0, <1>2, <1>3 DEF Mutex, Inside
<1>8. CallOK(t)'
  BY ZenonT(60), <1>2, <1>3 DEF CallOK
<1>9. ASSUME NEW u \in Threads, u # t
      PROVE  CallOK(u)'
  <2>1. at'[u] = at[u] /\ CallOK(u)
    BY ZenonT(60), <1>0, <1>2, <1>9 DEF Calls
  <2>2. ~Inside(u)
    BY ZenonT(60), <1>0, <1>2, <1>9, InsideAlone DEF Inside
  <2> QED
    BY <1>2, <2>1, <2>2 DEF CallOK, Inside, Index
<1> QED
  BY <1>4, <1>5, <1>6, <1>7, <1>8, <1>9 DEF TableInv, Calls

\* zero() and stuttering leave the table and the calls alone.
LEMMA StillStep ==
  ASSUME TableInv, TypeOK', UNCHANGED <<table, lock, arrays, at>>
  PROVE  TableInv'
<1>1. Linked' = Linked
  BY ZenonT(60) DEF Linked, bucket, table
<1>2. Written'
  BY ZenonT(60) DEF TableInv, Written, table
<1>3. Lists'
  BY ZenonT(60), <1>1 DEF TableInv, Lists, Index, table
<1>4. OneUnlinked'
  BY ZenonT(60), <1>1 DEF TableInv, OneUnlinked, table
<1>5. Mutex'
  BY DEF TableInv, Mutex, Inside
<1>6. ASSUME NEW t \in Threads
      PROVE  CallOK(t)'
  <2>1. CallOK(t)
    BY ZenonT(60) DEF TableInv, Calls
  <2> QED
    BY ZenonT(60), <1>1, <2>1 DEF CallOK, NotRegistered, Index, bucket, table
<1> QED
  BY ZenonT(60), <1>2, <1>3, <1>4, <1>5, <1>6 DEF TableInv, Calls

LEMMA TableStep ==
  ASSUME IInv, [Next]_vars
  PROVE  TableInv'
<1>1. TypeOK'
  BY ZenonT(60), TypeStep
<1>2. ASSUME NEW t \in Threads, CallAdd(t) \/ CallGet(t) \/ Step(t)
      PROVE  TableInv'
  BY ZenonT(60), <1>1, <1>2, CallStep, GetEntryStep, WalkStep, TakeStep, FillStep, LinkStep,
  PublishStep DEF Step
<1>3. CASE zero
  <2>1. UNCHANGED <<table, lock, arrays, at>>
    BY ZenonT(60), <1>3 DEF zero, StartZero, ZeroBucket, ZeroEntry, EndZero
  <2> QED
    BY ZenonT(60), <1>1, <2>1, StillStep DEF IInv
<1>4. CASE UNCHANGED vars
  BY ZenonT(60), <1>1, <1>4, StillStep DEF IInv, vars
<1> QED
  BY ZenonT(60), <1>2, <1>3, <1>4 DEF Next

-----------------------------------------------------------------------------
(* zero() *)

\* No step changes the site or the array of a written entry, or unlinks one.
LEMMA EntriesKept ==
  ASSUME IInv, [Next]_vars
  PROVE  /\ \A x \in Slots : x < first_free =>
              entry'[x].hash = entry[x].hash /\ entry'[x].literal = entry[x].literal
         /\ Linked \subseteq Linked'
<1>0. /\ TypeOK /\ Calls /\ first_free \in Nat /\ Slots \subseteq Nat
      /\ entry \in [Slots -> [hash : Sites \cup {0}, literal : Nat, next : Slots \cup {NULL}]]
  BY ZenonT(60), Fields DEF IInv, TableInv, TypeOK
<1>1. ASSUME UNCHANGED table
      PROVE  entry' = entry /\ Linked' = Linked
  BY ZenonT(60), <1>1 DEF table, Linked, bucket
<1>2. ASSUME NEW t \in Threads, CallAdd(t) \/ CallGet(t) \/ Lock(t) \/ get_entry(t) \/ Walk(t)
                              \/ TakeEntry(t) \/ Unlock(t) \/ Return(t)
      PROVE  UNCHANGED table
  BY ZenonT(60), <1>2 DEF CallAdd, CallGet, Lock, get_entry, Walk, TakeEntry, Unlock, Return
<1>3. ASSUME NEW t \in Threads, FillEntry(t)
      PROVE  /\ Linked' = Linked
             /\ \A x \in Slots : x < first_free => entry'[x] = entry[x]
  <2>1. \A x \in Slots : x < first_free => x # first_free
    BY <1>0
  <2>2. Linked' = Linked /\ \A x \in Slots : x # first_free => entry'[x] = entry[x]
    BY ZenonT(60), <1>3, FillEffect
  <2> QED
    BY ZenonT(60), <2>1, <2>2
<1>4. ASSUME NEW t \in Threads, Link(t)
      PROVE  /\ Linked' = Linked
             /\ \A x \in Slots : entry'[x].hash = entry[x].hash /\ entry'[x].literal = entry[x].literal
  <2>1. \A x \in Slots : entry'[x].hash = entry[x].hash /\ entry'[x].literal = entry[x].literal
    BY ZenonT(60), <1>0, <1>4 DEF Link, set_next
  <2>2. buckets' = buckets
    BY ZenonT(60), <1>4 DEF Link, set_next
  <2> QED
    BY ZenonT(60), <2>1, <2>2 DEF Linked, bucket
<1>5. ASSUME NEW t \in Threads, Publish(t)
      PROVE  Linked \subseteq Linked' /\ entry' = entry
  <2>1. PICK e : e = at[t].entry
    BY ZenonT(60)
  <2> QED
    BY ZenonT(60), <1>5, <2>1, PublishEffect
<1>6. CASE zero \/ UNCHANGED vars
  BY ZenonT(60), <1>1, <1>6 DEF zero, StartZero, ZeroBucket, ZeroEntry, EndZero, vars
<1> QED
  BY ZenonT(60), <1>1, <1>2, <1>3, <1>4, <1>5, <1>6 DEF Next, Step

LEMMA ZeroStep ==
  ASSUME IInv, [Next]_vars
  PROVE  ZeroOK'
<1> USE HashtableAssumption
<1>0. TypeOK /\ Written /\ Lists /\ ZeroOK
  BY ZenonT(60) DEF IInv, TableInv
<1>1. /\ Linked \subseteq Linked' /\ Linked \subseteq Slots
      /\ \A x \in Linked : /\ hash_to_index(entry'[x].hash) = Index(x)
                           /\ Index(x) \in 0 .. TableSize - 1 /\ x \in Nat
                           /\ x <= buckets[Index(x)]
  <2>1. \A x \in Linked : x \in Slots /\ x < first_free /\ x <= buckets[Index(x)]
    BY ZenonT(60), <1>0, LinkedBelowFree DEF Linked, bucket, Index
  <2> QED
    BY ZenonT(60), <1>0, <2>1, EntriesKept, Fields DEF Index
<1>2. /\ vm \in [pc : {"idle", "bucket", "entry", "end"},
                 index : 0 .. TableSize, entry : Slots \cup {NULL}]
      /\ vm.pc \in {"idle", "bucket", "entry", "end"} /\ vm.index \in Nat /\ vm.index <= TableSize
      /\ vm.entry \in Slots \cup {NULL}
      /\ reset \in [Slots -> Nat]
  BY <1>0 DEF TypeOK
<1>3. ASSUME UNCHANGED walk
      PROVE  ZeroOK'
  BY <1>0, <1>1, <1>3 DEF ZeroOK, walk, Index
<1>4. ASSUME NEW t \in Threads, CallAdd(t) \/ CallGet(t) \/ Step(t)
      PROVE  UNCHANGED walk
  BY ZenonT(60), <1>4
  DEF CallAdd, CallGet, Step, Lock, get_entry, Walk, TakeEntry, FillEntry, Link, Publish,
              Unlock, Return
<1>5. ASSUME zero
      PROVE  entry' = entry /\ buckets' = buckets /\ Linked' = Linked
  BY ZenonT(60), <1>5 DEF zero, StartZero, ZeroBucket, ZeroEntry, EndZero, table, Linked, bucket
<1>6. CASE StartZero
  <2>1. /\ vm'.pc = "bucket" /\ vm'.index = 0 /\ due' = Linked /\ reset' = [x \in Slots |-> 0]
        /\ Linked' = Linked
    BY ZenonT(60), <1>0, <1>5, <1>6 DEF StartZero, VMIdle, ZeroOK, zero
  <2>2. \A x \in due' : x \in Slots /\ ~(hash_to_index(entry'[x].hash) < 0)
    BY <1>1, <2>1
  <2> QED
    BY ZenonT(60), <2>1, <2>2 DEF ZeroOK, Index
<1>7. CASE ZeroBucket
  <2>0. reset' = reset /\ due' = due /\ entry' = entry /\ Linked' = Linked /\ vm.pc = "bucket"
    BY ZenonT(60), <1>5, <1>7 DEF ZeroBucket, zero
  <2>1. \A x \in due : /\ x \in Linked
                       /\ Index(x) < vm.index => reset[x] = 1
                       /\ Index(x) >= vm.index => reset[x] = 0
    BY <1>0, <1>1, <1>2, <2>0 DEF ZeroOK
  <2>2. CASE vm.index = TableSize
    <3>1. vm'.pc = "end" /\ vm'.index = TableSize
      BY ZenonT(60), <1>2, <1>7, <2>2 DEF ZeroBucket
    <3>2. \A x \in due : reset[x] = 1 /\ Index(x) < TableSize
      BY <1>1, <2>1, <2>2
    <3> QED
      BY <1>0, <1>1, <2>0, <2>1, <3>1, <3>2 DEF ZeroOK, Index
  <2>3. CASE vm.index # TableSize /\ buckets[vm.index] = NULL
    <3>1. vm'.pc = "bucket" /\ vm'.index = vm.index + 1
      BY ZenonT(60), <1>7, <2>3 DEF ZeroBucket
    <3>2. \A x \in due : Index(x) # vm.index
      BY <1>0, <1>1, <2>1, <2>3, Fields DEF NULL
    <3>3. \A x \in due : /\ Index(x) < vm.index + 1 => reset[x] = 1
                         /\ Index(x) >= vm.index + 1 => reset[x] = 0
      BY <1>1, <1>2, <2>1, <3>2
    <3> QED
      BY <1>0, <1>1, <1>2, <2>0, <2>1, <3>1, <3>3 DEF ZeroOK, Index
  <2>4. CASE vm.index # TableSize /\ buckets[vm.index] # NULL
    <3>1. vm'.pc = "entry" /\ vm'.index = vm.index /\ vm'.entry = buckets[vm.index]
      BY ZenonT(60), <1>7, <2>4 DEF ZeroBucket
    <3>2. vm.index \in 0 .. TableSize - 1 /\ buckets[vm.index] \in Slots
      BY <1>0, <1>2, <2>4 DEF TypeOK
    <3>3. buckets[vm.index] < first_free /\ Index(buckets[vm.index]) = vm.index
      BY ZenonT(60), <1>0, <2>4, <3>2 DEF Lists
    <3>4. buckets[vm.index] \in Linked
      <4>1. entry[buckets[vm.index]].hash # 0
        BY ZenonT(60), <1>0, <3>2, <3>3, SiteTableAssumption DEF Written
      <4>2. buckets[vm.index] <= bucket(entry[buckets[vm.index]].hash)
        BY <1>0, <3>2, <3>3, Fields DEF bucket, Index
      <4> QED
        BY ZenonT(60), <3>2, <4>1, <4>2 DEF Linked
    <3>5. \A x \in due : Index(x) = vm.index => ~(buckets[vm.index] < x)
      BY <1>0, <1>1, <2>1, <3>2, Fields
    <3> QED
      BY <1>0, <1>1, <1>2, <2>0, <2>1, <3>1, <3>2, <3>3, <3>4, <3>5 DEF ZeroOK, Index
  <2> QED
    BY ZenonT(60), <2>2, <2>3, <2>4
<1>8. CASE ZeroEntry
  <2> DEFINE p == entry[vm.entry].next
  <2>0. /\ due' = due /\ entry' = entry /\ Linked' = Linked /\ vm.pc = "entry"
        /\ reset' = [reset EXCEPT ![vm.entry] = @ + 1]
        /\ p = NULL => vm'.pc = "bucket" /\ vm'.index = vm.index + 1
        /\ p # NULL => vm'.pc = "entry" /\ vm'.index = vm.index /\ vm'.entry = p
    BY ZenonT(60), <1>2, <1>5, <1>8 DEF ZeroEntry, zero
  <2>1. /\ vm.entry \in Linked /\ Index(vm.entry) = vm.index /\ vm.index < TableSize
        /\ vm.entry \in Slots /\ vm.entry \in Nat
    BY ZenonT(60), <1>0, <1>1, <2>0 DEF ZeroOK
  <2>2. /\ p \in Slots \cup {0} /\ p \in Nat /\ p < vm.entry
        /\ p # NULL => Index(p) = vm.index
        /\ \A x \in Slots : p < x /\ x < vm.entry => Index(x) # vm.index
    BY <1>0, <2>1, Fields DEF Lists
  <2> HIDE DEF p
  <2>3. \A x \in due : /\ x \in Linked /\ x \in Slots /\ x \in Nat
                       /\ Index(x) < vm.index => reset[x] = 1
                       /\ Index(x) > vm.index => reset[x] = 0
                       /\ Index(x) = vm.index => reset[x] = IF vm.entry < x THEN 1 ELSE 0
    BY ZenonT(60), <1>0, <1>1, <2>0 DEF ZeroOK
  <2>4. \A x \in due : /\ Index(x) < vm.index => reset'[x] = 1
                       /\ Index(x) > vm.index => reset'[x] = 0
                       /\ Index(x) = vm.index => reset'[x] = IF p < x THEN 1 ELSE 0
    <3>1. TAKE x \in due
    <3>2. x = vm.entry => reset'[x] = reset[x] + 1 /\ reset[x] = 0
      BY <1>2, <2>0, <2>1, <2>3
    <3>3. x # vm.entry => reset'[x] = reset[x]
      BY ZenonT(60), <1>2, <2>0, <2>3
    <3>4. Index(x) = vm.index => x >= vm.entry \/ x <= p
      BY <2>1, <2>2, <2>3
    <3> QED
      BY <2>1, <2>2, <2>3, <3>2, <3>3, <3>4
  <2>5. CASE p = NULL
    <3>1. \A x \in due : Index(x) = vm.index => reset'[x] = 1
      BY <2>3, <2>4, <2>5, <1>0, Fields DEF NULL
    <3>2. \A x \in due : /\ Index(x) < vm.index + 1 => reset'[x] = 1
                         /\ Index(x) >= vm.index + 1 => reset'[x] = 0
      BY <1>1, <1>2, <2>3, <2>4, <3>1
    <3> QED
      BY <1>0, <1>1, <1>2, <2>0, <2>3, <2>5, <3>2 DEF ZeroOK, Index
  <2>6. CASE p # NULL
    <3>1. p \in Linked
      <4>1. p \in Slots /\ p < first_free
        BY <1>0, <2>1, <2>2, <2>6, LinkedBelowFree, Fields DEF NULL
      <4>2. entry[p].hash # 0
        BY ZenonT(60), <1>0, <4>1, SiteTableAssumption DEF Written
      <4>3. p <= buckets[Index(p)]
        <5>1. vm.entry <= buckets[vm.index] /\ buckets[vm.index] \in Nat
          <6>1. vm.index \in 0 .. TableSize - 1
            BY <1>2, <2>1
          <6> QED
            BY <1>0, <1>1, <2>1, <6>1, Fields DEF TypeOK, NULL
        <5> QED
          BY <2>1, <2>2, <2>6, <5>1
      <4> QED
        BY ZenonT(60), <4>1, <4>2, <4>3 DEF Linked, bucket, Index
    <3> QED
      BY <1>0, <1>1, <2>0, <2>1, <2>2, <2>3, <2>4, <2>6, <3>1 DEF ZeroOK, Index
  <2> QED
    BY ZenonT(60), <2>5, <2>6
<1>9. CASE EndZero
  BY ZenonT(60), <1>9 DEF EndZero, VMIdle, ZeroOK
<1>10. CASE UNCHANGED vars
  BY ZenonT(60), <1>3, <1>10 DEF vars, walk
<1> QED
  BY <1>3, <1>4, <1>6, <1>7, <1>8, <1>9, <1>10 DEF Next, zero

\* The inductive invariant holds in every reachable state.
THEOREM Invariant == Spec => []IInv
<1>1. IInv /\ [Next]_vars => IInv'
  BY ZenonT(60), TableStep, ZeroStep DEF IInv
<1> QED
  BY <1>1, InitInv, PTL DEF Spec

\* Type correctness of the table, the mutex, the calls and the walk of zero().
THEOREM TypeCorrect == Spec => []TypeOK
<1>1. IInv => TypeOK
  BY ZenonT(60) DEF IInv, TableInv
<1> QED
  BY <1>1, Invariant, PTL

\* zero() resets the counters of every site that was registered when it began,
\* exactly once, while compiler threads go on registering sites.
THEOREM ZeroComplete == Spec => []ZeroReachesAll
<1>1. IInv => ZeroReachesAll
  <2>1. SUFFICES ASSUME IInv, vm.pc = "end", NEW x \in due PROVE reset[x] = 1
    BY ZenonT(60) DEF ZeroReachesAll
  <2>2. TypeOK /\ ZeroOK
    BY ZenonT(60), <2>1 DEF IInv, TableInv
  <2>3. Index(x) \in 0 .. TableSize - 1
    BY ZenonT(60), <2>1, <2>2, Fields DEF TypeOK
  <2>4. vm.index = TableSize
    BY ZenonT(60), <2>1, <2>2 DEF ZeroOK
  <2>5. Index(x) < vm.index
    BY <2>3, <2>4, HashtableAssumption
  <2> QED
    BY ZenonT(60), <2>1, <2>2, <2>5 DEF ZeroOK
<1> QED
  BY <1>1, Invariant, PTL
-----------------------------------------------------------------------------
(* Every behaviour of SiteTable is, under its refinement mapping, a behaviour *)
(* of SiteRegistry: lookups are linearised at the load of the bucket's head,  *)
(* registrations at its store or at the lookup that finds the site.           *)

\* A written entry for h at or below e is the only one, and gives h its array.
LEMMA ArrayIs ==
  ASSUME IInv, NEW e \in Slots \cup {0}, e < first_free,
         NEW x \in Slots, x <= e
  PROVE  ArrayFrom(e, entry[x].hash) = entry[x].literal
<1>0. TypeOK /\ Written /\ Slots \subseteq Nat /\ first_free \in Nat /\ Slots = 1 .. MaxEntries
  BY ZenonT(60), Fields DEF IInv, TableInv, TypeOK, Slots
<1>1. x \in From(e, entry[x].hash)
  BY <1>0 DEF From
<1>2. ASSUME NEW y \in From(e, entry[x].hash)
      PROVE  y = x
  <2>1. y \in Slots /\ y \in Nat /\ x \in Nat /\ e \in Nat /\ y < first_free /\ x < first_free
        /\ entry[y].hash = entry[x].hash
    BY <1>0, HashtableAssumption DEF From
  <2>2. ~(x < y) /\ ~(y < x)
    BY ZenonT(60), <1>0, <2>1 DEF Written
  <2> QED
    BY <2>1, <2>2
<1>3. (CHOOSE y \in From(e, entry[x].hash) : TRUE) = x
  BY ZenonT(60), <1>1, <1>2
<1> QED
  BY ZenonT(60), <1>1, <1>3 DEF ArrayFrom

\* No step changes the array of a site in the part of the table already written.
LEMMA ArrayKept ==
  ASSUME IInv, [Next]_vars, NEW e \in Slots \cup {0}, e < first_free, NEW h
  PROVE  ArrayFrom(e, h)' = ArrayFrom(e, h)
<1>0. Slots \subseteq Nat /\ first_free \in Nat /\ Slots = 1 .. MaxEntries /\ MaxEntries \in Nat
  BY ZenonT(60), Fields, HashtableAssumption DEF IInv, TableInv, TypeOK, Slots
<1>1. \A x \in 1 .. e : x \in Slots /\ x < first_free
  BY <1>0
<1>2. \A x \in 1 .. e : entry'[x].hash = entry[x].hash /\ entry'[x].literal = entry[x].literal
  BY ZenonT(60), <1>1, EntriesKept
<1>3. From(e, h)' = From(e, h)
  BY ZenonT(60), <1>2 DEF From
<1>4. CASE From(e, h) = {}
  BY ZenonT(60), <1>3, <1>4 DEF ArrayFrom
<1>5. CASE From(e, h) # {}
  <2>1. PICK x : x = CHOOSE y \in From(e, h) : TRUE
    BY ZenonT(60)
  <2>2. x \in 1 .. e
    BY ZenonT(60), <1>5, <2>1 DEF From
  <2> QED
    BY ZenonT(60), <1>2, <1>3, <1>5, <2>1, <2>2 DEF ArrayFrom
<1> QED
  BY ZenonT(60), <1>4, <1>5

LEMMA HeadWritten ==
  ASSUME IInv, NEW h \in Sites \cup {0}
  PROVE  bucket(h) \in Slots \cup {0} /\ bucket(h) < first_free
<1>H. h \in Nat /\ TypeOK /\ Lists
  BY SiteTableAssumption DEF IInv, TableInv
<1>0. first_free \in Nat \ {0} /\ hash_to_index(h) \in 0 .. TableSize - 1
  <2>1. first_free \in 1 .. MaxEntries + 1 /\ MaxEntries \in Nat
    BY ZenonT(60), <1>H, HashtableAssumption DEF TypeOK
  <2> QED
    BY <1>H, <2>1, IndexRange
<1>1. buckets[hash_to_index(h)] \in Slots \cup {0}
  BY ZenonT(60), <1>H, <1>0 DEF TypeOK, NULL
<1> QED
  BY <1>H, <1>0, <1>1 DEF Lists, bucket, NULL

\* While the heads of the buckets stay, so does the registry.
LEMMA RegistryKept ==
  ASSUME IInv, [Next]_vars, buckets' = buckets
  PROVE  SiteArrays' = SiteArrays
<1>1. ASSUME NEW s \in Sites
      PROVE  ArrayFrom(bucket(s), s)' = ArrayFrom(bucket(s), s)
  <2>1. PICK e : e = bucket(s)
    BY ZenonT(60)
  <2>2. ArrayFrom(e, s)' = ArrayFrom(e, s)
    BY ZenonT(60), <2>1, HeadWritten, ArrayKept
  <2>3. bucket(s)' = e
    BY ZenonT(60), <2>1 DEF bucket
  <2> QED
    BY <2>1, <2>2, <2>3 DEF ArrayFrom, From
<1> QED
  BY ZenonT(60), <1>1 DEF SiteArrays

\* A call that does not move looks the same after another thread's step.
LEMMA CallKept ==
  ASSUME IInv, [Next]_vars, NEW u \in Threads, at'[u] = at[u]
  PROVE  AbstractCall(u)' = AbstractCall(u)
<1>1. CASE at[u].pc = "walk" /\ at[u].op = "get"
  <2>1. PICK e, h : e = at[u].entry /\ h = at[u].hash
    BY ZenonT(60)
  <2>2. e \in Slots /\ e < first_free
    BY ZenonT(60), <1>1, <2>1, LinkedBelowFree DEF IInv, TableInv, Calls, CallOK
  <2>3. ArrayFrom(e, h)' = ArrayFrom(e, h)
    BY ZenonT(60), <2>2, ArrayKept
  <2> QED
    BY <1>1, <2>1, <2>3 DEF AbstractCall, ArrayFrom, From
<1>2. CASE ~(at[u].pc = "walk" /\ at[u].op = "get")
  BY ZenonT(60), <1>2 DEF AbstractCall
<1> QED
  BY ZenonT(60), <1>1, <1>2

LEMMA CallMapStep ==
  ASSUME IInv, [Next]_vars, NEW t \in Threads, \A u \in Threads \ {t} : at'[u] = at[u],
         NEW r, AbstractCall(t)' = r
  PROVE  CallMap' = [CallMap EXCEPT ![t] = r]
<1>1. \A u \in Threads \ {t} : AbstractCall(u)' = AbstractCall(u)
  BY ZenonT(60), CallKept
<1> QED
  BY ZenonT(60), <1>1 DEF CallMap

-----------------------------------------------------------------------------
(* What the loop of get_entry computes. *)

LEMMA NoEntries == \A h : ArrayFrom(0, h) = NULL
BY DEF ArrayFrom, From

LEMMA WalkValue ==
  ASSUME IInv, NEW h \in Sites, NEW e \in Linked, Index(e) = hash_to_index(h)
  PROVE  /\ LoopEnds(e, h) => ArrayFrom(e, h) = LiteralAt(e, h)
         /\ ~LoopEnds(e, h) => ArrayFrom(e, h) = ArrayFrom(entry[e].next, h)
<1>0. /\ TypeOK /\ Written /\ Lists /\ Slots = 1 .. MaxEntries /\ MaxEntries \in Nat
      /\ e \in Slots /\ e < first_free /\ entry[e].next \in Slots \cup {0}
      /\ entry[e].next < e
      /\ \A x \in Slots : entry[e].next < x /\ x < e => Index(x) # Index(e)
  <2>1. TypeOK /\ Written /\ Lists
    BY ZenonT(60) DEF IInv, TableInv
  <2> QED
    BY ZenonT(60), <2>1, LinkedBelowFree, Fields, HashtableAssumption DEF Lists, Slots
<1>1. entry[e].hash = h => ArrayFrom(e, h) = entry[e].literal
  BY <1>0, ArrayIs
<1>2. ASSUME entry[e].hash # h
      PROVE  ArrayFrom(e, h) = ArrayFrom(entry[e].next, h)
  <2>1. \A x \in 1 .. e : entry[x].hash = h => x <= entry[e].next
    <3>1. TAKE x \in 1 .. e
    <3>2. x \in Slots /\ x \in Nat /\ e \in Nat /\ entry[e].next \in Nat
      BY <1>0
    <3>3. entry[x].hash = h => Index(x) = Index(e) /\ x # e
      BY <1>2 DEF Index
    <3> QED
      BY <1>0, <3>2, <3>3
  <2>2. \A x \in 1 .. entry[e].next : x \in 1 .. e
    BY <1>0
  <2>3. From(e, h) = From(entry[e].next, h)
    <3>1. \A x \in From(e, h) : x \in From(entry[e].next, h)
      <4>1. \A x \in 1 .. e : x <= entry[e].next => x \in 1 .. entry[e].next
        BY <1>0
      <4> QED
        BY <2>1, <4>1 DEF From
    <3>2. \A x \in From(entry[e].next, h) : x \in From(e, h)
      BY <2>2 DEF From
    <3> QED
      BY <3>1, <3>2 DEF From
  <2> QED
    BY <2>3 DEF ArrayFrom
<1>3. entry[e].next = NULL /\ entry[e].hash # h => ArrayFrom(e, h) = NULL
  BY <1>2, NoEntries DEF NULL
<1> QED
  BY ZenonT(60), <1>1, <1>2, <1>3 DEF LoopEnds, LiteralAt

-----------------------------------------------------------------------------
(* One lemma for each kind of step. *)

USE DEF Registry!Idle

LEMMA InvokeSim ==
  ASSUME IInv, [Next]_vars, NEW t \in Threads, CallAdd(t) \/ CallGet(t)
  PROVE  Registry!Invoke(t)
<1>0. TypeOK
  BY DEF IInv, TableInv
<1>1. SiteArrays' = SiteArrays
  BY ZenonT(60), RegistryKept DEF CallAdd, CallGet, table
<1>2. PICK op \in {"add", "get"}, h \in Sites \cup {0} :
        /\ op = "add" => h # 0
        /\ at' = [at EXCEPT ![t] = [Idle EXCEPT !.pc = IF op = "add" THEN "lock" ELSE "bucket",
                                                !.op = op, !.hash = h]]
  BY ZenonT(60), SiteTableAssumption DEF CallAdd, CallGet
<1>3. at'[t] = [Idle EXCEPT !.pc = IF op = "add" THEN "lock" ELSE "bucket", !.op = op, !.hash = h]
      /\ \A u \in Threads \ {t} : at'[u] = at[u]
  BY <1>0, <1>2 DEF TypeOK
<1>4. AbstractCall(t)' = [op |-> op, hash |-> h, phase |-> "called", array |-> 0]
  BY <1>3 DEF AbstractCall, Idle, NULL
<1>5. CallMap' = [CallMap EXCEPT ![t] = [op |-> op, hash |-> h, phase |-> "called", array |-> 0]]
  BY <1>3, <1>4, CallMapStep
<1>6. CallMap[t].phase = "idle"
  BY ZenonT(60) DEF CallMap, AbstractCall, CallAdd, CallGet
<1> QED
  BY ZenonT(60), <1>1, <1>2, <1>5, <1>6 DEF Registry!Invoke

\* A step of a call that its caller cannot see.
LEMMA Stutter ==
  ASSUME IInv, [Next]_vars, NEW t \in Threads, \A u \in Threads \ {t} : at'[u] = at[u],
         buckets' = buckets, AbstractCall(t)' = AbstractCall(t)
  PROVE  UNCHANGED Registry!vars
<1>1. SiteArrays' = SiteArrays
  BY RegistryKept
<1>2. \A u \in Threads : AbstractCall(u)' = AbstractCall(u)
  BY CallKept
<1> QED
  BY <1>1, <1>2 DEF Registry!vars, CallMap

\* The call of t is over, with array a.
LEMMA FinishSim ==
  ASSUME NEW t \in Threads, NEW op, NEW h, NEW a,
         CallMap[t] = [op |-> op, hash |-> h, phase |-> "called", array |-> 0],
         CallMap' = [CallMap EXCEPT ![t] = [op |-> op, hash |-> h, phase |-> "done", array |-> a]]
  PROVE  /\ Registry!Finish(t, a)
         /\ CallMap[t].phase = "called" /\ CallMap[t].op = op /\ CallMap[t].hash = h
<1>1. CallMap[t].phase = "called" /\ CallMap[t].op = op /\ CallMap[t].hash = h
  OBVIOUS
<1> QED
  BY <1>1 DEF Registry!Finish

\* A lookup takes effect when it loads the head of the bucket.
LEMMA GetEntrySim ==
  ASSUME IInv, [Next]_vars, NEW t \in Threads, get_entry(t)
  PROVE  Registry!Lookup(t) \/ UNCHANGED Registry!vars
<1>0. /\ TypeOK /\ at \in [Threads -> Call] /\ at[t] \in Call /\ at[t].pc = "bucket"
      /\ at[t].hash \in Sites \cup {0} /\ 0 \notin Sites
      /\ at[t].op \in {"add", "get"}
  <2>1. TypeOK /\ Calls /\ at[t].pc = "bucket"
    BY DEF IInv, TableInv, get_entry
  <2> QED
    BY <2>1, Fields, SiteTableAssumption DEF TypeOK, Call, Calls, CallOK
<1>1. SiteArrays' = SiteArrays /\ buckets' = buckets /\ entry' = entry
  BY RegistryKept DEF get_entry, table
<1>2. PICK h : h = at[t].hash
  OBVIOUS
<1>3. CASE h = 0 \/ bucket(h) = NULL
  <2>1. Got(t, NULL)
    BY <1>2, <1>3 DEF get_entry
  <2>2. /\ at'[t].op = at[t].op /\ at'[t].hash = h /\ at'[t].array = NULL
        /\ at[t].op = "get" => at'[t].pc = "return"
        /\ at[t].op = "add" => at'[t].pc = "take"
        /\ \A u \in Threads \ {t} : at'[u] = at[u]
    BY <1>0, <1>2, <2>1, GotFields
  <2>3. CASE at[t].op = "add"
    <3>1. AbstractCall(t)' = AbstractCall(t)
      BY <1>0, <1>2, <2>2, <2>3 DEF AbstractCall
    <3> QED
      BY ZenonT(60), <1>1, <2>2, <3>1, Stutter
  <2>4. CASE at[t].op = "get"
    <3>1. (IF h = 0 THEN 0 ELSE SiteArrays[h]) = 0
      BY <1>0, <1>2, <1>3, NoEntries DEF SiteArrays, NULL
    <3>2. AbstractCall(t)' = [op |-> "get", hash |-> h, phase |-> "done", array |-> 0]
      BY <1>0, <1>2, <2>2, <2>4 DEF AbstractCall, NULL
    <3>3. CallMap' = [CallMap EXCEPT ![t] = [op |-> "get", hash |-> h, phase |-> "done", array |-> 0]]
      BY <2>2, <3>2, CallMapStep
    <3>4. CallMap[t] = [op |-> "get", hash |-> h, phase |-> "called", array |-> 0]
      BY <1>0, <1>2, <2>4 DEF CallMap, AbstractCall, NULL
    <3>5. /\ Registry!Finish(t, 0)
          /\ CallMap[t].phase = "called" /\ CallMap[t].op = "get" /\ CallMap[t].hash = h
      BY ZenonT(60), <3>3, <3>4, FinishSim
    <3> QED
      BY <1>1, <3>1, <3>5 DEF Registry!Lookup
  <2> QED
    BY <1>0, <2>3, <2>4
<1>4. CASE ~(h = 0 \/ bucket(h) = NULL)
  <2>1. at' = [at EXCEPT ![t].entry = bucket(h), ![t].pc = "walk"]
    BY <1>2, <1>4 DEF get_entry
  <2>2. /\ at'[t].op = at[t].op /\ at'[t].hash = h /\ at'[t].pc = "walk" /\ at'[t].entry = bucket(h)
        /\ \A u \in Threads \ {t} : at'[u] = at[u]
    BY <1>0, <1>2, <2>1 DEF Call
  <2>3. CASE at[t].op = "add"
    <3>1. AbstractCall(t)' = AbstractCall(t)
      BY <1>0, <1>2, <2>2, <2>3 DEF AbstractCall
    <3> QED
      BY <1>1, <2>2, <3>1, Stutter
  <2>4. CASE at[t].op = "get"
    <3>1. SiteArrays[h] = ArrayFrom(bucket(h), h)
      BY <1>0, <1>2, <1>4 DEF SiteArrays
    <3>2. AbstractCall(t)' = [op |-> "get", hash |-> h, phase |-> "done", array |-> SiteArrays[h]]
      BY <1>0, <1>1, <2>2, <2>4, <3>1 DEF AbstractCall, ArrayFrom, From
    <3>3. CallMap' = [CallMap EXCEPT ![t] = [op |-> "get", hash |-> h,
                                             phase |-> "done", array |-> SiteArrays[h]]]
      BY <2>2, <3>2, CallMapStep
    <3>4. CallMap[t] = [op |-> "get", hash |-> h, phase |-> "called", array |-> 0]
      BY <1>0, <1>2, <2>4 DEF CallMap, AbstractCall, NULL
    <3>5. /\ Registry!Finish(t, SiteArrays[h])
          /\ CallMap[t].phase = "called" /\ CallMap[t].op = "get" /\ CallMap[t].hash = h
      BY ZenonT(60), <3>3, <3>4, FinishSim
    <3> QED
      BY <1>1, <1>4, <3>5 DEF Registry!Lookup
  <2> QED
    BY <1>0, <2>3, <2>4
<1> QED
  BY <1>3, <1>4

\* The loop: a lookup already has its result, a registration takes effect when
\* it finds the site.
LEMMA WalkSim ==
  ASSUME IInv, [Next]_vars, NEW t \in Threads, Walk(t)
  PROVE  Registry!Register(t) \/ UNCHANGED Registry!vars
<1>1. SiteArrays' = SiteArrays /\ buckets' = buckets /\ entry' = entry
  BY RegistryKept DEF Walk, table
<1>2. PICK h, e : h = at[t].hash /\ e = at[t].entry
  OBVIOUS
<1>0. /\ TypeOK /\ Written /\ at \in [Threads -> Call] /\ at[t] \in Call /\ at[t].pc = "walk"
      /\ h \in Sites /\ e \in Linked /\ Index(e) = hash_to_index(h)
      /\ e \in Slots /\ e < first_free
      /\ at[t].op \in {"add", "get"}
  <2>1. TypeOK /\ Written /\ Calls /\ at[t].pc = "walk"
    BY DEF IInv, TableInv, Walk
  <2> QED
    BY ZenonT(60), <1>2, <2>1, Fields, LinkedBelowFree DEF TypeOK, Call, Calls, CallOK
<1>3. CASE LoopEnds(e, h)
  <2>0. PICK a : a = LiteralAt(e, h)
    OBVIOUS
  <2>1. Got(t, a)
    BY <1>2, <1>3, <2>0 DEF Walk
  <2>2. /\ at'[t].op = at[t].op /\ at'[t].hash = h /\ at'[t].array = a
        /\ at[t].op = "get" => at'[t].pc = "return"
        /\ at[t].op = "add" => at'[t].pc = IF a # NULL THEN "unlock" ELSE "take"
        /\ \A u \in Threads \ {t} : at'[u] = at[u]
    BY ZenonT(60), <1>0, <1>2, <2>1, GotFields
  <2>3. CASE at[t].op = "add" /\ a = NULL
    <3>1. AbstractCall(t)' = AbstractCall(t)
      BY <1>0, <1>2, <2>2, <2>3 DEF AbstractCall
    <3> QED
      BY ZenonT(60), <1>1, <2>2, <3>1, Stutter
  <2>4. CASE at[t].op = "get"
    <3>1. ArrayFrom(e, h) = a
      BY <1>0, <1>3, <2>0, WalkValue
    <3>2. AbstractCall(t)' = AbstractCall(t)
      BY <1>0, <1>2, <2>2, <2>4, <3>1 DEF AbstractCall
    <3> QED
      BY <1>1, <2>2, <3>2, Stutter
  <2>5. CASE at[t].op = "add" /\ a # NULL
    <3>1. entry[e].hash = h /\ a = entry[e].literal
      BY <2>0, <2>5 DEF LiteralAt
    <3>2. e <= bucket(h)
      BY <1>0, <3>1 DEF Linked
    <3>3. SiteArrays[h] = a
      BY <1>0, <3>1, <3>2, HeadWritten, ArrayIs DEF SiteArrays
    <3>4. AbstractCall(t)' = [op |-> "add", hash |-> h, phase |-> "done", array |-> a]
      BY <2>2, <2>5 DEF AbstractCall
    <3>5. CallMap' = [CallMap EXCEPT ![t] = [op |-> "add", hash |-> h, phase |-> "done", array |-> a]]
      BY <2>2, <3>4, CallMapStep
    <3>6. CallMap[t] = [op |-> "add", hash |-> h, phase |-> "called", array |-> 0]
      BY <1>0, <1>2, <2>5 DEF CallMap, AbstractCall, NULL
    <3>7. /\ Registry!Finish(t, a)
          /\ CallMap[t].phase = "called" /\ CallMap[t].op = "add" /\ CallMap[t].hash = h
      BY ZenonT(60), <3>5, <3>6, FinishSim
    <3>8. SiteArrays[h] # 0 /\ SiteArrays'[h] = a
      BY <1>1, <2>5, <3>3 DEF NULL
    <3> QED
      BY <1>1, <3>7, <3>8 DEF Registry!Register
  <2> QED
    BY <1>0, <2>3, <2>4, <2>5
<1>4. CASE ~LoopEnds(e, h)
  <2>1. at' = [at EXCEPT ![t].entry = entry[e].next]
    BY <1>2, <1>4 DEF Walk
  <2>2. /\ at'[t].op = at[t].op /\ at'[t].hash = h /\ at'[t].pc = "walk" /\ at'[t].entry = entry[e].next
        /\ \A u \in Threads \ {t} : at'[u] = at[u]
    BY <1>0, <1>2, <2>1 DEF Call
  <2>3. ArrayFrom(e, h) = ArrayFrom(entry[e].next, h)
    BY <1>0, <1>4, WalkValue
  <2>4. AbstractCall(t)' = AbstractCall(t)
    <3>1. CASE at[t].op = "get"
      <4>1. ArrayFrom(at[t].entry, at[t].hash)' = ArrayFrom(entry[e].next, h)
        BY <1>1, <2>2 DEF ArrayFrom, From
      <4>2. AbstractCall(t)' = [op |-> "get", hash |-> h, phase |-> "done",
                                array |-> ArrayFrom(entry[e].next, h)]
        BY <1>1, <2>2, <3>1 DEF AbstractCall, ArrayFrom, From
      <4> QED
        BY <1>0, <1>2, <2>3, <3>1, <4>2 DEF AbstractCall
    <3>2. CASE at[t].op = "add"
      BY <1>0, <1>2, <2>2, <3>2 DEF AbstractCall
    <3> QED
      BY <1>0, <3>1, <3>2
  <2> QED
    BY <1>1, <2>2, <2>4, Stutter
<1> QED
  BY <1>3, <1>4

\* A registration of a new site takes effect when the head of its bucket is stored.
LEMMA PublishSim ==
  ASSUME IInv, [Next]_vars, NEW t \in Threads, Publish(t)
  PROVE  Registry!Register(t)
<1>1. PICK h, e, b : h = at[t].hash /\ e = at[t].entry /\ b = bucket(h)
  OBVIOUS
<1>2. /\ TypeOK /\ Written /\ at \in [Threads -> Call] /\ at[t] \in Call /\ at[t].pc = "publish"
      /\ at[t].op = "add" /\ Slots = 1 .. MaxEntries /\ MaxEntries \in Nat /\ first_free \in Nat
  <2>1. TypeOK /\ Written /\ Calls /\ at[t].pc = "publish"
    BY DEF IInv, TableInv, Publish
  <2>2. at \in [Threads -> Call] /\ first_free \in 1 .. MaxEntries + 1
    BY <2>1 DEF TypeOK, Call
  <2>3. at[t].op = "add"
    BY ZenonT(60), <2>1 DEF Calls, CallOK
  <2> QED
    BY <2>1, <2>2, <2>3, HashtableAssumption DEF Slots
<1>3. /\ e \in Slots /\ e < first_free /\ h \in Sites /\ b < e /\ b \in Slots \cup {0}
      /\ entry[e].hash = h /\ entry[e].literal = at[t].array
      /\ buckets'[hash_to_index(h)] = e
      /\ \A i \in 0 .. TableSize - 1 : i # hash_to_index(h) => buckets'[i] = buckets[i]
      /\ \A x \in Slots : x < first_free /\ x \notin Linked => x = e
  <2>1. /\ e \in Slots /\ e < first_free /\ h \in Sites /\ b < e
        /\ entry[e].hash = h /\ entry[e].literal = at[t].array
        /\ buckets'[hash_to_index(h)] = e
        /\ \A i \in 0 .. TableSize - 1 : i # hash_to_index(h) => buckets'[i] = buckets[i]
        /\ \A x \in Slots : x < first_free /\ x \notin Linked => x = e
    BY ZenonT(60), <1>1, PublishEffect
  <2> QED
    BY ZenonT(60), <1>1, <2>1, HeadWritten
<1>4. SiteArrays[h] = 0
  <2>1. \A x \in 1 .. b : entry[x].hash # h
    BY <1>2, <1>3 DEF Written
  <2>2. From(b, h) = {}
    BY <2>1 DEF From
  <2> QED
    BY ZenonT(60), <1>1, <1>3, <2>2 DEF SiteArrays, ArrayFrom, NULL
<1>5. SiteArrays'[h] = entry[e].literal
  <2>1. ArrayFrom(e, h)' = ArrayFrom(e, h)
    BY <1>3, ArrayKept
  <2>2. ArrayFrom(e, h) = entry[e].literal
    <3>1. e \in Slots /\ e \in Slots \cup {0} /\ e < first_free /\ e <= e
      BY <1>2, <1>3
    <3>2. ArrayFrom(e, entry[e].hash) = entry[e].literal
      BY ZenonT(60), <3>1, ArrayIs
    <3> QED
      BY ZenonT(60), <1>3, <3>2
  <2>3. bucket(h)' = e
    BY <1>3 DEF bucket
  <2>4. SiteArrays'[h] = ArrayFrom(bucket(h), h)'
    BY <1>3 DEF SiteArrays
  <2>5. ArrayFrom(bucket(h), h)' = ArrayFrom(e, h)'
    BY <2>3 DEF ArrayFrom, From
  <2> QED
    BY <2>1, <2>2, <2>4, <2>5
<1>6. ASSUME NEW s \in Sites \ {h}
      PROVE  SiteArrays'[s] = SiteArrays[s]
  <2>0. PICK d : d = bucket(s)
    OBVIOUS
  <2>1. d \in Slots \cup {0} /\ d < first_free
    BY <2>0, HeadWritten
  <2>2. hash_to_index(s) \in 0 .. TableSize - 1
    BY IndexRange, SiteTableAssumption
  <2>3. SiteArrays'[s] = ArrayFrom(bucket(s), s)' /\ SiteArrays[s] = ArrayFrom(d, s)
    BY <2>0 DEF SiteArrays
  <2>4. CASE hash_to_index(s) # hash_to_index(h)
    <3>1. bucket(s)' = d
      BY <1>3, <2>0, <2>2, <2>4 DEF bucket
    <3>2. ArrayFrom(bucket(s), s)' = ArrayFrom(d, s)'
      BY <3>1 DEF ArrayFrom, From
    <3> QED
      BY <2>1, <2>3, <3>2, ArrayKept
  <2>5. CASE hash_to_index(s) = hash_to_index(h)
    <3>1. bucket(s)' = e /\ d = b
      BY <1>1, <1>3, <2>0, <2>5 DEF bucket
    <3>2. \A x \in 1 .. e : entry[x].hash = s => x \in 1 .. b
      <4>1. TAKE x \in 1 .. e
      <4>2. x \in Slots /\ x \in Nat /\ x < first_free /\ e \in Nat /\ b \in Nat
        BY <1>2, <1>3
      <4>3. HAVE entry[x].hash = s
      <4>4. x \in Linked
        BY <1>3, <4>2, <4>3
      <4>5. x <= b
        BY ZenonT(60), <2>0, <3>1, <4>3, <4>4 DEF Linked
      <4> QED
        BY <4>2, <4>5
    <3>3. \A x \in 1 .. b : x \in 1 .. e
      BY <1>2, <1>3
    <3>4. From(e, s) = From(b, s)
      BY <3>2, <3>3 DEF From
    <3>5. ArrayFrom(e, s) = ArrayFrom(b, s)
      BY <3>4 DEF ArrayFrom
    <3>6. ArrayFrom(bucket(s), s)' = ArrayFrom(e, s)'
      BY <3>1 DEF ArrayFrom, From
    <3>7. ArrayFrom(e, s)' = ArrayFrom(e, s)
      BY <1>3, ArrayKept
    <3> QED
      BY <2>3, <3>1, <3>5, <3>6, <3>7
  <2> QED
    BY <2>4, <2>5
<1>7. entry[e].literal \in Nat \ {0} /\ \A s \in Sites : SiteArrays[s] # entry[e].literal
  <2>1. entry[e].literal \in Nat \ {0}
    <3>1. arrays \in Nat
      BY <1>2 DEF TypeOK
    <3> QED
      BY <1>2, <1>3, <3>1 DEF Written
  <2>2. SUFFICES ASSUME NEW s \in Sites PROVE SiteArrays[s] # entry[e].literal
    BY <2>1
  <2>3. CASE s = h
    BY <1>4, <2>1, <2>3
  <2>4. CASE s # h
    <3>0. PICK d : d = bucket(s)
      OBVIOUS
    <3>1. d \in Slots \cup {0} /\ d < first_free /\ SiteArrays[s] = ArrayFrom(d, s)
      BY <3>0, HeadWritten DEF SiteArrays
    <3>2. ASSUME NEW x \in From(d, s)
          PROVE  entry[x].literal # entry[e].literal
      <4>1. x \in Slots /\ x \in Nat /\ x < first_free /\ e \in Nat /\ entry[x].hash = s
        BY <1>2, <1>3, <3>1 DEF From
      <4>2. x # e
        BY <1>3, <2>4, <4>1
      <4> QED
        BY <1>2, <1>3, <4>1, <4>2 DEF Written
    <3> QED
      BY <2>1, <3>1, <3>2 DEF ArrayFrom, NULL
  <2> QED
    BY <2>3, <2>4
<1>8. SiteArrays' = [SiteArrays EXCEPT ![h] = SiteArrays'[h]]
  BY ZenonT(60), <1>6 DEF SiteArrays
<1>9. /\ at'[t].op = "add" /\ at'[t].hash = h /\ at'[t].pc = "unlock" /\ at'[t].array = entry[e].literal
      /\ \A u \in Threads \ {t} : at'[u] = at[u]
  BY <1>1, <1>2, <1>3 DEF Publish, Call
<1>10. AbstractCall(t)' = [op |-> "add", hash |-> h, phase |-> "done", array |-> entry[e].literal]
  BY <1>9 DEF AbstractCall
<1>11. CallMap' = [CallMap EXCEPT ![t] = [op |-> "add", hash |-> h,
                                          phase |-> "done", array |-> entry[e].literal]]
  BY <1>9, <1>10, CallMapStep
<1>12. CallMap[t] = [op |-> "add", hash |-> h, phase |-> "called", array |-> 0]
  BY <1>1, <1>2 DEF CallMap, AbstractCall, NULL
<1>13. PICK a : a = entry[e].literal
  OBVIOUS
<1>14. /\ Registry!Finish(t, a)
       /\ CallMap[t].phase = "called" /\ CallMap[t].op = "add" /\ CallMap[t].hash = h
  <2>1. CallMap' = [CallMap EXCEPT ![t] = [op |-> "add", hash |-> h, phase |-> "done", array |-> a]]
    BY <1>11, <1>13
  <2> QED
    BY ZenonT(60), <1>12, <2>1, FinishSim
<1> QED
  BY <1>4, <1>5, <1>7, <1>8, <1>13, <1>14 DEF Registry!Register

LEMMA ReturnSim ==
  ASSUME IInv, [Next]_vars, NEW t \in Threads, Return(t)
  PROVE  Registry!Return(t)
<1>1. SiteArrays' = SiteArrays
  BY RegistryKept DEF Return, table
<1>2. at'[t] = Idle /\ \A u \in Threads \ {t} : at'[u] = at[u]
  BY DEF Return, IInv, TableInv, TypeOK
<1>3. AbstractCall(t)' = Registry!Idle
  BY <1>2 DEF AbstractCall, Idle, NULL
<1>4. CallMap' = [CallMap EXCEPT ![t] = Registry!Idle]
  BY <1>2, <1>3, CallMapStep
<1>5. CallMap[t].phase = "done"
  BY DEF CallMap, AbstractCall, Return
<1> QED
  BY <1>1, <1>4, <1>5 DEF Registry!Return

\* Taking the mutex, preparing the entry and releasing the mutex.
LEMMA InnerSim ==
  ASSUME IInv, [Next]_vars, NEW t \in Threads,
         Lock(t) \/ TakeEntry(t) \/ FillEntry(t) \/ Link(t) \/ Unlock(t)
  PROVE  UNCHANGED Registry!vars
<1>0. TypeOK /\ at \in [Threads -> Call] /\ at[t] \in Call /\ CallOK(t)
  BY DEF IInv, TableInv, TypeOK, Call, Calls
<1>1. buckets' = buckets
  BY ZenonT(60) DEF Lock, TakeEntry, FillEntry, Link, Unlock, table, new_entry, set_next
<1>2. /\ \A u \in Threads \ {t} : at'[u] = at[u]
      /\ at'[t].op = at[t].op /\ at'[t].hash = at[t].hash /\ at[t].op = "add"
      /\ \/ /\ at[t].pc \in {"lock", "take", "fill", "link"}
            /\ at'[t].pc \in {"bucket", "fill", "link", "publish"}
         \/ at[t].pc = "unlock" /\ at'[t].pc = "return" /\ at'[t].array = at[t].array
  BY <1>0 DEF Lock, TakeEntry, FillEntry, Link, Unlock, Goto, Call, CallOK
<1>3. AbstractCall(t)' = AbstractCall(t)
  BY <1>2 DEF AbstractCall
<1> QED
  BY ZenonT(60), <1>1, <1>2, <1>3, Stutter

\* The table of allocation sites implements the registry: lookups that race
\* with registrations, and registrations that race with each other, behave as
\* if each call ran alone at one moment between its start and its return.
THEOREM Refinement == Spec => IsRegistry
<1>1. Init => Registry!Init
  <2>1. SUFFICES ASSUME Init PROVE Registry!Init
    OBVIOUS
  <2>2. \A s \in Sites : bucket(s) = 0
    BY <2>1, IndexRange, SiteTableAssumption DEF Init, InitTable, bucket, NULL
  <2>3. \A s \in Sites : ArrayFrom(bucket(s), s) = 0
    BY <2>2, NoEntries DEF NULL
  <2>4. \A t \in Threads : AbstractCall(t) = Registry!Idle
    BY <2>1 DEF Init, AbstractCall, Idle, NULL
  <2> QED
    BY <2>3, <2>4 DEF Registry!Init, SiteArrays, CallMap
<1>2. IInv /\ [Next]_vars => [Registry!Next]_(Registry!vars)
  <2>1. SUFFICES ASSUME IInv, [Next]_vars PROVE [Registry!Next]_(Registry!vars)
    OBVIOUS
  <2>2. CASE zero \/ UNCHANGED vars
    <3>1. buckets' = buckets /\ at' = at
      BY <2>2 DEF zero, StartZero, ZeroBucket, ZeroEntry, EndZero, vars, table
    <3>2. SiteArrays' = SiteArrays
      BY <2>1, <3>1, RegistryKept
    <3>3. \A u \in Threads : AbstractCall(u)' = AbstractCall(u)
      BY <2>1, <3>1, CallKept
    <3> QED
      BY <3>2, <3>3 DEF Registry!vars, CallMap
  <2>3. ASSUME NEW t \in Threads, CallAdd(t) \/ CallGet(t) \/ Step(t)
        PROVE  [Registry!Next]_(Registry!vars)
    <3>1. \/ Registry!Invoke(t) \/ Registry!Lookup(t) \/ Registry!Register(t) \/ Registry!Return(t)
          \/ UNCHANGED Registry!vars
      BY <2>1, <2>3, InvokeSim, GetEntrySim, WalkSim, PublishSim, ReturnSim, InnerSim DEF Step
    <3> QED
      BY <3>1 DEF Registry!Next
  <2> QED
    BY <2>1, <2>2, <2>3 DEF Next
<1> QED
  BY <1>1, <1>2, Invariant, PTL DEF Spec, IsRegistry, Registry!Spec
=============================================================================
