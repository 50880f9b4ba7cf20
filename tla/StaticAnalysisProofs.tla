------------------------- MODULE StaticAnalysisProofs -------------------------
(***************************************************************************)
(* The ids of allocation sites, for any number of compiler threads, any    *)
(* sites and keys, any table size and any file.                            *)
(*                                                                         *)
(* In full mode nothing orders the threads.  What two insertions may do to *)
(* one entry is not bounded by the invariant; it says what is still true   *)
(* of an entry that was taken only once (OwnIds).  With a file the parser  *)
(* is alone (Phases), so that line n becomes entry n and every bucket      *)
(* lists its lines from the last to the first (Chains); a lookup then      *)
(* stops at the last line for its key (Lookups).                           *)
(***************************************************************************)
EXTENDS StaticAnalysis, TLAPS

\* A leaf that names no prover is for the SMT solver.
USE SMTT(60)

\* Where a thread adds an entry it has taken, and where it looks at one.
Writing == {"take", "set_hash", "set_literal", "link", "set_next", "publish"}
Reading == {"walk", "compare", "advance", "found", "literal"}

Entry == [hash : Nat, literal : Nat, next : Slots \cup {NULL}]
Thread == [pc : {"idle", "add", "bucket", "check", "return", "null"} \cup Writing \cup Reading,
           key : Nat, index : 0 .. IdRange - 1, entry : Slots \cup {NULL}, next : Slots \cup {NULL},
           context : Nat, added : BOOLEAN]

Types ==
  /\ buckets \in [0 .. TableSize - 1 -> Slots \cup {NULL}]
  /\ entry \in [Slots -> Entry]
  /\ first_free \in Nat \ {0}
  /\ FullMode \in BOOLEAN
  /\ file \in Seq(Line)
  /\ parsed \in Seq(Line)
  /\ contexts \in Seq(0 .. IdRange - 1)
  /\ taken \in Seq(Slots) /\ Len(taken) = Len(contexts)
  /\ at \in [Users -> Thread]

\* References to ContextIndexes lead to one, and a thread that needs an entry or
\* a ContextIndex at its point of the code has one.
Bounds ==
  /\ \A e \in Slots : entry[e].literal \in 0 .. Len(contexts)
  /\ \A t \in Users :
       /\ at[t].context \in 0 .. Len(contexts)
       /\ at[t].pc \in Writing \cup Reading => at[t].entry \in Slots
       /\ at[t].pc \in Writing => at[t].context # NULL

\* The constructor runs alone: compiler threads start once the file is read,
\* and with a file they never add an entry.
Phases ==
  /\ at[Parser].pc # "return"
  /\ FullMode => file = <<>> /\ at[Parser].pc = "idle"
  /\ file # <<>> \/ at[Parser].pc # "idle" => \A t \in Threads : at[t].pc = "idle"
  /\ ~FullMode => \A t \in Threads : at[t].pc \in {"idle", "bucket", "return"} \cup Reading

\* The literal of an entry is a ContextIndex that the entry was taken for.  If it
\* was taken for that one only, the hash is of the same insertion.  Links lead to
\* entries that are filled.
Filled(e) == entry[e].literal # NULL

OwnEntry(e) ==
  /\ Filled(e) => taken[entry[e].literal] = e
  /\ Filled(e) /\ Alone(entry[e].literal) => contexts[entry[e].literal] = entry[e].hash % IdRange
  /\ entry[e].next # NULL => Filled(entry[e].next)

\* What a thread knows of the entry it adds or has found, and of its result.
OwnThread(x) ==
  /\ x.index = x.key % IdRange
  /\ x.pc \in Writing => /\ taken[x.context] = x.entry
                         /\ contexts[x.context] = x.key % IdRange
  /\ x.pc \in {"take", "set_hash", "set_literal"} => (Alone(x.context) => ~Filled(x.entry))
  /\ x.pc = "set_literal" => (Alone(x.context) => entry[x.entry].hash = x.key)
  /\ x.pc \in {"link", "set_next", "publish"} \cup Reading => Filled(x.entry)
  /\ x.pc = "set_next" /\ x.next # NULL => Filled(x.next)
  /\ x.pc = "literal" => (Alone(entry[x.entry].literal) => entry[x.entry].hash = x.key)
  /\ x.pc = "return" /\ x.context # NULL =>
       (Alone(x.context) => contexts[x.context] = x.key % IdRange)

\* Threads add different ContextIndexes.
Apart == \A t, u \in Users :
           t # u /\ at[t].pc \in Writing /\ at[u].pc \in Writing => at[t].context # at[u].context

\* In full mode.
OwnIds ==
  FullMode =>
    /\ \A e \in Slots : OwnEntry(e)
    /\ \A i \in 0 .. TableSize - 1 : buckets[i] # NULL => Filled(buckets[i])
    /\ \A t \in Users : OwnThread(at[t])
    /\ Apart

\* The key of a line, and the lines whose entries are in the table.
KeyOf(n) == Key[parsed[n].site]
Adding == at[Parser].pc \in {"add"} \cup Writing
Done == IF Adding THEN Len(parsed) - 1 ELSE Len(parsed)

\* e is the last of the lines 1 .. n in bucket i, NULL when there is none.
IsLast(e, i, n) ==
  /\ e \in 0 .. n
  /\ e # NULL => hash_to_index(KeyOf(e)) = i
  /\ \A m \in e + 1 .. n : hash_to_index(KeyOf(m)) # i

\* The first n entries are those of the first n lines, each linked to the last
\* one before it in its bucket.
Lists(n) ==
  /\ \A m \in 1 .. n : /\ entry[m].hash = KeyOf(m) /\ entry[m].literal = m
                       /\ IsLast(entry[m].next, hash_to_index(KeyOf(m)), m - 1)
  /\ \A i \in 0 .. TableSize - 1 : IsLast(buckets[i], i, n)

\* With a file, the table has an entry for every line.
Chains ==
  ~FullMode =>
    /\ Adding => parsed # <<>>
    /\ Len(contexts) = IF at[Parser].pc = "add" THEN Done ELSE Len(parsed)
    /\ first_free = IF at[Parser].pc \in Writing \ {"take"} THEN Done + 2 ELSE Done + 1
    /\ Done <= MaxEntries
    /\ \A n \in DOMAIN contexts : contexts[n] = parsed[n].index % IdRange
    /\ Lists(Done)

\* The line whose entry the parser is adding.
AddsLine(n) ==
  /\ at[Parser].key = KeyOf(n) /\ at[Parser].index = parsed[n].index % IdRange
  /\ at[Parser].pc # "add" => at[Parser].entry = n /\ at[Parser].context = n
  /\ at[Parser].pc \in {"set_literal", "link", "set_next", "publish"} => entry[n].hash = KeyOf(n)
  /\ at[Parser].pc \in {"link", "set_next", "publish"} => entry[n].literal = n
  /\ at[Parser].pc = "set_next" => IsLast(at[Parser].next, hash_to_index(KeyOf(n)), n - 1)
  /\ at[Parser].pc = "publish" => IsLast(entry[n].next, hash_to_index(KeyOf(n)), n - 1)

Parsing == ~FullMode /\ Adding => AddsLine(Len(parsed))

\* No line after n is for key k.
PastLines(k, n) == n \in 0 .. Len(parsed) /\ \A m \in n + 1 .. Len(parsed) : KeyOf(m) # k

\* A lookup has passed no line for its key, and returns the last one.
Lookup(x) ==
  /\ x.pc \in Reading => /\ x.entry # NULL /\ PastLines(x.key, x.entry)
                         /\ hash_to_index(KeyOf(x.entry)) = hash_to_index(x.key)
  /\ x.pc \in {"compare", "advance"} => entry[x.entry].next # NULL
  /\ x.pc = "advance" => KeyOf(x.entry) # x.key
  /\ x.pc = "found" => KeyOf(x.entry) = x.key \/ entry[x.entry].next = NULL
  /\ x.pc = "literal" => KeyOf(x.entry) = x.key
  /\ x.pc = "return" => /\ PastLines(x.key, x.context)
                        /\ x.context # NULL => KeyOf(x.context) = x.key

Lookups == ~FullMode => \A t \in Threads : Lookup(at[t])

\* The parser's own lookup finds the entry it has just added.
Finds(x) ==
  /\ x.pc \notin {"advance", "null"}
  /\ x.pc \in {"bucket", "check"} \cup Reading =>
       /\ parsed # <<>>
       /\ x.key = KeyOf(Len(parsed)) /\ x.index = parsed[Len(parsed)].index % IdRange
       /\ x.pc \in Reading => x.entry = Len(parsed)
       /\ x.pc = "check" => x.context = Len(parsed)

Finding == ~FullMode => Finds(at[Parser])

IInv == Types /\ Bounds /\ Phases /\ OwnIds /\ Chains /\ Parsing /\ Lookups /\ Finding

-----------------------------------------------------------------------------
\* A key leads to one of the buckets.
LEMMA BucketRange == \A h \in Nat : hash_to_index(h) \in 0 .. TableSize - 1
  BY HashtableAssumption DEF hash_to_index

\* Where threads start.
LEMMA IdleType ==
  Idle \in Thread /\ Parser \in Users /\ Threads \subseteq Users /\ NULL = 0
  BY StaticAnalysisAssumption DEF Idle, Thread, Users, NULL

\* The invariant holds when the VM starts.
LEMMA InitIInv ==
  ASSUME Init
  PROVE  IInv
<1>1. Types
  <2>1. Unwritten \in Entry
    BY ZenonT(60) DEF Unwritten, NULL, Entry
  <2>2. file \in Seq(Line)
    <3>1. <<>> \in Seq(Line) /\ Files \subseteq Seq(Line)
      BY StaticAnalysisAssumption
    <3>2. file = <<>> \/ file \in Files
      BY ZenonT(60) DEF Init
    <3> QED
      BY ZenonT(60), <3>1, <3>2
  <2> QED
    BY <2>1, <2>2, IdleType DEF Init, InitTable, Types
<1>2. Bounds /\ Phases
  BY IdleType DEF Init, InitTable, Bounds, Phases, Unwritten, Idle, NULL, Writing, Reading
<1>3. OwnIds
  <2>1. 0 = 0 % IdRange
    BY StaticAnalysisAssumption
  <2>2. \A e \in Slots : OwnEntry(e)
    BY ZenonT(60) DEF Init, InitTable, OwnEntry, Filled, Unwritten
  <2>3. \A t \in Users : OwnThread(at[t]) /\ at[t].pc \notin Writing
    BY ZenonT(60), <2>1 DEF Init, OwnThread, Idle, Writing, Reading
  <2> QED
    BY ZenonT(60), <2>2, <2>3 DEF Init, InitTable, OwnIds, Apart
<1>4. ~Adding /\ Done = 0
  BY ZenonT(60), IdleType DEF Init, Adding, Done, Idle, Writing
<1>5. Chains
  <2>1. Len(parsed) = 0 /\ Len(contexts) = 0 /\ DOMAIN contexts = {}
    BY DEF Init
  <2>2. \A i \in 0 .. TableSize - 1 : IsLast(buckets[i], i, 0)
    BY IdleType DEF Init, InitTable, IsLast
  <2>3. first_free = 1 /\ MaxEntries \in Nat
    BY ZenonT(60), HashtableAssumption DEF Init, InitTable
  <2>4. at[Parser].pc = "idle"
    BY ZenonT(60), IdleType DEF Init, Idle
  <2> QED
    <3>1. Lists(Done)
      BY <1>4, <2>2 DEF Lists
    <3> QED
      BY <1>4, <2>1, <2>3, <2>4, <3>1 DEF Chains, Writing
<1>6. Parsing /\ Lookups /\ Finding
  BY ZenonT(60), <1>4, IdleType DEF Init, Parsing, Lookups, Lookup, Finding, Finds, Idle, Reading
<1> QED
  BY ZenonT(60), <1>1, <1>2, <1>3, <1>5, <1>6 DEF IInv

\* What a step of one thread does to where the threads are.
LEMMA AtStep ==
  ASSUME Types, NEW t \in Users, NEW x \in Thread, at' = [at EXCEPT ![t] = x]
  PROVE  /\ at' \in [Users -> Thread] /\ at'[t] = x
         /\ \A u \in Users : u # t => at'[u] = at[u]
  BY ZenonT(60) DEF Types

\* The lists stay when no entry or line in them changes.
LEMMA ListsKept ==
  ASSUME Lists(Done), Done' = Done, Done \in Nat, UNCHANGED buckets,
         \A d \in 1 .. Done : entry'[d] = entry[d] /\ parsed'[d] = parsed[d]
  PROVE  Lists(Done)'
<1>1. \A d \in 1 .. Done : Key[parsed'[d].site] = Key[parsed[d].site]
  BY ZenonT(60)
<1>2. ASSUME NEW m \in 1 .. Done
      PROVE  (/\ entry[m].hash = KeyOf(m) /\ entry[m].literal = m
              /\ IsLast(entry[m].next, hash_to_index(KeyOf(m)), m - 1))'
  <2>1. /\ entry[m].hash = KeyOf(m) /\ entry[m].literal = m
        /\ IsLast(entry[m].next, hash_to_index(KeyOf(m)), m - 1)
    BY ZenonT(60) DEF Lists
  <2>2. /\ entry[m].next # NULL => entry[m].next \in 1 .. Done
        /\ \A d \in entry[m].next + 1 .. m - 1 : d \in 1 .. Done
    BY <2>1 DEF IsLast, NULL
  <2> QED
    BY ZenonT(60), <1>1, <2>1, <2>2 DEF IsLast, KeyOf
<1>3. ASSUME NEW i \in 0 .. TableSize - 1 PROVE IsLast(buckets[i], i, Done)'
  <2>1. IsLast(buckets[i], i, Done)
    BY ZenonT(60) DEF Lists
  <2>2. /\ buckets[i] # NULL => buckets[i] \in 1 .. Done
        /\ \A d \in buckets[i] + 1 .. Done : d \in 1 .. Done
    BY <2>1 DEF IsLast, NULL
  <2> QED
    BY ZenonT(60), <1>1, <2>1, <2>2 DEF IsLast, KeyOf
<1> QED
  BY ZenonT(60), <1>2, <1>3 DEF Lists

-----------------------------------------------------------------------------
(* Adding an entry. *)

\* With a file, it is the parser that adds an entry, for the last line it read.
LEMMA ParserAdds ==
  ASSUME IInv, ~FullMode, NEW t \in Users, at[t].pc \in {"add"} \cup Writing
  PROVE  /\ t = Parser /\ Adding /\ Done = Len(parsed) - 1 /\ Len(parsed) \in Nat \ {0}
         /\ Done \in Nat /\ Done <= MaxEntries /\ parsed # <<>>
         /\ AddsLine(Len(parsed)) /\ Lists(Done)
         /\ Len(contexts) = IF at[t].pc = "add" THEN Done ELSE Len(parsed)
         /\ first_free = IF at[t].pc \in Writing \ {"take"} THEN Done + 2 ELSE Done + 1
         /\ \A n \in DOMAIN contexts : contexts[n] = parsed[n].index % IdRange
         /\ \A u \in Threads : at[u].pc = "idle" /\ u \in Users /\ u # t
<1>1. t = Parser
  BY ZenonT(60) DEF IInv, Phases, Users, Writing, Reading
<1>2. Adding /\ Done = Len(parsed) - 1
  BY ZenonT(60), <1>1 DEF Adding, Done
<1>3. Len(parsed) \in Nat \ {0} /\ parsed # <<>>
  BY <1>2 DEF IInv, Types, Chains
<1>4. \A u \in Threads : at[u].pc = "idle" /\ u \in Users /\ u # t
  BY ZenonT(60), <1>1, IdleType, StaticAnalysisAssumption DEF IInv, Phases, Writing
<1> QED
  BY <1>1, <1>2, <1>3, <1>4 DEF IInv, Parsing, Chains

\* In full mode the parser has nothing to do.
LEMMA FullModeThreads ==
  ASSUME IInv, FullMode, NEW t \in Users, at[t].pc # "idle"
  PROVE  t \in Threads /\ t # Parser
  BY ZenonT(60) DEF IInv, Phases, Users

\* A step of a thread with the entry it has taken, but for the last one.
LEMMA WriteStep ==
  ASSUME IInv, NEW t \in Users, at[t].pc \in Writing, NEW x \in Thread,
         at' = [at EXCEPT ![t] = x], entry' \in [Slots -> Entry],
         \A d \in Slots : d # at[t].entry => entry'[d] = entry[d],
         first_free' \in Nat \ {0}, UNCHANGED <<buckets, contexts, taken, FullMode, file, parsed>>,
         x.pc \in Writing, x.entry = at[t].entry, x.context = at[t].context,
         entry'[at[t].entry].literal \in 0 .. Len(contexts)
  PROVE  /\ Types' /\ Bounds' /\ Phases' /\ Lookups' /\ Finding'
         /\ at'[t] = x /\ \A u \in Users : u # t => at'[u] = at[u]
         /\ ~FullMode => Lists(Done)' /\ Done' = Done /\ Adding'
<1>0. Types /\ Bounds /\ Phases
  BY ZenonT(60) DEF IInv
<1>1. /\ at' \in [Users -> Thread] /\ at'[t] = x
      /\ \A u \in Users : u # t => at'[u] = at[u]
  BY ZenonT(60), <1>0, AtStep
<1>2. at[t].entry \in Slots /\ at[t].context \in 1 .. Len(contexts) /\ Len(contexts) \in Nat
  BY <1>0, IdleType DEF Bounds, Types
<1>4. Types'
  BY ZenonT(60), <1>0, <1>1 DEF Types
<1>5. Bounds'
  <2>1. \A d \in Slots : entry'[d].literal \in 0 .. Len(contexts)
    BY ZenonT(60), <1>0 DEF Bounds
  <2>2. x.context \in 0 .. Len(contexts) /\ x.context # NULL /\ x.entry \in Slots
    BY <1>2, IdleType
  <2> QED
    BY ZenonT(60), <1>0, <1>1, <2>1, <2>2 DEF Bounds
<1>6. ASSUME FullMode PROVE Phases' /\ Lookups' /\ Finding'
  <2>1. t # Parser
    BY ZenonT(60), <1>6, FullModeThreads DEF Writing
  <2> QED
    BY ZenonT(60), <1>0, <1>1, <1>6, <2>1, IdleType DEF Phases, Lookups, Finding
<1>7. ASSUME ~FullMode PROVE Phases' /\ Lookups' /\ Finding' /\ Lists(Done)' /\ Done' = Done /\ Adding'
  <2>1. /\ t = Parser /\ Adding /\ Done = Len(parsed) - 1 /\ Len(parsed) \in Nat \ {0} /\ Done \in Nat
        /\ Done <= MaxEntries /\ AddsLine(Len(parsed)) /\ Lists(Done)
        /\ \A u \in Threads : at[u].pc = "idle" /\ u \in Users /\ u # t
    BY ZenonT(60), <1>7, ParserAdds
  <2>2. \A u \in Threads : at'[u].pc = "idle"
    BY ZenonT(60), <1>1, <2>1
  <2>3. Phases'
    BY ZenonT(60), <1>1, <1>7, <2>1, <2>2 DEF Phases, Writing
  <2>4. Lookups'
    BY ZenonT(60), <2>2 DEF Lookups, Lookup, Reading
  <2>5. Finding'
    BY ZenonT(60), <1>1, <2>1 DEF Finding, Finds, Writing, Reading
  <2>6. Adding' /\ Done' = Done
    BY ZenonT(60), <1>1, <2>1 DEF Adding, Done
  <2>7. \A d \in 1 .. Done : entry'[d] = entry[d]
    <3>1. at[t].entry = Done + 1
      BY <2>1 DEF AddsLine, Writing
    <3>2. \A d \in 1 .. Done : d \in Slots /\ d # at[t].entry
      BY <2>1, <3>1, HashtableAssumption DEF Slots
    <3> QED
      BY ZenonT(60), <3>2
  <2> QED
    BY ZenonT(60), <2>1, <2>3, <2>4, <2>5, <2>6, <2>7, ListsKept
<1> QED
  BY ZenonT(60), <1>1, <1>4, <1>5, <1>6, <1>7

\* In full mode a step that leaves the table alone keeps what is known of it.
LEMMA OwnMove ==
  ASSUME FullMode, OwnIds, NEW t \in Users, NEW x, at'[t] = x, OwnThread(x),
         \A u \in Users : u # t => at'[u] = at[u],
         UNCHANGED <<buckets, entry, contexts, taken, FullMode>>,
         x.pc \in Writing => at[t].pc \in Writing /\ x.context = at[t].context
  PROVE  OwnIds'
<1>1. \A e \in Slots : OwnEntry(e)'
  BY ZenonT(60) DEF OwnIds, OwnEntry, Filled, Alone
<1>2. \A u \in Users : OwnThread(at'[u])
  BY ZenonT(60) DEF OwnIds
<1>3. \A u \in Users : OwnThread(at[u])'
  BY ZenonT(60), <1>2 DEF OwnThread, Filled, Alone
<1>4. \A i \in 0 .. TableSize - 1 : (buckets[i] # NULL => Filled(buckets[i]))'
  BY ZenonT(60) DEF OwnIds, Filled
<1>5. Apart'
  BY DEF OwnIds, Apart
<1> QED
  BY ZenonT(60), <1>1, <1>3, <1>4, <1>5 DEF OwnIds

\* add_index builds a ContextIndex and loads _first_free_entry.
LEMMA AddStep ==
  ASSUME IInv, NEW t \in Users, add_index(t)
  PROVE  IInv'
<1> DEFINE x == [at[t] EXCEPT !.pc = "take", !.entry = first_free, !.context = Len(contexts) + 1]
<1>0. Types /\ Bounds /\ Phases /\ OwnIds
  BY ZenonT(60) DEF IInv
<1>n. PICK n \in Nat : n = Len(contexts) + 1
  BY <1>0 DEF Types
<1>1. /\ at[t].pc = "add" /\ first_free \in Slots
      /\ contexts' = Append(contexts, at[t].index) /\ taken' = Append(taken, first_free)
      /\ UNCHANGED <<buckets, entry, first_free, FullMode, file, parsed>>
      /\ at' = [at EXCEPT ![t] = x]
  BY ZenonT(60), <1>0 DEF add_index, table, Types
<1>2. at[t] \in Thread /\ Len(contexts) \in Nat /\ at[t].index \in 0 .. IdRange - 1
  BY <1>0 DEF Types, Thread
<1>3. /\ contexts' \in Seq(0 .. IdRange - 1) /\ Len(contexts') = n /\ contexts'[n] = at[t].index
      /\ \A m \in 1 .. Len(contexts) : contexts'[m] = contexts[m]
      /\ DOMAIN contexts = 1 .. Len(contexts) /\ DOMAIN contexts' = 1 .. n
  BY <1>n, <1>0, <1>1, <1>2 DEF Types
<1>4. /\ taken' \in Seq(Slots) /\ Len(taken') = n /\ taken'[n] = first_free
      /\ \A m \in 1 .. Len(contexts) : taken'[m] = taken[m]
      /\ DOMAIN taken = 1 .. Len(contexts) /\ DOMAIN taken' = 1 .. n
  <2>1. taken \in Seq(Slots) /\ Len(taken) = Len(contexts)
    BY ZenonT(60), <1>0 DEF Types
  <2> QED
    BY <1>n, <1>1, <1>2, <2>1
<1>5. /\ x \in Thread /\ x.pc = "take" /\ x.entry = first_free /\ x.context = n
      /\ x.key = at[t].key /\ x.index = at[t].index
  <2>1. first_free \in Slots \cup {NULL} /\ n \in Nat /\ "take" \in Writing
    BY ZenonT(60), <1>n, <1>1, <1>2 DEF Writing
  <2> QED
    BY ZenonT(60), <1>n, <1>2, <2>1 DEF Thread
<1>6. /\ at' \in [Users -> Thread] /\ at'[t] = x
      /\ \A u \in Users : u # t => at'[u] = at[u]
  BY ZenonT(60), <1>n, <1>0, <1>1, <1>5, AtStep
<1> HIDE DEF x
<1>7. Types'
  BY ZenonT(60), <1>n, <1>0, <1>1, <1>3, <1>4, <1>6 DEF Types
<1>8. Bounds'
  BY <1>n, <1>0, <1>1, <1>2, <1>3, <1>5, <1>6, IdleType DEF Bounds
<1>9. ASSUME FullMode PROVE IInv'
  <2>1. t # Parser
    BY ZenonT(60), <1>1, <1>9, FullModeThreads
  <2>2. Phases' /\ Chains' /\ Parsing' /\ Lookups' /\ Finding'
    BY ZenonT(60), <1>0, <1>1, <1>6, <1>9, <2>1, IdleType DEF Phases, Chains, Parsing, Lookups, Finding
  <2>3. \A m \in 1 .. Len(contexts) : Alone(m)' => Alone(m)
    BY <1>n, <1>2, <1>4 DEF Alone
  <2>4. \A e \in Slots : OwnEntry(e) /\ entry[e].literal \in 0 .. Len(contexts)
    BY ZenonT(60), <1>0, <1>9 DEF OwnIds, Bounds
  <2>5. \A e \in Slots : OwnEntry(e)'
    BY <1>n, <1>1, <1>2, <1>3, <1>4, <2>3, <2>4, IdleType DEF OwnEntry, Filled
  <2>6. OwnThread(at[t])'
    <3>1. Alone(n)' => ~Filled(first_free)
      <4>1. SUFFICES ASSUME Filled(first_free) PROVE ~(Alone(n)')
        BY ZenonT(60)
      <4>2. /\ entry[first_free].literal \in 1 .. Len(contexts)
            /\ taken[entry[first_free].literal] = first_free
        BY <1>n, <1>1, <1>2, <2>4, <4>1, IdleType DEF OwnEntry, Filled
      <4>3. /\ entry[first_free].literal \in DOMAIN taken' /\ entry[first_free].literal # n
            /\ taken'[entry[first_free].literal] = taken'[n]
        BY <1>n, <1>2, <1>4, <4>2
      <4> QED
        BY ZenonT(60), <1>n, <1>1, <1>4, <4>3 DEF Alone
    <3>2. x.index = x.key % IdRange
      <4>1. OwnThread(at[t])
        BY ZenonT(60), <1>0, <1>9 DEF OwnIds
      <4> QED
        BY ZenonT(60), <1>5, <4>1 DEF OwnThread
    <3> QED
      BY ZenonT(60), <1>n, <1>1, <1>3, <1>4, <1>5, <1>6, <3>1, <3>2 DEF OwnThread, Writing, Reading,
      Filled
  <2>7. ASSUME NEW u \in Users, u # t PROVE OwnThread(at[u])'
    <3>1. /\ OwnThread(at[u]) /\ at'[u] = at[u] /\ at[u].context \in 0 .. Len(contexts)
          /\ at[u].pc \in Writing \cup Reading => at[u].entry \in Slots
          /\ at[u].pc \in Writing => at[u].context # NULL
      BY ZenonT(60), <1>0, <1>6, <1>9, <2>7 DEF OwnIds, Bounds
    <3>2. at[u].context # NULL => /\ taken'[at[u].context] = taken[at[u].context]
                                  /\ contexts'[at[u].context] = contexts[at[u].context]
                                  /\ Alone(at[u].context)' => Alone(at[u].context)
      BY <1>n, <1>2, <1>3, <1>4, <1>6, <2>3, <2>7, <3>1, IdleType
    <3>3. at[u].pc = "literal" /\ Filled(at[u].entry) =>
            (Alone(entry[at[u].entry].literal)' => Alone(entry[at[u].entry].literal))
      BY <1>n, <1>1, <1>2, <1>6, <2>3, <2>4, <2>7, <3>1, IdleType DEF Filled, Reading
    <3> QED
      BY ZenonT(60), <1>1, <1>6, <2>7, <3>1, <3>2, <3>3 DEF OwnThread, Writing, Reading, Filled
  <2>8. Apart'
    <3>1. \A u \in Users : u # t => at[u].context # n
      BY <1>n, <1>0, <1>2 DEF Bounds
    <3> QED
      BY ZenonT(60), <1>n, <1>0, <1>5, <1>6, <1>9, <3>1 DEF OwnIds, Apart
  <2>9. OwnIds'
    BY ZenonT(60), <1>0, <1>1, <1>9, <2>5, <2>6, <2>7, <2>8 DEF OwnIds, Filled
  <2> QED
    BY ZenonT(60), <1>7, <1>8, <2>2, <2>9 DEF IInv
<1>10. ASSUME ~FullMode PROVE IInv'
  <2>1. /\ t = Parser /\ Adding /\ Done = Len(parsed) - 1 /\ Len(parsed) \in Nat \ {0} /\ Done \in Nat
        /\ Done <= MaxEntries /\ parsed # <<>> /\ AddsLine(Len(parsed)) /\ Lists(Done)
        /\ Len(contexts) = Done /\ first_free = Done + 1
        /\ \A m \in DOMAIN contexts : contexts[m] = parsed[m].index % IdRange
        /\ \A u \in Threads : at[u].pc = "idle" /\ u \in Users /\ u # t
    BY ZenonT(60), <1>1, <1>10, ParserAdds DEF Writing
  <2>2. \A u \in Threads : at'[u].pc = "idle"
    BY ZenonT(60), <1>6, <2>1
  <2>3. Adding' /\ Done' = Done
    BY ZenonT(60), <1>n, <1>1, <1>5, <1>6, <2>1 DEF Adding, Done, Writing
  <2>4. Phases' /\ OwnIds' /\ Lookups' /\ Finding'
    BY ZenonT(60), <1>n, <1>1, <1>5, <1>6, <1>10, <2>1, <2>2
       DEF Phases, OwnIds, Lookups, Lookup, Finding, Finds, Reading
  <2>5. Chains'
    <3>1. ASSUME NEW m \in DOMAIN contexts' PROVE contexts'[m] = parsed[m].index % IdRange
      <4>1. CASE m = n
        BY <1>n, <1>2, <1>3, <2>1, <4>1 DEF AddsLine
      <4>2. CASE m # n
        BY <1>n, <1>2, <1>3, <2>1, <4>2
      <4> QED
        BY ZenonT(60), <4>1, <4>2
    <3>2. Lists(Done)'
      BY ZenonT(60), <1>1, <2>1, <2>3, ListsKept
    <3>3. at'[Parser].pc = "take" /\ Len(contexts') = Len(parsed)
      BY <1>n, <1>3, <1>5, <1>6, <2>1
    <3> QED
      BY ZenonT(60), <1>1, <2>1, <2>3, <3>1, <3>2, <3>3 DEF Chains
  <2>6. Parsing'
    BY <1>n, <1>1, <1>5, <1>6, <2>1 DEF Parsing, AddsLine, KeyOf
  <2> QED
    BY ZenonT(60), <1>7, <1>8, <2>4, <2>5, <2>6 DEF IInv
<1> QED
  BY ZenonT(60), <1>0, <1>9, <1>10 DEF Types

\* new_entry moves _first_free_entry on.
LEMMA TakeStep ==
  ASSUME IInv, NEW t \in Users, TakeEntry(t)
  PROVE  IInv'
<1> DEFINE x == [at[t] EXCEPT !.pc = "set_hash"]
           e == at[t].entry
<1>0. Types /\ Bounds /\ OwnIds
  BY ZenonT(60) DEF IInv
<1>1. /\ at[t].pc = "take" /\ first_free' \in {e + 1, first_free + 1}
      /\ UNCHANGED <<buckets, entry, FullMode, file, contexts, taken, parsed>>
      /\ at' = [at EXCEPT ![t] = x]
  BY ZenonT(60), <1>0 DEF TakeEntry, Goto, Types
<1>2. at[t] \in Thread /\ at[t].pc \in Writing /\ "set_hash" \in Writing
  BY ZenonT(60), <1>0, <1>1 DEF Types, Writing
<1>3. /\ x \in Thread /\ x.pc = "set_hash" /\ x.key = at[t].key /\ x.index = at[t].index
      /\ x.entry = e /\ x.context = at[t].context
  BY ZenonT(60), <1>2 DEF Thread
<1>4. /\ e \in Slots /\ entry[e] \in Entry /\ entry[e].literal \in 0 .. Len(contexts)
      /\ entry' \in [Slots -> Entry] /\ first_free' \in Nat \ {0}
  BY <1>0, <1>1, <1>2 DEF Bounds, Types, Slots
<1> HIDE DEF x
<1>5. /\ Types' /\ Bounds' /\ Phases' /\ Lookups' /\ Finding'
      /\ at'[t] = x /\ \A u \in Users : u # t => at'[u] = at[u]
      /\ ~FullMode => Lists(Done)' /\ Done' = Done /\ Adding'
  BY ZenonT(60), <1>1, <1>2, <1>3, <1>4, WriteStep
<1>6. ASSUME FullMode PROVE OwnIds' /\ Chains' /\ Parsing'
  <2>1. OwnThread(x)
    BY ZenonT(60), <1>0, <1>1, <1>2, <1>3, <1>6 DEF OwnIds, OwnThread, Writing, Reading
  <2>2. OwnIds'
    BY ZenonT(60), <1>0, <1>1, <1>2, <1>3, <1>5, <1>6, <2>1, OwnMove
  <2> QED
    BY ZenonT(60), <1>1, <1>6, <2>2 DEF Chains, Parsing
<1>7. ASSUME ~FullMode PROVE OwnIds' /\ Chains' /\ Parsing'
  <2>1. /\ t = Parser /\ Done = Len(parsed) - 1 /\ Len(parsed) \in Nat \ {0} /\ Done \in Nat
        /\ Done <= MaxEntries /\ parsed # <<>> /\ AddsLine(Len(parsed)) /\ Len(contexts) = Len(parsed)
        /\ first_free = Done + 1
        /\ \A m \in DOMAIN contexts : contexts[m] = parsed[m].index % IdRange
    BY ZenonT(60), <1>1, <1>2, <1>7, ParserAdds
  <2>2. first_free' = Done + 2
    BY <1>1, <2>1 DEF AddsLine
  <2>3. Chains'
    BY ZenonT(60), <1>1, <1>3, <1>5, <1>7, <2>1, <2>2 DEF Chains, Writing
  <2>4. Parsing'
    BY ZenonT(60), <1>1, <1>3, <1>5, <2>1 DEF Parsing, AddsLine, KeyOf
  <2> QED
    BY ZenonT(60), <1>1, <1>7, <2>3, <2>4 DEF OwnIds
<1> QED
  BY ZenonT(60), <1>0, <1>5, <1>6, <1>7 DEF IInv, Types

\* A thread that has not stored its ContextIndex yet is the only one to have
\* taken its entry only if no ContextIndex is there.
LEMMA NotAlone ==
  ASSUME IInv, FullMode, NEW t \in Users, at[t].pc \in {"set_hash", "set_literal"}, Filled(at[t].entry)
  PROVE  ~Alone(at[t].context) /\ ~Alone(entry[at[t].entry].literal)
<1> DEFINE e == at[t].entry
           n == at[t].context
           m == entry[e].literal
<1>1. /\ OwnThread(at[t]) /\ at[t].pc \in Writing /\ e \in Slots /\ n \in 1 .. Len(taken)
      /\ DOMAIN taken = 1 .. Len(taken)
  BY IdleType DEF IInv, OwnIds, Bounds, Types, Writing
<1>2. taken[n] = e /\ ~Alone(n)
  BY ZenonT(60), <1>1 DEF OwnThread
<1>3. OwnEntry(e) /\ m \in 0 .. Len(taken)
  BY ZenonT(60), <1>1 DEF IInv, OwnIds, Bounds, Types
<1>4. taken[m] = e
  BY ZenonT(60), <1>3 DEF OwnEntry
<1> QED
  BY ZenonT(60), <1>1, <1>2, <1>4 DEF Alone

\* Nor has another thread taken it.
LEMMA OtherWriter ==
  ASSUME IInv, FullMode, NEW t \in Users, at[t].pc \in Writing,
         NEW u \in Users, u # t, at[u].pc \in Writing, at[u].entry = at[t].entry
  PROVE  ~Alone(at[t].context) /\ ~Alone(at[u].context)
<1>1. /\ OwnThread(at[t]) /\ OwnThread(at[u]) /\ at[t].context # at[u].context
      /\ at[t].context \in 1 .. Len(taken) /\ at[u].context \in 1 .. Len(taken)
      /\ DOMAIN taken = 1 .. Len(taken)
  BY IdleType DEF IInv, OwnIds, Apart, Bounds, Types
<1>2. taken[at[t].context] = taken[at[u].context]
  BY ZenonT(60), <1>1 DEF OwnThread
<1> QED
  BY ZenonT(60), <1>1, <1>2 DEF Alone

\* new_entry stores the key, in full mode perhaps over that of another thread.
LEMMA SetHashStep ==
  ASSUME IInv, NEW t \in Users, set_hash(t)
  PROVE  IInv'
<1> DEFINE x == [at[t] EXCEPT !.pc = "set_literal"]
           e == at[t].entry
           r == [entry[e] EXCEPT !.hash = at[t].key]
<1>0. Types /\ Bounds /\ OwnIds
  BY ZenonT(60) DEF IInv
<1>1. /\ at[t].pc = "set_hash" /\ entry' = [entry EXCEPT ![e].hash = at[t].key]
      /\ UNCHANGED <<buckets, first_free, FullMode, file, contexts, taken, parsed>>
      /\ at' = [at EXCEPT ![t] = x]
  BY ZenonT(60), <1>0 DEF set_hash, Store, Goto, Types
<1>2. at[t] \in Thread /\ at[t].pc \in Writing /\ "set_literal" \in Writing /\ at[t].key \in Nat
  BY ZenonT(60), <1>0, <1>1 DEF Types, Writing, Thread
<1>3. /\ x \in Thread /\ x.pc = "set_literal" /\ x.key = at[t].key /\ x.index = at[t].index
      /\ x.entry = e /\ x.context = at[t].context
  BY ZenonT(60), <1>2 DEF Thread
<1>4. e \in Slots /\ entry[e] \in Entry /\ entry[e].literal \in 0 .. Len(contexts)
  BY ZenonT(60), <1>0, <1>2 DEF Bounds, Types
<1>5. /\ r \in Entry /\ r.hash = at[t].key /\ r.literal = entry[e].literal /\ r.next = entry[e].next
  BY ZenonT(60), <1>2, <1>4 DEF Entry
<1>e. /\ entry' \in [Slots -> Entry] /\ entry'[e] = r
      /\ \A d \in Slots : d # e => entry'[d] = entry[d]
  BY ZenonT(60), <1>0, <1>1, <1>4, <1>5 DEF Types
<1> HIDE DEF x, r
<1>6. /\ Types' /\ Bounds' /\ Phases' /\ Lookups' /\ Finding'
      /\ at'[t] = x /\ (\A u \in Users : u # t => at'[u] = at[u])
      /\ ~FullMode => Lists(Done)' /\ Done' = Done /\ Adding'
  <2>1. first_free' \in Nat \ {0} /\ entry'[e].literal \in 0 .. Len(contexts)
    BY ZenonT(60), <1>0, <1>1, <1>4, <1>5, <1>e DEF Types
  <2>2. /\ at' = [at EXCEPT ![t] = x] /\ x.pc \in Writing
        /\ UNCHANGED <<buckets, contexts, taken, FullMode, file, parsed>>
    BY ZenonT(60), <1>1, <1>2, <1>3
  <2>3. entry' \in [Slots -> Entry] /\ \A d \in Slots : d # at[t].entry => entry'[d] = entry[d]
    BY ZenonT(60), <1>e
  <2> QED
    BY ZenonT(60), <1>2, <1>3, <2>1, <2>2, <2>3, WriteStep
<1>7. ASSUME FullMode PROVE OwnIds' /\ Chains' /\ Parsing'
  <2>1. /\ \A d \in Slots : Filled(d)' <=> Filled(d)
        /\ \A d \in Slots : entry'[d].literal = entry[d].literal /\ entry'[d].next = entry[d].next
        /\ \A m : Alone(m)' <=> Alone(m)
    BY ZenonT(60), <1>1, <1>5, <1>6, <1>e DEF Filled, Alone
  <2>2. Filled(e) => ~Alone(at[t].context) /\ ~Alone(entry[e].literal)
    BY ZenonT(60), <1>1, <1>7, NotAlone
  <2>3. ASSUME NEW d \in Slots PROVE OwnEntry(d)'
    <3>1. OwnEntry(d) /\ entry[d].next \in Slots \cup {NULL}
      BY ZenonT(60), <1>0, <1>7 DEF OwnIds, Types, Entry
    <3>2. d # e => entry'[d].hash = entry[d].hash
      BY ZenonT(60), <1>6, <1>e
    <3> QED
      BY ZenonT(60), <1>1, <2>1, <2>2, <3>1, <3>2 DEF OwnEntry
  <2>4. OwnThread(at[t])'
    <3>1. OwnThread(at[t])
      BY ZenonT(60), <1>0, <1>7 DEF OwnIds
    <3> QED
      BY <1>1, <1>2, <1>3, <1>4, <1>5, <1>6, <1>e, <2>1, <3>1 DEF OwnThread, Writing, Reading
  <2>5. ASSUME NEW u \in Users, u # t PROVE OwnThread(at[u])'
    <3>1. /\ OwnThread(at[u]) /\ at'[u] = at[u] /\ at[u] \in Thread
          /\ at[u].pc \in Writing \cup Reading => at[u].entry \in Slots
      BY ZenonT(60), <1>0, <1>6, <1>e, <1>7, <2>5 DEF OwnIds, Bounds, Types
    <3>2. at[u].next \in Slots \cup {NULL}
      BY ZenonT(60), <3>1 DEF Thread
    <3>3. at[u].pc \in Writing /\ at[u].entry = e => ~Alone(at[u].context)
      BY ZenonT(60), <1>2, <1>7, <2>5, OtherWriter
    <3>4. at[u].entry \in Slots /\ at[u].entry # e => entry'[at[u].entry] = entry[at[u].entry]
      BY ZenonT(60), <1>6, <1>e
    <3> QED
      BY ZenonT(60), <1>1, <1>6, <1>e, <2>1, <2>2, <2>5, <3>1, <3>2, <3>3, <3>4 DEF OwnThread,
      Writing, Reading
  <2>6. Apart'
    BY <1>0, <1>2, <1>3, <1>6, <1>e, <1>7 DEF OwnIds, Apart
  <2>7. \A i \in 0 .. TableSize - 1 : (buckets[i] # NULL => Filled(buckets[i]))'
    BY ZenonT(60), <1>0, <1>1, <1>7, <2>1 DEF OwnIds, Types
  <2> QED
    BY ZenonT(60), <1>1, <1>7, <2>3, <2>4, <2>5, <2>6, <2>7 DEF OwnIds, Chains, Parsing
<1>8. ASSUME ~FullMode PROVE OwnIds' /\ Chains' /\ Parsing'
  <2>1. /\ t = Parser /\ Done = Len(parsed) - 1 /\ Len(parsed) \in Nat \ {0} /\ Done \in Nat
        /\ Done <= MaxEntries /\ parsed # <<>> /\ AddsLine(Len(parsed)) /\ Len(contexts) = Len(parsed)
        /\ first_free = Done + 2
        /\ \A m \in DOMAIN contexts : contexts[m] = parsed[m].index % IdRange
    BY ZenonT(60), <1>1, <1>2, <1>8, ParserAdds DEF Writing
  <2>2. Chains'
    BY ZenonT(60), <1>1, <1>3, <1>6, <1>e, <1>8, <2>1 DEF Chains, Writing
  <2>3. Parsing'
    BY ZenonT(60), <1>1, <1>3, <1>5, <1>6, <1>e, <2>1 DEF Parsing, AddsLine, KeyOf
  <2> QED
    BY ZenonT(60), <1>1, <1>8, <2>2, <2>3 DEF OwnIds
<1> QED
  BY ZenonT(60), <1>0, <1>6, <1>e, <1>7, <1>8 DEF IInv, Types

\* new_entry stores the ContextIndex.
LEMMA SetLiteralStep ==
  ASSUME IInv, NEW t \in Users, set_literal(t)
  PROVE  IInv'
<1> DEFINE x == [at[t] EXCEPT !.pc = "link"]
           e == at[t].entry
           r == [entry[e] EXCEPT !.literal = at[t].context]
<1>0. Types /\ Bounds /\ OwnIds
  BY DEF IInv
<1>1. /\ at[t].pc = "set_literal" /\ entry' = [entry EXCEPT ![e].literal = at[t].context]
      /\ UNCHANGED <<buckets, first_free, FullMode, file, contexts, taken, parsed>>
      /\ at' = [at EXCEPT ![t] = x]
  BY ZenonT(60), <1>0 DEF set_literal, Store, Goto, Types
<1>2. at[t] \in Thread /\ at[t].pc \in Writing /\ "link" \in Writing
  BY ZenonT(60), <1>0, <1>1 DEF Types, Writing
<1>3. /\ x \in Thread /\ x.pc = "link" /\ x.key = at[t].key /\ x.index = at[t].index
      /\ x.entry = e /\ x.context = at[t].context
  BY ZenonT(60), <1>2 DEF Thread
<1>4. /\ e \in Slots /\ entry[e] \in Entry /\ at[t].context \in 0 .. Len(contexts)
      /\ at[t].context # NULL /\ at[t].context \in Nat
  BY ZenonT(60), <1>0, <1>2 DEF Bounds, Types, Thread
<1>5. /\ r \in Entry /\ r.literal = at[t].context /\ r.hash = entry[e].hash /\ r.next = entry[e].next
  BY ZenonT(60), <1>2, <1>4 DEF Entry
<1>e. /\ entry' \in [Slots -> Entry] /\ entry'[e] = r
      /\ \A d \in Slots : d # e => entry'[d] = entry[d]
  BY ZenonT(60), <1>0, <1>1, <1>4, <1>5 DEF Types
<1> HIDE DEF x, r
<1>6. /\ Types' /\ Bounds' /\ Phases' /\ Lookups' /\ Finding'
      /\ at'[t] = x /\ (\A u \in Users : u # t => at'[u] = at[u])
      /\ ~FullMode => Lists(Done)' /\ Done' = Done /\ Adding'
  <2>1. first_free' \in Nat \ {0} /\ entry'[e].literal \in 0 .. Len(contexts)
    BY ZenonT(60), <1>0, <1>1, <1>4, <1>5, <1>e DEF Types
  <2>2. /\ at' = [at EXCEPT ![t] = x] /\ x.pc \in Writing
        /\ UNCHANGED <<buckets, contexts, taken, FullMode, file, parsed>>
    BY ZenonT(60), <1>1, <1>2, <1>3
  <2>3. entry' \in [Slots -> Entry] /\ \A d \in Slots : d # at[t].entry => entry'[d] = entry[d]
    BY ZenonT(60), <1>e
  <2> QED
    BY ZenonT(60), <1>2, <1>3, <2>1, <2>2, <2>3, WriteStep
<1>7. ASSUME FullMode PROVE OwnIds' /\ Chains' /\ Parsing'
  <2>1. /\ \A d \in Slots : Filled(d)' <=> Filled(d) \/ d = e
        /\ \A d \in Slots : entry'[d].hash = entry[d].hash /\ entry'[d].next = entry[d].next
        /\ \A m : Alone(m)' <=> Alone(m)
    BY ZenonT(60), <1>1, <1>4, <1>5, <1>6, <1>e DEF Filled, Alone
  <2>2. Filled(e) => ~Alone(at[t].context)
    BY ZenonT(60), <1>1, <1>7, NotAlone
  <2>3. OwnThread(at[t])
    BY ZenonT(60), <1>0, <1>7 DEF OwnIds
  <2>4. /\ taken[at[t].context] = e /\ contexts[at[t].context] = at[t].key % IdRange
        /\ Alone(at[t].context) => entry[e].hash = at[t].key
    BY ZenonT(60), <1>1, <1>2, <2>3 DEF OwnThread
  <2>5. ASSUME NEW d \in Slots PROVE OwnEntry(d)'
    <3>1. OwnEntry(d) /\ entry[d].next \in Slots \cup {NULL}
      BY ZenonT(60), <1>0, <1>7 DEF OwnIds, Types, Entry
    <3>2. CASE d = e
      BY ZenonT(60), <1>1, <1>5, <1>6, <1>e, <2>1, <2>4, <3>1, <3>2 DEF OwnEntry
    <3>3. CASE d # e
      BY ZenonT(60), <1>1, <1>6, <1>e, <2>1, <3>1, <3>3 DEF OwnEntry
    <3> QED
      BY ZenonT(60), <3>2, <3>3
  <2>6. OwnThread(at[t])'
    BY <1>1, <1>2, <1>3, <1>4, <1>6, <1>e, <2>1, <2>3 DEF OwnThread, Writing, Reading
  <2>7. ASSUME NEW u \in Users, u # t PROVE OwnThread(at[u])'
    <3>1. /\ OwnThread(at[u]) /\ at'[u] = at[u] /\ at[u] \in Thread
          /\ at[u].pc \in Writing \cup Reading => at[u].entry \in Slots
      BY ZenonT(60), <1>0, <1>6, <1>e, <1>7, <2>7 DEF OwnIds, Bounds, Types
    <3>2. at[u].next \in Slots \cup {NULL}
      BY ZenonT(60), <3>1 DEF Thread
    <3>3. at[u].pc \in Writing /\ at[u].entry = e => ~Alone(at[u].context)
      BY ZenonT(60), <1>2, <1>7, <2>7, OtherWriter
    <3>4. at[u].entry \in Slots /\ at[u].entry # e => entry'[at[u].entry] = entry[at[u].entry]
      BY ZenonT(60), <1>6, <1>e
    <3>5. at[u].entry = e /\ Filled(e) => ~Alone(entry'[e].literal)
      BY ZenonT(60), <1>5, <1>6, <1>e, <2>2
    <3> QED
      BY ZenonT(60), <1>1, <1>6, <1>e, <2>1, <2>7, <3>1, <3>2, <3>3, <3>4, <3>5 DEF OwnThread,
      Writing, Reading
  <2>8. Apart'
    BY <1>0, <1>2, <1>3, <1>6, <1>e, <1>7 DEF OwnIds, Apart
  <2>9. \A i \in 0 .. TableSize - 1 : (buckets[i] # NULL => Filled(buckets[i]))'
    BY ZenonT(60), <1>0, <1>1, <1>7, <2>1 DEF OwnIds, Types
  <2> QED
    BY ZenonT(60), <1>1, <1>7, <2>5, <2>6, <2>7, <2>8, <2>9 DEF OwnIds, Chains, Parsing
<1>8. ASSUME ~FullMode PROVE OwnIds' /\ Chains' /\ Parsing'
  <2>1. /\ t = Parser /\ Done = Len(parsed) - 1 /\ Len(parsed) \in Nat \ {0} /\ Done \in Nat
        /\ Done <= MaxEntries /\ parsed # <<>> /\ AddsLine(Len(parsed)) /\ Len(contexts) = Len(parsed)
        /\ first_free = Done + 2
        /\ \A m \in DOMAIN contexts : contexts[m] = parsed[m].index % IdRange
    BY ZenonT(60), <1>1, <1>2, <1>8, ParserAdds DEF Writing
  <2>2. Chains'
    BY ZenonT(60), <1>1, <1>3, <1>6, <1>e, <1>8, <2>1 DEF Chains, Writing
  <2>3. Parsing'
    BY ZenonT(60), <1>1, <1>3, <1>5, <1>6, <1>e, <2>1 DEF Parsing, AddsLine, KeyOf
  <2> QED
    BY ZenonT(60), <1>1, <1>8, <2>2, <2>3 DEF OwnIds
<1> QED
  BY ZenonT(60), <1>0, <1>6, <1>e, <1>7, <1>8 DEF IInv, Types

\* add_entry loads the head of the bucket.
LEMMA LoadHeadStep ==
  ASSUME IInv, NEW t \in Users, LoadHead(t)
  PROVE  IInv'
<1> DEFINE b == hash_to_index(at[t].key)
           x == [at[t] EXCEPT !.pc = "set_next", !.next = buckets[b]]
           e == at[t].entry
<1>0. Types /\ Bounds /\ OwnIds
  BY DEF IInv
<1>1. /\ at[t].pc = "link"
      /\ UNCHANGED <<buckets, entry, first_free, FullMode, file, contexts, taken, parsed>>
      /\ at' = [at EXCEPT ![t] = x]
  BY ZenonT(60), <1>0 DEF LoadHead, bucket, table, Types
<1>2. /\ at[t] \in Thread /\ at[t].pc \in Writing /\ "set_next" \in Writing
      /\ b \in 0 .. TableSize - 1 /\ buckets[b] \in Slots \cup {NULL}
  <2>1. at[t] \in Thread /\ at[t].key \in Nat
    BY ZenonT(60), <1>0 DEF Types, Thread
  <2> QED
    BY ZenonT(60), <1>0, <1>1, <2>1, BucketRange DEF Types, Writing
<1>3. /\ x \in Thread /\ x.pc = "set_next" /\ x.key = at[t].key /\ x.index = at[t].index
      /\ x.entry = e /\ x.context = at[t].context /\ x.next = buckets[b]
  BY ZenonT(60), <1>2 DEF Thread
<1>4. /\ e \in Slots /\ entry'[e].literal \in 0 .. Len(contexts)
      /\ entry' \in [Slots -> Entry] /\ first_free' \in Nat \ {0}
  BY ZenonT(60), <1>0, <1>1, <1>2 DEF Bounds, Types
<1> HIDE DEF x, b
<1>5. /\ Types' /\ Bounds' /\ Phases' /\ Lookups' /\ Finding'
      /\ at'[t] = x /\ (\A u \in Users : u # t => at'[u] = at[u])
      /\ ~FullMode => Lists(Done)' /\ Done' = Done /\ Adding'
  BY ZenonT(60), <1>1, <1>2, <1>3, <1>4, WriteStep
<1>6. ASSUME FullMode PROVE OwnIds' /\ Chains' /\ Parsing'
  <2>1. OwnThread(x)
    <3>1. OwnThread(at[t]) /\ (x.next # NULL => Filled(x.next))
      BY ZenonT(60), <1>0, <1>2, <1>3, <1>6 DEF OwnIds
    <3> QED
      BY ZenonT(60), <1>1, <1>2, <1>3, <3>1 DEF OwnThread, Writing, Reading
  <2>2. OwnIds'
    BY ZenonT(60), <1>0, <1>1, <1>2, <1>3, <1>5, <1>6, <2>1, OwnMove
  <2> QED
    BY ZenonT(60), <1>1, <1>6, <2>2 DEF Chains, Parsing
<1>7. ASSUME ~FullMode PROVE OwnIds' /\ Chains' /\ Parsing'
  <2>1. /\ t = Parser /\ Done = Len(parsed) - 1 /\ Len(parsed) \in Nat \ {0} /\ Done \in Nat
        /\ Done <= MaxEntries /\ parsed # <<>> /\ AddsLine(Len(parsed)) /\ Len(contexts) = Len(parsed)
        /\ first_free = Done + 2 /\ Lists(Done)
        /\ \A m \in DOMAIN contexts : contexts[m] = parsed[m].index % IdRange
    BY ZenonT(60), <1>1, <1>2, <1>7, ParserAdds DEF Writing
  <2>2. Chains'
    BY ZenonT(60), <1>1, <1>3, <1>5, <1>7, <2>1 DEF Chains, Writing
  <2>3. Parsing'
    <3>1. b = hash_to_index(KeyOf(Len(parsed)))
      BY ZenonT(60), <2>1 DEF AddsLine, b
    <3>2. IsLast(x.next, hash_to_index(KeyOf(Len(parsed))), Len(parsed) - 1)
      BY ZenonT(60), <1>2, <1>3, <2>1, <3>1 DEF Lists
    <3>3. IsLast(at[Parser].next, hash_to_index(KeyOf(Len(parsed))), Len(parsed) - 1)'
      BY ZenonT(60), <1>1, <1>5, <2>1, <3>2 DEF IsLast, KeyOf
    <3> QED
      BY ZenonT(60), <1>1, <1>3, <1>5, <2>1, <3>3 DEF Parsing, AddsLine, KeyOf
  <2> QED
    BY ZenonT(60), <1>1, <1>7, <2>2, <2>3 DEF OwnIds
<1> QED
  BY ZenonT(60), <1>0, <1>5, <1>6, <1>7 DEF IInv, Types

\* It links the entry to the head it has loaded.
LEMMA LinkStep ==
  ASSUME IInv, NEW t \in Users, Link(t)
  PROVE  IInv'
<1> DEFINE x == [at[t] EXCEPT !.pc = "publish"]
           e == at[t].entry
           r == [entry[e] EXCEPT !.next = at[t].next]
<1>0. Types /\ Bounds /\ OwnIds
  BY DEF IInv
<1>1. /\ at[t].pc = "set_next" /\ entry' = [entry EXCEPT ![e].next = at[t].next]
      /\ UNCHANGED <<buckets, first_free, FullMode, file, contexts, taken, parsed>>
      /\ at' = [at EXCEPT ![t] = x]
  BY ZenonT(60), <1>0 DEF Link, Store, Goto, Types
<1>2. /\ at[t] \in Thread /\ at[t].pc \in Writing /\ "publish" \in Writing
      /\ at[t].next \in Slots \cup {NULL}
  BY ZenonT(60), <1>0, <1>1 DEF Types, Writing, Thread
<1>3. /\ x \in Thread /\ x.pc = "publish" /\ x.key = at[t].key /\ x.index = at[t].index
      /\ x.entry = e /\ x.context = at[t].context
  BY ZenonT(60), <1>2 DEF Thread
<1>4. e \in Slots /\ entry[e] \in Entry /\ entry[e].literal \in 0 .. Len(contexts)
  BY ZenonT(60), <1>0, <1>2 DEF Bounds, Types
<1>5. /\ r \in Entry /\ r.next = at[t].next /\ r.literal = entry[e].literal /\ r.hash = entry[e].hash
  BY ZenonT(60), <1>2, <1>4 DEF Entry
<1>e. /\ entry' \in [Slots -> Entry] /\ entry'[e] = r
      /\ \A d \in Slots : d # e => entry'[d] = entry[d]
  BY ZenonT(60), <1>0, <1>1, <1>4, <1>5 DEF Types
<1> HIDE DEF x, r
<1>6. /\ Types' /\ Bounds' /\ Phases' /\ Lookups' /\ Finding'
      /\ at'[t] = x /\ (\A u \in Users : u # t => at'[u] = at[u])
      /\ ~FullMode => Lists(Done)' /\ Done' = Done /\ Adding'
  <2>1. first_free' \in Nat \ {0} /\ entry'[e].literal \in 0 .. Len(contexts)
    BY ZenonT(60), <1>0, <1>1, <1>4, <1>5, <1>e DEF Types
  <2>2. /\ at' = [at EXCEPT ![t] = x] /\ x.pc \in Writing
        /\ UNCHANGED <<buckets, contexts, taken, FullMode, file, parsed>>
    BY ZenonT(60), <1>1, <1>2, <1>3
  <2>3. entry' \in [Slots -> Entry] /\ \A d \in Slots : d # at[t].entry => entry'[d] = entry[d]
    BY <1>e
  <2> QED
    BY ZenonT(60), <1>2, <1>3, <2>1, <2>2, <2>3, WriteStep
<1>7. ASSUME FullMode PROVE OwnIds' /\ Chains' /\ Parsing'
  <2>1. /\ \A d \in Slots : Filled(d)' <=> Filled(d)
        /\ \A d \in Slots : entry'[d].literal = entry[d].literal /\ entry'[d].hash = entry[d].hash
        /\ \A m : Alone(m)' <=> Alone(m)
    BY ZenonT(60), <1>1, <1>5, <1>e DEF Filled, Alone
  <2>2. OwnThread(at[t]) /\ (at[t].next # NULL => Filled(at[t].next))
    BY ZenonT(60), <1>0, <1>1, <1>7 DEF OwnIds, OwnThread
  <2>3. ASSUME NEW d \in Slots PROVE OwnEntry(d)'
    <3>1. OwnEntry(d) /\ entry[d].next \in Slots \cup {NULL}
      BY <1>0, <1>7 DEF OwnIds, Types, Entry
    <3>2. CASE d = e
      BY ZenonT(60), <1>1, <1>2, <1>5, <1>e, <2>1, <2>2, <3>1, <3>2 DEF OwnEntry
    <3>3. CASE d # e
      BY ZenonT(60), <1>1, <1>e, <2>1, <3>1, <3>3 DEF OwnEntry
    <3> QED
      BY ZenonT(60), <3>2, <3>3
  <2>4. OwnThread(at[t])'
    BY ZenonT(60), <1>1, <1>2, <1>3, <1>4, <1>6, <2>1, <2>2 DEF OwnThread, Writing, Reading
  <2>5. ASSUME NEW u \in Users, u # t PROVE OwnThread(at[u])'
    <3>1. /\ OwnThread(at[u]) /\ at'[u] = at[u] /\ at[u] \in Thread
          /\ at[u].pc \in Writing \cup Reading => at[u].entry \in Slots
      BY ZenonT(60), <1>0, <1>6, <1>7, <2>5 DEF OwnIds, Bounds, Types
    <3>2. at[u].next \in Slots \cup {NULL}
      BY <3>1 DEF Thread
    <3> QED
      BY ZenonT(60), <1>1, <2>1, <3>1, <3>2 DEF OwnThread, Writing, Reading
  <2>6. Apart'
    BY <1>0, <1>2, <1>3, <1>6, <1>7 DEF OwnIds, Apart
  <2>7. \A i \in 0 .. TableSize - 1 : (buckets[i] # NULL => Filled(buckets[i]))'
    BY ZenonT(60), <1>0, <1>1, <1>7, <2>1 DEF OwnIds, Types
  <2> QED
    BY ZenonT(60), <1>1, <1>7, <2>3, <2>4, <2>5, <2>6, <2>7 DEF OwnIds, Chains, Parsing
<1>8. ASSUME ~FullMode PROVE OwnIds' /\ Chains' /\ Parsing'
  <2>1. /\ t = Parser /\ Done = Len(parsed) - 1 /\ Len(parsed) \in Nat \ {0} /\ Done \in Nat
        /\ Done <= MaxEntries /\ parsed # <<>> /\ AddsLine(Len(parsed)) /\ Len(contexts) = Len(parsed)
        /\ first_free = Done + 2
        /\ \A m \in DOMAIN contexts : contexts[m] = parsed[m].index % IdRange
    BY ZenonT(60), <1>1, <1>2, <1>8, ParserAdds DEF Writing
  <2>2. Chains'
    BY ZenonT(60), <1>1, <1>3, <1>6, <1>8, <2>1 DEF Chains, Writing
  <2>3. Parsing'
    <3>1. e = Len(parsed) /\ IsLast(at[t].next, hash_to_index(KeyOf(Len(parsed))), Len(parsed) - 1)
      BY ZenonT(60), <1>1, <2>1 DEF AddsLine
    <3>2. IsLast(entry[Len(parsed)].next, hash_to_index(KeyOf(Len(parsed))), Len(parsed) - 1)'
      BY ZenonT(60), <1>1, <1>5, <1>e, <3>1 DEF IsLast, KeyOf
    <3> QED
      BY ZenonT(60), <1>1, <1>3, <1>5, <1>6, <1>e, <2>1, <3>2 DEF Parsing, AddsLine, KeyOf
  <2> QED
    BY ZenonT(60), <1>1, <1>8, <2>2, <2>3 DEF OwnIds
<1> QED
  BY <1>0, <1>6, <1>7, <1>8 DEF IInv, Types

\* It makes the entry the head of its bucket.
LEMMA PublishStep ==
  ASSUME IInv, NEW t \in Users, Publish(t)
  PROVE  IInv'
<1> DEFINE e == at[t].entry
           b == hash_to_index(at[t].key)
           x == [at[t] EXCEPT !.pc = "bucket", !.added = TRUE, !.entry = NULL, !.next = NULL,
                              !.context = NULL]
<1>0. Types /\ Bounds /\ Phases /\ OwnIds
  BY ZenonT(60) DEF IInv
<1>1. /\ at[t].pc = "publish"
      /\ buckets' = [buckets EXCEPT ![b] = e]
      /\ UNCHANGED <<entry, first_free, contexts, taken, FullMode, file, parsed>>
      /\ at' = [at EXCEPT ![t] = x]
  BY ZenonT(60), <1>0 DEF Publish, set_entry, Types
<1>2. /\ at[t] \in Thread /\ at[t].key \in Nat /\ e \in Slots /\ Len(contexts) \in Nat
      /\ b \in 0 .. TableSize - 1 /\ at[t].pc \in Writing
  <2>1. at[t] \in Thread /\ at[t].key \in Nat /\ Len(contexts) \in Nat /\ at[t].pc \in Writing
    BY <1>0, <1>1 DEF Types, Thread, Writing
  <2>2. e \in Slots
    BY ZenonT(60), <1>0, <2>1 DEF Bounds
  <2> QED
    BY ZenonT(60), <2>1, <2>2, BucketRange
<1>3. /\ x \in Thread /\ x.pc = "bucket" /\ x.key = at[t].key /\ x.index = at[t].index
      /\ x.entry = NULL /\ x.context = NULL
  <2>1. NULL \in Nat /\ NULL \in Slots \cup {NULL} /\ TRUE \in BOOLEAN
    BY ZenonT(60), IdleType
  <2>2. x \in Thread
    BY <1>2, <2>1, ZenonT(60) DEF Thread
  <2> QED
    BY ZenonT(60), <1>2, <2>2 DEF Thread
<1>4. /\ at' \in [Users -> Thread] /\ at'[t] = x
      /\ \A u \in Users : u # t => at'[u] = at[u]
  BY ZenonT(60), <1>0, <1>1, <1>3, AtStep
<1>5. /\ buckets'[b] = e /\ \A i \in 0 .. TableSize - 1 : i # b => buckets'[i] = buckets[i]
      /\ buckets' \in [0 .. TableSize - 1 -> Slots \cup {NULL}]
  BY ZenonT(60), <1>0, <1>1, <1>2 DEF Types
<1> HIDE DEF x, e, b
<1>6. Types'
  BY ZenonT(60), <1>0, <1>1, <1>4, <1>5 DEF Types
<1>7. Bounds'
  BY <1>0, <1>1, <1>2, <1>3, <1>4, IdleType DEF Bounds, Writing, Reading
<1>8. ASSUME FullMode PROVE IInv'
  <2>1. t # Parser
    BY ZenonT(60), <1>1, <1>8, FullModeThreads
  <2>2. Phases' /\ Chains' /\ Parsing' /\ Lookups' /\ Finding'
    BY ZenonT(60), <1>0, <1>1, <1>4, <1>8, <2>1, IdleType DEF Phases, Chains, Parsing, Lookups, Finding
  <2>3. \A d \in Slots : OwnEntry(d)'
    BY ZenonT(60), <1>0, <1>1, <1>8 DEF OwnIds, OwnEntry, Filled, Alone
  <2>4. OwnThread(at[t]) /\ Filled(e)
    BY ZenonT(60), <1>0, <1>1, <1>8 DEF OwnIds, OwnThread, e
  <2>5. \A i \in 0 .. TableSize - 1 : (buckets[i] # NULL => Filled(buckets[i]))'
    BY ZenonT(60), <1>0, <1>1, <1>5, <1>8, <2>4 DEF OwnIds, Filled
  <2>6. OwnThread(at[t])'
    BY ZenonT(60), <1>3, <1>4, <2>4 DEF OwnThread, Writing, Reading
  <2>7. ASSUME NEW u \in Users, u # t PROVE OwnThread(at[u])'
    <3>1. OwnThread(at[u]) /\ at'[u] = at[u]
      BY ZenonT(60), <1>0, <1>4, <1>8, <2>7 DEF OwnIds
    <3> QED
      BY ZenonT(60), <1>1, <3>1 DEF OwnThread, Filled, Alone
  <2>8. Apart'
    BY ZenonT(60), <1>0, <1>3, <1>4, <1>8 DEF OwnIds, Apart, Writing
  <2> QED
    BY ZenonT(60), <1>1, <1>6, <1>7, <1>8, <2>2, <2>3, <2>5, <2>6, <2>7, <2>8 DEF IInv, OwnIds
<1>9. ASSUME ~FullMode PROVE IInv'
  <2>1. /\ t = Parser /\ Done = Len(parsed) - 1 /\ Len(parsed) \in Nat \ {0} /\ parsed # <<>>
        /\ AddsLine(Len(parsed)) /\ Len(contexts) = Len(parsed) /\ first_free = Done + 2 /\ Lists(Done)
        /\ \A m \in DOMAIN contexts : contexts[m] = parsed[m].index % IdRange
        /\ \A u \in Threads : at[u].pc = "idle" /\ u \in Users /\ u # t
    BY ZenonT(60), <1>1, <1>2, <1>9, ParserAdds
  <2>2. ~Adding' /\ Done' = Len(parsed)
    BY ZenonT(60), <1>1, <1>3, <1>4, <2>1 DEF Adding, Done, Writing
  <2>3. \A u \in Threads : at'[u].pc = "idle"
    BY ZenonT(60), <1>4, <2>1
  <2>4. /\ b = hash_to_index(KeyOf(Len(parsed))) /\ e = Len(parsed)
        /\ entry[e].hash = KeyOf(Len(parsed)) /\ entry[e].literal = Len(parsed)
        /\ IsLast(entry[e].next, b, Len(parsed) - 1)
        /\ at[t].key = KeyOf(Len(parsed)) /\ at[t].index = parsed[Len(parsed)].index % IdRange
    BY ZenonT(60), <1>1, <2>1 DEF AddsLine, e, b
  <2>5. Chains'
    <3>1. ASSUME NEW m \in 1 .. Len(parsed)
          PROVE  /\ entry[m].hash = KeyOf(m) /\ entry[m].literal = m
                 /\ IsLast(entry[m].next, hash_to_index(KeyOf(m)), m - 1)
      <4>1. CASE m = Len(parsed)
        BY ZenonT(60), <2>4, <4>1
      <4>2. CASE m # Len(parsed)
        BY <2>1, <4>2 DEF Lists
      <4> QED
        BY ZenonT(60), <4>1, <4>2
    <3>2. ASSUME NEW i \in 0 .. TableSize - 1 PROVE IsLast(buckets'[i], i, Len(parsed))
      <4>1. CASE i = b
        BY <1>5, <2>1, <2>4, <4>1 DEF IsLast
      <4>2. CASE i # b
        <5>1. IsLast(buckets[i], i, Len(parsed) - 1)
          BY ZenonT(60), <2>1 DEF Lists
        <5> QED
          BY <1>5, <2>1, <2>4, <4>2, <5>1 DEF IsLast
      <4> QED
        BY ZenonT(60), <4>1, <4>2
    <3>3. Lists(Done)'
      BY ZenonT(60), <1>1, <2>2, <3>1, <3>2 DEF Lists, IsLast, KeyOf
    <3>4. Len(parsed) <= MaxEntries /\ at'[Parser].pc = "bucket"
      BY <1>2, <1>3, <1>4, <2>1, <2>4, HashtableAssumption DEF Slots
    <3> QED
      BY <1>1, <2>1, <2>2, <3>3, <3>4 DEF Chains, Writing
  <2>6. Parsing' /\ OwnIds'
    BY ZenonT(60), <1>1, <1>9, <2>2 DEF Parsing, OwnIds
  <2>7. Phases'
    BY ZenonT(60), <1>1, <1>3, <1>4, <1>9, <2>1, <2>3 DEF Phases, Reading
  <2>8. Lookups'
    BY ZenonT(60), <1>1, <1>4, <1>9, <2>1, <2>3 DEF Lookups, Lookup, Reading
  <2>9. Finding'
    BY ZenonT(60), <1>1, <1>3, <1>4, <2>1, <2>4 DEF Finding, Finds, KeyOf, Reading
  <2> QED
    BY ZenonT(60), <1>6, <1>7, <2>5, <2>6, <2>7, <2>8, <2>9 DEF IInv
<1> QED
  BY ZenonT(60), <1>0, <1>8, <1>9 DEF Types

-----------------------------------------------------------------------------
(* The steps that leave the table alone. *)

\* A step that only moves one thread, which adds no entry.
LEMMA QuietStep ==
  ASSUME IInv, NEW t \in Users, NEW x \in Thread,
         at' = [at EXCEPT ![t] = x], file' \in Seq(Line),
         UNCHANGED <<buckets, entry, first_free, FullMode, contexts, taken, parsed>>,
         at[t].pc \notin {"add"} \cup Writing, x.pc \notin Writing, x.pc = "add" => t # Parser,
         x.pc \in Reading => x.entry \in Slots,
         x.context \in 0 .. Len(contexts), FullMode => OwnThread(x)
  PROVE  /\ Types' /\ Bounds' /\ OwnIds' /\ Chains' /\ Parsing'
         /\ at'[t] = x /\ \A u \in Users : u # t => at'[u] = at[u]
<1>0. Types /\ Bounds /\ OwnIds /\ Chains /\ Parsing
  BY ZenonT(60) DEF IInv
<1>1. /\ at' \in [Users -> Thread] /\ at'[t] = x
      /\ \A u \in Users : u # t => at'[u] = at[u]
  BY ZenonT(60), <1>0, AtStep
<1>2. Types'
  BY ZenonT(60), <1>0, <1>1 DEF Types
<1>3. Bounds'
  BY ZenonT(60), <1>0, <1>1 DEF Bounds
<1>4. OwnIds'
  <2>1. CASE FullMode
    BY ZenonT(60), <1>0, <1>1, <2>1, OwnMove
  <2>2. CASE ~FullMode
    BY ZenonT(60), <2>2 DEF OwnIds
  <2> QED
    BY ZenonT(60), <2>1, <2>2
<1>5. Adding' = Adding /\ Done' = Done /\ (Adding => t # Parser)
  BY <1>1, IdleType DEF Adding, Done
<1>6. Chains'
  <2>1. SUFFICES ASSUME ~FullMode PROVE Chains'
    BY ZenonT(60) DEF Chains
  <2>2. Lists(Done)'
    <3>1. Lists(Done) /\ Done \in Nat
      BY <1>0, <2>1 DEF Chains, Types, Done
    <3> QED
      BY ZenonT(60), <1>5, <3>1, ListsKept
  <2>3. /\ at'[Parser].pc = "add" <=> at[Parser].pc = "add"
        /\ at'[Parser].pc \in Writing \ {"take"} <=> at[Parser].pc \in Writing \ {"take"}
    BY ZenonT(60), <1>1, IdleType
  <2> QED
    BY ZenonT(60), <1>0, <1>5, <2>1, <2>2, <2>3 DEF Chains
<1>7. Parsing'
  <2>1. SUFFICES ASSUME ~FullMode, Adding PROVE AddsLine(Len(parsed))'
    BY ZenonT(60), <1>5 DEF Parsing
  <2>2. at'[Parser] = at[Parser] /\ AddsLine(Len(parsed))
    BY ZenonT(60), <1>0, <1>1, <1>5, <2>1, IdleType DEF Parsing
  <2> QED
    BY ZenonT(60), <2>2 DEF AddsLine, KeyOf, IsLast
<1> QED
  BY ZenonT(60), <1>1, <1>2, <1>3, <1>4, <1>6, <1>7

\* A step of one thread keeps what is known of the lookups of the others.
LEMMA ReadersStep ==
  ASSUME IInv, NEW t \in Users, NEW x, at'[t] = x, \A u \in Users : u # t => at'[u] = at[u],
         UNCHANGED <<FullMode, parsed, entry>>,
         ~FullMode /\ t \in Threads => Lookup(x),
         ~FullMode /\ t = Parser => Finds(x)
  PROVE  Lookups' /\ Finding'
<1>1. ASSUME ~FullMode, NEW u \in Threads PROVE Lookup(at'[u])
  BY ZenonT(60), <1>1, IdleType DEF IInv, Lookups
<1>2. Lookups'
  BY ZenonT(60), <1>1 DEF Lookups, Lookup, PastLines, KeyOf
<1>3. ~FullMode => Finds(at'[Parser])
  BY ZenonT(60), IdleType DEF IInv, Finding
<1>4. Finding'
  BY ZenonT(60), <1>3 DEF Finding, Finds, KeyOf
<1> QED
  BY ZenonT(60), <1>2, <1>4

\* A thread that is idle knows nothing.
LEMMA IdleKnows ==
  /\ Idle \in Thread /\ Idle.pc = "idle" /\ Idle.context = NULL /\ OwnThread(Idle) /\ Lookup(Idle)
  /\ Finds(Idle) /\ \A n \in Nat : NULL \in 0 .. n
<1>1. 0 % IdRange = 0
  BY StaticAnalysisAssumption
<1> QED
  BY <1>1, IdleType DEF Idle, OwnThread, Lookup, Finds, Writing, Reading

\* The parser is done with a line.
LEMMA CheckedStep ==
  ASSUME IInv, Checked
  PROVE  IInv'
<1>1. /\ at[Parser].pc = "check" /\ at' = [at EXCEPT ![Parser] = Idle]
      /\ UNCHANGED <<buckets, entry, first_free, FullMode, file, contexts, taken, parsed>>
  BY ZenonT(60) DEF Checked, table
<1>2. file' \in Seq(Line) /\ NULL \in 0 .. Len(contexts) /\ Parser \in Users
  BY <1>1, IdleKnows, IdleType DEF IInv, Types
<1>3. /\ Types' /\ Bounds' /\ OwnIds' /\ Chains' /\ Parsing'
      /\ at'[Parser] = Idle /\ \A u \in Users : u # Parser => at'[u] = at[u]
  BY ZenonT(60), <1>1, <1>2, IdleKnows, QuietStep DEF Writing, Reading
<1>4. ~FullMode /\ \A u \in Threads : at[u].pc = "idle" /\ at'[u] = at[u]
  BY ZenonT(60), <1>1, <1>3, IdleType, StaticAnalysisAssumption DEF IInv, Phases
<1>5. Phases'
  BY ZenonT(60), <1>1, <1>3, <1>4, IdleKnows DEF IInv, Phases
<1>6. Lookups' /\ Finding'
  BY ZenonT(60), <1>1, <1>2, <1>3, IdleKnows, ReadersStep
<1> QED
  BY ZenonT(60), <1>3, <1>5, <1>6 DEF IInv

\* A call of get_alloc_index returns.
LEMMA ReturnStep ==
  ASSUME IInv, NEW t \in Threads, Return(t)
  PROVE  IInv'
<1>1. /\ at[t].pc = "return" /\ at' = [at EXCEPT ![t] = Idle]
      /\ UNCHANGED <<buckets, entry, first_free, FullMode, file, contexts, taken, parsed>>
  BY ZenonT(60) DEF Return, table
<1>2. file' \in Seq(Line) /\ NULL \in 0 .. Len(contexts) /\ t \in Users
  BY <1>1, IdleKnows, IdleType DEF IInv, Types
<1>3. /\ Types' /\ Bounds' /\ OwnIds' /\ Chains' /\ Parsing'
      /\ at'[t] = Idle /\ \A u \in Users : u # t => at'[u] = at[u]
  BY ZenonT(60), <1>1, <1>2, IdleKnows, QuietStep DEF Writing, Reading
<1>4. at'[Parser] = at[Parser]
  BY ZenonT(60), <1>3, IdleType, StaticAnalysisAssumption
<1>5. Phases'
  BY ZenonT(60), <1>1, <1>3, <1>4, IdleKnows, IdleType DEF IInv, Phases
<1>6. Lookups' /\ Finding'
  BY ZenonT(60), <1>1, <1>2, <1>3, IdleKnows, ReadersStep
<1> QED
  BY ZenonT(60), <1>3, <1>5, <1>6 DEF IInv

\* A call of get_alloc_index begins.
LEMMA CallStep ==
  ASSUME IInv, NEW t \in Threads, get_alloc_context(t)
  PROVE  IInv'
<1>1. PICK s \in Sites :
        at' = [at EXCEPT ![t] = [Idle EXCEPT
                 !.pc = IF FullMode /\ s \in JavaSites THEN "return" ELSE "bucket",
                 !.key = Key[s], !.index = Key[s] % IdRange]]
  BY ZenonT(60) DEF get_alloc_context
<1> DEFINE x == [Idle EXCEPT !.pc = IF FullMode /\ s \in JavaSites THEN "return" ELSE "bucket",
                             !.key = Key[s], !.index = Key[s] % IdRange]
<1>2. /\ file = <<>> /\ at[Parser].pc = "idle" /\ at[t].pc = "idle"
      /\ UNCHANGED <<buckets, entry, first_free, FullMode, file, contexts, taken, parsed>>
  BY ZenonT(60) DEF get_alloc_context, table
<1>3. /\ x.pc \in {"return", "bucket"} /\ (~FullMode => x.pc = "bucket")
      /\ x.key = Key[s] /\ x.index = Key[s] % IdRange /\ x.context = NULL
  BY ZenonT(60) DEF Idle
<1>4. Key[s] \in Nat /\ Key[s] % IdRange \in 0 .. IdRange - 1 /\ t \in Users /\ t # Parser
  BY IdleType, StaticAnalysisAssumption
<1>5. x \in Thread
  BY ZenonT(60), <1>4, IdleType DEF Thread, Idle
<1> HIDE DEF x
<1>6. NULL \in 0 .. Len(contexts) /\ file' \in Seq(Line)
  BY <1>2, IdleKnows DEF IInv, Types
<1>7. OwnThread(x) /\ (~FullMode => Lookup(x))
  BY ZenonT(60), <1>3 DEF OwnThread, Lookup, Writing, Reading
<1>8. /\ Types' /\ Bounds' /\ OwnIds' /\ Chains' /\ Parsing'
      /\ at'[t] = x /\ \A u \in Users : u # t => at'[u] = at[u]
  <2>1. at' = [at EXCEPT ![t] = x]
    BY ZenonT(60), <1>1 DEF x
  <2>2. at[t].pc \notin {"add"} \cup Writing /\ x.pc \notin {"add"} \cup Writing \cup Reading
    BY ZenonT(60), <1>2, <1>3 DEF Writing, Reading
  <2> QED
    BY ZenonT(60), <1>2, <1>3, <1>4, <1>5, <1>6, <1>7, <2>1, <2>2, QuietStep
<1>9. at'[Parser] = at[Parser]
  BY ZenonT(60), <1>4, <1>8, IdleType
<1>10. Phases'
  BY ZenonT(60), <1>2, <1>3, <1>8, <1>9, IdleType DEF IInv, Phases
<1>11. Lookups' /\ Finding'
  BY ZenonT(60), <1>2, <1>4, <1>7, <1>8, ReadersStep
<1> QED
  BY ZenonT(60), <1>8, <1>10, <1>11 DEF IInv

-----------------------------------------------------------------------------
(* Lookups. *)

\* A step of get_value.
LEMMA LookupStep ==
  ASSUME IInv, NEW t \in Users, at[t].pc \in {"bucket"} \cup Reading, NEW x \in Thread,
         at' = [at EXCEPT ![t] = x], UNCHANGED <<table, FullMode, file, contexts, taken, parsed>>,
         x.pc \in {"check", "add", "null", "return"} \cup Reading,
         x.pc \in Reading => x.entry \in Slots, x.context \in 0 .. Len(contexts),
         FullMode => OwnThread(x),
         ~FullMode /\ t \in Threads => Lookup(x) /\ x.pc \in {"return"} \cup Reading,
         ~FullMode /\ t = Parser => Finds(x) /\ x.pc \in {"check"} \cup Reading
  PROVE  IInv'
<1>0. Phases /\ UNCHANGED <<buckets, entry, first_free>> /\ file' \in Seq(Line)
  BY ZenonT(60) DEF IInv, table, Types
<1>1. /\ FullMode => t # Parser
      /\ ~FullMode => IF t = Parser THEN \A u \in Threads : at[u].pc = "idle" ELSE t \in Threads
  BY ZenonT(60) DEF IInv, Phases, Users, Reading
<1>2. /\ at[t].pc \notin {"add"} \cup Writing /\ x.pc \notin Writing /\ (x.pc = "add" => t # Parser)
      /\ at[t].pc # "idle"
  BY ZenonT(60), <1>1 DEF Writing, Reading
<1>3. /\ Types' /\ Bounds' /\ OwnIds' /\ Chains' /\ Parsing'
      /\ at'[t] = x /\ \A u \in Users : u # t => at'[u] = at[u]
  BY ZenonT(60), <1>0, <1>2, QuietStep
<1>4. Phases'
  <2>1. CASE t = Parser
    <3>1. ~FullMode /\ x.pc \notin {"return", "idle"} /\ \A u \in Threads : at'[u] = at[u]
      BY ZenonT(60), <1>1, <1>3, <2>1, IdleType, StaticAnalysisAssumption DEF Reading
    <3> QED
      BY ZenonT(60), <1>0, <1>1, <1>3, <2>1, <3>1 DEF Phases
  <2>2. CASE t # Parser
    <3>1. at'[Parser] = at[Parser] /\ t \in Threads
      BY ZenonT(60), <1>3, <2>2, IdleType DEF Users
    <3>2. at[Parser].pc = "idle" /\ file = <<>>
      BY ZenonT(60), <1>0, <1>2, <3>1 DEF Phases
    <3> QED
      BY ZenonT(60), <1>0, <1>3, <3>1, <3>2, IdleType DEF Phases
  <2> QED
    BY ZenonT(60), <2>1, <2>2
<1>5. Lookups' /\ Finding'
  BY ZenonT(60), <1>0, <1>3, ReadersStep
<1> QED
  BY ZenonT(60), <1>3, <1>4, <1>5 DEF IInv

\* While compiler threads run, the table has an entry for every line.
LEMMA ParsingOver ==
  ASSUME IInv, ~FullMode, NEW t \in Threads, at[t].pc # "idle"
  PROVE  /\ Lists(Len(parsed)) /\ Len(contexts) = Len(parsed) /\ Len(parsed) \in Nat
         /\ at[Parser].pc = "idle" /\ file = <<>>
<1>1. at[Parser].pc = "idle" /\ file = <<>>
  BY ZenonT(60) DEF IInv, Phases
<1>2. ~Adding /\ Done = Len(parsed)
  BY ZenonT(60), <1>1 DEF Adding, Done, Writing
<1> QED
  BY <1>1, <1>2 DEF IInv, Types, Chains

\* The entry that a compiler thread looks at is that of a line.
LEMMA ReadsLine ==
  ASSUME IInv, ~FullMode, NEW t \in Threads, at[t].pc \in Reading
  PROVE  /\ PastLines(at[t].key, at[t].entry) /\ Len(parsed) \in Nat
         /\ at[t].entry \in 1 .. Len(parsed) /\ Lookup(at[t])
         /\ entry[at[t].entry].hash = KeyOf(at[t].entry) /\ entry[at[t].entry].literal = at[t].entry
         /\ IsLast(entry[at[t].entry].next, hash_to_index(at[t].key), at[t].entry - 1)
<1>1. Lists(Len(parsed)) /\ Len(parsed) \in Nat
  BY ZenonT(60), ParsingOver DEF Reading
<1>2. Lookup(at[t])
  BY ZenonT(60) DEF IInv, Lookups
<1>3. /\ at[t].entry # NULL /\ PastLines(at[t].key, at[t].entry)
      /\ hash_to_index(KeyOf(at[t].entry)) = hash_to_index(at[t].key)
  BY ZenonT(60), <1>2 DEF Lookup
<1>4. at[t].entry \in 1 .. Len(parsed)
  BY <1>1, <1>3, IdleType DEF PastLines
<1> QED
  BY ZenonT(60), <1>1, <1>2, <1>3, <1>4 DEF Lists

\* The parser's lookup after it has added an entry.
LEMMA ParserReads ==
  ASSUME IInv, ~FullMode, at[Parser].pc \in {"bucket"} \cup Reading
  PROVE  /\ Finds(at[Parser]) /\ Len(parsed) \in Nat \ {0} /\ Lists(Len(parsed))
         /\ at[Parser].key = KeyOf(Len(parsed)) /\ entry[Len(parsed)].hash = KeyOf(Len(parsed))
         /\ entry[Len(parsed)].literal = Len(parsed) /\ at[Parser].pc # "advance"
         /\ at[Parser].pc \in Reading => at[Parser].entry = Len(parsed)
<1>1. ~Adding /\ Done = Len(parsed)
  BY ZenonT(60) DEF Adding, Done, Writing, Reading
<1>2. /\ Finds(at[Parser]) /\ parsed # <<>> /\ at[Parser].key = KeyOf(Len(parsed))
      /\ at[Parser].pc # "advance" /\ (at[Parser].pc \in Reading => at[Parser].entry = Len(parsed))
  BY ZenonT(60) DEF IInv, Finding, Finds
<1>3. Len(parsed) \in Nat \ {0} /\ Lists(Len(parsed))
  BY <1>1, <1>2 DEF IInv, Types, Chains
<1> QED
  BY <1>2, <1>3 DEF Lists

\* A lookup that ends with ci.
LEMMA GotStep ==
  ASSUME IInv, NEW t \in Users, at[t].pc \in {"bucket"} \cup Reading,
         NEW ci \in 0 .. Len(contexts), Got(t, ci),
         UNCHANGED <<table, FullMode, file, contexts, taken, parsed>>,
         FullMode /\ ci # NULL => (Alone(ci) => contexts[ci] = at[t].key % IdRange),
         ~FullMode /\ t \in Threads =>
           PastLines(at[t].key, ci) /\ (ci # NULL => KeyOf(ci) = at[t].key),
         ~FullMode /\ t = Parser => ci = Len(parsed)
  PROVE  IInv'
<1> DEFINE p == CASE t = Parser -> "check"
                  [] FullMode /\ ci = NULL /\ ~at[t].added -> "add"
                  [] FullMode /\ ci = NULL /\ at[t].added -> "null"
                  [] OTHER -> "return"
           x == [at[t] EXCEPT !.context = ci, !.entry = NULL, !.pc = p]
<1>0. Types /\ OwnIds /\ Phases
  BY ZenonT(60) DEF IInv
<1>a. at' = [at EXCEPT ![t].context = ci, ![t].entry = NULL, ![t].pc = p]
  BY ZenonT(60) DEF Got
<1>b. at[t].added \in BOOLEAN
  BY ZenonT(60), <1>0 DEF Types, Thread
<1>c. t = Parser => ~FullMode
  BY ZenonT(60), <1>0 DEF Phases, Reading
<1>2. /\ p \in {"check", "add", "null", "return"} /\ (t = Parser <=> p = "check")
      /\ ~FullMode /\ t # Parser => p = "return"
  <2>1. CASE t = Parser
    <3>1. p = "check"
      BY ZenonT(60), <1>c, <2>1
    <3> QED
      BY ZenonT(60), <2>1, <3>1
  <2>2. CASE t # Parser /\ FullMode /\ ci = NULL /\ ~at[t].added
    <3>1. p = "add"
      BY ZenonT(60), <2>2
    <3> QED
      BY ZenonT(60), <2>2, <3>1
  <2>3. CASE t # Parser /\ FullMode /\ ci = NULL /\ at[t].added
    <3>1. p = "null"
      BY ZenonT(60), <2>3
    <3> QED
      BY ZenonT(60), <2>3, <3>1
  <2>4. CASE t # Parser /\ ~(FullMode /\ ci = NULL)
    <3>1. p = "return"
      BY ZenonT(60), <2>4
    <3> QED
      BY ZenonT(60), <2>4, <3>1
  <2> QED
    BY ZenonT(60), <1>b, <2>1, <2>2, <2>3, <2>4
<1> HIDE DEF p
<1>1. at' = [at EXCEPT ![t] = x]
  BY ZenonT(60), <1>0, <1>a DEF Types
<1>3. at[t] \in Thread /\ ci \in Nat
  BY <1>0 DEF Types
<1>4. /\ x \in Thread /\ x.pc = p /\ x.context = ci
      /\ x.key = at[t].key /\ x.index = at[t].index
  BY ZenonT(60), <1>2, <1>3 DEF Thread
<1> HIDE DEF x
<1>5. FullMode => OwnThread(x)
  <2>1. FullMode => x.index = x.key % IdRange
    BY ZenonT(60), <1>0, <1>4 DEF OwnIds, OwnThread
  <2> QED
    BY ZenonT(60), <1>2, <1>4, <2>1 DEF OwnThread, Writing, Reading
<1>6. ~FullMode /\ t \in Threads => Lookup(x) /\ x.pc = "return"
  BY ZenonT(60), <1>2, <1>4, StaticAnalysisAssumption DEF Lookup, Reading
<1>7. ~FullMode /\ t = Parser => Finds(x) /\ x.pc = "check"
  <2>1. SUFFICES ASSUME ~FullMode, t = Parser PROVE Finds(x) /\ x.pc = "check"
    BY ZenonT(60)
  <2>2. Finds(at[t])
    BY ZenonT(60), <2>1, ParserReads
  <2> QED
    BY ZenonT(60), <1>2, <1>4, <2>1, <2>2 DEF Finds, Reading
<1>8. x.pc \notin Reading /\ x.pc \in {"check", "add", "null", "return"}
  BY ZenonT(60), <1>2, <1>4 DEF Reading
<1> QED
  BY ZenonT(60), <1>1, <1>4, <1>5, <1>6, <1>7, <1>8, LookupStep

\* get_value loads the head of the bucket.
LEMMA GetValueStep ==
  ASSUME IInv, NEW t \in Users, get_value(t)
  PROVE  IInv'
<1> DEFINE b == hash_to_index(at[t].key)
           x == [at[t] EXCEPT !.entry = buckets[b], !.pc = "walk"]
<1>0. Types /\ Bounds /\ OwnIds
  BY DEF IInv
<1>1. /\ at[t].pc = "bucket"
      /\ IF buckets[b] = NULL THEN Got(t, NULL) ELSE at' = [at EXCEPT ![t] = x]
      /\ UNCHANGED <<table, FullMode, file, contexts, taken, parsed>>
  BY ZenonT(60), <1>0 DEF get_value, bucket, Types
<1>2. /\ at[t] \in Thread /\ b \in 0 .. TableSize - 1 /\ buckets[b] \in Slots \cup {NULL}
      /\ NULL \in 0 .. Len(contexts) /\ at[t].context \in 0 .. Len(contexts)
  <2>1. at[t] \in Thread /\ at[t].key \in Nat /\ at[t].context \in 0 .. Len(contexts)
    BY ZenonT(60), <1>0 DEF Types, Thread, Bounds
  <2>2. buckets \in [0 .. TableSize - 1 -> Slots \cup {NULL}] /\ Len(contexts) \in Nat
    BY <1>0 DEF Types
  <2>3. NULL \in 0 .. Len(contexts)
    BY <2>2, IdleType
  <2> QED
    BY ZenonT(60), <2>1, <2>2, <2>3, BucketRange
<1>3. ASSUME ~FullMode, t \in Threads
      PROVE  IsLast(buckets[b], b, Len(parsed)) /\ Len(parsed) \in Nat
  BY ZenonT(60), <1>1, <1>2, <1>3, ParsingOver DEF Lists
<1>4. ASSUME ~FullMode, t = Parser
      PROVE  Finds(at[t]) /\ buckets[b] = Len(parsed) /\ Len(parsed) \in Nat \ {0}
  <2>1. /\ Finds(at[t]) /\ Len(parsed) \in Nat \ {0} /\ Lists(Len(parsed))
        /\ at[t].key = KeyOf(Len(parsed))
    BY ZenonT(60), <1>1, <1>4, ParserReads
  <2>2. IsLast(buckets[b], b, Len(parsed))
    BY ZenonT(60), <1>2, <2>1 DEF Lists
  <2> QED
    BY <2>1, <2>2 DEF IsLast
<1>5. /\ x \in Thread /\ x.pc = "walk" /\ x.entry = buckets[b] /\ x.context = at[t].context
      /\ x.key = at[t].key /\ x.index = at[t].index
  BY ZenonT(60), <1>2 DEF Thread, Reading
<1> HIDE DEF x, b
<1>6. CASE buckets[b] = NULL
  <2>1. ASSUME ~FullMode, t \in Threads PROVE PastLines(at[t].key, NULL)
    BY ZenonT(60), <1>3, <1>6, <2>1 DEF PastLines, IsLast, b
  <2> QED
    BY ZenonT(60), <1>1, <1>2, <1>4, <1>6, <2>1, IdleType, GotStep
<1>7. CASE buckets[b] # NULL
  <2>1. x.entry \in Slots /\ x.pc \in Reading
    BY ZenonT(60), <1>2, <1>5, <1>7 DEF Reading
  <2>2. ASSUME FullMode PROVE OwnThread(x)
    <3>1. OwnThread(at[t]) /\ Filled(x.entry)
      BY ZenonT(60), <1>0, <1>2, <1>5, <1>7, <2>2 DEF OwnIds
    <3> QED
      BY ZenonT(60), <1>5, <3>1 DEF OwnThread, Writing, Reading
  <2>3. ASSUME ~FullMode, t \in Threads PROVE Lookup(x)
    BY ZenonT(60), <1>3, <1>5, <1>7, <2>3 DEF Lookup, PastLines, IsLast, b
  <2>4. ASSUME ~FullMode, t = Parser PROVE Finds(x)
    BY ZenonT(60), <1>1, <1>4, <1>5, <2>4 DEF Finds, Reading
  <2> QED
    BY ZenonT(60), <1>1, <1>2, <1>5, <1>7, <2>1, <2>2, <2>3, <2>4, LookupStep
<1> QED
  BY ZenonT(60), <1>6, <1>7

\* A step of the loop that stays at an entry.
LEMMA LoopStep ==
  ASSUME IInv, NEW t \in Users, at[t].pc \in {"walk", "compare"},
         NEW p \in {"compare", "found", "advance"}, Goto(t, p),
         UNCHANGED <<table, FullMode, file, contexts, taken, parsed>>,
         ~FullMode /\ p \in {"compare", "advance"} => entry[at[t].entry].next # NULL,
         p = "advance" => entry[at[t].entry].hash # at[t].key,
         p = "found" => entry[at[t].entry].hash = at[t].key \/ entry[at[t].entry].next = NULL
  PROVE  IInv'
<1> DEFINE e == at[t].entry
           x == [at[t] EXCEPT !.pc = p]
<1>0. Types /\ Bounds /\ OwnIds
  BY ZenonT(60) DEF IInv
<1>1. at' = [at EXCEPT ![t] = x]
  BY ZenonT(60), <1>0 DEF Goto, Types
<1>3. at[t] \in Thread /\ e \in Slots /\ at[t].context \in 0 .. Len(contexts) /\ at[t].pc \in Reading
  BY ZenonT(60), <1>0, <1>1 DEF Types, Bounds, Reading
<1>4. /\ x \in Thread /\ x.pc = p /\ x.entry = e /\ x.context = at[t].context
      /\ x.key = at[t].key /\ x.index = at[t].index
  BY ZenonT(60), <1>3 DEF Thread, Reading
<1> HIDE DEF x
<1>5. x.pc \in Reading
  BY ZenonT(60), <1>4 DEF Reading
<1>6. ASSUME FullMode PROVE OwnThread(x)
  <2>1. OwnThread(at[t])
    BY ZenonT(60), <1>0, <1>6 DEF OwnIds
  <2> QED
    BY ZenonT(60), <1>3, <1>4, <2>1 DEF OwnThread, Writing, Reading
<1>7. ASSUME ~FullMode, t \in Threads PROVE Lookup(x)
  <2>1. Lookup(at[t]) /\ entry[e].hash = KeyOf(e)
    BY ZenonT(60), <1>3, <1>7, ReadsLine
  <2> QED
    BY ZenonT(60), <1>3, <1>4, <1>5, <1>7, <2>1 DEF Lookup
<1>8. ASSUME ~FullMode, t = Parser PROVE Finds(x)
  <2>1. Finds(at[t]) /\ entry[e].hash = at[t].key
    BY ZenonT(60), <1>3, <1>8, ParserReads
  <2> QED
    BY ZenonT(60), <1>3, <1>4, <2>1 DEF Finds
<1> QED
  BY ZenonT(60), <1>1, <1>3, <1>4, <1>5, <1>6, <1>7, <1>8, LookupStep

\* It tests the condition of the loop.
LEMMA WalkStep ==
  ASSUME IInv, NEW t \in Users, Walk(t)
  PROVE  IInv'
<1>1. CASE entry[at[t].entry].next = NULL
  BY ZenonT(60), <1>1, LoopStep DEF Walk
<1>2. CASE entry[at[t].entry].next # NULL
  BY ZenonT(60), <1>2, LoopStep DEF Walk
<1> QED
  BY ZenonT(60), <1>1, <1>2

\* With a file, the link it has seen is still there when it compares the keys.
LEMMA CompareStep ==
  ASSUME IInv, NEW t \in Users, Compare(t)
  PROVE  IInv'
<1>1. CASE entry[at[t].entry].hash = at[t].key
  BY ZenonT(60), <1>1, LoopStep DEF Compare
<1>2. CASE entry[at[t].entry].hash # at[t].key
  <2>1. ~FullMode => entry[at[t].entry].next # NULL
    <3>1. ASSUME ~FullMode, t \in Threads PROVE entry[at[t].entry].next # NULL
      BY ZenonT(60), <3>1 DEF IInv, Lookups, Lookup, Compare
    <3>2. ASSUME ~FullMode PROVE t # Parser
      BY ZenonT(60), <1>2, <3>2, ParserReads DEF Compare, Reading
    <3> QED
      BY ZenonT(60), <3>1, <3>2 DEF Users
  <2> QED
    BY ZenonT(60), <1>2, <2>1, LoopStep DEF Compare
<1> QED
  BY ZenonT(60), <1>1, <1>2

\* It goes on to the next entry.
LEMMA AdvanceStep ==
  ASSUME IInv, NEW t \in Users, Advance(t)
  PROVE  IInv'
<1> DEFINE e == at[t].entry
           k == at[t].key
           p == IF entry[e].next = NULL THEN "null" ELSE "walk"
           x == [at[t] EXCEPT !.entry = entry[e].next, !.pc = p]
<1>0. Types /\ Bounds /\ OwnIds
  BY DEF IInv
<1>1. /\ at[t].pc = "advance" /\ at' = [at EXCEPT ![t] = x]
      /\ UNCHANGED <<table, FullMode, file, contexts, taken, parsed>>
  BY ZenonT(60), <1>0 DEF Advance, Types
<1>2. /\ p \in {"null", "walk"} /\ (p = "walk" => entry[e].next # NULL)
      /\ entry[e].next # NULL => p = "walk"
  BY ZenonT(60)
<1> HIDE DEF p
<1>3. /\ at[t] \in Thread /\ e \in Slots /\ at[t].context \in 0 .. Len(contexts) /\ at[t].pc \in Reading
  BY ZenonT(60), <1>0, <1>1 DEF Types, Bounds, Reading
<1>4. entry[e].next \in Slots \cup {NULL}
  BY ZenonT(60), <1>0, <1>3 DEF Types, Entry
<1>5. /\ x \in Thread /\ x.pc = p /\ x.entry = entry[e].next /\ x.context = at[t].context
      /\ x.key = k /\ x.index = at[t].index
  BY ZenonT(60), <1>2, <1>3, <1>4 DEF Thread, Reading
<1> HIDE DEF x
<1>6. x.pc \in {"null"} \cup Reading /\ (x.pc \in Reading => x.entry \in Slots)
  BY ZenonT(60), <1>2, <1>4, <1>5 DEF Reading
<1>7. ASSUME FullMode PROVE OwnThread(x)
  <2>1. OwnThread(at[t]) /\ OwnEntry(e)
    BY ZenonT(60), <1>0, <1>3, <1>7 DEF OwnIds
  <2>2. x.pc = "walk" => Filled(x.entry)
    BY ZenonT(60), <1>2, <1>5, <2>1 DEF OwnEntry
  <2> QED
    BY ZenonT(60), <1>2, <1>5, <2>1, <2>2 DEF OwnThread, Writing, Reading
<1>8. ASSUME ~FullMode, t \in Threads PROVE Lookup(x) /\ x.pc = "walk"
  <2>1. /\ PastLines(k, e) /\ Len(parsed) \in Nat /\ e \in 1 .. Len(parsed) /\ Lookup(at[t])
        /\ IsLast(entry[e].next, hash_to_index(k), e - 1)
    BY ZenonT(60), <1>3, <1>8, ReadsLine
  <2>2. KeyOf(e) # k /\ entry[e].next # NULL
    BY ZenonT(60), <1>1, <2>1 DEF Lookup
  <2> HIDE DEF e, k
  <2>3. ASSUME NEW m \in x.entry + 1 .. Len(parsed) PROVE KeyOf(m) # k
    <3>1. CASE m > e
      BY <2>1, <3>1 DEF PastLines
    <3>2. CASE m = e
      BY ZenonT(60), <2>2, <3>2
    <3>3. CASE m < e
      BY <1>5, <2>1, <2>3, <3>3 DEF IsLast
    <3> QED
      BY <1>5, <2>1, <3>1, <3>2, <3>3 DEF IsLast
  <2>4. x.entry \in 0 .. Len(parsed) /\ hash_to_index(KeyOf(x.entry)) = hash_to_index(k)
    BY <1>5, <2>1, <2>2 DEF IsLast
  <2>5. x.pc = "walk"
    BY ZenonT(60), <1>2, <1>5, <2>2
  <2> QED
    BY ZenonT(60), <1>5, <2>2, <2>3, <2>4, <2>5 DEF Lookup, PastLines
<1>9. t = Parser => FullMode
  BY ZenonT(60), <1>1, <1>3, ParserReads
<1>10. x.pc = "walk" => x.pc \in {"return"} \cup Reading
  BY ZenonT(60) DEF Reading
<1> QED
  BY ZenonT(60), <1>1, <1>3, <1>5, <1>6, <1>7, <1>8, <1>9, <1>10, LookupStep

\* The test after the loop.
LEMMA FoundStep ==
  ASSUME IInv, NEW t \in Users, Found(t)
  PROVE  IInv'
<1> DEFINE e == at[t].entry
           k == at[t].key
           x == [at[t] EXCEPT !.pc = "literal"]
<1>0. Types /\ Bounds /\ OwnIds
  BY DEF IInv
<1>1. /\ at[t].pc = "found"
      /\ IF entry[e].hash = k THEN at' = [at EXCEPT ![t] = x] ELSE Got(t, NULL)
      /\ UNCHANGED <<table, FullMode, file, contexts, taken, parsed>>
  BY ZenonT(60), <1>0 DEF Found, Goto, Types
<1>2. /\ at[t] \in Thread /\ e \in Slots /\ at[t].context \in 0 .. Len(contexts) /\ at[t].pc \in Reading
      /\ NULL \in 0 .. Len(contexts)
  BY <1>0, <1>1, IdleKnows DEF Types, Bounds, Reading
<1>3. /\ x \in Thread /\ x.pc = "literal" /\ x.entry = e /\ x.context = at[t].context
      /\ x.key = k /\ x.index = at[t].index
  BY ZenonT(60), <1>2 DEF Thread, Reading
<1> HIDE DEF x
<1>4. CASE entry[e].hash = k
  <2>1. x.pc \in Reading /\ x.entry \in Slots
    BY ZenonT(60), <1>2, <1>3 DEF Reading
  <2>2. ASSUME FullMode PROVE OwnThread(x)
    <3>1. OwnThread(at[t])
      BY <1>0, <2>2 DEF OwnIds
    <3> QED
      BY ZenonT(60), <1>2, <1>3, <1>4, <3>1 DEF OwnThread, Writing, Reading
  <2>3. ASSUME ~FullMode, t \in Threads PROVE Lookup(x)
    <3>1. Lookup(at[t]) /\ entry[e].hash = KeyOf(e)
      BY ZenonT(60), <1>2, <2>3, ReadsLine
    <3> QED
      BY ZenonT(60), <1>2, <1>3, <1>4, <3>1 DEF Lookup
  <2>4. ASSUME ~FullMode, t = Parser PROVE Finds(x)
    <3>1. Finds(at[t])
      BY ZenonT(60), <1>2, <2>4, ParserReads
    <3> QED
      BY ZenonT(60), <1>2, <1>3, <3>1 DEF Finds
  <2> QED
    BY ZenonT(60), <1>1, <1>2, <1>3, <1>4, <2>1, <2>2, <2>3, <2>4, LookupStep
<1>5. CASE entry[e].hash # k
  <2>1. ASSUME ~FullMode, t \in Threads PROVE PastLines(k, NULL)
    <3>1. /\ PastLines(k, e) /\ Len(parsed) \in Nat /\ e \in 1 .. Len(parsed) /\ Lookup(at[t])
          /\ entry[e].hash = KeyOf(e) /\ IsLast(entry[e].next, hash_to_index(k), e - 1)
      BY ZenonT(60), <1>2, <2>1, ReadsLine
    <3>2. entry[e].next = NULL
      BY ZenonT(60), <1>1, <1>5, <3>1 DEF Lookup
    <3> HIDE DEF e, k
    <3>3. ASSUME NEW m \in 1 .. Len(parsed) PROVE KeyOf(m) # k
      <4>1. CASE m > e
        BY <3>1, <4>1 DEF PastLines
      <4>2. CASE m = e
        BY ZenonT(60), <1>5, <3>1, <4>2
      <4>3. CASE m < e
        BY <3>1, <3>2, <4>3, IdleType DEF IsLast
      <4> QED
        BY <3>1, <4>1, <4>2, <4>3
    <3> QED
      BY <3>1, <3>3, IdleType DEF PastLines
  <2>2. ~FullMode => t # Parser
    BY ZenonT(60), <1>2, <1>5, ParserReads
  <2> QED
    BY ZenonT(60), <1>1, <1>2, <1>5, <2>1, <2>2, GotStep
<1> QED
  BY ZenonT(60), <1>4, <1>5

\* The entry's ContextIndex is the result.
LEMMA LoadLiteralStep ==
  ASSUME IInv, NEW t \in Users, LoadLiteral(t)
  PROVE  IInv'
<1> DEFINE e == at[t].entry
           ci == entry[e].literal
<1>0. Types /\ Bounds /\ OwnIds
  BY DEF IInv
<1>1. /\ at[t].pc = "literal" /\ Got(t, ci)
      /\ UNCHANGED <<table, FullMode, file, contexts, taken, parsed>>
  BY ZenonT(60) DEF LoadLiteral
<1>2. at[t].pc \in Reading /\ e \in Slots /\ ci \in 0 .. Len(contexts)
  BY ZenonT(60), <1>0, <1>1 DEF Bounds, Reading
<1>3. ASSUME FullMode, ci # NULL, Alone(ci) PROVE contexts[ci] = at[t].key % IdRange
  <2>1. OwnThread(at[t]) /\ OwnEntry(e)
    BY ZenonT(60), <1>0, <1>2, <1>3 DEF OwnIds
  <2>2. entry[e].hash = at[t].key
    BY ZenonT(60), <1>1, <1>3, <2>1 DEF OwnThread
  <2> QED
    BY ZenonT(60), <1>3, <2>1, <2>2 DEF OwnEntry, Filled
<1>4. ASSUME ~FullMode, t \in Threads PROVE PastLines(at[t].key, ci) /\ KeyOf(ci) = at[t].key
  <2>1. PastLines(at[t].key, e) /\ Lookup(at[t]) /\ ci = e
    BY ZenonT(60), <1>2, <1>4, ReadsLine
  <2> QED
    BY ZenonT(60), <1>1, <2>1 DEF Lookup
<1>5. ~FullMode /\ t = Parser => ci = Len(parsed)
  BY ZenonT(60), <1>2, ParserReads
<1> HIDE DEF ci
<1> QED
  BY ZenonT(60), <1>1, <1>2, <1>3, <1>4, <1>5, GotStep

-----------------------------------------------------------------------------
\* parse_from_file reads a line.
LEMMA ParseStep ==
  ASSUME IInv, parse_from_file
  PROVE  IInv'
<1> DEFINE line == Head(file)
           x == [Idle EXCEPT !.pc = "add", !.key = Key[line.site], !.index = line.index % IdRange]
<1>0. Types /\ Bounds /\ Phases /\ OwnIds /\ Chains /\ Parsing /\ Lookups
  BY ZenonT(60) DEF IInv
<1>1. /\ at[Parser].pc = "idle" /\ file # <<>>
      /\ UNCHANGED <<buckets, entry, first_free, FullMode, contexts, taken>>
  BY ZenonT(60) DEF parse_from_file, table
<1>2. line \in Line /\ Tail(file) \in Seq(Line) /\ <<>> \in Seq(Line)
  BY <1>0, <1>1 DEF Types
<1>3. /\ ~FullMode /\ ~Adding /\ Done = Len(parsed) /\ Len(parsed) \in Nat
      /\ \A u \in Threads : at[u].pc = "idle"
  BY <1>0, <1>1 DEF Phases, Adding, Done, Types, Writing
<1>4. CASE line.type = "NID"
  <2>1. /\ at' = [at EXCEPT ![Parser] = x] /\ file' = Tail(file) /\ parsed' = Append(parsed, line)
    BY ZenonT(60), <1>4 DEF parse_from_file
  <2>2. line.site \in Sites /\ line.index \in Int
    BY ZenonT(60), <1>2 DEF Line
  <2>3. Key[line.site] \in Nat /\ line.index % IdRange \in 0 .. IdRange - 1
    BY <2>2, StaticAnalysisAssumption
  <2>4. /\ x \in Thread /\ x.pc = "add" /\ x.key = Key[line.site]
        /\ x.index = line.index % IdRange /\ x.context = NULL
    BY ZenonT(60), <2>3, IdleType DEF Thread, Writing, Idle
  <2> HIDE DEF x, line
  <2>5. /\ parsed' \in Seq(Line) /\ Len(parsed') = Len(parsed) + 1 /\ parsed' # <<>>
        /\ parsed'[Len(parsed) + 1] = line
        /\ \A n \in 1 .. Len(parsed) : parsed'[n] = parsed[n]
    <3>1. parsed \in Seq(Line)
      BY ZenonT(60), <1>0 DEF Types
    <3>2. /\ parsed' \in Seq(Line) /\ Len(parsed') = Len(parsed) + 1
          /\ parsed'[Len(parsed) + 1] = line
          /\ \A n \in 1 .. Len(parsed) : parsed'[n] = parsed[n]
      BY <1>2, <2>1, <3>1
    <3>3. Len(<<>>) = 0 /\ Len(parsed) + 1 # 0
      BY <1>3
    <3> QED
      BY ZenonT(60), <3>2, <3>3
  <2>6. /\ at' \in [Users -> Thread] /\ at'[Parser] = x
        /\ \A u \in Users : u # Parser => at'[u] = at[u]
    BY ZenonT(60), <1>0, <2>1, <2>4, IdleType, AtStep
  <2>7. \A u \in Threads : at'[u].pc = "idle"
    BY ZenonT(60), <1>3, <2>6, IdleType, StaticAnalysisAssumption
  <2>8. Types'
    BY ZenonT(60), <1>0, <1>1, <1>2, <2>1, <2>5, <2>6 DEF Types
  <2>9. Bounds'
    <3>1. at'[Parser].context \in 0 .. Len(contexts) /\ at'[Parser].pc = "add"
      BY <1>0, <2>4, <2>6, IdleType DEF Types
    <3> QED
      BY ZenonT(60), <1>0, <1>1, <2>6, <3>1 DEF Bounds, Writing, Reading
  <2>10. Phases'
    BY ZenonT(60), <1>1, <1>3, <2>4, <2>6, <2>7 DEF Phases
  <2>11. OwnIds' /\ Lookups'
    BY ZenonT(60), <1>1, <1>3, <2>7 DEF OwnIds, Lookups, Lookup, Reading
  <2>12. Adding' /\ Done' = Len(parsed) /\ Done' = Done
    <3>1. Adding'
      BY ZenonT(60), <2>4, <2>6 DEF Adding
    <3>2. Done' = Len(parsed') - 1
      BY ZenonT(60), <3>1 DEF Done
    <3> QED
      BY <1>3, <2>5, <3>1, <3>2
  <2>13. Chains'
    <3>1. /\ Len(contexts) = Len(parsed) /\ first_free = Len(parsed) + 1
          /\ Len(parsed) <= MaxEntries /\ Lists(Done)
          /\ \A n \in DOMAIN contexts : contexts[n] = parsed[n].index % IdRange
      BY ZenonT(60), <1>0, <1>1, <1>3 DEF Chains, Writing
    <3>2. Lists(Done)'
      BY ZenonT(60), <1>1, <1>3, <2>5, <2>12, <3>1, ListsKept
    <3>3. \A n \in DOMAIN contexts : contexts[n] = parsed'[n].index % IdRange
      BY <1>0, <2>5, <3>1 DEF Types
    <3> QED
      BY ZenonT(60), <1>1, <2>4, <2>5, <2>6, <2>12, <3>1, <3>2, <3>3 DEF Chains, Writing
  <2>14. Parsing'
    <3>1. KeyOf(Len(parsed))' = Key[line.site]
      BY ZenonT(60), <1>3, <2>5 DEF KeyOf
    <3> QED
      BY ZenonT(60), <1>3, <2>4, <2>5, <2>6, <3>1 DEF Parsing, AddsLine
  <2>15. Finding'
    BY ZenonT(60), <2>4, <2>6 DEF Finding, Finds, Reading
  <2> QED
    BY ZenonT(60), <2>8, <2>9, <2>10, <2>11, <2>13, <2>14, <2>15 DEF IInv
<1>5. CASE line.type # "NID"
  <2>1. file' \in Seq(Line) /\ UNCHANGED <<at, parsed>>
    BY ZenonT(60), <1>2, <1>5 DEF parse_from_file
  <2>2. Types' /\ Bounds'
    BY ZenonT(60), <1>0, <1>1, <2>1 DEF Types, Bounds
  <2>3. Phases' /\ OwnIds' /\ Finding'
    BY ZenonT(60), <1>0, <1>1, <1>3, <2>1 DEF Phases, OwnIds, Finding, Finds, Reading
  <2>4. Lookups'
    BY ZenonT(60), <1>3, <2>1 DEF Lookups, Lookup, Reading
  <2>5. Adding' = Adding /\ Done' = Done
    BY ZenonT(60), <2>1 DEF Adding, Done
  <2>6. Chains'
    <3>1. Lists(Done)'
      BY ZenonT(60), <1>0, <1>1, <1>3, <2>1, <2>5, ListsKept DEF Chains
    <3> QED
      BY ZenonT(60), <1>0, <1>1, <2>1, <2>5, <3>1 DEF Chains
  <2>7. Parsing'
    BY ZenonT(60), <1>3, <2>5 DEF Parsing
  <2> QED
    BY ZenonT(60), <2>2, <2>3, <2>4, <2>6, <2>7 DEF IInv
<1> QED
  BY ZenonT(60), <1>4, <1>5

-----------------------------------------------------------------------------
\* Every step keeps the invariant.
LEMMA NextStep ==
  ASSUME IInv, [Next]_vars
  PROVE  IInv'
<1>1. CASE UNCHANGED vars
  <2>1. UNCHANGED <<buckets, entry, first_free, FullMode, file, contexts, taken, at, parsed>>
    BY ZenonT(60), <1>1 DEF vars, table
  <2>2. Types' /\ Bounds' /\ Phases'
    BY ZenonT(60), <2>1 DEF IInv, Types, Bounds, Phases
  <2>3. OwnIds'
    BY ZenonT(60), <2>1 DEF IInv, OwnIds, OwnEntry, OwnThread, Filled, Alone, Apart
  <2>4. Chains'
    BY ZenonT(60), <2>1 DEF IInv, Chains, Adding, Done, Lists, IsLast, KeyOf
  <2>5. Parsing'
    BY ZenonT(60), <2>1 DEF IInv, Parsing, Adding, AddsLine, IsLast, KeyOf
  <2>6. Finding'
    BY ZenonT(60), <2>1 DEF IInv, Finding, Finds, KeyOf
  <2>7. Lookups'
    BY ZenonT(60), <2>1 DEF IInv, Lookups, Lookup, PastLines, KeyOf
  <2> QED
    BY ZenonT(60), <2>2, <2>3, <2>4, <2>5, <2>6, <2>7 DEF IInv
<1>2. CASE parse_from_file \/ Checked
  BY ZenonT(60), <1>2, ParseStep, CheckedStep
<1>3. ASSUME NEW t \in Users,
             \/ add_index(t) \/ TakeEntry(t) \/ set_hash(t) \/ set_literal(t)
             \/ LoadHead(t) \/ Link(t) \/ Publish(t)
      PROVE  IInv'
  BY ZenonT(60), <1>3, AddStep, TakeStep, SetHashStep, SetLiteralStep, LoadHeadStep, LinkStep,
  PublishStep
<1>5. ASSUME NEW t \in Users, \/ get_value(t) \/ Walk(t) \/ Compare(t)
                             \/ Advance(t) \/ Found(t) \/ LoadLiteral(t)
      PROVE  IInv'
  BY ZenonT(60), <1>5, GetValueStep, WalkStep, CompareStep, AdvanceStep, FoundStep, LoadLiteralStep
<1>4. ASSUME NEW t \in Threads, get_alloc_context(t) \/ Return(t) PROVE IInv'
  BY ZenonT(60), <1>4, CallStep, ReturnStep
<1> QED
  BY ZenonT(60), <1>1, <1>2, <1>3, <1>4, <1>5 DEF Next

\* The invariant holds in every state.
LEMMA Invariance == Spec => []IInv
<1>1. Init => IInv
  BY ZenonT(60), InitIInv
<1>2. IInv /\ [Next]_vars => IInv'
  BY ZenonT(60), NextStep
<1> QED
  BY <1>1, <1>2, PTL DEF Spec

\* Every reference in the table and in the threads leads to an entry or to a
\* ContextIndex that exists, and ids have 16 bits, also when compiler threads
\* race in add_index and two of them fill the same entry.
THEOREM TypeCorrect == Spec => []TypeOK
<1>1. ASSUME IInv PROVE TypeOK
  <2>1. Types /\ Bounds
    BY ZenonT(60), <1>1 DEF IInv
  <2>2. \A e \in Slots : entry[e].next \in Slots \cup {NULL}
    BY ZenonT(60), <2>1 DEF Types, Entry
  <2>3. \A n \in DOMAIN contexts : contexts[n] \in 0 .. IdRange - 1
    <3> DEFINE Ids == 0 .. IdRange - 1
    <3>1. contexts \in Seq(Ids)
      BY ZenonT(60), <2>1 DEF Types
    <3> HIDE DEF Ids
    <3>2. \A n \in DOMAIN contexts : contexts[n] \in Ids
      BY <3>1
    <3> QED
      BY ZenonT(60), <3>2 DEF Ids
  <2>4. \A t \in Users : /\ at[t].pc \in {"idle", "add", "take", "set_hash", "set_literal", "link",
                                          "set_next", "publish", "bucket", "walk", "compare",
                                          "advance", "found", "literal", "check", "return", "null"}
                         /\ at[t].entry \in Slots \cup {NULL}
    BY ZenonT(60), <2>1 DEF Types, Thread, Writing, Reading
  <2> QED
    BY ZenonT(60), <2>1, <2>2, <2>3, <2>4 DEF TypeOK, Types, Bounds
<1> QED
  BY <1>1, Invariance, PTL

\* An id that get_alloc_index returns is the site's own: the one of the last line
\* for the site in the file, or in full mode the low bits of its key, whatever
\* other threads do to the table meanwhile, unless the entry it was read from had
\* been taken for two insertions.
THEOREM IdsAreOwn == Spec => []IdOfSite
<1>1. ASSUME IInv, NEW t \in Threads, at[t].pc = "return"
      PROVE  IF FullMode
             THEN at[t].context = NULL \/ Id(t) = at[t].key % IdRange \/ ~Alone(at[t].context)
             ELSE Id(t) = IdInFile(at[t].key)
  <2>1. CASE FullMode
    <3>1. OwnThread(at[t])
      BY ZenonT(60), <1>1, <2>1, IdleType DEF IInv, OwnIds
    <3> QED
      BY ZenonT(60), <1>1, <2>1, <3>1 DEF OwnThread, Id
  <2>2. CASE ~FullMode
    <3> DEFINE c == at[t].context
               k == at[t].key
    <3>1. PastLines(k, c) /\ (c # NULL => KeyOf(c) = k)
      BY ZenonT(60), <1>1, <2>2 DEF IInv, Lookups, Lookup
    <3>2. /\ Len(contexts) = Len(parsed) /\ Len(parsed) \in Nat
          /\ DOMAIN parsed = 1 .. Len(parsed) /\ DOMAIN contexts = 1 .. Len(contexts)
          /\ \A n \in DOMAIN contexts : contexts[n] = parsed[n].index % IdRange
      BY <1>1, <2>2, ParsingOver DEF IInv, Types, Chains
    <3> HIDE DEF c, k
    <3>3. CASE c = NULL
      <4>1. LinesFor(k) = {}
        BY <3>1, <3>2, <3>3, IdleType DEF LinesFor, PastLines, KeyOf
      <4> QED
        BY ZenonT(60), <2>2, <3>3, <4>1 DEF Id, IdInFile, c, k
    <3>4. CASE c # NULL
      <4>1. c \in LinesFor(k) /\ \A m \in LinesFor(k) : m <= c
        BY <3>1, <3>2, <3>4, IdleType DEF LinesFor, PastLines, KeyOf
      <4>2. \A n \in LinesFor(k) : (\A m \in LinesFor(k) : m <= n) => n = c
        BY <3>2, <4>1 DEF LinesFor
      <4>3. (CHOOSE n \in LinesFor(k) : \A m \in LinesFor(k) : m <= n) = c
        BY ZenonT(60), <4>1, <4>2
      <4>4. IdInFile(k) = parsed[c].index % IdRange
        BY ZenonT(60), <4>1, <4>3 DEF IdInFile
      <4>5. Id(t) = contexts[c] /\ c \in DOMAIN contexts
        BY ZenonT(60), <3>2, <3>4, <4>1 DEF Id, c, LinesFor
      <4> QED
        BY ZenonT(60), <2>2, <3>2, <4>4, <4>5 DEF k
    <3> QED
      BY ZenonT(60), <3>3, <3>4
  <2> QED
    BY ZenonT(60), <2>1, <2>2
<1>2. IInv => IdOfSite
  BY ZenonT(60), <1>1 DEF IdOfSite
<1> QED
  BY <1>2, Invariance, PTL

\* The assertion `could not retrieve value from hashtable' of parse_from_file:
\* the lookup after add_index finds an entry, with the index of that line.
ParserFinds ==
  /\ at[Parser].pc # "null"
  /\ at[Parser].pc = "check" => at[Parser].context # NULL /\ Id(Parser) = at[Parser].index

\* That assertion never fails, whatever keys collide and however often a site
\* comes up in the file.
THEOREM ParserFindsEntry == Spec => []ParserFinds
<1>1. ASSUME IInv, at[Parser].pc = "check"
      PROVE  at[Parser].context # NULL /\ Id(Parser) = at[Parser].index
  <2>1. ~FullMode
    BY ZenonT(60), <1>1 DEF IInv, Phases
  <2>2. /\ parsed # <<>> /\ at[Parser].context = Len(parsed)
        /\ at[Parser].index = parsed[Len(parsed)].index % IdRange
    BY ZenonT(60), <1>1, <2>1 DEF IInv, Finding, Finds
  <2>3. /\ Len(contexts) = Len(parsed) /\ Len(parsed) \in Nat \ {0}
        /\ DOMAIN contexts = 1 .. Len(contexts)
        /\ \A n \in DOMAIN contexts : contexts[n] = parsed[n].index % IdRange
    <3>1. Done = Len(parsed)
      BY ZenonT(60), <1>1 DEF Adding, Done, Writing
    <3> QED
      BY <1>1, <2>1, <2>2, <3>1 DEF IInv, Types, Chains
  <2> QED
    BY <2>2, <2>3, IdleType DEF Id
<1>2. IInv => at[Parser].pc # "null"
  BY ZenonT(60) DEF IInv, Phases, Finding, Finds
<1>3. IInv => ParserFinds
  BY ZenonT(60), <1>1, <1>2 DEF ParserFinds
<1> QED
  BY <1>3, Invariance, PTL
=============================================================================
