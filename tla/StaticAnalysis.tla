---------------------------- MODULE StaticAnalysis ----------------------------
(***************************************************************************)
(* The table that gives an allocation site (a method and a bci) its 16-bit  *)
(* id (ng2c/ng2c_static_analysis.cpp).  With -XX:NG2CStaticAnalysis it is   *)
(* read from a file when the VM starts; without it ("full mode") compiler   *)
(* threads add a site when they first meet it, and nothing synchronises     *)
(* them.  Two of them may take the same entry, and then one may not find    *)
(* the site it has just added, or may find the id of the other's.  A step   *)
(* of this module is therefore a single load or store of the shared table.  *)
(* The table of call sites is a second one with the same code.              *)
(***************************************************************************)
EXTENDS Hashtable, Integers, Sequences

CONSTANTS
  Threads,      \* the compiler threads
  Parser,       \* the thread that starts the VM
  Sites,        \* pairs of a method and a bci
  Key,          \* hash(method, bci): the key of each site
  JavaSites,    \* sites in methods whose name starts with "java"
  IdRange,      \* 2^16
  Files         \* contents the file may have

\* A line of the file, with the number that strtol makes of its index.
Line == [type : {"NID", "MID", "unknown"}, site : Sites, index : Int]

ASSUME StaticAnalysisAssumption ==
  /\ Parser \notin Threads
  /\ Key \in [Sites -> Nat]
  /\ IdRange \in Nat \ {0}
  /\ Files \subseteq Seq(Line)

VARIABLES
  FullMode,     \* NG2CStaticAnalysis is not set
  file,         \* lines of NG2CStaticAnalysis not yet parsed
  contexts,     \* the index of every ContextIndex built; they are 1 .. Len(contexts)
  taken,        \* history: the entry that was taken for each of them
  at,           \* where each thread is
  parsed        \* history: lines added to the table

vars == <<table, FullMode, file, contexts, taken, at, parsed>>

Users == Threads \cup {Parser}
Idle == [pc |-> "idle", key |-> 0, index |-> 0, entry |-> NULL, next |-> NULL, context |-> NULL,
         added |-> FALSE]

Init ==
  /\ InitTable
  /\ FullMode \in BOOLEAN
  /\ file \in IF FullMode THEN {<<>>} ELSE Files
  /\ contexts = <<>>
  /\ taken = <<>>
  /\ at = [t \in Users |-> Idle]
  /\ parsed = <<>>

Goto(t, pc) == at' = [at EXCEPT ![t].pc = pc]

-----------------------------------------------------------------------------
(* add_index: build the ContextIndex, take an entry, fill, link and publish   *)
(* it.  It neither looks for the key first nor takes a lock.                  *)

\* new_entry loads _first_free_entry.
add_index(t) ==
  /\ at[t].pc = "add" /\ first_free \in Slots
  /\ contexts' = Append(contexts, at[t].index)
  /\ taken' = Append(taken, first_free)
  /\ at' = [at EXCEPT ![t].pc = "take", ![t].entry = first_free, ![t].context = Len(contexts) + 1]
  /\ UNCHANGED <<table, FullMode, file, parsed>>

\* It moves _first_free_entry on, which the compiler may do from the value
\* loaded or by loading it again.
TakeEntry(t) ==
  /\ at[t].pc = "take"
  /\ first_free' \in {at[t].entry + 1, first_free + 1}
  /\ Goto(t, "set_hash")
  /\ UNCHANGED <<buckets, entry, FullMode, file, contexts, taken, parsed>>

Store(e) == entry' = e /\ UNCHANGED <<buckets, first_free, FullMode, file, contexts, taken, parsed>>

set_hash(t) ==
  /\ at[t].pc = "set_hash"
  /\ Store([entry EXCEPT ![at[t].entry].hash = at[t].key])
  /\ Goto(t, "set_literal")

set_literal(t) ==
  /\ at[t].pc = "set_literal"
  /\ Store([entry EXCEPT ![at[t].entry].literal = at[t].context])
  /\ Goto(t, "link")

\* add_entry loads the head of the bucket, then links the entry to it.
LoadHead(t) ==
  /\ at[t].pc = "link"
  /\ at' = [at EXCEPT ![t].pc = "set_next", ![t].next = bucket(at[t].key)]
  /\ UNCHANGED <<table, FullMode, file, contexts, taken, parsed>>

\* Mutant: the entry is not linked to the ones before it.
LinkNothing(t) ==
  /\ at[t].pc = "set_next"
  /\ Goto(t, "publish")
  /\ UNCHANGED <<table, FullMode, file, contexts, taken, parsed>>

Link(t) ==
  /\ at[t].pc = "set_next"
  /\ Store([entry EXCEPT ![at[t].entry].next = at[t].next])
  /\ Goto(t, "publish")

\* Both callers look the key up again.
Publish(t) ==
  /\ at[t].pc = "publish"
  /\ set_entry(at[t].entry, at[t].key)
  /\ at' = [at EXCEPT ![t].pc = "bucket", ![t].added = TRUE, ![t].entry = NULL, ![t].next = NULL,
                      ![t].context = NULL]
  /\ UNCHANGED <<FullMode, file, contexts, taken, parsed>>

-----------------------------------------------------------------------------
(* get_value, and what its callers do with the result. *)

\* "null": set_method of a NULL ContextIndex.
Got(t, ci) ==
  at' = [at EXCEPT ![t].context = ci, ![t].entry = NULL,
                   ![t].pc = CASE t = Parser -> "check"
                               [] FullMode /\ ci = NULL /\ ~at[t].added -> "add"
                               [] FullMode /\ ci = NULL /\ at[t].added -> "null"
                               [] OTHER -> "return"]

get_value(t) ==
  /\ at[t].pc = "bucket"
  /\ IF bucket(at[t].key) = NULL
     THEN Got(t, NULL)
     ELSE at' = [at EXCEPT ![t].entry = bucket(at[t].key), ![t].pc = "walk"]
  /\ UNCHANGED <<table, FullMode, file, contexts, taken, parsed>>

\* The condition of the loop: first the link, then the key.
Walk(t) ==
  /\ at[t].pc = "walk"
  /\ Goto(t, IF entry[at[t].entry].next = NULL THEN "found" ELSE "compare")
  /\ UNCHANGED <<table, FullMode, file, contexts, taken, parsed>>

Compare(t) ==
  /\ at[t].pc = "compare"
  /\ Goto(t, IF entry[at[t].entry].hash = at[t].key THEN "found" ELSE "advance")
  /\ UNCHANGED <<table, FullMode, file, contexts, taken, parsed>>

\* The link is loaded once more.  It may be NULL by now when the entry was
\* taken twice, and the loop goes on with it.
Advance(t) ==
  /\ at[t].pc = "advance"
  /\ at' = [at EXCEPT ![t].entry = entry[@].next,
                      ![t].pc = IF entry[at[t].entry].next = NULL THEN "null" ELSE "walk"]
  /\ UNCHANGED <<table, FullMode, file, contexts, taken, parsed>>

\* The test after the loop.
Found(t) ==
  /\ at[t].pc = "found"
  /\ IF entry[at[t].entry].hash = at[t].key THEN Goto(t, "literal") ELSE Got(t, NULL)
  /\ UNCHANGED <<table, FullMode, file, contexts, taken, parsed>>

LoadLiteral(t) ==
  /\ at[t].pc = "literal"
  /\ Got(t, entry[at[t].entry].literal)
  /\ UNCHANGED <<table, FullMode, file, contexts, taken, parsed>>

-----------------------------------------------------------------------------
(* parse_from_file, in the constructor. *)

\* Mutant: the id is not cut to 16 bits, and an unknown line is skipped.
parse_untruncated ==
  /\ at[Parser].pc = "idle" /\ file # <<>>
  /\ LET line == Head(file) IN
     /\ IF line.type = "NID"
        THEN /\ at' = [at EXCEPT ![Parser] = [Idle EXCEPT !.pc = "add", !.key = Key[line.site],
                                                          !.index = line.index]]
             /\ parsed' = Append(parsed, line)
        ELSE UNCHANGED <<at, parsed>>
     /\ file' = Tail(file)
  /\ UNCHANGED <<table, FullMode, contexts, taken>>

\* A line of another kind ends the parsing; MID lines go to the other table.
parse_from_file ==
  /\ at[Parser].pc = "idle" /\ file # <<>>
  /\ LET line == Head(file) IN
     CASE line.type = "NID" ->
            /\ at' = [at EXCEPT ![Parser] = [Idle EXCEPT !.pc = "add", !.key = Key[line.site],
                                                         !.index = line.index % IdRange]]
            /\ file' = Tail(file)
            /\ parsed' = Append(parsed, line)
       [] line.type = "MID" -> file' = Tail(file) /\ UNCHANGED <<at, parsed>>
       [] OTHER -> file' = <<>> /\ UNCHANGED <<at, parsed>>
  /\ UNCHANGED <<table, FullMode, contexts, taken>>

Checked ==
  /\ at[Parser].pc = "check"
  /\ at' = [at EXCEPT ![Parser] = Idle]
  /\ UNCHANGED <<table, FullMode, file, contexts, taken, parsed>>

-----------------------------------------------------------------------------
(* get_alloc_index, called by C2 for every allocation it expands.  In full    *)
(* mode the result of the first of its two lookups is not used.               *)
get_alloc_context(t) ==
  /\ file = <<>> /\ at[Parser].pc = "idle"
  /\ at[t].pc = "idle"
  /\ \E s \in Sites :
       at' = [at EXCEPT ![t] =
                [Idle EXCEPT !.pc = IF FullMode /\ s \in JavaSites THEN "return" ELSE "bucket",
                             !.key = Key[s], !.index = Key[s] % IdRange]]
  /\ UNCHANGED <<table, FullMode, file, contexts, taken, parsed>>

\* The id a call of get_alloc_index returns.
Id(t) == IF at[t].context = NULL THEN 0 ELSE contexts[at[t].context]

Return(t) ==
  /\ at[t].pc = "return"
  /\ at' = [at EXCEPT ![t] = Idle]
  /\ UNCHANGED <<table, FullMode, file, contexts, taken, parsed>>

Next ==
  \/ parse_from_file \/ Checked
  \/ \E t \in Users :
       \/ add_index(t) \/ TakeEntry(t) \/ set_hash(t) \/ set_literal(t)
       \/ LoadHead(t) \/ Link(t) \/ Publish(t)
       \/ get_value(t) \/ Walk(t) \/ Compare(t) \/ Advance(t) \/ Found(t) \/ LoadLiteral(t)
  \/ \E t \in Threads : get_alloc_context(t) \/ Return(t)

Spec == Init /\ [][Next]_vars

-----------------------------------------------------------------------------
TypeOK ==
  /\ buckets \in [0 .. TableSize - 1 -> Slots \cup {NULL}]
  /\ first_free \in Nat \ {0}
  /\ \A e \in Slots : entry[e].literal \in 0 .. Len(contexts) /\ entry[e].next \in Slots \cup {NULL}
  /\ \A n \in DOMAIN contexts : contexts[n] \in 0 .. IdRange - 1
  /\ \A t \in Users : /\ at[t].pc \in {"idle", "add", "take", "set_hash", "set_literal", "link",
                                       "set_next", "publish", "bucket", "walk", "compare", "advance",
                                       "found", "literal", "check", "return", "null"}
                      /\ at[t].entry \in Slots \cup {NULL}
                      /\ at[t].context \in 0 .. Len(contexts)

\* The lines for a key, and what the file says its id is.
LinesFor(k) == {n \in DOMAIN parsed : Key[parsed[n].site] = k}
IdInFile(k) ==
  IF LinesFor(k) = {} THEN 0
  ELSE parsed[CHOOSE n \in LinesFor(k) : \A m \in LinesFor(k) : m <= n].index % IdRange

\* No other ContextIndex was stored in the entry of n.
Alone(n) == \A m \in DOMAIN taken : taken[m] = taken[n] => m = n

\* An id that is given out is the site's own, whatever other keys share its
\* bucket.  With a file it is the id of the last line for the site, or 0 when no
\* line before the first unknown one names it.  In full mode, where nothing
\* synchronises the compiler threads, it is the low bits of the site's key, unless
\* the entry that was found was taken for two insertions: losing an entry, a
\* chain or the order of insertions to a race gives no site a wrong id.
IdOfSite ==
  \A t \in Threads : at[t].pc = "return" =>
    IF FullMode
    THEN at[t].context = NULL \/ Id(t) = at[t].key % IdRange \/ ~Alone(at[t].context)
    ELSE Id(t) = IdInFile(at[t].key)
=============================================================================
