------------------------------ MODULE Hashtable ------------------------------
(***************************************************************************)
(* HotSpot's BasicHashtable (utilities/hashtable.hpp) as NG2C uses it: an   *)
(* array of buckets, each the head of a linked list of entries.  Entries    *)
(* come one after the other from a block of C heap memory and are never     *)
(* freed, so an entry is named by its place in the block and 0 is NULL.     *)
(* The operators are the memory accesses; the modules that extend this one  *)
(* say which thread makes them, in which order and under which lock.        *)
(***************************************************************************)
EXTENDS Naturals

CONSTANTS
  TableSize,    \* _table_size
  MaxEntries    \* bound: entries the block has room for

ASSUME HashtableAssumption == TableSize \in Nat \ {0} /\ MaxEntries \in Nat

VARIABLES
  buckets,      \* _buckets[i]._entry
  entry,        \* the entries: _hash, _literal and _next
  first_free    \* _first_free_entry

table == <<buckets, entry, first_free>>

NULL  == 0
Slots == 1 .. MaxEntries

\* Memory of an entry that nothing was written to.
Unwritten == [hash |-> 0, literal |-> NULL, next |-> NULL]

hash_to_index(h) == h % TableSize

InitTable ==
  /\ buckets = [i \in 0 .. TableSize - 1 |-> NULL]
  /\ entry = [e \in Slots |-> Unwritten]
  /\ first_free = 1

bucket(h) == buckets[hash_to_index(h)]

\* The loop `while (entry->next() != NULL && entry->hash() != hash)' ends.
LoopEnds(e, h) == entry[e].next = NULL \/ entry[e].hash = h

\* What the lookups return once the loop has ended at e.
LiteralAt(e, h) == IF entry[e].hash = h THEN entry[e].literal ELSE NULL

\* new_entry after it has read _first_free_entry: the rest of it writes the
\* entry and moves _first_free_entry on, which the compiler may do from the
\* value read or by reading it again.
new_entry(e, h, literal) ==
  /\ entry' = [entry EXCEPT ![e].hash = h, ![e].literal = literal]
  /\ first_free' \in {e + 1, first_free + 1}
  /\ UNCHANGED buckets

\* The two stores of add_entry.  The second one is a release store.
set_next(e, h) ==
  /\ entry' = [entry EXCEPT ![e].next = bucket(h)]
  /\ UNCHANGED <<buckets, first_free>>

set_entry(e, h) ==
  /\ buckets' = [buckets EXCEPT ![hash_to_index(h)] = e]
  /\ UNCHANGED <<entry, first_free>>
=============================================================================
