--------------------------- MODULE AllocGensProofs ---------------------------
(***************************************************************************)
(* The growable array of generations, for any number of threads, any first *)
(* capacity and any number of generations.  Readers take no lock, so the   *)
(* invariant speaks of every buffer a thread may have loaded, and of the   *)
(* buffer grow has filled but not yet installed.                           *)
(***************************************************************************)
EXTENDS AllocGens, TLAPS

\* A leaf that names no prover is for the SMT solver.
USE SMTT(60)

\* The contents of a buffer of some capacity.
Buffer == UNION {[0 .. m - 1 -> Gens] : m \in Nat}

\* HeapGen_lock is held exactly by the thread between new_alloc_gen's read of
\* the length and the release.
LockHeld ==
  \A t \in Threads :
    /\ at[t].pc \in {"push", "swap"} <=> HeapGen_lock = t
    /\ at[t].pc \in {"push", "swap"} => at[t].gen = len /\ len < GenArraySize + MaxGens

\* Every generation is at its number in buffer b.
InPlace(b) == \A g \in 1 .. len - 1 : g \in DOMAIN buffer[b] /\ buffer[b][g] = g

\* The buffer in use has room for max elements; while grow installs a new one,
\* the new one has, and holds every generation already.
Storage ==
  /\ buffer \in Seq(Buffer) /\ GenArraySize <= len
  /\ (\A t \in Threads : at[t].pc # "swap") => DOMAIN buffer[data] = 0 .. max - 1
  /\ \A t \in Threads : at[t].pc = "swap" =>
       /\ len < max /\ InPlace(Len(buffer))
       /\ DOMAIN buffer[Len(buffer)] = 0 .. max - 1

\* A buffer that was loaded holds the generation it was loaded for.
Loaded ==
  \A t \in Threads :
    /\ alloc_gen[t] < len
    /\ at[t].pc = "index" =>
         /\ 0 < at[t].gen /\ at[t].gen < len /\ at[t].data \in 1 .. Len(buffer)
         /\ at[t].gen \in DOMAIN buffer[at[t].data]
         /\ buffer[at[t].data][at[t].gen] = at[t].gen

IInv == TypeOK /\ LockHeld /\ Storage /\ GensInPlace /\ Loaded /\ AllocatesFromOwnGen

-----------------------------------------------------------------------------
Call == [pc : {"idle", "push", "swap", "index", "allocate", "collect"},
         gen : Gens, data : 0 .. Len(buffer), region : Gens \cup {Garbage}]

\* The bounds and types that every step uses.
LEMMA Basics ==
  ASSUME IInv
  PROVE  /\ GenArraySize \in Nat /\ GenArraySize > 1 /\ MaxGens \in Nat /\ NoThread \notin Threads
         /\ len \in Nat /\ len > 1 /\ len <= GenArraySize + MaxGens /\ len <= max /\ max \in Nat
         /\ Len(buffer) \in Nat /\ data \in 1 .. Len(buffer)
         /\ 0 \in Gens /\ len \in Gens /\ \A g \in 0 .. len : g \in Gens
         /\ at \in [Threads -> Call] /\ Idle \in Call
<1>1. /\ GenArraySize \in Nat /\ GenArraySize > 1 /\ MaxGens \in Nat /\ NoThread \notin Threads
  BY AllocGensAssumption
<1>2. /\ len \in Nat /\ len > 1 /\ len <= GenArraySize + MaxGens /\ len <= max /\ max \in Nat
      /\ \A g \in 0 .. len : g \in Gens
  BY <1>1 DEF IInv, TypeOK, Storage, Gens
<1>3. Len(buffer) \in Nat
  BY DEF IInv, Storage
<1>4. at \in [Threads -> Call] /\ Idle \in Call
  BY <1>2, <1>3 DEF IInv, TypeOK, Call, Idle
<1> QED
  BY <1>1, <1>2, <1>3, <1>4 DEF IInv, TypeOK, Gens

\* One thread moves and nothing else changes.
LEMMA MovedThread ==
  ASSUME IInv, NEW t \in Threads, NEW r \in Call, at' = [at EXCEPT ![t] = r],
         UNCHANGED <<heap, alloc_gen, genTlab>>,
         HeapGen_lock' \in Threads \cup {NoThread},
         \A u \in Threads \ {t} : HeapGen_lock' = u <=> HeapGen_lock = u,
         r.pc \in {"push", "swap"} <=> HeapGen_lock' = t,
         r.pc = "push" => r.gen = len /\ len < GenArraySize + MaxGens,
         at[t].pc # "swap", r.pc # "swap",
         r.pc = "index" => /\ 0 < r.gen /\ r.gen < len /\ r.data \in 1 .. Len(buffer)
                           /\ r.gen \in DOMAIN buffer[r.data] /\ buffer[r.data][r.gen] = r.gen,
         r.pc = "allocate" /\ r.data \notin freed => r.region = r.gen
  PROVE  IInv'
<1>1. at \in [Threads -> Call]
  BY ZenonT(60), Basics
<1>2. at'[t] = r /\ at' \in [Threads -> Call] /\ \A u \in Threads \ {t} : at'[u] = at[u]
  BY ZenonT(60), <1>1
<1>3. UNCHANGED <<len, max, data, buffer, freed>>
  BY ZenonT(60) DEF heap
<1>4. TypeOK'
  BY ZenonT(60), <1>2, <1>3 DEF IInv, TypeOK, Call
<1>5. LockHeld'
  BY <1>2, <1>3 DEF IInv, LockHeld
<1>6. Storage'
  BY ZenonT(60), <1>2, <1>3 DEF IInv, Storage, InPlace
<1>7. GensInPlace'
  BY ZenonT(60), <1>3 DEF IInv, GensInPlace
<1>8. Loaded'
  BY ZenonT(60), <1>2, <1>3 DEF IInv, Loaded
<1>9. AllocatesFromOwnGen'
  BY ZenonT(60), <1>2, <1>3 DEF IInv, AllocatesFromOwnGen
<1> QED
  BY ZenonT(60), <1>4, <1>5, <1>6, <1>7, <1>8, <1>9 DEF IInv

\* new_alloc_gen takes the lock and reads the length: the next number.
LEMMA NewStep ==
  ASSUME IInv, NEW t \in Threads, NewAllocGen(t)
  PROVE  IInv'
<1> DEFINE r == [Idle EXCEPT !.pc = "push", !.gen = len]
<1>1. r \in Call /\ r.pc = "push" /\ r.gen = len
  BY ZenonT(60), Basics DEF Call, Idle
<1>2. at' = [at EXCEPT ![t] = r] /\ at[t].pc = "idle" /\ HeapGen_lock = NoThread /\ HeapGen_lock' = t
  BY ZenonT(60) DEF NewAllocGen
<1>3. UNCHANGED <<heap, alloc_gen, genTlab>> /\ len < GenArraySize + MaxGens
  BY ZenonT(60) DEF NewAllocGen
<1> HIDE DEF r
<1> QED
  BY ZenonT(60), <1>1, <1>2, <1>3, Basics, MovedThread

\* The first load of a reader: the buffer in use holds its generation.
LEMMA LoadDataStep ==
  ASSUME IInv, NEW t \in Threads, LoadData(t)
  PROVE  IInv'
<1> DEFINE r == [Idle EXCEPT !.pc = "index", !.gen = alloc_gen[t], !.data = data]
<1>1. /\ alloc_gen[t] \in Gens /\ alloc_gen[t] > 0 /\ alloc_gen[t] < len /\ alloc_gen[t] \in Nat
      /\ data \in 0 .. Len(buffer)
  BY Basics DEF LoadData, IInv, TypeOK, Loaded, Gens
<1>2. r \in Call /\ r.pc = "index" /\ r.gen = alloc_gen[t] /\ r.data = data
  BY ZenonT(60), <1>1, Basics DEF Call, Idle
<1>3. at' = [at EXCEPT ![t] = r] /\ at[t].pc = "idle" /\ HeapGen_lock' = HeapGen_lock
  BY ZenonT(60) DEF LoadData
<1>4. UNCHANGED <<heap, alloc_gen, genTlab>> /\ HeapGen_lock # t
  BY ZenonT(60), <1>3 DEF LoadData, IInv, LockHeld
<1>5. alloc_gen[t] \in DOMAIN buffer[data] /\ buffer[data][alloc_gen[t]] = alloc_gen[t]
  BY <1>1, Basics DEF IInv, GensInPlace
<1>6. HeapGen_lock \in Threads \cup {NoThread}
  BY ZenonT(60) DEF IInv, TypeOK
<1> HIDE DEF r
<1> QED
  BY ZenonT(60), <1>1, <1>2, <1>3, <1>4, <1>5, <1>6, Basics, MovedThread

\* The second load: the element is still there, unless the buffer was freed.
LEMMA LoadRegionStep ==
  ASSUME IInv, NEW t \in Threads, LoadRegion(t)
  PROVE  IInv'
<1>1. PICK region \in {buffer[at[t].data][at[t].gen]}
                        \cup (IF at[t].data \in freed THEN {Garbage} ELSE {}) :
        at' = [at EXCEPT ![t].pc = "allocate", ![t].region = region]
  BY ZenonT(60) DEF LoadRegion
<1> DEFINE r == [at[t] EXCEPT !.pc = "allocate", !.region = region]
<1>2. /\ at[t].data \in 1 .. Len(buffer) /\ at[t].gen \in DOMAIN buffer[at[t].data]
      /\ buffer[at[t].data][at[t].gen] = at[t].gen
  BY ZenonT(60) DEF LoadRegion, IInv, Loaded
<1>3. at[t] \in Call /\ at \in [Threads -> Call]
  BY ZenonT(60), Basics
<1>4. region \in Gens \cup {Garbage} /\ (at[t].data \notin freed => region = at[t].gen)
  BY <1>2, <1>3 DEF Call
<1>5. r \in Call /\ r.pc = "allocate" /\ r.gen = at[t].gen /\ r.data = at[t].data /\ r.region = region
  BY ZenonT(60), <1>3, <1>4 DEF Call
<1>6. at' = [at EXCEPT ![t] = r]
  BY ZenonT(60), <1>1, <1>3
<1>7. UNCHANGED <<heap, alloc_gen, genTlab, HeapGen_lock>> /\ HeapGen_lock # t /\ at[t].pc = "index"
  BY ZenonT(60) DEF LoadRegion, IInv, LockHeld
<1>8. HeapGen_lock \in Threads \cup {NoThread}
  BY ZenonT(60) DEF IInv, TypeOK
<1> HIDE DEF r
<1> QED
  BY ZenonT(60), <1>4, <1>5, <1>6, <1>7, <1>8, MovedThread

\* Allocated and Collected, and collect_alloc_gen of a generation that is not there.
LEMMA IdleStep ==
  ASSUME IInv, NEW t \in Threads, at[t].pc \notin {"push", "swap"},
         at' = [at EXCEPT ![t] = Idle], UNCHANGED <<heap, alloc_gen, genTlab, HeapGen_lock>>
  PROVE  IInv'
<1>1. HeapGen_lock # t /\ HeapGen_lock \in Threads \cup {NoThread}
  BY ZenonT(60) DEF IInv, TypeOK, LockHeld
<1>2. Idle.pc = "idle" /\ Idle \in Call
  BY ZenonT(60), Basics DEF Idle
<1> QED
  BY ZenonT(60), <1>1, <1>2, MovedThread

\* collect_alloc_gen looks its generation up under the lock.
LEMMA CollectStep ==
  ASSUME IInv, NEW t \in Threads, collect_alloc_gen(t)
  PROVE  IInv'
<1>1. PICK gen \in 0 .. len :
        at' = [at EXCEPT ![t] = IF gen >= len THEN Idle
                               ELSE [Idle EXCEPT !.pc = "collect", !.gen = gen,
                                                 !.region = buffer[data][gen]]]
  BY ZenonT(60) DEF collect_alloc_gen
<1>2. /\ UNCHANGED <<heap, alloc_gen, genTlab, HeapGen_lock>> /\ HeapGen_lock = NoThread
      /\ at[t].pc = "idle"
  BY ZenonT(60) DEF collect_alloc_gen
<1>3. CASE gen >= len
  BY ZenonT(60), <1>1, <1>2, <1>3, IdleStep
<1>4. CASE ~(gen >= len)
  <2> DEFINE r == [Idle EXCEPT !.pc = "collect", !.gen = gen, !.region = buffer[data][gen]]
  <2>1. at' = [at EXCEPT ![t] = r]
    BY ZenonT(60), <1>1, <1>4
  <2>2. DOMAIN buffer[data] = 0 .. max - 1
    BY ZenonT(60), <1>2, Basics DEF IInv, Storage, LockHeld
  <2>3. gen \in DOMAIN buffer[data]
    BY <1>4, <2>2, Basics
  <2>4. buffer[data][gen] \in Gens
    BY ZenonT(60), <2>3, Basics DEF IInv, TypeOK
  <2>5. r \in Call /\ r.pc = "collect"
    BY ZenonT(60), <2>4, Basics DEF Call, Idle
  <2> HIDE DEF r
  <2> QED
    BY ZenonT(60), <1>2, <2>1, <2>5, Basics, MovedThread
<1> QED
  BY ZenonT(60), <1>3, <1>4

\* grow fills the new buffer before it frees the old one: both hold every
\* generation until _data is switched.
LEMMA GrowStep ==
  ASSUME IInv, NEW t \in Threads, grow(t)
  PROVE  IInv'
<1> DEFINE new == [g \in 0 .. 2 * max - 1 |-> IF g < len THEN buffer[data][g] ELSE NULL]
           n == Len(buffer)
           r == [at[t] EXCEPT !.pc = "swap"]
<1>1. /\ at[t].pc = "push" /\ len = max /\ max' = 2 * max /\ buffer' = Append(buffer, new)
      /\ freed' = freed \cup {data} /\ at' = [at EXCEPT ![t].pc = "swap"]
      /\ UNCHANGED <<HeapGen_lock, len, data, alloc_gen, genTlab>>
  BY ZenonT(60) DEF grow
<1>2. HeapGen_lock = t /\ \A u \in Threads : at[u].pc \in {"push", "swap"} => u = t
  BY ZenonT(60), <1>1 DEF IInv, LockHeld
<1>3. DOMAIN buffer[data] = 0 .. max - 1
  BY ZenonT(60), <1>1, <1>2 DEF IInv, Storage
<1>4. \A g \in 0 .. len - 1 : buffer[data][g] \in Gens
  BY ZenonT(60), <1>1, <1>3, Basics DEF IInv, TypeOK
<1>5. new \in [0 .. 2 * max - 1 -> Gens] /\ 2 * max \in Nat
  BY <1>4, Basics DEF NULL
<1>6. new \in Buffer
  BY ZenonT(60), <1>5 DEF Buffer
<1>7. \A g \in 1 .. len - 1 : g \in DOMAIN new /\ new[g] = g
  BY <1>1, Basics DEF IInv, GensInPlace
<1>8. DOMAIN new = 0 .. 2 * max - 1 /\ \A g \in DOMAIN new : new[g] \in Gens
  BY ZenonT(60), <1>5
<1> HIDE DEF new
<1>9. /\ buffer' \in Seq(Buffer) /\ Len(buffer') = n + 1 /\ buffer'[n + 1] = new /\ n \in Nat
      /\ \A b \in 1 .. n : buffer'[b] = buffer[b]
  BY <1>1, <1>6 DEF IInv, Storage
<1>10. /\ at'[t].pc = "swap" /\ at'[t].gen = at[t].gen /\ \A u \in Threads \ {t} : at'[u] = at[u]
       /\ at' \in [Threads -> Call]
  <2>1. at \in [Threads -> Call] /\ at[t] \in Call
    BY ZenonT(60), Basics
  <2>2. r \in Call /\ r.pc = "swap" /\ r.gen = at[t].gen
    BY ZenonT(60), <2>1 DEF Call
  <2>3. at' = [at EXCEPT ![t] = r]
    BY ZenonT(60), <1>1, <2>1
  <2> HIDE DEF r
  <2> QED
    BY ZenonT(60), <2>1, <2>2, <2>3
<1>11. at' \in [Threads -> Call']
  <2>1. 0 .. n \subseteq 0 .. Len(buffer')
    BY <1>9
  <2>2. Call \subseteq Call'
    BY ZenonT(60), <2>1 DEF Call
  <2> QED
    BY ZenonT(60), <1>10, <2>2
<1> HIDE DEF n, r
<1>12. TypeOK'
  <2>1. data' \in 1 .. Len(buffer') /\ freed' \subseteq 1 .. Len(buffer')
    BY <1>1, <1>9, Basics DEF n, IInv, TypeOK
  <2>2. \A b \in 1 .. Len(buffer') : \A g \in DOMAIN buffer'[b] : buffer'[b][g] \in Gens
    <3>1. \A b \in 1 .. n + 1 : b \in 1 .. n \/ b = n + 1
      BY <1>9
    <3> QED
      BY ZenonT(60), <1>8, <1>9, <3>1 DEF IInv, TypeOK, n
  <2>3. len' \in Gens /\ max' \in Nat /\ len' <= max'
    BY <1>1, Basics
  <2> QED
    BY ZenonT(60), <1>1, <1>11, <2>1, <2>2, <2>3 DEF IInv, TypeOK, Call
<1>13. LockHeld'
  BY ZenonT(60), <1>1, <1>2, <1>10 DEF IInv, LockHeld
<1>14. InPlace(Len(buffer))' /\ DOMAIN buffer'[Len(buffer')] = 0 .. max' - 1 /\ len' < max'
  <2>1. DOMAIN buffer'[Len(buffer')] = 0 .. max' - 1 /\ len' < max'
    BY <1>1, <1>8, <1>9, Basics
  <2> QED
    BY <1>1, <1>7, <1>9, <2>1 DEF InPlace
<1>15. Storage'
  BY ZenonT(60), <1>1, <1>9, <1>10, <1>14 DEF Storage, IInv
<1>16. GensInPlace'
  BY ZenonT(60), <1>1, <1>9, Basics DEF IInv, GensInPlace, n
<1>17. Loaded'
  BY <1>1, <1>9, <1>10 DEF IInv, Loaded, n
<1>18. AllocatesFromOwnGen'
  BY ZenonT(60), <1>1, <1>10 DEF IInv, AllocatesFromOwnGen
<1> QED
  BY ZenonT(60), <1>12, <1>13, <1>15, <1>16, <1>17, <1>18 DEF IInv

\* grow installs the buffer it has filled.
LEMMA SetDataStep ==
  ASSUME IInv, NEW t \in Threads, SetData(t)
  PROVE  IInv'
<1> DEFINE r == [at[t] EXCEPT !.pc = "push"]
<1>1. /\ at[t].pc = "swap" /\ data' = Len(buffer) /\ at' = [at EXCEPT ![t].pc = "push"]
      /\ UNCHANGED <<HeapGen_lock, len, max, buffer, freed, alloc_gen, genTlab>>
  BY ZenonT(60) DEF SetData
<1>2. HeapGen_lock = t /\ \A u \in Threads : at[u].pc \in {"push", "swap"} => u = t
  BY ZenonT(60), <1>1 DEF IInv, LockHeld
<1>3. /\ at'[t].pc = "push" /\ at'[t].gen = at[t].gen /\ \A u \in Threads \ {t} : at'[u] = at[u]
      /\ at' \in [Threads -> Call]
  <2>1. at \in [Threads -> Call] /\ at[t] \in Call
    BY Basics
  <2>2. r \in Call /\ r.pc = "push" /\ r.gen = at[t].gen
    BY ZenonT(60), <2>1 DEF Call
  <2>3. at' = [at EXCEPT ![t] = r]
    BY ZenonT(60), <1>1, <2>1
  <2> HIDE DEF r
  <2> QED
    BY ZenonT(60), <2>1, <2>2, <2>3
<1> HIDE DEF r
<1>4. InPlace(Len(buffer)) /\ DOMAIN buffer[Len(buffer)] = 0 .. max - 1
  BY ZenonT(60), <1>1 DEF IInv, Storage
<1>5. TypeOK'
  BY <1>1, <1>3, Basics DEF IInv, TypeOK, Call
<1>6. LockHeld'
  BY ZenonT(60), <1>1, <1>2, <1>3 DEF IInv, LockHeld
<1>7. Storage'
  BY ZenonT(60), <1>1, <1>2, <1>3, <1>4 DEF IInv, Storage
<1>8. GensInPlace'
  BY ZenonT(60), <1>1, <1>4 DEF InPlace, GensInPlace
<1>9. Loaded'
  BY ZenonT(60), <1>1, <1>3 DEF IInv, Loaded
<1>10. AllocatesFromOwnGen'
  BY ZenonT(60), <1>1, <1>3 DEF IInv, AllocatesFromOwnGen
<1> QED
  BY <1>5, <1>6, <1>7, <1>8, <1>9, <1>10 DEF IInv

\* append writes one element, beyond all that readers may look at, and the new
\* generation is at the number that new_alloc_gen read at its start.
LEMMA AppendStep ==
  ASSUME IInv, NEW t \in Threads, append(t)
  PROVE  IInv'
<1> DEFINE b0 == buffer[data]
           b1 == [b0 EXCEPT ![len] = len]
<1>1. /\ at[t].pc = "push" /\ len < max /\ buffer' = [buffer EXCEPT ![data][len] = at[t].gen]
      /\ len' = len + 1 /\ HeapGen_lock' = NoThread /\ set_alloc_gen(t, at[t].gen)
      /\ at' = [at EXCEPT ![t] = Idle] /\ UNCHANGED <<max, data, freed>>
  BY ZenonT(60) DEF append
<1>2. /\ HeapGen_lock = t /\ at[t].gen = len /\ len < GenArraySize + MaxGens
      /\ \A u \in Threads : at[u].pc \in {"push", "swap"} => u = t
  BY ZenonT(60), <1>1 DEF IInv, LockHeld
<1>3. DOMAIN b0 = 0 .. max - 1 /\ \A g \in DOMAIN b0 : b0[g] \in Gens
  BY ZenonT(60), <1>1, <1>2, Basics DEF IInv, Storage, TypeOK
<1>4. b0 \in [0 .. max - 1 -> Gens]
  <2>1. PICK m \in Nat : b0 \in [0 .. m - 1 -> Gens]
    BY Basics DEF IInv, Storage, Buffer
  <2>2. 0 .. m - 1 = 0 .. max - 1
    BY ZenonT(60), <1>3, <2>1
  <2> QED
    BY ZenonT(60), <2>1, <2>2
<1> HIDE DEF b0
<1>5. /\ b1 \in [0 .. max - 1 -> Gens] /\ b1[len] = len
      /\ \A g \in 0 .. max - 1 : g # len => b1[g] = b0[g]
  BY <1>1, <1>4, Basics
<1> HIDE DEF b1
<1>6. b1 \in Buffer
  BY ZenonT(60), <1>5, Basics DEF Buffer
<1>7. buffer' = [buffer EXCEPT ![data] = b1]
  BY <1>1, <1>2, ZenonT(60) DEF b0, b1
<1>8. /\ buffer' \in Seq(Buffer) /\ Len(buffer') = Len(buffer) /\ buffer'[data] = b1
      /\ \A b \in 1 .. Len(buffer) : b # data => buffer'[b] = buffer[b]
  <2>1. buffer \in Seq(Buffer) /\ data \in 1 .. Len(buffer)
    BY ZenonT(60), Basics DEF IInv, Storage
  <2> QED
    BY <1>6, <1>7, <2>1
<1>9. at' \in [Threads -> Call] /\ at'[t] = Idle /\ \A u \in Threads \ {t} : at'[u] = at[u]
  BY ZenonT(60), <1>1, Basics
<1>10. /\ alloc_gen' \in [Threads -> Gens] /\ genTlab' \in [Threads -> Gens \cup {Garbage}]
       /\ \A u \in Threads : alloc_gen'[u] < len'
  <2>1. alloc_gen' = [alloc_gen EXCEPT ![t] = len]
    BY ZenonT(60), <1>1, <1>2 DEF set_alloc_gen
  <2>2. \A u \in Threads : alloc_gen[u] < len /\ alloc_gen[u] \in Nat
    BY DEF IInv, Loaded, TypeOK, Gens
  <2>3. \A u \in Threads : alloc_gen'[u] < len'
    BY <1>1, <2>1, <2>2, Basics DEF IInv, TypeOK
  <2> QED
    BY ZenonT(60), <1>1, <1>2, <2>1, <2>3, Basics DEF IInv, TypeOK, set_alloc_gen
<1>11. TypeOK'
  <2>1. \A b \in 1 .. Len(buffer') : \A g \in DOMAIN buffer'[b] : buffer'[b][g] \in Gens
    BY ZenonT(60), <1>5, <1>8 DEF IInv, TypeOK
  <2>2. len' \in Gens /\ len' <= max'
    BY <1>1, <1>2, Basics DEF Gens
  <2> QED
    BY ZenonT(60), <1>1, <1>8, <1>9, <1>10, <2>1, <2>2 DEF IInv, TypeOK, Call
<1>12. LockHeld'
  BY <1>1, <1>2, <1>9, Basics DEF IInv, LockHeld, Idle
<1>13. \A b \in 1 .. Len(buffer) : \A g \in 0 .. len - 1 :
         g \in DOMAIN buffer[b] => g \in DOMAIN buffer'[b] /\ buffer'[b][g] = buffer[b][g]
  <2> SUFFICES ASSUME NEW b \in 1 .. Len(buffer), NEW g \in 0 .. len - 1, g \in DOMAIN buffer[b]
               PROVE  g \in DOMAIN buffer'[b] /\ buffer'[b][g] = buffer[b][g]
    BY ZenonT(60)
  <2>1. CASE b = data
    <3>1. g \in 0 .. max - 1 /\ g # len
      BY <1>1, Basics
    <3>2. buffer'[b] = b1 /\ buffer[b] = b0
      BY ZenonT(60), <1>8, <2>1 DEF b0
    <3> QED
      BY ZenonT(60), <1>5, <3>1, <3>2
  <2>2. CASE b # data
    BY ZenonT(60), <1>8, <2>2
  <2> QED
    BY ZenonT(60), <2>1, <2>2
<1>14. GensInPlace'
  <2> SUFFICES ASSUME NEW g \in 1 .. len' - 1
               PROVE  g \in DOMAIN buffer'[data'] /\ buffer'[data'][g] = g
    BY ZenonT(60) DEF GensInPlace
  <2>1. CASE g = len
    BY <1>1, <1>5, <1>8, <2>1, Basics
  <2>2. CASE g # len
    <3>1. g \in 1 .. len - 1
      BY <1>1, <2>2, Basics
    <3> QED
      BY <1>1, <1>13, <3>1, Basics DEF IInv, GensInPlace
  <2> QED
    BY ZenonT(60), <2>1, <2>2
<1>15. Storage'
  <2>1. \A u \in Threads : at'[u].pc # "swap"
    BY <1>2, <1>9 DEF Idle
  <2>2. GenArraySize <= len'
    BY <1>1, Basics DEF IInv, Storage
  <2> QED
    BY ZenonT(60), <1>1, <1>5, <1>8, <2>1, <2>2 DEF Storage
<1>16. Loaded'
  <2> SUFFICES ASSUME NEW u \in Threads, at'[u].pc = "index"
               PROVE  /\ 0 < at'[u].gen /\ at'[u].gen < len' /\ at'[u].data \in 1 .. Len(buffer')
                      /\ at'[u].gen \in DOMAIN buffer'[at'[u].data]
                      /\ buffer'[at'[u].data][at'[u].gen] = at'[u].gen
    BY ZenonT(60), <1>10 DEF Loaded
  <2>1. u # t /\ at'[u] = at[u]
    BY <1>9 DEF Idle
  <2>2. /\ 0 < at[u].gen /\ at[u].gen < len /\ at[u].data \in 1 .. Len(buffer)
        /\ at[u].gen \in DOMAIN buffer[at[u].data] /\ at[u].gen \in Nat
        /\ buffer[at[u].data][at[u].gen] = at[u].gen
    BY <2>1 DEF IInv, Loaded, TypeOK, Gens
  <2>3. at[u].gen \in 0 .. len - 1
    BY <2>2, Basics
  <2> QED
    BY <1>1, <1>8, <1>13, <2>1, <2>2, <2>3, Basics
<1>17. AllocatesFromOwnGen'
  BY ZenonT(60), <1>1, <1>9 DEF IInv, AllocatesFromOwnGen, Idle
<1> QED
  BY ZenonT(60), <1>11, <1>12, <1>14, <1>15, <1>16, <1>17 DEF IInv

\* A thread selects a generation that exists.
LEMMA SetAllocGenStep ==
  ASSUME IInv, NEW t \in Threads, SetAllocGen(t)
  PROVE  IInv'
<1>1. PICK gen \in 0 .. len - 1 : set_alloc_gen(t, gen)
  BY ZenonT(60) DEF SetAllocGen
<1>2. UNCHANGED <<HeapGen_lock, len, max, data, buffer, freed, at>>
  BY ZenonT(60) DEF SetAllocGen, heap
<1>3. gen \in Gens /\ gen < len
  BY Basics
<1>4. TypeOK'
  BY ZenonT(60), <1>1, <1>2, <1>3 DEF IInv, TypeOK, set_alloc_gen
<1>5. Loaded'
  BY <1>1, <1>2, <1>3 DEF IInv, TypeOK, Loaded, set_alloc_gen
<1>6. LockHeld' /\ Storage' /\ GensInPlace' /\ AllocatesFromOwnGen'
  BY ZenonT(60), <1>2 DEF IInv, LockHeld, Storage, InPlace, GensInPlace, AllocatesFromOwnGen
<1> QED
  BY ZenonT(60), <1>4, <1>5, <1>6 DEF IInv

-----------------------------------------------------------------------------
\* The generations created at startup are in place.
LEMMA InitHolds == Init => IInv
<1> SUFFICES ASSUME Init PROVE IInv
  BY ZenonT(60)
<1> DEFINE b0 == [g \in 0 .. GenArraySize - 1 |-> g]
<1>1. GenArraySize \in Nat /\ GenArraySize > 1 /\ MaxGens \in Nat /\ NoThread \notin Threads
  BY AllocGensAssumption
<1>2. /\ HeapGen_lock = NoThread /\ len = GenArraySize /\ max = GenArraySize /\ data = 1
      /\ buffer = <<b0>> /\ freed = {} /\ alloc_gen = [t \in Threads |-> 1]
      /\ genTlab = [t \in Threads |-> 1] /\ at = [t \in Threads |-> Idle]
  BY ZenonT(60) DEF Init
<1>3. /\ b0 \in [0 .. GenArraySize - 1 -> Gens]
      /\ \A g \in 0 .. GenArraySize - 1 : b0[g] = g
  BY <1>1 DEF Gens
<1> HIDE DEF b0
<1>4. b0 \in Buffer /\ DOMAIN b0 = 0 .. GenArraySize - 1
  BY ZenonT(60), <1>1, <1>3 DEF Buffer
<1>5. buffer \in Seq(Buffer) /\ Len(buffer) = 1 /\ buffer[1] = b0
  BY <1>2, <1>4
<1>6. TypeOK
  <2>1. 0 \in Gens /\ 1 \in Gens /\ len \in Gens
    BY <1>1, <1>2 DEF Gens
  <2> QED
    BY <1>1, <1>2, <1>3, <1>5, <2>1 DEF TypeOK, Idle
<1>7. LockHeld /\ AllocatesFromOwnGen
  BY ZenonT(60), <1>1, <1>2 DEF LockHeld, AllocatesFromOwnGen, Idle
<1>8. Storage /\ Loaded /\ GensInPlace
  BY <1>1, <1>2, <1>3, <1>4, <1>5 DEF Storage, Loaded, GensInPlace, Idle
<1> QED
  BY ZenonT(60), <1>6, <1>7, <1>8 DEF IInv

\* Every step preserves the invariant.
LEMMA NextPreserves == IInv /\ [Next]_vars => IInv'
<1> SUFFICES ASSUME IInv, [Next]_vars PROVE IInv'
  BY ZenonT(60)
<1>1. ASSUME NEW t \in Threads, NewAllocGen(t) \/ grow(t) \/ SetData(t) \/ append(t)
      PROVE  IInv'
  BY ZenonT(60), <1>1, NewStep, GrowStep, SetDataStep, AppendStep
<1>2. ASSUME NEW t \in Threads, SetAllocGen(t) \/ LoadData(t) \/ LoadRegion(t) \/ collect_alloc_gen(t)
      PROVE  IInv'
  BY ZenonT(60), <1>2, SetAllocGenStep, LoadDataStep, LoadRegionStep, CollectStep
<1>3. ASSUME NEW t \in Threads, Allocated(t) \/ Collected(t)
      PROVE  IInv'
  BY ZenonT(60), <1>3, IdleStep DEF Allocated, Collected
<1>4. UNCHANGED vars => IInv'
  BY DEF vars, heap, IInv, TypeOK, LockHeld, Storage, InPlace, GensInPlace, Loaded, AllocatesFromOwnGen
<1> QED
  BY <1>1, <1>2, <1>3, <1>4 DEF Next

\* The inductive invariant.
LEMMA Invariance == Spec => []IInv
  BY InitHolds, NextPreserves, PTL DEF Spec

\* However many threads call newAllocGen at a time, and however often the array
\* grows meanwhile, the region of each generation is at the generation's number.
THEOREM GensAreInPlace == Spec => []GensInPlace
<1>1. IInv => GensInPlace
  BY ZenonT(60) DEF IInv
<1> QED
  BY <1>1, Invariance, PTL

\* An allocation that reads the array without the lock uses its own generation's
\* region, unless grow() freed the buffer between its two loads.
THEOREM AllocationsUseOwnGen == Spec => []AllocatesFromOwnGen
<1>1. IInv => AllocatesFromOwnGen
  BY ZenonT(60) DEF IInv
<1> QED
  BY <1>1, Invariance, PTL

\* The array is never indexed beyond its capacity or a thread's element.
THEOREM AllocGensTypes == Spec => []TypeOK
<1>1. IInv => TypeOK
  BY ZenonT(60) DEF IInv
<1> QED
  BY <1>1, Invariance, PTL

=============================================================================
