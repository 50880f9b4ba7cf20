---------------------------- MODULE MarkWordProofs ----------------------------
(***************************************************************************)
(* The safety of the tagged mark word, for any number of threads and any   *)
(* layout of the two fields that share bits.                               *)
(*                                                                         *)
(* The argument follows the header wherever it is kept (Real): a step      *)
(* either leaves its site and its hash alone, or finds that it has no hash *)
(* (HeaderStep).  The header must therefore never be read from a place it  *)
(* has left: a monitor that was deflated, or the box of a thread that has  *)
(* unlocked meanwhile (Places).                                            *)
(***************************************************************************)
EXTENDS MarkWord, TLAPS

\* A leaf that names no prover is for the SMT solver.
USE SMTT(60)

\* Where the header is, and that a thread at work on it looks there.
Places ==
  /\ mark.kind = "locked" => mark.owner \in Threads
  /\ mark.kind = "inflating" => \E t \in Threads : thread[t].pc = "publish"
  /\ \A t \in Threads : thread[t].pc = "publish" =>
       /\ mark.kind = "inflating" /\ thread[t].owner \in Threads
       /\ \A u \in Threads : thread[u].pc = "publish" => u = t
  /\ \A t \in Threads : thread[t].pc \in {"enter", "hash", "moncas"} => mark.kind = "monitor"

\* A header about to be installed carries a hash and replaces one without.
Drawn ==
  \A t \in Threads : thread[t].pc \in {"cas", "moncas"} =>
    /\ hash(thread[t].old) = 0 /\ hash(thread[t].new) # 0
    /\ thread[t].new.site = thread[t].old.site
    /\ thread[t].pc = "moncas" =>
         monitor.header = thread[t].old \/ hash(monitor.header) # 0

\* A hash that was returned is the header's.
Returned == \A a \in returned : a = hash(Real) /\ a # 0

SiteKept == Real.site \in {0, tag[1]}

IInv == TypeOK /\ Places /\ Drawn /\ Returned /\ SiteKept /\ CountedForOwnSite /\ TagKept

-----------------------------------------------------------------------------
(* The fields of a header. *)

\* A header's hash is absent exactly when all of its bits are zero, those the
\* tag supplies included (markOopDesc::hash, has_no_hash).
LEMMA HashZero ==
  ASSUME NEW h \in Header
  PROVE  hash(h) \in Nat /\ (hash(h) = 0 <=> h.shared = 0 /\ h.low = 0)
<1>1. h.shared \in Nat /\ h.low \in Nat /\ LowSize \in Nat /\ LowSize > 1
  BY MarkWordAssumption DEF Header
<1>2. h.shared = 0 => h.shared * LowSize = 0
  BY <1>1
<1>3. h.shared # 0 => h.shared * LowSize > 0
  BY <1>1
<1>4. h.shared * LowSize \in Nat
  BY <1>1
<1> DEFINE high == h.shared * LowSize
<1> HIDE DEF high
<1>5. high + h.low \in Nat /\ (high + h.low = 0 <=> h.shared = 0 /\ h.low = 0)
  BY <1>1, <1>2, <1>3, <1>4 DEF high
<1> QED
  BY ZenonT(60), <1>5 DEF hash, high

\* Division with remainder.
LEMMA DivMod ==
  ASSUME NEW v \in Nat, NEW d \in Nat, d > 0, NEW q \in Nat, NEW r \in Nat,
         q = v \div d, r = v % d
  PROVE  r < d /\ v = d * q + r
  OBVIOUS

\* copy_set_hash stores a new hash in a header: it stays a header, is hashed
\* from then on, and keeps its site.
LEMMA CopySetHash ==
  ASSUME NEW h \in Header, NEW value \in NewHashes
  PROVE  /\ copy_set_hash(h, value) \in Header
         /\ hash(copy_set_hash(h, value)) # 0
         /\ copy_set_hash(h, value).site = h.site
<1> DEFINE hi == value \div LowSize
           lo == value % LowSize
<1>1. /\ LowSize \in Nat /\ LowSize > 1 /\ SharedSize \in Nat /\ SharedSize > 1
      /\ SharedSize * LowSize \in Nat
  BY MarkWordAssumption
<1>2. value \in Nat /\ value > 0 /\ value < SharedSize * LowSize
  BY <1>1 DEF NewHashes
<1>3. hi \in Nat /\ lo \in Nat /\ lo < LowSize /\ value = LowSize * hi + lo
  <2>1. hi \in Nat /\ lo \in Nat
    BY <1>1, <1>2
  <2>2. ASSUME NEW q \in Nat, NEW r \in Nat, q = hi, r = lo
        PROVE  r < LowSize /\ value = LowSize * q + r
    BY <1>1, <1>2, <2>2, DivMod
  <2> HIDE DEF hi, lo
  <2> QED
    BY ZenonT(60), <2>1, <2>2
<1>4. hi < SharedSize
  <2>1. SUFFICES ASSUME hi >= SharedSize PROVE FALSE
    BY <1>1, <1>3
  <2> HIDE DEF hi, lo
  <2> DEFINE k == hi - SharedSize
  <2>2. k \in Nat /\ hi = SharedSize + k
    BY <2>1, <1>1, <1>3
  <2> HIDE DEF k
  <2>3. LowSize * hi = SharedSize * LowSize + LowSize * k
    BY <2>2, <1>1
  <2>4. LowSize * k \in Nat
    BY <1>1, <2>2
  <2> QED
    BY <2>3, <2>4, <1>1, <1>2, <1>3
<1>5. hi # 0 \/ lo # 0
  BY <1>1, <1>2, <1>3
<1>6. copy_set_hash(h, value) = [h EXCEPT !.shared = hi, !.low = lo]
  BY ZenonT(60) DEF copy_set_hash
<1> HIDE DEF hi, lo
<1>7. copy_set_hash(h, value) \in Header
  <2>1. hi \in 0 .. SharedSize - 1 /\ lo \in 0 .. LowSize - 1
    BY <1>1, <1>3, <1>4
  <2> QED
    BY ZenonT(60), <1>6, <2>1 DEF Header
<1>8. /\ copy_set_hash(h, value).site = h.site
      /\ copy_set_hash(h, value).shared = hi /\ copy_set_hash(h, value).low = lo
  BY ZenonT(60), <1>6 DEF Header
<1> QED
  BY ZenonT(60), <1>5, <1>7, <1>8, HashZero

\* incr_age leaves the tag and the hash alone.
LEMMA IncrAge ==
  ASSUME NEW h \in Header
  PROVE  /\ incr_age(h) \in Header
         /\ incr_age(h).site = h.site /\ incr_age(h).shared = h.shared
         /\ incr_age(h).low = h.low /\ hash(incr_age(h)) = hash(h)
  BY MarkWordAssumption DEF Header, incr_age, hash

\* The header without tag and hash is a header.
LEMMA PrototypeHeader == Prototype \in Header
  BY MarkWordAssumption DEF Header, Prototype

-----------------------------------------------------------------------------
(* Where the header is. *)

RealIs ==
  /\ Real \in Header
  /\ mark.kind = "neutral" => Real = mark.header
  /\ mark.kind = "locked" => Real = box[mark.owner]
  /\ mark.kind = "monitor" => Real = monitor.header
  /\ \A t \in Threads : thread[t].pc = "publish" => Real = box[thread[t].owner]

\* The header is where the kind of the mark says.
LEMMA RealAt == TypeOK /\ Places => RealIs
<1> SUFFICES ASSUME TypeOK, Places PROVE RealIs
  BY ZenonT(60)
<1>1. CASE mark.kind = "neutral"
  BY ZenonT(60), <1>1 DEF TypeOK, Places, Real, RealIs
<1>2. CASE mark.kind = "locked"
  BY ZenonT(60), <1>2 DEF TypeOK, Places, Real, RealIs
<1>3. CASE mark.kind = "monitor"
  BY ZenonT(60), <1>3 DEF TypeOK, Places, Real, RealIs
<1>4. CASE mark.kind = "inflating"
  <2> DEFINE p == CHOOSE t \in Threads : thread[t].pc = "publish"
  <2>1. p \in Threads /\ thread[p].pc = "publish"
    BY ZenonT(60), <1>4 DEF Places
  <2>2. Real = box[thread[p].owner]
    BY ZenonT(60), <1>4 DEF Real
  <2>3. thread[p].owner \in Threads /\ \A t \in Threads : thread[t].pc = "publish" => t = p
    BY ZenonT(60), <2>1 DEF Places
  <2> HIDE DEF p
  <2> QED
    BY ZenonT(60), <1>4, <2>1, <2>2, <2>3 DEF TypeOK, RealIs
<1> QED
  BY ZenonT(60), <1>1, <1>2, <1>3, <1>4 DEF TypeOK

\* The same after a step.
LEMMA RealAtNext == TypeOK' /\ Places' => RealIs'
  BY RealAt, PTL

\* What a step may do to the header: it keeps the site, the shared bits and the
\* hash, or the header has no hash yet, and then it keeps the site or loses it.
HeaderStep ==
  \/ Real'.site = Real.site /\ Real'.shared = Real.shared /\ hash(Real') = hash(Real)
  \/ hash(Real) = 0 /\ Real'.site \in {0, Real.site}

\* A hash that the step returns is the one the header now has.
Answered == \A a \in returned' : a \in returned \/ (a = hash(Real') /\ a # 0)

\* A tag that the step counts is the one the header has.
Counted == \A c \in counted' : c \in counted \/ (c[1] = Real.site /\ c[1] # 0)

StepOK == TypeOK' /\ Places' /\ Drawn' /\ HeaderStep /\ Answered /\ Counted /\ tag' = tag

\* Such a step keeps the invariant.
LEMMA StepPreserves == IInv /\ StepOK => IInv'
<1> SUFFICES ASSUME IInv, StepOK PROVE IInv'
  BY ZenonT(60)
<1>1. Real \in Header /\ Real' \in Header
  BY ZenonT(60), RealAt, RealAtNext DEF IInv, StepOK, RealIs
<1>2. hash(Real) = 0 <=> Real.shared = 0 /\ Real.low = 0
  BY ZenonT(60), <1>1, HashZero
<1>3. tag' = tag /\ tag[1] \in Sites
  BY ZenonT(60) DEF StepOK, IInv, TypeOK
<1>4. Returned'
  BY ZenonT(60) DEF IInv, StepOK, Returned, HeaderStep, Answered
<1>5. SiteKept'
  BY ZenonT(60), <1>3 DEF IInv, StepOK, SiteKept, HeaderStep
<1>6. CountedForOwnSite'
  BY <1>3 DEF IInv, StepOK, CountedForOwnSite, SiteKept, Counted
<1>7. TagKept'
  <2> SUFFICES ASSUME tag[2] # 0 PROVE ng2c_prof(Real') = tag
    BY ZenonT(60), <1>3 DEF TagKept
  <2>1. tag = <<Real.site, Real.shared>>
    BY ZenonT(60) DEF IInv, TagKept, ng2c_prof
  <2>2. hash(Real) # 0
    BY ZenonT(60), <1>2, <2>1
  <2> QED
    BY ZenonT(60), <2>1, <2>2 DEF StepOK, HeaderStep, ng2c_prof
<1> QED
  BY ZenonT(60), <1>4, <1>5, <1>6, <1>7 DEF IInv, StepOK

-----------------------------------------------------------------------------
(* The steps of a thread. *)

Points == {"idle", "inflate", "publish", "enter", "cas", "hash", "moncas"}

\* One thread's record is replaced.
LEMMA MovedThread ==
  ASSUME TypeOK, NEW t \in Threads, NEW r \in Thread, thread' = [thread EXCEPT ![t] = r]
  PROVE  /\ thread' \in [Threads -> Thread] /\ thread'[t] = r
         /\ \A u \in Threads \ {t} : thread'[u] = thread[u]
  BY ZenonT(60) DEF TypeOK

\* A thread that goes on with a well-formed header stays well-formed.
LEMMA GotoType ==
  ASSUME TypeOK, NEW t \in Threads, NEW p \in Points, Goto(t, p)
  PROVE  /\ thread' \in [Threads -> Thread] /\ thread'[t].pc = p
         /\ \A u \in Threads \ {t} : thread'[u] = thread[u]
<1>1. [Resting EXCEPT !.pc = p, !.holds = thread[t].holds] \in Thread
  BY ZenonT(60), PrototypeHeader DEF TypeOK, Thread, Resting, Points
<1>2. [Resting EXCEPT !.pc = p, !.holds = thread[t].holds].pc = p
  BY ZenonT(60) DEF Resting
<1> QED
  BY ZenonT(60), <1>1, <1>2 DEF TypeOK, Goto

\* The same for a thread on its way to inflation.
LEMMA GotoInflateType ==
  ASSUME TypeOK, NEW t \in Threads, NEW w \in {"enter", "hash"}, GotoInflate(t, w)
  PROVE  /\ thread' \in [Threads -> Thread] /\ thread'[t].pc = "inflate"
         /\ \A u \in Threads \ {t} : thread'[u] = thread[u]
<1> DEFINE r == [Resting EXCEPT !.pc = "inflate", !.then = w, !.holds = thread[t].holds]
<1>1. r \in Thread
  BY ZenonT(60), PrototypeHeader DEF TypeOK, Thread, Resting
<1>2. r.pc = "inflate"
  BY ZenonT(60) DEF Resting
<1> QED
  BY ZenonT(60), <1>1, <1>2 DEF TypeOK, GotoInflate

\* slow_enter moves the header from the mark to the thread's box.
LEMMA SlowEnterStep ==
  ASSUME IInv, NEW t \in Threads, slow_enter(t)
  PROVE  StepOK
<1> USE DEF slow_enter
<1>1. RealIs
  BY ZenonT(60), RealAt DEF IInv
<1>2. TypeOK'
  <2> DEFINE r == [thread[t] EXCEPT !.holds = TRUE]
  <2>1. r \in Thread
    BY ZenonT(60) DEF IInv, TypeOK, Thread
  <2>2. thread' \in [Threads -> Thread]
    BY ZenonT(60), <2>1 DEF IInv, TypeOK
  <2>3. mark' \in [kind : {"neutral", "locked", "inflating", "monitor"},
                   header : Header, owner : Threads \cup {NoThread}]
    BY ZenonT(60), PrototypeHeader DEF Locked
  <2> QED
    BY ZenonT(60), <2>2, <2>3 DEF IInv, TypeOK
<1>3. Places' /\ Drawn'
  BY DEF IInv, TypeOK, Places, Drawn, Locked, Thread
<1>4. Real' = box'[t]
  BY ZenonT(60), <1>2, <1>3, RealAtNext DEF RealIs, Locked
<1>5. Real' = Real
  BY ZenonT(60), <1>1, <1>4 DEF RealIs, IInv, TypeOK
<1> QED
  BY ZenonT(60), <1>2, <1>3, <1>5 DEF StepOK, HeaderStep, Answered, Counted

\* A step that leaves the places of the header alone leaves the header alone.
LEMMA Unmoved ==
  ASSUME TypeOK, Places, TypeOK', Places', mark' = mark, box' = box,
         monitor'.header = monitor.header,
         \A u \in Threads : thread'[u].pc = "publish" => thread'[u] = thread[u]
  PROVE  Real' = Real
<1>1. RealIs /\ RealIs'
  BY ZenonT(60), RealAt, RealAtNext
<1> QED
  BY <1>1 DEF RealIs, TypeOK, Places

\* A locked mark sends the thread to inflation.
LEMMA EnterContendedStep ==
  ASSUME IInv, NEW t \in Threads, EnterContended(t)
  PROVE  StepOK
<1> USE DEF EnterContended
<1>1. /\ thread' \in [Threads -> Thread] /\ thread'[t].pc = "inflate"
      /\ \A u \in Threads \ {t} : thread'[u] = thread[u]
  BY ZenonT(60), GotoInflateType DEF IInv
<1>2. TypeOK'
  BY ZenonT(60), <1>1 DEF IInv, TypeOK
<1>3. Places'
  BY <1>1 DEF IInv, Places
<1>4. Drawn'
  BY <1>1 DEF IInv, Drawn
<1>5. Real' = Real
  BY ZenonT(60), <1>1, <1>2, <1>3, Unmoved DEF IInv
<1> QED
  BY ZenonT(60), <1>2, <1>3, <1>4, <1>5 DEF StepOK, HeaderStep, Answered, Counted

\* The monitor is entered; the header is not touched.
LEMMA EnterStep ==
  ASSUME IInv, NEW t \in Threads, Enter(t)
  PROVE  StepOK
<1> USE DEF Enter
<1>1. /\ thread' \in [Threads -> Thread] /\ thread'[t].pc = "idle"
      /\ \A u \in Threads \ {t} : thread'[u] = thread[u]
  <2> DEFINE r == [thread[t] EXCEPT !.pc = "idle", !.holds = TRUE]
  <2>1. TypeOK /\ thread[t] \in Thread /\ thread \in [Threads -> Thread]
    BY ZenonT(60) DEF IInv, TypeOK
  <2>2. r \in Thread /\ r.pc = "idle"
    BY ZenonT(60), <2>1 DEF Thread
  <2>3. thread' = [thread EXCEPT ![t] = r]
    BY ZenonT(60), <2>1
  <2> HIDE DEF r
  <2> QED
    BY ZenonT(60), <2>1, <2>2, <2>3, MovedThread
<1>2. monitor'.header = monitor.header
  BY ZenonT(60) DEF IInv, TypeOK
<1>3. TypeOK'
  BY ZenonT(60), <1>1 DEF IInv, TypeOK
<1>4. Places'
  BY <1>1 DEF IInv, Places
<1>5. Drawn'
  BY <1>1, <1>2 DEF IInv, Drawn
<1>6. Real' = Real
  BY ZenonT(60), <1>1, <1>2, <1>3, <1>4, Unmoved DEF IInv
<1> QED
  BY ZenonT(60), <1>3, <1>4, <1>5, <1>6 DEF StepOK, HeaderStep, Answered, Counted

\* The owner's unlock moves the header back to the mark, or finds it in the
\* monitor; it can do neither while another thread is inflating.
LEMMA FastExitStep ==
  ASSUME IInv, NEW t \in Threads, fast_exit(t)
  PROVE  StepOK
<1> USE DEF fast_exit
<1>1. /\ thread' \in [Threads -> Thread] /\ thread'[t].pc = "idle"
      /\ \A u \in Threads \ {t} : thread'[u] = thread[u]
  <2> DEFINE r == [thread[t] EXCEPT !.holds = FALSE]
  <2>1. TypeOK /\ thread[t] \in Thread /\ thread \in [Threads -> Thread]
    BY ZenonT(60) DEF IInv, TypeOK
  <2>2. r \in Thread /\ r.pc = "idle"
    BY ZenonT(60), <2>1 DEF Thread
  <2>3. thread' = [thread EXCEPT ![t] = r]
    BY ZenonT(60), <2>1
  <2> HIDE DEF r
  <2> QED
    BY ZenonT(60), <2>1, <2>2, <2>3, MovedThread
<1>2. RealIs
  BY ZenonT(60), RealAt DEF IInv
<1>3. CASE mark = Locked(t) /\ mark' = Neutral(box[t])
                            /\ box' = [box EXCEPT ![t] = Prototype] /\ UNCHANGED monitor
  <2>1. TypeOK'
    BY ZenonT(60), <1>1, <1>3, PrototypeHeader DEF IInv, TypeOK, Neutral
  <2>2. Places' /\ Drawn'
    BY <1>1, <1>3 DEF IInv, Places, Drawn, Neutral, Locked
  <2>3. Real' = box[t]
    BY ZenonT(60), <1>3, <2>1, <2>2, RealAtNext DEF RealIs, Neutral
  <2>4. Real' = Real
    BY ZenonT(60), <1>2, <1>3, <2>3 DEF RealIs, Locked
  <2> QED
    BY ZenonT(60), <2>1, <2>2, <2>4 DEF StepOK, HeaderStep, Answered, Counted
<1>4. CASE /\ mark.kind = "monitor" /\ monitor' = [monitor EXCEPT !.owner = NoThread]
           /\ box' = [box EXCEPT ![t] = Prototype] /\ UNCHANGED mark
  <2>1. monitor'.header = monitor.header
    BY ZenonT(60), <1>4 DEF IInv, TypeOK
  <2>2. TypeOK'
    BY ZenonT(60), <1>1, <1>4, PrototypeHeader DEF IInv, TypeOK
  <2>3. Places' /\ Drawn'
    BY <1>1, <1>4, <2>1 DEF IInv, Places, Drawn
  <2>4. Real' = monitor'.header
    BY ZenonT(60), <1>4, <2>2, <2>3, RealAtNext DEF RealIs
  <2>5. Real' = Real
    BY ZenonT(60), <1>2, <1>4, <2>1, <2>4 DEF RealIs
  <2> QED
    BY <2>2, <2>3, <2>5 DEF StepOK, HeaderStep, Answered, Counted
<1> QED
  BY ZenonT(60), <1>3, <1>4

\* inflate moves a neutral header to the monitor; over a stack lock it only
\* marks the word, and the header stays in the owner's box.
LEMMA InflateStep ==
  ASSUME IInv, NEW t \in Threads, inflate(t)
  PROVE  StepOK
<1> USE DEF inflate
<1>1. RealIs
  BY ZenonT(60), RealAt DEF IInv
<1>2. thread[t].then \in Points
  BY ZenonT(60) DEF IInv, TypeOK, Thread, Points
<1>3. thread[t].then \notin {"publish", "cas", "moncas"}
  BY ZenonT(60) DEF IInv, TypeOK, Thread
<1>4. CASE mark.kind = "monitor" /\ Goto(t, thread[t].then) /\ UNCHANGED <<mark, monitor>>
  <2>1. /\ thread' \in [Threads -> Thread] /\ thread'[t].pc = thread[t].then
        /\ \A u \in Threads \ {t} : thread'[u] = thread[u]
    BY ZenonT(60), <1>2, <1>4, GotoType DEF IInv
  <2>2. TypeOK'
    BY ZenonT(60), <1>4, <2>1 DEF IInv, TypeOK
  <2>3. Places'
    BY ZenonT(60), <1>3, <1>4, <2>1 DEF IInv, Places
  <2>4. Drawn'
    BY <1>3, <1>4, <2>1 DEF IInv, Drawn
  <2>5. Real' = Real
    BY ZenonT(60), <1>3, <1>4, <2>1, <2>2, <2>3, Unmoved DEF IInv
  <2> QED
    BY ZenonT(60), <2>2, <2>3, <2>4, <2>5 DEF StepOK, HeaderStep, Answered, Counted
<1>5. CASE /\ mark.kind = "neutral" /\ mark' = Inflated /\ Goto(t, thread[t].then)
           /\ monitor' = [header |-> mark.header, owner |-> NoThread]
  <2>1. /\ thread' \in [Threads -> Thread] /\ thread'[t].pc = thread[t].then
        /\ \A u \in Threads \ {t} : thread'[u] = thread[u]
    BY ZenonT(60), <1>2, <1>5, GotoType DEF IInv
  <2>2. TypeOK'
    BY ZenonT(60), <1>5, <2>1, PrototypeHeader DEF IInv, TypeOK, Inflated
  <2>3. Places'
    BY <1>3, <1>5, <2>1 DEF IInv, Places, Inflated
  <2>4. Drawn'
    BY <1>3, <1>5, <2>1 DEF IInv, Drawn, Places
  <2>5. Real' = mark.header
    BY ZenonT(60), <1>5, <2>2, <2>3, RealAtNext DEF RealIs, Inflated
  <2>6. Real' = Real
    BY ZenonT(60), <1>1, <1>5, <2>5 DEF RealIs
  <2> QED
    BY <2>2, <2>3, <2>4, <2>6 DEF StepOK, HeaderStep, Answered, Counted
<1>6. CASE /\ mark.kind = "locked" /\ mark' = Inflating /\ UNCHANGED monitor
           /\ thread' = [thread EXCEPT ![t].pc = "publish", ![t].owner = mark.owner]
  <2>1. /\ thread' \in [Threads -> Thread]
        /\ thread'[t].pc = "publish" /\ thread'[t].owner = mark.owner
        /\ \A u \in Threads \ {t} : thread'[u] = thread[u]
    <3> DEFINE r == [thread[t] EXCEPT !.pc = "publish", !.owner = mark.owner]
    <3>1. thread[t] \in Thread /\ thread \in [Threads -> Thread]
      BY ZenonT(60) DEF IInv, TypeOK
    <3>2. r \in Thread /\ r.pc = "publish" /\ r.owner = mark.owner
      BY ZenonT(60), <3>1 DEF Thread, IInv, TypeOK
    <3>3. thread' = [thread EXCEPT ![t] = r]
      BY ZenonT(60), <1>6, <3>1
    <3> HIDE DEF r
    <3> QED
      BY ZenonT(60), <3>1, <3>2, <3>3
  <2>2. TypeOK'
    BY ZenonT(60), <1>6, <2>1, PrototypeHeader DEF IInv, TypeOK, Inflating
  <2>3. Places'
    BY <1>6, <2>1 DEF IInv, Places, Inflating
  <2>4. Drawn'
    BY ZenonT(60), <1>6, <2>1 DEF IInv, Drawn
  <2>5. Real' = box[mark.owner]
    BY ZenonT(60), <2>1, <2>2, <2>3, RealAtNext DEF RealIs
  <2>6. Real' = Real
    BY ZenonT(60), <1>1, <1>6, <2>5 DEF RealIs
  <2> QED
    BY <2>2, <2>3, <2>4, <2>6 DEF StepOK, HeaderStep, Answered, Counted
<1> QED
  BY ZenonT(60), <1>4, <1>5, <1>6

\* The box the inflating thread copies from still holds the header: its owner
\* could not unlock.
LEMMA PublishStep ==
  ASSUME IInv, NEW t \in Threads, Publish(t)
  PROVE  StepOK
<1> USE DEF Publish
<1>1. RealIs
  BY ZenonT(60), RealAt DEF IInv
<1>2. thread[t].then \in Points /\ thread[t].then \notin {"publish", "cas", "moncas"}
  BY ZenonT(60) DEF IInv, TypeOK, Thread, Points
<1>3. /\ thread' \in [Threads -> Thread] /\ thread'[t].pc = thread[t].then
      /\ \A u \in Threads \ {t} : thread'[u] = thread[u]
  BY ZenonT(60), <1>2, GotoType DEF IInv
<1>4. mark.kind = "inflating" /\ thread[t].owner \in Threads
  BY ZenonT(60) DEF IInv, Places
<1>5. TypeOK'
  BY ZenonT(60), <1>3, <1>4, PrototypeHeader DEF IInv, TypeOK, Inflated
<1>6. Places'
  BY <1>2, <1>3 DEF IInv, Places, Inflated
<1>7. Drawn'
  BY <1>2, <1>3, <1>4 DEF IInv, Drawn, Places
<1>8. Real' = box[thread[t].owner]
  BY ZenonT(60), <1>5, <1>6, RealAtNext DEF RealIs, Inflated
<1>9. Real' = Real
  BY ZenonT(60), <1>1, <1>8 DEF RealIs
<1> QED
  BY ZenonT(60), <1>5, <1>6, <1>7, <1>9 DEF StepOK, HeaderStep, Answered, Counted

-----------------------------------------------------------------------------
(* The steps of FastHashCode. *)

\* A thread that has drawn a hash for a header without one.
LEMMA DrawType ==
  ASSUME TypeOK, NEW t \in Threads, NEW p \in {"cas", "moncas"}, NEW h \in Header,
         NEW value \in NewHashes, hash(h) = 0,
         thread' = [thread EXCEPT ![t].pc = p, ![t].old = h, ![t].new = copy_set_hash(h, value)]
  PROVE  /\ thread' \in [Threads -> Thread] /\ thread'[t].pc = p /\ thread'[t].old = h
         /\ hash(thread'[t].old) = 0 /\ hash(thread'[t].new) # 0
         /\ thread'[t].new.site = thread'[t].old.site
         /\ \A u \in Threads \ {t} : thread'[u] = thread[u]
<1> DEFINE n == copy_set_hash(h, value)
           r == [thread[t] EXCEPT !.pc = p, !.old = h, !.new = n]
<1>1. n \in Header /\ hash(n) # 0 /\ n.site = h.site
  BY ZenonT(60), CopySetHash
<1> HIDE DEF n
<1>2. thread[t] \in Thread /\ thread \in [Threads -> Thread]
  BY ZenonT(60) DEF TypeOK
<1>3. r \in Thread /\ r.pc = p /\ r.old = h /\ r.new = n
  BY ZenonT(60), <1>1, <1>2 DEF Thread
<1>4. thread' = [thread EXCEPT ![t] = r]
  BY ZenonT(60), <1>2 DEF n
<1> HIDE DEF r
<1>5. /\ thread' \in [Threads -> Thread] /\ thread'[t] = r
      /\ \A u \in Threads \ {t} : thread'[u] = thread[u]
  BY ZenonT(60), <1>3, <1>4, MovedThread
<1> QED
  BY ZenonT(60), <1>1, <1>3, <1>5

\* A thread that returns a hash it read where the header is.
LEMMA ReturnStep ==
  ASSUME IInv, NEW t \in Threads, thread[t].pc # "publish", hash(Real) # 0,
         Return(t, hash(Real)),
         UNCHANGED <<mark, box, monitor, tag, counted>>, installed' \in BOOLEAN
  PROVE  StepOK
<1>1. /\ thread' \in [Threads -> Thread] /\ thread'[t].pc = "idle"
      /\ \A u \in Threads \ {t} : thread'[u] = thread[u]
  BY ZenonT(60), GotoType DEF IInv, Return, Points
<1>2. RealIs /\ hash(Real) \in Nat
  BY ZenonT(60), RealAt, HashZero DEF IInv, RealIs
<1>3. TypeOK'
  BY ZenonT(60), <1>1, <1>2 DEF IInv, TypeOK, Return
<1>4. Places'
  BY <1>1 DEF IInv, Places
<1>5. Drawn'
  BY <1>1 DEF IInv, Drawn
<1>6. Real' = Real
  BY ZenonT(60), <1>1, <1>3, <1>4, Unmoved DEF IInv
<1> QED
  BY ZenonT(60), <1>3, <1>4, <1>5, <1>6 DEF StepOK, HeaderStep, Answered, Counted, Return

\* A thread that goes on to inflate the lock for its hash.
LEMMA HashInflateStep ==
  ASSUME IInv, NEW t \in Threads, thread[t].pc # "publish", GotoInflate(t, "hash"),
         UNCHANGED <<mark, box, monitor, tag, returned, installed, counted>>
  PROVE  StepOK
<1>1. /\ thread' \in [Threads -> Thread] /\ thread'[t].pc = "inflate"
      /\ \A u \in Threads \ {t} : thread'[u] = thread[u]
  BY ZenonT(60), GotoInflateType DEF IInv
<1>2. TypeOK'
  BY ZenonT(60), <1>1 DEF IInv, TypeOK
<1>3. Places'
  BY <1>1 DEF IInv, Places
<1>4. Drawn'
  BY <1>1 DEF IInv, Drawn
<1>5. Real' = Real
  BY ZenonT(60), <1>1, <1>2, <1>3, Unmoved DEF IInv
<1> QED
  BY ZenonT(60), <1>2, <1>3, <1>4, <1>5 DEF StepOK, HeaderStep, Answered, Counted

\* A thread that draws a hash for the header it read in the mark or the monitor.
LEMMA DrawStep ==
  ASSUME IInv, NEW t \in Threads, thread[t].pc # "publish", NEW p \in {"cas", "moncas"},
         p = "moncas" => mark.kind = "monitor" /\ monitor.header = Real,
         NEW value \in NewHashes, hash(Real) = 0,
         thread' = [thread EXCEPT ![t].pc = p, ![t].old = Real,
                                  ![t].new = copy_set_hash(Real, value)],
         UNCHANGED <<mark, box, monitor, tag, returned, installed, counted>>
  PROVE  StepOK
<1>1. Real \in Header
  BY ZenonT(60), RealAt DEF IInv, RealIs
<1>2. /\ thread' \in [Threads -> Thread] /\ thread'[t].pc = p /\ thread'[t].old = Real
      /\ hash(thread'[t].old) = 0 /\ hash(thread'[t].new) # 0
      /\ thread'[t].new.site = thread'[t].old.site
      /\ \A u \in Threads \ {t} : thread'[u] = thread[u]
  BY ZenonT(60), <1>1, DrawType DEF IInv
<1>3. TypeOK'
  BY ZenonT(60), <1>2 DEF IInv, TypeOK
<1>4. Places'
  BY <1>2 DEF IInv, Places
<1>5. Drawn'
  BY <1>2 DEF IInv, Drawn
<1>6. Real' = Real
  BY ZenonT(60), <1>2, <1>3, <1>4, Unmoved DEF IInv
<1> QED
  BY ZenonT(60), <1>3, <1>4, <1>5, <1>6 DEF StepOK, HeaderStep, Answered, Counted

\* A hash is returned, drawn, or looked for behind the lock.
LEMMA FastHashCodeStep ==
  ASSUME IInv, NEW t \in Threads, FastHashCode(t)
  PROVE  StepOK
<1> USE DEF FastHashCode
<1>1. RealIs
  BY ZenonT(60), RealAt DEF IInv
<1>2. CASE Readable(t) /\ hash(HeaderFor(t)) # 0 /\ Return(t, hash(HeaderFor(t)))
  <2>1. HeaderFor(t) = Real
    BY <1>1, <1>2 DEF RealIs, Readable, HeaderFor, Locked
  <2> QED
    BY ZenonT(60), <1>2, <2>1, ReturnStep DEF IInv, TypeOK
<1>3. CASE /\ mark.kind = "neutral" /\ hash(mark.header) = 0 /\ UNCHANGED returned
           /\ \E value \in NewHashes :
                thread' = [thread EXCEPT ![t].pc = "cas", ![t].old = mark.header,
                                         ![t].new = copy_set_hash(mark.header, value)]
  <2>1. mark.header = Real
    BY ZenonT(60), <1>1, <1>3 DEF RealIs
  <2> QED
    BY ZenonT(60), <1>3, <2>1, DrawStep
<1>4. CASE GotoInflate(t, "hash") /\ UNCHANGED returned
  BY ZenonT(60), <1>4, HashInflateStep
<1> QED
  BY ZenonT(60), <1>2, <1>3, <1>4

\* The same with the header in the monitor.
LEMMA MonitorHashStep ==
  ASSUME IInv, NEW t \in Threads, MonitorHash(t)
  PROVE  StepOK
<1> USE DEF MonitorHash
<1>1. mark.kind = "monitor" /\ monitor.header = Real
  BY ZenonT(60), RealAt DEF IInv, RealIs, Places
<1>2. CASE hash(Real) # 0
  BY ZenonT(60), <1>1, <1>2, ReturnStep DEF IInv, TypeOK
<1>3. CASE hash(Real) = 0
  <2>1. UNCHANGED returned
    BY ZenonT(60), <1>1, <1>3
  <2>2. PICK value \in NewHashes :
          thread' = [thread EXCEPT ![t].pc = "moncas", ![t].old = Real,
                                   ![t].new = copy_set_hash(Real, value)]
    BY ZenonT(60), <1>1, <1>3
  <2> QED
    BY ZenonT(60), <1>1, <1>3, <2>1, <2>2, DrawStep
<1> QED
  BY ZenonT(60), <1>2, <1>3

\* The compare-and-swap succeeds only over the header the thread drew for, which
\* had no hash.
LEMMA InstallHashStep ==
  ASSUME IInv, NEW t \in Threads, InstallHash(t)
  PROVE  StepOK
<1> USE DEF InstallHash
<1>1. CASE mark = Neutral(thread[t].old)
  <2> DEFINE n == thread[t].new
  <2>1. mark' = Neutral(n) /\ installed' = TRUE /\ Return(t, hash(n))
    BY ZenonT(60), <1>1
  <2>2. n \in Header /\ hash(n) # 0 /\ hash(n) \in Nat
    BY ZenonT(60), HashZero DEF IInv, Drawn, TypeOK, Thread
  <2>3. Real = thread[t].old /\ hash(Real) = 0 /\ n.site = Real.site
    BY ZenonT(60), <1>1, RealAt DEF IInv, RealIs, Drawn, Neutral
  <2> HIDE DEF n
  <2>4. /\ thread' \in [Threads -> Thread] /\ thread'[t].pc = "idle"
        /\ \A u \in Threads \ {t} : thread'[u] = thread[u]
    BY ZenonT(60), <2>1, GotoType DEF IInv, Return, Points
  <2>5. TypeOK'
    BY ZenonT(60), <2>1, <2>2, <2>4 DEF IInv, TypeOK, Return, Neutral
  <2>6. Places'
    BY ZenonT(60), <1>1, <2>1, <2>4 DEF IInv, Places, Neutral
  <2>7. Drawn'
    BY <2>4 DEF IInv, Drawn
  <2>8. Real' = n
    BY ZenonT(60), <2>1, <2>5, <2>6, RealAtNext DEF RealIs, Neutral
  <2> QED
    BY ZenonT(60), <2>1, <2>2, <2>3, <2>5, <2>6, <2>7, <2>8
       DEF StepOK, HeaderStep, Answered, Counted, Return
<1>2. CASE mark # Neutral(thread[t].old)
  BY ZenonT(60), <1>2, HashInflateStep
<1> QED
  BY ZenonT(60), <1>1, <1>2

\* So does that on the monitor's header; when it fails, the header that is there
\* has a hash, since no collection could come in between.
LEMMA InstallMonitorHashStep ==
  ASSUME IInv, NEW t \in Threads, InstallMonitorHash(t)
  PROVE  StepOK
<1> USE DEF InstallMonitorHash
<1>1. mark.kind = "monitor" /\ Real = monitor.header
  BY ZenonT(60), RealAt DEF IInv, RealIs, Places
<1>2. CASE monitor.header = thread[t].old
  <2> DEFINE n == thread[t].new
  <2>1. monitor' = [monitor EXCEPT !.header = n] /\ installed' = TRUE /\ Return(t, hash(n))
    BY ZenonT(60), <1>2
  <2>2. n \in Header /\ hash(n) # 0 /\ hash(n) \in Nat
    BY ZenonT(60), HashZero DEF IInv, Drawn, TypeOK, Thread
  <2>3. hash(Real) = 0 /\ n.site = Real.site
    BY ZenonT(60), <1>1, <1>2 DEF IInv, Drawn
  <2> HIDE DEF n
  <2>4. /\ thread' \in [Threads -> Thread] /\ thread'[t].pc = "idle"
        /\ \A u \in Threads \ {t} : thread'[u] = thread[u]
    BY ZenonT(60), <2>1, GotoType DEF IInv, Return, Points
  <2>5. TypeOK' /\ monitor'.header = n
    BY ZenonT(60), <2>1, <2>2, <2>4 DEF IInv, TypeOK, Return
  <2>6. Places'
    BY ZenonT(60), <2>4 DEF IInv, Places
  <2>7. Drawn'
    BY <2>2, <2>4, <2>5 DEF IInv, Drawn
  <2>8. Real' = n
    BY ZenonT(60), <1>1, <2>5, <2>6, RealAtNext DEF RealIs
  <2> QED
    BY ZenonT(60), <2>1, <2>2, <2>3, <2>5, <2>6, <2>7, <2>8
       DEF StepOK, HeaderStep, Answered, Counted, Return
<1>3. CASE monitor.header # thread[t].old
  <2>1. hash(Real) # 0
    BY ZenonT(60), <1>1, <1>3 DEF IInv, Drawn
  <2> QED
    BY ZenonT(60), <1>1, <1>3, <2>1, ReturnStep DEF IInv, TypeOK
<1> QED
  BY ZenonT(60), <1>2, <1>3

-----------------------------------------------------------------------------
(* The steps at safepoints. *)

\* Deflation moves the header back to the mark, unless the monitor is in use.
LEMMA AfterDeflation ==
  ASSUME IInv, AtSafepoint
  PROVE  /\ Deflated \in [kind : {"neutral", "locked", "monitor"},
                          header : Header, owner : Threads \cup {NoThread}]
         /\ MonitorLeft \in [header : Header, owner : Threads \cup {NoThread}]
         /\ Deflated.kind = "neutral" => Deflated.header = Real
         /\ Deflated.kind = "locked" => Deflated.owner \in Threads /\ box[Deflated.owner] = Real
         /\ Deflated.kind = "monitor" => MonitorLeft.header = Real
         /\ \A t \in Threads : thread[t].pc = "enter" => Deflated.kind = "monitor"
<1>1. RealIs
  BY ZenonT(60), RealAt DEF IInv
<1>2. mark.kind # "inflating"
  BY ZenonT(60) DEF IInv, Places, AtSafepoint
<1>3. CASE mark.kind = "monitor" /\ ~is_busy
  <2>1. Deflated = Neutral(monitor.header) /\ MonitorLeft = NoMonitor
    BY ZenonT(60), <1>3 DEF Deflated, MonitorLeft
  <2> QED
    BY ZenonT(60), <1>1, <1>3, <2>1, PrototypeHeader
       DEF IInv, TypeOK, RealIs, is_busy, Neutral, NoMonitor
<1>4. CASE mark.kind = "monitor" /\ is_busy
  <2>1. Deflated = mark /\ MonitorLeft = monitor
    BY ZenonT(60), <1>4 DEF Deflated, MonitorLeft
  <2> QED
    BY ZenonT(60), <1>1, <1>4, <2>1 DEF IInv, TypeOK, RealIs
<1>5. CASE mark.kind # "monitor"
  <2>1. Deflated = mark /\ MonitorLeft = NoMonitor
    BY ZenonT(60), <1>5 DEF Deflated, MonitorLeft
  <2> QED
    BY ZenonT(60), <1>1, <1>2, <1>5, <2>1, PrototypeHeader DEF IInv, TypeOK, RealIs, Places, NoMonitor
<1> QED
  BY ZenonT(60), <1>3, <1>4, <1>5

\* No thread is inside inflate or FastHashCode when a safepoint rewrites the word.
LEMMA SafepointPlaces ==
  ASSUME IInv, AtSafepoint, thread' = thread, mark'.kind = Deflated.kind,
         mark'.kind = "locked" => mark'.owner \in Threads
  PROVE  Places' /\ Drawn'
<1>1. Deflated.kind # "inflating"
  BY ZenonT(60), AfterDeflation
<1>2. \A t \in Threads : thread[t].pc = "enter" => Deflated.kind = "monitor"
  BY ZenonT(60), AfterDeflation
<1> QED
  BY ZenonT(60), <1>1, <1>2 DEF AtSafepoint, Places, Drawn

\* A safepoint puts the header of an idle monitor back.
LEMMA DeflateStep ==
  ASSUME IInv, deflate_idle_monitors
  PROVE  StepOK
<1> USE DEF deflate_idle_monitors
<1>1. /\ mark' = Deflated /\ monitor' = MonitorLeft /\ thread' = thread
      /\ UNCHANGED <<box, tag, returned, installed, counted>>
  BY ZenonT(60)
<1>2. TypeOK'
  BY ZenonT(60), <1>1, AfterDeflation DEF IInv, TypeOK
<1>3. Places' /\ Drawn'
  BY ZenonT(60), <1>1, AfterDeflation, SafepointPlaces
<1>4. RealIs'
  BY ZenonT(60), <1>2, <1>3, RealAtNext
<1>5. Real' = Real
  BY ZenonT(60), <1>1, <1>4, AfterDeflation DEF RealIs
<1> QED
  BY ZenonT(60), <1>1, <1>2, <1>3, <1>5 DEF StepOK, HeaderStep, Answered, Counted

\* Copying the object changes the age wherever the header is, and counts the
\* object under the tag in the mark only when the header is there.
LEMMA CopyStep ==
  ASSUME IInv, NEW survives \in BOOLEAN, copy_to_survivor_space(survives)
  PROVE  StepOK
<1> USE DEF copy_to_survivor_space
<1>1. Real \in Header
  BY ZenonT(60), RealAt DEF IInv, RealIs
<1>2. /\ incr_age(Real) \in Header
      /\ incr_age(Real).site = Real.site /\ incr_age(Real).shared = Real.shared
      /\ hash(incr_age(Real)) = hash(Real)
  BY ZenonT(60), <1>1, IncrAge
<1>3. Counted /\ counted' \subseteq Sites \X (0 .. SharedSize - 1)
  <2>1. CASE Deflated.kind = "neutral" /\ Deflated.header.site # 0
    <3>1. counted' = counted \cup {<<Real.site, Real.shared>>} /\ Real.site # 0
      BY ZenonT(60), <2>1, AfterDeflation DEF ng2c_prof
    <3>2. <<Real.site, Real.shared>> \in Sites \X (0 .. SharedSize - 1)
      BY ZenonT(60), <1>1, <3>1 DEF Header
    <3> QED
      BY <3>1, <3>2 DEF Counted, IInv, TypeOK
  <2>2. CASE ~(Deflated.kind = "neutral" /\ Deflated.header.site # 0)
    BY ZenonT(60), <2>2 DEF Counted, IInv, TypeOK
  <2> QED
    BY ZenonT(60), <2>1, <2>2
<1>4. ASSUME ~survives PROVE StepOK
  <2>1. mark' = Deflated /\ monitor' = MonitorLeft /\ box' = box
    BY ZenonT(60), <1>4
  <2>2. TypeOK'
    BY ZenonT(60), <1>3, <2>1, AfterDeflation DEF IInv, TypeOK
  <2>3. Places' /\ Drawn'
    BY ZenonT(60), <2>1, AfterDeflation, SafepointPlaces
  <2>4. Real' = Real
    BY ZenonT(60), <2>1, <2>2, <2>3, AfterDeflation, RealAtNext DEF RealIs
  <2> QED
    BY ZenonT(60), <1>3, <2>2, <2>3, <2>4 DEF StepOK, HeaderStep, Answered
<1>5. ASSUME survives, Deflated.kind = "neutral" PROVE StepOK
  <2>1. mark' = Neutral(incr_age(Real)) /\ monitor' = MonitorLeft /\ box' = box
    BY ZenonT(60), <1>5, AfterDeflation
  <2>2. TypeOK'
    BY <1>2, <1>3, <2>1, AfterDeflation DEF IInv, TypeOK, Neutral
  <2>3. Places' /\ Drawn'
    BY <1>5, <2>1, SafepointPlaces DEF Neutral
  <2>4. Real' = incr_age(Real)
    BY <2>1, <2>2, <2>3, RealAtNext DEF RealIs, Neutral
  <2> QED
    BY ZenonT(60), <1>2, <1>3, <2>2, <2>3, <2>4 DEF StepOK, HeaderStep, Answered
<1>6. ASSUME survives, Deflated.kind = "locked" PROVE StepOK
  <2>1. /\ mark' = Deflated /\ monitor' = MonitorLeft /\ Deflated.owner \in Threads
        /\ box' = [box EXCEPT ![Deflated.owner] = incr_age(Real)]
    BY ZenonT(60), <1>6, AfterDeflation
  <2>2. TypeOK'
    BY <1>2, <1>3, <2>1, AfterDeflation DEF IInv, TypeOK
  <2>3. Places' /\ Drawn'
    BY ZenonT(60), <1>6, <2>1, SafepointPlaces
  <2>4. Real' = box'[Deflated.owner]
    BY ZenonT(60), <1>6, <2>1, <2>2, <2>3, RealAtNext DEF RealIs
  <2>5. Real' = incr_age(Real)
    BY ZenonT(60), <2>1, <2>4 DEF IInv, TypeOK
  <2> QED
    BY <1>2, <1>3, <2>2, <2>3, <2>5 DEF StepOK, HeaderStep, Answered
<1>7. ASSUME survives, Deflated.kind = "monitor" PROVE StepOK
  <2>1. mark' = Deflated /\ monitor' = [MonitorLeft EXCEPT !.header = incr_age(Real)] /\ box' = box
    BY ZenonT(60), <1>7, AfterDeflation
  <2>2. TypeOK' /\ monitor'.header = incr_age(Real)
    BY <1>2, <1>3, <2>1, AfterDeflation DEF IInv, TypeOK
  <2>3. Places' /\ Drawn'
    BY ZenonT(60), <1>7, <2>1, SafepointPlaces
  <2>4. Real' = incr_age(Real)
    BY ZenonT(60), <1>7, <2>1, <2>2, <2>3, RealAtNext DEF RealIs
  <2> QED
    BY ZenonT(60), <1>2, <1>3, <2>2, <2>3, <2>4 DEF StepOK, HeaderStep, Answered
<1> QED
  BY ZenonT(60), <1>4, <1>5, <1>6, <1>7, AfterDeflation

\* A failed evacuation or a full collection resets the header only when it is
\* in the mark and has no hash.
LEMMA ResetHeaderStep ==
  ASSUME IInv, ResetHeader
  PROVE  StepOK
<1> USE DEF ResetHeader
<1>1. CASE must_be_preserved(Deflated)
  <2>1. mark' = Deflated /\ monitor' = MonitorLeft
    BY ZenonT(60), <1>1
  <2>2. TypeOK'
    BY ZenonT(60), <2>1, AfterDeflation DEF IInv, TypeOK
  <2>3. Places' /\ Drawn'
    BY ZenonT(60), <2>1, AfterDeflation, SafepointPlaces
  <2>4. Real' = Real
    BY ZenonT(60), <2>1, <2>2, <2>3, AfterDeflation, RealAtNext DEF RealIs
  <2> QED
    BY ZenonT(60), <2>2, <2>3, <2>4 DEF StepOK, HeaderStep, Answered, Counted
<1>2. CASE ~must_be_preserved(Deflated)
  <2>1. /\ mark' = Neutral(Prototype) /\ monitor' = MonitorLeft
        /\ Deflated.kind = "neutral" /\ hash(Real) = 0
    BY ZenonT(60), <1>2, AfterDeflation DEF must_be_preserved
  <2>2. TypeOK'
    BY <2>1, AfterDeflation, PrototypeHeader DEF IInv, TypeOK, Neutral
  <2>3. Places' /\ Drawn'
    BY <2>1, SafepointPlaces DEF Neutral
  <2>4. Real' = Prototype
    BY <2>1, <2>2, <2>3, RealAtNext DEF RealIs, Neutral
  <2> QED
    BY ZenonT(60), <2>1, <2>2, <2>3, <2>4 DEF StepOK, HeaderStep, Answered, Counted, Prototype
<1> QED
  BY ZenonT(60), <1>1, <1>2

-----------------------------------------------------------------------------
\* The fresh header has the tag and no other hash.
LEMMA InitHolds == Init => IInv
<1> SUFFICES ASSUME Init PROVE IInv
  BY ZenonT(60)
<1>1. PICK s \in Sites, c \in Shared :
        tag = <<s, c>> /\ mark = Neutral([site |-> s, shared |-> c, low |-> 0, age |-> 0])
  BY ZenonT(60) DEF Init
<1> DEFINE h == [site |-> s, shared |-> c, low |-> 0, age |-> 0]
<1>2. h \in Header /\ h.site = s /\ h.shared = c
  BY MarkWordAssumption DEF Header
<1>3. mark = Neutral(h) /\ tag = <<s, c>>
  BY ZenonT(60), <1>1
<1> HIDE DEF h
<1>4. TypeOK
  <2>1. Resting \in Thread
    BY ZenonT(60), PrototypeHeader DEF Resting, Thread
  <2>2. thread \in [Threads -> Thread] /\ box \in [Threads -> Header]
    BY ZenonT(60), <2>1, PrototypeHeader DEF Init
  <2>3. tag \in Sites \X (0 .. SharedSize - 1)
    BY ZenonT(60), <1>3, MarkWordAssumption
  <2> QED
    BY ZenonT(60), <1>2, <1>3, <2>2, <2>3, PrototypeHeader DEF Init, TypeOK, Neutral, NoMonitor
<1>5. Places /\ Drawn
  BY ZenonT(60), <1>3 DEF Init, Places, Drawn, Neutral, Resting
<1>6. Real = h
  BY ZenonT(60), <1>3 DEF Real, Neutral
<1> QED
  BY ZenonT(60), <1>2, <1>3, <1>4, <1>5, <1>6
     DEF Init, IInv, Returned, SiteKept, CountedForOwnSite, TagKept, ng2c_prof

\* Every step preserves the invariant.
LEMMA NextPreserves == IInv /\ [Next]_vars => IInv'
<1> SUFFICES ASSUME IInv, [Next]_vars PROVE IInv'
  BY ZenonT(60)
<1>1. ASSUME NEW t \in Threads,
             \/ slow_enter(t) \/ EnterContended(t) \/ Enter(t) \/ fast_exit(t)
             \/ inflate(t) \/ Publish(t)
      PROVE  StepOK
  BY ZenonT(60), <1>1, SlowEnterStep, EnterContendedStep, EnterStep, FastExitStep, InflateStep,
  PublishStep
<1>2. ASSUME NEW t \in Threads,
             \/ FastHashCode(t) \/ InstallHash(t) \/ MonitorHash(t) \/ InstallMonitorHash(t)
      PROVE  StepOK
  BY ZenonT(60), <1>2, FastHashCodeStep, InstallHashStep, MonitorHashStep, InstallMonitorHashStep
<1>3. ASSUME NEW survives \in BOOLEAN, copy_to_survivor_space(survives)
      PROVE  StepOK
  BY ZenonT(60), <1>3, CopyStep
<1>4. Next => StepOK
  BY ZenonT(60), <1>1, <1>2, <1>3, ResetHeaderStep, DeflateStep DEF Next
<1>5. UNCHANGED vars => IInv'
  <2> SUFFICES ASSUME UNCHANGED vars PROVE IInv'
    BY ZenonT(60)
  <2>1. TypeOK' /\ Places'
    BY ZenonT(60) DEF vars, IInv, TypeOK, Places
  <2>2. Drawn' /\ Returned' /\ SiteKept'
    BY ZenonT(60) DEF vars, IInv, Drawn, Returned, SiteKept, Real
  <2>3. CountedForOwnSite' /\ TagKept'
    BY ZenonT(60) DEF vars, IInv, CountedForOwnSite, TagKept, Real
  <2> QED
    BY ZenonT(60), <2>1, <2>2, <2>3 DEF IInv
<1> QED
  BY ZenonT(60), <1>4, <1>5, StepPreserves

\* The inductive invariant.
LEMMA Invariance == Spec => []IInv
  BY InitHolds, NextPreserves, PTL DEF Spec

\* All threads that ever ask for the identity hash get the same value, whatever
\* locking, inflation, deflation, failed evacuation or compaction happened in
\* between, and although the tag supplies seven of its bits (FastHashCode).
THEOREM HashIsStable == Spec => []HashStable
<1>1. IInv => HashStable
  BY ZenonT(60) DEF IInv, Returned, HashStable
<1> QED
  BY <1>1, Invariance, PTL

\* No pause counts the object for a site other than its own: the tag read from
\* the mark is the object's or shows no site (copy_to_survivor_space).
THEOREM CountsOwnSite == Spec => []CountedForOwnSite
<1>1. IInv => CountedForOwnSite
  BY ZenonT(60) DEF IInv
<1> QED
  BY <1>1, Invariance, PTL

\* A tag that looks like a hash is never lost: no hash is installed over it and
\* every collection preserves the header (must_be_preserved).
THEOREM TagIsKept == Spec => []TagKept
<1>1. IInv => TagKept
  BY ZenonT(60) DEF IInv
<1> QED
  BY <1>1, Invariance, PTL

\* The mark word, the boxes and the monitor always hold what they should: a
\* header stays a header through copy_set_hash and incr_age.
THEOREM MarkWordTypes == Spec => []TypeOK
<1>1. IInv => TypeOK
  BY ZenonT(60) DEF IInv
<1> QED
  BY <1>1, Invariance, PTL

=============================================================================
