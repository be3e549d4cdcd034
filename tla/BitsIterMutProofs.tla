------------------------- MODULE BitsIterMutProofs -------------------------
(***************************************************************************)
(* Windows and references never overlap, and the writes of two threads do  *)
(* not lose each other's bits as long as no word has bits of both          *)
(* (iter.rs:1264-1421), for every list, word size and number of threads.   *)
(***************************************************************************)
EXTENDS BitsIterMut, BitWordsProofs

LOCAL INSTANCE FiniteSetsExt

-----------------------------------------------------------------------------
(* The inductive invariant. *)

(* Values of the variables. *)
Types ==
  /\ list \in Lists
  /\ windows \subseteq [start : Nat, stop : Nat, thread : Threads]
  /\ refs \subseteq [bit : Nat, thread : Threads]
  /\ job \in [Threads -> [bits : SUBSET Nat, ones : SUBSET Nat, unit : {WordSize, ByteSize},
                          seen : SUBSET SUBSET Nat]]
  /\ mem \subseteq Nat

(* Handles and writes stay inside the bits of the list. *)
Inside ==
  /\ \A x \in windows : x.start <= x.stop /\ Covers(x) \subseteq OwnBits(list)
  /\ \A y \in refs : y.bit \in OwnBits(list)
  /\ \A t \in Threads : job[t].bits \subseteq OwnBits(list)

(* Thread t is writing through a reference, which stays with it. *)
ByRef(t) == \E y \in refs : y.thread = t /\ job[t].bits = {y.bit}

(* What thread t is writing is in no window and no reference. *)
Detached(t) ==
  /\ \A x \in windows : job[t].bits \cap Covers(x) = {}
  /\ \A y \in refs : y.bit \notin job[t].bits

(* No two handles, and no two writes, have a bit in common. *)
Apart ==
  /\ \A x, y \in windows : x # y => Covers(x) \cap Covers(y) = {}
  /\ \A y \in refs : \A x \in windows : y.bit \notin Covers(x)
  /\ \A y, z \in refs : y # z => y.bit # z.bit
  /\ \A t \in Threads : ByRef(t) \/ Detached(t)
  /\ \A t, u \in Threads : t # u => job[t].bits \cap job[u].bits = {}

(* A thread that has nothing left to write is free. *)
Finished == \A t \in Threads : job[t].bits = {} => job[t] = Idle

IInv == Types /\ Inside /\ Apart /\ Finished

-----------------------------------------------------------------------------
(* Constants and the places of bits. *)

LEMMA Constants ==
  /\ ByteSize \in Nat /\ ByteSize > 0 /\ WordSize % ByteSize = 0
  /\ \A l \in Lists : l.kind \in {"inline", "heap"} /\ l.bits.len \in Nat
                      /\ l.bits.ones \subseteq 0 .. (l.bits.len - 1)
  /\ \A b \in Bounds : b.at \in 0 .. UsizeMax
BY IterMutAssumption DEF IsBitString

LEMMA FirstBit ==
  ASSUME NEW l \in Lists
  PROVE  first_data_bit(l) \in Nat /\ OwnBits(l) \subseteq Nat
<1>1. first_data_bit(l) \in Nat
  BY WordSizeType DEF first_data_bit, COUNT_SHIFT
<1> QED BY <1>1, Constants DEF OwnBits

(* The bits of a list are bits of its memory. *)
LEMMA OwnBitsInMemory ==
  ASSUME NEW l \in Lists
  PROVE  OwnBits(l) \subseteq AllBits(l)
<1> DEFINE n == first_data_bit(l) + l.bits.len
<1>1. n \in Nat /\ first_data_bit(l) \in Nat
  BY FirstBit, Constants
<1>2. words_for(n) * WordSize \in Nat /\ n <= words_for(n) * WordSize
  BY <1>1, WordsForBounds
<1>3. 0 * WordSize = 0
  BY WordSizeType
<1> HIDE DEF n
<1>4. AllBits(l) = 0 .. (words_for(n) * WordSize - 1)
  BY <1>3 DEF AllBits, Words, n
<1>5. OwnBits(l) = first_data_bit(l) .. (n - 1)
  <2>1. l.bits.len \in Nat /\ first_data_bit(l) \in Nat
    BY FirstBit, Constants
  <2> QED BY <2>1 DEF OwnBits, n
<1> QED BY <1>1, <1>2, <1>4, <1>5

(* The memory of a list, its header included, is within its words. *)
LEMMA MemoryInside ==
  ASSUME NEW l \in Lists
  PROVE  Memory(l) \subseteq AllBits(l) /\ Memory(l) \subseteq Nat
<1> DEFINE a == first_data_bit(l)
           n == a + l.bits.len
<1>1. a \in Nat /\ l.bits.len \in Nat /\ l.bits.ones \subseteq 0 .. (l.bits.len - 1) /\ n \in Nat
  BY FirstBit, Constants
<1>2. Up(l.bits.ones, a) \subseteq 0 .. (n - 1)
  BY <1>1 DEF Up
<1>3. count_and_flag(l) \subseteq 0 .. (a - 1)
  <2>1. CASE l.kind = "inline"
    <3>1. a = CountBits + 1 /\ CountBits \in Nat
      BY <2>1, WordSizeType DEF first_data_bit, COUNT_SHIFT
    <3> HIDE DEF a
    <3>2. \A i \in 0 .. (CountBits - 1) : COUNT_SHIFT + i \in 0 .. (a - 1)
      BY <3>1 DEF COUNT_SHIFT
    <3>3. 0 \in 0 .. (a - 1)
      BY <3>1
    <3> QED BY <2>1, <3>2, <3>3 DEF count_and_flag
  <2>2. CASE l.kind # "inline"
    BY <2>2 DEF count_and_flag
  <2> QED BY <2>1, <2>2
<1>4. words_for(n) * WordSize \in Nat /\ n <= words_for(n) * WordSize
  BY <1>1, WordsForBounds
<1>5. 0 * WordSize = 0
  BY WordSizeType
<1>6. AllBits(l) = 0 .. (words_for(n) * WordSize - 1)
  BY <1>5 DEF AllBits, Words
<1>7. Memory(l) = count_and_flag(l) \cup Up(l.bits.ones, a)
  BY DEF Memory
<1> HIDE DEF a, n
<1> QED BY <1>1, <1>2, <1>3, <1>4, <1>6, <1>7 DEF n

LEMMA IdleType ==
  /\ Idle \in [bits : SUBSET Nat, ones : SUBSET Nat, unit : {WordSize, ByteSize},
               seen : SUBSET SUBSET Nat]
  /\ Idle.bits = {} /\ Idle.ones = {} /\ Idle.seen = {}
BY DEF Idle

LEMMA MemoryWords == ASSUME NEW l \in Lists PROVE AllBits(l) \subseteq Nat
<1> DEFINE n == first_data_bit(l) + l.bits.len
<1>1. n \in Nat
  BY FirstBit, Constants
<1>2. words_for(n) * WordSize \in Nat /\ 0 * WordSize = 0
  BY <1>1, WordsForBounds, WordSizeType
<1> QED BY <1>2 DEF AllBits, Words

(* A thread is free exactly when it has no bits to write. *)
LEMMA FreeHasNoBits ==
  ASSUME IInv, NEW t \in Threads
  PROVE  Free(t) <=> job[t].bits = {}
BY IdleType DEF IInv, Finished, Free

(* The limits of a window. *)
LEMMA WindowType ==
  ASSUME Types, NEW x \in windows
  PROVE  x.start \in Nat /\ x.stop \in Nat /\ x.thread \in Threads
BY DEF Types

-----------------------------------------------------------------------------
(* Windows change, and nothing else. *)

(* The windows after a step are parts of those before it, or of one of     *)
(* them, in pieces that have no bit in common.                             *)
LEMMA PiecesKeep ==
  ASSUME IInv, NEW x \in windows, NEW ys, Becomes(x, ys), UNCHANGED <<list, mem, refs, job>>,
         ys \subseteq [start : Nat, stop : Nat, thread : Threads],
         \A y \in ys : y.start <= y.stop /\ Covers(y) \subseteq Covers(x),
         \A y, z \in ys : y # z => Covers(y) \cap Covers(z) = {}
  PROVE  IInv'
<1>1. windows' = (windows \ {x}) \cup ys
  BY DEF Becomes
<1>2. Types'
  BY <1>1 DEF IInv, Types
<1>3. Inside'
  BY <1>1 DEF IInv, Inside, Covers, OwnBits
<1>4. Apart'
  <2>1. \A y, z \in windows' : y # z => Covers(y) \cap Covers(z) = {}
    <3>1. ASSUME NEW y \in windows', NEW z \in windows', y # z PROVE Covers(y) \cap Covers(z) = {}
      BY <1>1, <3>1 DEF IInv, Apart
    <3> QED BY <3>1
  <2>2. \A y \in refs : \A z \in windows' : y.bit \notin Covers(z)
    BY <1>1 DEF IInv, Apart
  <2>3. ASSUME NEW t \in Threads, Detached(t) PROVE Detached(t)'
    BY <1>1, <2>3 DEF Detached, Covers
  <2>4. ASSUME NEW t \in Threads, ByRef(t) PROVE ByRef(t)'
    BY <2>4 DEF ByRef
  <2> QED BY <2>1, <2>2, <2>3, <2>4 DEF IInv, Apart, Covers
<1>5. Finished'
  BY DEF IInv, Finished, Idle
<1> QED BY <1>2, <1>3, <1>4, <1>5 DEF IInv

LEMMA OpenKeeps == IInv /\ Open => IInv'
<1> SUFFICES ASSUME IInv, Open PROVE IInv'
  OBVIOUS
<1> DEFINE n == list.bits.len
           at == first_data_bit(list)
<1>1. PICK t \in Threads, low \in Bounds, high \in Bounds :
        /\ ~is_invalid_range(bounds_start(low), bounds_stop(high, n), n)
        /\ windows' = {Window(at + bounds_start(low), at + bounds_stop(high, n), t)}
  BY DEF Open, from_bounds
<1> DEFINE s == bounds_start(low)
           e == bounds_stop(high, n)
<1>2. n \in Nat /\ at \in Nat
  BY Constants, FirstBit DEF IInv, Types
<1>3. s \in Nat /\ e \in Nat
  BY <1>2, Constants, BoundsType
<1>4. s <= e /\ e <= n
  BY <1>1, <1>2, <1>3 DEF is_invalid_range
<1> HIDE DEF s, e, n, at
<1>5. PICK w \in [start : Nat, stop : Nat, thread : Threads] :
        windows' = {w} /\ w.start = at + s /\ w.stop = at + e
  <2>1. at + s \in Nat /\ at + e \in Nat
    BY <1>2, <1>3
  <2>2. windows' = {Window(at + s, at + e, t)}
    BY <1>1 DEF s, e
  <2>3. /\ Window(at + s, at + e, t) \in [start : Nat, stop : Nat, thread : Threads]
        /\ Window(at + s, at + e, t).start = at + s /\ Window(at + s, at + e, t).stop = at + e
    BY <2>1 DEF Window
  <2> QED BY <2>2, <2>3
<1>6. Covers(w) \subseteq OwnBits(list)
  BY <1>2, <1>3, <1>4, <1>5 DEF Covers, OwnBits, n, at
<1>7. UNCHANGED <<list, mem, refs, job>> /\ refs = {} /\ \A u \in Threads : job[u].bits = {}
  BY FreeHasNoBits DEF Open
<1>8. Types'
  BY <1>5, <1>7 DEF IInv, Types
<1>9. Inside'
  BY <1>2, <1>3, <1>4, <1>5, <1>6, <1>7 DEF IInv, Inside, Covers, OwnBits
<1>10. Apart'
  BY <1>5, <1>7 DEF Apart, Detached
<1>11. Finished'
  BY <1>7 DEF IInv, Finished, Idle
<1> QED BY <1>8, <1>9, <1>10, <1>11 DEF IInv

(* A window cut at either end, or in two, keeps its bits apart. *)
LEMMA CutKeeps ==
  ASSUME IInv, NEW x \in windows, NEW a \in Nat, NEW b \in Nat, NEW c \in Nat, NEW ys,
         x.start <= a, a <= b, b <= c, c <= x.stop,
         ys \subseteq {[x EXCEPT !.start = a, !.stop = b], [x EXCEPT !.start = b, !.stop = c]},
         Becomes(x, ys), UNCHANGED <<list, mem, refs, job>>
  PROVE  IInv'
<1> DEFINE p == [x EXCEPT !.start = a, !.stop = b]
           q == [x EXCEPT !.start = b, !.stop = c]
<1>1. x \in [start : Nat, stop : Nat, thread : Threads]
  BY DEF IInv, Types
<1>2. /\ p \in [start : Nat, stop : Nat, thread : Threads] /\ p.start = a /\ p.stop = b
      /\ q \in [start : Nat, stop : Nat, thread : Threads] /\ q.start = b /\ q.stop = c
  BY <1>1
<1>3. ys \subseteq {p, q}
  OBVIOUS
<1> HIDE DEF p, q
<1>4. ys \subseteq [start : Nat, stop : Nat, thread : Threads]
  BY <1>2, <1>3
<1>5. \A y \in ys : y.start <= y.stop /\ Covers(y) \subseteq Covers(x)
  BY <1>1, <1>2, <1>3 DEF Covers
<1>6. \A y, z \in ys : y # z => Covers(y) \cap Covers(z) = {}
  <2>1. Covers(p) \cap Covers(q) = {}
    BY <1>2 DEF Covers
  <2> QED BY <1>3, <2>1
<1> QED BY <1>4, <1>5, <1>6, PiecesKeep

LEMMA WindowsKeep ==
  IInv /\ (SetLimit \/ SetEndLimit \/ SplitOff \/ Send \/ DropWindow) => IInv'
<1> SUFFICES ASSUME IInv, SetLimit \/ SetEndLimit \/ SplitOff \/ Send \/ DropWindow PROVE IInv'
  OBVIOUS
<1>1. \A x \in windows : /\ x \in [start : Nat, stop : Nat, thread : Threads]
                         /\ x.start \in Nat /\ x.stop \in Nat /\ x.start <= x.stop
  BY DEF IInv, Types, Inside
<1>2. Counts \subseteq Nat
  BY IterMutAssumption
<1>3. CASE SetLimit
  <2>1. PICK x \in windows, n \in Counts :
          /\ n <= len(x) /\ Becomes(x, {[x EXCEPT !.stop = x.start + n]})
          /\ UNCHANGED <<list, mem, refs, job>>
    BY <1>3 DEF SetLimit
  <2> DEFINE b == x.start + n
  <2>2. b \in Nat /\ x.start <= b /\ b <= x.stop
    BY <1>1, <1>2, <2>1 DEF len
  <2>3. [x EXCEPT !.stop = b] = [x EXCEPT !.start = x.start, !.stop = b]
    BY <1>1
  <2> HIDE DEF b
  <2>4. Becomes(x, {[x EXCEPT !.stop = b]})
    BY <2>1 DEF b
  <2>5. {[x EXCEPT !.stop = b]}
          \subseteq {[x EXCEPT !.start = x.start, !.stop = b], [x EXCEPT !.start = b, !.stop = b]}
    BY <2>3
  <2>6. x.start \in Nat /\ x.start <= x.start /\ b <= b
    BY <1>1, <2>2
  <2> QED BY <2>1, <2>2, <2>4, <2>5, <2>6, CutKeeps
<1>4. CASE SetEndLimit
  <2>1. PICK x \in windows, n \in Counts :
          /\ n <= len(x) /\ Becomes(x, {[x EXCEPT !.start = x.stop - n]})
          /\ UNCHANGED <<list, mem, refs, job>>
    BY <1>4 DEF SetEndLimit
  <2> DEFINE b == x.stop - n
  <2>2. b \in Nat /\ x.start <= b /\ b <= x.stop
    BY <1>1, <1>2, <2>1 DEF len
  <2>3. [x EXCEPT !.start = b] = [x EXCEPT !.start = b, !.stop = x.stop]
    BY <1>1
  <2> HIDE DEF b
  <2>4. Becomes(x, {[x EXCEPT !.start = b]})
    BY <2>1 DEF b
  <2>5. {[x EXCEPT !.start = b]}
          \subseteq {[x EXCEPT !.start = b, !.stop = b], [x EXCEPT !.start = b, !.stop = x.stop]}
    BY <2>3
  <2>6. x.stop \in Nat /\ x.stop <= x.stop /\ b <= b
    BY <1>1, <2>2
  <2> QED BY <2>1, <2>2, <2>4, <2>5, <2>6, CutKeeps
<1>5. CASE SplitOff
  <2>1. PICK x \in windows, n \in Counts :
          /\ n <= len(x)
          /\ Becomes(x, {[x EXCEPT !.stop = x.start + n], [x EXCEPT !.start = x.start + n]})
          /\ UNCHANGED <<list, mem, refs, job>>
    BY <1>5 DEF SplitOff
  <2> DEFINE b == x.start + n
  <2>2. b \in Nat /\ x.start <= b /\ b <= x.stop
    BY <1>1, <1>2, <2>1 DEF len
  <2>3. /\ [x EXCEPT !.stop = b] = [x EXCEPT !.start = x.start, !.stop = b]
        /\ [x EXCEPT !.start = b] = [x EXCEPT !.start = b, !.stop = x.stop]
    BY <1>1
  <2> HIDE DEF b
  <2>4. Becomes(x, {[x EXCEPT !.stop = b], [x EXCEPT !.start = b]})
    BY <2>1 DEF b
  <2>5. {[x EXCEPT !.stop = b], [x EXCEPT !.start = b]}
          \subseteq {[x EXCEPT !.start = x.start, !.stop = b], [x EXCEPT !.start = b, !.stop = x.stop]}
    BY <2>3
  <2>6. x.start \in Nat /\ x.stop \in Nat /\ x.start <= x.start /\ x.stop <= x.stop
    BY <1>1, <2>2
  <2> QED BY <2>1, <2>2, <2>4, <2>5, <2>6, CutKeeps
<1>6. CASE Send
  <2>1. PICK x \in windows, t \in Threads :
          Becomes(x, {[x EXCEPT !.thread = t]}) /\ UNCHANGED <<list, mem, refs, job>>
    BY <1>6 DEF Send
  <2> DEFINE y == [x EXCEPT !.thread = t]
  <2>2. y \in [start : Nat, stop : Nat, thread : Threads] /\ y.start = x.start /\ y.stop = x.stop
    BY <1>1
  <2> HIDE DEF y
  <2>3. y.start <= y.stop /\ Covers(y) = Covers(x)
    BY <1>1, <2>2 DEF Covers
  <2>4. Becomes(x, {y})
    BY <2>1 DEF y
  <2> QED BY <2>1, <2>2, <2>3, <2>4, PiecesKeep
<1>7. CASE DropWindow
  <2>1. PICK x \in windows : Becomes(x, {}) /\ UNCHANGED <<list, mem, refs, job>>
    BY <1>7 DEF DropWindow
  <2> QED BY <2>1, PiecesKeep
<1> QED BY <1>3, <1>4, <1>5, <1>6, <1>7

-----------------------------------------------------------------------------
(* References come and go. *)

(* const_next: the first bit of a window leaves it.                        *)
LEMMA NextBitKeeps == IInv /\ NextBit => IInv'
<1> SUFFICES ASSUME IInv, NextBit PROVE IInv'
  OBVIOUS
<1>1. PICK x \in windows :
        /\ Free(x.thread) /\ x.start # x.stop
        /\ Becomes(x, {TakeBit(x).rest})
        /\ refs' = refs \cup {Ref(TakeBit(x).bit, x.thread)}
        /\ UNCHANGED <<list, mem, job>>
  BY DEF NextBit
<1> DEFINE w == [x EXCEPT !.start = x.start + 1]
           r == Ref(x.start, x.thread)
<1>2. x \in [start : Nat, stop : Nat, thread : Threads] /\ x.start < x.stop
  BY <1>1 DEF IInv, Types, Inside
<1>3. windows' = (windows \ {x}) \cup {w} /\ refs' = refs \cup {r}
  BY <1>1 DEF TakeBit, Becomes
<1>4. /\ w \in [start : Nat, stop : Nat, thread : Threads]
      /\ w.start = x.start + 1 /\ w.stop = x.stop
      /\ r \in [bit : Nat, thread : Threads] /\ r.bit = x.start /\ r.thread = x.thread
  BY <1>2 DEF Ref
<1> HIDE DEF w, r
<1>5. w.start <= w.stop /\ Covers(w) \subseteq Covers(x) /\ r.bit \in Covers(x) /\ r.bit \notin Covers(w)
  BY <1>2, <1>4 DEF Covers
<1>6. job[x.thread].bits = {}
  BY <1>1, <1>2, FreeHasNoBits
<1>7. Types'
  BY <1>1, <1>3, <1>4 DEF IInv, Types
<1>8. Inside'
  BY <1>1, <1>3, <1>5 DEF IInv, Inside, Covers, OwnBits
<1>9. Apart'
  <2>1. \A y, z \in windows' : y # z => Covers(y) \cap Covers(z) = {}
    BY <1>3, <1>5 DEF IInv, Apart
  <2>2. \A y \in refs' : \A z \in windows' : y.bit \notin Covers(z)
    BY <1>3, <1>5 DEF IInv, Apart
  <2>3. \A y, z \in refs' : y # z => y.bit # z.bit
    BY <1>3, <1>5 DEF IInv, Apart
  <2>4. ASSUME NEW t \in Threads PROVE ByRef(t)' \/ Detached(t)'
    <3>1. CASE ByRef(t)
      BY <1>1, <1>3, <3>1 DEF ByRef
    <3>2. CASE Detached(t)
      <4>1. job[t].bits \cap Covers(x) = {}
        BY <3>2 DEF Detached
      <4> QED BY <1>1, <1>3, <1>5, <3>2, <4>1 DEF Detached, Covers
    <3> QED BY <3>1, <3>2 DEF IInv, Apart
  <2> QED BY <1>1, <2>1, <2>2, <2>3, <2>4 DEF IInv, Apart, Covers
<1>10. Finished'
  BY <1>1 DEF IInv, Finished, Idle
<1> QED BY <1>7, <1>8, <1>9, <1>10 DEF IInv

LEMMA DropRefKeeps == IInv /\ DropRef => IInv'
<1> SUFFICES ASSUME IInv, DropRef PROVE IInv'
  OBVIOUS
<1>1. PICK y \in refs : Free(y.thread) /\ refs' = refs \ {y} /\ UNCHANGED <<list, mem, windows, job>>
  BY DEF DropRef
<1>2. y.thread \in Threads
  BY DEF IInv, Types
<1>3. job[y.thread].bits = {}
  BY <1>1, <1>2, FreeHasNoBits
<1>4. Types' /\ Inside' /\ Finished'
  BY <1>1 DEF IInv, Types, Inside, Finished, Covers, OwnBits, Idle
<1>5. ASSUME NEW t \in Threads PROVE ByRef(t)' \/ Detached(t)'
  <2>1. CASE ByRef(t)
    BY <1>1, <1>3, <2>1 DEF ByRef
  <2>2. CASE Detached(t)
    BY <1>1, <2>2 DEF Detached, Covers
  <2> QED BY <2>1, <2>2 DEF IInv, Apart
<1>6. Apart'
  BY <1>1, <1>5 DEF IInv, Apart, Covers
<1> QED BY <1>4, <1>6 DEF IInv

-----------------------------------------------------------------------------
(* Writes. *)

(* What thread t holds: the bits of its windows and references, and those  *)
(* it is writing.                                                          *)
Has(t, i) ==
  \/ \E x \in windows : x.thread = t /\ i \in Covers(x)
  \/ \E y \in refs : y.thread = t /\ i = y.bit
  \/ i \in job[t].bits

(* No bit is held by two threads. *)
LEMMA HasOneThread ==
  ASSUME IInv, NEW t \in Threads, NEW u \in Threads, t # u, NEW i, Has(t, i)
  PROVE  ~Has(u, i)
<1>1. ASSUME NEW a \in Threads, NEW b \in Threads, a # b, i \in job[a].bits, Has(b, i) PROVE FALSE
  <2>1. ByRef(a) \/ Detached(a)
    BY DEF IInv, Apart
  <2>2. i \notin job[b].bits
    BY <1>1 DEF IInv, Apart
  <2> QED BY <1>1, <2>1, <2>2 DEF Has, ByRef, Detached, IInv, Apart
<1>2. CASE i \in job[t].bits
  BY <1>1, <1>2
<1>3. CASE i \in job[u].bits
  BY <1>1, <1>3
<1>4. CASE i \notin job[t].bits /\ i \notin job[u].bits
  BY <1>4 DEF Has, IInv, Apart
<1> QED BY <1>2, <1>3, <1>4

(* A free thread begins to write bits it holds: those of a reference, or   *)
(* those of windows that it gives up.                                      *)
BeginsOwn(t, bits, ones, unit) ==
  /\ Free(t) /\ Begins(t, bits, ones, unit)
  /\ \A i \in bits : Has(t, i)
  /\ ones \subseteq bits /\ unit \in {WordSize, ByteSize}
  /\ windows' \subseteq windows
  /\ \/ \E y \in refs : y.thread = t /\ bits = {y.bit}
     \/ \A i \in bits : /\ \A x \in windows' : i \notin Covers(x)
                        /\ \A y \in refs : i # y.bit
  /\ UNCHANGED <<list, mem, refs>>

(* Held bits are bits of the list. *)
LEMMA HasInside ==
  ASSUME IInv, NEW t \in Threads, NEW i, Has(t, i)
  PROVE  i \in OwnBits(list) /\ i \in Nat
<1>1. i \in OwnBits(list)
  BY DEF Has, IInv, Inside
<1> QED BY <1>1, FirstBit DEF IInv, Types

(* The job that Begins gives a thread. *)
LEMMA BeginsJob ==
  ASSUME IInv, NEW t \in Threads, NEW bits, NEW ones, NEW unit, BeginsOwn(t, bits, ones, unit)
  PROVE  /\ job' \in [Threads -> [bits : SUBSET Nat, ones : SUBSET Nat, unit : {WordSize, ByteSize},
                                  seen : SUBSET SUBSET Nat]]
         /\ \A u \in Threads \ {t} : job'[u] = job[u]
         /\ job'[t].bits = bits /\ job'[t].ones = ones /\ job'[t].seen = {}
         /\ bits = {} => job'[t] = Idle
         /\ want' = (want \ bits) \cup ones
<1> DEFINE J == [bits : SUBSET Nat, ones : SUBSET Nat, unit : {WordSize, ByteSize}, seen : SUBSET SUBSET Nat]
           j == IF bits = {} THEN Idle ELSE [bits |-> bits, ones |-> ones, unit |-> unit, seen |-> {}]
<1>1. job \in [Threads -> J] /\ job' = [job EXCEPT ![t] = j] /\ want' = (want \ bits) \cup ones
  BY DEF IInv, Types, BeginsOwn, Begins
<1>2. bits \subseteq Nat /\ ones \subseteq bits /\ unit \in {WordSize, ByteSize}
  BY HasInside DEF BeginsOwn
<1>3. j \in J /\ j.bits = bits /\ j.ones = ones /\ j.seen = {} /\ (bits = {} => j = Idle)
  <2>1. CASE bits = {}
    BY <1>2, <2>1, IdleType
  <2>2. CASE bits # {}
    BY <1>2, <2>2
  <2> QED BY <2>1, <2>2
<1> HIDE DEF j, J
<1>4. job' \in [Threads -> J] /\ job'[t] = j /\ \A u \in Threads \ {t} : job'[u] = job[u]
  BY <1>1, <1>3
<1> QED BY <1>1, <1>3, <1>4 DEF J

LEMMA BeginsKeep ==
  ASSUME IInv, NEW t \in Threads, NEW bits, NEW ones, NEW unit, BeginsOwn(t, bits, ones, unit)
  PROVE  IInv'
<1>1. /\ job' \in [Threads -> [bits : SUBSET Nat, ones : SUBSET Nat, unit : {WordSize, ByteSize},
                                seen : SUBSET SUBSET Nat]]
      /\ \A u \in Threads \ {t} : job'[u] = job[u]
      /\ job'[t].bits = bits
      /\ bits = {} => job'[t] = Idle
  BY BeginsJob
<1>2. windows' \subseteq windows /\ UNCHANGED <<list, mem, refs>>
  BY DEF BeginsOwn
<1>3. bits \subseteq OwnBits(list)
  BY HasInside DEF BeginsOwn
<1>4. Types'
  BY <1>1, <1>2 DEF IInv, Types
<1>5. Inside'
  BY <1>1, <1>2, <1>3 DEF IInv, Inside, Covers, OwnBits, first_data_bit
<1>6. Apart'
  <2>1. ASSUME NEW u \in Threads PROVE ByRef(u)' \/ Detached(u)'
    <3>1. CASE u = t
      BY <1>1, <1>2, <3>1 DEF BeginsOwn, ByRef, Detached, Covers
    <3>2. CASE u # t
      <4>1. job'[u] = job[u] /\ (ByRef(u) \/ Detached(u))
        BY <1>1, <3>2 DEF IInv, Apart
      <4> QED BY <1>2, <4>1 DEF ByRef, Detached, Covers
    <3> QED BY <3>1, <3>2
  <2>2. ASSUME NEW u \in Threads \ {t} PROVE bits \cap job[u].bits = {}
    <3>1. \A i \in bits : ~Has(u, i)
      BY HasOneThread DEF BeginsOwn
    <3> QED BY <3>1 DEF Has
  <2>3. \A u, v \in Threads : u # v => job'[u].bits \cap job'[v].bits = {}
    BY <1>1, <2>2 DEF IInv, Apart
  <2> QED BY <1>2, <2>1, <2>3 DEF IInv, Apart, Covers
<1>7. Finished'
  BY <1>1 DEF IInv, Finished, Idle
<1> QED BY <1>4, <1>5, <1>6, <1>7 DEF IInv

(* Windows are dropped, by a call or by a panic, and nothing else happens. *)
Dropped == windows' \subseteq windows /\ UNCHANGED <<list, mem, want, refs, job>>

LEMMA DroppedKeep == IInv /\ Dropped => IInv'
<1> SUFFICES ASSUME IInv, Dropped PROVE IInv'
  OBVIOUS
<1>1. Types' /\ Inside' /\ Finished'
  BY DEF Dropped, IInv, Types, Inside, Finished, Covers, OwnBits, Idle
<1>2. Apart'
  <2>1. \A t \in Threads : ByRef(t)' \/ Detached(t)'
    BY DEF Dropped, IInv, Apart, ByRef, Detached, Covers
  <2> QED BY <2>1 DEF Dropped, IInv, Apart, Covers
<1> QED BY <1>1, <1>2 DEF IInv

(* A string moved to where a window begins stays in the window. *)
LEMMA MovedInside ==
  ASSUME NEW s \in Nat, NEW e \in Nat, NEW n \in Nat, n = e - s, NEW o, o \subseteq 0 .. (n - 1)
  PROVE  Up(o, s) \subseteq s .. (e - 1)
BY DEF Up

(* set and update, fill, copy_from and copy_to. *)
LEMMA WriteBegins ==
  IInv /\ (SetRef \/ Fill \/ CopyFrom \/ CopyTo) =>
    \/ \E t \in Threads : \E bits, ones, unit : BeginsOwn(t, bits, ones, unit)
    \/ Dropped
<1> SUFFICES ASSUME IInv, SetRef \/ Fill \/ CopyFrom \/ CopyTo
             PROVE  \/ \E t \in Threads : \E bits, ones, unit : BeginsOwn(t, bits, ones, unit)
                    \/ Dropped
  OBVIOUS
<1>1. \A x \in windows : x.start \in Nat /\ x.stop \in Nat /\ x.thread \in Threads /\ x.start <= x.stop
  BY WindowType DEF IInv, Inside
<1>2. ASSUME NEW x \in windows, NEW i \in Covers(x)
      PROVE  /\ Has(x.thread, i)
             /\ \A y \in windows \ {x} : i \notin Covers(y)
             /\ \A y \in refs : i # y.bit
  BY DEF Has, IInv, Apart
<1>3. CASE SetRef
  <2>1. PICK y \in refs : \E v \in {TRUE, FALSE, y.bit \notin mem} :
          /\ Free(y.thread)
          /\ Begins(y.thread, {y.bit}, IF v THEN {y.bit} ELSE {}, WordSize)
          /\ UNCHANGED <<list, mem, windows, refs>>
    BY <1>3 DEF SetRef
  <2>2. y.thread \in Threads /\ Has(y.thread, y.bit)
    BY DEF IInv, Types, Has
  <2>3. PICK ones : /\ Free(y.thread) /\ Begins(y.thread, {y.bit}, ones, WordSize)
                    /\ ones \subseteq {y.bit} /\ UNCHANGED <<list, mem, windows, refs>>
    BY <2>1
  <2>4. BeginsOwn(y.thread, {y.bit}, ones, WordSize)
    BY <2>2, <2>3 DEF BeginsOwn
  <2> QED BY <2>2, <2>4
<1>4. CASE Fill
  <2>1. PICK x \in windows, v \in BOOLEAN :
          /\ Free(x.thread)
          /\ Begins(x.thread, Covers(x), IF v THEN Covers(x) ELSE {}, ByteSize)
          /\ Becomes(x, {}) /\ UNCHANGED <<list, mem, refs>>
    BY <1>4 DEF Fill
  <2>2. BeginsOwn(x.thread, Covers(x), IF v THEN Covers(x) ELSE {}, ByteSize)
    BY <1>2, <2>1 DEF BeginsOwn, Becomes
  <2> QED BY <1>1, <2>2
<1>5. CASE CopyFrom
  <2>1. PICK x \in windows, b \in Values :
          /\ Free(x.thread)
          /\ IF b.len = len(x) THEN Begins(x.thread, Covers(x), Up(b.ones, x.start), WordSize)
             ELSE UNCHANGED <<job, want>>
          /\ Becomes(x, {}) /\ UNCHANGED <<list, mem, refs>>
    BY <1>5 DEF CopyFrom
  <2>2. CASE b.len = len(x)
    <3>1. b.len \in Nat /\ b.ones \subseteq 0 .. (b.len - 1)
      BY IterMutAssumption DEF IsBitString
    <3>2. Up(b.ones, x.start) \subseteq Covers(x)
      BY <1>1, <2>2, <3>1, MovedInside DEF len, Covers
    <3>3. BeginsOwn(x.thread, Covers(x), Up(b.ones, x.start), WordSize)
      BY <1>2, <2>1, <2>2, <3>2 DEF BeginsOwn, Becomes
    <3> QED BY <1>1, <3>3
  <2>3. CASE b.len # len(x)
    BY <2>1, <2>3 DEF Dropped, Becomes
  <2> QED BY <2>2, <2>3
<1>6. CASE CopyTo
  <2>1. PICK x \in windows : \E y \in windows \ {x} :
          /\ x.thread = y.thread /\ Free(x.thread)
          /\ IF len(x) = len(y)
             THEN Begins(y.thread, Covers(y), Up(Down(mem \cap Covers(x), x.start), y.start), WordSize)
             ELSE UNCHANGED <<job, want>>
          /\ windows' = windows \ {x, y} /\ UNCHANGED <<list, mem, refs>>
    BY <1>6 DEF CopyTo
  <2>2. PICK y \in windows \ {x} :
          /\ x.thread = y.thread /\ Free(x.thread)
          /\ IF len(x) = len(y)
             THEN Begins(y.thread, Covers(y), Up(Down(mem \cap Covers(x), x.start), y.start), WordSize)
             ELSE UNCHANGED <<job, want>>
          /\ windows' = windows \ {x, y} /\ UNCHANGED <<list, mem, refs>>
    BY <2>1
  <2>3. CASE len(x) = len(y)
    <3> DEFINE o == Down(mem \cap Covers(x), x.start)
    <3>1. o \subseteq 0 .. (len(x) - 1) /\ len(x) \in Nat
      BY <1>1 DEF Down, Covers, len
    <3> HIDE DEF o
    <3>2. Up(o, y.start) \subseteq Covers(y)
      BY <1>1, <2>3, <3>1, MovedInside DEF len, Covers
    <3>3. BeginsOwn(y.thread, Covers(y), Up(o, y.start), WordSize)
      BY <1>2, <2>2, <2>3, <3>2 DEF BeginsOwn, o
    <3> QED BY <1>1, <3>3
  <2>4. CASE len(x) # len(y)
    BY <2>2, <2>4 DEF Dropped
  <2> QED BY <2>3, <2>4
<1> QED BY <1>3, <1>4, <1>5, <1>6

-----------------------------------------------------------------------------
(* The steps of a write. *)

(* The unit a thread comes to next is that of one of the bits it is to     *)
(* write.                                                                  *)
LEMMA UnitOfBit ==
  ASSUME Types, NEW t \in Threads, job[t].bits # {}
  PROVE  \E m \in job[t].bits : \A i : i \in Unit(t) <=> i \in Nat /\ i \div job[t].unit = m \div job[t].unit
<1> DEFINE B == job[t].bits
           w == job[t].unit
<1>1. B \subseteq Nat /\ w \in Nat /\ w > 0
  BY Constants, WordSizeType DEF Types
<1>2. Unit(t) = ((Min(B) \div w) * w) .. ((Min(B) \div w + 1) * w - 1)
  BY DEF Unit
<1> HIDE DEF B, w
<1>3. \E x \in B : \A y \in B : x <= y
  BY <1>1, Least DEF B
<1>4. Min(B) \in B
  BY <1>3, Zenon DEF Min
<1> DEFINE k == Min(B) \div w
<1>5. k \in Nat
  BY <1>1, <1>4, DivSplit
<1> HIDE DEF k
<1>6. (k * w) .. ((k + 1) * w - 1) \subseteq Int
  OBVIOUS
<1>7. \A i : i \in Unit(t) <=> i \in Nat /\ i \div w = k
  BY <1>1, <1>2, <1>5, <1>6, UnitPositions DEF k
<1> QED BY <1>4, <1>7 DEF k, B, w

(* A byte lies in one word. *)
LEMMA BytesNest ==
  ASSUME NEW i \in Nat, NEW j \in Nat, i \div ByteSize = j \div ByteSize
  PROVE  i \div WordSize = j \div WordSize
<1>1. ByteSize \in Nat /\ ByteSize > 0 /\ WordSize \in Nat /\ WordSize > 0 /\ WordSize % ByteSize = 0
  BY Constants, WordSizeType
<1>2. OneUnit(ByteSize, i, j)
  BY DEF OneUnit
<1>3. OneUnit(WordSize, i, j)
  BY <1>1, <1>2, UnitsNest
<1> QED BY <1>3 DEF OneUnit

(* It has no bit of a word other than that one's. *)
LEMMA UnitInWord ==
  ASSUME Types, NEW t \in Threads, job[t].bits # {}
  PROVE  \E m \in job[t].bits : \A i \in Unit(t) : i \in Nat /\ word_index(i) = word_index(m)
<1>1. PICK m \in job[t].bits :
        \A i : i \in Unit(t) <=> i \in Nat /\ i \div job[t].unit = m \div job[t].unit
  BY UnitOfBit
<1>2. m \in Nat /\ job[t].unit \in {WordSize, ByteSize}
  BY DEF Types
<1>3. ASSUME NEW i \in Nat, i \div job[t].unit = m \div job[t].unit PROVE i \div WordSize = m \div WordSize
  <2>1. CASE job[t].unit = WordSize
    BY <1>3, <2>1
  <2>2. CASE job[t].unit = ByteSize
    BY <1>2, <1>3, <2>2, BytesNest
  <2> QED BY <1>2, <2>1, <2>2
<1> QED BY <1>1, <1>3 DEF word_index

LEMMA LoadKeeps ==
  ASSUME IInv, NEW t \in Threads, Load(t)
  PROVE  IInv'
<1> DEFINE J == [bits : SUBSET Nat, ones : SUBSET Nat, unit : {WordSize, ByteSize}, seen : SUBSET SUBSET Nat]
           j == [job[t] EXCEPT !.seen = {mem \cap Unit(t)}]
<1>1. job \in [Threads -> J] /\ job' = [job EXCEPT ![t] = j] /\ UNCHANGED <<list, mem, windows, refs>>
  BY DEF IInv, Types, Load
<1>2. j \in J /\ j.bits = job[t].bits /\ job[t].bits # {}
  BY <1>1 DEF IInv, Types, Load
<1> HIDE DEF j, J
<1>3. job' \in [Threads -> J] /\ \A u \in Threads : job'[u].bits = job[u].bits /\ (u # t => job'[u] = job[u])
  BY <1>1, <1>2
<1>4. Types'
  BY <1>1, <1>3 DEF IInv, Types, J
<1>5. Inside' /\ Finished'
  BY <1>1, <1>2, <1>3 DEF IInv, Inside, Finished, Covers, OwnBits, first_data_bit, Idle
<1>6. Apart'
  <2>1. \A u \in Threads : ByRef(u)' \/ Detached(u)'
    BY <1>1, <1>3 DEF IInv, Apart, ByRef, Detached, Covers
  <2> QED BY <1>1, <1>3, <2>1 DEF IInv, Apart, Covers
<1> QED BY <1>4, <1>5, <1>6 DEF IInv

(* What is left to write after a store. *)
LEMMA StoreJob ==
  ASSUME IInv, NEW t \in Threads, Store(t), job[t].bits # {}
  PROVE  /\ job' \in [Threads -> [bits : SUBSET Nat, ones : SUBSET Nat, unit : {WordSize, ByteSize},
                                  seen : SUBSET SUBSET Nat]]
         /\ \A u \in Threads \ {t} : job'[u] = job[u]
         /\ job'[t].bits = job[t].bits \ Unit(t)
         /\ job'[t].seen = {}
         /\ job'[t].bits # {} => job'[t].ones = job[t].ones /\ job'[t].unit = job[t].unit
         /\ job'[t].bits = {} => job'[t] = Idle
<1> DEFINE J == [bits : SUBSET Nat, ones : SUBSET Nat, unit : {WordSize, ByteSize}, seen : SUBSET SUBSET Nat]
           left == job[t].bits \ Unit(t)
           j == IF left = {} THEN Idle ELSE [job[t] EXCEPT !.bits = left, !.seen = {}]
<1>1. job \in [Threads -> J] /\ job' = [job EXCEPT ![t] = j] /\ job[t] \in J /\ left \in SUBSET Nat
  <2>1. job \in [Threads -> J] /\ job[t] \in J
    BY DEF IInv, Types
  <2>2. job' = [job EXCEPT ![t] = j]
    BY DEF Store
  <2> QED BY <2>1, <2>2
<1> HIDE DEF left
<1>2. /\ j \in J /\ j.bits = left /\ j.seen = {}
      /\ j.bits # {} => j.ones = job[t].ones /\ j.unit = job[t].unit
      /\ j.bits = {} => j = Idle
  <2>1. CASE left = {}
    BY <2>1, IdleType
  <2>2. CASE left # {}
    BY <1>1, <2>2
  <2> QED BY <2>1, <2>2
<1> HIDE DEF j, J
<1>3. job' \in [Threads -> J] /\ job'[t] = j /\ \A u \in Threads \ {t} : job'[u] = job[u]
  BY <1>1, <1>2
<1> QED BY <1>2, <1>3 DEF J, left

(* A store writes a unit back as it was read, but for the bits of the job. *)
LEMMA StoreMem ==
  ASSUME IInv, NEW t \in Threads, Store(t)
  PROVE  /\ \E seen \in job[t].seen :
              mem' = (mem \ Unit(t)) \cup (seen \ job[t].bits) \cup (job[t].ones \cap Unit(t))
         /\ mem' \subseteq Nat
         /\ UNCHANGED <<list, want, windows, refs>>
<1>1. PICK seen \in job[t].seen :
        mem' = (mem \ Unit(t)) \cup Put(seen, job[t].bits, job[t].ones \cap Unit(t))
  BY DEF Store
<1>2. seen \subseteq Nat /\ job[t].ones \subseteq Nat /\ mem \subseteq Nat
  BY DEF IInv, Types
<1> QED BY <1>1, <1>2 DEF Put, Store

(* Only a thread that has something to write stores. *)
Seeing == \A t \in Threads : job[t].seen # {} => job[t].bits # {}

LEMMA BusySees == IInv => Seeing
BY IdleType DEF IInv, Finished, Seeing

LEMMA StoreKeeps ==
  ASSUME IInv, NEW t \in Threads, Store(t)
  PROVE  IInv'
<1>1. job[t].bits # {}
  BY BusySees DEF Seeing, Store
<1>2. /\ job' \in [Threads -> [bits : SUBSET Nat, ones : SUBSET Nat, unit : {WordSize, ByteSize},
                                seen : SUBSET SUBSET Nat]]
      /\ \A u \in Threads \ {t} : job'[u] = job[u]
      /\ job'[t].bits = job[t].bits \ Unit(t)
      /\ job'[t].bits = {} => job'[t] = Idle
  BY <1>1, StoreJob
<1>3. mem' \subseteq Nat /\ UNCHANGED <<list, want, windows, refs>>
  BY StoreMem
<1>4. Types'
  BY <1>2, <1>3 DEF IInv, Types
<1>5. Inside' /\ Finished'
  BY <1>2, <1>3 DEF IInv, Inside, Finished, Covers, OwnBits, first_data_bit, Idle
<1>6. Apart'
  <2>1. ASSUME NEW u \in Threads PROVE ByRef(u)' \/ Detached(u)'
    <3>1. CASE u # t
      BY <1>2, <1>3, <3>1 DEF IInv, Apart, ByRef, Detached, Covers
    <3>2. CASE u = t /\ Detached(t)
      BY <1>2, <1>3, <3>2 DEF Detached, Covers
    <3>3. CASE u = t /\ ByRef(t)
      <4>1. \E m \in job[t].bits : m \in Unit(t)
        BY <1>1, UnitOfBit DEF IInv, Types
      <4>2. job'[t].bits = {}
        BY <1>2, <3>3, <4>1 DEF ByRef
      <4> QED BY <3>3, <4>2 DEF Detached
    <3> QED BY <3>1, <3>2, <3>3 DEF IInv, Apart
  <2>2. \A u, v \in Threads : u # v => job'[u].bits \cap job'[v].bits = {}
    BY <1>2 DEF IInv, Apart
  <2> QED BY <1>3, <2>1, <2>2 DEF IInv, Apart, Covers
<1> QED BY <1>4, <1>5, <1>6 DEF IInv

LEMMA InitIInv == Init => IInv
<1> SUFFICES ASSUME Init PROVE IInv
  OBVIOUS
<1>1. Memory(list) \subseteq Nat
  BY MemoryInside DEF Init
<1>2. \A t \in Threads : job[t].bits = {} /\ job[t] = Idle
  BY IdleType DEF Init
<1>3. Types
  BY <1>1, IdleType DEF Init, Types
<1>4. Inside /\ Apart /\ Finished
  BY <1>2 DEF Init, Inside, Apart, Detached, Finished
<1> QED BY <1>3, <1>4 DEF IInv

LEMMA NextIInv == IInv /\ [Next]_vars => IInv'
<1> SUFFICES ASSUME IInv, [Next]_vars PROVE IInv'
  OBVIOUS
<1>1. CASE Open
  BY <1>1, OpenKeeps
<1>2. CASE SetLimit \/ SetEndLimit \/ SplitOff \/ Send \/ DropWindow
  BY <1>2, WindowsKeep
<1>3. CASE NextBit \/ DropRef
  BY <1>3, NextBitKeeps, DropRefKeeps
<1>4. CASE SetRef \/ Fill \/ CopyFrom \/ CopyTo
  BY <1>4, WriteBegins, BeginsKeep, DroppedKeep
<1>5. CASE \E t \in Threads : Load(t) \/ Store(t)
  BY <1>5, LoadKeeps, StoreKeeps
<1>6. CASE UNCHANGED vars
  <2>1. Dropped
    BY <1>6 DEF Dropped, vars
  <2> QED BY <2>1, DroppedKeep
<1> QED BY <1>1, <1>2, <1>3, <1>4, <1>5, <1>6 DEF Next

LEMMA SpecIInv == Spec => []IInv
BY InitIInv, NextIInv, PTL DEF Spec

(* Whatever windows are opened, cut, split, sent to other threads, taken   *)
(* apart into references and written through, no two handles have a bit in *)
(* common and none reaches beyond the list's bits: the exclusive access    *)
(* copy_from (iter.rs:1401) and BitRefMut::set (iter.rs:1280) rely on.     *)
THEOREM HandlesStayDisjoint == Spec => []HandlesDisjoint
<1>1. IInv => HandlesDisjoint
  <2> SUFFICES ASSUME IInv PROVE HandlesDisjoint
    OBVIOUS
  <2> DEFINE Written == {job[t].bits : t \in {u \in Threads : \A y \in refs : {y.bit} # job[u].bits}}
  <2>1. \A b \in Written : \E t \in Threads : b = job[t].bits /\ Detached(t)
    BY DEF IInv, Apart, ByRef
  <2>2. \A b \in Written :
          /\ \A x \in windows : b \cap Covers(x) = {}
          /\ \A y \in refs : y.bit \notin b
          /\ b \subseteq OwnBits(list)
    BY <2>1 DEF Detached, IInv, Inside
  <2> HIDE DEF Written
  <2>3. (UNION {Covers(x) : x \in windows}) \cup {y.bit : y \in refs} \cup (UNION Written) \subseteq OwnBits(list)
    <3>1. UNION {Covers(x) : x \in windows} \subseteq OwnBits(list)
      BY DEF IInv, Inside
    <3>2. {y.bit : y \in refs} \subseteq OwnBits(list)
      BY DEF IInv, Inside
    <3>3. \A b \in Written : b \subseteq OwnBits(list)
      BY <2>2
    <3>4. UNION Written \subseteq OwnBits(list)
      BY <3>3
    <3> QED BY <3>1, <3>2, <3>4
  <2> QED BY <2>2, <2>3 DEF HandlesDisjoint, IInv, Apart, Written
<1> QED BY <1>1, SpecIInv, PTL

-----------------------------------------------------------------------------
(* Where every word has bits of one thread only, writes are not lost.      *)

(* What a thread has still to write is what the calls asked for, and the   *)
(* units it has written are behind it.                                     *)
Pending ==
  \A t \in Threads :
    /\ \A i \in job[t].bits : i \in want <=> i \in job[t].ones
    /\ \A i \in job[t].ones :
         i \in job[t].bits \/ \A j \in job[t].bits : i \div job[t].unit # j \div job[t].unit

(* Elsewhere the memory is what the calls made it. *)
Landed ==
  /\ mem \subseteq AllBits(list) /\ want \subseteq AllBits(list)
  /\ \A i \in Nat : (\A t \in Threads : i \notin job[t].bits) => (i \in mem <=> i \in want)

(* No word has bits of two threads. *)
Alone ==
  \A t, u \in Threads : \A i, j \in Nat :
    t # u /\ Has(t, i) /\ Has(u, j) => word_index(i) # word_index(j)

(* What a thread has read of the bits around its own is still there. *)
Fresh ==
  \A t \in Threads : \A s \in job[t].seen :
    /\ s \subseteq Unit(t)
    /\ \A i \in Unit(t) \ job[t].bits : i \in s <=> i \in mem

LandInv == IInv /\ Pending /\ Landed /\ Alone /\ Fresh

(* Steps that change nothing but who holds what.                            *)
LEMMA HandsOverLands ==
  ASSUME LandInv, IInv', UNCHANGED <<list, mem, want, job>>, Alone'
  PROVE  LandInv'
<1>1. Pending'
  BY DEF LandInv, Pending
<1>2. Landed'
  BY DEF LandInv, Landed, AllBits, first_data_bit
<1>3. Fresh'
  BY DEF LandInv, Fresh, Unit
<1> QED BY <1>1, <1>2, <1>3 DEF LandInv

LEMMA FewerAlone ==
  ASSUME Alone, \A t \in Threads : \A i : Has(t, i)' => Has(t, i)
  PROVE  Alone'
BY DEF Alone

LEMMA OpenLands == LandInv /\ Open => LandInv'
<1> SUFFICES ASSUME LandInv, Open PROVE LandInv'
  OBVIOUS
<1>1. IInv'
  BY OpenKeeps DEF LandInv
<1>2. PICK w : windows' = {w} /\ UNCHANGED <<list, mem, want, refs, job>> /\ refs = {}
  BY DEF Open
<1>3. \A t \in Threads : job[t].bits = {}
  BY FreeHasNoBits DEF LandInv, Open
<1>4. \A t \in Threads : \A i : Has(t, i)' => w.thread = t
  BY <1>2, <1>3 DEF Has
<1>5. Alone'
  BY <1>4 DEF Alone
<1> QED BY <1>1, <1>2, <1>5, HandsOverLands

(* Given to a thread that holds nothing in its words, a window shares no   *)
(* word with another thread.                                               *)
LEMMA SendLands == LandInv /\ Careful /\ Send => LandInv'
<1> SUFFICES ASSUME LandInv, Careful, Send PROVE LandInv'
  OBVIOUS
<1>1. IInv'
  BY WindowsKeep DEF LandInv
<1>2. PICK x \in windows : \E t \in Threads \ {x.thread} :
        /\ WordsOf(Covers(x)) \cap WordsOf(HeldByOthers(t) \ Covers(x)) = {}
        /\ Free(x.thread)
        /\ Becomes(x, {[x EXCEPT !.thread = t]})
        /\ UNCHANGED <<list, mem, want, refs, job>>
  BY DEF Send
<1>3. PICK t \in Threads \ {x.thread} :
        /\ WordsOf(Covers(x)) \cap WordsOf(HeldByOthers(t) \ Covers(x)) = {}
        /\ Free(x.thread)
        /\ Becomes(x, {[x EXCEPT !.thread = t]})
        /\ UNCHANGED <<list, mem, want, refs, job>>
  BY <1>2
<1> DEFINE y == [x EXCEPT !.thread = t]
<1>4. y.thread = t /\ y.start = x.start /\ y.stop = x.stop /\ x.thread \in Threads
  BY DEF LandInv, IInv, Types
<1>5. windows' = (windows \ {x}) \cup {y}
  BY <1>3 DEF Becomes
<1> HIDE DEF y
<1>6. Covers(y) = Covers(x)
  BY <1>4 DEF Covers
<1>7. ASSUME NEW u \in Threads, NEW i, Has(u, i)' PROVE Has(u, i) \/ (u = t /\ i \in Covers(x))
  <2>1. CASE \E z \in windows' : z.thread = u /\ i \in Covers(z)
    <3>1. PICK z \in windows' : z.thread = u /\ i \in Covers(z)
      BY <2>1
    <3> QED BY <1>4, <1>5, <1>6, <3>1 DEF Has
  <2>2. CASE \E z \in refs : z.thread = u /\ i = z.bit
    BY <2>2 DEF Has
  <2>3. CASE i \in job[u].bits
    BY <2>3 DEF Has
  <2>4. \/ \E z \in windows' : z.thread = u /\ i \in Covers(z)
        \/ \E z \in refs : z.thread = u /\ i = z.bit
        \/ i \in job[u].bits
    BY <1>3, <1>7 DEF Has, Covers
  <2> QED BY <2>1, <2>2, <2>3, <2>4
<1>8. ASSUME NEW u \in Threads, u # t, NEW i, Has(u, i)' PROVE i \in HeldByOthers(t) \ Covers(x)
  <2>1. /\ \/ \E z \in windows \ {x} : z.thread = u /\ i \in Covers(z)
           \/ \E z \in refs : z.thread = u /\ i = z.bit
           \/ i \in job[u].bits
    BY <1>3, <1>4, <1>5, <1>8 DEF Has, Covers
  <2>2. i \in HeldByOthers(t)
    BY <1>8, <2>1 DEF HeldByOthers
  <2>3. i \notin Covers(x)
    <3>1. CASE \E z \in windows \ {x} : i \in Covers(z)
      BY <3>1 DEF LandInv, IInv, Apart
    <3>2. CASE \E z \in refs : i = z.bit
      BY <3>2 DEF LandInv, IInv, Apart
    <3>3. CASE i \in job[u].bits
      BY <3>3 DEF LandInv, IInv, Apart, ByRef, Detached
    <3> QED BY <2>1, <3>1, <3>2, <3>3
  <2> QED BY <2>2, <2>3
<1>9. ASSUME NEW u \in Threads, u # t, NEW i, NEW j, Has(t, i)', Has(u, j)', i \in Nat, j \in Nat
      PROVE  word_index(i) # word_index(j)
  <2>1. CASE i \in Covers(x)
    <3>1. word_index(i) \in WordsOf(Covers(x)) /\ word_index(j) \in WordsOf(HeldByOthers(t) \ Covers(x))
      BY <1>8, <1>9, <2>1 DEF WordsOf
    <3> QED BY <1>3, <3>1
  <2>2. CASE i \notin Covers(x)
    BY <1>7, <1>9, <2>2 DEF LandInv, Alone
  <2> QED BY <2>1, <2>2
<1>10. Alone'
  <2>1. ASSUME NEW u \in Threads, NEW v \in Threads, NEW i \in Nat, NEW j \in Nat,
               u # v, Has(u, i)', Has(v, j)'
        PROVE  word_index(i) # word_index(j)
    <3>1. CASE u = t
      BY <1>9, <2>1, <3>1
    <3>2. CASE v = t
      BY <1>9, <2>1, <3>2
    <3>3. CASE u # t /\ v # t
      BY <1>7, <2>1, <3>3 DEF LandInv, Alone
    <3> QED BY <3>1, <3>2, <3>3
  <2> QED BY <2>1 DEF Alone
<1> QED BY <1>1, <1>3, <1>10, HandsOverLands

(* Cutting, splitting, dropping and taking bits out of a window.           *)
LEMMA HandlesLand ==
  LandInv /\ (SetLimit \/ SetEndLimit \/ SplitOff \/ DropWindow \/ NextBit \/ DropRef) => LandInv'
<1> SUFFICES ASSUME LandInv, SetLimit \/ SetEndLimit \/ SplitOff \/ DropWindow \/ NextBit \/ DropRef
             PROVE  LandInv'
  OBVIOUS
<1>1. IInv'
  BY WindowsKeep, NextBitKeeps, DropRefKeeps DEF LandInv
<1>2. UNCHANGED <<list, mem, want, job>>
  BY DEF SetLimit, SetEndLimit, SplitOff, DropWindow, NextBit, DropRef
<1>3. \A x \in windows : /\ x \in [start : Nat, stop : Nat, thread : Threads]
                         /\ x.start <= x.stop
  BY DEF LandInv, IInv, Types, Inside
<1>4. ASSUME NEW z \in windows'
      PROVE  \E x \in windows : x.thread = z.thread /\ Covers(z) \subseteq Covers(x)
  <2>1. ASSUME NEW x \in windows, NEW n \in Nat, n <= len(x),
               z = [x EXCEPT !.stop = x.start + n] \/ z = [x EXCEPT !.start = x.stop - n]
                 \/ z = [x EXCEPT !.start = x.start + n]
        PROVE  x.thread = z.thread /\ Covers(z) \subseteq Covers(x)
    BY <1>3, <2>1 DEF Covers, len
  <2>2. Counts \subseteq Nat
    BY IterMutAssumption
  <2>3. CASE z \in windows
    BY <2>3
  <2>4. CASE z \notin windows
    <3>1. CASE SetLimit
      BY <2>1, <2>2, <2>4, <3>1 DEF SetLimit, Becomes
    <3>2. CASE SetEndLimit
      BY <2>1, <2>2, <2>4, <3>2 DEF SetEndLimit, Becomes
    <3>3. CASE SplitOff
      BY <2>1, <2>2, <2>4, <3>3 DEF SplitOff, Becomes
    <3>4. CASE NextBit
      <4>1. PICK x \in windows : z = [x EXCEPT !.start = x.start + 1] /\ x.start # x.stop
        BY <2>4, <3>4 DEF NextBit, Becomes, TakeBit
      <4>2. 1 <= len(x)
        BY <1>3, <4>1 DEF len
      <4> QED BY <2>1, <4>1, <4>2
    <3>5. CASE DropWindow \/ DropRef
      BY <2>4, <3>5 DEF DropWindow, DropRef, Becomes
    <3> QED BY <3>1, <3>2, <3>3, <3>4, <3>5
  <2> QED BY <2>3, <2>4
<1>5. ASSUME NEW y \in refs', y \notin refs
      PROVE  \E x \in windows : x.thread = y.thread /\ y.bit \in Covers(x)
  <2>1. NextBit
    BY <1>5 DEF SetLimit, SetEndLimit, SplitOff, DropWindow, DropRef
  <2>2. PICK x \in windows : y = Ref(x.start, x.thread) /\ x.start # x.stop
    BY <1>5, <2>1 DEF NextBit, TakeBit
  <2> QED BY <1>3, <2>2 DEF Ref, Covers
<1>6. \A t \in Threads : \A i : Has(t, i)' => Has(t, i)
  <2>1. ASSUME NEW t \in Threads, NEW i,
               \/ \E z \in windows' : z.thread = t /\ i \in Covers(z)
               \/ \E y \in refs' : y.thread = t /\ i = y.bit
               \/ i \in job[t].bits
        PROVE  Has(t, i)
    BY <1>4, <1>5, <2>1 DEF Has
  <2> QED BY <1>2, <2>1 DEF Has, Covers
<1> QED BY <1>1, <1>2, <1>6, FewerAlone, HandsOverLands DEF LandInv

LEMMA DroppedLands == LandInv /\ Dropped => LandInv'
<1> SUFFICES ASSUME LandInv, Dropped PROVE LandInv'
  OBVIOUS
<1>1. IInv'
  BY DroppedKeep DEF LandInv
<1>2. UNCHANGED <<list, mem, want, job>>
  BY DEF Dropped
<1>3. \A t \in Threads : \A i : Has(t, i)' => Has(t, i)
  BY DEF Dropped, Has, Covers
<1> QED BY <1>1, <1>2, <1>3, FewerAlone, HandsOverLands DEF LandInv

LEMMA BeginsLands ==
  ASSUME LandInv, NEW t \in Threads, NEW bits, NEW ones, NEW unit, BeginsOwn(t, bits, ones, unit)
  PROVE  LandInv'
<1>1. IInv /\ IInv'
  BY BeginsKeep DEF LandInv
<1>2. /\ \A u \in Threads \ {t} : job'[u] = job[u]
      /\ job'[t].bits = bits /\ job'[t].ones = ones /\ job'[t].seen = {}
      /\ want' = (want \ bits) \cup ones
  BY <1>1, BeginsJob
<1>3. windows' \subseteq windows /\ UNCHANGED <<list, mem, refs>> /\ ones \subseteq bits
  BY DEF BeginsOwn
<1>4. job[t].bits = {}
  BY <1>1, FreeHasNoBits DEF BeginsOwn
<1>5. \A i \in bits : Has(t, i) /\ i \in OwnBits(list) /\ i \in Nat
  BY <1>1, HasInside DEF BeginsOwn
<1>6. ASSUME NEW u \in Threads \ {t} PROVE bits \cap job[u].bits = {}
  <2>1. \A i \in bits : ~Has(u, i)
    BY <1>1, <1>5, HasOneThread
  <2> QED BY <2>1 DEF Has
<1>7. Pending'
  BY <1>2, <1>3, <1>6 DEF LandInv, Pending
<1>8. Landed'
  <2>1. OwnBits(list) \subseteq AllBits(list)
    BY <1>1, OwnBitsInMemory DEF IInv, Types
  <2>2. mem' \subseteq AllBits(list)' /\ want' \subseteq AllBits(list)'
    BY <1>2, <1>3, <1>5, <2>1 DEF LandInv, Landed, AllBits, first_data_bit
  <2>3. ASSUME NEW i \in Nat, \A u \in Threads : i \notin job'[u].bits PROVE i \in mem' <=> i \in want'
    <3>1. i \notin bits /\ \A u \in Threads : i \notin job[u].bits
      BY <1>2, <1>4, <2>3
    <3> QED BY <1>2, <1>3, <3>1 DEF LandInv, Landed
  <2> QED BY <2>2, <2>3 DEF Landed
<1>9. Alone'
  <2>1. \A u \in Threads : \A i : Has(u, i)' => Has(u, i)
    BY <1>2, <1>3, <1>5 DEF Has, Covers
  <2> QED BY <2>1, FewerAlone DEF LandInv
<1>10. Fresh'
  BY <1>2, <1>3 DEF LandInv, Fresh, Unit
<1> QED BY <1>1, <1>7, <1>8, <1>9, <1>10 DEF LandInv

LEMMA LoadLands ==
  ASSUME LandInv, NEW t \in Threads, Load(t)
  PROVE  LandInv'
<1>1. IInv'
  BY LoadKeeps DEF LandInv
<1>2. /\ job \in [Threads -> [bits : SUBSET Nat, ones : SUBSET Nat, unit : {WordSize, ByteSize},
                               seen : SUBSET SUBSET Nat]]
      /\ job' = [job EXCEPT ![t].seen = {mem \cap Unit(t)}]
      /\ UNCHANGED <<list, mem, want, windows, refs>>
  BY DEF LandInv, IInv, Types, Load
<1>3. /\ \A u \in Threads : /\ job'[u].bits = job[u].bits /\ job'[u].ones = job[u].ones
                            /\ job'[u].unit = job[u].unit
                            /\ u # t => job'[u].seen = job[u].seen
      /\ job'[t].seen = {mem \cap Unit(t)}
  BY <1>2
<1>4. \A u \in Threads : Unit(u)' = Unit(u)
  BY <1>3 DEF Unit
<1>5. Pending'
  BY <1>2, <1>3 DEF LandInv, Pending
<1>6. Landed'
  BY <1>2, <1>3 DEF LandInv, Landed, AllBits, first_data_bit
<1>7. Alone'
  <2>1. \A u \in Threads : \A i : Has(u, i)' => Has(u, i)
    BY <1>2, <1>3 DEF Has, Covers
  <2> QED BY <2>1, FewerAlone DEF LandInv
<1>8. Fresh'
  BY <1>2, <1>3, <1>4 DEF LandInv, Fresh
<1> QED BY <1>1, <1>5, <1>6, <1>7, <1>8 DEF LandInv

LEMMA StoreLands ==
  ASSUME LandInv, NEW t \in Threads, Store(t)
  PROVE  LandInv'
<1>1. IInv /\ IInv' /\ job[t].bits # {}
  BY StoreKeeps, BusySees DEF LandInv, Seeing, Store
<1>2. /\ \A u \in Threads \ {t} : job'[u] = job[u]
      /\ job'[t].bits = job[t].bits \ Unit(t) /\ job'[t].seen = {}
      /\ job'[t].bits # {} => job'[t].ones = job[t].ones /\ job'[t].unit = job[t].unit
      /\ job'[t].bits = {} => job'[t] = Idle
  BY <1>1, StoreJob
<1>3. PICK s \in job[t].seen :
        mem' = (mem \ Unit(t)) \cup (s \ job[t].bits) \cup (job[t].ones \cap Unit(t))
  BY <1>1, StoreMem
<1>4. UNCHANGED <<list, want, windows, refs>>
  BY <1>1, StoreMem
<1>5. PICK m \in job[t].bits : \A i : i \in Unit(t) <=> i \in Nat /\ i \div job[t].unit = m \div job[t].unit
  BY <1>1, UnitOfBit DEF IInv
<1>6. s \subseteq Unit(t) /\ \A i \in Unit(t) \ job[t].bits : i \in s <=> i \in mem
  BY <1>3 DEF LandInv, Fresh
<1>7. \A i \in job[t].ones \cap Unit(t) : i \in job[t].bits
  BY <1>5 DEF LandInv, Pending
<1>8. job[t].bits \subseteq OwnBits(list) /\ job[t].bits \subseteq Nat /\ job[t].ones \subseteq Nat
  BY <1>1 DEF IInv, Types, Inside
<1>9. \A i : i \notin job[t].bits => (i \in mem' <=> i \in mem)
  BY <1>3, <1>6, <1>7
<1>10. \A i \in job[t].bits : i \notin Unit(t) => (i \in mem' <=> i \in mem)
  BY <1>3, <1>6
<1>11. \A i \in job[t].bits : i \in Unit(t) => (i \in mem' <=> i \in want)
  BY <1>3 DEF LandInv, Pending
<1>12. Pending'
  <2>1. ASSUME NEW i \in job[t].ones
        PROVE  i \in job'[t].bits \/ \A j \in job'[t].bits : i \div job[t].unit # j \div job[t].unit
    <3>1. CASE i \notin job[t].bits
      BY <1>2, <3>1 DEF LandInv, Pending
    <3>2. CASE i \in job[t].bits /\ i \in Unit(t)
      BY <1>2, <1>5, <1>8, <3>2
    <3>3. CASE i \in job[t].bits /\ i \notin Unit(t)
      BY <1>2, <3>3
    <3> QED BY <3>1, <3>2, <3>3
  <2>2. CASE job'[t].bits = {}
    BY <1>2, <1>4, <2>2, IdleType DEF LandInv, Pending
  <2>3. CASE job'[t].bits # {}
    BY <1>2, <1>4, <2>1, <2>3 DEF LandInv, Pending
  <2> QED BY <2>2, <2>3
<1>13. Landed'
  <2>1. OwnBits(list) \subseteq AllBits(list)
    BY <1>1, OwnBitsInMemory DEF IInv, Types
  <2>2. mem \subseteq AllBits(list) /\ want \subseteq AllBits(list)
    BY DEF LandInv, Landed
  <2>3. \A i \in mem' : i \in mem \/ i \in want
    BY <1>9, <1>10, <1>11
  <2>4. mem' \subseteq AllBits(list)' /\ want' \subseteq AllBits(list)'
    BY <1>4, <2>2, <2>3 DEF AllBits, first_data_bit
  <2>5. ASSUME NEW i \in Nat, \A u \in Threads : i \notin job'[u].bits PROVE i \in mem' <=> i \in want'
    <3>1. CASE i \in job[t].bits
      BY <1>2, <1>4, <1>11, <2>5, <3>1
    <3>2. CASE i \notin job[t].bits
      <4>1. \A u \in Threads : i \notin job[u].bits
        BY <1>2, <2>5, <3>2
      <4> QED BY <1>4, <1>9, <3>2, <4>1 DEF LandInv, Landed
    <3> QED BY <3>1, <3>2
  <2> QED BY <2>4, <2>5 DEF Landed
<1>14. Alone'
  <2>1. \A u \in Threads : \A i : Has(u, i)' => Has(u, i)
    BY <1>2, <1>4 DEF Has, Covers
  <2> QED BY <2>1, FewerAlone DEF LandInv
<1>15. Fresh'
  <2>1. ASSUME NEW u \in Threads \ {t}, job[u].bits # {} PROVE Unit(u) \cap job[t].bits = {}
    <3>1. PICK n \in job[u].bits : \A i \in Unit(u) : i \in Nat /\ word_index(i) = word_index(n)
      BY <1>1, <2>1, UnitInWord DEF IInv
    <3>2. n \in Nat
      BY <1>1, <3>1 DEF IInv, Types
    <3> QED BY <1>8, <3>1, <3>2 DEF LandInv, Alone, Has
  <2>2. ASSUME NEW u \in Threads \ {t}, NEW r \in job[u].seen
        PROVE  /\ r \subseteq Unit(u)
               /\ \A i \in Unit(u) \ job[u].bits : i \in r <=> i \in mem'
    <3>1. job[u].bits # {}
      BY <1>1, BusySees DEF Seeing
    <3> QED BY <1>9, <2>1, <3>1 DEF LandInv, Fresh
  <2>3. \A u \in Threads \ {t} : Unit(u)' = Unit(u) /\ job'[u] = job[u]
    BY <1>2 DEF Unit
  <2> QED BY <1>2, <2>2, <2>3 DEF Fresh
<1> QED BY <1>1, <1>12, <1>13, <1>14, <1>15 DEF LandInv

LEMMA InitLands == Init => LandInv
<1> SUFFICES ASSUME Init PROVE LandInv
  OBVIOUS
<1>1. IInv
  BY InitIInv
<1>2. \A t \in Threads : job[t].bits = {} /\ job[t].ones = {} /\ job[t].seen = {}
  BY IdleType DEF Init
<1>3. mem \subseteq AllBits(list)
  BY MemoryInside DEF Init
<1>4. Pending /\ Fresh
  BY <1>2 DEF Pending, Fresh
<1>5. Landed
  BY <1>3 DEF Init, Landed
<1>6. Alone
  BY <1>2 DEF Init, Alone, Has
<1> QED BY <1>1, <1>4, <1>5, <1>6 DEF LandInv

LEMMA NextLands == LandInv /\ Careful /\ [Next]_vars => LandInv'
<1> SUFFICES ASSUME LandInv, Careful, [Next]_vars PROVE LandInv'
  OBVIOUS
<1>1. CASE Open
  BY <1>1, OpenLands
<1>2. CASE Send
  BY <1>2, SendLands
<1>3. CASE SetLimit \/ SetEndLimit \/ SplitOff \/ DropWindow \/ NextBit \/ DropRef
  BY <1>3, HandlesLand
<1>4. CASE SetRef \/ Fill \/ CopyFrom \/ CopyTo
  BY <1>4, WriteBegins, BeginsLands, DroppedLands DEF LandInv
<1>5. CASE \E t \in Threads : Load(t) \/ Store(t)
  BY <1>5, LoadLands, StoreLands
<1>6. CASE UNCHANGED vars
  <2>1. Dropped
    BY <1>6 DEF Dropped, vars
  <2> QED BY <2>1, DroppedLands
<1> QED BY <1>1, <1>2, <1>3, <1>4, <1>5, <1>6 DEF Next

(* A window goes only to a thread that has no other bit of its words.      *)
LEMMA CarefulLands == ASSUME Careful PROVE Spec => []LandInv
<1>1. LandInv /\ [Next]_vars => LandInv'
  BY NextLands
<1> QED BY <1>1, InitLands, PTL DEF Spec

(* When a window is given only to a thread that has no bit of its words,   *)
(* every bit that is not being written is what the calls made it, header   *)
(* and unused end of the last word included, however the two steps of the  *)
(* writes of different threads interleave.                                 *)
THEOREM WritesAreNotLost == ASSUME Careful PROVE Spec => []WritesLand
<1>1. LandInv => WritesLand
  <2> SUFFICES ASSUME LandInv PROVE WritesLand
    OBVIOUS
  <2> DEFINE busy == UNION {job[t].bits : t \in Threads}
  <2>1. mem \subseteq Nat /\ mem \subseteq AllBits(list) /\ want \subseteq AllBits(list)
    BY DEF LandInv, IInv, Types, Landed
  <2>2. AllBits(list) \subseteq Nat
    BY MemoryWords DEF LandInv, IInv, Types
  <2>3. \A i : i \notin busy => \A t \in Threads : i \notin job[t].bits
    OBVIOUS
  <2> HIDE DEF busy
  <2>4. (mem \cap AllBits(list)) \ busy = want \ busy
    BY <2>1, <2>2, <2>3 DEF LandInv, Landed
  <2> QED BY <2>4 DEF WritesLand, busy
<1> QED BY <1>1, CarefulLands, PTL

(* Under the same condition what iter.rs:1279 says is true: no two threads *)
(* are between the two steps of a write of the same word.                  *)
THEOREM WordsHaveOneThread == ASSUME Careful PROVE Spec => []OneThreadPerWord
<1>1. LandInv => OneThreadPerWord
  <2> SUFFICES ASSUME LandInv, NEW t \in Threads, NEW u \in Threads, t # u,
                      job[t].seen # {}, job[u].seen # {}
               PROVE  WordsOf(Unit(t)) \cap WordsOf(Unit(u)) = {}
    BY DEF OneThreadPerWord
  <2>1. Types /\ job[t].bits # {} /\ job[u].bits # {}
    BY BusySees DEF LandInv, IInv, Seeing
  <2>2. PICK m \in job[t].bits : \A i \in Unit(t) : word_index(i) = word_index(m)
    BY <2>1, UnitInWord
  <2>3. PICK n \in job[u].bits : \A i \in Unit(u) : word_index(i) = word_index(n)
    BY <2>1, UnitInWord
  <2>4. m \in Nat /\ n \in Nat /\ Has(t, m) /\ Has(u, n)
    BY <2>1 DEF Types, Has
  <2>5. word_index(m) # word_index(n)
    BY <2>4 DEF LandInv, Alone
  <2> QED BY <2>2, <2>3, <2>5 DEF WordsOf
<1> QED BY <1>1, CarefulLands, PTL
=============================================================================
