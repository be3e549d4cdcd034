---------------------------- MODULE BitsIterMut ----------------------------
(***************************************************************************)
(* Writing through windows: BitsIterMut and BitRefMut (iter.rs:1264-1421). *)
(* A window can be cut, split in two, and taken apart into references to   *)
(* its bits, and all of these live at the same time.  A write reads a word *)
(* (fill: a byte), changes its bits of it and writes it back: two steps,   *)
(* between which another thread may move, since BitsIterMut holds a        *)
(* BitsIter, which is Send (iter.rs:128), and so is Send itself.  The      *)
(* memory is that of an inline list, whose first bits are its flag and its *)
(* length, or of a heap list.                                              *)
(***************************************************************************)
EXTENDS BitWords, BitStrings, FiniteSets

LOCAL INSTANCE FiniteSetsExt

CONSTANTS
  ByteSize,    \* bits in a byte, 8 in the code
  Threads,     \* the threads of the program
  Lists,       \* the lists iterated over
  Bounds,      \* the bounds of the windows opened
  Counts,      \* the limits and the places to split at
  Values,      \* the bit strings copied in
  MaxWindows,  \* bound on the windows that live at one time
  MaxRefs,     \* bound on the references that live at one time
  Careful      \* a window given to another thread shares no word with others

ASSUME IterMutAssumption ==
  /\ ByteSize \in Nat \ {0} /\ WordSize % ByteSize = 0
  /\ \A l \in Lists :
       /\ l.kind \in {"inline", "heap"} /\ IsBitString(l.bits)
       /\ l.kind = "inline" => l.bits.len <= DATA_BITS
  /\ \A b \in Bounds : b.at \in 0 .. UsizeMax
  /\ Counts \subseteq Nat
  /\ \A b \in Values : IsBitString(b)
  /\ MaxWindows \in Nat /\ MaxRefs \in Nat
  /\ Careful \in BOOLEAN

VARIABLES
  list,     \* the list: its form, and the bits it had at first
  mem,      \* its memory
  want,     \* what the calls made so far were to make of it
  windows,  \* the windows alive and the threads that hold them
  refs,     \* the references alive and the threads that hold them
  job       \* per thread, the bits it is writing and what it has read

vars == <<list, mem, want, windows, refs, job>>

-----------------------------------------------------------------------------
(* Memory. *)

COUNT_SHIFT == 1

(* Where bit 0 of a list lies in its memory. *)
first_data_bit(l) == IF l.kind = "inline" THEN CountBits + COUNT_SHIFT ELSE 0

(* The inline flag and the length, which share the word with the bits.     *)
count_and_flag(l) ==
  IF l.kind = "inline" THEN {0} \cup {COUNT_SHIFT + i : i \in {k \in 0 .. (CountBits - 1) :
                                                       (l.bits.len \div 2^k) % 2 = 1}}
  ELSE {}

Memory(l) == count_and_flag(l) \cup Up(l.bits.ones, first_data_bit(l))

OwnBits(l) == first_data_bit(l) .. (first_data_bit(l) + l.bits.len - 1)

AllBits(l) == Words(0, words_for(first_data_bit(l) + l.bits.len))

-----------------------------------------------------------------------------
(* Handles and the bits they stand for. *)

Window(s, e, t) == [start |-> s, stop |-> e, thread |-> t]

Ref(i, t) == [bit |-> i, thread |-> t]

Covers(x) == x.start .. (x.stop - 1)

len(x) == x.stop - x.start

WordsOf(bits) == {word_index(i) : i \in bits}

Idle == [bits |-> {}, ones |-> {}, unit |-> WordSize, seen |-> {}]

Free(t) == job[t] = Idle

(* The bits that threads other than t hold or are writing.                 *)
HeldByOthers(t) ==
  (UNION {Covers(x) : x \in {y \in windows : y.thread # t}}) \cup
  {y.bit : y \in {z \in refs : z.thread # t}} \cup
  (UNION {job[u].bits : u \in Threads \ {t}})

(* Thread t begins to write the given bits, of which those in ones become  *)
(* 1, a unit of memory at a time.                                          *)
Begins(t, bits, ones, unit) ==
  /\ job' = [job EXCEPT ![t] = IF bits = {} THEN Idle
                               ELSE [bits |-> bits, ones |-> ones, unit |-> unit, seen |-> {}]]
  /\ want' = (want \ bits) \cup ones

-----------------------------------------------------------------------------
(* Windows. *)

(* Mutant: the window of an inline list begins at its flag. *)
from_bounds_unshifted(low, high, n, at) == [start |-> bounds_start(low), stop |-> bounds_stop(high, n)]

(* from_inline_bounds and from_heap_bounds: the range, moved to bit at.    *)
from_bounds(low, high, n, at) ==
  [start |-> at + bounds_start(low), stop |-> at + bounds_stop(high, n)]

(* The list is borrowed as a whole; an invalid range panics. *)
Open ==
  /\ windows = {} /\ refs = {} /\ \A t \in Threads : Free(t)
  /\ \E t \in Threads, low, high \in Bounds :
       LET n == list.bits.len
           w == from_bounds(low, high, n, first_data_bit(list))
       IN  /\ ~is_invalid_range(bounds_start(low), bounds_stop(high, n), n)
           /\ windows' = {Window(w.start, w.stop, t)}
  /\ UNCHANGED <<list, mem, want, refs, job>>

Becomes(x, ys) == windows' = (windows \ {x}) \cup ys

(* Mutant: the window still has the bit it gave away. *)
TakeBitKeeping(x) == [bit |-> x.start, rest |-> x]

TakeBit(x) == [bit |-> x.start, rest |-> [x EXCEPT !.start = @ + 1]]

(* const_next *)
NextBit ==
  \E x \in windows :
    /\ Free(x.thread) /\ x.start # x.stop /\ Cardinality(refs) < MaxRefs
    /\ Becomes(x, {TakeBit(x).rest})
    /\ refs' = refs \cup {Ref(TakeBit(x).bit, x.thread)}
    /\ UNCHANGED <<list, mem, want, job>>

SetLimit ==
  \E x \in windows, n \in Counts :
    /\ Free(x.thread) /\ n <= len(x)
    /\ Becomes(x, {[x EXCEPT !.stop = x.start + n]})
    /\ UNCHANGED <<list, mem, want, refs, job>>

SetEndLimit ==
  \E x \in windows, n \in Counts :
    /\ Free(x.thread) /\ n <= len(x)
    /\ Becomes(x, {[x EXCEPT !.start = x.stop - n]})
    /\ UNCHANGED <<list, mem, want, refs, job>>

(* try_split_off; split_off panics where this gives nothing.               *)
SplitOff ==
  \E x \in windows, n \in Counts :
    /\ Free(x.thread) /\ n <= len(x) /\ Cardinality(windows) < MaxWindows
    /\ Becomes(x, {[x EXCEPT !.stop = x.start + n], [x EXCEPT !.start = x.start + n]})
    /\ UNCHANGED <<list, mem, want, refs, job>>

(* A window is given to another thread. *)
Send ==
  \E x \in windows : \E t \in Threads \ {x.thread} :
    /\ Free(x.thread)
    /\ Careful => WordsOf(Covers(x)) \cap WordsOf(HeldByOthers(t) \ Covers(x)) = {}
    /\ Becomes(x, {[x EXCEPT !.thread = t]})
    /\ UNCHANGED <<list, mem, want, refs, job>>

DropWindow ==
  \E x \in windows :
    Free(x.thread) /\ Becomes(x, {}) /\ UNCHANGED <<list, mem, want, refs, job>>

DropRef ==
  \E y \in refs :
    Free(y.thread) /\ refs' = refs \ {y} /\ UNCHANGED <<list, mem, want, windows, job>>

-----------------------------------------------------------------------------
(* Writes. *)

(* BitRefMut::set, and update with a function that inverts the bit.        *)
SetRef ==
  \E y \in refs : \E v \in {TRUE, FALSE, y.bit \notin mem} :
    /\ Free(y.thread)
    /\ Begins(y.thread, {y.bit}, IF v THEN {y.bit} ELSE {}, WordSize)
    /\ UNCHANGED <<list, mem, windows, refs>>

Fill ==
  \E x \in windows, v \in BOOLEAN :
    /\ Free(x.thread)
    /\ Begins(x.thread, Covers(x), IF v THEN Covers(x) ELSE {}, ByteSize)
    /\ Becomes(x, {})
    /\ UNCHANGED <<list, mem, refs>>

(* copy_from bits that lie elsewhere; windows of another length panic.     *)
CopyFrom ==
  \E x \in windows, b \in Values :
    /\ Free(x.thread)
    /\ IF b.len = len(x)
       THEN Begins(x.thread, Covers(x), Up(b.ones, x.start), WordSize)
       ELSE UNCHANGED <<job, want>>
    /\ Becomes(x, {})
    /\ UNCHANGED <<list, mem, refs>>

(* copy_to from one window of the list to another.                         *)
CopyTo ==
  \E x \in windows : \E y \in windows \ {x} :
    /\ x.thread = y.thread /\ Free(x.thread)
    /\ IF len(x) = len(y)
       THEN Begins(y.thread, Covers(y), Up(Down(mem \cap Covers(x), x.start), y.start), WordSize)
       ELSE UNCHANGED <<job, want>>
    /\ windows' = windows \ {x, y}
    /\ UNCHANGED <<list, mem, refs>>

-----------------------------------------------------------------------------
(* The steps of a write: the unit of memory it comes to next.              *)

Unit(t) ==
  LET u == job[t].unit
      k == Min(job[t].bits) \div u
  IN  (k * u) .. ((k + 1) * u - 1)

Load(t) ==
  /\ job[t].bits # {} /\ job[t].seen = {}
  /\ job' = [job EXCEPT ![t].seen = {mem \cap Unit(t)}]
  /\ UNCHANGED <<list, mem, want, windows, refs>>

(* Mutant: the whole unit is written. *)
PutWhole(seen, bits, ones) == ones

(* set_bit_value, and the masks of fill and copy: what is written back.    *)
Put(seen, bits, ones) == (seen \ bits) \cup ones

Store(t) ==
  /\ job[t].seen # {}
  /\ \E seen \in job[t].seen :
       mem' = (mem \ Unit(t)) \cup Put(seen, job[t].bits, job[t].ones \cap Unit(t))
  /\ LET left == job[t].bits \ Unit(t)
     IN  job' = [job EXCEPT ![t] = IF left = {} THEN Idle
                                   ELSE [job[t] EXCEPT !.bits = left, !.seen = {}]]
  /\ UNCHANGED <<list, want, windows, refs>>

Init ==
  /\ list \in Lists
  /\ mem = Memory(list)
  /\ want = mem
  /\ windows = {} /\ refs = {}
  /\ job = [t \in Threads |-> Idle]

Next ==
  \/ Open \/ NextBit \/ SetLimit \/ SetEndLimit \/ SplitOff \/ Send \/ DropWindow \/ DropRef
  \/ SetRef \/ Fill \/ CopyFrom \/ CopyTo
  \/ \E t \in Threads : Load(t) \/ Store(t)

Spec == Init /\ [][Next]_vars

-----------------------------------------------------------------------------
(* Properties. *)

(* No two windows, references or writes have a bit in common, and none     *)
(* reaches beyond the bits of the list, to the flag and the length of an   *)
(* inline list or the unused end of the last word: the exclusive access    *)
(* that copy_from (iter.rs:1401) and BitRefMut::set (iter.rs:1280) rely on.*)
HandlesDisjoint ==
  LET Written == {job[t].bits : t \in {u \in Threads : \A y \in refs : {y.bit} # job[u].bits}}
  IN  /\ \A x, y \in windows : x # y => Covers(x) \cap Covers(y) = {}
      /\ \A y \in refs : \A x \in windows : y.bit \notin Covers(x)
      /\ \A y, z \in refs : y # z => y.bit # z.bit
      /\ \A b \in Written : /\ \A x \in windows : b \cap Covers(x) = {}
                            /\ \A y \in refs : y.bit \notin b
      /\ (UNION {Covers(x) : x \in windows}) \cup {y.bit : y \in refs} \cup (UNION Written)
           \subseteq OwnBits(list)

(* Every bit that is not being written, the header and the end of the last *)
(* word included, is what the calls made it, in whatever order windows and *)
(* references were used and whichever thread used them.                    *)
WritesLand ==
  LET busy == UNION {job[t].bits : t \in Threads}
  IN  (mem \cap AllBits(list)) \ busy = want \ busy

(* "BitRefMut is !Send !Sync so only one thread can access this word at    *)
(* given time" (iter.rs:1279-1280).                                        *)
OneThreadPerWord ==
  \A t, u \in Threads :
    t # u /\ job[t].seen # {} /\ job[u].seen # {} =>
      WordsOf(Unit(t)) \cap WordsOf(Unit(u)) = {}
=============================================================================
