------------------------------ MODULE BitList ------------------------------
(***************************************************************************)
(* One BitList and the calls its owner makes on it (ops.rs, heap.rs,       *)
(* inline.rs, wrapper.rs).  A list is held in one of two forms:            *)
(*                                                                         *)
(*   inline   the length and up to DATA_BITS data bits share one word;     *)
(*   heap     a block of cap words, of which the first words_for(len) are  *)
(*            initialised.  The others hold garbage, so they are not part  *)
(*            of the state: a word that a longer length uncovers has       *)
(*            arbitrary contents until it is written.                      *)
(*                                                                         *)
(* Every function of the code is an operator here: the set of the outcomes *)
(* a call may have, a choice among them being one of the allocator or of   *)
(* memory that was never written.  An action is one call of the owner.  A  *)
(* panic can be caught, and the owner may go on using the list; an abort   *)
(* ends the process.                                                       *)
(***************************************************************************)
EXTENDS BitWords, BitStrings

CONSTANTS
  MaxLen,       \* bound on the length of the list
  MaxWords,     \* the largest block the allocator grants, header not counted
  DebugBuild,   \* cfg!(debug_assertions)
  Careful,      \* the owner makes none of the calls that Hits names
  Operands,     \* the bit strings passed to calls
  Positions,    \* the indexes and lengths passed to calls
  Reserves,     \* the amounts passed to reserve and try_reserve
  Repeats,      \* the counts passed to repeat
  Residues      \* what memory never written may hold

ASSUME BoundAssumption ==
  /\ MaxLen \in Nat
  /\ MaxWords \in Nat
  /\ DebugBuild \in BOOLEAN
  /\ Careful \in BOOLEAN
  /\ \A b \in Operands : IsBitString(b)
  /\ Positions \subseteq Nat
  /\ Reserves \subseteq Nat
  /\ Repeats \subseteq Nat
  /\ Residues \subseteq SUBSET Nat

(* The bits of a block are counted in a word (HeapBitList::capacity,       *)
(* heap.rs:248, multiplies without a check), and so is the inline data.    *)
ASSUME CapacityAssumption ==
  /\ DATA_BITS <= UsizeMax
  /\ MaxWords * WordSize <= UsizeMax

VARIABLES
  rep,   \* the representation of the list
  out,   \* the last call: its name, what it returned, how it ended
  args   \* and what it was called with

vars == <<rep, out, args>>

-----------------------------------------------------------------------------
(* Representations. *)

(* InlineBitList::new: data is shifted into place, and what does not fit   *)
(* the data field is shifted out.                                          *)
Inline(n, data) ==
  [kind |-> "inline", len |-> n, cap |-> 0, ones |-> data \cap (0 .. (DATA_BITS - 1))]

new_masked(data, n) == Inline(n, data \cap (0 .. (n - 1)))

(* A heap list: of its memory, only the words its length covers count. *)
Heap(n, cap, memory) ==
  [kind |-> "heap", len |-> n, cap |-> cap, ones |-> memory \cap Words(0, words_for(n))]

NO_BITS == Inline(0, {})

capacity(r) == IF r.kind = "inline" THEN DATA_BITS ELSE r.cap * WordSize

(* The string a list stands for, as get and iter read it. *)
Value(r) == Str(r.len, r.ones \cap (0 .. (r.len - 1)))

(* last_word_mask(n) at its place in memory, for n > 0. *)
LastBits(n) == Up(last_word_mask(n), (words_for(n) - 1) * WordSize)

(* *last_mut() &= last_word_mask(n), for a memory of length n > 0. *)
MaskLast(memory, n) == memory \ (Word(words_for(n) - 1) \ LastBits(n))

(* What the words uncovered by growing from length m to n may hold. *)
Garbage(m, n) == {g \cap Words(words_for(m), words_for(n)) : g \in Residues}

-----------------------------------------------------------------------------
(* Outcomes. *)

Returns(r, x) == [rep |-> r, ret |-> x, end |-> "return"]
Panics(r) == [rep |-> r, ret |-> "none", end |-> "panic"]
Aborts(r) == [rep |-> r, ret |-> "none", end |-> "abort"]

(* Of the outcomes S of a call inside another, those that end both, and    *)
(* the representations with which the outer one goes on.                   *)
Stopped(S) == {o \in S : o.end # "return"}
Onward(S) == {o.rep : o \in S \ Stopped(S)}

(* S, except that the outer call returns x whatever the inner one did. *)
Returning(S, x) == Stopped(S) \cup {Returns(q, x) : q \in Onward(S)}

-----------------------------------------------------------------------------
(* Constructors.  The owner assigns the result to the list, and the value  *)
(* it replaces is dropped.  A block that cannot be had ends the process.   *)

(* A block just large enough for n bits, with n bits of the given memory.  *)
with_capacity(r, n, memory) ==
  {Aborts(r)} \cup
  {Returns(Heap(n, c, memory), "done") : c \in {words_for(n)} \cap (0 .. MaxWords)}

zeros(r, n) ==
  IF n <= DATA_BITS THEN {Returns(new_masked({}, n), "done")}
                    ELSE with_capacity(r, n, {})

(* Mutant: the last word of a heap list is left full. *)
ones_unmasked(r, n) ==
  IF n <= DATA_BITS THEN {Returns(new_masked(Bit, n), "done")}
                    ELSE with_capacity(r, n, Words(0, words_for(n)))

ones(r, n) ==
  IF n <= DATA_BITS THEN {Returns(new_masked(Bit, n), "done")}
                    ELSE with_capacity(r, n, MaskLast(Words(0, words_for(n)), n))

from_bits(r, b) ==
  IF b.len <= DATA_BITS THEN {Returns(Inline(b.len, b.ones), "done")}
                        ELSE with_capacity(r, b.len, MaskLast(b.ones, b.len))

words(r, b) ==
  IF b.len = 0 THEN {Returns(NO_BITS, "done")}
               ELSE with_capacity(r, b.len, b.ones)

-----------------------------------------------------------------------------
(* Capacity. *)

(* Mutant: the two words of the header are taken for data. *)
try_ensure_capacity_header(r, n) ==
  IF n <= (r.cap + 2) * WordSize THEN {Returns(r, "done")}
  ELSE {Returns(r, "err")} \cup
       {Returns([r EXCEPT !.cap = c], "done") : c \in words_for(n) .. MaxWords}

(* Mutant: the last bit of the block is never used. *)
try_ensure_capacity_strict(r, n) ==
  IF n < r.cap * WordSize THEN {Returns(r, "done")}
  ELSE {Returns(r, "err")} \cup
       {Returns([r EXCEPT !.cap = c], "done") : c \in words_for(n) .. MaxWords}

(* A debug build views the block as a vector of 2 + words_for(len) words   *)
(* and, to check the last one, indexes word 2 even when there is none:     *)
(* when the vector refuses to grow its drop panics; when it has grown, set *)
(* panics and the drop panics again while unwinding.                       *)
try_ensure_capacity(r, n) ==
  IF n <= r.cap * WordSize THEN {Returns(r, "done")}
  ELSE IF DebugBuild /\ r.len = 0 THEN
         {Panics(r)} \cup {Aborts(r) : c \in words_for(n) .. MaxWords}
  ELSE {Returns(r, "err")} \cup
       {Returns([r EXCEPT !.cap = c], "done") : c \in words_for(n) .. MaxWords}

try_reserve(r, additional) ==
  LET n == r.len + additional IN
  IF n > UsizeMax THEN {Returns(r, "err")}
  ELSE IF r.kind = "heap" THEN try_ensure_capacity(r, n)
  ELSE IF n <= DATA_BITS THEN {Returns(r, "done")}
  ELSE {Returns(r, "err")} \cup
       {Returns(Heap(r.len, c, r.ones), "done") : c \in {words_for(n)} \cap (0 .. MaxWords)}

(* A refusal becomes a panic. *)
Unwrapped(S) ==
  {IF o.end = "return" /\ o.ret = "err" THEN Panics(o.rep) ELSE o : o \in S}

reserve(r, additional) == Unwrapped(try_reserve(r, additional))

(* Mutant: clear gives the block back. *)
clear_truncating(r) == {Returns(NO_BITS, "done")}

clear(r) ==
  {Returns(IF r.kind = "inline" THEN NO_BITS ELSE Heap(0, r.cap, r.ones), "done")}

-----------------------------------------------------------------------------
(* Length. *)

(* The last word of the shorter list is overwritten with the mask. *)
ShrinkHeap(r, n) ==
  Heap(n, r.cap, (r.ones \ Word(words_for(n) - 1)) \cup LastBits(n))

(* Mutant: what is filled beyond the new length stays. *)
GrowHeapUnmasked(r, n, fill) ==
  Heap(n, r.cap, IF fill THEN r.ones \cup Words(words_for(r.len), words_for(n)) ELSE r.ones)

GrowHeap(r, n, fill) ==
  LET rest == IF r.len = 0 THEN {} ELSE Word(words_for(r.len) - 1) \ LastBits(r.len)
      new == Words(words_for(r.len), words_for(n))
  IN  Heap(n, r.cap, MaskLast(IF fill THEN r.ones \cup rest \cup new ELSE r.ones, n))

ResizeInline(r, n, fill) ==
  LET data == IF fill THEN r.ones \cup (Bit \ (0 .. (r.len - 1))) ELSE r.ones
      first == IF n < WordSize THEN data \cap last_word_mask(n) ELSE data
  IN  IF n <= DATA_BITS THEN {Returns(new_masked(data, n), "done")}
      ELSE {IF o.end = "return"
            THEN Returns([o.rep EXCEPT !.ones = (@ \ Word(0)) \cup first], "done") ELSE o :
              o \in (IF fill THEN ones(r, n) ELSE zeros(r, n))}

(* Mutant: the last bit is not looked at. *)
FillBitGiven(r, f) == f = "one"

(* The bit that growing appends: the one given, or the last one repeated.   *)
FillBit(r, f) ==
  \/ f = "one"
  \/ f = "keep" /\ r.len > 0 /\ (r.len - 1) \in r.ones

ResizeHeap(r, n, fill) ==
  LET room == Unwrapped(try_ensure_capacity(r, n))
  IN  IF r.len >= n THEN {Returns(ShrinkHeap(r, n), "done")}
      ELSE Stopped(room) \cup {Returns(GrowHeap(q, n, fill), "done") : q \in Onward(room)}

resize(r, n, f) ==
  IF n = 0 THEN clear(r)
  ELSE IF r.kind = "inline" THEN ResizeInline(r, n, FillBit(r, f))
  ELSE ResizeHeap(r, n, FillBit(r, f))

truncate(r, n) == IF n >= r.len THEN {Returns(r, "done")} ELSE resize(r, n, "zero")

shrink_to_fit(r) ==
  IF r.kind = "inline" THEN {Returns(r, "done")}
  ELSE IF r.len <= DATA_BITS THEN {Returns(Inline(r.len, r.ones), "done")}
  ELSE {Aborts(r)} \cup
       {Returns([r EXCEPT !.cap = c], "done") : c \in words_for(r.len) .. r.cap}

-----------------------------------------------------------------------------
(* Appending and removing at the end. *)

(* Mutant: a new last word keeps what the memory held. *)
AppendedDirty(r, b) ==
  LET n == r.len + b.len
  IN  IF r.kind = "inline" THEN {Inline(n, r.ones \cup Up(b.ones, r.len))}
      ELSE {Heap(n, r.cap, copy_bits(r.ones \cup g, r.len, b)) : g \in Garbage(r.len, n)}

(* After reserve: the last word is zeroed when it is a new one, and the    *)
(* bits are copied in.                                                     *)
Appended(r, b) ==
  LET n == r.len + b.len
      cleared(g) == IF words_for(r.len) # words_for(n)
                    THEN (r.ones \cup g) \ Word(words_for(n) - 1) ELSE r.ones
  IN  IF r.kind = "inline" THEN {Inline(n, r.ones \cup Up(b.ones, r.len))}
      ELSE {Heap(n, r.cap, copy_bits(cleared(g), r.len, b)) : g \in Garbage(r.len, n)}

push_bits(r, b) ==
  LET room == reserve(r, b.len)
  IN  Stopped(room) \cup
      {Returns(q, "done") : q \in UNION {Appended(p, b) : p \in Onward(room)}}

(* The inline branch does not look at the value of the bit. *)
AppendedMany(r, v, count) ==
  LET n == r.len + count
      cleared(g) == IF words_for(r.len) # words_for(n)
                    THEN (r.ones \cup g) \ Word(words_for(n) - 1) ELSE r.ones
  IN  IF r.kind = "inline" THEN {new_masked(r.ones \cup (Bit \ (0 .. (r.len - 1))), n)}
      ELSE {Heap(n, r.cap, fill_bits(cleared(g), r.len, count, v)) : g \in Garbage(r.len, n)}

push_many_bits(r, v, count) ==
  LET room == reserve(r, count)
  IN  Stopped(room) \cup
      {Returns(q, "done") : q \in UNION {AppendedMany(p, v, count) : p \in Onward(room)}}

(* Mutant: the empty list is popped too. *)
pop_bit_unchecked(r) ==
  Returning(truncate(r, r.len - 1), BitAt(Value(r), r.len - 1))

pop_bit(r) ==
  IF r.len = 0 THEN {Returns(r, "none")}
  ELSE Returning(truncate(r, r.len - 1), BitAt(Value(r), r.len - 1))

-----------------------------------------------------------------------------
(* Copies. *)

(* A long heap list is cloned as a vector whose length is the whole block  *)
(* (memory_const_vec passes capacity and length the wrong way round, which *)
(* is undefined when they differ: a debug build may catch it).             *)
clone(r) ==
  IF r.kind = "inline" THEN {Returns(r, "done")}
  ELSE IF r.len <= DATA_BITS THEN {Returns(Inline(r.len, r.ones), "done")}
  ELSE {Aborts(r), Returns(r, "done")}   \* the copy's block is as large as the original's

(* Mutant: the list itself is not counted among the copies. *)
repeat_more(r, count) ==
  IF count = 0 THEN clear(r) ELSE push_bits(r, Replicate(Value(r), count))

(* The pushes of the loop follow one another within what was reserved. *)
repeat(r, count) ==
  LET more == Replicate(Value(r), count - 1)
  IN  IF count = 0 THEN clear(r)
      ELSE Stopped(clone(r)) \cup
           (IF more.len > UsizeMax THEN {Panics(r)} ELSE push_bits(r, more))

reverse(r) ==
  IF r.kind = "inline"
  THEN IF r.len = 0 /\ DebugBuild THEN {Panics(r)}   \* shift by WordSize
       ELSE {Returns(new_masked(Mirror(Str(r.len, r.ones)).ones, r.len), "done")}
  ELSE from_bits(r, Mirror(Value(r)))

-----------------------------------------------------------------------------
(* Writing within the list. *)

Written(r, memory) == [r EXCEPT !.ones = memory]

set(r, i, v) ==
  IF i >= r.len THEN {Returns(r, "none")}
  ELSE {Returns(Written(r, IF v THEN r.ones \cup {i} ELSE r.ones \ {i}), BitAt(Value(r), i))}

set_range(r, i, b) ==
  IF i > r.len \/ b.len > r.len - i THEN {Returns(r, "none")}
  ELSE {Returns(Written(r, copy_bits(r.ones, i, b)), "done")}

(* with_limit leaves a too short range as it is, and copy_from then panics *)
(* because the lengths differ.                                             *)
set_bits_at(r, i, b) ==
  IF is_invalid_range(i, r.len, r.len) \/ b.len > r.len - i THEN {Panics(r)}
  ELSE {Returns(Written(r, copy_bits(r.ones, i, b)), "done")}

set_range_fill(r, start, stop, v) ==
  IF is_invalid_range(start, stop, r.len) THEN {Panics(r)}
  ELSE {Returns(Written(r, fill_bits(r.ones, start, stop - start, v)), "done")}

(* The length after an insert, added up without regard to the word. *)
InsertedLen(r, start, stop, b) == start + b.len + Drop(Value(r), stop).len

InsertOverflows(r, start, stop, b) == InsertedLen(r, start, stop, b) > UsizeMax

(* assert!(self.len() == n) at the end of a call. *)
Asserted(S, n) ==
  {IF o.end = "return" /\ o.rep.len # n THEN Panics(o.rep) ELSE o : o \in S}

(* Mutant: memory is not asked for before the list is cut. *)
insert_cut_first(r, start, stop, b) ==
  LET tail == Drop(Value(r), stop)
      total == InsertedLen(r, start, stop, b) % (UsizeMax + 1)
      cut == truncate(r, start)
      pushed == Stopped(cut) \cup UNION {push_bits(q, b) : q \in Onward(cut)}
      done == Stopped(pushed) \cup UNION {push_bits(q, tail) : q \in Onward(pushed)}
  IN  IF is_invalid_range(stop, r.len, r.len) THEN {Panics(r)}
      ELSE IF DebugBuild /\ InsertOverflows(r, start, stop, b) THEN {Panics(r)}
      ELSE Asserted(done, total)

(* The tail is copied to a list of its own; then resize, which gets all    *)
(* the memory that is needed, truncate, and two pushes.  The new length is *)
(* added up in a word: when it does not fit, a debug build panics, and a   *)
(* release build goes on with what the word holds of it.                   *)
insert(r, start, stop, b) ==
  LET tail == Drop(Value(r), stop)
      copied == IF tail.len <= DATA_BITS THEN {} ELSE {Aborts(r)}
      total == InsertedLen(r, start, stop, b) % (UsizeMax + 1)
      resized == resize(r, total, "zero")
      cut == Stopped(resized) \cup UNION {truncate(q, start) : q \in Onward(resized)}
      pushed == Stopped(cut) \cup UNION {push_bits(q, b) : q \in Onward(cut)}
      done == Stopped(pushed) \cup UNION {push_bits(q, tail) : q \in Onward(pushed)}
  IN  IF is_invalid_range(stop, r.len, r.len) THEN {Panics(r)}
      ELSE copied \cup
           (IF DebugBuild /\ InsertOverflows(r, start, stop, b) THEN {Panics(r)}
            ELSE Asserted(done, total))

-----------------------------------------------------------------------------
(* Calls on which the code does not do what BitListSpec says.  A careful   *)
(* owner avoids them; they are described in the README.                    *)

(* ops.rs:383: the last word kept is overwritten.                          *)
HitsShorterHeap(r, n) == r.kind = "heap" /\ 0 < n /\ n <= r.len

(* heap.rs:144: the check of the last word of an empty heap list.          *)
HitsEmptyGrowth(r, n) ==
  DebugBuild /\ r.kind = "heap" /\ r.len = 0 /\ n > capacity(r)

(* ops.rs:498: zeros are appended as ones.                                 *)
HitsInlineZeros(r, v, count) ==
  r.kind = "inline" /\ ~v /\ count > 0 /\ r.len + count <= DATA_BITS

(* heap.rs:101: a debug build may catch the swapped arguments.             *)
HitsSwappedArguments(r) ==
  DebugBuild /\ r.kind = "heap" /\ r.len > DATA_BITS /\ r.cap > words_for(r.len)

(* ops.rs:829: the shift by a whole word.                                  *)
HitsEmptyReverse(r) == DebugBuild /\ r = NO_BITS

(* insert truncates a list that resize has just made a heap list, or its   *)
(* new length does not fit a word (ops.rs:307).                            *)
HitsInsert(r, start, total) ==
  \/ start > 0 /\ ~(r.kind = "inline" /\ total <= DATA_BITS)
  \/ total > UsizeMax
  \/ HitsEmptyGrowth(r, total)

-----------------------------------------------------------------------------
(* The owner's calls. *)

Init ==
  /\ rep = NO_BITS
  /\ out = [op |-> "new", ret |-> "done", end |-> "return"]
  /\ args = <<>>

Call(op, a, S) ==
  /\ out.end # "abort"
  /\ \E o \in S :
       /\ o.rep.len <= MaxLen
       /\ rep' = o.rep
       /\ out' = [op |-> op, ret |-> o.ret, end |-> o.end]
       /\ args' = a

Zeros == \E n \in Positions : Call("zeros", <<n>>, zeros(rep, n))

Ones == \E n \in Positions : Call("ones", <<n>>, ones(rep, n))

FromBits == \E b \in Operands : Call("from_bits", <<b>>, from_bits(rep, b))

FromWords ==
  \E b \in Operands : bit_in_word_index(b.len) = 0 /\ Call("words", <<b>>, words(rep, b))

TryReserve ==
  \E n \in Reserves :
    /\ Careful => ~HitsEmptyGrowth(rep, rep.len + n)
    /\ Call("try_reserve", <<n>>, try_reserve(rep, n))

Reserve ==
  \E n \in Reserves :
    /\ Careful => ~HitsEmptyGrowth(rep, rep.len + n)
    /\ Call("reserve", <<n>>, reserve(rep, n))

Clear == Call("clear", <<>>, clear(rep))

Resize ==
  \E n \in Positions, f \in {"keep", "zero", "one"} :
    /\ Careful => ~HitsShorterHeap(rep, n) /\ ~HitsEmptyGrowth(rep, n)
    /\ Call("resize", <<n, f>>, resize(rep, n, f))

Truncate ==
  \E n \in Positions :
    /\ Careful => n >= rep.len \/ ~HitsShorterHeap(rep, n)
    /\ Call("truncate", <<n>>, truncate(rep, n))

ShrinkToFit == Call("shrink_to_fit", <<>>, shrink_to_fit(rep))

PushBits ==
  \E b \in Operands :
    /\ Careful => ~HitsEmptyGrowth(rep, rep.len + b.len)
    /\ Call("push_bits", <<b>>, push_bits(rep, b))

PushManyBits ==
  \E v \in BOOLEAN, n \in Positions :
    /\ Careful => ~HitsInlineZeros(rep, v, n) /\ ~HitsEmptyGrowth(rep, rep.len + n)
    /\ Call("push_many_bits", <<v, n>>, push_many_bits(rep, v, n))

PopBit ==
  /\ Careful => ~HitsShorterHeap(rep, rep.len - 1)
  /\ Call("pop_bit", <<>>, pop_bit(rep))

Repeat ==
  \E k \in Repeats :
    /\ Careful => k = 0 \/ ~HitsSwappedArguments(rep)
    /\ Call("repeat", <<k>>, repeat(rep, k))

Insert ==
  \E start, stop \in Positions, b \in Operands :
    /\ Careful => stop > rep.len \/ ~HitsInsert(rep, start, start + b.len + rep.len - stop)
    /\ Call("insert", <<start, stop, b>>, insert(rep, start, stop, b))

Set == \E i \in Positions, v \in BOOLEAN : Call("set", <<i, v>>, set(rep, i, v))

SetRange ==
  \E i \in Positions, b \in Operands :
    Call("set_range", <<i, b>>, set_range(rep, i, b))

SetBitsAt ==
  \E i \in Positions, b \in Operands :
    Call("set_bits_at", <<i, b>>, set_bits_at(rep, i, b))

SetRangeFill ==
  \E start, stop \in Positions, v \in BOOLEAN :
    Call("set_range_fill", <<start, stop, v>>, set_range_fill(rep, start, stop, v))

Reverse ==
  /\ Careful => ~HitsEmptyReverse(rep)
  /\ Call("reverse", <<>>, reverse(rep))

Clone ==
  /\ Careful => ~HitsSwappedArguments(rep)
  /\ Call("clone", <<>>, clone(rep))

Next ==
  \/ Zeros \/ Ones \/ FromBits \/ FromWords
  \/ TryReserve \/ Reserve \/ Clear \/ Resize \/ Truncate \/ ShrinkToFit
  \/ PushBits \/ PushManyBits \/ PopBit \/ Repeat \/ Insert
  \/ Set \/ SetRange \/ SetBitsAt \/ SetRangeFill \/ Reverse \/ Clone

Spec == Init /\ [][Next]_vars

-----------------------------------------------------------------------------
(* Properties. *)

Operations ==
  {"new", "zeros", "ones", "from_bits", "words", "try_reserve", "reserve", "clear", "resize",
   "truncate", "shrink_to_fit", "push_bits", "push_many_bits", "pop_bit", "repeat", "insert",
   "set", "set_range", "set_bits_at", "set_range_fill", "reverse", "clone"}

Reps == [kind : {"inline", "heap"}, len : 0 .. MaxLen, cap : 0 .. MaxWords, ones : SUBSET Nat]

(* The variables have their types. *)
TypeOK ==
  /\ rep \in Reps
  /\ out \in [op : Operations, ret : {"none", "zero", "one", "done", "err"},
              end : {"return", "panic", "abort"}]

(* Every initialised bit beyond the length is zero, in the last heap word  *)
(* and in the inline data alike: what eq, hash, count_ones and the debug   *)
(* check in assert_update_memory_vec (heap.rs:145) rely on.                *)
TrailingBitsZero == rep.ones \subseteq 0 .. (rep.len - 1)

(* A list never claims more bits than its form can hold (the debug         *)
(* assertions of set_len, heap.rs:226, and of InlineBitList::new,          *)
(* inline.rs:54): no read or write of the data leaves the block.           *)
FitsCapacity == rep.len <= capacity(rep)

(* A call that panics leaves the list as it was, also insert, which goes   *)
(* through four calls that could each panic (ops.rs:304).  One call does   *)
(* not, and no other: in a release build, an insert whose new length does  *)
(* not fit a word (ops.rs:307) changes the list and panics afterwards, in  *)
(* a push or at the assertion at its end (ops.rs:312).                     *)
PanicLeavesListIntact ==
  [][out'.end = "panic" =>
       \/ rep' = rep
       \/ /\ out'.op = "insert" /\ ~DebugBuild
          /\ InsertOverflows(rep, args'[1], args'[2], args'[3])]_vars

Keeping ==
  {"try_reserve", "reserve", "clear", "resize", "truncate", "push_bits", "push_many_bits",
   "pop_bit", "repeat", "insert", "set", "set_range", "set_bits_at", "set_range_fill"}

(* Only shrink_to_fit, reverse, clone and a newly built list may have less *)
(* capacity than the list had: clear and the calls that shorten a list     *)
(* keep it ("without truncating capacity", ops.rs:338).                    *)
CapacityKept == [][out'.op \in Keeping => capacity(rep') >= capacity(rep)]_vars

(* When reserve succeeds there is room for what was asked, and the bits    *)
(* are the same, also when the list moved to the heap (ops.rs:326).  Within*)
(* its capacity a list then grows without a panic and without moving, the  *)
(* guarantee reserve is for: no growing call asks for more than it needs.  *)
RoomIsUsed ==
  LET Stays(S) == \A o \in S : o.end = "return" /\ o.rep.kind = rep.kind /\ o.rep.cap = rep.cap
  IN  /\ \A n \in Reserves : \A o \in try_reserve(rep, n) :
           /\ o.ret = "done" => capacity(o.rep) >= rep.len + n
           /\ o.end = "return" => Value(o.rep) = Value(rep)
      /\ \A b \in Operands : rep.len + b.len <= capacity(rep) => Stays(push_bits(rep, b))
      /\ \A n \in rep.len .. capacity(rep), v \in BOOLEAN :
           /\ Stays(resize(rep, n, IF v THEN "one" ELSE "zero"))
           /\ Stays(push_many_bits(rep, v, n - rep.len))

(* What a growing call leaves in memory, the trailing bits of the last     *)
(* word included, comes from the list and the arguments, never from what   *)
(* the memory held before (ops.rs:506, 529).                               *)
NoGarbage ==
  /\ \A b \in Operands : \A o, p \in push_bits(rep, b) :
       o.end = "return" /\ p.end = "return" => o.rep.ones = p.rep.ones
  /\ \A n \in 0 .. MaxLen, v \in BOOLEAN : \A o, p \in push_many_bits(rep, v, n) :
       o.end = "return" /\ p.end = "return" => o.rep.ones = p.rep.ones

-----------------------------------------------------------------------------
(* The list implements the string it promises to be. *)

Abstract == INSTANCE BitListSpec WITH bits <- Value(rep)

(* Every call of a careful owner has the effect on the string that         *)
(* BitListSpec gives it, or fails and leaves the string alone.             *)
Promise == Abstract!Spec

-----------------------------------------------------------------------------
(* Statements of the source that the code contradicts. *)

(* A list made shorter keeps the bits it has left: the mask is there "to   *)
(* clear any remaining bits" (ops.rs:377-379).                             *)
ShorterKeepsPrefix ==
  \A n \in 1 .. rep.len : \A o \in truncate(rep, n) : Value(o.rep) = Take(Value(rep), n)
=============================================================================
