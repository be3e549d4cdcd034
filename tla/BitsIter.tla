------------------------------ MODULE BitsIter ------------------------------
(***************************************************************************)
(* BitsIter (iter.rs:108-846): a window start .. stop - 1 on the bits of   *)
(* some memory that is read one word at a time.  A window may begin and    *)
(* end inside a word, so every call that works on words has to leave out   *)
(* the bits of the first and the last word that lie outside the window.    *)
(* Each call also says which words it read.                                *)
(***************************************************************************)
EXTENDS WordBitsOps

LOCAL INSTANCE FiniteSetsExt

CONSTANTS
  MemWords,   \* the words of the memory
  Memories,   \* the contents it may have
  Counts,     \* the numbers passed to calls
  Sizes,      \* the sizes of the slots looked for
  Aligns,     \* the alignments asked for
  Bounds,     \* the bounds of the windows opened
  Slices      \* the slices copied to: a number of words and their contents

(* The bits of the memory can be counted (iter.rs:230, 251), and so can    *)
(* those of a slice; an alignment does not carry a position in the memory  *)
(* beyond usize::MAX, where iter.rs:679 would wrap.                        *)
ASSUME IterAssumption ==
  /\ MemWords \in Nat
  /\ MemWords * WordSize <= UsizeMax
  /\ \A m \in Memories : m \subseteq 0 .. (MemWords * WordSize - 1)
  /\ Counts \subseteq Nat
  /\ Sizes \subseteq Nat
  /\ Aligns \subseteq Nat \ {0}   \* the code takes powers of two
  /\ \A a \in Aligns : MemWords * WordSize + a <= UsizeMax + 1
  /\ \A b \in Bounds : b.kind \in {"unbounded", "included", "excluded"} /\ b.at \in 0 .. UsizeMax
  /\ \A d \in Slices : IsBitString(d) /\ bit_in_word_index(d.len) = 0 /\ d.len <= UsizeMax

VARIABLES
  mem,     \* the memory, which the iterator only reads
  start,   \* the first bit of the window
  stop,    \* the first bit after it
  op,      \* the last call
  args,    \* what it was called with
  ret,     \* what it returned: {} is None, {x} is Some(x)
  reads    \* the words it read

vars == <<mem, start, stop, op, args, ret, reads>>

len == stop - start

Named(v) == IF v THEN "one" ELSE "zero"

-----------------------------------------------------------------------------
(* Reading the window s .. e - 1. *)

(* The bits up to the end of the word or of the window. *)
peek_word(s, e) ==
  IF s = e THEN WordBits({}, 0)
  ELSE WordBits(Down(WordAt(mem, word_index(s)), bit_in_word_index(s)),
                least(WordSize - bit_in_word_index(s), e - s))

WordsPeeked(s, e) == IF s = e THEN {} ELSE {word_index(s)}

bit(i) == Named(i \in mem)

(* with_limit: a limit beyond the end is ignored.                          *)
Limited(s, e, n) == IF n > e - s THEN e ELSE s + n

(* Mutant: after the first word one more is read before the end is         *)
(* looked at.                                                              *)
words_scanned_beyond(s, e) == {k \in word_index(s) .. word_index(e) : s < e}

(* next_bits: at most n bits, from at most two words. *)
next_bits(s, e, n) ==
  LET f == Limited(s, e, n)
      one == peek_word(s, f)
      two == peek_word(s + one.count, f)
  IN  truncated(IF one.count < n THEN push_bits(one, two) ELSE one, n)

(* The words the loop of bit_position may come to: while start < stop.     *)
words_scanned(s, e) == {k \in word_index(s) .. word_index(e) : s < e /\ k * WordSize < e}

(* Mutant: a bit found beyond the end counts. *)
FoundBeyond(s, e, k, b) ==
  LET at == k * WordSize + b IN [off |-> Some(at - s), start |-> least(at + 1, e)]

(* The loop has come to word k, whose bit b is the first that was looked   *)
(* for: one that lies beyond the end does not count.                       *)
FoundInWord(s, e, k, b) ==
  LET at == k * WordSize + b
  IN  [off |-> IF at + 1 > e THEN None ELSE Some(at - s), start |-> least(at + 1, e)]

FoundNothing(e) == [off |-> None, start |-> e]

Reading(words, p) == [off |-> p.off, start |-> p.start, reads |-> words]

(* The loop of bit_position, from the word boundary next on.               *)
scan(s, next, e, v) ==
  LET hits == {k \in words_scanned(next, e) : trailing(WordAt(mem, k), v) < WordSize}
      Until(k) == Reading({j \in words_scanned(next, e) : j <= k},
                          FoundInWord(s, e, k, trailing(WordAt(mem, k), v)))
  IN  IF hits = {} THEN Reading(words_scanned(next, e), FoundNothing(e)) ELSE Until(Min(hits))

(* bit_position on the window s .. e - 1: the offset found, the new start, *)
(* the words read.  The first word is shifted into place; the others are   *)
(* read whole, up to the first that has the bit.                           *)
position(s, e, v) ==
  LET After(p) == Reading(p.reads \cup WordsPeeked(s, e), p)
      Peeked(w, first) ==
        IF first # None
        THEN Reading(WordsPeeked(s, e), [off |-> first, start |-> s + Min(first) + 1])
        ELSE After(scan(s, s + w.count, e, v))
      First(w) == Peeked(w, first_bit_value(w, v))
  IN  First(peek_word(s, e))

(* The bits after a hit, looked at no further than size - 1 bits, and      *)
(* whether they are all like it.                                           *)
Behind(s, v, size) == position(s, Limited(s, stop, size - 1), ~v)

LongEnough(end, s, size) ==
  IF end.off # None THEN Min(end.off) >= size - 1 ELSE stop - s >= size - 1

(* One round of find_continuous_slot, at bit s, index bits after the start *)
(* of the window; search is what the rounds from further bits on find.     *)
slot_round(search, v, size, s, index) ==
  LET After(words, p) == Reading(p.reads \cup words, p)
      Try(here, at, end) ==
        IF LongEnough(end, here.start, size)
        THEN Reading(here.reads \cup end.reads,
                     [off |-> Some(at), start |-> here.start + size - 1])
        ELSE After(here.reads \cup end.reads,
                   IF end.off # None
                   THEN search[here.start + Min(end.off)][at + Min(end.off) + 1]
                   ELSE search[here.start][at])
      Hit(here) == IF here.off = None THEN here
                   ELSE Try(here, index + Min(here.off), Behind(here.start, v, size))
  IN  Hit(position(s, stop, v))

slot_search(v, size) ==
  LET search[s \in 0 .. stop] == [index \in Nat |-> slot_round(search, v, size, s, index)]
  IN  search

(* find_continuous_slot. *)
slot(v, size) ==
  IF size = 0 THEN [off |-> Some(0), start |-> start, reads |-> {}]
              ELSE slot_search(v, size)[start][0]

(* One round of find_continuous_slot_align: a hit that is not aligned is   *)
(* moved up to the next aligned index.  When the bit there is a wrong one, *)
(* the loop goes on behind it with the index of the bit itself.            *)
slot_align_round(search, v, size, align, s, index) ==
  LET After(words, p) == Reading(p.reads \cup words, p)
      Try(next, at, words, end) ==
        IF LongEnough(end, next, size)
        THEN Reading(words \cup end.reads, [off |-> Some(at), start |-> next + size - 1])
        ELSE After(words \cup end.reads,
                   IF end.off # None
                   THEN search[next + Min(end.off)][at + Min(end.off) + 1]
                   ELSE search[next][at])
      Tested(next, at, words) ==
        IF (next - 1 \in mem) = v THEN Try(next, at, words, Behind(next, v, size))
                                  ELSE After(words, search[next][at])
      Moved(here, next, at) ==
        IF next - 1 >= stop THEN Reading(here.reads, FoundNothing(stop))
                            ELSE Tested(next, at, here.reads \cup {word_index(next - 1)})
      Hit(here, at, fill) ==
        IF fill = 0 THEN Try(here.start, at, here.reads, Behind(here.start, v, size))
                    ELSE Moved(here, here.start + fill, at + fill)
      Found(here, at) ==
        Hit(here, at, IF (at % align) = 0 THEN 0 ELSE align - (at % align))
      Begin(here) == IF here.off = None THEN here ELSE Found(here, index + Min(here.off))
  IN  Begin(position(s, stop, v))

slot_align_search(v, size, align) ==
  LET search[s \in 0 .. stop] ==
        [index \in Nat |-> slot_align_round(search, v, size, align, s, index)]
  IN  search

(* find_continuous_slot_align. *)
slot_align(v, size, align) ==
  IF size = 0 THEN [off |-> Some(0), start |-> start, reads |-> {}]
              ELSE slot_align_search(v, size, align)[start][0]

(* copy_bits_slice: n bits at bit at fit a slice of size bits. *)
FitsSlice(n, at, size) == words_for(n + at) <= word_index(size)

(* What to_list leaves in the initialised words of the new list, over a    *)
(* memory that held residue: the last word is zeroed before the copy.      *)
listed(b, residue) ==
  IF b.len <= DATA_BITS THEN b.ones
  ELSE copy_bits(residue \ Word(words_for(b.len) - 1), 0, b) \cap Words(0, words_for(b.len))

(* word_aligned: the bits of the first word, and the words behind it,      *)
(* which may go on beyond the window.                                      *)
aligned_words(s, e) ==
  LET first == word_index(s)
      count == words_for(e) - first
      here == WordSize - bit_in_word_index(s)
      word == new_word_bits(Down(WordAt(mem, first), bit_in_word_index(s)), least(here, e - s))
  IN  IF count = 0 THEN <<NoBits, NoBits>>
      ELSE <<Held(word), Str((count - 1) * WordSize,
                             Down(mem \cap Words(first + 1, first + count), (first + 1) * WordSize))>>

-----------------------------------------------------------------------------
(* Comparing two windows of the memory. *)

(* Mutant: the last word counts as full even if the window ends inside it. *)
full_words_over(s, e) == [i \in 0 .. (words_for(e) - words_for(s) - 1) |-> WordAt(mem, words_for(s) + i)]

full_words(s, e) == [i \in 0 .. (word_index(e) - words_for(s) - 1) |-> WordAt(mem, words_for(s) + i)]

(* Whole words if both windows begin at a word, then bit by bit. *)
is_equal(s, e, t, f) ==
  LET aligned == bit_in_word_index(s) = 0 /\ bit_in_word_index(t) = 0
      skip == IF aligned /\ s < e THEN WordSize * (word_index(e) - words_for(s)) ELSE 0
  IN  /\ e - s = f - t
      /\ aligned => full_words(s, e) = full_words(t, f)
      /\ \A i \in skip .. (e - s - 1) : bit(s + i) = bit(t + i)

-----------------------------------------------------------------------------
(* Calls. *)

Init ==
  /\ mem \in Memories
  /\ start \in 0 .. (MemWords * WordSize)
  /\ stop \in 0 .. (MemWords * WordSize)
  /\ ~is_invalid_range(start, stop, MemWords * WordSize)
  /\ op = "new" /\ args = <<>> /\ ret = None /\ reads = {}

Calls(name, a, s, e, result, words) ==
  /\ start' = s /\ stop' = e
  /\ op' = name /\ args' = a /\ ret' = result /\ reads' = words
  /\ UNCHANGED mem

Finds(name, a, p) == Calls(name, a, p.start, stop, p.off, p.reads)

(* BitsIter::from_words_bounds, and new_bounds on a list of its own length.*)
Open ==
  \E low, high \in Bounds :
    LET size == MemWords * WordSize
        s == bounds_start(low)
        e == bounds_stop(high, size)
    IN  IF is_invalid_range(s, e, size)
        THEN Calls("new_bounds", <<low, high>>, start, stop, None, {})
        ELSE \/ Calls("new_bounds", <<low, high>>, s, e, Some(e - s), {})
             \/ /\ BoundOverflows(low, high)
                /\ Calls("new_bounds", <<low, high>>, start, stop, None, {})

SetLimit ==
  \E n \in Counts :
    IF n > len THEN Calls("set_limit", <<n>>, start, stop, Some(FALSE), {})
               ELSE Calls("set_limit", <<n>>, start, start + n, Some(TRUE), {})

SetEndLimit ==
  \E n \in Counts :
    IF n > len THEN Calls("set_end_limit", <<n>>, start, stop, Some(FALSE), {})
               ELSE Calls("set_end_limit", <<n>>, stop - n, stop, Some(TRUE), {})

AdvanceBy ==
  \E n \in Counts :
    IF start + n <= stop THEN Calls("advance_by", <<n>>, start + n, stop, None, {})
                         ELSE Calls("advance_by", <<n>>, stop, stop, Some(n - len), {})

AdvanceBackBy ==
  \E n \in Counts :
    IF n <= stop /\ stop - n >= start
    THEN Calls("advance_back_by", <<n>>, start, stop - n, None, {})
    ELSE Calls("advance_back_by", <<n>>, start, start, Some(n - len), {})

(* Mutant: the end of the window is not looked at. *)
AdvanceWordsByFree ==
  \E n \in Counts :
    LET at == WordSize * n + start
        floor == word_index(at) * WordSize
    IN  Calls("advance_words_by", <<n>>, IF n = 0 \/ at > UsizeMax THEN start ELSE floor, stop,
              None, {})

(* To a word boundary, n words on; not at all when that is too far to      *)
(* count.                                                                  *)
AdvanceWordsBy ==
  \E n \in Counts :
    LET at == WordSize * n + start
        floor == word_index(at) * WordSize
    IN  Calls("advance_words_by", <<n>>,
              IF n = 0 \/ at > UsizeMax THEN start ELSE least(floor, stop), stop, None, {})

Nth ==
  \E n \in Counts :
    IF start + n < stop
    THEN Calls("const_nth", <<n>>, start + n + 1, stop, Some(bit(start + n)),
               {word_index(start + n)})
    ELSE Calls("const_nth", <<n>>, stop, stop, None, {})

NthBack ==
  \E n \in Counts :
    IF n <= stop /\ stop - n > start
    THEN Calls("const_nth_back", <<n>>, start, stop - n - 1, Some(bit(stop - n - 1)),
               {word_index(stop - n - 1)})
    ELSE Calls("const_nth_back", <<n>>, start, start, None, {})

NextWord ==
  LET w == peek_word(start, stop)
  IN  Calls("next_word", <<>>, start + w.count, stop, Some(Str(w.count, raw(w))),
            WordsPeeked(start, stop))

NextBits ==
  \E n \in Counts :
    LET e == Limited(start, stop, n)
        w == next_bits(start, stop, n)
        one == peek_word(start, e)
    IN  Calls("next_bits", <<n>>, start + w.count, stop, Some(Str(w.count, raw(w))),
              WordsPeeked(start, e) \cup
              (IF one.count < n THEN WordsPeeked(start + one.count, e) ELSE {}))

BitPosition ==
  \E v \in BOOLEAN :
    Finds("bit_position", <<v>>, position(start, stop, v))

(* Backwards bit by bit until the bit is v. *)
RBitPosition ==
  \E v \in BOOLEAN :
    LET hits == {i \in start .. (stop - 1) : (i \in mem) = v}
    IN  IF hits = {}
        THEN Calls("rbit_position", <<v>>, start, start, None,
                   {word_index(i) : i \in start .. (stop - 1)})
        ELSE Calls("rbit_position", <<v>>, start, Max(hits), Some(Max(hits) - start),
                   {word_index(i) : i \in Max(hits) .. (stop - 1)})

FindContinuousSlot ==
  \E v \in BOOLEAN, size \in Sizes :
    Finds("find_continuous_slot", <<v, size>>, slot(v, size))

FindContinuousSlotAlign ==
  \E v \in BOOLEAN, size \in Sizes, align \in Aligns :
    Finds("find_continuous_slot_align", <<v, size, align>>, slot_align(v, size, align))

NextBitCount ==
  LET v == start \in mem
      p == position(start + 1, stop, ~v)
  IN  IF len = 0
      THEN Calls("next_bit_count", <<>>, start, stop, Some(<<FALSE, 0>>), {})
      ELSE IF p.off # None
      THEN Calls("next_bit_count", <<>>, start + 1 + Min(p.off), stop, Some(<<v, Min(p.off) + 1>>),
                 p.reads \cup {word_index(start)})
      ELSE Calls("next_bit_count", <<>>, stop, stop, Some(<<v, stop - start>>),
                 p.reads \cup {word_index(start)})

TrySplitOff ==
  \E n \in Counts :
    IF n > len THEN Calls("try_split_off", <<n>>, start, stop, None, {})
    ELSE Calls("try_split_off", <<n>>, start, start + n,
               Some(Str(len - n, Down(mem \cap 0 .. (stop - 1), start + n))), {})

(* The call consumes the iterator; it is made on a copy.                   *)
AllValue ==
  LET one == position(start, stop, TRUE)
      zero == position(one.start, stop, FALSE)
      result == CASE len = 0 -> None
                  [] len > 0 /\ one.off = None -> Some(FALSE)
                  [] len > 0 /\ one.off = Some(0) -> IF zero.off = None THEN Some(TRUE) ELSE None
                  [] OTHER -> None
  IN  Calls("all_value", <<>>, start, stop, result,
            one.reads \cup (IF one.off = Some(0) THEN zero.reads ELSE {}))

(* What the new memory held does not show.                                 *)
ToList ==
  \E d \in Slices :
    LET shown == Str(len, Down(mem \cap 0 .. (stop - 1), start))
    IN  Calls("to_list", <<>>, start, stop, Some(Str(len, listed(shown, d.ones))),
              {word_index(i) : i \in start .. (stop - 1)})

(* None is a panic. *)
CopyBitsSlice ==
  \E at \in Sizes, d \in Slices :
    LET shown == Str(len, Down(mem \cap 0 .. (stop - 1), start))
    IN  IF FitsSlice(len, at, d.len)
        THEN Calls("copy_bits_slice", <<at, d>>, start, stop,
                   Some(Str(d.len, copy_bits(d.ones, at, shown))),
                   {word_index(i) : i \in start .. (stop - 1)})
        ELSE Calls("copy_bits_slice", <<at, d>>, start, stop, None, {})

WordAligned ==
  Calls("word_aligned", <<>>, start, stop, Some(aligned_words(start, stop)),
        IF words_for(stop) > word_index(start) THEN {word_index(start)} ELSE {})

Next ==
  \/ Open \/ ToList \/ CopyBitsSlice \/ WordAligned
  \/ SetLimit \/ SetEndLimit \/ AdvanceBy \/ AdvanceBackBy \/ AdvanceWordsBy
  \/ Nth \/ NthBack \/ NextWord \/ NextBits \/ BitPosition \/ RBitPosition
  \/ FindContinuousSlot \/ FindContinuousSlotAlign \/ NextBitCount \/ TrySplitOff \/ AllValue

Spec == Init /\ [][Next]_vars

-----------------------------------------------------------------------------
(* Properties. *)

(* The window never turns inside out and stays in the memory (the debug    *)
(* assertions after every advance, iter.rs:419 and others).                *)
WindowOK == start \in 0 .. stop /\ stop \in 0 .. (MemWords * WordSize)

(* A call reads only words that hold a bit of the window it was called on: *)
(* the pointer reads of iter.rs:375-392 are not checked.                   *)
ReadsInside == [][reads' \subseteq {k \in 0 .. (MemWords - 1) :
                                      k * WordSize < stop /\ (k + 1) * WordSize > start}]_vars

(* The range that two bounds name, with no wrapping. *)
Asked(low, high) ==
  <<CASE low.kind = "unbounded" -> 0 [] low.kind = "included" -> low.at [] OTHER -> low.at + 1,
    CASE high.kind = "unbounded" -> MemWords * WordSize [] high.kind = "included" -> high.at + 1
      [] OTHER -> high.at>>

Opened(r) ==
  IF r[1] <= r[2] /\ r[2] <= MemWords * WordSize
  THEN <<start', stop'>> = r
  ELSE ret' = None /\ UNCHANGED <<start, stop>>

(* A window that is opened shows the range asked for, or the call panics   *)
(* because the range does not exist; only a bound next to usize::MAX is    *)
(* let through by mistake (iter.rs:93-106).                                *)
OpensWhatIsAsked ==
  [][op' = "new_bounds" =>
       \/ BoundOverflows(args'[1], args'[2])
       \/ Opened(Asked(args'[1], args'[2]))]_vars

(* Every call takes off the window, and returns, what BitsIterSpec says of *)
(* the string of the bits that are left, wherever in its words the window  *)
(* begins and ends.                                                        *)
Abstract == INSTANCE BitsIterSpec
              WITH rest <- Str(len, Down(mem \cap 0 .. (stop - 1), start))

IterPromise == Abstract!Spec

(* Two windows are equal exactly when they show the same bits, whether     *)
(* they are compared word by word or bit by bit (iter.rs:592).             *)
EqualIffSameBits ==
  \A t, f \in 0 .. (MemWords * WordSize) : t <= f =>
    (is_equal(start, stop, t, f) <=>
       /\ stop - start = f - t
       /\ \A i \in 0 .. (f - t - 1) : (start + i \in mem) = (t + i \in mem))
=============================================================================
