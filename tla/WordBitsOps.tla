---------------------------- MODULE WordBitsOps ----------------------------
(***************************************************************************)
(* WordBits (iter.rs:901-1127): up to one word of bits, by which the       *)
(* iterators hand out and put together what they read.  Only the first     *)
(* count bits of value belong to it; the others may be anything, because   *)
(* peek_word, truncate and pop_front leave there what they find.           *)
(***************************************************************************)
EXTENDS BitWords, BitStrings

LOCAL INSTANCE FiniteSetsExt

None == {}
Some(x) == {x}

least(x, y) == IF x < y THEN x ELSE y

(* WordBits::new_unchecked. *)
WordBits(value, count) == [value |-> value, count |-> count]

EmptyWordBits == WordBits({}, 0)

raw(w) == w.value \cap last_word_mask(w.count)

(* The string a WordBits stands for. *)
Held(w) == Str(w.count, raw(w))

(* WordBits::new: the count is cut to the word size, the value to it. *)
new_word_bits(value, n) ==
  WordBits(value \cap last_word_mask(least(n, WordSize)), least(n, WordSize))

(* trailing_ones or trailing_zeros: the first bit of the word that is v.   *)
trailing(word, v) ==
  LET S == IF v THEN word ELSE Bit \ word IN IF S = {} THEN WordSize ELSE Min(S)

first_bit_value(w, v) ==
  IF trailing(w.value, v) >= w.count THEN None ELSE Some(trailing(w.value, v))

(* w.value with more bits or-ed in behind the first w.count.  The shift    *)
(* wraps: behind a full word it is a shift by nothing.                     *)
Merged(w, value) == raw(w) \cup (Up(value, w.count % WordSize) \cap Bit)

push_bits(w, more) ==
  IF w.count + more.count <= WordSize
  THEN WordBits(Merged(w, more.value), w.count + more.count)
  ELSE w

truncated(w, n) == WordBits(w.value, least(w.count, n))

(* Mutant: the whole words are compared. *)
same_values(w, z) == w.count = z.count /\ w.value = z.value

(* PartialEq. *)
same_word_bits(w, z) ==
  /\ w.count = z.count
  /\ ((w.value \ z.value) \cup (z.value \ w.value)) \cap last_word_mask(w.count) = {}

(* What hash writes. *)
word_bits_hash(w) == <<raw(w), w.count>>
=============================================================================
