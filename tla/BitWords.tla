------------------------------ MODULE BitWords ------------------------------
(***************************************************************************)
(* Machine words and the index arithmetic every other part of the crate    *)
(* is written with (heap.rs:466-521), and the layout of the inline word    *)
(* (inline.rs:20-39).                                                      *)
(*                                                                         *)
(* A word is the set of the positions of its 1 bits: & is \cap, | is \cup, *)
(* ! is the complement in Bit.  An array of words is the set of the flat   *)
(* positions i * WordSize + b of its 1 bits.                               *)
(***************************************************************************)
EXTENDS Integers

CONSTANTS
  WordSize,   \* usize::BITS; 64 or 32 in the code, 4 or 8 in the models
  CountBits   \* InlineBitList::COUNT_BITS = (usize::BITS - 1).count_ones()

(* A word has a power-of-two size (wrapper.rs:27 requires at least 32; the *)
(* models use smaller ones) and the inline word must leave room for data:  *)
(* inline.rs:17.                                                           *)
ASSUME WordAssumption ==
  /\ WordSize \in Nat
  /\ CountBits \in Nat
  /\ WordSize = 2^CountBits
  /\ CountBits + 1 < WordSize

Bit == 0 .. (WordSize - 1)

(* InlineBitList::DATA_BITS: one word minus the inline flag and the count. *)
DATA_BITS == WordSize - 1 - CountBits

UsizeMax == 2^WordSize - 1

word_index(bit_index) == bit_index \div WordSize

bit_in_word_index(bit_index) == bit_index % WordSize

(* Mutant: a last word that is not full is not counted. *)
words_for_floor(bits) == word_index(bits)

(* Words needed to hold the given number of bits. *)
words_for(bits) ==
  word_index(bits) + (IF bit_in_word_index(bits) # 0 THEN 1 ELSE 0)

(* The bits of the last word that lie inside a list of length len; a word  *)
(* boundary other than 0 gives the full word.                              *)
last_word_mask(len) ==
  IF bit_in_word_index(len) = 0 /\ len # 0
  THEN Bit
  ELSE 0 .. (bit_in_word_index(len) - 1)

(* A bound of a range; the index after usize::MAX wraps to 0, or panics in *)
(* a debug build.                                                          *)
Bound(kind, at) == [kind |-> kind, at |-> at]

after(i) == (i + 1) % (UsizeMax + 1)

(* bounds_to_range: the first index of the range and the first after it. *)
bounds_start(low) ==
  CASE low.kind = "unbounded" -> 0 [] low.kind = "included" -> low.at [] OTHER -> after(low.at)

(* Mutant: the last index of a closed range is left out. *)
bounds_stop_open(high, len) == IF high.kind = "unbounded" THEN len ELSE high.at

bounds_stop(high, len) ==
  CASE high.kind = "unbounded" -> len [] high.kind = "included" -> after(high.at)
    [] OTHER -> high.at

BoundOverflows(low, high) ==
  \/ low.kind = "excluded" /\ low.at = UsizeMax
  \/ high.kind = "included" /\ high.at = UsizeMax

is_invalid_range(start, stop, len) == start > stop \/ stop > len

-----------------------------------------------------------------------------
(* Flat addressing. *)

(* Flat positions of word i. *)
Word(i) == (i * WordSize) .. ((i + 1) * WordSize - 1)

(* Flat positions of the words lo .. hi - 1. *)
Words(lo, hi) == (lo * WordSize) .. (hi * WordSize - 1)

(* The set s moved up by k positions (<< k). *)
Up(s, k) == {i + k : i \in s}

(* The set s moved down by k positions (>> k), what falls off is lost. *)
Down(s, k) == {i - k : i \in {j \in s : j >= k}}

(* The value of word i of the array with the given 1 bits. *)
WordAt(ones, i) == Down(ones \cap Word(i), i * WordSize)

(* copy_bits_nonoverlapping and fill_bits, by what they do; BitCopy shows  *)
(* that they do it.                                                        *)
copy_bits(dst, at, b) == (dst \ (at .. (at + b.len - 1))) \cup Up(b.ones, at)

fill_bits(dst, at, n, v) ==
  IF v THEN dst \cup (at .. (at + n - 1)) ELSE dst \ (at .. (at + n - 1))
=============================================================================
