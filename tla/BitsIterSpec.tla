---------------------------- MODULE BitsIterSpec ----------------------------
(***************************************************************************)
(* What BitsIter promises: it is a string of the bits not yet given out,   *)
(* and every call takes some of them off its front or its back.  Nothing   *)
(* here knows where in the memory the bits lie; how many bits a call that  *)
(* goes word by word takes is left open, but never more than a word has.   *)
(***************************************************************************)
EXTENDS Integers, BitStrings

CONSTANTS
  WordSize,   \* bits in a word
  UsizeMax,   \* the largest number of a word
  MemWords,   \* words of the memory the bits lie in
  Counts,     \* the numbers passed to calls
  Sizes,      \* the sizes of the slots looked for
  Aligns,     \* the alignments asked for
  Bounds,     \* the bounds of the windows opened
  Slices      \* the slices copied to

VARIABLES
  rest,   \* the bits that are left
  op,     \* the last call
  args,   \* what it was called with
  ret     \* what it returned: {} is None, {x} is Some(x)

vars == <<rest, op, args, ret>>

Calls(name, a, left, result) ==
  op' = name /\ args' = a /\ ret' = result /\ rest' = left

(* The indexes at which the string a has the bit v. *)
IndexesOf(a, v) == IF v THEN a.ones ELSE (0 .. (a.len - 1)) \ a.ones

IsFirst(i, S) == i \in S /\ \A j \in S : i <= j

(* The offsets at which size bits v lie next to each other. *)
Slots(a, v, size) ==
  {i \in 0 .. (a.len - size) : i .. (i + size - 1) \subseteq IndexesOf(a, v)}

-----------------------------------------------------------------------------
(* A new window: which, BitsIter!OpensWhatIsAsked says. *)
Open ==
  \E low, high \in Bounds :
    /\ op' = "new_bounds" /\ args' = <<low, high>>
    /\ IsBitString(rest') /\ ret' \in {{}, {rest'.len}}

(* A list of the bits left, and nothing else, also behind its last bit.    *)
ToList == Calls("to_list", <<>>, rest, {rest})

(* The slice with the bits left written over it, or a panic if they do not *)
(* fit.                                                                    *)
CopyBitsSlice ==
  \E at \in Sizes, d \in Slices :
    Calls("copy_bits_slice", <<at, d>>, rest,
          IF at + rest.len <= d.len THEN {Overwrite(d, at, rest)} ELSE {})

(* A first word and further ones that together begin with the bits left,   *)
(* and go on for less than a word.                                         *)
WordAligned ==
  /\ op' = "word_aligned" /\ args' = <<>> /\ rest' = rest /\ ret' # {}
  /\ \A p \in ret' :
       LET all == Concat(p[1], p[2])
       IN  Take(all, rest.len) = rest /\ all.len \in rest.len .. (rest.len + WordSize - 1)

SetLimit ==
  \E n \in Counts :
    IF n > rest.len THEN Calls("set_limit", <<n>>, rest, {FALSE})
                    ELSE Calls("set_limit", <<n>>, Take(rest, n), {TRUE})

SetEndLimit ==
  \E n \in Counts :
    IF n > rest.len THEN Calls("set_end_limit", <<n>>, rest, {FALSE})
                    ELSE Calls("set_end_limit", <<n>>, Drop(rest, rest.len - n), {TRUE})

(* Err holds the number of bits that were missing. *)
AdvanceBy ==
  \E n \in Counts :
    IF n <= rest.len THEN Calls("advance_by", <<n>>, Drop(rest, n), {})
                     ELSE Calls("advance_by", <<n>>, NoBits, {n - rest.len})

AdvanceBackBy ==
  \E n \in Counts :
    IF n <= rest.len THEN Calls("advance_back_by", <<n>>, Take(rest, rest.len - n), {})
                     ELSE Calls("advance_back_by", <<n>>, NoBits, {n - rest.len})

(* n words, less the part of the first that was given out before; nothing  *)
(* if the place n words behind the first bit is beyond the largest number, *)
(* as it is for some n wherever the bits lie, and for others if enough of  *)
(* the memory may lie before them.                                         *)
AdvanceWordsBy ==
  \E n \in Counts :
    LET before == MemWords * WordSize - rest.len
    IN  \/ /\ n * WordSize + before > UsizeMax
           /\ Calls("advance_words_by", <<n>>, rest, {})
        \/ /\ n * WordSize <= UsizeMax
           /\ \E k \in 0 .. rest.len :
                /\ k <= n * WordSize
                /\ k = rest.len \/ k > (n - 1) * WordSize
                /\ n = 0 => k = 0
                /\ Calls("advance_words_by", <<n>>, Drop(rest, k), {})

Nth ==
  \E n \in Counts :
    IF n < rest.len THEN Calls("const_nth", <<n>>, Drop(rest, n + 1), {BitAt(rest, n)})
                    ELSE Calls("const_nth", <<n>>, NoBits, {})

NthBack ==
  \E n \in Counts :
    IF n < rest.len
    THEN Calls("const_nth_back", <<n>>, Take(rest, rest.len - 1 - n), {BitAt(rest, rest.len - 1 - n)})
    ELSE Calls("const_nth_back", <<n>>, NoBits, {})

(* A word's worth of bits, and at least one if there is any. *)
NextWord ==
  \E k \in 0 .. WordSize :
    /\ k <= rest.len
    /\ k = 0 => rest.len = 0
    /\ Calls("next_word", <<>>, Drop(rest, k), {Take(rest, k)})

(* As many bits as asked for, if one word can hold them. *)
NextBits ==
  \E n \in Counts, k \in 0 .. WordSize :
    /\ k <= rest.len /\ k <= n
    /\ k < n /\ k < rest.len => n > WordSize /\ k > 0
    /\ Calls("next_bits", <<n>>, Drop(rest, k), {Take(rest, k)})

BitPosition ==
  \E v \in BOOLEAN :
    \/ \E i \in IndexesOf(rest, v) :
         /\ IsFirst(i, IndexesOf(rest, v))
         /\ Calls("bit_position", <<v>>, Drop(rest, i + 1), {i})
    \/ IndexesOf(rest, v) = {} /\ Calls("bit_position", <<v>>, NoBits, {})

RBitPosition ==
  \E v \in BOOLEAN :
    \/ \E i \in IndexesOf(rest, v) :
         /\ \A j \in IndexesOf(rest, v) : j <= i
         /\ Calls("rbit_position", <<v>>, Take(rest, i), {i})
    \/ IndexesOf(rest, v) = {} /\ Calls("rbit_position", <<v>>, NoBits, {})

FindContinuousSlot ==
  \E v \in BOOLEAN, size \in Sizes :
    \/ size = 0 /\ Calls("find_continuous_slot", <<v, size>>, rest, {0})
    \/ size > 0 /\ \E i \in Slots(rest, v, size) :
         /\ IsFirst(i, Slots(rest, v, size))
         /\ Calls("find_continuous_slot", <<v, size>>, Drop(rest, i + size), {i})
    \/ /\ size > 0 /\ Slots(rest, v, size) = {}
       /\ Calls("find_continuous_slot", <<v, size>>, NoBits, {})

AlignedSlots(a, v, size, align) == {i \in Slots(a, v, size) : (i % align) = 0}

(* Every run of bits v reaches up to an aligned index, or to the end.      *)
RunsReachAlignment(a, v, align) ==
  \A i \in IndexesOf(a, v) :
    (i = 0 \/ i - 1 \notin IndexesOf(a, v)) =>
      \A j \in i .. (i + align - 1) : (j % align) = 0 => j >= a.len \/ j \in IndexesOf(a, v)

(* Nothing is said of strings with runs too short to hold an aligned index *)
(* but that the call takes bits off the front.                             *)
FindContinuousSlotAlign ==
  \E v \in BOOLEAN, size \in Sizes, align \in Aligns :
    \/ size = 0 /\ Calls("find_continuous_slot_align", <<v, size, align>>, rest, {0})
    \/ /\ size > 0 /\ RunsReachAlignment(rest, v, align)
       /\ \/ \E i \in AlignedSlots(rest, v, size, align) :
              /\ IsFirst(i, AlignedSlots(rest, v, size, align))
              /\ Calls("find_continuous_slot_align", <<v, size, align>>, Drop(rest, i + size), {i})
          \/ /\ AlignedSlots(rest, v, size, align) = {}
             /\ Calls("find_continuous_slot_align", <<v, size, align>>, NoBits, {})
    \/ /\ size > 0 /\ ~RunsReachAlignment(rest, v, align)
       /\ \E k \in 0 .. rest.len, result \in {{}} \cup {{i} : i \in 0 .. (2 * rest.len)} :
            Calls("find_continuous_slot_align", <<v, size, align>>, Drop(rest, k), result)

(* The first run of equal bits is taken off, and its length returned. *)
NextBitCount ==
  \/ rest.len = 0 /\ Calls("next_bit_count", <<>>, rest, {<<FALSE, 0>>})
  \/ \E v \in BOOLEAN, n \in 1 .. rest.len :
       /\ 0 .. (n - 1) \subseteq IndexesOf(rest, v)
       /\ n < rest.len => n \notin IndexesOf(rest, v)
       /\ Calls("next_bit_count", <<>>, Drop(rest, n), {<<v, n>>})

TrySplitOff ==
  \E n \in Counts :
    IF n > rest.len THEN Calls("try_split_off", <<n>>, rest, {})
                    ELSE Calls("try_split_off", <<n>>, Take(rest, n), {Drop(rest, n)})

AllValue ==
  Calls("all_value", <<>>, rest,
        {v \in BOOLEAN : rest.len > 0 /\ IndexesOf(rest, v) = 0 .. (rest.len - 1)})

Next ==
  \/ Open \/ ToList \/ CopyBitsSlice \/ WordAligned
  \/ SetLimit \/ SetEndLimit \/ AdvanceBy \/ AdvanceBackBy \/ AdvanceWordsBy
  \/ Nth \/ NthBack \/ NextWord \/ NextBits \/ BitPosition \/ RBitPosition
  \/ FindContinuousSlot \/ FindContinuousSlotAlign \/ NextBitCount \/ TrySplitOff \/ AllValue

Init == IsBitString(rest) /\ op = "new" /\ args = <<>> /\ ret = {}

Spec == Init /\ [][Next]_vars
=============================================================================
