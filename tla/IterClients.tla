---------------------------- MODULE IterClients ----------------------------
(***************************************************************************)
(* What is built on reading a list from its start (iter.rs:76-90,          *)
(* 787-846, 1019-1056, 1129-1260): the indexes of the bits that have a     *)
(* value, run-length compression, and the words of a list given out from   *)
(* both ends.  The list lies in mem from bit base on; base is 0 for a heap *)
(* list, and what the length and the flag take up for an inline one.  One  *)
(* client at a time borrows the list.                                      *)
(***************************************************************************)
EXTENDS BitsIter

LOCAL INSTANCE FiniteSetsExt

CONSTANTS
  Range1, Range2, Range3,  \* the bits of a count, in the three ranges: 4, 8, 24
  Clients                  \* the clients that may borrow the list

ASSUME RangeAssumption ==
  /\ {Range1, Range2, Range3} \subseteq Nat \ {0}
  /\ 5 + Range3 <= WordSize
  /\ Clients \subseteq {"indexes", "compressor", "word_bits", "raw_words"}

VARIABLES
  client,  \* who reads
  base,    \* the first bit of the list
  index,   \* BitIndexes::index
  value,   \* BitIndexes::value
  packed,  \* what the compressor has pushed
  words,   \* WordBitsIter: the full words lo .. hi - 1 and the last one
  front,   \* the bits given out so far from the front, a word at a time
  back     \* and from the back

clientVars == <<client, base, index, value, packed, words, front, back>>

allVars == <<vars, clientVars>>

-----------------------------------------------------------------------------
(* Run lengths. *)

R1_START == 2
R1_END == 2^Range1 - 1 + R1_START
R2_START == R1_END + 1
R2_END == 2^Range2 - 1 + R2_START
R3_START == R2_END + 1
R3_END == 2^Range3 - 1 + R3_START

(* The positions of the 1 bits of the number n. *)
Digits(n) == {i \in Bit : (n \div 2^i) % 2 = 1}

(* mask | bit << at | count << (at + 1), cut to the word. *)
Code(mask, v, at, count, size) ==
  new_word_bits(Digits(mask) \cup (IF v THEN {at} ELSE {}) \cup (Up(Digits(count), at + 1) \cap Bit),
                at + 1 + size)

(* Mutant: the first count of a range is stored as 1. *)
compress_run_length_shifted(v, count) ==
  CASE count = 0 -> <<EmptyWordBits, 0>>
    [] count = 1 -> <<Code(0, v, 1, 0, 0), 0>>
    [] count \in R1_START .. R1_END -> <<Code(1, v, 2, count - 1, Range1), 0>>
    [] OTHER -> <<Code(1, v, 2, R1_END - 1, Range1), count - R1_END>>

(* Mutant: a run too long for the third range has no code. *)
compress_run_length_gap(v, count) ==
  IF count \in 1 .. R3_END THEN <<Code(0, v, 1, 0, 0), count - 1>> ELSE <<EmptyWordBits, 0>>

(* The code of a run of count bits v, and how many of them it leaves over. *)
compress_run_length(v, count) ==
  CASE count = 0 -> <<EmptyWordBits, 0>>
    [] count = 1 -> <<Code(0, v, 1, 0, 0), 0>>
    [] count \in R1_START .. R1_END -> <<Code(1, v, 2, count - R1_START, Range1), 0>>
    [] count \in R2_START .. R2_END -> <<Code(3, v, 3, count - R2_START, Range2), 0>>
    [] count \in R3_START .. R3_END -> <<Code(7, v, 4, count - R3_START, Range3), 0>>
    [] OTHER -> <<Code(1, v, 2, R1_END - R1_START, Range1), count - R1_END>>

(* Only the codes of single bits are read back: <<value, count>> or None.  *)
decompress_run_length(w) ==
  CASE w.count = 2 /\ raw(w) = {} -> Some(<<FALSE, 1>>)
    [] w.count = 2 /\ raw(w) = {1} -> Some(<<TRUE, 1>>)
    [] OTHER -> None

(* How many bits from s on are like the one at s. *)
RunLength(s) ==
  LET p == position(s + 1, stop, ~(s \in mem))
  IN  IF s = stop THEN 0 ELSE IF p.off # None THEN Min(p.off) + 1 ELSE stop - s

-----------------------------------------------------------------------------
(* Clients. *)

size == stop - base

(* RawWordsIter: every word of a heap list, or the inline word.            *)
raw_words ==
  IF base = 0 THEN [lo |-> 0, hi |-> words_for(stop), last |-> EmptyWordBits]
  ELSE [lo |-> 0, hi |-> 0, last |-> WordBits(Down(WordAt(mem, 0), base), size)]

(* Mutant: a last word that is full is taken for an empty one. *)
word_bits_iter_rest ==
  IF base = 0 /\ stop > 0
  THEN [lo |-> 0, hi |-> words_for(stop) - 1,
        last |-> WordBits(WordAt(mem, words_for(stop) - 1), bit_in_word_index(stop))]
  ELSE raw_words

(* WordBitsIter: the last word of a heap list apart from the others. *)
word_bits_iter ==
  IF base = 0 /\ stop > 0
  THEN [lo |-> 0, hi |-> words_for(stop) - 1,
        last |-> WordBits(WordAt(mem, words_for(stop) - 1),
                          IF bit_in_word_index(stop) = 0 THEN WordSize
                                                         ELSE bit_in_word_index(stop))]
  ELSE raw_words

(* A list in bits base .. stop - 1 of the memory is given to one of the    *)
(* clients; behind its last bit the word holds zeros.  bit_indexes begins  *)
(* at the given index, or at the end of a shorter list.                    *)
ClientInit ==
  /\ base \in {0, 1 + CountBits}
  /\ stop \in base .. (IF base = 0 THEN MemWords * WordSize ELSE WordSize)
  /\ \E m \in Memories : mem = m \cap (0 .. (stop - 1))
  /\ op = "new" /\ args = <<>> /\ ret = None /\ reads = {}
  /\ client \in Clients
  /\ value \in (IF client = "indexes" THEN BOOLEAN ELSE {FALSE})
  /\ \E at \in (IF client = "indexes" THEN Counts ELSE {0}) :
       index = least(at, size) /\ start = base + index
  /\ words = (CASE client = "word_bits" -> word_bits_iter [] client = "raw_words" -> raw_words
                [] OTHER -> [lo |-> 0, hi |-> 0, last |-> EmptyWordBits])
  /\ packed = NoBits /\ front = NoBits /\ back = NoBits

Took(name, a, s, result) ==
  /\ op' = name /\ args' = a /\ ret' = result /\ start' = s
  /\ UNCHANGED <<mem, stop, reads, client, base>>

(* Mutant: the bit found is not counted. *)
NextIndexBehind ==
  LET p == position(start, stop, value)
  IN  /\ client = "indexes"
      /\ Took("const_next", <<>>, p.start, {index + i : i \in p.off})
      /\ index' = (IF p.off = None THEN index ELSE index + Min(p.off))
      /\ UNCHANGED <<value, packed, words, front, back>>

(* BitIndexes::const_next. *)
NextIndex ==
  LET p == position(start, stop, value)
  IN  /\ client = "indexes"
      /\ Took("const_next", <<>>, p.start, {index + i : i \in p.off})
      /\ index' = (IF p.off = None THEN index ELSE index + Min(p.off) + 1)
      /\ UNCHANGED <<value, packed, words, front, back>>

ChangeBit ==
  /\ client = "indexes"
  /\ \E v \in BOOLEAN : value' = v /\ Took("change_bit", <<v>>, start, None)
  /\ UNCHANGED <<index, packed, words, front, back>>

(* Mutant: the index is not moved. *)
AdvanceTotalBitsDrift ==
  /\ client = "indexes"
  /\ \E n \in Counts : Took("advance_total_bits", <<n>>, least(start + n, stop), None)
  /\ UNCHANGED <<index, value, packed, words, front, back>>

(* When there are too few bits the iterator is used up, and the index      *)
(* stays.                                                                  *)
AdvanceTotalBits ==
  /\ client = "indexes"
  /\ \E n \in Counts :
       IF n <= len
       THEN Took("advance_total_bits", <<n>>, start + n, None) /\ index' = index + n
       ELSE Took("advance_total_bits", <<n>>, stop, Some(n - len)) /\ index' = index
  /\ UNCHANGED <<value, packed, words, front, back>>

(* One round of compress_run_length and of entropy: a run is coded, and    *)
(* what of it is left over is seen again by the next round.                *)
CompressNext ==
  /\ client = "compressor"
  /\ \E count \in {RunLength(start)} :
       \E coded \in {compress_run_length(start \in mem, count)} :
         /\ coded[1].count # 0
         /\ Took("compress_next", <<>>, start + count - coded[2], None)
         /\ packed' = Concat(packed, Held(coded[1]))
         /\ UNCHANGED <<index, value, words, front, back>>

FullWord(i) == Str(WordSize, WordAt(mem, i))

NextWordBits ==
  /\ client \in {"word_bits", "raw_words"}
  /\ \/ /\ words.lo < words.hi
        /\ words' = [words EXCEPT !.lo = @ + 1]
        /\ front' = Concat(front, FullWord(words.lo))
     \/ /\ words.lo = words.hi /\ words.last.count # 0
        /\ words' = [words EXCEPT !.last = EmptyWordBits]
        /\ front' = Concat(front, Held(words.last))
  /\ Took("next", <<>>, start, None)
  /\ UNCHANGED <<index, value, packed, back>>

NextBackWordBits ==
  /\ client \in {"word_bits", "raw_words"}
  /\ \/ /\ words.last.count # 0
        /\ words' = [words EXCEPT !.last = EmptyWordBits]
        /\ back' = Concat(Held(words.last), back)
     \/ /\ words.last.count = 0 /\ words.lo < words.hi
        /\ words' = [words EXCEPT !.hi = @ - 1]
        /\ back' = Concat(FullWord(words.hi - 1), back)
  /\ Took("next_back", <<>>, start, None)
  /\ UNCHANGED <<index, value, packed, front>>

ClientNext ==
  \/ NextIndex \/ ChangeBit \/ AdvanceTotalBits \/ CompressNext
  \/ NextWordBits \/ NextBackWordBits

(* The loops of the code call these until nothing comes any more. *)
ClientSpec ==
  /\ ClientInit /\ [][ClientNext]_allVars
  /\ WF_allVars(CompressNext)
  /\ WF_allVars(NextWordBits \/ NextBackWordBits)

-----------------------------------------------------------------------------
(* Properties. *)

(* The bits of the list from its index i up to j - 1. *)
Part(i, j) == Str(j - i, Down(mem \cap (0 .. (base + j - 1)), base + i))

(* As long as there is something to read, the index that BitIndexes counts *)
(* is the one at which its iterator stands, whatever order next,           *)
(* change_bit and advance_total_bits are called in (iter.rs:1236-1262).    *)
IndexFollowsWindow ==
  client = "indexes" => start \in base .. stop /\ (start < stop => index = start - base)

(* Each index given out is the next one, from where the iterator stood,    *)
(* whose bit has the value that was asked for last; None means there is    *)
(* no such bit (iter.rs:1240).                                             *)
NextIndexIsNext ==
  [][op' = "const_next" =>
       LET S == {i \in (start - base) .. (size - 1) : (base + i \in mem) = value}
       IN  ret' = {i \in S : \A j \in S : i <= j}]_allVars

(* Expands a string of codes, by the marks and the lengths of the three    *)
(* ranges, to the indexes of the 1 bits and the length; a number is        *)
(* written from its lowest digit on.                                       *)
Expand(s) ==
  LET Mark(at) == CHOOSE k \in 0 .. 3 :
                     /\ at .. (at + k - 1) \subseteq s.ones
                     /\ k = 3 \/ at + k \notin s.ones
      Width(k) == <<0, Range1, Range2, Range3>>[k + 1]
      First(k) == <<1, R1_START, R2_START, R3_START>>[k + 1]
      Count(at, k) == First(k) + MapThenSumSet(LAMBDA i : 2^i, Take(Drop(s, at + k + 2), Width(k)).ones)
      From[at \in 0 .. s.len, n \in Nat] ==
        LET Run(k, count) ==
              (IF at + k + 1 \in s.ones THEN n .. (n + count - 1) ELSE {})
              \cup From[at + k + 2 + Width(k), n + count]
            Expanded(k) == Run(k, Count(at, k))
        IN  IF at = s.len THEN {n} ELSE Expanded(Mark(at))
  IN  From[0, 0]

(* What the compressor has written so far expands to exactly the bits it   *)
(* has taken, so no run is cut short or coded twice at the border of two   *)
(* ranges (iter.rs:1038-1044), and what decompress_run_length accepts is   *)
(* what was written.                                                       *)
CompressedReadsBack ==
  /\ client = "compressor" => Expand(packed) = Part(0, start - base).ones \cup {start - base}
  /\ \A v \in BOOLEAN, n \in 0 .. R3_END :
       decompress_run_length(compress_run_length(v, n)[1]) \subseteq {<<v, n>>}

(* The words given out from both ends and those still inside are the list, *)
(* each bit once, in whatever order the ends are read (iter.rs:1178-1212); *)
(* a word given out whole has only zeros behind the list.                  *)
WordsCoverList ==
  LET left == IF words.lo < words.hi
              THEN Str((words.hi - words.lo) * WordSize,
                       Down(mem \cap Words(words.lo, words.hi), words.lo * WordSize))
              ELSE NoBits
      all == Concat(front, Concat(left, Concat(Held(words.last), back)))
  IN  client \in {"word_bits", "raw_words"} =>
        /\ Part(0, size).ones = all.ones
        /\ client = "word_bits" => all.len = size
        /\ all.len \in size .. (size + WordSize - 1)

(* compress_run_length and entropy come to the end of the list, and the    *)
(* words run out.                                                          *)
ClientsFinish ==
  /\ client = "compressor" ~> start = stop
  /\ client \in {"word_bits", "raw_words"} ~> (words.lo = words.hi /\ words.last.count = 0)
=============================================================================
