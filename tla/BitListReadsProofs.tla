------------------------- MODULE BitListReadsProofs -------------------------
(***************************************************************************)
(* Proofs about the functions that read lists: equality and hash           *)
(* (BitListQueries), and the room of the decimal conversion (BitListReads).*)
(***************************************************************************)
EXTENDS BitListReads, BitListProofs

(* The words of an array say all of it. *)
LEMMA WordsDetermine ==
  ASSUME NEW n \in Nat, NEW s, s \subseteq Words(0, n), NEW t,
         \A i \in 0 .. (n - 1) : WordAt(s, i) = WordAt(t, i)
  PROVE  s \subseteq t
<1> SUFFICES ASSUME NEW x \in s PROVE x \in t
  OBVIOUS
<1> DEFINE i == x \div WordSize
<1>1. x \in Nat /\ x < n * WordSize /\ n * WordSize \in Int
  BY WordSizeType, TimesNext DEF Words
<1>2. i \in Nat /\ x \in (i * WordSize) .. ((i + 1) * WordSize - 1)
  BY <1>1, WordSizeType, DivSplit, UnitPositions
<1>3. i * WordSize \in Int /\ i * WordSize <= x
  BY <1>2, WordSizeType, TimesNext
<1> HIDE DEF i
<1>4. i <= n - 1
  <2> SUFFICES ASSUME n <= i PROVE FALSE
    BY <1>2
  <2>1. n * WordSize <= i * WordSize
    BY <1>2, WordSizeType, TimesMono
  <2> QED BY <1>1, <1>3, <2>1
<1>5. x - i * WordSize \in WordAt(s, i)
  BY <1>2, <1>3 DEF WordAt, Down, Word
<1>6. x - i * WordSize \in WordAt(t, i)
  BY <1>2, <1>4, <1>5
<1>7. PICK j \in t \cap Word(i) : x - i * WordSize = j - i * WordSize
  BY <1>6 DEF WordAt, Down
<1>8. j \in Int
  BY DEF Word
<1>9. x = j
  BY <1>1, <1>3, <1>7, <1>8
<1> QED BY <1>9

LEMMA InsideWords ==
  ASSUME NEW r, WellFormed(r)
  PROVE  r.ones \subseteq Words(0, words_for(r.len))
<1> DEFINE hi == words_for(r.len) * WordSize
<1>1. r.len \in Nat /\ hi \in Nat /\ r.len <= hi /\ r.ones \subseteq 0 .. (r.len - 1)
  BY RepType, WordsForBounds
<1>2. Words(0, words_for(r.len)) = 0 .. (hi - 1)
  BY WordSizeType DEF Words
<1> HIDE DEF hi
<1> QED BY <1>1, <1>2

(* The data of a short list is its first and only word. *)
LEMMA OneWord ==
  ASSUME NEW r, WellFormed(r), r.len > 0, r.len <= DATA_BITS
  PROVE  words_for(r.len) = 1 /\ WordAt(r.ones, 0) = r.ones
<1>1. r.len \in Nat /\ r.ones \subseteq 0 .. (r.len - 1)
  BY RepType
<1>2. words_for(r.len) = 1
  <2>1. r.len <= 1 * WordSize
    BY <1>1, DataBitsType, WordSizeType
  <2>2. words_for(r.len) <= 1
    BY <1>1, <2>1, WordsForLeast
  <2> QED BY <1>1, <2>2, WordsForPositive
<1>3. 0 * WordSize = 0 /\ (0 + 1) * WordSize = WordSize
  BY WordSizeType
<1>4. r.ones \cap Word(0) = r.ones
  BY <1>1, <1>3, DataBitsType, WordSizeType DEF Word
<1>5. Down(r.ones, 0) = r.ones
  BY <1>1 DEF Down
<1> QED BY <1>2, <1>3, <1>4, <1>5 DEF WordAt

(* The two forms of one string. *)
LEMMA RepsOfIs ==
  ASSUME NEW b, b.len \in Nat, b.ones \subseteq 0 .. (b.len - 1), b = Str(b.len, b.ones),
         NEW q \in RepsOf(b)
  PROVE  WellFormed(q) /\ q.len = b.len /\ q.ones = b.ones /\ Value(q) = b
<1> SUFFICES WellFormed(q) /\ q.len = b.len /\ q.ones = b.ones
  <2>1. ASSUME q.len = b.len, q.ones = b.ones PROVE Value(q) = b
    <3>1. q.ones \cap (0 .. (q.len - 1)) = b.ones
      BY <2>1
    <3> QED BY <2>1, <3>1 DEF Value
  <2> QED BY <2>1
<1>1. CASE q = Inline(b.len, b.ones)
  <2>1. b.len <= DATA_BITS
    BY <1>1 DEF RepsOf, capacity, Inline
  <2>2. b.ones \cap (0 .. (DATA_BITS - 1)) = b.ones
    BY <2>1, DataBitsType
  <2>3. q.len = b.len /\ q.ones = b.ones
    BY <1>1, <2>2 DEF Inline
  <2> QED BY <1>1, <2>1, <2>3, InlineWellFormed
<1>2. ASSUME NEW c \in 1 .. MaxWords, q = Heap(b.len, c, b.ones)
      PROVE  WellFormed(q) /\ q.len = b.len /\ q.ones = b.ones
  <2>1. b.len <= c * WordSize
    BY <1>2 DEF RepsOf, capacity, Heap
  <2>2. b.ones \cap Words(0, words_for(b.len)) = b.ones
    <3> DEFINE hi == words_for(b.len) * WordSize
    <3>1. hi \in Nat /\ b.len <= hi
      BY WordsForBounds
    <3>2. Words(0, words_for(b.len)) = 0 .. (hi - 1)
      BY WordSizeType DEF Words
    <3> HIDE DEF hi
    <3> QED BY <3>1, <3>2
  <2>3. c \in 0 .. MaxWords
    BY Bounds
  <2>4. WellFormed(Heap(b.len, c, b.ones))
    BY <2>1, <2>2, <2>3, HeapWellFormed
  <2> QED BY <1>2, <2>2, <2>4 DEF Heap
<1> QED BY <1>1, <1>2 DEF RepsOf

LEMMA OthersAre ==
  ASSUME IInv, NEW q \in Others
  PROVE  WellFormed(q)
<1>1. WellFormed(rep)
  BY DEF IInv
<1>2. PICK b \in Operands \cup {Value(rep)} : q \in RepsOf(b)
  BY DEF Others
<1>3. Value(rep) = Str(Value(rep).len, Value(rep).ones)
  BY <1>1, ValueType DEF Value, Str
<1>4. b.len \in Nat /\ b.ones \subseteq 0 .. (b.len - 1) /\ b = Str(b.len, b.ones)
  BY <1>1, <1>3, Bounds, ValueType
<1> QED BY <1>2, <1>4, RepsOfIs

-----------------------------------------------------------------------------
(* Equality and hash. *)

LEMMA EqIs ==
  ASSUME NEW a, WellFormed(a), NEW b, WellFormed(b)
  PROVE  eq(a, b) <=> a.len = b.len /\ a.ones = b.ones
<1>0. /\ a.len \in Nat /\ a.kind \in {"inline", "heap"} /\ a.ones \subseteq 0 .. (a.len - 1)
      /\ b.len \in Nat /\ b.kind \in {"inline", "heap"} /\ b.ones \subseteq 0 .. (b.len - 1)
      /\ a.kind = "inline" => a.len <= DATA_BITS
      /\ b.kind = "inline" => b.len <= DATA_BITS
  BY RepType
<1>1. CASE a.len # b.len
  BY <1>1 DEF eq
<1>2. CASE a.len = b.len /\ a.kind = b.kind /\ a.kind = "inline"
  BY <1>2 DEF eq
<1>3. CASE a.len = b.len /\ a.kind = "heap" /\ b.kind = "heap"
  <2>1. eq(a, b) <=> InitWords(a) = InitWords(b)
    BY <1>3 DEF eq
  <2>2. ASSUME a.ones = b.ones PROVE InitWords(a) = InitWords(b)
    BY <1>3, <2>2 DEF InitWords
  <2>3. ASSUME InitWords(a) = InitWords(b) PROVE a.ones = b.ones
    <3> DEFINE n == words_for(a.len)
    <3>1. n \in Nat /\ a.ones \subseteq Words(0, n) /\ b.ones \subseteq Words(0, n)
      BY <1>0, <1>3, WordsForBounds, InsideWords
    <3>2. ASSUME NEW i \in 0 .. (n - 1) PROVE WordAt(a.ones, i) = WordAt(b.ones, i)
      <4>1. InitWords(a)[i] = WordAt(a.ones, i) /\ InitWords(b)[i] = WordAt(b.ones, i)
        BY <1>3 DEF InitWords
      <4> QED BY <2>3, <4>1
    <3> HIDE DEF n
    <3>3. a.ones \subseteq b.ones
      BY <3>1, <3>2, WordsDetermine
    <3>4. b.ones \subseteq a.ones
      BY <3>1, <3>2, WordsDetermine
    <3> QED BY <3>3, <3>4
  <2> QED BY <1>3, <2>1, <2>2, <2>3
<1>4. CASE a.len = b.len /\ a.kind # b.kind
  <2>1. eq(a, b) <=> (a.len # 0 => first_word_init(a) = first_word_init(b))
    BY <1>0, <1>4 DEF eq
  <2>2. CASE a.len = 0
    <3>1. a.ones = {} /\ b.ones = {}
      BY <1>0, <1>4, <2>2
    <3> QED BY <1>4, <2>1, <2>2, <3>1
  <2>3. CASE a.len # 0
    <3>1. a.len > 0 /\ a.len <= DATA_BITS /\ b.len > 0 /\ b.len <= DATA_BITS
      BY <1>0, <1>4, <2>3
    <3>2. first_word_init(a) = a.ones /\ first_word_init(b) = b.ones
      BY <1>4, <2>3, <3>1, OneWord DEF first_word_init
    <3> QED BY <1>4, <2>1, <2>3, <3>2
  <2> QED BY <2>2, <2>3
<1> QED BY <1>0, <1>1, <1>2, <1>3, <1>4

(* Two lists are equal exactly when they are the same string, inline or on *)
(* the heap and whatever their capacity: eq of wrapper.rs, which compares  *)
(* whole words, may do so because of the zeros beyond the length.          *)
THEOREM EqualityIsOfStrings == Spec => []EqIsSameString
<1>1. IInv => EqIsSameString
  <2> SUFFICES ASSUME IInv, NEW q \in Others PROVE eq(rep, q) <=> Value(rep) = Value(q)
    BY DEF EqIsSameString
  <2>1. WellFormed(rep) /\ WellFormed(q)
    BY OthersAre DEF IInv
  <2>2. /\ Value(rep) = Str(rep.len, rep.ones) /\ Value(rep).len = rep.len
        /\ Value(rep).ones = rep.ones
        /\ Value(q) = Str(q.len, q.ones) /\ Value(q).len = q.len /\ Value(q).ones = q.ones
    BY <2>1, ValueType DEF Value, Str
  <2>3. Value(rep) = Value(q) <=> rep.len = q.len /\ rep.ones = q.ones
    BY <2>2
  <2> QED BY <2>1, <2>3, EqIs
<1> QED BY <1>1, SpecIInv, PTL

(* Equal lists that are not empty write the same to a hasher, also when    *)
(* one is inline and the other on the heap.                                *)
THEOREM EqualListsHashAlike == Spec => []EqualHashAlike
<1>1. ASSUME NEW r, WellFormed(r), r.len > 0
      PROVE  hash(r) = <<r.len, InitWords(r)>>
  <2>1. CASE r.kind = "heap"
    BY <2>1 DEF hash
  <2>2. CASE r.kind # "heap"
    <3>1. words_for(r.len) = 1 /\ WordAt(r.ones, 0) = r.ones
      BY <1>1, <2>2, RepType, OneWord
    <3>2. InitWords(r) = [i \in {0} |-> r.ones]
      <4>1. 0 .. (1 - 1) = {0}
        OBVIOUS
      <4> QED BY <3>1, <4>1 DEF InitWords
    <3> QED BY <2>2, <3>2 DEF hash
  <2> QED BY <2>1, <2>2
<1>2. IInv => EqualHashAlike
  <2> SUFFICES ASSUME IInv, NEW q \in Others, eq(rep, q), rep.len > 0
               PROVE  hash(rep) = hash(q)
    BY DEF EqualHashAlike
  <2>1. WellFormed(rep) /\ WellFormed(q)
    BY OthersAre DEF IInv
  <2>2. rep.len = q.len /\ rep.ones = q.ones
    BY <2>1, EqIs
  <2>3. InitWords(rep) = InitWords(q)
    BY <2>2 DEF InitWords
  <2> QED BY <1>1, <2>1, <2>2, <2>3
<1> QED BY <1>2, SpecIInv, PTL

-----------------------------------------------------------------------------
(* Digits. *)

(* The conversion to decimal never looks at a digit outside the list it    *)
(* has made, for every length whose digits' room can be counted in a word: *)
(* the window of step i, j of unsigned_binary_to_bcd (ops.rs:260-272) lies *)
(* below the size given by bcd_size_for_bits (heap.rs:495).                *)
THEOREM DigitsAlwaysFit == \A n \in Nat : DigitsFit(n)
<1>1. SUFFICES ASSUME NEW n \in Nat, n >= 4,
                      NEW i \in 0 .. (n - 4), NEW j \in 0 .. (i \div 3)
               PROVE  /\ DigitAt(n, i, j) >= 0
                      /\ DigitAt(n, i, j) + 4 <= bcd_size_for_bits(n)
  BY DEF DigitsFit
<1>2. i \in Nat /\ j \in Nat /\ 3 * j <= i /\ i <= n - 4
  BY <1>1
<1>3. DigitAt(n, i, j) = n - i + 4 * j - 3
  BY DEF DigitAt
<1>4. DigitAt(n, i, j) >= 0
  BY <1>1, <1>2, <1>3
<1>5. 3 * ((n - 4) \div 3) >= n - 4 - 2 /\ (n - 4) \div 3 \in Int
  BY <1>1
<1>6. bcd_size_for_bits(n) = n + (n - 4) \div 3 + 1
  BY <1>1 DEF bcd_size_for_bits
<1>7. 4 * j - i <= (n - 4) \div 3
  BY <1>2, <1>5
<1>8. DigitAt(n, i, j) + 4 <= bcd_size_for_bits(n)
  BY <1>1, <1>2, <1>3, <1>5, <1>6, <1>7
<1>9. QED
  BY <1>4, <1>8

-----------------------------------------------------------------------------
(* The arithmetic.  Its calls leave a well-formed list, however they end.  *)

Whole(S) == \A o \in S : WellFormed(o.rep)

LEMMA WholeOutcomes ==
  ASSUME NEW r, WellFormed(r), NEW x
  PROVE  Whole({Returns(r, x)}) /\ Whole({Panics(r)}) /\ Whole({Aborts(r)})
BY Fields DEF Whole

(* Whatever has been computed, the bits beyond the length are cut off. *)
LEMMA LeftWhole ==
  ASSUME NEW r, WellFormed(r), NEW q, NEW c, NEW f
  PROVE  WellFormed(assign_for_each_carry(r, q, c, f).rep)
<1> DEFINE done == for_each_carry(words_for(r.len), r.ones, q.ones, c, f)
           word == Applied(f, c, r.ones, first_word_init(q))
<1>0. /\ r.len \in Nat /\ r.cap \in 0 .. MaxWords /\ r.kind \in {"inline", "heap"}
      /\ r.kind = "inline" => r.len <= DATA_BITS
      /\ r.kind = "heap" => r.len <= r.cap * WordSize
  BY RepType
<1>1. assign_for_each_carry(r, q, c, f)
        = IF r.len = 0 THEN Left(r, c, {})
          ELSE IF r.kind = "inline" THEN InlineCarry(r, word) ELSE HeapCarry(r, done)
  BY DEF assign_for_each_carry
<1> HIDE DEF done, word
<1>2. WellFormed(Left(r, c, {}).rep)
  BY DEF Left
<1>3. ASSUME r.kind = "inline" PROVE WellFormed(InlineCarry(r, word).rep)
  <2>1. WellFormed(Inline(r.len, word.word \cap (0 .. (r.len - 1))))
    BY <1>0, <1>3, InlineWellFormed
  <2> QED BY <2>1 DEF InlineCarry, Left
<1>4. ASSUME r.kind = "heap", r.len > 0 PROVE WellFormed(HeapCarry(r, done).rep)
  <2>1. WellFormed(Heap(r.len, r.cap, MaskLast(done.memory, r.len)))
    BY <1>0, <1>4, MaskLastInside, HeapWellFormed
  <2> QED BY <2>1 DEF HeapCarry, Left
<1> QED BY <1>0, <1>1, <1>2, <1>3, <1>4

LEMMA GoodIsWhole ==
  ASSUME NEW S, \A o \in S : Good(o)
  PROVE  Whole(S)
BY DEF Good, Whole

LEMMA AssignWhole ==
  ASSUME NEW r, WellFormed(r), NEW q, NEW k
  PROVE  /\ Whole(assign_or(r, q)) /\ Whole(assign_and(r, q)) /\ Whole(assign_xor(r, q))
         /\ Whole(assign_not(r)) /\ Whole(assign_umul_scalar(r, k))
<1>1. \A p, c, f : Whole({Returns(assign_for_each_carry(r, p, c, f).rep, "done")})
  BY LeftWhole, WholeOutcomes
<1>2. Whole({Panics(r)})
  BY WholeOutcomes
<1> QED
  BY <1>1, <1>2 DEF assign_or, assign_and, assign_xor, assign_not, assign_umul_scalar,
                    unary_for_each_carry, Matched

LEMMA OverflowingWhole ==
  ASSUME NEW r, WellFormed(r), NEW q, NEW op
  PROVE  /\ Whole(assign_add_overflow(r, q)) /\ Whole(assign_sub_overflow(r, q))
         /\ Whole(Overflowing(op, r, q))
<1>1. \A c, f : Whole({Flagged(assign_for_each_carry(r, q, c, f))})
  BY LeftWhole, WholeOutcomes DEF Flagged
<1>2. Whole({Panics(r)})
  BY WholeOutcomes
<1> QED BY <1>1, <1>2 DEF Overflowing, assign_add_overflow, assign_sub_overflow, Matched

LEMMA ClonedWhole ==
  ASSUME NEW r, WellFormed(r), NEW q, NEW op
  PROVE  Whole(wrapping(r, q, op)) /\ Whole(checked(r, q, op))
<1>1. \A o \in Stopped(clone(r)) : WellFormed([o EXCEPT !.rep = r].rep)
  <2>1. \A o \in clone(r) : [o EXCEPT !.rep = r].rep = r
    BY DEF clone, Returns, Aborts
  <2> QED BY <2>1 DEF Stopped
<1>2. ASSUME NEW p \in Onward(clone(r))
      PROVE  /\ Whole(Returning(Overflowing(op, p, q), "done"))
             /\ Whole({IF o.ret = "overflow" THEN Returns(r, "overflow") ELSE Returns(o.rep, "done") :
                         o \in Overflowing(op, p, q)})
  <2>1. WellFormed(p)
    BY <1>2, CloneGood, Split
  <2>2. Whole(Overflowing(op, p, q))
    BY <2>1, OverflowingWhole
  <2>3. Whole(Returning(Overflowing(op, p, q), "done"))
    BY <2>2, Fields DEF Whole, Returning, Stopped, Onward
  <2>4. ASSUME NEW o \in Overflowing(op, p, q)
        PROVE  WellFormed((IF o.ret = "overflow" THEN Returns(r, "overflow")
                           ELSE Returns(o.rep, "done")).rep)
    BY <2>2, Fields DEF Whole
  <2> QED BY <2>3, <2>4 DEF Whole
<1>3. Whole({Returns(r, "none")}) /\ Whole({Returns(r, "differ")})
  BY WholeOutcomes
<1>4. Whole(wrapping(r, q, op))
  BY <1>1, <1>2, <1>3 DEF Whole, wrapping, Cloned
<1>5. Whole(checked(r, q, op))
  BY <1>1, <1>2, <1>3 DEF Whole, checked, Cloned
<1> QED BY <1>4, <1>5

LEMMA OperatorWhole ==
  ASSUME NEW r, WellFormed(r), NEW q, NEW op
  PROVE  Whole(operator(r, q, op))
<1>1. ASSUME NEW o \in Overflowing(op, r, q)
      PROVE  WellFormed((IF o.end # "return" THEN o
                         ELSE IF DebugBuild /\ o.ret = "overflow" THEN Panics(o.rep)
                         ELSE Returns(o.rep, "done")).rep)
  BY OverflowingWhole, Fields DEF Whole
<1> QED BY <1>1 DEF Whole, operator

(* An integer is masked, or it is no longer than the list. *)
LEMMA FromTruncWhole ==
  ASSUME NEW r, WellFormed(r), NEW k, NEW n \in Nat
  PROVE  Whole(from_trunc_u64(r, k, n)) /\ Whole(from_trunc_u128(r, k, n))
<1>1. ASSUME NEW last \in Int, NEW size \in Int, size <= last + 1
      PROVE  Whole(from_trunc(r, k, n, last, size))
  <2>1. ASSUME n <= DATA_BITS PROVE Whole({Returns(new_masked(Truncated(k, WordSize), n), "done")})
    BY <2>1, MaskedWellFormed, WholeOutcomes
  <2> DEFINE most == IF n > last THEN size ELSE n
  <2>2. most \in Int /\ most <= n
    BY <1>1
  <2> HIDE DEF most
  <2>3. Truncated(k, most) \subseteq 0 .. (most - 1)
    BY DEF Truncated
  <2>4. Truncated(k, most) \subseteq 0 .. (n - 1)
    BY <2>2, <2>3
  <2>5. Whole(with_capacity(r, n, Truncated(k, most)))
    BY <2>4, WithCapacityGood, GoodIsWhole
  <2> QED BY <2>1, <2>5 DEF from_trunc, most
<1>2. LongBits \in Int /\ WideBits \in Int
  BY NumbersAssumption
<1>3. Whole(from_trunc(r, k, n, LongBits, LongBits))
  BY <1>1, <1>2
<1>4. Whole(from_trunc(r, k, n, WideBits - 1, WideBits))
  BY <1>1, <1>2
<1>5. Whole(with_capacity(r, n, {}))
  BY WithCapacityGood, GoodIsWhole
<1>6. ASSUME NEW o \in with_capacity(r, n, {})
      PROVE  WellFormed((IF DebugBuild /\ o.end = "return" THEN Panics(r) ELSE o).rep)
  BY <1>5, Fields DEF Whole
<1>7. Whole(from_trunc_u64(r, k, n))
  BY <1>3, <1>6 DEF Whole, from_trunc_u64
<1> QED BY <1>4, <1>7 DEF from_trunc_u128

LEMMA FromLeBytesWhole ==
  ASSUME NEW r, WellFormed(r), NEW b, b.len \in Nat, b.ones \subseteq 0 .. (b.len - 1)
  PROVE  Whole(from_le_bytes(r, b))
<1>1. Whole({Returns(NO_BITS, "done")})
  <2>1. 0 <= DATA_BITS
    BY DataBitsType
  <2>2. WellFormed(NO_BITS)
    BY <2>1, InlineWellFormed DEF NO_BITS
  <2> QED BY <2>2, WholeOutcomes
<1>2. ASSUME b.len <= DATA_BITS PROVE Whole({Returns(Inline(b.len, b.ones), "done")})
  BY <1>2, InlineWellFormed, WholeOutcomes
<1>3. Whole(with_capacity(r, b.len, b.ones))
  BY WithCapacityGood, GoodIsWhole
<1> QED BY <1>1, <1>2, <1>3 DEF from_le_bytes

(* The digits of a short text fill its bits and no more; those of a long   *)
(* one are masked in the last word.                                        *)
LEMMA ParseWhole ==
  ASSUME NEW r, WellFormed(r), NEW t \in Texts, NEW size \in {1, 4}
  PROVE  Whole(parse(r, t, size))
<1> DEFINE n == Len(t) * size
           memory == UNION {Up(try_collect_bits(t, size, k), k * WordSize) : k \in 0 .. words_for(n)}
           made == IF n <= DATA_BITS THEN {Returns(Inline(n, memory), "done")}
                   ELSE with_capacity(r, n, MaskLast(memory, n))
<1>1. Len(t) \in Nat /\ n \in Nat
  <2>1. Len(t) \in Nat
    BY NumbersAssumption
  <2> QED BY <2>1
<1>2. ASSUME NEW k \in 0 .. words_for(n), NEW x \in Up(try_collect_bits(t, size, k), k * WordSize)
      PROVE  x \in Nat /\ (x < DATA_BITS => x < n)
  <2> DEFINE each == WordSize \div size
             digit(j) == IF j < Len(t) THEN Truncated(t[Len(t) - j], size) ELSE {}
  <2>1. each \in Nat /\ k \in Nat
    <3>1. WordSize \div 1 \in Nat /\ WordSize \div 4 \in Nat
      BY WordSizeType
    <3>2. each \in Nat
      BY <3>1
    <3>3. words_for(n) \in Nat
      BY <1>1, WordsForBounds
    <3> QED BY <3>2, <3>3
  <2>2. PICK y \in try_collect_bits(t, size, k) : x = y + k * WordSize
    BY DEF Up
  <2>3. PICK j \in 0 .. (each - 1) : y \in Up(digit(k * each + j), size * j)
    BY <2>2 DEF try_collect_bits
  <2>4. PICK z \in digit(k * each + j) : y = z + size * j
    BY <2>3 DEF Up
  <2>5. k * each + j < Len(t) /\ z \in 0 .. (size - 1)
    BY <2>4 DEF Truncated
  <2>6. y \in Nat
    BY <2>3, <2>4, <2>5
  <2>7. CASE k = 0
    <3>1. j < Len(t)
      BY <2>1, <2>3, <2>5, <2>7
    <3>2. y < n
      BY <1>1, <2>3, <2>4, <2>5, <3>1
    <3>3. x = y
      BY <2>2, <2>6, <2>7, WordSizeType
    <3> QED BY <2>6, <3>2, <3>3
  <2>8. CASE k # 0
    <3>1. k * WordSize \in Nat /\ 1 * WordSize <= k * WordSize
      BY <2>1, <2>8, WordSizeType, TimesMono, TimesNext
    <3>2. x \in Nat /\ x >= WordSize
      BY <2>2, <2>6, <3>1, WordSizeType
    <3> QED BY <3>2, DataBitsType, WordSizeType
  <2> QED BY <2>7, <2>8
<1> HIDE DEF n
<1>3. memory \cap (0 .. (DATA_BITS - 1)) \subseteq 0 .. (n - 1)
  BY <1>1, <1>2, DataBitsType
<1> HIDE DEF memory
<1>4. ASSUME n <= DATA_BITS PROVE Whole({Returns(Inline(n, memory), "done")})
  <2>1. WellFormed(Inline(n, memory \cap (0 .. (DATA_BITS - 1))))
    BY <1>1, <1>3, <1>4, InlineWellFormed
  <2>2. Inline(n, memory \cap (0 .. (DATA_BITS - 1))) = Inline(n, memory)
    BY DEF Inline
  <2> QED BY <2>1, <2>2, WholeOutcomes
<1>5. ASSUME ~(n <= DATA_BITS) PROVE Whole(with_capacity(r, n, MaskLast(memory, n)))
  <2>1. n > 0
    BY <1>1, <1>5, DataBitsType
  <2> QED BY <1>1, <2>1, MaskLastInside, WithCapacityGood, GoodIsWhole
<1>6. Whole(made)
  BY <1>4, <1>5
<1>7. parse(r, t, size) \subseteq made \cup {Returns(r, "err")}
  BY DEF parse, n, memory
<1> QED BY <1>6, <1>7, WholeOutcomes DEF Whole

LEMMA CallWhole ==
  ASSUME NEW op, NEW a, NEW S, Whole(S), Call(op, a, S)
  PROVE  WellFormed(rep')
BY DEF Whole, Call

NumbersInv == WellFormed(rep)

LEMMA NumbersKeep == NumbersInv /\ [NumbersNext]_vars => NumbersInv'
<1> SUFFICES ASSUME WellFormed(rep), [NumbersNext]_vars PROVE WellFormed(rep')
  BY DEF NumbersInv, WellFormed
<1>1. CASE AssignOr \/ AssignAnd \/ AssignXor
  BY <1>1, AssignWhole, CallWhole DEF AssignOr, AssignAnd, AssignXor
<1>2. CASE AssignNot \/ AssignUmulScalar
  BY <1>2, AssignWhole, CallWhole DEF AssignNot, AssignUmulScalar
<1>3. CASE AssignAdd \/ AssignSub
  BY <1>3, OverflowingWhole, CallWhole DEF AssignAdd, AssignSub
<1>4. CASE WrappingAdd \/ WrappingSub \/ CheckedAdd \/ CheckedSub
  BY <1>4, ClonedWhole, CallWhole DEF WrappingAdd, WrappingSub, CheckedAdd, CheckedSub
<1>5. CASE AddAssign \/ SubAssign
  BY <1>5, OperatorWhole, CallWhole DEF AddAssign, SubAssign
<1>6. CASE FromTrunc
  <2>1. PICK op \in {"from_trunc_u64", "from_trunc_u128"}, k \in Scalars, n \in Lengths :
          Call(op, <<k, n>>, IF op = "from_trunc_u64" THEN from_trunc_u64(rep, k, n)
                                                       ELSE from_trunc_u128(rep, k, n))
    BY <1>6 DEF FromTrunc
  <2>2. n \in Nat
    BY NumbersAssumption
  <2> QED BY <2>1, <2>2, FromTruncWhole, CallWhole
<1>7. CASE FromLeBytes
  <2>1. PICK b \in Operands : Call("from_le_bytes", <<b>>, from_le_bytes(rep, b))
    BY <1>7 DEF FromLeBytes
  <2>2. Whole(from_le_bytes(rep, b))
    BY Bounds, FromLeBytesWhole
  <2> QED BY <2>1, <2>2, CallWhole
<1>8. CASE Parse
  <2>1. PICK t \in Texts, size \in {1, 4} : Call("parse", <<t, size>>, parse(rep, t, size))
    BY <1>8 DEF Parse
  <2> QED BY <2>1, ParseWhole, CallWhole
<1>9. CASE UNCHANGED vars
  BY <1>9 DEF vars
<1> QED BY <1>1, <1>2, <1>3, <1>4, <1>5, <1>6, <1>7, <1>8, <1>9 DEF NumbersNext

LEMMA OtherIs ==
  ASSUME NEW q \in Other
  PROVE  WellFormed(q)
<1>1. PICK b \in Operands : q \in RepsOf(b)
  BY DEF Other
<1> QED BY <1>1, Bounds, RepsOfIs

LEMMA SpecNumbersInv == NumbersSpec => []NumbersInv
<1>1. NumbersInit => NumbersInv
  BY OtherIs DEF NumbersInit, NumbersInv
<1> QED BY <1>1, NumbersKeep, PTL DEF NumbersSpec

(* What the arithmetic computes beyond the length of a list never stays    *)
(* there (the masks at the end of util.rs:13-59 and of the constructors),  *)
(* and the list still fits its block: the words that eq, hash and the      *)
(* orders compare may be compared after it too.                            *)
THEOREM ArithmeticLeavesNoTrailingBits == NumbersSpec => [](TrailingBitsZero /\ FitsCapacity)
<1>1. NumbersInv => TrailingBitsZero /\ FitsCapacity
  BY RepType DEF NumbersInv, TrailingBitsZero, FitsCapacity, capacity
<1> QED BY <1>1, SpecNumbersInv, PTL

(* In every list the arithmetic leaves, and in those up to four times as   *)
(* long, the conversion to decimal looks at no digit outside the list it   *)
(* has made: the unwrap of ops.rs:268 never panics.                        *)
THEOREM NoDigitOutside == NumbersSpec => []BcdFits
<1>1. NumbersInv => BcdFits
  <2> SUFFICES ASSUME NumbersInv, NEW n \in rep.len .. 4 * rep.len PROVE DigitsFit(n)
    BY DEF BcdFits
  <2>1. n \in Nat
    BY RepType DEF NumbersInv
  <2> QED BY <2>1, DigitsAlwaysFit
<1> QED BY <1>1, SpecNumbersInv, PTL

-----------------------------------------------------------------------------
(* Slices. *)

(* A part cut from a heap list is the slice of its string. *)
LEMMA RangeIs ==
  ASSUME NEW r, WellFormed(r), r.kind = "heap",
         NEW s \in Nat, NEW e \in Nat, s <= e, e <= r.len, NEW q \in get_range(r, s, e)
  PROVE  /\ WellFormed(q) /\ q.len = e - s
         /\ q.ones = {i - s : i \in {j \in r.ones : j >= s}} \cap (0 .. (e - s - 1))
<1> DEFINE b == Slice(Value(r), s, e)
<1>1. r.len \in Nat /\ Value(r).ones = r.ones
  BY RepType, ValueType
<1>2. b = Str(e - s, {i - s : i \in {j \in r.ones : j >= s}} \cap (0 .. (e - s - 1)))
  BY <1>1, StrFields DEF Slice, Take, Drop
<1> HIDE DEF b
<1>3. b.len = e - s /\ b.len \in Nat /\ b.ones \subseteq 0 .. (b.len - 1)
  BY <1>2, StrFields
<1>4. get_range(r, s, e) = Onward(from_bits(r, b))
  <2>1. ~is_invalid_range(s, e, r.len)
    BY <1>1 DEF is_invalid_range
  <2> QED BY <2>1 DEF get_range, b
<1>5. \A o \in from_bits(r, b) : Good(o)
  BY <1>3, FromBitsGood
<1>6. PICK o \in from_bits(r, b) : o.rep = q /\ o.end = "return"
  BY <1>4, <1>5, Split
<1>7. Gives(o, Str(b.len, b.ones), "done")
  BY <1>3, <1>6, FromBitsGive, Fields
<1>8. q.len = b.len /\ q.ones = b.ones
  BY <1>6, <1>7, StrFields DEF Gives
<1>9. WellFormed(q)
  BY <1>5, <1>6 DEF Good
<1> QED BY <1>2, <1>3, <1>8, <1>9, StrFields

(* concat appends the second list to a copy of the first. *)
LEMMA ConcatJoins ==
  ASSUME NEW r, WellFormed(r), NEW q, WellFormed(q), NEW o \in concat(r, q), o.end = "return"
  PROVE  /\ WellFormed(o.rep) /\ o.rep.len = r.len + q.len
         /\ o.rep.ones = r.ones \cup Up(q.ones, r.len)
<1>1. Value(q).len = q.len /\ q.len \in Nat
      /\ Value(q).ones = q.ones /\ Value(q).ones \subseteq 0 .. (Value(q).len - 1)
  BY ValueType
<1>2. PICK p \in Onward(clone(r)) : o \in push_bits(p, Value(q))
  BY DEF concat, Stopped
<1>3. \A c \in clone(r) : Good(c)
  BY CloneGood
<1>4. PICK c \in clone(r) : c.rep = p /\ c.end = "return"
  BY <1>2, <1>3, Split
<1>5. Gives(c, Str(r.len, r.ones), "done")
  BY <1>4, CopiesGive, Fields
<1>6. p.len = r.len /\ p.ones = r.ones
  BY <1>4, <1>5, StrFields DEF Gives
<1>7. WellFormed(p)
  BY <1>3, <1>4 DEF Good
<1>8. Good(o)
  BY <1>1, <1>2, <1>7, PushBitsGood
<1>9. o.rep.len = p.len + Value(q).len /\ o.rep.ones = p.ones \cup Up(Value(q).ones, p.len)
  BY <1>1, <1>2, <1>7, PushBitsIs
<1> QED BY <1>1, <1>6, <1>8, <1>9 DEF Good

(* A heap list that is cut anywhere, each part taking the form its length  *)
(* asks for, and put together again is the list (get_range, heap.rs:421,   *)
(* and concat, ops.rs:516), for every list the arithmetic leaves.          *)
THEOREM CutListsRejoin == NumbersSpec => []PartsRejoin
<1>1. ASSUME NumbersInv, rep.kind = "heap", NEW i \in 0 .. rep.len,
             NEW low \in get_range(rep, 0, i), NEW high \in get_range(rep, i, rep.len),
             NEW o \in concat(low, high), o.end = "return"
      PROVE  eq(o.rep, rep)
  <2>1. WellFormed(rep) /\ rep.len \in Nat /\ rep.ones \subseteq 0 .. (rep.len - 1)
    BY <1>1, RepType DEF NumbersInv
  <2>2. WellFormed(low) /\ low.len = i - 0
        /\ low.ones = {j - 0 : j \in {h \in rep.ones : h >= 0}} \cap (0 .. (i - 0 - 1))
    BY <1>1, <2>1, RangeIs
  <2>3. WellFormed(high) /\ high.len = rep.len - i
        /\ high.ones = {j - i : j \in {h \in rep.ones : h >= i}} \cap (0 .. (rep.len - i - 1))
    BY <1>1, <2>1, RangeIs
  <2>4. low.len = i /\ low.ones = rep.ones \cap (0 .. (i - 1))
    BY <2>1, <2>2
  <2>5. Up(high.ones, i) = {h \in rep.ones : h >= i}
    <3>1. high.ones = {j - i : j \in {h \in rep.ones : h >= i}}
      BY <2>1, <2>3
    <3>2. ASSUME NEW h \in rep.ones, h >= i PROVE h \in Up(high.ones, i)
      <4>1. h - i \in high.ones /\ h = (h - i) + i
        BY <2>1, <3>1, <3>2
      <4> QED BY <4>1 DEF Up
    <3>3. ASSUME NEW x \in Up(high.ones, i) PROVE x \in rep.ones /\ x >= i
      <4>1. PICK y \in high.ones : x = y + i
        BY DEF Up
      <4>2. PICK h \in rep.ones : h >= i /\ y = h - i
        BY <3>1, <4>1
      <4>3. x = h
        BY <2>1, <4>1, <4>2
      <4> QED BY <4>2, <4>3
    <3> QED BY <3>2, <3>3
  <2>6. /\ WellFormed(o.rep) /\ o.rep.len = low.len + high.len
        /\ o.rep.ones = low.ones \cup Up(high.ones, low.len)
    BY <1>1, <2>2, <2>3, ConcatJoins
  <2>7. o.rep.len = rep.len
    BY <2>1, <2>3, <2>4, <2>6
  <2>8. o.rep.ones = rep.ones
    BY <2>1, <2>4, <2>5, <2>6
  <2> QED BY <2>1, <2>6, <2>7, <2>8, EqIs
<1>2. NumbersInv => PartsRejoin
  BY <1>1 DEF PartsRejoin
<1> QED BY <1>2, SpecNumbersInv, PTL

(* The bits of r after the first k of q have been put in at index i. *)
PutOnes(r, i, q, k) == (r.ones \ (i .. (i + k - 1))) \cup {i + j : j \in q.ones \cap (0 .. (k - 1))}

(* A step of the loop of set_at on the heap, and its steps as a function. *)
Put(p, i, q, k) == Onward(set(p, i + k - 1, k - 1 \in q.ones))

Puts(f, r, i, q, n) ==
  f = [k \in 0 .. n |-> IF k = 0 THEN {r} ELSE UNION {Put(p, i, q, k) : p \in f[k - 1]}]

(* There is such a function: step k needs only step k - 1. *)
LEMMA PutsExists ==
  ASSUME NEW r, NEW i, NEW q, NEW n \in Nat
  PROVE  \E f : Puts(f, r, i, q, n)
<1> DEFINE S == {m \in Nat : \E f : Puts(f, r, i, q, m)}
<1>1. 0 \in S
  <2> DEFINE f == [k \in 0 .. 0 |-> {r}]
  <2>1. Puts(f, r, i, q, 0)
    <3>1. \A k \in 0 .. 0 : k = 0
      OBVIOUS
    <3> QED BY <3>1 DEF Puts
  <2> HIDE DEF f
  <2> QED BY <2>1
<1>2. ASSUME NEW m \in Nat, m \in S PROVE m + 1 \in S
  <2>1. PICK f : Puts(f, r, i, q, m)
    BY <1>2
  <2> DEFINE step(h, k) == IF k = 0 THEN {r} ELSE UNION {Put(p, i, q, k) : p \in h[k - 1]}
             g == [k \in 0 .. (m + 1) |-> step(f, k)]
  <2>2. f = [k \in 0 .. m |-> step(f, k)]
    BY <2>1 DEF Puts
  <2>3. ASSUME NEW k \in 0 .. (m + 1) PROVE step(f, k) = step(g, k)
    <3>1. CASE k = 0
      BY <3>1
    <3>2. CASE k # 0
      <4>1. k - 1 \in 0 .. m /\ k - 1 \in 0 .. (m + 1)
        BY <3>2
      <4> HIDE DEF step
      <4>2. g[k - 1] = step(f, k - 1) /\ f[k - 1] = step(f, k - 1)
        BY <2>2, <4>1
      <4>3. g[k - 1] = f[k - 1]
        BY <4>2
      <4> HIDE DEF g
      <4> QED BY <4>3 DEF step
    <3> QED BY <3>1, <3>2
  <2> HIDE DEF step
  <2>4. g = [k \in 0 .. (m + 1) |-> step(g, k)]
    <3>1. \A k \in 0 .. (m + 1) : step(f, k) = step(g, k)
      BY <2>3
    <3> DEFINE h == [k \in 0 .. (m + 1) |-> step(g, k)]
    <3>2. g = h
      <4> HIDE DEF g
      <4>1. [k \in 0 .. (m + 1) |-> step(f, k)] = h
        BY <3>1
      <4> QED BY <4>1 DEF g
    <3> QED BY <3>2
  <2> HIDE DEF g
  <2>5. Puts(g, r, i, q, m + 1)
    BY <2>4 DEF Puts, step
  <2> QED BY <2>5
<1>3. Nat \subseteq S
  <2> HIDE DEF S
  <2> QED BY <1>1, <1>2, Induction
<1> QED BY <1>3

(* One step: the bit k of q is put in. *)
LEMMA PutNext ==
  ASSUME NEW r, WellFormed(r), NEW i \in Nat, NEW q, WellFormed(q), i + q.len <= r.len,
         NEW k \in 1 .. q.len,
         NEW p, WellFormed(p), p.len = r.len, p.ones = PutOnes(r, i, q, k - 1)
  PROVE  \E w : /\ Put(p, i, q, k) = {w}
                /\ WellFormed(w) /\ w.len = r.len /\ w.ones = PutOnes(r, i, q, k)
<1> USE DEF Put
<1> DEFINE at == i + k - 1
           one == k - 1 \in q.ones
           w == Written(p, IF one THEN p.ones \cup {at} ELSE p.ones \ {at})
<1>1. /\ r.len \in Nat /\ q.len \in Nat /\ q.ones \subseteq 0 .. (q.len - 1)
      /\ r.ones \subseteq 0 .. (r.len - 1)
  BY RepType
<1>2. at \in Nat /\ at < p.len /\ k - 1 \in Nat
  BY <1>1
<1>3. set(p, at, one) = {Returns(w, BitAt(Value(p), at))}
  BY <1>1, <1>2 DEF set
<1>4. Onward(set(p, at, one)) = {w}
  <2> HIDE DEF w
  <2>1. Returns(w, BitAt(Value(p), at)).end = "return" /\ Returns(w, BitAt(Value(p), at)).rep = w
    BY Fields
  <2> QED BY <1>3, <2>1 DEF Onward, Stopped
<1>5. WellFormed(w)
  <2>1. one \in BOOLEAN
    OBVIOUS
  <2> HIDE DEF w, at, one
  <2>2. \A o \in set(p, at, one) : Good(o)
    BY <1>2, <2>1, SetGood
  <2> QED BY <1>3, <2>2, Fields DEF Good
<1>6. w.len = p.len /\ w.ones = IF one THEN p.ones \cup {at} ELSE p.ones \ {at}
  BY WrittenFields
<1>7. i .. (i + k - 1) = (i .. (i + (k - 1) - 1)) \cup {at}
  BY <1>1
<1>8. CASE one
  <2>1. q.ones \cap (0 .. (k - 1)) = (q.ones \cap (0 .. (k - 1 - 1))) \cup {k - 1}
    BY <1>1, <1>8
  <2>2. {i + j : j \in q.ones \cap (0 .. (k - 1))}
          = {i + j : j \in q.ones \cap (0 .. (k - 1 - 1))} \cup {i + (k - 1)}
    BY <2>1
  <2>3. i + (k - 1) = at
    BY <1>1
  <2>4. PutOnes(r, i, q, k) = PutOnes(r, i, q, k - 1) \cup {at}
    BY <1>7, <2>2, <2>3 DEF PutOnes
  <2> HIDE DEF w
  <2> QED BY <1>4, <1>5, <1>6, <1>8, <2>4
<1>9. CASE ~one
  <2>1. q.ones \cap (0 .. (k - 1)) = q.ones \cap (0 .. (k - 1 - 1))
    BY <1>1, <1>9
  <2>2. at \notin {i + j : j \in q.ones \cap (0 .. (k - 1 - 1))}
    BY <1>1
  <2>3. PutOnes(r, i, q, k) = PutOnes(r, i, q, k - 1) \ {at}
    BY <1>7, <2>1, <2>2 DEF PutOnes
  <2> HIDE DEF w
  <2> QED BY <1>4, <1>5, <1>6, <1>9, <2>3
<1> QED BY <1>8, <1>9

LEMMA HeapSetAtIs ==
  ASSUME NEW r, WellFormed(r), NEW i \in Nat, NEW q, WellFormed(q), i + q.len <= r.len
  PROVE  \E w : /\ heap_set_at(r, i, q) = {w}
                /\ WellFormed(w) /\ w.len = r.len /\ w.ones = PutOnes(r, i, q, q.len)
<1> DEFINE put == CHOOSE f : Puts(f, r, i, q, q.len)
           S == {k \in Nat : k <= q.len =>
                   \E w : /\ put[k] = {w}
                          /\ WellFormed(w) /\ w.len = r.len /\ w.ones = PutOnes(r, i, q, k)}
<1>1. r.len \in Nat /\ q.len \in Nat
  BY RepType
<1>2. Puts(put, r, i, q, q.len)
  BY <1>1, PutsExists
<1>3. heap_set_at(r, i, q) = put[q.len]
  BY <1>1 DEF heap_set_at, Puts, Put
<1> HIDE DEF put
<1>4. \A k \in 0 .. q.len :
        put[k] = IF k = 0 THEN {r} ELSE UNION {Put(p, i, q, k) : p \in put[k - 1]}
  BY <1>2 DEF Puts
<1>5. 0 \in S
  <2>1. put[0] = {r}
    <3>1. 0 \in 0 .. q.len
      BY <1>1
    <3>2. put[0] = IF 0 = 0 THEN {r} ELSE UNION {Put(p, i, q, 0) : p \in put[0 - 1]}
      BY <1>4, <3>1, Zenon
    <3> QED BY <3>2
  <2>2. r.ones = PutOnes(r, i, q, 0)
    <3>1. i .. (i + 0 - 1) = {} /\ 0 .. (0 - 1) = {}
      OBVIOUS
    <3> QED BY <3>1 DEF PutOnes
  <2> QED BY <2>1, <2>2
<1>6. ASSUME NEW k \in Nat, k \in S PROVE k + 1 \in S
  <2> SUFFICES ASSUME k + 1 <= q.len
               PROVE  \E w : /\ put[k + 1] = {w}
                             /\ WellFormed(w) /\ w.len = r.len /\ w.ones = PutOnes(r, i, q, k + 1)
    OBVIOUS
  <2>1. PICK p : put[k] = {p} /\ WellFormed(p) /\ p.len = r.len /\ p.ones = PutOnes(r, i, q, k)
    BY <1>1, <1>6
  <2>2. k + 1 \in 1 .. q.len /\ k + 1 \in 0 .. q.len /\ k + 1 - 1 = k /\ k + 1 # 0
    BY <1>1
  <2>3. PICK w : /\ Put(p, i, q, k + 1) = {w}
                 /\ WellFormed(w) /\ w.len = r.len /\ w.ones = PutOnes(r, i, q, k + 1)
    BY <2>1, <2>2, PutNext
  <2>4. put[k + 1] = UNION {Put(h, i, q, k + 1) : h \in {p}}
    BY <1>4, <2>1, <2>2
  <2>5. put[k + 1] = {w}
    BY <2>3, <2>4
  <2> QED BY <2>3, <2>5
<1>7. Nat \subseteq S
  <2> HIDE DEF S
  <2> QED BY <1>5, <1>6, Induction
<1> QED BY <1>1, <1>3, <1>7

LEMMA InlineSetAtIs ==
  ASSUME NEW r, WellFormed(r), r.kind = "inline", NEW i \in Nat, NEW q, WellFormed(q),
         i + q.len <= r.len
  PROVE  \E w : /\ inline_set_at(r, i, q) = {w}
                /\ w.len = r.len /\ w.ones = PutOnes(r, i, q, q.len)
<1> DEFINE mask == Up(0 .. (q.len - 1), i)
           m == (r.ones \ mask) \cup (Up(q.ones, i) \cap mask)
<1>1. /\ r.len \in Nat /\ q.len \in Nat /\ q.ones \subseteq 0 .. (q.len - 1)
      /\ r.ones \subseteq 0 .. (r.len - 1) /\ r.len <= DATA_BITS
  BY RepType
<1>2. inline_set_at(r, i, q) = {Inline(r.len, m)}
  BY <1>1 DEF inline_set_at, Some
<1>3. mask = i .. (i + q.len - 1)
  <2>1. ASSUME NEW x \in i .. (i + q.len - 1) PROVE x \in mask
    <3>1. x - i \in 0 .. (q.len - 1) /\ x = (x - i) + i
      BY <1>1
    <3> QED BY <3>1 DEF Up
  <2>2. mask \subseteq i .. (i + q.len - 1)
    BY <1>1 DEF Up
  <2> QED BY <2>1, <2>2
<1>4. Up(q.ones, i) = {i + j : j \in q.ones} /\ q.ones \subseteq Int
  BY <1>1, UpIs
<1>5. q.ones \cap (0 .. (q.len - 1)) = q.ones
  BY <1>1
<1>6. Up(q.ones, i) \subseteq i .. (i + q.len - 1)
  BY <1>1 DEF Up
<1>7. m = PutOnes(r, i, q, q.len)
  BY <1>3, <1>4, <1>5, <1>6 DEF PutOnes
<1>8. m \subseteq 0 .. (DATA_BITS - 1)
  BY <1>1, <1>6, DataBitsType
<1> HIDE DEF m
<1>9. Inline(r.len, m).len = r.len /\ Inline(r.len, m).ones = m
  BY <1>8 DEF Inline
<1> QED BY <1>2, <1>7, <1>9

(* set_at puts a list at an index and changes no other bit, or does        *)
(* nothing when it does not fit, whether the bits are moved in at once     *)
(* (inline.rs:150) or one after the other (heap.rs:429).                   *)
THEOREM SetAtChangesNoOtherBit == NumbersSpec => []SetAtOverwrites
<1>1. ASSUME NumbersInv, NEW q \in Other, NEW i \in 0 .. MaxLen,
             rep.kind = "inline" => q.kind = "inline"
      PROVE  IF i + q.len > rep.len THEN set_at(rep, i, q) = None
             ELSE /\ set_at(rep, i, q) # None
                  /\ \A p \in set_at(rep, i, q) :
                       p.ones = Overwrite(Value(rep), i, Value(q)).ones /\ p.len = rep.len
  <2>1. /\ WellFormed(rep) /\ WellFormed(q) /\ i \in Nat
        /\ rep.len \in Nat /\ q.len \in Nat /\ rep.kind \in {"inline", "heap"}
        /\ q.ones \subseteq 0 .. (q.len - 1)
    BY <1>1, OtherIs, RepType, Bounds DEF NumbersInv
  <2>2. CASE i + q.len > rep.len
    BY <2>2 DEF set_at, inline_set_at, heap_set_at
  <2>3. CASE ~(i + q.len > rep.len)
    <3>1. i + q.len <= rep.len
      BY <2>1, <2>3
    <3>2. \E w : set_at(rep, i, q) = {w} /\ w.len = rep.len /\ w.ones = PutOnes(rep, i, q, q.len)
      <4>1. CASE rep.kind = "inline"
        BY <2>1, <3>1, <4>1, InlineSetAtIs DEF set_at
      <4>2. CASE rep.kind # "inline"
        BY <2>1, <3>1, <4>2, HeapSetAtIs DEF set_at
      <4> QED BY <4>1, <4>2
    <3>3. Overwrite(Value(rep), i, Value(q)).ones = PutOnes(rep, i, q, q.len)
      <4>1. /\ Value(rep).ones = rep.ones /\ Value(q).ones = q.ones /\ Value(q).len = q.len
        BY <2>1, ValueType
      <4>2. q.ones \cap (0 .. (q.len - 1)) = q.ones
        BY <2>1
      <4> QED BY <4>1, <4>2, StrFields DEF Overwrite, PutOnes
    <3> QED BY <2>3, <3>2, <3>3 DEF None
  <2> QED BY <2>2, <2>3
<1>2. NumbersInv => SetAtOverwrites
  BY <1>1 DEF SetAtOverwrites
<1> QED BY <1>2, SpecNumbersInv, PTL
=============================================================================
