--------------------------- MODULE WordBitsProofs ---------------------------
(***************************************************************************)
(* Proofs about WordBits, for every word size: whatever lies in a word     *)
(* beyond its count, it is the queue of bits WordBitsSpec promises.        *)
(***************************************************************************)
EXTENDS WordBits, BitWordsProofs

LOCAL INSTANCE FiniteSetsExt

(* A word of bits, with anything beyond its count. *)
WordOK(w) ==
  /\ w = WordBits(w.value, w.count)
  /\ w.value \subseteq Bit
  /\ w.count \in 0 .. WordSize

IInv == WordOK(word)

-----------------------------------------------------------------------------
(* Words and strings. *)

LEMMA SameStr ==
  /\ \A n, s : Str(n, s).len = n /\ Str(n, s).ones = s
  /\ \A m, n, s, t : m = n /\ s = t => Str(m, s) = Str(n, t)
BY DEF Str

LEMMA Fields == \A v, n : WordBits(v, n).value = v /\ WordBits(v, n).count = n
BY DEF WordBits

LEMMA HeldIs ==
  ASSUME NEW w, w.count \in 0 .. WordSize
  PROVE  /\ raw(w) = w.value \cap (0 .. (w.count - 1))
         /\ Held(w) = Str(w.count, raw(w)) /\ Held(w).len = w.count /\ Held(w).ones = raw(w)
BY MaskUpTo, SameStr DEF raw, Held

LEMMA HeldOf ==
  ASSUME NEW v, NEW c \in 0 .. WordSize
  PROVE  Held(WordBits(v, c)) = Str(c, v \cap (0 .. (c - 1)))
<1> DEFINE w == WordBits(v, c)
<1>1. w.value = v /\ w.count = c
  BY Fields
<1> HIDE DEF w
<1>2. raw(w) = v \cap (0 .. (c - 1)) /\ Held(w) = Str(c, raw(w))
  BY <1>1, HeldIs
<1> QED BY <1>2 DEF w

LEMMA OperandsOK ==
  ASSUME NEW b \in Operands
  PROVE  WordOK(b)
<1>1. PICK v \in Values, n \in Numbers \cap (0 .. WordSize) : b = WordBits(v, n)
  BY DEF Operands
<1>2. v \subseteq Bit
  BY WordBitsAssumption
<1> QED BY <1>1, <1>2, Fields DEF WordOK

(* WordBitsSpec has its own copy of the operators on strings.              *)
LEMMA SameStrings ==
  /\ Abstract!NoBits = NoBits
  /\ \A n, v : Abstract!Constant(n, v) = Constant(n, v)
  /\ \A a, b : Abstract!Concat(a, b) = Concat(a, b)
  /\ \A a, n : Abstract!Take(a, n) = Take(a, n) /\ Abstract!Drop(a, n) = Drop(a, n)
  /\ \A a, i : Abstract!BitAt(a, i) = BitAt(a, i)
  /\ \A a : Abstract!LastBit(a) = LastBit(a)
  /\ \A n, s : Abstract!Str(n, s) = Str(n, s)
  /\ \A x, y : Abstract!Least(x, y) = least(x, y)
BY DEF Abstract!NoBits, Abstract!Constant, Abstract!Concat, Abstract!Take, Abstract!Drop,
       Abstract!BitAt, Abstract!LastBit, Abstract!Str, Abstract!Least, NoBits, Constant,
       Concat, Take, Drop, BitAt, LastBit, Str, least

-----------------------------------------------------------------------------
(* The first bit that is looked for. *)

LEMMA TrailingIs ==
  ASSUME NEW w, w \subseteq Bit, NEW v \in BOOLEAN
  PROVE  /\ trailing(w, v) \in 0 .. WordSize
         /\ trailing(w, v) < WordSize => (trailing(w, v) \in w <=> v)
         /\ \A i \in 0 .. (trailing(w, v) - 1) : i \in w <=> ~v
<1> DEFINE S == IF v THEN w ELSE Bit \ w
           t == trailing(w, v)
<1>1. t = IF S = {} THEN WordSize ELSE Min(S)
  BY DEF trailing
<1>2. S \subseteq Bit /\ \A i \in Bit : i \in S <=> (i \in w <=> v)
  OBVIOUS
<1> HIDE DEF S, t
<1>3. CASE S = {}
  <2>1. t = WordSize
    BY <1>1, <1>3
  <2> QED BY <1>2, <1>3, <2>1, WordSizeType DEF Bit, t
<1>4. CASE S # {}
  <2>1. S \subseteq Nat
    BY <1>2, WordSizeType DEF Bit
  <2>2. \E x \in S : \A y \in S : x <= y
    BY <1>4, <2>1, Least
  <2>3. Min(S) \in S /\ \A y \in S : Min(S) <= y
    BY <2>2, Zenon DEF Min
  <2>4. t \in S /\ \A y \in S : t <= y
    BY <1>1, <1>4, <2>3
  <2>5. t \in Bit /\ \A i \in 0 .. (t - 1) : i \in Bit /\ i \notin S
    BY <1>2, <2>4, WordSizeType DEF Bit
  <2>6. \A i \in 0 .. (t - 1) : i \in w <=> ~v
    BY <1>2, <2>5
  <2> QED BY <1>2, <2>4, <2>5, <2>6, WordSizeType DEF Bit, t
<1> QED BY <1>3, <1>4

LEMMA FirstBit ==
  ASSUME NEW w, WordOK(w), NEW v \in BOOLEAN
  PROVE  LET S == {i \in 0 .. (w.count - 1) : (i \in raw(w)) = v}
         IN  first_bit_value(w, v) = {i \in S : \A j \in S : i <= j}
<1> DEFINE c == w.count
           t == trailing(w.value, v)
           S == {i \in 0 .. (c - 1) : (i \in raw(w)) = v}
<1>1. c \in 0 .. WordSize /\ w.value \subseteq Bit
  BY DEF WordOK
<1>2. t \in 0 .. WordSize /\ (t < WordSize => (t \in w.value <=> v))
      /\ \A i \in 0 .. (t - 1) : i \in w.value <=> ~v
  BY <1>1, TrailingIs
<1>3. first_bit_value(w, v) = IF t >= c THEN {} ELSE {t}
  BY DEF first_bit_value, None, Some
<1>4. \A i \in 0 .. (c - 1) : i \in S <=> (i \in w.value <=> v)
  BY <1>1, HeldIs
<1>5. S \subseteq 0 .. (c - 1)
  OBVIOUS
<1> HIDE DEF t, S, c
<1>6. CASE t >= c
  <2>1. S = {}
    BY <1>1, <1>2, <1>4, <1>5, <1>6
  <2> QED BY <1>3, <1>6, <2>1 DEF S, c
<1>7. CASE ~(t >= c)
  <2>1. t \in 0 .. (c - 1) /\ t < WordSize
    BY <1>1, <1>2, <1>7, WordSizeType
  <2>2. t \in S
    BY <1>2, <1>4, <2>1
  <2>3. ASSUME NEW i \in S PROVE t <= i
    <3>1. i \in 0 .. (c - 1) /\ ~(i \in 0 .. (t - 1))
      BY <1>2, <1>4, <1>5
    <3> QED BY <2>1, <3>1
  <2>4. ASSUME NEW i \in S, i <= t PROVE i = t
    BY <1>5, <2>1, <2>3, <2>4
  <2>5. {i \in S : \A j \in S : i <= j} = {t}
    BY <2>2, <2>3, <2>4
  <2> QED BY <1>3, <1>7, <2>5 DEF S, c
<1> QED BY <1>6, <1>7

LEMMA SameHeld ==
  ASSUME NEW w, WordOK(w), NEW z, WordOK(z)
  PROVE  /\ same_word_bits(w, z) <=> Held(w) = Held(z)
         /\ Held(w) = Held(z) => word_bits_hash(w) = word_bits_hash(z)
<1>1. w.count \in 0 .. WordSize /\ z.count \in 0 .. WordSize
  BY DEF WordOK
<1>2. Held(w) = Held(z) <=> w.count = z.count /\ raw(w) = raw(z)
  BY <1>1, HeldIs, SameStr
<1>3. ASSUME w.count = z.count
      PROVE  raw(w) = raw(z) <=> ((w.value \ z.value) \cup (z.value \ w.value)) \cap last_word_mask(w.count) = {}
  <2>1. raw(w) = w.value \cap last_word_mask(w.count) /\ raw(z) = z.value \cap last_word_mask(w.count)
    BY <1>3 DEF raw
  <2> QED BY <2>1
<1> QED BY <1>2, <1>3 DEF same_word_bits, word_bits_hash

-----------------------------------------------------------------------------
(* Calls and strings: what a call leaves of a word stands for what         *)
(* WordBitsSpec says of the string.                                        *)

LEMMA LeastIs ==
  ASSUME NEW m \in Nat, NEW n \in Nat
  PROVE  least(m, n) \in Nat /\ least(m, n) <= m /\ least(m, n) <= n /\ least(m, n) \in {m, n}
BY DEF least

LEMMA NewHeld ==
  ASSUME NEW v, v \subseteq Bit, NEW n \in Nat
  PROVE  /\ WordOK(new_word_bits(v, n))
         /\ Held(new_word_bits(v, n)) = Take(Str(WordSize, v), least(n, WordSize))
<1> DEFINE c == least(n, WordSize)
<1>1. c \in 0 .. WordSize
  BY LeastIs, WordSizeType
<1>2. new_word_bits(v, n) = WordBits(v \cap last_word_mask(c), c)
  BY DEF new_word_bits
<1> HIDE DEF c
<1>3. last_word_mask(c) = 0 .. (c - 1)
  BY <1>1, MaskUpTo
<1>4. Held(WordBits(v \cap (0 .. (c - 1)), c)) = Str(c, (v \cap (0 .. (c - 1))) \cap (0 .. (c - 1)))
  BY <1>1, HeldOf
<1>5. Take(Str(WordSize, v), c) = Str(c, v \cap (0 .. (c - 1)))
  BY SameStr DEF Take
<1>6. (v \cap (0 .. (c - 1))) \cap (0 .. (c - 1)) = v \cap (0 .. (c - 1))
  OBVIOUS
<1>7. WordOK(WordBits(v \cap (0 .. (c - 1)), c))
  BY <1>1, Fields DEF WordOK
<1> QED BY <1>2, <1>3, <1>4, <1>5, <1>6, <1>7 DEF c

LEMMA TruncatedHeld ==
  ASSUME NEW w, WordOK(w), NEW n \in Nat
  PROVE  WordOK(truncated(w, n)) /\ Held(truncated(w, n)) = Take(Held(w), least(n, Held(w).len))
<1> DEFINE c == least(w.count, n)
<1>1. w.count \in 0 .. WordSize /\ w.value \subseteq Bit
  BY DEF WordOK
<1>2. c \in 0 .. w.count /\ c \in 0 .. WordSize /\ least(n, w.count) = c
  BY <1>1, WordSizeType DEF least
<1>3. truncated(w, n) = WordBits(w.value, c)
  BY DEF truncated
<1> HIDE DEF c
<1>4. Held(WordBits(w.value, c)) = Str(c, w.value \cap (0 .. (c - 1)))
  BY <1>2, HeldOf
<1>5. Held(w).ones \cap (0 .. (c - 1)) = w.value \cap (0 .. (c - 1)) /\ Held(w).len = w.count
  BY <1>1, <1>2, HeldIs
<1>6. WordOK(WordBits(w.value, c))
  BY <1>1, <1>2, Fields DEF WordOK
<1> QED BY <1>2, <1>3, <1>4, <1>5, <1>6 DEF Take

LEMMA PushedHeld ==
  ASSUME NEW w, WordOK(w), w.count < WordSize, NEW v \in BOOLEAN
  PROVE  LET z == WordBits((w.value \ {w.count}) \cup (IF v THEN {w.count} ELSE {}), w.count + 1)
         IN  WordOK(z) /\ Held(z) = Concat(Held(w), Constant(1, v))
<1> DEFINE c == w.count
           bits == (w.value \ {c}) \cup (IF v THEN {c} ELSE {})
<1>1. c \in 0 .. (WordSize - 1) /\ w.value \subseteq Bit /\ WordSize \in Nat
  BY WordSizeType DEF WordOK
<1>2. bits \subseteq Bit /\ c + 1 \in 0 .. WordSize
  BY <1>1 DEF Bit
<1>3. Held(w).len = c /\ Held(w).ones = w.value \cap (0 .. (c - 1))
  BY <1>1, HeldIs
<1>4. Constant(1, v).len = 1 /\ {c + i : i \in Constant(1, v).ones} = IF v THEN {c} ELSE {}
  <2>1. Constant(1, v).len = 1 /\ Constant(1, v).ones = IF v THEN 0 .. 0 ELSE {}
    BY SameStr DEF Constant
  <2>2. {c + i : i \in 0 .. 0} = {c}
    BY <1>1
  <2> QED BY <2>1, <2>2
<1>5. bits \cap (0 .. ((c + 1) - 1)) = (w.value \cap (0 .. (c - 1))) \cup (IF v THEN {c} ELSE {})
  BY <1>1 DEF Bit
<1>6. Held(WordBits(bits, c + 1)) = Str(c + 1, bits \cap (0 .. ((c + 1) - 1)))
  BY <1>2, HeldOf
<1>7. WordOK(WordBits(bits, c + 1))
  BY <1>2, Fields DEF WordOK
<1> HIDE DEF bits, c
<1>8. Held(WordBits(bits, c + 1)) = Concat(Held(w), Constant(1, v))
  <2>1. Concat(Held(w), Constant(1, v)) = Str(c + 1, Held(w).ones \cup {c + i : i \in Constant(1, v).ones})
    BY <1>3, <1>4 DEF Concat
  <2> QED BY <1>3, <1>4, <1>5, <1>6, <2>1
<1> QED BY <1>7, <1>8 DEF bits, c

(* More bits or-ed in, as many as there is room for. *)
LEMMA MergedIs ==
  ASSUME NEW w, WordOK(w), NEW b, WordOK(b)
  PROVE  /\ Merged(w, b.value) \subseteq Bit
         /\ raw(w) \subseteq Merged(w, b.value)
         /\ w.count < WordSize =>
              \A i \in Bit : i \in Merged(w, b.value) <=> i \in raw(w) \/ i - w.count \in b.value
<1> DEFINE c == w.count
<1>1. c \in 0 .. WordSize /\ w.value \subseteq Bit /\ b.value \subseteq Bit /\ WordSize \in Nat
  BY WordSizeType DEF WordOK
<1>2. raw(w) \subseteq Bit
  BY <1>1 DEF raw
<1>3. Merged(w, b.value) = raw(w) \cup ({i + (c % WordSize) : i \in b.value} \cap Bit)
  BY DEF Merged, Up
<1>4. ASSUME c < WordSize, NEW i \in Bit
      PROVE  i \in {x + (c % WordSize) : x \in b.value} <=> i - c \in b.value
  <2>1. c % WordSize = c
    BY <1>1, <1>4
  <2>2. ASSUME NEW x \in b.value, i = x + c PROVE i - c = x
    BY <1>1, <2>2 DEF Bit
  <2>3. (i - c) + c = i
    BY <1>1 DEF Bit
  <2> QED BY <2>1, <2>2, <2>3
<1> QED BY <1>2, <1>3, <1>4

LEMMA ConcatIs ==
  ASSUME NEW w, WordOK(w), NEW b, WordOK(b)
  PROVE  /\ Concat(Held(w), Held(b)).len = w.count + b.count
         /\ \A i : i \in Concat(Held(w), Held(b)).ones <=>
                     i \in raw(w) \/ (i \in w.count .. (w.count + b.count - 1) /\ i - w.count \in b.value)
<1> DEFINE c == w.count
           n == b.count
           more == {c + i : i \in raw(b)}
<1>1. c \in Nat /\ n \in Nat /\ c \in 0 .. WordSize /\ n \in 0 .. WordSize /\ b.value \subseteq Int
  BY WordSizeType DEF WordOK, Bit
<1>2. Held(w).len = c /\ Held(w).ones = raw(w) /\ Held(b).len = n /\ Held(b).ones = raw(b)
      /\ raw(b) = b.value \cap (0 .. (n - 1))
  BY <1>1, HeldIs
<1>3. Concat(Held(w), Held(b)).len = c + n /\ Concat(Held(w), Held(b)).ones = raw(w) \cup more
  BY <1>2, SameStr DEF Concat
<1>4. \A i : i \in more <=> i \in c .. (c + n - 1) /\ i - c \in b.value
  <2> SUFFICES ASSUME NEW i PROVE i \in more <=> i \in c .. (c + n - 1) /\ i - c \in b.value
    OBVIOUS
  <2>1. ASSUME NEW x \in raw(b), i = c + x PROVE i \in c .. (c + n - 1) /\ i - c \in b.value
    BY <1>1, <1>2, <2>1
  <2>2. ASSUME i \in c .. (c + n - 1), i - c \in b.value PROVE i - c \in raw(b) /\ i = c + (i - c)
    BY <1>1, <1>2, <2>2
  <2> QED BY <2>1, <2>2
<1> QED BY <1>3, <1>4

(* The first f bits of all of them, as the merged word holds them. *)
LEMMA MergedHeld ==
  ASSUME NEW w, WordOK(w), NEW b, WordOK(b), w.count < WordSize,
         NEW f \in 0 .. WordSize, w.count <= f, f <= w.count + b.count
  PROVE  /\ WordOK(WordBits(Merged(w, b.value), f))
         /\ Held(WordBits(Merged(w, b.value), f)) = Take(Concat(Held(w), Held(b)), f)
<1> DEFINE all == Concat(Held(w), Held(b))
           bits == Merged(w, b.value)
<1>1. /\ w.count \in Nat /\ b.count \in Nat /\ WordSize \in Nat /\ raw(w) \subseteq 0 .. (w.count - 1)
  BY WordSizeType, HeldIs DEF WordOK
<1>2. bits \subseteq Bit /\ \A i \in Bit : i \in bits <=> i \in raw(w) \/ i - w.count \in b.value
  BY MergedIs
<1>3. \A i : i \in all.ones <=>
        i \in raw(w) \/ (i \in w.count .. (w.count + b.count - 1) /\ i - w.count \in b.value)
  BY ConcatIs
<1>4. \A i : i \in b.value => i >= 0
  BY WordSizeType DEF WordOK, Bit
<1> HIDE DEF all, bits
<1>5. ASSUME NEW i \in 0 .. (f - 1) PROVE i \in bits <=> i \in all.ones
  <2>1. i \in Bit
    BY <1>1 DEF Bit
  <2>2. CASE i < w.count
    <3>1. i - w.count \notin b.value
      BY <1>1, <1>4, <2>2
    <3> QED BY <1>2, <1>3, <2>1, <3>1
  <2>3. CASE i >= w.count
    <3>1. i \in w.count .. (w.count + b.count - 1)
      BY <1>1, <2>3
    <3> QED BY <1>2, <1>3, <2>1, <3>1
  <2> QED BY <1>1, <2>2, <2>3
<1>6. Held(WordBits(bits, f)) = Str(f, bits \cap (0 .. (f - 1)))
  BY HeldOf
<1>7. bits \cap (0 .. (f - 1)) = all.ones \cap (0 .. (f - 1))
  BY <1>5
<1>8. WordOK(WordBits(bits, f))
  BY <1>2, Fields DEF WordOK
<1> QED BY <1>6, <1>7, <1>8 DEF Take, all, bits

(* Pushed onto a full word they may turn its bits to ones. *)
LEMMA FullHeld ==
  ASSUME NEW w, WordOK(w), w.count = WordSize, NEW b, WordOK(b)
  PROVE  LET z == WordBits(Merged(w, b.value), WordSize)
         IN  /\ WordOK(z)
             /\ \E s \in SUBSET (0 .. (WordSize - 1)) : Held(w).ones \subseteq s /\ Held(z) = Str(WordSize, s)
<1> DEFINE bits == Merged(w, b.value)
<1>1. bits \subseteq 0 .. (WordSize - 1) /\ raw(w) \subseteq bits
  BY MergedIs DEF Bit
<1>2. WordSize \in 0 .. WordSize
  BY WordSizeType
<1> HIDE DEF bits
<1>3. Held(WordBits(bits, WordSize)) = Str(WordSize, bits)
  <2>1. bits \cap (0 .. (WordSize - 1)) = bits
    BY <1>1
  <2> QED BY <1>2, <2>1, HeldOf
<1>4. Held(w).ones = raw(w)
  BY <1>2, HeldIs
<1>5. WordOK(WordBits(bits, WordSize))
  BY <1>1, <1>2, Fields DEF WordOK, Bit
<1> QED BY <1>1, <1>3, <1>4, <1>5 DEF bits

LEMMA OverflowHeld ==
  ASSUME NEW w, WordOK(w), NEW b, WordOK(b)
  PROVE  LET all == Concat(Held(w), Held(b))
         IN  /\ Held(overflow(w, b)) = Drop(all, least(all.len, WordSize))
             /\ w.count = WordSize => Held(overflow(w, b)) = Held(b)
<1> DEFINE all == Concat(Held(w), Held(b))
           c == w.count
           n == b.count
           k == c + n - WordSize
           d == WordSize - c
<1>1. /\ c \in Nat /\ n \in Nat /\ WordSize \in Nat /\ c <= WordSize /\ n <= WordSize
      /\ b.value \subseteq Nat /\ raw(w) \subseteq 0 .. (c - 1)
      /\ Held(b) = Str(n, b.value \cap (0 .. (n - 1)))
  BY WordSizeType, HeldIs DEF WordOK, Bit
<1>2. /\ all.len = c + n
      /\ \A i : i \in all.ones <=> i \in raw(w) \/ (i \in c .. (c + n - 1) /\ i - c \in b.value)
  BY ConcatIs
<1> HIDE DEF all
<1>3. Drop(all, least(all.len, WordSize))
        = Str(all.len - least(all.len, WordSize),
              {i - least(all.len, WordSize) : i \in {j \in all.ones : j >= least(all.len, WordSize)}})
  BY DEF Drop
<1>4. CASE c + n <= WordSize
  <2>1. least(all.len, WordSize) = c + n
    BY <1>1, <1>2, <1>4 DEF least
  <2>2. {j \in all.ones : j >= c + n} = {}
    BY <1>1, <1>2
  <2>3. Drop(all, least(all.len, WordSize)) = Str(0, {})
    <3>1. (c + n) - (c + n) = 0
      BY <1>1
    <3> QED BY <1>2, <1>3, <2>1, <2>2, <3>1
  <2>4. Held(overflow(w, b)) = Str(0, {})
    <3>1. overflow(w, b) = WordBits({}, 0)
      BY <1>4 DEF overflow, EmptyWordBits
    <3>2. 0 \in 0 .. WordSize
      BY <1>1
    <3> QED BY <3>1, <3>2, HeldOf
  <2>5. c = WordSize => Held(b) = Str(0, {})
    <3> SUFFICES ASSUME c = WordSize PROVE Held(b) = Str(0, {})
      OBVIOUS
    <3>1. n = 0
      BY <1>1, <1>4
    <3>2. b.value \cap (0 .. (n - 1)) = {}
      BY <3>1
    <3> QED BY <1>1, <3>1, <3>2
  <2> QED BY <2>3, <2>4, <2>5 DEF all
<1>5. CASE ~(c + n <= WordSize)
  <2>1. least(all.len, WordSize) = WordSize
    BY <1>1, <1>2, <1>5 DEF least
  <2>2. k \in 0 .. WordSize /\ k > 0 /\ d \in Nat /\ k <= n
    BY <1>1, <1>5
  <2> DEFINE left == {i - d : i \in {j \in b.value : j >= d}}
             dropped == {i - WordSize : i \in {j \in all.ones : j >= WordSize}}
  <2>3. Held(overflow(w, b)) = Str(k, left \cap (0 .. (k - 1)))
    <3>1. overflow(w, b) = WordBits(left, k)
      BY <1>5 DEF overflow, Down
    <3> HIDE DEF left, k
    <3> QED BY <2>2, <3>1, HeldOf
  <2>4. Drop(all, least(all.len, WordSize)) = Str(k, dropped)
    <3>1. Drop(all, WordSize) = Str(all.len - WordSize, dropped)
      BY DEF Drop
    <3>2. all.len = c + n
      BY <1>2
    <3>3. all.len - WordSize = k
      BY <1>1, <3>2
    <3> HIDE DEF dropped, k
    <3> QED BY <2>1, <3>1, <3>3
  <2>5. \A x : x \in left <=> x \in Nat /\ x + d \in b.value
    BY <1>1, <2>2
  <2>6. \A x : x \in dropped <=> x \in 0 .. (k - 1) /\ x + d \in b.value
    <3> SUFFICES ASSUME NEW x PROVE x \in dropped <=> x \in 0 .. (k - 1) /\ x + d \in b.value
      OBVIOUS
    <3>1. ASSUME NEW i \in all.ones, i >= WordSize, x = i - WordSize
          PROVE  x \in 0 .. (k - 1) /\ x + d \in b.value
      <4>1. i \in c .. (c + n - 1) /\ i - c \in b.value
        BY <1>1, <1>2, <3>1
      <4>2. x + d = i - c /\ x \in 0 .. (k - 1)
        BY <1>1, <3>1, <4>1
      <4> QED BY <4>1, <4>2
    <3>2. ASSUME x \in 0 .. (k - 1), x + d \in b.value
          PROVE  x + WordSize \in all.ones /\ x + WordSize >= WordSize /\ x = (x + WordSize) - WordSize
      <4>1. x + WordSize \in c .. (c + n - 1) /\ (x + WordSize) - c = x + d
        BY <1>1, <3>2
      <4> QED BY <1>1, <1>2, <3>2, <4>1
    <3> QED BY <3>1, <3>2
  <2>7. c = WordSize => k = n /\ left = b.value
    <3> SUFFICES ASSUME c = WordSize PROVE k = n /\ left = b.value
      OBVIOUS
    <3>1. d = 0 /\ k = n
      BY <1>1
    <3>2. \A x \in b.value : x \in Nat /\ x + 0 = x
      BY <1>1
    <3>3. \A x \in Nat : x + 0 = x
      OBVIOUS
    <3> HIDE DEF left, d
    <3>4. \A x : x \in left <=> x \in b.value
      BY <2>5, <3>1, <3>2, <3>3
    <3> QED BY <3>1, <3>4
  <2> HIDE DEF left, dropped, k, d
  <2>8. left \cap (0 .. (k - 1)) = dropped
    <3>1. 0 .. (k - 1) \subseteq Nat
      OBVIOUS
    <3> QED BY <2>5, <2>6, <3>1
  <2>9. ASSUME c = WordSize PROVE Held(overflow(w, b)) = Held(b)
    BY <1>1, <2>3, <2>7, <2>9
  <2> QED BY <2>3, <2>4, <2>8, <2>9 DEF all
<1> QED BY <1>4, <1>5

LEMMA PoppedHeld ==
  ASSUME NEW w, WordOK(w), NEW n \in Nat, n <= w.count
  PROVE  LET z == WordBits(Down(w.value, n % WordSize), w.count - n)
         IN  /\ WordOK(z) /\ Held(z) = Drop(Held(w), n)
             /\ Held(WordBits(w.value, n)) = Take(Held(w), n)
<1> DEFINE c == w.count
           k == n % WordSize
           low == {i - k : i \in {j \in w.value : j >= k}}
<1>1. c \in 0 .. WordSize /\ w.value \subseteq Bit /\ w.value \subseteq Nat /\ WordSize \in Nat /\ WordSize > 1
  BY WordSizeType DEF WordOK, Bit
<1>2. c - n \in 0 .. WordSize /\ n \in 0 .. WordSize
  BY <1>1
<1>3. k \in Nat /\ (n < WordSize => k = n)
  BY <1>1, DivSplit
<1>4. Held(w).len = c /\ Held(w).ones = w.value \cap (0 .. (c - 1))
  BY <1>1, HeldIs
<1>5. low \subseteq Bit
  <2> HIDE DEF k
  <2>1. ASSUME NEW i \in w.value, i >= k PROVE i - k \in Bit
    BY <1>1, <1>3, <2>1 DEF Bit
  <2> QED BY <2>1
<1>6. low \cap (0 .. (c - n - 1)) = {i - n : i \in {j \in Held(w).ones : j >= n}}
  <2>1. CASE n < WordSize
    <3>1. k = n
      BY <1>3, <2>1
    <3> HIDE DEF k
    <3>2. ASSUME NEW x PROVE x \in low <=> x \in Nat /\ x + n \in w.value
      <4>1. ASSUME NEW i \in w.value, i >= n, x = i - n PROVE x \in Nat /\ x + n = i
        BY <1>1, <4>1
      <4>2. ASSUME x \in Nat PROVE x + n >= n /\ x = (x + n) - n
        BY <4>2
      <4> QED BY <3>1, <4>1, <4>2
    <3>3. ASSUME NEW x
          PROVE  x \in {i - n : i \in {j \in Held(w).ones : j >= n}} <=> x \in 0 .. (c - n - 1) /\ x + n \in w.value
      <4>1. ASSUME NEW i \in Held(w).ones, i >= n, x = i - n
            PROVE  x \in 0 .. (c - n - 1) /\ x + n = i /\ i \in w.value
        BY <1>1, <1>4, <4>1
      <4>2. ASSUME x \in 0 .. (c - n - 1), x + n \in w.value
            PROVE  x + n \in Held(w).ones /\ x + n >= n /\ x = (x + n) - n
        BY <1>1, <1>4, <4>2
      <4> QED BY <4>1, <4>2
    <3> HIDE DEF low
    <3>4. 0 .. (c - n - 1) \subseteq Nat
      OBVIOUS
    <3> QED BY <3>2, <3>3, <3>4
  <2>2. CASE ~(n < WordSize)
    <3>1. 0 .. (c - n - 1) = {}
      BY <1>1, <2>2
    <3>2. {j \in Held(w).ones : j >= n} = {}
      BY <1>1, <1>4, <2>2
    <3> QED BY <3>1, <3>2
  <2> QED BY <2>1, <2>2
<1>7. Held(WordBits(low, c - n)) = Str(c - n, low \cap (0 .. (c - n - 1)))
  <2> HIDE DEF low, c
  <2> QED BY <1>2, HeldOf
<1>8. Held(WordBits(low, c - n)) = Drop(Held(w), n)
  <2>1. Drop(Held(w), n) = Str(Held(w).len - n, {i - n : i \in {j \in Held(w).ones : j >= n}})
    BY DEF Drop
  <2> HIDE DEF low
  <2> QED BY <1>4, <1>6, <1>7, <2>1
<1>9. WordOK(WordBits(low, c - n))
  <2> HIDE DEF low, c
  <2> QED BY <1>2, <1>5, Fields DEF WordOK
<1>10. Held(WordBits(w.value, n)) = Take(Held(w), n)
  <2>1. Held(WordBits(w.value, n)) = Str(n, w.value \cap (0 .. (n - 1)))
    BY <1>2, HeldOf
  <2>2. w.value \cap (0 .. (n - 1)) = Held(w).ones \cap (0 .. (n - 1))
    BY <1>1, <1>4
  <2> QED BY <2>1, <2>2 DEF Take
<1>11. Down(w.value, k) = low
  BY DEF Down
<1> HIDE DEF low
<1> QED BY <1>8, <1>9, <1>10, <1>11

LEMMA LastTakenHeld ==
  ASSUME NEW w, WordOK(w), w.count > 0
  PROVE  LET z == WordBits(w.value \cap (0 .. (w.count - 1 - 1)), w.count - 1)
         IN  /\ WordOK(z) /\ Held(z) = Take(Held(w), w.count - 1)
             /\ Named(w.count - 1 \in w.value) = LastBit(Held(w))
             /\ Named(0 \in w.value) = BitAt(Held(w), 0)
<1> DEFINE c == w.count
           bits == w.value \cap (0 .. (c - 1 - 1))
<1>1. c \in 1 .. WordSize /\ w.value \subseteq Bit /\ c - 1 \in 0 .. WordSize
  BY WordSizeType DEF WordOK
<1>2. Held(w).len = c /\ Held(w).ones = w.value \cap (0 .. (c - 1))
  BY <1>1, HeldIs
<1>3. Held(WordBits(bits, c - 1)) = Str(c - 1, bits \cap (0 .. (c - 1 - 1)))
  BY <1>1, HeldOf
<1>4. bits \cap (0 .. (c - 1 - 1)) = Held(w).ones \cap (0 .. (c - 1 - 1))
  BY <1>1, <1>2
<1>5. WordOK(WordBits(bits, c - 1))
  BY <1>1, Fields DEF WordOK
<1>6. Named(c - 1 \in w.value) = LastBit(Held(w)) /\ Named(0 \in w.value) = BitAt(Held(w), 0)
  BY <1>1, <1>2 DEF Named, LastBit, BitAt
<1> QED BY <1>3, <1>4, <1>5, <1>6 DEF Take

-----------------------------------------------------------------------------
(* Steps. *)

LEMMA HeldIsGiven ==
  /\ \A b \in Operands : Held(b) \in {Held(x) : x \in Operands \cup {WordBits(v, WordSize) : v \in Values}}
  /\ \A v \in Values : Str(WordSize, v) \in {Held(x) : x \in Operands \cup {WordBits(y, WordSize) : y \in Values}}
<1>1. ASSUME NEW v \in Values PROVE Held(WordBits(v, WordSize)) = Str(WordSize, v)
  <2>1. v \subseteq Bit /\ WordSize \in 0 .. WordSize
    BY WordBitsAssumption, WordSizeType
  <2>2. v \cap (0 .. (WordSize - 1)) = v
    BY <2>1 DEF Bit
  <2> QED BY <2>1, <2>2, HeldOf
<1> QED BY <1>1

(* A call on the word is one on the string. *)
LEMMA CallIs ==
  ASSUME NEW name, NEW a, NEW left, NEW result, Calls(name, a, left, result),
         NEW w, Held(left) = w
  PROVE  Abstract!Calls(name, a, w, result) /\ word' = left
<1>1. Held(word)' = Held(word') /\ word' = left
  BY DEF Calls, Held, raw, Str
<1> QED BY <1>1 DEF Calls, Abstract!Calls

LEMMA Implements ==
  ASSUME IInv, Next
  PROVE  IInv' /\ Abstract!Next
<1> DEFINE W == word
<1>1. /\ WordOK(word) /\ word.count \in 0 .. WordSize /\ WordSize \in Nat
      /\ Held(word).len = word.count /\ Held(word).ones = raw(word)
  BY WordSizeType, HeldIs DEF IInv, WordOK
<1>2. CASE New
  <2>1. PICK v \in Values, n \in Numbers : Calls("new", <<Str(WordSize, v), n>>, new_word_bits(v, n), {})
    BY <1>2 DEF New
  <2>2. v \subseteq Bit /\ n \in Nat /\ Str(WordSize, v).len = WordSize
    BY WordBitsAssumption, SameStr
  <2>3. /\ WordOK(new_word_bits(v, n))
        /\ Held(new_word_bits(v, n)) = Take(Str(WordSize, v), least(n, WordSize))
    BY <2>2, NewHeld
  <2>4. /\ Abstract!Calls("new", <<Str(WordSize, v), n>>, Take(Str(WordSize, v), least(n, WordSize)), {})
        /\ word' = new_word_bits(v, n)
    BY <2>1, <2>3, CallIs
  <2>5. Abstract!New
    BY <2>2, <2>4, HeldIsGiven, SameStrings DEF Abstract!New
  <2> QED BY <2>3, <2>4, <2>5 DEF IInv, Abstract!Next
<1>3. CASE Give
  <2>1. PICK b \in Operands : Calls("given", <<Held(b)>>, b, {})
    BY <1>3 DEF Give
  <2>2. Abstract!Calls("given", <<Held(b)>>, Held(b), {}) /\ word' = b
    BY <2>1, CallIs
  <2>3. Abstract!Give
    BY <2>2, HeldIsGiven DEF Abstract!Give
  <2> QED BY <2>2, <2>3, OperandsOK DEF IInv, Abstract!Next
<1>4. CASE Truncate
  <2>1. PICK n \in Numbers : Calls("truncate", <<n>>, truncated(word, n), {})
    BY <1>4 DEF Truncate
  <2>2. WordOK(truncated(word, n)) /\ Held(truncated(word, n)) = Take(Held(word), least(n, Held(word).len))
    BY <1>1, WordBitsAssumption, TruncatedHeld
  <2>3. /\ Abstract!Calls("truncate", <<n>>, Take(Held(word), least(n, Held(word).len)), {})
        /\ word' = truncated(word, n)
    BY <2>1, <2>2, CallIs
  <2>4. Abstract!Truncate
    BY <2>3, SameStrings DEF Abstract!Truncate
  <2> QED BY <2>2, <2>3, <2>4 DEF IInv, Abstract!Next
<1>5. CASE Push
  <2>1. PICK v \in BOOLEAN :
          IF word.count < WordSize
          THEN Calls("push", <<v>>,
                     WordBits((word.value \ {word.count}) \cup (IF v THEN {word.count} ELSE {}), word.count + 1),
                     {TRUE})
          ELSE Calls("push", <<v>>, word, {FALSE})
    BY <1>5 DEF Push
  <2>2. CASE word.count < WordSize
    <3> DEFINE z == WordBits((word.value \ {word.count}) \cup (IF v THEN {word.count} ELSE {}), word.count + 1)
    <3>1. WordOK(z) /\ Held(z) = Concat(Held(word), Constant(1, v))
      BY <1>1, <2>2, PushedHeld
    <3>2. Calls("push", <<v>>, z, {TRUE})
      BY <2>1, <2>2
    <3> HIDE DEF z
    <3>3. Abstract!Calls("push", <<v>>, Concat(Held(word), Constant(1, v)), {TRUE}) /\ word' = z
      BY <3>1, <3>2, CallIs
    <3>4. Held(word).len # WordSize
      BY <1>1, <2>2
    <3>5. Abstract!Push
      BY <3>3, <3>4, SameStrings DEF Abstract!Push, Abstract!Full
    <3> QED BY <3>1, <3>3, <3>5 DEF IInv, Abstract!Next
  <2>3. CASE ~(word.count < WordSize)
    <3>1. Abstract!Calls("push", <<v>>, Held(word), {FALSE}) /\ word' = word
      BY <2>1, <2>3, CallIs
    <3>2. Held(word).len = WordSize
      BY <1>1, <2>3
    <3>3. Abstract!Push
      BY <3>1, <3>2 DEF Abstract!Push, Abstract!Full
    <3> QED BY <1>1, <3>1, <3>3 DEF IInv, Abstract!Next
  <2> QED BY <2>2, <2>3
<1>6. CASE PushBits
  <2>1. PICK b \in Operands :
          Calls("push_bits", <<Held(b)>>, push_bits(word, b), {word.count + b.count <= WordSize})
    BY <1>6 DEF PushBits
  <2>2. WordOK(b) /\ Held(b).len = b.count /\ b.count \in Nat
    BY OperandsOK, HeldIs, WordSizeType DEF WordOK
  <2>3. CASE word.count + b.count > WordSize
    <3>1. push_bits(word, b) = word /\ ~(word.count + b.count <= WordSize)
      BY <1>1, <2>2, <2>3 DEF push_bits
    <3>2. Calls("push_bits", <<Held(b)>>, word, {FALSE})
      <4> DEFINE fits == word.count + b.count <= WordSize
      <4>1. Calls("push_bits", <<Held(b)>>, push_bits(word, b), {fits}) /\ fits \in BOOLEAN /\ ~fits
        BY <2>1, <3>1
      <4> HIDE DEF fits
      <4>2. fits = FALSE
        BY <4>1
      <4> QED BY <3>1, <4>1, <4>2
    <3>3. Abstract!Calls("push_bits", <<Held(b)>>, Held(word), {FALSE}) /\ word' = word
      BY <3>2, CallIs
    <3>4. Abstract!PushBits
      BY <1>1, <2>2, <2>3, <3>3, HeldIsGiven DEF Abstract!PushBits
    <3> QED BY <1>1, <3>3, <3>4 DEF IInv, Abstract!Next
  <2>4. CASE ~(word.count + b.count > WordSize)
    <3> DEFINE z == WordBits(Merged(word, b.value), word.count + b.count)
    <3>1. push_bits(word, b) = z /\ word.count + b.count <= WordSize
      BY <1>1, <2>2, <2>4 DEF push_bits
    <3>2. Calls("push_bits", <<Held(b)>>, z, {TRUE})
      <4> DEFINE fits == word.count + b.count <= WordSize
      <4>1. Calls("push_bits", <<Held(b)>>, push_bits(word, b), {fits}) /\ fits \in BOOLEAN /\ fits
        BY <2>1, <3>1
      <4> HIDE DEF z, fits
      <4>2. fits = TRUE
        BY <4>1
      <4> QED BY <3>1, <4>1, <4>2
    <3>3. CASE word.count < WordSize
      <4> DEFINE f == word.count + b.count
                 all == Concat(Held(word), Held(b))
      <4>1. f \in 0 .. WordSize /\ word.count <= f /\ f <= word.count + b.count
        BY <1>1, <2>2, <3>1
      <4>2. WordOK(z) /\ Held(z) = Take(all, f)
        BY <1>1, <2>2, <3>3, <4>1, MergedHeld
      <4>3. Take(all, f) = all
        <5>1. /\ all.len = f
              /\ \A i : i \in all.ones <=>
                   i \in raw(word) \/ (i \in word.count .. (word.count + b.count - 1) /\ i - word.count \in b.value)
          BY <1>1, <2>2, ConcatIs
        <5>2. raw(word) \subseteq 0 .. (word.count - 1)
          BY <1>1, HeldIs
        <5>3. all = Str(all.len, all.ones)
          BY DEF Concat, Str
        <5> HIDE DEF all
        <5>4. all.ones \subseteq 0 .. (f - 1)
          BY <1>1, <2>2, <5>1, <5>2
        <5>5. all.ones \cap (0 .. (f - 1)) = all.ones
          BY <5>4
        <5> HIDE DEF f
        <5> QED BY <5>1, <5>3, <5>5 DEF Take
      <4> HIDE DEF z, all
      <4>4. Abstract!Calls("push_bits", <<Held(b)>>, all, {TRUE}) /\ word' = z
        BY <3>2, <4>2, <4>3, CallIs
      <4>5. ~(Held(word).len + Held(b).len > WordSize)
        BY <1>1, <2>2, <2>4
      <4>6. Abstract!PushBits
        BY <4>4, <4>5, HeldIsGiven, SameStrings DEF Abstract!PushBits, all
      <4> QED BY <4>2, <4>4, <4>6 DEF IInv, Abstract!Next
    <3>4. CASE ~(word.count < WordSize)
      <4>1. word.count = WordSize /\ word.count + b.count = WordSize
        BY <1>1, <2>2, <3>1, <3>4
      <4>2. z = WordBits(Merged(word, b.value), WordSize)
        BY <4>1
      <4> HIDE DEF z
      <4>3. WordOK(z) /\ \E s \in SUBSET (0 .. (WordSize - 1)) :
              Held(word).ones \subseteq s /\ Held(z) = Str(WordSize, s)
        BY <1>1, <2>2, <4>1, <4>2, FullHeld
      <4>4. PICK s \in SUBSET (0 .. (WordSize - 1)) :
              Held(word).ones \subseteq s /\ Held(z) = Str(WordSize, s)
        BY <4>3
      <4>5. Abstract!Calls("push_bits", <<Held(b)>>, Str(WordSize, s), {TRUE}) /\ word' = z
        BY <3>2, <4>4, CallIs
      <4>6. Abstract!Spoiled("push_bits", <<Held(b)>>, {TRUE})
        BY <4>4, <4>5, SameStrings DEF Abstract!Spoiled
      <4>7. ~(Held(word).len + Held(b).len > WordSize) /\ Held(word).len = WordSize
        BY <1>1, <2>2, <2>4, <4>1
      <4>8. Abstract!PushBits
        BY <4>6, <4>7, HeldIsGiven DEF Abstract!PushBits, Abstract!Full
      <4> QED BY <4>3, <4>5, <4>8 DEF IInv, Abstract!Next
    <3> QED BY <3>3, <3>4
  <2> QED BY <2>3, <2>4
<1>7. CASE PushOverflowing
  <2>1. PICK b \in Operands :
          Calls("push_overflowing", <<Held(b)>>,
                WordBits(Merged(word, b.value), least(word.count + b.count, WordSize)),
                {Held(overflow(word, b))})
    BY <1>7 DEF PushOverflowing
  <2> DEFINE all == Concat(Held(word), Held(b))
             f == least(word.count + b.count, WordSize)
             z == WordBits(Merged(word, b.value), f)
             rest == Held(overflow(word, b))
  <2>2. WordOK(b) /\ b.count \in 0 .. WordSize
    BY OperandsOK DEF WordOK
  <2>3. all.len = word.count + b.count
    BY <1>1, <2>2, ConcatIs
  <2>4. rest = Drop(all, least(all.len, WordSize)) /\ (word.count = WordSize => rest = Held(b))
    BY <1>1, <2>2, OverflowHeld
  <2>5. Calls("push_overflowing", <<Held(b)>>, z, {rest})
    BY <2>1
  <2>6. f \in 0 .. WordSize /\ word.count <= f /\ f <= word.count + b.count /\ f = least(all.len, WordSize)
        /\ (word.count = WordSize => f = WordSize)
    BY <1>1, <2>2, <2>3 DEF least
  <2> HIDE DEF f, rest
  <2>7. CASE word.count < WordSize
    <3>1. WordOK(z) /\ Held(z) = Take(all, f)
      BY <1>1, <2>2, <2>6, <2>7, MergedHeld
    <3> HIDE DEF z, all
    <3>2. Abstract!Calls("push_overflowing", <<Held(b)>>, Take(all, f), {rest}) /\ word' = z
      BY <2>5, <3>1, CallIs
    <3>3. Abstract!Calls("push_overflowing", <<Held(b)>>, Take(all, f), {Drop(all, f)})
      BY <2>4, <2>6, <3>2
    <3>4. Abstract!PushOverflowing
      BY <2>6, <3>3, HeldIsGiven, SameStrings DEF Abstract!PushOverflowing, all
    <3> QED BY <3>1, <3>2, <3>4 DEF IInv, Abstract!Next
  <2>8. CASE ~(word.count < WordSize)
    <3>1. word.count = WordSize /\ f = WordSize /\ rest = Held(b)
      BY <1>1, <2>4, <2>6, <2>8
    <3>2. z = WordBits(Merged(word, b.value), WordSize)
      BY <3>1
    <3> HIDE DEF z, all
    <3>3. WordOK(z) /\ \E s \in SUBSET (0 .. (WordSize - 1)) :
            Held(word).ones \subseteq s /\ Held(z) = Str(WordSize, s)
      BY <1>1, <2>2, <3>1, <3>2, FullHeld
    <3>4. PICK s \in SUBSET (0 .. (WordSize - 1)) :
            Held(word).ones \subseteq s /\ Held(z) = Str(WordSize, s)
      BY <3>3
    <3>5. Abstract!Calls("push_overflowing", <<Held(b)>>, Str(WordSize, s), {Held(b)}) /\ word' = z
      BY <2>5, <3>1, <3>4, CallIs
    <3>6. Abstract!Spoiled("push_overflowing", <<Held(b)>>, {Held(b)})
      BY <3>4, <3>5, SameStrings DEF Abstract!Spoiled
    <3>7. Held(word).len = WordSize
      BY <1>1, <3>1
    <3>8. Abstract!PushOverflowing
      BY <3>6, <3>7, HeldIsGiven DEF Abstract!PushOverflowing, Abstract!Full
    <3> QED BY <3>3, <3>5, <3>8 DEF IInv, Abstract!Next
  <2> QED BY <2>7, <2>8
<1>8. CASE PopFront
  <2>1. PICK n \in Numbers :
          IF n > word.count THEN Calls("pop_front", <<n>>, EmptyWordBits, {Held(word)})
          ELSE IF n = WordSize /\ DebugBuild THEN Panics("pop_front", <<n>>)
          ELSE Calls("pop_front", <<n>>, WordBits(Down(word.value, n % WordSize), word.count - n),
                     {Held(WordBits(word.value, n))})
    BY <1>8 DEF PopFront
  <2>2. n \in Nat
    BY WordBitsAssumption
  <2>3. CASE n > word.count
    <3>1. Calls("pop_front", <<n>>, EmptyWordBits, {Held(word)})
      BY <2>1, <2>3
    <3>2. WordOK(EmptyWordBits) /\ Held(EmptyWordBits) = NoBits
      <4>1. 0 \in 0 .. WordSize /\ {} \cap (0 .. (0 - 1)) = {}
        BY <1>1
      <4>2. Held(WordBits({}, 0)) = Str(0, {})
        BY <4>1, HeldOf
      <4>3. WordOK(WordBits({}, 0))
        BY <4>1, Fields DEF WordOK
      <4> QED BY <4>2, <4>3 DEF EmptyWordBits, NoBits
    <3>3. Abstract!Calls("pop_front", <<n>>, NoBits, {Held(word)}) /\ word' = EmptyWordBits
      BY <3>1, <3>2, CallIs
    <3>4. Abstract!PopFront
      BY <1>1, <2>3, <3>3, SameStrings DEF Abstract!PopFront
    <3> QED BY <3>2, <3>3, <3>4 DEF IInv, Abstract!Next
  <2>4. CASE ~(n > word.count) /\ n = WordSize /\ DebugBuild
    <3>1. Panics("pop_front", <<n>>)
      BY <2>1, <2>4
    <3>2. word' = word /\ Abstract!Panics("pop_front", <<n>>)
      BY <3>1 DEF Panics, Abstract!Panics, Held, raw, Str
    <3>3. Abstract!PopFront
      BY <1>1, <2>4, <3>2 DEF Abstract!PopFront
    <3> QED BY <1>1, <3>2, <3>3 DEF IInv, Abstract!Next
  <2>5. CASE ~(n > word.count) /\ ~(n = WordSize /\ DebugBuild)
    <3> DEFINE z == WordBits(Down(word.value, n % WordSize), word.count - n)
               front == Held(WordBits(word.value, n))
    <3>1. n <= word.count
      BY <1>1, <2>2, <2>5
    <3>2. WordOK(z) /\ Held(z) = Drop(Held(word), n) /\ front = Take(Held(word), n)
      BY <1>1, <2>2, <3>1, PoppedHeld
    <3>3. Calls("pop_front", <<n>>, z, {front})
      BY <2>1, <2>5
    <3> HIDE DEF z, front
    <3>4. Abstract!Calls("pop_front", <<n>>, Drop(Held(word), n), {front}) /\ word' = z
      BY <3>2, <3>3, CallIs
    <3>5. Abstract!PopFront
      BY <1>1, <2>5, <3>2, <3>4, SameStrings DEF Abstract!PopFront
    <3> QED BY <3>2, <3>4, <3>5 DEF IInv, Abstract!Next
  <2> QED BY <2>3, <2>4, <2>5
<1>9. CASE NextBit
  <2>1. CASE word.count = 0
    <3>1. Calls("next", <<>>, word, {})
      BY <1>9, <2>1 DEF NextBit, None
    <3>2. Abstract!Calls("next", <<>>, Held(word), {}) /\ word' = word
      BY <3>1, CallIs
    <3>3. Abstract!NextBit
      BY <1>1, <2>1, <3>2 DEF Abstract!NextBit
    <3> QED BY <1>1, <3>2, <3>3 DEF IInv, Abstract!Next
  <2>2. CASE word.count # 0
    <3> DEFINE z == WordBits(Down(word.value, 1), word.count - 1)
    <3>1. 1 \in Nat /\ 1 <= word.count /\ 1 % WordSize = 1 /\ word.count > 0
      BY <1>1, <2>2, WordSizeType
    <3>2. WordOK(WordBits(Down(word.value, 1 % WordSize), word.count - 1))
          /\ Held(WordBits(Down(word.value, 1 % WordSize), word.count - 1)) = Drop(Held(word), 1)
      BY <1>1, <3>1, PoppedHeld
    <3>3. WordOK(z) /\ Held(z) = Drop(Held(word), 1)
      BY <3>1, <3>2
    <3>4. Named(0 \in word.value) = BitAt(Held(word), 0)
      BY <1>1, <3>1, LastTakenHeld
    <3>5. Calls("next", <<>>, z, {BitAt(Held(word), 0)})
      BY <1>9, <2>2, <3>4 DEF NextBit, Some
    <3> HIDE DEF z
    <3>6. Abstract!Calls("next", <<>>, Drop(Held(word), 1), {BitAt(Held(word), 0)}) /\ word' = z
      BY <3>3, <3>5, CallIs
    <3>7. Abstract!NextBit
      BY <1>1, <2>2, <3>6, SameStrings DEF Abstract!NextBit
    <3> QED BY <3>3, <3>6, <3>7 DEF IInv, Abstract!Next
  <2> QED BY <2>1, <2>2
<1>10. CASE NextBack
  <2>1. CASE word.count = 0
    <3>1. Calls("next_back", <<>>, word, {})
      BY <1>10, <2>1 DEF NextBack, None
    <3>2. Abstract!Calls("next_back", <<>>, Held(word), {}) /\ word' = word
      BY <3>1, CallIs
    <3>3. Abstract!NextBack
      BY <1>1, <2>1, <3>2 DEF Abstract!NextBack
    <3> QED BY <1>1, <3>2, <3>3 DEF IInv, Abstract!Next
  <2>2. CASE word.count # 0
    <3> DEFINE z == WordBits(word.value \cap (0 .. (word.count - 1 - 1)), word.count - 1)
    <3>1. word.count > 0
      BY <1>1, <2>2
    <3>2. /\ WordOK(z) /\ Held(z) = Take(Held(word), word.count - 1)
          /\ Named(word.count - 1 \in word.value) = LastBit(Held(word))
      BY <1>1, <3>1, LastTakenHeld
    <3>3. Calls("next_back", <<>>, z, {LastBit(Held(word))})
      BY <1>10, <2>2, <3>2 DEF NextBack, Some
    <3> HIDE DEF z
    <3>4. Abstract!Calls("next_back", <<>>, Take(Held(word), word.count - 1), {LastBit(Held(word))}) /\ word' = z
      BY <3>2, <3>3, CallIs
    <3>5. Abstract!NextBack
      BY <1>1, <2>2, <3>4, SameStrings DEF Abstract!NextBack
    <3> QED BY <3>2, <3>4, <3>5 DEF IInv, Abstract!Next
  <2> QED BY <2>1, <2>2
<1>11. CASE TryInline
  <2>1. Calls("try_inline", <<>>, word, IF word.count <= DATA_BITS THEN {Held(word)} ELSE {})
    BY <1>11, HeldIs DEF TryInline, Some, None, Held
  <2>2. /\ Abstract!Calls("try_inline", <<>>, Held(word), IF word.count <= DATA_BITS THEN {Held(word)} ELSE {})
        /\ word' = word
    BY <2>1, CallIs
  <2>3. Abstract!TryInline
    BY <1>1, <2>2 DEF Abstract!TryInline
  <2> QED BY <1>1, <2>2, <2>3 DEF IInv, Abstract!Next
<1> QED BY <1>2, <1>3, <1>4, <1>5, <1>6, <1>7, <1>8, <1>9, <1>10, <1>11 DEF Next

LEMMA StartsEmpty == Init => IInv /\ Abstract!Init
<1> SUFFICES ASSUME Init PROVE IInv /\ Abstract!Init
  OBVIOUS
<1>1. word = WordBits({}, 0) /\ 0 \in 0 .. WordSize /\ {} \cap (0 .. (0 - 1)) = {}
  BY WordSizeType DEF Init, EmptyWordBits
<1>2. Held(WordBits({}, 0)) = Str(0, {})
  BY <1>1, HeldOf
<1>3. Held(word) = Abstract!NoBits
  BY <1>1, <1>2, SameStrings DEF NoBits
<1>4. IInv
  BY <1>1, Fields DEF IInv, WordOK
<1> QED BY <1>3, <1>4 DEF Init, Abstract!Init

LEMMA StepsImplement == IInv /\ [Next]_vars => IInv' /\ [Abstract!Next]_(Abstract!vars)
<1>1. ASSUME IInv, UNCHANGED vars PROVE IInv' /\ UNCHANGED Abstract!vars
  BY <1>1 DEF vars, Abstract!vars, IInv, WordOK, WordBits, Held, raw, Str
<1> QED BY <1>1, Implements

LEMMA AlwaysOK == Spec => []IInv
<1>1. Init => IInv
  BY StartsEmpty
<1>2. IInv /\ [Next]_vars => IInv'
  BY StepsImplement
<1> QED BY <1>1, <1>2, PTL DEF Spec

(* For every word size, whatever lies beyond the count of a word and of    *)
(* the words pushed on it, in a debug and a release build: every call does *)
(* to the bits held what WordBitsSpec says (iter.rs:901-1127).             *)
THEOREM WordsAreQueues == Spec => WordPromise
<1>1. Init => Abstract!Init
  BY StartsEmpty
<1>2. IInv /\ [Next]_vars => [Abstract!Next]_(Abstract!vars)
  BY StepsImplement
<1> QED BY <1>1, <1>2, AlwaysOK, PTL DEF Spec, WordPromise, Abstract!Spec

(* What lies beyond the count is not seen by eq, hash nor by the search of *)
(* the first bit (iter.rs:953, 1072-1083).                                 *)
THEOREM GarbageIsIgnored == Spec => []EqIgnoresGarbage
<1>1. IInv => EqIgnoresGarbage
  <2> SUFFICES ASSUME IInv PROVE EqIgnoresGarbage
    OBVIOUS
  <2>1. ASSUME NEW b \in Operands
        PROVE  /\ same_word_bits(word, b) <=> Held(word) = Held(b)
               /\ Held(word) = Held(b) => word_bits_hash(word) = word_bits_hash(b)
    BY OperandsOK, SameHeld DEF IInv
  <2>2. ASSUME NEW v \in BOOLEAN
        PROVE  first_bit_value(word, v) =
                 LET S == {i \in 0 .. (word.count - 1) : (i \in raw(word)) = v}
                 IN  {i \in S : \A j \in S : i <= j}
    BY FirstBit DEF IInv
  <2> QED BY <2>1, <2>2 DEF EqIgnoresGarbage
<1> QED BY <1>1, AlwaysOK, PTL
=============================================================================
