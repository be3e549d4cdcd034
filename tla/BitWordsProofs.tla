--------------------------- MODULE BitWordsProofs ---------------------------
(***************************************************************************)
(* What the index arithmetic of heap.rs:466-521 computes, for every word   *)
(* size.                                                                   *)
(***************************************************************************)
EXTENDS BitWords, TLAPS, WellFoundedInduction

(* A word has at least two bits. *)
LEMMA WordSizeType == WordSize \in Nat /\ WordSize > 1 /\ CountBits \in Nat
BY WordAssumption

(* The inline data takes part of a word. *)
LEMMA DataBitsType == DATA_BITS \in Nat /\ DATA_BITS > 0 /\ DATA_BITS < WordSize
BY WordAssumption DEF DATA_BITS

(* word_index and bit_in_word_index split an index. *)
LEMMA IndexSplit ==
  ASSUME NEW n \in Nat
  PROVE  /\ word_index(n) \in Nat
         /\ bit_in_word_index(n) \in 0 .. (WordSize - 1)
         /\ n = word_index(n) * WordSize + bit_in_word_index(n)
BY WordSizeType DEF word_index, bit_in_word_index

(* Products with the word size, for the solver. *)
LEMMA TimesNext ==
  ASSUME NEW k \in Int, NEW w \in Int
  PROVE  (k + 1) * w = k * w + w /\ (k - 1) * w = k * w - w /\ k * w \in Int
OBVIOUS

LEMMA TimesMono ==
  ASSUME NEW i \in Int, NEW j \in Int, NEW w \in Nat, i <= j
  PROVE  i * w <= j * w
<1>1. PICK d \in Nat : j = i + d
  <2>1. j - i \in Nat /\ j = i + (j - i)
    OBVIOUS
  <2> QED BY <2>1
<1>2. j * w = i * w + d * w
  BY <1>1
<1>3. d * w \in Nat
  OBVIOUS
<1> QED BY <1>2, <1>3

(* words_for(n) words are the fewest that hold n bits. *)
LEMMA WordsForBounds ==
  ASSUME NEW n \in Nat
  PROVE  /\ words_for(n) \in Nat
         /\ words_for(n) * WordSize \in Nat
         /\ n <= words_for(n) * WordSize
         /\ words_for(n) * WordSize < n + WordSize
<1> DEFINE k == word_index(n)
           b == bit_in_word_index(n)
<1>1. k \in Nat /\ b \in 0 .. (WordSize - 1) /\ n = k * WordSize + b
  BY IndexSplit
<1>2. (k + 1) * WordSize = k * WordSize + WordSize /\ k * WordSize \in Int
  BY <1>1, TimesNext, WordSizeType
<1>3. words_for(n) = k + (IF b # 0 THEN 1 ELSE 0)
  BY DEF words_for
<1> HIDE DEF k, b
<1>4. CASE b = 0
  <2>1. words_for(n) = k
    BY <1>1, <1>3, <1>4
  <2> QED BY <2>1, <1>1, <1>2, <1>4, WordSizeType
<1>5. CASE b # 0
  <2>1. words_for(n) = k + 1
    BY <1>1, <1>3, <1>5
  <2> QED BY <2>1, <1>1, <1>2, <1>5, WordSizeType
<1> QED BY <1>4, <1>5

(* They fit in c words exactly when the n bits do. *)
LEMMA WordsForLeast ==
  ASSUME NEW n \in Nat, NEW c \in Nat
  PROVE  words_for(n) <= c <=> n <= c * WordSize
<1>1. words_for(n) \in Nat /\ n <= words_for(n) * WordSize
      /\ words_for(n) * WordSize < n + WordSize
  BY WordsForBounds
<1>2. ASSUME words_for(n) <= c PROVE n <= c * WordSize
  <2>1. words_for(n) * WordSize <= c * WordSize
    BY <1>1, <1>2, TimesMono, WordSizeType
  <2> QED BY <1>1, <2>1, WordSizeType, TimesNext
<1>3. ASSUME c < words_for(n) PROVE c * WordSize < n
  <2>1. c * WordSize <= (words_for(n) - 1) * WordSize
    BY <1>1, <1>3, TimesMono, WordSizeType
  <2>2. (words_for(n) - 1) * WordSize = words_for(n) * WordSize - WordSize
    BY <1>1, TimesNext, WordSizeType
  <2> QED BY <1>1, <2>1, <2>2, WordSizeType, TimesNext
<1>4. c * WordSize \in Int
  BY TimesNext, WordSizeType
<1> QED BY <1>1, <1>2, <1>3, <1>4

(* More bits never need fewer words. *)
LEMMA WordsForMonotone ==
  ASSUME NEW m \in Nat, NEW n \in Nat, m <= n
  PROVE  words_for(m) <= words_for(n)
<1>1. words_for(n) \in Nat /\ n <= words_for(n) * WordSize
      /\ words_for(n) * WordSize \in Nat
  BY WordsForBounds
<1>2. m <= words_for(n) * WordSize
  BY <1>1
<1> QED BY <1>1, <1>2, WordsForLeast

LEMMA WordsForZero == words_for(0) = 0
<1>1. words_for(0) \in Nat
  BY WordsForBounds
<1>2. 0 * WordSize = 0
  BY WordSizeType
<1>3. words_for(0) <= 0
  BY <1>2, WordsForLeast
<1> QED BY <1>1, <1>3

LEMMA WordsForPositive ==
  ASSUME NEW n \in Nat, n > 0
  PROVE  words_for(n) \in Nat /\ words_for(n) > 0
<1>1. words_for(n) \in Nat
  BY WordsForBounds
<1>2. 0 * WordSize = 0
  BY WordSizeType
<1>3. ~(words_for(n) <= 0)
  BY <1>2, WordsForLeast
<1> QED BY <1>1, <1>3

(* last_word_mask(n) covers the bits of the last word that are below n.    *)
LEMMA LastWordMask ==
  ASSUME NEW n \in Nat, n > 0
  PROVE  Up(last_word_mask(n), (words_for(n) - 1) * WordSize)
           = ((words_for(n) - 1) * WordSize) .. (n - 1)
<1> DEFINE k == word_index(n)
           b == bit_in_word_index(n)
           base == (words_for(n) - 1) * WordSize
<1>1. k \in Nat /\ b \in 0 .. (WordSize - 1) /\ n = k * WordSize + b
  BY IndexSplit
<1>2. words_for(n) = k + (IF b # 0 THEN 1 ELSE 0)
  BY DEF words_for
<1>3. last_word_mask(n) = IF b = 0 THEN 0 .. (WordSize - 1) ELSE 0 .. (b - 1)
  BY DEF last_word_mask, Bit
<1> HIDE DEF k, b
<1>4. base \in Int /\ \E t \in Int : last_word_mask(n) = 0 .. (t - 1) /\ base + t = n
  <2>1. CASE b = 0
    <3>1. (k - 1) * WordSize = k * WordSize - WordSize
      BY <1>1, TimesNext, WordSizeType
    <3>2. base = k * WordSize - WordSize
      BY <1>1, <1>2, <2>1, <3>1
    <3> HIDE DEF base
    <3> QED BY <1>1, <1>3, <2>1, <3>2, WordSizeType, TimesNext
  <2>2. CASE b # 0
    <3>1. base = k * WordSize
      BY <1>1, <1>2, <2>2
    <3> HIDE DEF base
    <3> QED BY <1>1, <1>3, <2>2, <3>1, WordSizeType, TimesNext
  <2> QED BY <2>1, <2>2
<1> HIDE DEF base
<1>5. PICK t \in Int : last_word_mask(n) = 0 .. (t - 1) /\ base + t = n
  BY <1>4
<1>6. Up(0 .. (t - 1), base) = base .. (base + t - 1)
  <2>1. ASSUME NEW x \in base .. (base + t - 1) PROVE x \in Up(0 .. (t - 1), base)
    <3>1. x - base \in 0 .. (t - 1) /\ x = (x - base) + base
      BY <1>4, <2>1
    <3> QED BY <3>1 DEF Up
  <2>2. ASSUME NEW x \in Up(0 .. (t - 1), base) PROVE x \in base .. (base + t - 1)
    BY <1>4, <2>2 DEF Up
  <2> QED BY <2>1, <2>2
<1>7. Up(last_word_mask(n), base) = base .. (n - 1)
  BY <1>4, <1>5, <1>6
<1> QED BY <1>7 DEF base

(* Below a word, the mask of n bits is the first n bits. *)
LEMMA SmallMask ==
  ASSUME NEW n \in Nat, n > 0, n < WordSize
  PROVE  last_word_mask(n) = 0 .. (n - 1)
<1> DEFINE k == word_index(n)
           b == bit_in_word_index(n)
<1>1. k \in Nat /\ b \in 0 .. (WordSize - 1) /\ n = k * WordSize + b
  BY IndexSplit
<1>2. last_word_mask(n) = IF b = 0 THEN Bit ELSE 0 .. (b - 1)
  BY DEF last_word_mask
<1> HIDE DEF k, b
<1>3. k = 0
  <2>1. SUFFICES ASSUME 1 <= k PROVE FALSE
    BY <1>1
  <2>2. 1 * WordSize <= k * WordSize /\ 1 * WordSize = WordSize
    BY <1>1, <2>1, TimesMono, WordSizeType
  <2>3. k * WordSize \in Int
    BY <1>1, TimesNext, WordSizeType
  <2> QED BY <1>1, <2>2, <2>3, WordSizeType
<1>4. k * WordSize = 0
  BY <1>3, WordSizeType
<1> QED BY <1>1, <1>2, <1>4

(* And so it is for no bit and for a whole word. *)
LEMMA MaskUpTo ==
  ASSUME NEW c \in 0 .. WordSize
  PROVE  last_word_mask(c) = 0 .. (c - 1)
<1>1. CASE c = 0
  BY <1>1, WordSizeType DEF last_word_mask, bit_in_word_index
<1>2. CASE c > 0 /\ c < WordSize
  BY <1>2, SmallMask
<1>3. CASE c = WordSize
  <2>1. c % WordSize = 0
    BY <1>3, WordSizeType
  <2> QED BY <1>3, <2>1, WordSizeType DEF last_word_mask, bit_in_word_index, Bit
<1> QED BY <1>1, <1>2, <1>3, WordSizeType

LEMMA UsizeType == UsizeMax \in Int
BY WordSizeType, Z3 DEF UsizeMax

(* A bound stands for an index. *)
LEMMA BoundsType ==
  ASSUME NEW b, b.at \in 0 .. UsizeMax, NEW n \in Nat
  PROVE  bounds_start(b) \in Nat /\ bounds_stop(b, n) \in Nat
<1>1. UsizeMax \in Nat
  BY UsizeType
<1>2. b.at \in Nat /\ after(b.at) \in Nat
  BY <1>1 DEF after
<1> QED BY <1>2 DEF bounds_start, bounds_stop

-----------------------------------------------------------------------------
(* Least elements, the form of induction the provers can use: a relation   *)
(* and a set are all that WFMin has to be given.                           *)

LEMMA LessWellFounded ==
  \E R : IsWellFoundedOn(R, Nat) /\ \A x, y \in Nat : x < y => <<x, y>> \in R
<1>1. IsWellFoundedOn(OpToRel(<, Nat), Nat)
  BY NatLessThanWellFounded
<1>2. \A x, y \in Nat : x < y => <<x, y>> \in OpToRel(<, Nat)
  BY DEF OpToRel
<1> QED BY <1>1, <1>2

LEMMA Least ==
  ASSUME NEW S, S \subseteq Nat, S # {}
  PROVE  \E x \in S : \A y \in S : x <= y
<1>1. PICK R : IsWellFoundedOn(R, Nat) /\ \A x, y \in Nat : x < y => <<x, y>> \in R
  BY LessWellFounded
<1>2. IsWellFoundedOn(R, Nat)
  BY <1>1
<1>3. \E x \in S : \A y \in S : ~ (<<y, x>> \in R)
  BY <1>2, WFMin, Zenon
<1>4. PICK x \in S : \A y \in S : ~ (<<y, x>> \in R)
  BY <1>3
<1>5. ASSUME NEW y \in S PROVE x <= y
  <2>1. ~ (<<y, x>> \in R)
    BY <1>4
  <2>2. x \in Nat /\ y \in Nat
    OBVIOUS
  <2>3. ~ (y < x)
    BY <2>1, <2>2, <1>1
  <2> QED BY <2>2, <2>3
<1> QED BY <1>4, <1>5

(* A set that holds 0 and the successor of what it holds has every number. *)
LEMMA Induction ==
  ASSUME NEW S, 0 \in S, \A n \in Nat : n \in S => n + 1 \in S
  PROVE  Nat \subseteq S
<1>1. SUFFICES ASSUME NEW m \in Nat, m \notin S PROVE FALSE
  OBVIOUS
<1> DEFINE T == {n \in Nat : n \notin S}
<1>2. PICK x \in T : \A y \in T : x <= y
  BY <1>1, Least
<1>3. x \in Nat /\ x # 0 /\ x \notin S
  OBVIOUS
<1>4. x - 1 \in Nat /\ (x - 1) + 1 = x
  BY <1>3
<1>5. x - 1 \notin S
  BY <1>3, <1>4
<1> QED BY <1>2, <1>4, <1>5

-----------------------------------------------------------------------------
(* Units of w positions, one after another. *)

LEMMA TimesAssoc ==
  ASSUME NEW i \in Int, NEW j \in Int, NEW k \in Int
  PROVE  (i * j) * k = i * (j * k) /\ (i + j) * k = i * k + j * k
OBVIOUS

LEMMA DivUnique ==
  ASSUME NEW w \in Nat, w > 0, NEW k \in Nat, NEW r \in Nat, r < w, NEW n, n = k * w + r
  PROVE  n \div w = k /\ n % w = r
OBVIOUS

LEMMA DivSplit ==
  ASSUME NEW w \in Nat, w > 0, NEW n \in Nat
  PROVE  /\ n \div w \in Nat /\ n % w \in Nat /\ n % w < w
         /\ n = (n \div w) * w + (n % w)
<1>1. n \div w \in Nat /\ n % w \in Nat /\ n % w < w
  OBVIOUS
<1>2. n = (n \div w) * w + (n % w)
  OBVIOUS
<1> QED BY <1>1, <1>2

(* The positions of unit k are those that k is the index of. *)
LEMMA UnitPositions ==
  ASSUME NEW w \in Nat, w > 0, NEW k \in Nat, NEW n \in Int
  PROVE  n \in (k * w) .. ((k + 1) * w - 1) <=> n \in Nat /\ n \div w = k
<1>1. (k + 1) * w = k * w + w /\ k * w \in Nat
  BY TimesNext
<1>2. ASSUME n \in (k * w) .. ((k + 1) * w - 1) PROVE n \in Nat /\ n \div w = k
  <2>1. n - k * w \in Nat /\ n - k * w < w /\ n = k * w + (n - k * w) /\ n \in Nat
    BY <1>1, <1>2
  <2>2. n \div w = k
    BY <2>1, DivUnique
  <2> QED BY <2>1, <2>2
<1>3. ASSUME n \in Nat, n \div w = k PROVE n \in (k * w) .. ((k + 1) * w - 1)
  <2>1. n % w \in Nat /\ n % w < w /\ n = k * w + (n % w)
    BY <1>3, DivSplit
  <2> QED BY <1>1, <2>1
<1> QED BY <1>2, <1>3

(* Positions i and j lie in one unit of w positions. *)
OneUnit(w, i, j) == i \div w = j \div w

(* Units of b positions do not straddle those of a multiple of b. *)
LEMMA UnitsNest ==
  ASSUME NEW b \in Nat, b > 0, NEW w \in Nat, w > 0, w % b = 0,
         NEW i \in Nat, NEW j \in Nat, OneUnit(b, i, j)
  PROVE  OneUnit(w, i, j)
<1> USE DEF OneUnit
<1> DEFINE q == i \div b
           m == w \div b
<1>1. q \in Nat /\ \A n \in {i, j} : n % b \in Nat /\ n % b < b /\ n = q * b + (n % b)
  BY DivSplit
<1>2. m \in Nat /\ w = m * b
  BY DivSplit
<1>3. m > 0
  BY <1>2
<1>4. q \div m \in Nat /\ q % m \in Nat /\ q % m < m /\ q = (q \div m) * m + (q % m)
  BY <1>1, <1>2, <1>3, DivSplit
<1> DEFINE p == q \div m
           s == q % m
<1>5. p \in Nat /\ s \in Nat /\ s + 1 <= m /\ q = p * m + s /\ q \in Nat /\ m \in Nat /\ w = m * b
  BY <1>1, <1>2, <1>4
<1> HIDE DEF q, m, p, s
<1>6. q * b = p * w + s * b
  <2>1. q * b = (p * m) * b + s * b
    BY <1>5, TimesAssoc
  <2>2. (p * m) * b = p * (m * b)
    BY <1>5, TimesAssoc
  <2> QED BY <2>1, <2>2, <1>5
<1>7. s * b \in Nat /\ s * b + b <= w
  <2>1. (s + 1) * b <= m * b
    <3>1. s + 1 \in Int /\ m \in Int
      BY <1>5
    <3> QED BY <3>1, <1>5, TimesMono
  <2>2. (s + 1) * b = s * b + b /\ s * b \in Nat
    BY <1>5, TimesNext
  <2> QED BY <1>5, <2>1, <2>2
<1>8. ASSUME NEW n \in {i, j} PROVE n \div w = p
  <2> DEFINE r == s * b + (n % b)
  <2>1. n \in Nat /\ n % b \in Nat /\ n % b < b /\ n = q * b + (n % b)
    BY <1>1
  <2>2. p * w \in Nat
    BY <1>5
  <2>3. r \in Nat /\ r < w
    BY <1>7, <2>1
  <2>4. n = p * w + r
    BY <1>6, <1>7, <2>1, <2>2
  <2> HIDE DEF r
  <2> QED BY <1>5, <2>3, <2>4, DivUnique
<1> QED BY <1>8
=============================================================================
