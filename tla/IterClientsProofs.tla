--------------------------- MODULE IterClientsProofs ---------------------------
(***************************************************************************)
(* BitsIter reads only the words of its window, keeps its promise on bit   *)
(* strings, opens ranges as asked and compares windows by their bits;      *)
(* BitIndexes gives out the next index; the words given out from both ends *)
(* are the list.  For every word size, memory, window and argument.        *)
(*                                                                         *)
(* Order: the bits of one word, the loop of bit_position, the searches for *)
(* slots (by induction on the bits left), each call of the iterator in     *)
(* terms of strings, the refinement, equality, and the clients.            *)
(***************************************************************************)
EXTENDS IterClients, BitWordsProofs

LOCAL INSTANCE FiniteSetsExt

(* The positions s .. e - 1 that hold the bit v. *)
Hits(s, e, v) == {i \in s .. (e - 1) : (i \in mem) = v}

IsLeast(i, S) == i \in S /\ \A j \in S : i <= j

(* The words that hold a bit of the window s .. e - 1. *)
Within(s, e) == {k \in Nat : k * WordSize < e /\ (k + 1) * WordSize > s}

-----------------------------------------------------------------------------
(* Words of the memory. *)

LEMMA IterLeastIs ==
  ASSUME NEW m \in Int, NEW n \in Int
  PROVE  least(m, n) \in Int /\ least(m, n) <= m /\ least(m, n) <= n /\ least(m, n) \in {m, n}
BY DEF least

LEMMA WordFields == \A v, n : WordBits(v, n).value = v /\ WordBits(v, n).count = n
BY DEF WordBits

LEMMA WordBase ==
  ASSUME NEW k \in Nat
  PROVE  /\ k * WordSize \in Nat /\ (k + 1) * WordSize = k * WordSize + WordSize
         /\ Word(k) = (k * WordSize) .. (k * WordSize + WordSize - 1)
BY WordSizeType, TimesNext DEF Word

LEMMA WordBitsAt ==
  ASSUME NEW k \in Nat
  PROVE  /\ WordAt(mem, k) \subseteq Bit
         /\ \A x \in Bit : x \in WordAt(mem, k) <=> k * WordSize + x \in mem
<1> DEFINE low == k * WordSize
<1>1. low \in Nat /\ Word(k) = low .. (low + WordSize - 1) /\ WordSize \in Nat
  BY WordBase, WordSizeType
<1>2. WordAt(mem, k) = {i - low : i \in {j \in mem \cap Word(k) : j >= low}}
  BY DEF WordAt, Down
<1> HIDE DEF low
<1>3. WordAt(mem, k) \subseteq 0 .. (WordSize - 1)
  BY <1>1, <1>2
<1>4. ASSUME NEW x \in 0 .. (WordSize - 1)
      PROVE  x \in WordAt(mem, k) <=> low + x \in mem
  <2>1. low + x \in Word(k) /\ low + x >= low /\ (low + x) - low = x
    BY <1>1
  <2>2. ASSUME NEW i \in mem \cap Word(k), x = i - low PROVE i = low + x
    BY <1>1, <2>2
  <2> QED BY <1>2, <2>1, <2>2
<1> QED BY <1>3, <1>4 DEF Bit, low

(* What peek_word returns: the bits from s on, up to the end of the word   *)
(* or of the window.                                                       *)
LEMMA PeekWordIs ==
  ASSUME NEW s \in Nat, NEW e \in Nat, s < e
  PROVE  LET w == peek_word(s, e)
             rest == WordSize - bit_in_word_index(s)
         IN  /\ w = WordBits(w.value, w.count)
             /\ rest \in 1 .. WordSize
             /\ w.count = least(rest, e - s) /\ w.count \in 1 .. WordSize
             /\ w.value \subseteq 0 .. (rest - 1)
             /\ \A j \in 0 .. (rest - 1) : j \in w.value <=> s + j \in mem
<1> DEFINE w == peek_word(s, e)
           k == word_index(s)
           b == bit_in_word_index(s)
           low == k * WordSize
           rest == WordSize - b
           v == Down(WordAt(mem, k), b)
<1>1. k \in Nat /\ b \in 0 .. (WordSize - 1) /\ s = low + b /\ low \in Nat
  BY IndexSplit, WordBase
<1>2. w = WordBits(v, least(rest, e - s))
  BY DEF peek_word
<1>3. w.value = v /\ w.count = least(rest, e - s) /\ w = WordBits(w.value, w.count)
  BY <1>2, WordFields
<1>4. WordAt(mem, k) \subseteq Bit /\ \A x \in Bit : x \in WordAt(mem, k) <=> low + x \in mem
  BY <1>1, WordBitsAt
<1> HIDE DEF w, v, low, k, b
<1>5. rest \in 1 .. WordSize
  BY <1>1, WordSizeType
<1>6. v = {i - b : i \in {j \in WordAt(mem, k) : j >= b}}
  BY DEF v, Down
<1>7. v \subseteq 0 .. (rest - 1)
  BY <1>1, <1>4, <1>6, WordSizeType DEF Bit
<1>8. ASSUME NEW j \in 0 .. (rest - 1) PROVE j \in v <=> s + j \in mem
  <2>1. j + b \in Bit /\ j + b >= b /\ (j + b) - b = j /\ low + (j + b) = s + j
    BY <1>1, WordSizeType DEF Bit
  <2>2. ASSUME NEW i \in WordAt(mem, k), j = i - b PROVE i = j + b
    BY <1>1, <1>4, <2>2 DEF Bit
  <2>3. j \in v <=> j + b \in WordAt(mem, k)
    BY <1>6, <2>1, <2>2
  <2> QED BY <1>4, <2>1, <2>3
<1> HIDE DEF rest
<1>9. least(rest, e - s) \in 1 .. WordSize
  BY <1>5, WordSizeType DEF least
<1> QED BY <1>3, <1>5, <1>7, <1>8, <1>9 DEF w, rest, b

LEMMA PeekNothing ==
  ASSUME NEW s
  PROVE  peek_word(s, s) = EmptyWordBits /\ peek_word(s, s).value = {} /\ peek_word(s, s).count = 0
BY WordFields DEF peek_word, EmptyWordBits

-----------------------------------------------------------------------------
(* The first bit of a word that is v. *)

LEMMA FirstInWord ==
  ASSUME NEW w, w \subseteq Bit, NEW v \in BOOLEAN
  PROVE  /\ trailing(w, v) \in 0 .. WordSize
         /\ trailing(w, v) < WordSize => (trailing(w, v) \in w <=> v)
         /\ \A i \in 0 .. (trailing(w, v) - 1) : i \in w <=> ~v
<1> DEFINE S == IF v THEN w ELSE Bit \ w
           t == trailing(w, v)
<1>1. t = IF S = {} THEN WordSize ELSE Min(S)
  BY DEF trailing
<1>2. S \subseteq Bit /\ \A i \in Bit : i \in S <=> (i \in w <=> v)
  OBVIOUS
<1> HIDE DEF S, t
<1>3. CASE S = {}
  <2>1. t = WordSize
    BY <1>1, <1>3
  <2> QED BY <1>2, <1>3, <2>1, WordSizeType DEF Bit, t
<1>4. CASE S # {}
  <2>1. S \subseteq Nat
    BY <1>2, WordSizeType DEF Bit
  <2>2. \E x \in S : \A y \in S : x <= y
    BY <1>4, <2>1, Least
  <2>3. Min(S) \in S /\ \A y \in S : Min(S) <= y
    BY <2>2, Zenon DEF Min
  <2>4. t \in S /\ \A y \in S : t <= y
    BY <1>1, <1>4, <2>3
  <2>5. t \in Bit /\ \A i \in 0 .. (t - 1) : i \in Bit /\ i \notin S
    BY <1>2, <2>4, WordSizeType DEF Bit
  <2>6. \A i \in 0 .. (t - 1) : i \in w <=> ~v
    BY <1>2, <2>5
  <2> QED BY <1>2, <2>4, <2>5, <2>6, WordSizeType DEF Bit, t
<1> QED BY <1>3, <1>4

(* A set of numbers has one least element, and Min names it.               *)
LEMMA MinIs ==
  ASSUME NEW S, S \subseteq Nat, S # {}
  PROVE  IsLeast(Min(S), S)
<1>1. \E x \in S : \A y \in S : x <= y
  BY Least
<1>2. Min(S) \in S /\ \A y \in S : Min(S) <= y
  BY <1>1, Zenon DEF Min
<1> QED BY <1>2 DEF IsLeast

LEMMA MinOne == ASSUME NEW x \in Int PROVE Min({x}) = x
<1>1. \E y \in {x} : \A z \in {x} : y <= z
  OBVIOUS
<1>2. Min({x}) \in {x}
  BY <1>1, Zenon DEF Min
<1> QED BY <1>2

LEMMA HitsAre ==
  ASSUME NEW s \in Int, NEW e \in Int, NEW v \in BOOLEAN
  PROVE  \A i : i \in Hits(s, e, v) <=> i \in s .. (e - 1) /\ (i \in mem <=> v)
BY DEF Hits

LEMMA LeastHit ==
  ASSUME NEW s \in Nat, NEW e \in Nat, NEW v \in BOOLEAN, Hits(s, e, v) # {}
  PROVE  \E i : IsLeast(i, Hits(s, e, v))
<1>1. Hits(s, e, v) \subseteq Nat
  BY HitsAre
<1> QED BY <1>1, Least DEF IsLeast

(* word_index(n) is the last word that begins at n or before. *)
LEMMA WordIndexLast ==
  ASSUME NEW n \in Nat, NEW k \in Nat
  PROVE  k <= word_index(n) <=> k * WordSize <= n
<1> DEFINE q == word_index(n)
<1>1. q \in Nat /\ bit_in_word_index(n) \in 0 .. (WordSize - 1)
      /\ n = q * WordSize + bit_in_word_index(n)
  BY IndexSplit
<1> HIDE DEF q
<1>2. q * WordSize \in Nat /\ k * WordSize \in Nat /\ (q + 1) * WordSize = q * WordSize + WordSize
  BY <1>1, WordBase
<1>3. ASSUME k <= q PROVE k * WordSize <= q * WordSize
  BY <1>1, <1>3, TimesMono, WordSizeType
<1>4. ASSUME q + 1 <= k PROVE (q + 1) * WordSize <= k * WordSize
  BY <1>1, <1>4, TimesMono, WordSizeType
<1>5. ASSUME k <= q PROVE k * WordSize <= n
  BY <1>1, <1>2, <1>3, <1>5
<1>6. ASSUME ~(k <= q) PROVE ~(k * WordSize <= n)
  <2>1. q + 1 <= k
    BY <1>1, <1>6
  <2> QED BY <1>1, <1>2, <1>4, <2>1, WordSizeType
<1> QED BY <1>5, <1>6 DEF q

LEMMA WordIndexIs ==
  ASSUME NEW k \in Nat, NEW x \in Bit
  PROVE  word_index(k * WordSize + x) = k /\ bit_in_word_index(k * WordSize + x) = x
BY WordSizeType, DivUnique DEF Bit, word_index, bit_in_word_index

(* The first bit that is v among those peek_word returns. *)
LEMMA FirstPeeked ==
  ASSUME NEW s \in Nat, NEW e \in Nat, s < e, NEW v \in BOOLEAN
  PROVE  LET w == peek_word(s, e)
             first == first_bit_value(w, v)
         IN  \/ first = None /\ Hits(s, s + w.count, v) = {}
             \/ \E t \in 0 .. (w.count - 1) : first = Some(t) /\ IsLeast(s + t, Hits(s, e, v))
<1> DEFINE w == peek_word(s, e)
           c == w.count
           rest == WordSize - bit_in_word_index(s)
           t == trailing(w.value, v)
<1>1. /\ rest \in 1 .. WordSize /\ c = least(rest, e - s) /\ c \in 1 .. WordSize
      /\ w.value \subseteq 0 .. (rest - 1)
      /\ \A j \in 0 .. (rest - 1) : j \in w.value <=> s + j \in mem
  BY PeekWordIs
<1>2. c <= rest /\ c <= e - s
  <2> HIDE DEF rest
  <2> QED BY <1>1 DEF least
<1>3. first_bit_value(w, v) = IF t >= c THEN None ELSE Some(t)
  BY DEF first_bit_value
<1> HIDE DEF w, rest
<1>4. w.value \subseteq Bit
  BY <1>1, WordSizeType DEF Bit
<1>5. /\ t \in 0 .. WordSize
      /\ t < WordSize => (t \in w.value <=> v)
      /\ \A i \in 0 .. (t - 1) : i \in w.value <=> ~v
  BY <1>4, FirstInWord
<1> HIDE DEF t
<1>6. ASSUME NEW j \in 0 .. (c - 1) PROVE j \in w.value <=> s + j \in mem
  BY <1>1, <1>2
<1>7. CASE t >= c
  <2>1. ASSUME NEW i \in s .. (s + c - 1) PROVE ~(i \in mem <=> v)
    <3>1. i - s \in 0 .. (c - 1) /\ s + (i - s) = i /\ i - s \in 0 .. (t - 1)
      BY <1>1, <1>5, <1>7
    <3>2. i - s \in w.value <=> i \in mem
      BY <1>6, <3>1
    <3>3. i - s \in w.value <=> ~v
      BY <1>5, <3>1
    <3> QED BY <3>2, <3>3
  <2>2. Hits(s, s + c, v) = {}
    BY <1>1, <2>1, HitsAre
  <2> QED BY <1>3, <1>7, <2>2 DEF w
<1>8. CASE ~(t >= c)
  <2>1. t \in Nat /\ t \in 0 .. (c - 1) /\ t < WordSize /\ c \in Nat /\ s + t \in s .. (e - 1)
    BY <1>1, <1>2, <1>5, <1>8, WordSizeType
  <2>2. s + t \in mem <=> v
    BY <1>5, <1>6, <2>1
  <2>3. s + t \in Hits(s, e, v)
    BY <2>1, <2>2, HitsAre
  <2>4. ASSUME NEW j \in Hits(s, e, v), j < s + t PROVE FALSE
    <3>1. j \in s .. (e - 1) /\ (j \in mem <=> v)
      BY <2>4, HitsAre
    <3>2. j - s \in 0 .. (t - 1) /\ j - s \in 0 .. (c - 1) /\ s + (j - s) = j
      BY <2>1, <2>4, <3>1
    <3>3. j - s \in w.value <=> j \in mem
      BY <1>6, <3>2
    <3>4. j - s \in w.value <=> ~v
      BY <1>5, <3>2
    <3> QED BY <3>1, <3>3, <3>4
  <2>5. Hits(s, e, v) \subseteq Int
    BY HitsAre
  <2>6. IsLeast(s + t, Hits(s, e, v))
    BY <2>1, <2>3, <2>4, <2>5 DEF IsLeast
  <2> QED BY <1>3, <1>8, <2>1, <2>6 DEF w
<1> QED BY <1>7, <1>8

(* The words the loop of bit_position comes to are in the window. *)
LEMMA ScannedWithin ==
  ASSUME NEW s \in Nat, NEW e \in Nat
  PROVE  words_scanned(s, e) \subseteq Within(s, e)
<1> SUFFICES ASSUME NEW k \in words_scanned(s, e) PROVE k \in Within(s, e)
  OBVIOUS
<1>1. k \in word_index(s) .. word_index(e) /\ k * WordSize < e
  BY DEF words_scanned
<1>2. word_index(s) \in Nat /\ word_index(e) \in Nat
  BY IndexSplit
<1>3. k \in Nat /\ word_index(s) < k + 1 /\ k + 1 \in Nat
  BY <1>1, <1>2
<1>4. (k + 1) * WordSize \in Nat /\ ~((k + 1) * WordSize <= s)
  BY <1>2, <1>3, WordIndexLast, WordBase
<1> QED BY <1>1, <1>3, <1>4 DEF Within

ReadingIs(p) == p = Reading(p.reads, p)

LEMMA ReadingFields ==
  \A seen, p : /\ Reading(seen, p).off = p.off /\ Reading(seen, p).start = p.start
                /\ Reading(seen, p).reads = seen /\ ReadingIs(Reading(seen, p))
BY DEF Reading, ReadingIs

(* What a search of the window s .. e - 1 for the bit v is to find: the    *)
(* first such bit, with its offset from bit o.                             *)
FindsFirst(p, o, s, e, v) ==
  /\ Hits(s, e, v) = {} => p.off = None /\ p.start = e
  /\ \A i : IsLeast(i, Hits(s, e, v)) => p.off = Some(i - o) /\ p.start = i + 1

LEMMA ScanFinds ==
  ASSUME NEW s \in Nat, NEW next \in Nat, NEW e \in Nat, next <= e, NEW v \in BOOLEAN,
         next = e \/ bit_in_word_index(next) = 0
  PROVE  /\ FindsFirst(scan(s, next, e, v), s, next, e, v)
         /\ scan(s, next, e, v).reads \subseteq Within(next, e)
         /\ ReadingIs(scan(s, next, e, v))
<1> DEFINE p == scan(s, next, e, v)
           K == words_scanned(next, e)
           first(k) == trailing(WordAt(mem, k), v)
           hits == {k \in K : first(k) < WordSize}
           m == Min(hits)
           H == Hits(next, e, v)
<1>1. p = IF hits = {} THEN Reading(K, FoundNothing(e))
          ELSE Reading({j \in K : j <= m}, FoundInWord(s, e, m, first(m)))
  BY DEF scan
<1>2. K \subseteq Within(next, e) /\ K \subseteq Nat
  BY ScannedWithin DEF Within
<1>3. ASSUME NEW k \in Nat
      PROVE  /\ first(k) \in 0 .. WordSize
             /\ first(k) < WordSize => (k * WordSize + first(k) \in mem <=> v)
             /\ \A x \in 0 .. (first(k) - 1) : k * WordSize + x \in mem <=> ~v
  <2>1. WordAt(mem, k) \subseteq Bit
        /\ \A x \in Bit : x \in WordAt(mem, k) <=> k * WordSize + x \in mem
    BY WordBitsAt
  <2>2. /\ first(k) \in 0 .. WordSize
        /\ first(k) < WordSize => (first(k) \in WordAt(mem, k) <=> v)
        /\ \A x \in 0 .. (first(k) - 1) : x \in WordAt(mem, k) <=> ~v
    BY <2>1, FirstInWord
  <2> HIDE DEF first
  <2>3. first(k) < WordSize => first(k) \in Bit
    BY <2>2, WordSizeType DEF Bit
  <2>4. \A x \in 0 .. (first(k) - 1) : x \in Bit
    BY <2>2, WordSizeType DEF Bit
  <2> QED BY <2>1, <2>2, <2>3, <2>4
<1>4. \A i : i \in H <=> i \in next .. (e - 1) /\ (i \in mem <=> v)
  BY HitsAre
<1> HIDE DEF p, K, first, H
<1>5. ASSUME NEW i \in next .. (e - 1)
      PROVE  /\ word_index(i) \in K /\ i = word_index(i) * WordSize + bit_in_word_index(i)
             /\ bit_in_word_index(i) \in 0 .. (WordSize - 1)
  <2> DEFINE k == word_index(i)
  <2>0. i \in Nat
    OBVIOUS
  <2>1. i \in Nat /\ k \in Nat /\ bit_in_word_index(i) \in 0 .. (WordSize - 1)
        /\ i = k * WordSize + bit_in_word_index(i) /\ k * WordSize \in Nat
    BY <2>0, IndexSplit, WordBase
  <2> HIDE DEF k
  <2>2. k * WordSize <= i /\ k * WordSize <= e /\ k * WordSize < e
    BY <2>1
  <2>3. k <= word_index(e)
    BY <2>1, <2>2, WordIndexLast
  <2>4. word_index(next) <= k
    <3>0. word_index(next) \in Nat
      BY IndexSplit
    <3>1. word_index(next) * WordSize <= next /\ word_index(next) * WordSize \in Nat
      BY <3>0, WordIndexLast, WordBase
    <3>2. word_index(next) * WordSize <= i
      BY <3>1, <2>1
    <3>3. word_index(next) <= word_index(i)
      BY <2>0, <3>0, <3>2, WordIndexLast
    <3> QED BY <3>3 DEF k
  <2>5. k \in word_index(next) .. word_index(e)
    BY <2>1, <2>3, <2>4, IndexSplit
  <2>6. next < e
    BY <2>1
  <2> QED BY <2>1, <2>2, <2>5, <2>6 DEF words_scanned, K, k
<1>6. ASSUME NEW i \in H
      PROVE  word_index(i) \in hits /\ first(word_index(i)) <= bit_in_word_index(i)
  <2> DEFINE k == word_index(i)
             b == bit_in_word_index(i)
  <2>1. k \in K /\ i = k * WordSize + b /\ b \in 0 .. (WordSize - 1) /\ k \in Nat
        /\ (i \in mem <=> v)
    BY <1>2, <1>4, <1>5
  <2> HIDE DEF k, b
  <2>2. first(k) \in 0 .. WordSize /\ ~(b \in 0 .. (first(k) - 1))
    BY <1>3, <2>1
  <2>3. first(k) <= b /\ first(k) < WordSize
    BY <2>1, <2>2, WordSizeType
  <2> QED BY <2>1, <2>3 DEF k, b
<1>7. CASE hits = {}
  <2>1. H = {}
    BY <1>6, <1>7
  <2>2. p = Reading(K, FoundNothing(e))
    BY <1>1, <1>7
  <2>3. p.off = None /\ p.start = e /\ p.reads = K /\ ReadingIs(p)
    BY <2>2, ReadingFields DEF FoundNothing
  <2> QED BY <1>2, <2>1, <2>3 DEF FindsFirst, IsLeast, p, H
<1>8. CASE hits # {}
  <2>1. m \in hits /\ (\A j \in hits : m <= j)
    <3>1. hits \subseteq Nat
      BY <1>2
    <3> HIDE DEF hits
    <3> QED BY <1>8, <3>1, MinIs DEF IsLeast
  <2> DEFINE t == first(m)
             at == m * WordSize + t
  <2>2. m \in K /\ m \in Nat /\ t \in 0 .. WordSize /\ t < WordSize
    BY <1>2, <1>3, <2>1
  <2>3. /\ (at \in mem <=> v)
        /\ \A x \in 0 .. (t - 1) : m * WordSize + x \in mem <=> ~v
    BY <1>3, <2>2
  <2>4. p = Reading({j \in K : j <= m}, FoundInWord(s, e, m, t))
    BY <1>1, <1>8
  <2> HIDE DEF t, m
  <2>5. m * WordSize \in Nat /\ at \in Nat
    <3>1. m * WordSize \in Nat /\ t \in Nat
      BY <2>2, WordBase, WordSizeType
    <3> QED BY <3>1
  <2> DEFINE P == [off |-> IF at + 1 > e THEN None ELSE Some(at - s), start |-> least(at + 1, e)]
  <2>6. FoundInWord(s, e, m, t) = P
    BY DEF FoundInWord
  <2>7. /\ p.off = (IF at + 1 > e THEN None ELSE Some(at - s)) /\ p.start = least(at + 1, e)
        /\ p.reads \subseteq Within(next, e) /\ ReadingIs(p)
    <3>1. /\ p.off = FoundInWord(s, e, m, t).off /\ p.start = FoundInWord(s, e, m, t).start
          /\ p.reads = {j \in K : j <= m} /\ ReadingIs(p)
      BY <2>4, ReadingFields
    <3>2. P.off = (IF at + 1 > e THEN None ELSE Some(at - s)) /\ P.start = least(at + 1, e)
      OBVIOUS
    <3> HIDE DEF P
    <3> QED BY <1>2, <2>6, <3>1, <3>2
  <2>8. next <= at
    <3>1. next < e /\ word_index(next) <= m
      BY <2>2, IndexSplit DEF words_scanned, K
    <3>2. bit_in_word_index(next) = 0 /\ word_index(next) \in Nat
          /\ next = word_index(next) * WordSize + bit_in_word_index(next)
      BY <3>1, IndexSplit
    <3>3. word_index(next) * WordSize \in Nat
      BY <3>2, WordBase
    <3>4. word_index(next) * WordSize <= m * WordSize
      BY <2>2, <3>1, <3>2, TimesMono, WordSizeType
    <3> QED BY <2>2, <2>5, <3>2, <3>3, <3>4
  <2>9. ASSUME NEW i \in H PROVE at <= i
    <3> DEFINE k == word_index(i)
               b == bit_in_word_index(i)
    <3>1. k \in hits /\ first(k) <= b /\ i \in next .. (e - 1) /\ (i \in mem <=> v)
      BY <1>4, <1>6
    <3>2. k \in Nat /\ i = k * WordSize + b /\ b \in 0 .. (WordSize - 1) /\ k * WordSize \in Nat
      BY <1>2, <1>5, <3>1, WordBase
    <3>3. m <= k
      BY <2>1, <3>1
    <3>4. k = m => t <= b
      BY <3>1 DEF t
    <3> HIDE DEF k, b
    <3>5. CASE k = m
      BY <2>2, <2>5, <3>2, <3>4, <3>5
    <3>6. CASE m < k
      <4>1. (m + 1) * WordSize <= k * WordSize /\ (m + 1) * WordSize = m * WordSize + WordSize
        BY <2>2, <3>2, <3>6, TimesMono, WordSizeType, WordBase
      <4> QED BY <2>2, <2>5, <3>2, <4>1, WordSizeType
    <3> QED BY <2>2, <3>2, <3>3, <3>5, <3>6
  <2> HIDE DEF at, hits
  <2>10. CASE at + 1 > e
    <3>1. H = {}
      BY <1>4, <2>5, <2>9, <2>10
    <3>2. p.off = None /\ p.start = e
      BY <2>5, <2>7, <2>10 DEF least
    <3> QED BY <2>7, <3>1, <3>2 DEF FindsFirst, IsLeast, p, H
  <2>11. CASE ~(at + 1 > e)
    <3>1. at \in H
      BY <1>4, <2>3, <2>5, <2>8, <2>11
    <3>2. p.off = Some(at - s) /\ p.start = at + 1
      BY <2>5, <2>7, <2>11 DEF least
    <3>3. ASSUME NEW i, IsLeast(i, H) PROVE i = at
      BY <1>4, <2>5, <2>9, <3>1, <3>3 DEF IsLeast
    <3>4. H # {}
      BY <3>1
    <3> QED BY <2>7, <3>2, <3>3, <3>4 DEF FindsFirst, p, H
  <2> QED BY <2>5, <2>10, <2>11
<1> QED BY <1>7, <1>8

(* A window that begins at a word or one that begins behind it.            *)
LEMMA WithinGrows ==
  ASSUME NEW s \in Nat, NEW t \in Nat, NEW e \in Nat, NEW f \in Nat, s <= t, e <= f
  PROVE  Within(t, e) \subseteq Within(s, f)
<1> SUFFICES ASSUME NEW k \in Within(t, e) PROVE k \in Within(s, f)
  OBVIOUS
<1>1. k \in Nat /\ k * WordSize < e /\ (k + 1) * WordSize > t
  BY DEF Within
<1>2. k * WordSize \in Nat /\ (k + 1) * WordSize \in Nat
  BY <1>1, WordBase
<1> QED BY <1>1, <1>2 DEF Within

LEMMA WordOfBit ==
  ASSUME NEW s \in Nat, NEW e \in Nat, NEW i \in s .. (e - 1)
  PROVE  word_index(i) \in Within(s, e)
<1>1. i \in Nat
  OBVIOUS
<1> DEFINE k == word_index(i)
<1>2. k \in Nat /\ bit_in_word_index(i) \in 0 .. (WordSize - 1)
      /\ i = k * WordSize + bit_in_word_index(i)
  BY <1>1, IndexSplit
<1> HIDE DEF k
<1>3. k * WordSize \in Nat /\ (k + 1) * WordSize = k * WordSize + WordSize
  BY <1>2, WordBase
<1>4. k * WordSize < e /\ (k + 1) * WordSize > s
  BY <1>2, <1>3, WordSizeType
<1> QED BY <1>2, <1>4 DEF Within, k

LEMMA PeekedWithin ==
  ASSUME NEW s \in Nat, NEW e \in Nat, s <= e
  PROVE  WordsPeeked(s, e) \subseteq Within(s, e)
<1>1. CASE s = e
  BY <1>1 DEF WordsPeeked
<1>2. CASE s < e
  <2>1. s \in s .. (e - 1)
    BY <1>2
  <2>2. word_index(s) \in Within(s, e)
    BY <2>1, WordOfBit
  <2> QED BY <1>2, <2>2 DEF WordsPeeked
<1> QED BY <1>1, <1>2

(* Behind what peek_word returns a word begins, or the window ends.        *)
LEMMA BehindPeeked ==
  ASSUME NEW s \in Nat, NEW e \in Nat, s < e
  PROVE  LET next == s + peek_word(s, e).count
         IN  /\ next \in Nat /\ s < next /\ next <= e
             /\ next = e \/ bit_in_word_index(next) = 0
<1> DEFINE c == peek_word(s, e).count
           b == bit_in_word_index(s)
           k == word_index(s)
<1>1. WordSize - b \in 1 .. WordSize /\ c = least(WordSize - b, e - s) /\ c \in 1 .. WordSize
  BY PeekWordIs
<1>2. k \in Nat /\ b \in 0 .. (WordSize - 1) /\ s = k * WordSize + b /\ k * WordSize \in Nat
      /\ (k + 1) * WordSize = k * WordSize + WordSize /\ WordSize \in Nat
  BY IndexSplit, WordBase, WordSizeType
<1> HIDE DEF c, b, k
<1>3. c \in Nat /\ 1 <= c /\ c <= e - s /\ c \in {WordSize - b, e - s}
  BY <1>1, <1>2 DEF least
<1>4. ASSUME c = WordSize - b PROVE bit_in_word_index(s + c) = 0
  <2>1. s + c = (k + 1) * WordSize + 0 /\ k + 1 \in Nat /\ 0 \in Bit
    BY <1>2, <1>4, WordSizeType DEF Bit
  <2>2. bit_in_word_index((k + 1) * WordSize + 0) = 0
    BY <2>1, WordIndexIs
  <2> QED BY <2>1, <2>2
<1> QED BY <1>2, <1>3, <1>4 DEF c

LEMMA PositionFinds ==
  ASSUME NEW s \in Nat, NEW e \in Nat, s <= e, NEW v \in BOOLEAN
  PROVE  /\ FindsFirst(position(s, e, v), s, s, e, v)
         /\ position(s, e, v).reads \subseteq Within(s, e)
         /\ ReadingIs(position(s, e, v))
<1> DEFINE p == position(s, e, v)
           w == peek_word(s, e)
           first == first_bit_value(w, v)
           next == s + w.count
           rest == scan(s, next, e, v)
           H == Hits(s, e, v)
<1>1. p = IF first # None
          THEN Reading(WordsPeeked(s, e), [off |-> first, start |-> s + Min(first) + 1])
          ELSE Reading(rest.reads \cup WordsPeeked(s, e), rest)
  BY DEF position
<1>2. WordsPeeked(s, e) \subseteq Within(s, e)
  BY PeekedWithin
<1>3. ASSUME first = None, Hits(s, next, v) = {}, next \in Nat, s <= next, next <= e,
             next = e \/ bit_in_word_index(next) = 0
      PROVE  FindsFirst(p, s, s, e, v) /\ p.reads \subseteq Within(s, e) /\ ReadingIs(p)
  <2>1. p = Reading(rest.reads \cup WordsPeeked(s, e), rest)
    BY <1>1, <1>3
  <2>2. p.off = rest.off /\ p.start = rest.start /\ p.reads = rest.reads \cup WordsPeeked(s, e)
        /\ ReadingIs(p)
    BY <2>1, ReadingFields
  <2>3. FindsFirst(rest, s, next, e, v) /\ rest.reads \subseteq Within(next, e)
    BY <1>3, ScanFinds
  <2>4. Within(next, e) \subseteq Within(s, e)
    BY <1>3, WithinGrows
  <2> HIDE DEF p, rest, next
  <2>5. Hits(next, e, v) = H
    <3>1. /\ \A i : i \in Hits(s, next, v) <=> i \in s .. (next - 1) /\ (i \in mem <=> v)
          /\ \A i : i \in Hits(next, e, v) <=> i \in next .. (e - 1) /\ (i \in mem <=> v)
          /\ \A i : i \in H <=> i \in s .. (e - 1) /\ (i \in mem <=> v)
      BY <1>3, HitsAre
    <3> HIDE DEF H
    <3>2. \A i : i \in s .. (e - 1) <=> i \in s .. (next - 1) \/ i \in next .. (e - 1)
      BY <1>3
    <3>3. \A i : i \in Hits(next, e, v) <=> i \in H
      BY <1>3, <3>1, <3>2
    <3> QED BY <3>3
  <2>6. FindsFirst(p, s, s, e, v)
    BY <2>2, <2>3, <2>5 DEF FindsFirst
  <2> QED BY <1>2, <2>2, <2>3, <2>4, <2>6
<1>4. CASE s = e
  <2>1. w.value = {} /\ w.count = 0
    BY <1>4, PeekNothing
  <2>2. trailing({}, v) \in 0 .. WordSize
    BY FirstInWord
  <2>3. trailing({}, v) >= 0
    BY <2>2, WordSizeType
  <2>4. first = None
    BY <2>1, <2>3 DEF first_bit_value
  <2>5. next = e /\ Hits(s, next, v) = {}
    <3>1. next = s
      BY <2>1
    <3> HIDE DEF next
    <3> QED BY <1>4, <3>1, HitsAre
  <2> HIDE DEF p, first, next
  <2> QED BY <1>3, <1>4, <2>4, <2>5 DEF p
<1>5. CASE s < e
  <2>1. next \in Nat /\ s < next /\ next <= e /\ (next = e \/ bit_in_word_index(next) = 0)
    BY <1>5, BehindPeeked
  <2>2. \/ first = None /\ Hits(s, next, v) = {}
        \/ \E t \in 0 .. (w.count - 1) : first = Some(t) /\ IsLeast(s + t, H)
    BY <1>5, FirstPeeked
  <2>3. CASE first = None /\ Hits(s, next, v) = {}
    <3> HIDE DEF p, first, next
    <3> QED BY <1>3, <2>1, <2>3 DEF p
  <2>4. CASE \E t \in 0 .. (w.count - 1) : first = Some(t) /\ IsLeast(s + t, H)
    <3>1. PICK t \in 0 .. (w.count - 1) : first = Some(t) /\ IsLeast(s + t, H)
      BY <2>4
    <3>2. t \in Int
      <4> HIDE DEF w
      <4> QED OBVIOUS
    <3> HIDE DEF first, p, H
    <3>3. first # None /\ Min(first) = t
      BY <3>1, <3>2, MinOne DEF None, Some
    <3>4. p = Reading(WordsPeeked(s, e), [off |-> Some(t), start |-> s + t + 1])
      BY <1>1, <3>1, <3>3
    <3>5. p.off = Some(t) /\ p.start = (s + t) + 1 /\ p.reads = WordsPeeked(s, e) /\ ReadingIs(p)
      BY <3>4, ReadingFields
    <3>6. (s + t) - s = t /\ H # {}
      BY <3>1, <3>2 DEF IsLeast
    <3>7. ASSUME NEW i, IsLeast(i, H) PROVE i = s + t
      <4>1. H \subseteq Int
        BY HitsAre DEF H
      <4> QED BY <3>1, <3>7, <4>1 DEF IsLeast
    <3> QED BY <1>2, <3>5, <3>6, <3>7 DEF FindsFirst, p, H
  <2> QED BY <2>2, <2>3, <2>4
<1> QED BY <1>4, <1>5

(* A set that holds a number of 0 .. n when it holds all above it, holds   *)
(* all of 0 .. n.                                                          *)
LEMMA Downward ==
  ASSUME NEW n \in Nat, NEW S,
         \A s \in 0 .. n : (\A t \in (s + 1) .. n : t \in S) => s \in S
  PROVE  0 .. n \subseteq S
<1> DEFINE T == {n - s : s \in (0 .. n) \ S}
<1> SUFFICES ASSUME (0 .. n) \ S # {} PROVE FALSE
  OBVIOUS
<1>1. T \subseteq Nat /\ T # {}
  OBVIOUS
<1>2. PICK x \in T : \A y \in T : x <= y
  <2> HIDE DEF T
  <2> QED BY <1>1, Least
<1>3. PICK s \in (0 .. n) \ S : x = n - s
  BY <1>2
<1>4. ASSUME NEW t \in (s + 1) .. n, t \notin S PROVE FALSE
  <2>1. n - t \in T
    BY <1>3, <1>4
  <2>2. n - s <= n - t
    BY <1>2, <1>3, <2>1
  <2> QED BY <1>3, <1>4, <2>2
<1> QED BY <1>3, <1>4

(* B computes a function on 0 .. n from another one, its value at s from   *)
(* the values above s.                                                     *)
LooksAhead(n, F, B) ==
  /\ B \in [F -> F]
  /\ \A f, g \in F : \A s \in 0 .. n :
       (\A t \in (s + 1) .. n : f[t] = g[t]) => B[f][s] = B[g][s]

(* A function whose value at s is computed from its values above s exists. *)
LEMMA Recursion ==
  ASSUME NEW n \in Nat, NEW V, NEW F, F = [0 .. n -> V], F # {},
         NEW B, LooksAhead(n, F, B)
  PROVE  \E f \in F : f = B[f]
<1> USE DEF LooksAhead
<1> DEFINE Good(f, k) == \A s \in 0 .. n : s >= k => f[s] = B[f][s]
           S == {k \in 0 .. (n + 1) : \E f \in F : Good(f, k)}
<1>1. n + 1 \in S
  <2>1. PICK f \in F : TRUE
    OBVIOUS
  <2>2. Good(f, n + 1)
    OBVIOUS
  <2> QED BY <2>1, <2>2
<1>2. ASSUME NEW k \in 0 .. n, k + 1 \in S PROVE k \in S
  <2>1. PICK f \in F : Good(f, k + 1)
    BY <1>2
  <2> DEFINE g == B[f]
  <2>2. g \in F
    BY <2>1
  <2>3. ASSUME NEW s \in 0 .. n, s >= k PROVE g[s] = B[g][s]
    <3>1. \A t \in (s + 1) .. n : t \in 0 .. n /\ t >= k + 1
      BY <2>3
    <3>2. \A t \in (s + 1) .. n : f[t] = g[t]
      BY <2>1, <3>1
    <3> HIDE DEF g
    <3>3. B[f][s] = B[g][s]
      BY <2>1, <2>2, <3>2
    <3> QED BY <3>3 DEF g
  <2>4. Good(g, k)
    BY <2>3
  <2> HIDE DEF g, Good
  <2> QED BY <2>2, <2>4
<1>3. \A k \in 0 .. (n + 1) : (\A t \in (k + 1) .. (n + 1) : t \in S) => k \in S
  <2> SUFFICES ASSUME NEW k \in 0 .. (n + 1), \A t \in (k + 1) .. (n + 1) : t \in S PROVE k \in S
    OBVIOUS
  <2> HIDE DEF S
  <2>1. CASE k = n + 1
    BY <1>1, <2>1
  <2>2. CASE k # n + 1
    <3>1. k \in 0 .. n /\ k + 1 \in (k + 1) .. (n + 1)
      BY <2>2
    <3> QED BY <1>2, <3>1
  <2> QED BY <2>1, <2>2
<1>4. 0 \in S
  <2>1. n + 1 \in Nat
    OBVIOUS
  <2> HIDE DEF S
  <2>2. 0 .. (n + 1) \subseteq S
    BY <1>3, <2>1, Downward
  <2> QED BY <2>2
<1>5. PICK f \in F : Good(f, 0)
  BY <1>4
<1>6. \A s \in 0 .. n : f[s] = B[f][s]
  BY <1>5
<1> QED BY <1>5, <1>6

-----------------------------------------------------------------------------
(* What is behind a hit. *)

LEMMA LimitedIs ==
  ASSUME NEW s \in Nat, NEW e \in Nat, s <= e, NEW n \in Nat
  PROVE  /\ Limited(s, e, n) \in s .. e
         /\ Limited(s, e, n) = IF s + n <= e THEN s + n ELSE e
BY DEF Limited

LEMMA SomeIs == \A x \in Int : Some(x) # None /\ Min(Some(x)) = x
BY MinOne DEF Some, None

(* How far the bits from s on are v: at least size - 1 of them are, or     *)
(* only t, after which comes another one or the end of the window.         *)
LEMMA BehindIs ==
  ASSUME NEW s \in Nat, stop \in Nat, s <= stop, NEW v \in BOOLEAN, NEW n \in Nat \ {0}
  PROVE  LET end == Behind(s, v, n)
         IN  /\ end.reads \subseteq Within(s, stop)
             /\ LongEnough(end, s, n) =>
                  s + n - 1 <= stop /\ \A i \in s .. (s + n - 2) : i \in mem <=> v
             /\ ~LongEnough(end, s, n) /\ end.off = None => stop - s < n - 1
             /\ ~LongEnough(end, s, n) /\ end.off # None =>
                  \E t \in 0 .. (n - 2) :
                    /\ end.off = Some(t) /\ Min(end.off) = t
                    /\ s + t < stop /\ (s + t \in mem <=> ~v)
                    /\ \A i \in s .. (s + t - 1) : i \in mem <=> v
<1> DEFINE e == Limited(s, stop, n - 1)
           end == Behind(s, v, n)
           H == Hits(s, e, ~v)
<1>1. n - 1 \in Nat
  OBVIOUS
<1>2. e \in s .. stop /\ e = IF s + (n - 1) <= stop THEN s + (n - 1) ELSE stop
  BY <1>1, LimitedIs
<1> HIDE DEF e
<1>3. e \in Nat /\ s <= e /\ end = position(s, e, ~v) /\ (~v) \in BOOLEAN
  BY <1>2 DEF Behind, e
<1>4. FindsFirst(end, s, s, e, ~v) /\ end.reads \subseteq Within(s, e)
  BY <1>3, PositionFinds
<1>5. end.reads \subseteq Within(s, stop)
  BY <1>2, <1>3, <1>4, WithinGrows
<1>6. \A i : i \in H <=> i \in s .. (e - 1) /\ (i \in mem <=> ~v)
  BY <1>3 DEF Hits
<1>7. /\ H = {} => end.off = None
      /\ \A i : IsLeast(i, H) => end.off = Some(i - s)
  BY <1>4 DEF FindsFirst
<1>8. LongEnough(end, s, n) <=> IF end.off # None THEN Min(end.off) >= n - 1 ELSE stop - s >= n - 1
  BY DEF LongEnough
<1>9. H # {} => \E i : IsLeast(i, H)
  BY <1>3, LeastHit
<1> HIDE DEF H, end
<1>10. CASE H = {}
  <2>1. end.off = None
    BY <1>7, <1>10
  <2>2. \A i \in s .. (e - 1) : i \in mem <=> v
    BY <1>6, <1>10
  <2>3. ASSUME LongEnough(end, s, n)
        PROVE  s + n - 1 <= stop /\ \A i \in s .. (s + n - 2) : i \in mem <=> v
    <3>1. stop - s >= n - 1
      BY <1>8, <2>1, <2>3
    <3>2. e = s + (n - 1)
      BY <1>2, <3>1
    <3> QED BY <2>2, <3>1, <3>2
  <2>4. ~LongEnough(end, s, n) => stop - s < n - 1
    BY <1>8, <2>1
  <2> QED BY <1>5, <2>1, <2>3, <2>4 DEF end
<1>11. CASE H # {}
  <2>1. PICK i : IsLeast(i, H)
    BY <1>9, <1>11
  <2> DEFINE t == i - s
  <2>2. i \in s .. (e - 1) /\ (i \in mem <=> ~v) /\ \A j \in H : i <= j
    BY <1>6, <2>1 DEF IsLeast
  <2>3. end.off = Some(t) /\ t \in Int /\ s + t = i
    BY <1>3, <1>7, <2>1, <2>2
  <2>4. end.off # None /\ Min(end.off) = t
    BY <2>3, SomeIs
  <2>5. t \in 0 .. (n - 2) /\ s + t < stop
    BY <1>2, <2>2
  <2>6. \A j \in s .. (s + t - 1) : j \in mem <=> v
    <3> SUFFICES ASSUME NEW j \in s .. (i - 1), ~(j \in mem <=> v) PROVE FALSE
      BY <2>3
    <3>1. j \in H
      BY <1>3, <1>6, <2>2
    <3> QED BY <2>2, <3>1
  <2>7. ~LongEnough(end, s, n)
    BY <1>8, <2>4, <2>5
  <2> HIDE DEF t
  <2> QED BY <1>5, <2>2, <2>3, <2>4, <2>5, <2>6, <2>7 DEF end
<1> QED BY <1>10, <1>11

(* The bits from s on at which n bits v lie next to each other. *)
SlotsFrom(s, v, n) == {i \in s .. (stop - n) : \A j \in i .. (i + n - 1) : j \in mem <=> v}

(* What a search for n bits v from bit s on, which has the index o, finds. *)
FindsSlot(p, o, s, v, n) ==
  /\ SlotsFrom(s, v, n) = {} => p.off = None /\ p.start = stop
  /\ \A i : IsLeast(i, SlotsFrom(s, v, n)) => p.off = Some(o + (i - s)) /\ p.start = i + n
  /\ p.reads \subseteq Within(s, stop)

(* The outcomes of a search. *)
Outcomes == [off : SUBSET Int, start : Int, reads : SUBSET Nat]

LEMMA ReadingOutcome ==
  ASSUME NEW p \in Outcomes, NEW more \in SUBSET Nat
  PROVE  /\ Reading(p.reads \cup more, p) \in Outcomes
         /\ Reading(p.reads \cup more, p).off = p.off
         /\ Reading(p.reads \cup more, p).start = p.start
         /\ Reading(p.reads \cup more, p).reads = p.reads \cup more
BY ReadingFields DEF Reading, Outcomes

LEMMA PositionOutcome ==
  ASSUME NEW s \in Nat, NEW e \in Nat, s <= e, NEW v \in BOOLEAN
  PROVE  position(s, e, v) \in Outcomes
<1> DEFINE p == position(s, e, v)
           H == Hits(s, e, v)
<1>1. /\ H = {} => p.off = None /\ p.start = e
      /\ \A i : IsLeast(i, H) => p.off = Some(i - s) /\ p.start = i + 1
  BY PositionFinds DEF FindsFirst
<1>2. p.reads \subseteq Within(s, e) /\ ReadingIs(p)
  BY PositionFinds
<1>3. H # {} => \E i : IsLeast(i, H)
  BY LeastHit
<1>4. H \subseteq Nat
  BY HitsAre
<1> HIDE DEF p, H
<1>5. p.off \in SUBSET Int /\ p.start \in Int
  <2>1. CASE H = {}
    BY <1>1, <2>1 DEF None
  <2>2. CASE H # {}
    <3>1. PICK i : IsLeast(i, H)
      BY <1>3, <2>2
    <3>2. i \in Nat /\ p.off = Some(i - s) /\ p.start = i + 1
      BY <1>1, <1>4, <3>1 DEF IsLeast
    <3> QED BY <3>2 DEF Some
  <2> QED BY <2>1, <2>2
<1>6. p.reads \in SUBSET Nat
  BY <1>2 DEF Within
<1>7. p = [off |-> p.off, start |-> p.start, reads |-> p.reads]
  BY <1>2 DEF ReadingIs, Reading
<1> QED BY <1>5, <1>6, <1>7 DEF Outcomes, p

LEMMA SlotsAre ==
  ASSUME NEW s \in Int, stop \in Int, NEW v \in BOOLEAN, NEW n \in Int
  PROVE  \A i : i \in SlotsFrom(s, v, n) <=>
                  /\ i \in Int /\ s <= i /\ i + n <= stop
                  /\ \A j \in i .. (i + n - 1) : j \in mem <=> v
BY DEF SlotsFrom

(* When no slot begins before bit t, the search from t on finds what the   *)
(* one from s on does.                                                     *)
LEMMA SlotsLater ==
  ASSUME NEW s \in Nat, stop \in Nat, NEW v \in BOOLEAN, NEW n \in Nat \ {0},
         NEW t \in s .. stop, NEW p \in Outcomes, NEW o \in Int, NEW more
             \in SUBSET Within(s, stop),
         \A i \in SlotsFrom(s, v, n) : t <= i,
         FindsSlot(p, o + (t - s), t, v, n)
  PROVE  FindsSlot(Reading(p.reads \cup more, p), o, s, v, n)
<1> DEFINE q == Reading(p.reads \cup more, p)
<1>0. more \in SUBSET Nat /\ p.reads \subseteq Within(t, stop)
  BY DEF FindsSlot, Within
<1>1. q.off = p.off /\ q.start = p.start /\ q.reads = p.reads \cup more
  BY <1>0, ReadingOutcome
<1>2. SlotsFrom(t, v, n) = SlotsFrom(s, v, n)
  <2>1. /\ \A i : i \in SlotsFrom(s, v, n) <=>
                  /\ i \in Int /\ s <= i /\ i + n <= stop
                  /\ \A j \in i .. (i + n - 1) : j \in mem <=> v
        /\ \A i : i \in SlotsFrom(t, v, n) <=>
                  /\ i \in Int /\ t <= i /\ i + n <= stop
                  /\ \A j \in i .. (i + n - 1) : j \in mem <=> v
    BY SlotsAre
  <2>2. \A i : i \in SlotsFrom(t, v, n) <=> i \in SlotsFrom(s, v, n)
    BY <2>1
  <2> QED BY <2>2
<1>3. Within(t, stop) \subseteq Within(s, stop)
  BY WithinGrows
<1> HIDE DEF q
<1>4. ASSUME NEW i, IsLeast(i, SlotsFrom(s, v, n))
      PROVE  q.off = Some(o + (i - s)) /\ q.start = i + n
  <2>1. i \in Int
    BY <1>4, SlotsAre DEF IsLeast
  <2>2. p.off = Some((o + (t - s)) + (i - t)) /\ p.start = i + n
    BY <1>2, <1>4 DEF FindsSlot
  <2>3. (o + (t - s)) + (i - t) = o + (i - s)
    BY <2>1
  <2> QED BY <1>1, <2>2, <2>3
<1> QED BY <1>0, <1>1, <1>2, <1>3, <1>4 DEF FindsSlot, q

(* A round of find_continuous_slot ends the search, or hands it on to a    *)
(* later bit.                                                              *)
LEMMA SlotRound ==
  ASSUME stop \in Nat, NEW s \in 0 .. stop, NEW v \in BOOLEAN, NEW n \in Nat \ {0},
         NEW o \in Nat
  PROVE  \/ \E q \in Outcomes :
              /\ FindsSlot(q, o, s, v, n)
              /\ \A f : slot_round(f, v, n, s, o) = q
         \/ \E t \in (s + 1) .. stop, j \in Nat, more \in SUBSET Within(s, stop) :
              /\ \A f : slot_round(f, v, n, s, o) = Reading(f[t][j].reads \cup more, f[t][j])
              /\ \A p \in Outcomes : FindsSlot(p, j, t, v, n) =>
                   FindsSlot(Reading(p.reads \cup more, p), o, s, v, n)
<1> DEFINE here == position(s, stop, v)
           H == Hits(s, stop, v)
           end == Behind(here.start, v, n)
           at == o + Min(here.off)
           seen == here.reads \cup end.reads
<1>1. /\ H = {} => here.off = None /\ here.start = stop
      /\ \A i : IsLeast(i, H) => here.off = Some(i - s) /\ here.start = i + 1
      /\ here.reads \subseteq Within(s, stop)
  BY PositionFinds DEF FindsFirst
<1>2. here \in Outcomes
  BY PositionOutcome
<1>3. \A i : i \in H <=> i \in s .. (stop - 1) /\ (i \in mem <=> v)
  BY HitsAre
<1>4. \A i : i \in SlotsFrom(s, v, n) <=>
                  /\ i \in Int /\ s <= i /\ i + n <= stop
                  /\ \A j \in i .. (i + n - 1) : j \in mem <=> v
  BY SlotsAre
<1>5. SlotsFrom(s, v, n) \subseteq H
  <2> SUFFICES ASSUME NEW i \in SlotsFrom(s, v, n) PROVE i \in H
    OBVIOUS
  <2>1. i \in i .. (i + n - 1) /\ i \in s .. (stop - 1)
    BY <1>4
  <2> QED BY <1>3, <1>4, <2>1
<1>6. H # {} => \E i : IsLeast(i, H)
  BY LeastHit
<1>7. \A f : slot_round(f, v, n, s, o) =
         IF here.off = None THEN here
         ELSE IF LongEnough(end, here.start, n)
         THEN Reading(seen, [off |-> Some(at), start |-> here.start + n - 1])
         ELSE IF end.off # None
         THEN Reading(f[here.start + Min(end.off)][at + Min(end.off) + 1].reads \cup seen,
                      f[here.start + Min(end.off)][at + Min(end.off) + 1])
         ELSE Reading(f[here.start][at].reads \cup seen, f[here.start][at])
  BY DEF slot_round
<1> HIDE DEF here, H, end, at, seen
<1>8. CASE H = {}
  <2>1. here.off = None /\ here.start = stop /\ SlotsFrom(s, v, n) = {}
    BY <1>1, <1>5, <1>8
  <2>2. FindsSlot(here, o, s, v, n)
    BY <1>1, <2>1 DEF FindsSlot, IsLeast
  <2>3. \A f : slot_round(f, v, n, s, o) = here
    BY <1>7, <2>1
  <2> QED BY <1>2, <2>2, <2>3
<1>9. CASE H # {}
  <2>1. PICK i : IsLeast(i, H)
    BY <1>6, <1>9
  <2>2. i \in s .. (stop - 1) /\ (i \in mem <=> v) /\ \A k \in H : i <= k
    BY <1>3, <2>1 DEF IsLeast
  <2>3. here.off = Some(i - s) /\ here.start = i + 1 /\ i + 1 \in Nat /\ i + 1 <= stop
    BY <1>1, <2>1, <2>2
  <2>4. here.off # None /\ at = o + (i - s) /\ at \in Nat
    <3>1. here.off # None /\ Min(here.off) = i - s
      BY <2>2, <2>3, SomeIs
    <3> QED BY <2>2, <3>1 DEF at
  <2>5. /\ end.reads \subseteq Within(i + 1, stop)
        /\ LongEnough(end, i + 1, n) =>
             i + 1 + n - 1 <= stop /\ \A j \in (i + 1) .. (i + 1 + n - 2) : j \in mem <=> v
        /\ ~LongEnough(end, i + 1, n) /\ end.off = None => stop - (i + 1) < n - 1
        /\ ~LongEnough(end, i + 1, n) /\ end.off # None =>
             \E t \in 0 .. (n - 2) :
               /\ end.off = Some(t) /\ Min(end.off) = t
               /\ i + 1 + t < stop /\ (i + 1 + t \in mem <=> ~v)
               /\ \A j \in (i + 1) .. (i + 1 + t - 1) : j \in mem <=> v
    <3> DEFINE k == i + 1
    <3>1. end = Behind(k, v, n) /\ k \in Nat /\ k <= stop
      BY <2>3 DEF end
    <3> HIDE DEF k
    <3>2. /\ end.reads \subseteq Within(k, stop)
          /\ LongEnough(end, k, n) =>
               k + n - 1 <= stop /\ \A j \in k .. (k + n - 2) : j \in mem <=> v
          /\ ~LongEnough(end, k, n) /\ end.off = None => stop - k < n - 1
          /\ ~LongEnough(end, k, n) /\ end.off # None =>
               \E t \in 0 .. (n - 2) :
                 /\ end.off = Some(t) /\ Min(end.off) = t
                 /\ k + t < stop /\ (k + t \in mem <=> ~v)
                 /\ \A j \in k .. (k + t - 1) : j \in mem <=> v
      BY <3>1, BehindIs
    <3> QED BY <3>2 DEF k
  <2>6. seen \subseteq Within(s, stop) /\ seen \in SUBSET Nat
    <3>1. Within(i + 1, stop) \subseteq Within(s, stop)
      BY <2>2, <2>3, WithinGrows
    <3> QED BY <1>1, <2>5, <3>1 DEF seen, Within
  <2>7. CASE LongEnough(end, i + 1, n)
    <3> DEFINE q == Reading(seen, [off |-> Some(at), start |-> i + n])
    <3>1. i + 1 + n - 1 = i + n
      BY <2>2
    <3>2. \A f : slot_round(f, v, n, s, o) = q
      BY <1>7, <2>3, <2>4, <2>7, <3>1
    <3>3. q = [off |-> Some(at), start |-> i + n, reads |-> seen]
      BY DEF Reading
    <3>4. q \in Outcomes /\ q.off = Some(at) /\ q.start = i + n /\ q.reads = seen
      <4>1. Some(at) \in SUBSET Int /\ i + n \in Int
        BY <2>2, <2>4 DEF Some
      <4> HIDE DEF q
      <4>2. q.off = Some(at) /\ q.start = i + n /\ q.reads = seen
        BY <3>3
      <4>3. q \in Outcomes
        BY <2>6, <3>3, <4>1 DEF Outcomes
      <4> QED BY <4>2, <4>3
    <3>5. \A j \in i .. (i + n - 1) : j \in mem <=> v
      BY <2>2, <2>5, <2>7
    <3>6. i \in SlotsFrom(s, v, n)
      BY <1>4, <2>2, <2>5, <2>7, <3>5
    <3>7. ASSUME NEW k, IsLeast(k, SlotsFrom(s, v, n)) PROVE k = i
      BY <1>4, <1>5, <2>2, <3>6, <3>7 DEF IsLeast
    <3> HIDE DEF q
    <3>8. FindsSlot(q, o, s, v, n)
      BY <2>4, <2>6, <3>4, <3>6, <3>7 DEF FindsSlot
    <3> QED BY <3>2, <3>4, <3>8
  <2>8. CASE ~LongEnough(end, i + 1, n) /\ end.off = None
    <3>1. \A f : slot_round(f, v, n, s, o) = Reading(f[i + 1][at].reads \cup seen, f[i + 1][at])
      BY <1>7, <2>3, <2>4, <2>8
    <3>2. SlotsFrom(s, v, n) = {} /\ SlotsFrom(i + 1, v, n) = {}
      <4>1. stop - i < n
        BY <2>2, <2>5, <2>8
      <4>2. \A k \in SlotsFrom(s, v, n) : FALSE
        BY <1>4, <1>5, <2>2, <4>1
      <4>3. \A k \in SlotsFrom(i + 1, v, n) : FALSE
        BY <2>2, <4>1, SlotsAre
      <4> QED BY <4>2, <4>3
    <3>3. ASSUME NEW p \in Outcomes, FindsSlot(p, at, i + 1, v, n)
          PROVE  FindsSlot(Reading(p.reads \cup seen, p), o, s, v, n)
      <4>1. Within(i + 1, stop) \subseteq Within(s, stop)
        BY <2>2, <2>3, WithinGrows
      <4> DEFINE q == Reading(p.reads \cup seen, p)
      <4>2. q.off = p.off /\ q.start = p.start /\ q.reads = p.reads \cup seen
        BY <2>6, ReadingOutcome
      <4> HIDE DEF q
      <4>3. p.off = None /\ p.start = stop /\ p.reads \subseteq Within(i + 1, stop)
        BY <3>2, <3>3 DEF FindsSlot
      <4> QED BY <2>6, <3>2, <4>1, <4>2, <4>3 DEF FindsSlot, IsLeast, q
    <3>4. i + 1 \in (s + 1) .. stop
      BY <2>2
    <3> QED BY <2>4, <2>6, <3>1, <3>3, <3>4
  <2>9. CASE ~LongEnough(end, i + 1, n) /\ end.off # None
    <3>1. PICK t \in 0 .. (n - 2) :
               /\ end.off = Some(t) /\ Min(end.off) = t
               /\ i + 1 + t < stop /\ (i + 1 + t \in mem <=> ~v)
               /\ \A j \in (i + 1) .. (i + 1 + t - 1) : j \in mem <=> v
      BY <2>5, <2>9
    <3> DEFINE far == i + 1 + t
               j == at + t + 1
    <3>2. \A f : slot_round(f, v, n, s, o) = Reading(f[far][j].reads \cup seen, f[far][j])
      BY <1>7, <2>3, <2>4, <2>9, <3>1
    <3>3. far \in (s + 1) .. stop /\ far \in s .. stop /\ j \in Nat /\ j = o + (far - s)
          /\ o \in Int
      BY <2>2, <2>4, <3>1
    <3>4. ASSUME NEW k \in SlotsFrom(s, v, n) PROVE far <= k
      <4>1. k \in Int /\ i <= k /\ \A b \in k .. (k + n - 1) : b \in mem <=> v
        BY <1>4, <1>5, <2>2
      <4> SUFFICES ASSUME k < far PROVE FALSE
        BY <3>3, <4>1
      <4>2. far \in k .. (k + n - 1)
        BY <2>2, <3>1, <4>1
      <4> QED BY <3>1, <4>1, <4>2
    <3> HIDE DEF far, j
    <3>5. ASSUME NEW p \in Outcomes, FindsSlot(p, j, far, v, n)
          PROVE  FindsSlot(Reading(p.reads \cup seen, p), o, s, v, n)
      <4>1. FindsSlot(p, o + (far - s), far, v, n)
        BY <3>3, <3>5
      <4>2. /\ s \in Nat /\ far \in s .. stop /\ o \in Int /\ seen \in SUBSET Within(s, stop)
            /\ \A b \in SlotsFrom(s, v, n) : far <= b
        BY <2>6, <3>3, <3>4
      <4> QED BY <4>1, <4>2, SlotsLater
    <3> QED BY <2>6, <3>2, <3>3, <3>5
  <2> QED BY <2>7, <2>8, <2>9
<1> QED BY <1>8, <1>9

LEMMA SearchesExist == [0 .. stop -> [Nat -> Outcomes]] # {}
<1> DEFINE q == [off |-> {}, start |-> 0, reads |-> {}]
<1>1. q \in Outcomes
  BY DEF Outcomes
<1> HIDE DEF q
<1>2. [o \in Nat |-> q] \in [Nat -> Outcomes]
  BY <1>1
<1>3. [s \in 0 .. stop |-> [o \in Nat |-> q]] \in [0 .. stop -> [Nat -> Outcomes]]
  BY <1>2
<1> QED BY <1>3

Searches == [0 .. stop -> [Nat -> Outcomes]]

(* The rounds of a search have a function that solves their equation.      *)
LEMMA SearchRecursion ==
  ASSUME stop \in Nat, NEW B, LooksAhead(stop, Searches, B)
  PROVE  \E f \in Searches : f = B[f]
<1> DEFINE W == [Nat -> Outcomes]
<1>1. Searches = [0 .. stop -> W] /\ Searches # {}
  BY SearchesExist DEF Searches
<1> HIDE DEF W
<1> QED BY <1>1, Recursion

(* The rounds of find_continuous_slot, taken together, are a function that *)
(* the equation of slot_search has as a solution.                          *)
LEMMA SlotSearchIs ==
  ASSUME stop \in Nat, NEW v \in BOOLEAN, NEW n \in Nat \ {0}
  PROVE  LET f == slot_search(v, n)
         IN  f = [s \in 0 .. stop |-> [o \in Nat |-> slot_round(f, v, n, s, o)]]
<1> DEFINE V == [Nat -> Outcomes]
           F == Searches
           All(f) == [s \in 0 .. stop |-> [o \in Nat |-> slot_round(f, v, n, s, o)]]
           B == [f \in F |-> All(f)]
<1> USE DEF Searches
<1>1. ASSUME NEW f \in F, NEW s \in 0 .. stop, NEW o \in Nat
      PROVE  slot_round(f, v, n, s, o) \in Outcomes
  <2>1. CASE \E q \in Outcomes :
         FindsSlot(q, o, s, v, n) /\ \A h : slot_round(h, v, n, s, o) = q
    BY <2>1
  <2>2. CASE \E t \in (s + 1) .. stop, j \in Nat, more \in SUBSET Within(s, stop) :
         /\ \A h : slot_round(h, v, n, s, o) = Reading(h[t][j].reads \cup more, h[t][j])
         /\ \A p \in Outcomes : FindsSlot(p, j, t, v, n) =>
              FindsSlot(Reading(p.reads \cup more, p), o, s, v, n)
    <3>1. PICK t \in (s + 1) .. stop, j \in Nat, more \in SUBSET Within(s, stop) :
                 slot_round(f, v, n, s, o) = Reading(f[t][j].reads \cup more, f[t][j])
      BY <2>2
    <3>2. t \in 0 .. stop /\ more \in SUBSET Nat
      BY DEF Within
    <3>3. f[t][j] \in Outcomes
      BY <3>2
    <3> QED BY <3>1, <3>2, <3>3, ReadingOutcome
  <2> QED BY <2>1, <2>2, SlotRound
<1>2. ASSUME NEW f \in F PROVE All(f) \in F
  BY <1>1
<1>3. B \in [F -> F]
  BY <1>2
<1>4. ASSUME NEW f \in F, NEW g \in F, NEW s \in 0 .. stop,
             \A t \in (s + 1) .. stop : f[t] = g[t]
      PROVE  B[f][s] = B[g][s]
  <2>1. ASSUME NEW o \in Nat PROVE slot_round(f, v, n, s, o) = slot_round(g, v, n, s, o)
    <3>1. CASE \E q \in Outcomes :
         FindsSlot(q, o, s, v, n) /\ \A h : slot_round(h, v, n, s, o) = q
      BY <3>1
    <3>2. CASE \E t \in (s + 1) .. stop, j \in Nat, more \in SUBSET Within(s, stop) :
         /\ \A h : slot_round(h, v, n, s, o) = Reading(h[t][j].reads \cup more, h[t][j])
         /\ \A p \in Outcomes : FindsSlot(p, j, t, v, n) =>
              FindsSlot(Reading(p.reads \cup more, p), o, s, v, n)
      <4>1. PICK t \in (s + 1) .. stop, j \in Nat, more \in SUBSET Within(s, stop) :
                 \A h : slot_round(h, v, n, s, o) = Reading(h[t][j].reads \cup more, h[t][j])
        BY <3>2
      <4>2. f[t] = g[t]
        BY <1>4
      <4> QED BY <4>1, <4>2
    <3> QED BY <3>1, <3>2, SlotRound
  <2>2. All(f)[s] = All(g)[s]
    BY <2>1
  <2> QED BY <2>2
<1>5. LooksAhead(stop, Searches, B)
  BY <1>3, <1>4 DEF LooksAhead
<1> HIDE DEF B
<1>6. \E f \in Searches : f = B[f]
  BY <1>5, SearchRecursion
<1>7. \E f : f = All(f)
  BY <1>6 DEF B
<1>8. slot_search(v, n) = CHOOSE f : f = All(f)
  BY DEF slot_search
<1> HIDE DEF All
<1>9. slot_search(v, n) = All(slot_search(v, n))
  BY <1>7, <1>8, Zenon
<1> QED BY <1>9 DEF All

(* find_continuous_slot finds the first slot that there is, and reads no   *)
(* word outside the window.                                                *)
LEMMA SlotFinds ==
  ASSUME stop \in Nat, NEW v \in BOOLEAN, NEW n \in Nat \ {0},
         NEW s \in 0 .. stop, NEW o \in Nat
  PROVE  /\ slot_search(v, n)[s][o] \in Outcomes
         /\ FindsSlot(slot_search(v, n)[s][o], o, s, v, n)
<1> DEFINE f == slot_search(v, n)
           Found(t, j) == f[t][j] \in Outcomes /\ FindsSlot(f[t][j], j, t, v, n)
           S == {t \in 0 .. stop : \A j \in Nat : Found(t, j)}
<1>1. f = [t \in 0 .. stop |-> [j \in Nat |-> slot_round(f, v, n, t, j)]]
  BY SlotSearchIs
<1> HIDE DEF f
<1>2. ASSUME NEW t \in 0 .. stop, NEW j \in Nat PROVE f[t][j] = slot_round(f, v, n, t, j)
  <2>1. f[t] = [k \in Nat |-> slot_round(f, v, n, t, k)]
    BY <1>1, Zenon
  <2> QED BY <2>1
<1>3. ASSUME NEW t \in 0 .. stop, \A u \in (t + 1) .. stop : u \in S PROVE t \in S
  <2> SUFFICES ASSUME NEW j \in Nat PROVE Found(t, j)
    OBVIOUS
  <2>1. CASE \E q \in Outcomes :
              FindsSlot(q, j, t, v, n) /\ \A h : slot_round(h, v, n, t, j) = q
    BY <1>2, <2>1
  <2>2. CASE \E u \in (t + 1) .. stop, k \in Nat, more \in SUBSET Within(t, stop) :
              /\ \A h : slot_round(h, v, n, t, j) = Reading(h[u][k].reads \cup more, h[u][k])
              /\ \A p \in Outcomes : FindsSlot(p, k, u, v, n) =>
                   FindsSlot(Reading(p.reads \cup more, p), j, t, v, n)
    <3>1. PICK u \in (t + 1) .. stop, k \in Nat, more \in SUBSET Within(t, stop) :
              /\ slot_round(f, v, n, t, j) = Reading(f[u][k].reads \cup more, f[u][k])
              /\ \A p \in Outcomes : FindsSlot(p, k, u, v, n) =>
                   FindsSlot(Reading(p.reads \cup more, p), j, t, v, n)
      BY <2>2
    <3>2. Found(u, k)
      BY <1>3
    <3>3. more \in SUBSET Nat
      BY DEF Within
    <3>4. Reading(f[u][k].reads \cup more, f[u][k]) \in Outcomes
      BY <3>2, <3>3, ReadingOutcome
    <3>5. f[t][j] = Reading(f[u][k].reads \cup more, f[u][k])
      BY <1>2, <3>1
    <3> QED BY <3>1, <3>2, <3>4, <3>5
  <2> QED BY <2>1, <2>2, SlotRound
<1>4. 0 .. stop \subseteq S
  <2> HIDE DEF S
  <2> QED BY <1>3, Downward
<1> QED BY <1>4 DEF f

(* The first multiple of a that is not below x.                            *)
UpTo(x, a) == x + (IF (x % a) = 0 THEN 0 ELSE a - (x % a))

LEMMA UpToIs ==
  ASSUME NEW x \in Nat, NEW a \in Nat \ {0}
  PROVE  /\ UpTo(x, a) \in x .. (x + a - 1) /\ (UpTo(x, a) % a) = 0
         /\ \A y \in Nat : x <= y /\ (y % a) = 0 => UpTo(x, a) <= y
<1> DEFINE q == x \div a
           r == x % a
<1>1. q \in Nat /\ r \in Nat /\ r < a /\ x = q * a + r
  BY DivSplit
<1>2. (q + 1) * a = q * a + a /\ q * a \in Nat
  BY <1>1, TimesNext
<1> HIDE DEF q
<1>3. UpTo(x, a) = x + (IF r = 0 THEN 0 ELSE a - r)
  BY DEF UpTo
<1> HIDE DEF r
<1>4. CASE r = 0
  <2>1. UpTo(x, a) = x /\ (x % a) = 0
    BY <1>3, <1>4 DEF r
  <2> QED BY <2>1
<1>5. CASE r # 0
  <2> DEFINE m == q + 1
             u == UpTo(x, a)
  <2>1. u = x + (a - r) /\ u = m * a /\ u = m * a + 0 /\ m \in Nat /\ u \in Nat
    BY <1>1, <1>2, <1>3, <1>5
  <2>2. u \in x .. (x + a - 1)
    BY <1>1, <1>5, <2>1
  <2> HIDE DEF m, u
  <2>3. (u % a) = 0
    <3>1. a > 0 /\ 0 \in Nat /\ 0 < a /\ u = m * a + 0
      BY <2>1
    <3> QED BY <2>1, <3>1, DivUnique
  <2>4. ASSUME NEW y \in Nat, x <= y, (y % a) = 0 PROVE u <= y
    <3> DEFINE k == y \div a
    <3>1. k \in Nat /\ y = k * a /\ k * a \in Nat
      <4>1. k \in Nat /\ y = k * a + (y % a)
        BY DivSplit
      <4> QED BY <2>4, <4>1
    <3> HIDE DEF k
    <3>2. ASSUME k <= q PROVE FALSE
      <4>1. k * a <= q * a
        BY <1>1, <3>1, <3>2, TimesMono
      <4> QED BY <1>1, <1>2, <1>5, <2>4, <3>1, <4>1
    <3>3. m <= k
      BY <1>1, <2>1, <3>1, <3>2 DEF m
    <3>4. m * a <= k * a
      BY <2>1, <3>1, <3>3, TimesMono
    <3> QED BY <2>1, <3>1, <3>4
  <2> QED BY <2>2, <2>3, <2>4 DEF u
<1> QED BY <1>4, <1>5

-----------------------------------------------------------------------------
(* Aligned slots. *)

AlignedFrom(s, v, n, a) == {i \in SlotsFrom(s, v, n) : ((i - start) % a) = 0}

(* Every run of bits v reaches up to an aligned bit, or to the end.        *)
RunsReach(v, a) ==
  \A i \in start .. (stop - 1) :
    (i \in mem <=> v) /\ (i = start \/ ~(i - 1 \in mem <=> v)) =>
      \A j \in i .. (i + a - 1) : ((j - start) % a) = 0 /\ j < stop => (j \in mem <=> v)

(* No run of bits v goes on at bit s: the search begins there, or the bit  *)
(* is a wrong one.                                                         *)
Fresh(s, v) == s = start \/ (s < stop /\ ~(s \in mem <=> v))

(* When the index o is that of bit s and no run is cut by s. *)
InStep(o, s, v, a) == RunsReach(v, a) /\ start <= s /\ o = s - start /\ Fresh(s, v)

(* What a search for n bits v at an aligned index, from bit s with index o,*)
(* finds.  The index may have fallen behind; then it is only known that    *)
(* nothing is found where no slot is.                                      *)
FindsAligned(p, o, s, v, n, a) ==
  /\ p.off = None \/ \E x \in o .. (o + (stop - s)) : p.off = Some(x)
  /\ p.start \in s .. stop
  /\ p.reads \subseteq Within(s, stop)
  /\ SlotsFrom(s, v, n) = {} => p.off = None /\ p.start = stop
  /\ InStep(o, s, v, a) =>
       /\ AlignedFrom(s, v, n, a) = {} => p.off = None /\ p.start = stop
       /\ \A i : IsLeast(i, AlignedFrom(s, v, n, a)) => p.off = Some(i - start) /\ p.start = i + n

(* A search that goes on from bit t finds what one from bit s is to find,  *)
(* when there is no slot in between.                                       *)
LEMMA AlignedLater ==
  ASSUME stop \in Nat, start \in Nat, NEW v \in BOOLEAN, NEW n \in Nat \ {0}, NEW a \in Nat \ {0},
         NEW s \in 0 .. stop, NEW t \in s .. stop, NEW o \in Nat, NEW j \in Nat,
         j \in o .. (o + (t - s)), NEW p \in Outcomes, NEW more \in SUBSET Within(s, stop),
         InStep(o, s, v, a) =>
           \/ AlignedFrom(s, v, n, a) = {} /\ SlotsFrom(t, v, n) = {}
           \/ InStep(j, t, v, a) /\ \A i \in AlignedFrom(s, v, n, a) : t <= i,
         FindsAligned(p, j, t, v, n, a)
  PROVE  FindsAligned(Reading(p.reads \cup more, p), o, s, v, n, a)
<1> DEFINE q == Reading(p.reads \cup more, p)
<1>0. more \in SUBSET Nat /\ p.reads \subseteq Within(t, stop)
  BY DEF FindsAligned, Within
<1>1. q.off = p.off /\ q.start = p.start /\ q.reads = p.reads \cup more
  BY <1>0, ReadingOutcome
<1>2. /\ \A i : i \in SlotsFrom(s, v, n) <=>
                  /\ i \in Int /\ s <= i /\ i + n <= stop
                  /\ \A b \in i .. (i + n - 1) : b \in mem <=> v
      /\ \A i : i \in SlotsFrom(t, v, n) <=>
                  /\ i \in Int /\ t <= i /\ i + n <= stop
                  /\ \A b \in i .. (i + n - 1) : b \in mem <=> v
  BY SlotsAre
<1>3. SlotsFrom(t, v, n) \subseteq SlotsFrom(s, v, n)
  BY <1>2
<1>4. Within(t, stop) \subseteq Within(s, stop)
  BY WithinGrows
<1> HIDE DEF q
<1>5. q.off = None \/ \E x \in o .. (o + (stop - s)) : q.off = Some(x)
  <2>1. p.off = None \/ \E x \in j .. (j + (stop - t)) : p.off = Some(x)
    BY DEF FindsAligned
  <2>2. \A x \in j .. (j + (stop - t)) : x \in o .. (o + (stop - s))
    OBVIOUS
  <2> QED BY <1>1, <2>1, <2>2
<1>6. q.start \in s .. stop /\ q.reads \subseteq Within(s, stop)
  <2>1. p.start \in t .. stop
    BY DEF FindsAligned
  <2>2. p.start \in s .. stop
    BY <2>1
  <2> QED BY <1>0, <1>1, <1>4, <2>2
<1>7. SlotsFrom(s, v, n) = {} => q.off = None /\ q.start = stop
  BY <1>1, <1>3 DEF FindsAligned
<1>8. ASSUME InStep(o, s, v, a)
      PROVE  /\ AlignedFrom(s, v, n, a) = {} => q.off = None /\ q.start = stop
             /\ \A i : IsLeast(i, AlignedFrom(s, v, n, a)) =>
                         q.off = Some(i - start) /\ q.start = i + n
  <2>1. CASE AlignedFrom(s, v, n, a) = {} /\ SlotsFrom(t, v, n) = {}
    BY <1>1, <2>1 DEF FindsAligned, IsLeast
  <2>2. CASE InStep(j, t, v, a) /\ \A i \in AlignedFrom(s, v, n, a) : t <= i
    <3>1. AlignedFrom(s, v, n, a) = AlignedFrom(t, v, n, a)
      <4>1. \A i : i \in AlignedFrom(s, v, n, a) <=>
                     i \in SlotsFrom(s, v, n) /\ ((i - start) % a) = 0
        BY DEF AlignedFrom
      <4>2. \A i : i \in AlignedFrom(t, v, n, a) <=>
                     i \in SlotsFrom(t, v, n) /\ ((i - start) % a) = 0
        BY DEF AlignedFrom
      <4>3. \A i : i \in AlignedFrom(s, v, n, a) <=> i \in AlignedFrom(t, v, n, a)
        BY <1>2, <1>3, <2>2, <4>1, <4>2
      <4> HIDE DEF AlignedFrom
      <4> QED BY <4>3
    <3> QED BY <1>1, <2>2, <3>1 DEF FindsAligned
  <2> QED BY <1>8, <2>1, <2>2
<1> QED BY <1>5, <1>6, <1>7, <1>8 DEF FindsAligned, q

(* The search goes on at bit t with the index j, after the words more.     *)
Later(f, t, j, more) == Reading(f[t][j].reads \cup more, f[t][j])

(* A hit that is right before bit next is tried.                           *)
TryAligned(f, v, n, next, at, words_read) ==
  LET end == Behind(next, v, n)
  IN  IF LongEnough(end, next, n)
      THEN Reading(words_read \cup end.reads, [off |-> Some(at), start |-> next + n - 1])
      ELSE IF end.off # None
      THEN Later(f, next + Min(end.off), at + Min(end.off) + 1, words_read \cup end.reads)
      ELSE Later(f, next, at, words_read \cup end.reads)

(* q is what the search is to find. *)
Settles(q, o, s, v, n, a) == q \in Outcomes /\ FindsAligned(q, o, s, v, n, a)

(* What the search from bit t with index j finds, is what the one from s   *)
(* with index o is to find.                                                *)
PassesOn(t, j, more, o, s, v, n, a) ==
  /\ t \in (s + 1) .. stop /\ j \in Nat /\ more \in SUBSET Within(s, stop)
  /\ \A p \in Outcomes : FindsAligned(p, j, t, v, n, a) =>
       FindsAligned(Reading(p.reads \cup more, p), o, s, v, n, a)

(* A hit of the search from bit s with index o lies right before bit next, *)
(* has the index at, and was found in the words seen.                      *)
HitBefore(next, at, seen, o, s, v, n, a) ==
  /\ next \in (s + 1) .. stop /\ at \in o .. (o + (next - 1 - s))
  /\ seen \in SUBSET Within(s, stop)
  /\ next - 1 \in mem <=> v
  /\ InStep(o, s, v, a) => /\ at = next - 1 - start /\ (at % a) = 0
                           /\ \A k \in AlignedFrom(s, v, n, a) : next - 1 <= k

(* Trying it settles the search or passes it on.                           *)
TryEnds(next, at, seen, o, s, v, n, a) ==
  \/ \E q : Settles(q, o, s, v, n, a) /\ \A f : TryAligned(f, v, n, next, at, seen) = q
  \/ \E t, j, more :
       /\ PassesOn(t, j, more, o, s, v, n, a)
       /\ \A f : TryAligned(f, v, n, next, at, seen) = Later(f, t, j, more)

LEMMA TryFinds ==
  ASSUME stop \in Nat, start \in Nat, NEW v \in BOOLEAN, NEW n \in Nat \ {0}, NEW a \in Nat \ {0},
         NEW s \in 0 .. stop, NEW o \in Nat, NEW next, NEW at, NEW seen,
         HitBefore(next, at, seen, o, s, v, n, a)
  PROVE  TryEnds(next, at, seen, o, s, v, n, a)
<1> USE DEF HitBefore
<1> DEFINE end == Behind(next, v, n)
           more == seen \cup end.reads
<1>1. /\ end.reads \subseteq Within(next, stop)
      /\ LongEnough(end, next, n) =>
           next + n - 1 <= stop /\ \A j \in next .. (next + n - 2) : j \in mem <=> v
      /\ ~LongEnough(end, next, n) /\ end.off = None => stop - next < n - 1
      /\ ~LongEnough(end, next, n) /\ end.off # None =>
           \E t \in 0 .. (n - 2) :
             /\ end.off = Some(t) /\ Min(end.off) = t
             /\ next + t < stop /\ (next + t \in mem <=> ~v)
             /\ \A j \in next .. (next + t - 1) : j \in mem <=> v
  <2>1. next \in Nat /\ next <= stop
    OBVIOUS
  <2> QED BY <2>1, BehindIs
<1>2. \A f : TryAligned(f, v, n, next, at, seen) =
        IF LongEnough(end, next, n)
        THEN Reading(more, [off |-> Some(at), start |-> next + n - 1])
        ELSE IF end.off # None
        THEN Later(f, next + Min(end.off), at + Min(end.off) + 1, more)
        ELSE Later(f, next, at, more)
  BY DEF TryAligned
<1>3. more \in SUBSET Within(s, stop) /\ more \in SUBSET Nat
  <2>1. Within(next, stop) \subseteq Within(s, stop)
    BY WithinGrows
  <2> QED BY <1>1, <2>1 DEF Within
<1>4. /\ \A i : i \in SlotsFrom(s, v, n) <=>
                  /\ i \in Int /\ s <= i /\ i + n <= stop
                  /\ \A j \in i .. (i + n - 1) : j \in mem <=> v
      /\ \A i : i \in SlotsFrom(next, v, n) <=>
                  /\ i \in Int /\ next <= i /\ i + n <= stop
                  /\ \A j \in i .. (i + n - 1) : j \in mem <=> v
  BY SlotsAre
<1>5. \A i : i \in AlignedFrom(s, v, n, a) <=> i \in SlotsFrom(s, v, n) /\ ((i - start) % a) = 0
  BY DEF AlignedFrom
<1>6. at \in Nat /\ s \in Nat /\ next \in Nat
  OBVIOUS
<1> HIDE DEF end, more
<1>7. CASE LongEnough(end, next, n)
  <2> DEFINE i == next - 1
             q == Reading(more, [off |-> Some(at), start |-> i + n])
  <2>1. next + n - 1 = i + n /\ i \in s .. stop /\ i + n <= stop /\ i \in Int /\ s <= i
    BY <1>1, <1>7
  <2>2. \A f : TryAligned(f, v, n, next, at, seen) = q
    BY <1>2, <1>7, <2>1
  <2>3. q = [off |-> Some(at), start |-> i + n, reads |-> more]
    BY DEF Reading
  <2>4. Some(at) \in SUBSET Int /\ i + n \in Int
    BY <1>6, <2>1 DEF Some
  <2> HIDE DEF q
  <2>5. q \in Outcomes /\ q.off = Some(at) /\ q.start = i + n /\ q.reads = more
    <3>1. q \in Outcomes
      BY <1>3, <2>3, <2>4 DEF Outcomes
    <3> QED BY <2>3, <3>1
  <2>6. \A j \in i .. (i + n - 1) : j \in mem <=> v
    BY <1>1, <1>7
  <2>7. i \in SlotsFrom(s, v, n)
    <3> HIDE DEF i
    <3> QED BY <1>4, <2>1, <2>6
  <2>8. ASSUME InStep(o, s, v, a)
        PROVE  i \in AlignedFrom(s, v, n, a) /\ at = i - start
               /\ \A k : IsLeast(k, AlignedFrom(s, v, n, a)) => k = i
    <3>1. at = i - start /\ (at % a) = 0 /\ \A k \in AlignedFrom(s, v, n, a) : i <= k
      BY <2>8
    <3> HIDE DEF i
    <3>2. i \in AlignedFrom(s, v, n, a)
      BY <1>5, <2>7, <3>1
    <3>3. ASSUME NEW k, IsLeast(k, AlignedFrom(s, v, n, a)) PROVE k = i
      BY <1>4, <1>5, <2>1, <3>1, <3>2, <3>3 DEF IsLeast
    <3> QED BY <3>1, <3>2, <3>3
  <2>9. at \in o .. (o + (stop - s)) /\ i + n \in s .. stop
    BY <2>1
  <2> HIDE DEF i
  <2>10. FindsAligned(q, o, s, v, n, a)
    BY <1>3, <2>5, <2>7, <2>8, <2>9 DEF FindsAligned
  <2> QED BY <2>2, <2>5, <2>10 DEF Settles, TryEnds
<1>8. CASE ~LongEnough(end, next, n) /\ end.off = None
  <2>1. \A f : TryAligned(f, v, n, next, at, seen) = Later(f, next, at, more)
    BY <1>2, <1>8
  <2>2. ASSUME InStep(o, s, v, a)
        PROVE  AlignedFrom(s, v, n, a) = {} /\ SlotsFrom(next, v, n) = {}
    <3>1. stop - next < n - 1
      BY <1>1, <1>8
    <3>2. \A k \in AlignedFrom(s, v, n, a) : FALSE
      BY <1>4, <1>5, <2>2, <3>1
    <3>3. \A k \in SlotsFrom(next, v, n) : FALSE
      BY <1>4, <3>1
    <3> QED BY <3>2, <3>3
  <2>3. at \in o .. (o + (next - s)) /\ next \in s .. stop
    OBVIOUS
  <2>4. ASSUME NEW p \in Outcomes, FindsAligned(p, at, next, v, n, a)
        PROVE  FindsAligned(Reading(p.reads \cup more, p), o, s, v, n, a)
    BY <1>3, <1>6, <2>2, <2>3, <2>4, AlignedLater
  <2>5. next \in (s + 1) .. stop
    OBVIOUS
  <2>6. PassesOn(next, at, more, o, s, v, n, a)
    BY <1>3, <1>6, <2>4, <2>5 DEF PassesOn
  <2> QED BY <2>1, <2>6 DEF TryEnds
<1>9. CASE ~LongEnough(end, next, n) /\ end.off # None
  <2>1. PICK t \in 0 .. (n - 2) :
           /\ end.off = Some(t) /\ Min(end.off) = t
           /\ next + t < stop /\ (next + t \in mem <=> ~v)
           /\ \A j \in next .. (next + t - 1) : j \in mem <=> v
    BY <1>1, <1>9
  <2> DEFINE far == next + t
             j == at + t + 1
  <2>2. \A f : TryAligned(f, v, n, next, at, seen) = Later(f, far, j, more)
    BY <1>2, <1>9, <2>1
  <2>3. far \in (s + 1) .. stop /\ far \in s .. stop /\ far < stop /\ j \in Nat
        /\ j \in o .. (o + (far - s)) /\ ~(far \in mem <=> v)
    BY <1>6, <2>1
  <2>4. ASSUME InStep(o, s, v, a)
        PROVE  InStep(j, far, v, a) /\ \A k \in AlignedFrom(s, v, n, a) : far <= k
    <3>1. j = far - start
      BY <1>6, <2>1, <2>4
    <3>2. InStep(j, far, v, a)
      <4>1. start <= far
        BY <2>3, <2>4 DEF InStep
      <4> QED BY <2>3, <2>4, <3>1, <4>1 DEF InStep, Fresh
    <3>3. ASSUME NEW k \in AlignedFrom(s, v, n, a) PROVE far <= k
      <4>1. k \in Int /\ next - 1 <= k /\ \A b \in k .. (k + n - 1) : b \in mem <=> v
        BY <1>4, <1>5, <2>4
      <4> SUFFICES ASSUME k < far PROVE FALSE
        BY <2>3, <4>1
      <4>2. far \in k .. (k + n - 1)
        BY <1>6, <2>1, <4>1
      <4> QED BY <2>3, <4>1, <4>2
    <3> QED BY <3>2, <3>3
  <2> HIDE DEF far, j
  <2>5. ASSUME NEW p \in Outcomes, FindsAligned(p, j, far, v, n, a)
        PROVE  FindsAligned(Reading(p.reads \cup more, p), o, s, v, n, a)
    BY <1>3, <2>3, <2>4, <2>5, AlignedLater
  <2>6. PassesOn(far, j, more, o, s, v, n, a)
    BY <1>3, <2>3, <2>5 DEF PassesOn
  <2> QED BY <2>2, <2>6 DEF TryEnds
<1> QED BY <1>7, <1>8, <1>9

LEMMA SlotAlignRound ==
  ASSUME stop \in Nat, start \in Nat, NEW v \in BOOLEAN, NEW n \in Nat \ {0}, NEW a \in Nat \ {0},
         NEW s \in 0 .. stop, NEW o \in Nat
  PROVE  \/ \E q : Settles(q, o, s, v, n, a) /\ \A f : slot_align_round(f, v, n, a, s, o) = q
         \/ \E t, j, more :
              /\ PassesOn(t, j, more, o, s, v, n, a)
              /\ \A f : slot_align_round(f, v, n, a, s, o) = Later(f, t, j, more)
<1> DEFINE here == position(s, stop, v)
           H == Hits(s, stop, v)
           at == o + Min(here.off)
           fill == IF (at % a) = 0 THEN 0 ELSE a - (at % a)
           next == here.start + fill
           seen == here.reads \cup {word_index(next - 1)}
<1>0. s \in Nat /\ s <= stop
  OBVIOUS
<1>1. /\ H = {} => here.off = None /\ here.start = stop
      /\ \A i : IsLeast(i, H) => here.off = Some(i - s) /\ here.start = i + 1
      /\ here.reads \subseteq Within(s, stop)
  <2>1. FindsFirst(here, s, s, stop, v) /\ here.reads \subseteq Within(s, stop)
    BY <1>0, PositionFinds
  <2> HIDE DEF here, H
  <2>2. /\ H = {} => here.off = None /\ here.start = stop
        /\ \A i : IsLeast(i, H) => here.off = Some(i - s) /\ here.start = i + 1
    BY <2>1 DEF FindsFirst, H
  <2> QED BY <2>1, <2>2
<1>2. here \in Outcomes
  BY <1>0, PositionOutcome
<1>3. \A i : i \in H <=> i \in s .. (stop - 1) /\ (i \in mem <=> v)
  BY HitsAre
<1>4. \A i : i \in SlotsFrom(s, v, n) <=>
                  /\ i \in Int /\ s <= i /\ i + n <= stop
                  /\ \A j \in i .. (i + n - 1) : j \in mem <=> v
  BY SlotsAre
<1>5. SlotsFrom(s, v, n) \subseteq H
  <2> SUFFICES ASSUME NEW i \in SlotsFrom(s, v, n) PROVE i \in H
    OBVIOUS
  <2>1. i \in i .. (i + n - 1) /\ i \in s .. (stop - 1)
    BY <1>4
  <2> QED BY <1>3, <1>4, <2>1
<1>6. H # {} => \E i : IsLeast(i, H)
  BY <1>0, LeastHit
<1>7. \A i : i \in AlignedFrom(s, v, n, a) <=> i \in SlotsFrom(s, v, n) /\ ((i - start) % a) = 0
  BY DEF AlignedFrom
<1>8. \A f : slot_align_round(f, v, n, a, s, o) =
        IF here.off = None THEN here
        ELSE IF fill = 0 THEN TryAligned(f, v, n, here.start, at, here.reads)
        ELSE IF next - 1 >= stop THEN Reading(here.reads, FoundNothing(stop))
        ELSE IF (next - 1 \in mem) = v THEN TryAligned(f, v, n, next, at + fill, seen)
        ELSE Later(f, next, at + fill, seen)
  BY DEF slot_align_round, TryAligned, Later
<1> HIDE DEF here, H, at, fill, next, seen
<1>9. CASE H = {}
  <2>1. here.off = None /\ here.start = stop /\ SlotsFrom(s, v, n) = {}
        /\ AlignedFrom(s, v, n, a) = {}
    BY <1>1, <1>5, <1>7, <1>9
  <2>2. here.start \in s .. stop
    BY <2>1
  <2>3. FindsAligned(here, o, s, v, n, a)
    BY <1>1, <2>1, <2>2 DEF FindsAligned, IsLeast
  <2>4. \A f : slot_align_round(f, v, n, a, s, o) = here
    BY <1>8, <2>1
  <2> QED BY <1>2, <2>3, <2>4 DEF Settles
<1>10. CASE H # {}
  <2>1. PICK i : IsLeast(i, H)
    BY <1>6, <1>10
  <2>2. i \in s .. (stop - 1) /\ (i \in mem <=> v) /\ \A k \in H : i <= k
    BY <1>3, <2>1 DEF IsLeast
  <2>3. here.off = Some(i - s) /\ here.start = i + 1 /\ i + 1 \in Nat /\ i + 1 <= stop
    BY <1>1, <2>1, <2>2
  <2>4. here.off # None /\ at = o + (i - s) /\ at \in Nat
    <3>1. here.off # None /\ Min(here.off) = i - s
      BY <2>2, <2>3, SomeIs
    <3> QED BY <2>2, <3>1 DEF at
  <2>5. /\ at + fill \in at .. (at + a - 1) /\ ((at + fill) % a) = 0
        /\ \A y \in Nat : at <= y /\ (y % a) = 0 => at + fill <= y
    <3>1. UpTo(at, a) = at + fill
      BY DEF UpTo, fill
    <3>2. /\ UpTo(at, a) \in at .. (at + a - 1) /\ (UpTo(at, a) % a) = 0
          /\ \A y \in Nat : at <= y /\ (y % a) = 0 => UpTo(at, a) <= y
      BY <2>4, UpToIs
    <3> QED BY <3>1, <3>2
  <2>6. fill \in 0 .. (a - 1)
    <3>1. fill \in Int
      BY <2>4 DEF fill
    <3> QED BY <2>4, <2>5, <3>1
  <2>7. next = i + 1 + fill /\ next \in Nat /\ next - 1 = i + fill
    BY <2>2, <2>3, <2>6 DEF next
  (* In step, bit next - 1 is the first aligned one from the hit on.       *)
  <2>8. ASSUME InStep(o, s, v, a)
        PROVE  /\ at + fill = next - 1 - start
               /\ \A k \in AlignedFrom(s, v, n, a) : next - 1 <= k
               /\ next - 1 < stop => (next - 1 \in mem <=> v)
    <3>1. start <= s /\ o = s - start /\ Fresh(s, v) /\ RunsReach(v, a)
      BY <2>8 DEF InStep
    <3>2. at = i - start /\ at + fill = next - 1 - start
      BY <2>2, <2>4, <2>6, <2>7, <3>1
    <3>3. ASSUME NEW k \in AlignedFrom(s, v, n, a) PROVE next - 1 <= k
      <4>1. k \in Int /\ i <= k /\ ((k - start) % a) = 0
        BY <1>4, <1>5, <1>7, <2>2
      <4>2. k - start \in Nat /\ at <= k - start
        BY <2>2, <3>1, <3>2, <4>1
      <4>3. at + fill <= k - start
        BY <2>5, <4>1, <4>2
      <4> QED BY <2>6, <2>7, <3>2, <4>1, <4>3
    <3>4. i \in start .. (stop - 1) /\ (i = start \/ ~(i - 1 \in mem <=> v))
      <4>1. i \in start .. (stop - 1)
        BY <2>2, <3>1
      <4>2. CASE i = s
        BY <2>2, <3>1, <4>2 DEF Fresh
      <4>3. CASE i # s
        <5>1. i - 1 \in s .. (stop - 1) /\ i - 1 \notin H
          BY <2>2, <4>3
        <5> QED BY <1>3, <4>1, <5>1
      <4> QED BY <4>1, <4>2, <4>3
    <3>5. ASSUME next - 1 < stop PROVE next - 1 \in mem <=> v
      <4>1. next - 1 \in i .. (i + a - 1) /\ (((next - 1) - start) % a) = 0
        BY <2>2, <2>5, <2>6, <2>7, <3>2
      <4> QED BY <2>2, <3>1, <3>4, <3>5, <4>1 DEF RunsReach
    <3> QED BY <3>2, <3>3, <3>5
  <2>9. here.reads \in SUBSET Within(s, stop) /\ here.reads \in SUBSET Nat
    BY <1>1 DEF Within
  <2>10. CASE fill = 0
    <3>1. \A f : slot_align_round(f, v, n, a, s, o) = TryAligned(f, v, n, i + 1, at, here.reads)
      BY <1>8, <2>3, <2>4, <2>10
    <3>2. i + 1 \in (s + 1) .. stop /\ at \in o .. (o + (i + 1 - 1 - s)) /\ (i + 1) - 1 = i
      BY <2>2, <2>4
    <3>3. i + 1 - 1 \in mem <=> v
      BY <2>2, <3>2
    <3>4. InStep(o, s, v, a) => /\ at = i + 1 - 1 - start /\ (at % a) = 0
                                /\ \A k \in AlignedFrom(s, v, n, a) : i + 1 - 1 <= k
      <4>1. at + fill = at /\ next = i + 1 /\ i + 1 - 1 = i /\ next - 1 = i
        BY <2>2, <2>4, <2>7, <2>10
      <4>2. (at % a) = 0
        BY <2>5, <4>1
      <4> QED BY <2>8, <4>1, <4>2
    <3> DEFINE m == i + 1
    <3>5. /\ m \in (s + 1) .. stop /\ at \in o .. (o + (m - 1 - s)) /\ (m - 1 \in mem <=> v)
          /\ InStep(o, s, v, a) => /\ at = m - 1 - start /\ (at % a) = 0
                                   /\ \A k \in AlignedFrom(s, v, n, a) : m - 1 <= k
          /\ \A f : slot_align_round(f, v, n, a, s, o) = TryAligned(f, v, n, m, at, here.reads)
      BY <3>1, <3>2, <3>3, <3>4
    <3> HIDE DEF m
    <3>6. HitBefore(m, at, here.reads, o, s, v, n, a)
      BY <2>9, <3>5 DEF HitBefore
    <3>7. TryEnds(m, at, here.reads, o, s, v, n, a)
      BY <3>6, TryFinds
    <3> QED BY <3>5, <3>7 DEF TryEnds
  <2>11. CASE fill # 0 /\ next - 1 >= stop
    <3> DEFINE q == Reading(here.reads, FoundNothing(stop))
    <3>1. \A f : slot_align_round(f, v, n, a, s, o) = q
      BY <1>8, <2>4, <2>11
    <3>2. q = [off |-> None, start |-> stop, reads |-> here.reads]
      BY DEF Reading, FoundNothing
    <3>3. None \in SUBSET Int
      BY DEF None
    <3> HIDE DEF q
    <3>4. q.off = None /\ q.start = stop /\ q.reads = here.reads
      BY <3>2
    <3>5. q \in Outcomes
      BY <2>9, <3>2, <3>3 DEF Outcomes
    <3>6. ASSUME InStep(o, s, v, a) PROVE AlignedFrom(s, v, n, a) = {}
      <4>1. \A k \in AlignedFrom(s, v, n, a) : k \in Int /\ k < stop
        BY <1>4, <1>7
      <4>2. \A k \in AlignedFrom(s, v, n, a) : next - 1 <= k
        BY <2>8, <3>6
      <4> QED BY <2>7, <2>11, <4>1, <4>2
    <3>7. stop \in s .. stop
      BY <1>0
    <3>8. FindsAligned(q, o, s, v, n, a)
      BY <1>1, <3>4, <3>6, <3>7 DEF FindsAligned, IsLeast
    <3> QED BY <3>1, <3>5, <3>8 DEF Settles
  <2>12. CASE fill # 0 /\ ~(next - 1 >= stop)
    <3>1. next \in (s + 1) .. stop /\ next - 1 \in s .. (stop - 1) /\ at + fill \in Nat
      BY <2>2, <2>4, <2>6, <2>7, <2>12
    <3>2. seen \in SUBSET Within(s, stop)
      <4>1. word_index(next - 1) \in Within(s, stop)
        BY <1>0, <3>1, WordOfBit
      <4> QED BY <2>9, <4>1 DEF seen
    <3>3. at + fill \in o .. (o + (next - 1 - s))
      BY <2>2, <2>4, <2>6, <2>7
    <3>4. CASE next - 1 \in mem <=> v
      <4>1. ((next - 1 \in mem) = v)
        BY <3>4
      <4>2. \A f : slot_align_round(f, v, n, a, s, o) = TryAligned(f, v, n, next, at + fill, seen)
        BY <1>8, <2>4, <2>12, <4>1
      <4>3. InStep(o, s, v, a) =>
              /\ at + fill = next - 1 - start /\ ((at + fill) % a) = 0
              /\ \A k \in AlignedFrom(s, v, n, a) : next - 1 <= k
        BY <2>5, <2>8
      <4> DEFINE at2 == at + fill
      <4>4. /\ at2 \in o .. (o + (next - 1 - s))
            /\ InStep(o, s, v, a) => /\ at2 = next - 1 - start /\ (at2 % a) = 0
                                     /\ \A k \in AlignedFrom(s, v, n, a) : next - 1 <= k
            /\ \A f : slot_align_round(f, v, n, a, s, o) = TryAligned(f, v, n, next, at2, seen)
        BY <3>3, <4>2, <4>3
      <4> HIDE DEF at2
      <4>5. HitBefore(next, at2, seen, o, s, v, n, a)
        BY <3>1, <3>2, <3>4, <4>4 DEF HitBefore
      <4>6. TryEnds(next, at2, seen, o, s, v, n, a)
        BY <4>5, TryFinds
      <4> QED BY <4>4, <4>6 DEF TryEnds
    <3>5. CASE ~(next - 1 \in mem <=> v)
      <4>1. ~((next - 1 \in mem) = v)
        BY <3>5
      <4>2. \A f : slot_align_round(f, v, n, a, s, o) = Later(f, next, at + fill, seen)
        BY <1>8, <2>4, <2>12, <4>1
      <4>3. ~InStep(o, s, v, a)
        BY <2>7, <2>8, <2>12, <3>5
      <4>4. at + fill \in o .. (o + (next - s)) /\ next \in s .. stop
        BY <3>1, <3>3
      <4>5. ASSUME NEW p \in Outcomes, FindsAligned(p, at + fill, next, v, n, a)
            PROVE  FindsAligned(Reading(p.reads \cup seen, p), o, s, v, n, a)
        BY <3>1, <3>2, <4>3, <4>4, <4>5, AlignedLater
      <4>6. PassesOn(next, at + fill, seen, o, s, v, n, a)
        BY <3>1, <3>2, <4>5 DEF PassesOn
      <4> QED BY <4>2, <4>6
    <3> QED BY <3>4, <3>5
  <2> QED BY <2>7, <2>10, <2>11, <2>12
<1> QED BY <1>9, <1>10

LEMMA LaterOutcome ==
  ASSUME stop \in Nat, NEW f \in Searches, NEW s \in 0 .. stop, NEW o, NEW v, NEW n, NEW a,
         NEW t, NEW j, NEW more, PassesOn(t, j, more, o, s, v, n, a)
  PROVE  /\ t \in (s + 1) .. stop /\ t \in 0 .. stop /\ j \in Nat
         /\ f[t][j] \in Outcomes /\ Later(f, t, j, more) \in Outcomes
<1>1. t \in (s + 1) .. stop /\ t \in 0 .. stop /\ j \in Nat /\ more \in SUBSET Nat
  BY DEF PassesOn, Within
<1>2. f[t] \in [Nat -> Outcomes]
  BY <1>1 DEF Searches
<1>3. f[t][j] \in Outcomes
  BY <1>1, <1>2
<1> QED BY <1>1, <1>3, ReadingOutcome DEF Later

(* The same for find_continuous_slot_align. *)
LEMMA SlotAlignSearchIs ==
  ASSUME stop \in Nat, start \in Nat, NEW v \in BOOLEAN, NEW n \in Nat \ {0}, NEW a \in Nat \ {0}
  PROVE  LET f == slot_align_search(v, n, a)
         IN  f = [s \in 0 .. stop |-> [o \in Nat |-> slot_align_round(f, v, n, a, s, o)]]
<1> DEFINE All(f) == [s \in 0 .. stop |-> [o \in Nat |-> slot_align_round(f, v, n, a, s, o)]]
           B == [f \in Searches |-> All(f)]
<1>1. ASSUME NEW f \in Searches, NEW s \in 0 .. stop, NEW o \in Nat
      PROVE  slot_align_round(f, v, n, a, s, o) \in Outcomes
  <2>1. CASE \E q : Settles(q, o, s, v, n, a) /\ \A g : slot_align_round(g, v, n, a, s, o) = q
    BY <2>1 DEF Settles
  <2>2. CASE \E t, j, more :
               /\ PassesOn(t, j, more, o, s, v, n, a)
               /\ \A g : slot_align_round(g, v, n, a, s, o) = Later(g, t, j, more)
    BY <2>2, LaterOutcome
  <2> QED BY <2>1, <2>2, SlotAlignRound
<1>2. ASSUME NEW f \in Searches PROVE All(f) \in Searches
  BY <1>1 DEF Searches
<1>3. B \in [Searches -> Searches]
  BY <1>2
<1>4. ASSUME NEW f \in Searches, NEW g \in Searches, NEW s \in 0 .. stop,
             \A t \in (s + 1) .. stop : f[t] = g[t]
      PROVE  B[f][s] = B[g][s]
  <2>1. ASSUME NEW o \in Nat
        PROVE  slot_align_round(f, v, n, a, s, o) = slot_align_round(g, v, n, a, s, o)
    <3>1. CASE \E q : Settles(q, o, s, v, n, a) /\ \A h : slot_align_round(h, v, n, a, s, o) = q
      BY <3>1
    <3>2. CASE \E t, j, more :
                 /\ PassesOn(t, j, more, o, s, v, n, a)
                 /\ \A h : slot_align_round(h, v, n, a, s, o) = Later(h, t, j, more)
      <4>1. PICK t, j, more :
                 /\ PassesOn(t, j, more, o, s, v, n, a)
                 /\ \A h : slot_align_round(h, v, n, a, s, o) = Later(h, t, j, more)
        BY <3>2
      <4>2. f[t] = g[t]
        BY <1>4, <4>1 DEF PassesOn
      <4> QED BY <4>1, <4>2 DEF Later
    <3> QED BY <3>1, <3>2, SlotAlignRound
  <2>2. All(f)[s] = All(g)[s]
    BY <2>1
  <2> QED BY <2>2
<1>5. LooksAhead(stop, Searches, B)
  BY <1>3, <1>4 DEF LooksAhead
<1> HIDE DEF B
<1>6. \E f \in Searches : f = B[f]
  BY <1>5, SearchRecursion
<1>7. \E f : f = All(f)
  BY <1>6 DEF B
<1>8. slot_align_search(v, n, a) = CHOOSE f : f = All(f)
  BY DEF slot_align_search
<1> HIDE DEF All
<1>9. slot_align_search(v, n, a) = All(slot_align_search(v, n, a))
  BY <1>7, <1>8, Zenon
<1> QED BY <1>9 DEF All

(* find_continuous_slot_align finds the first aligned slot that there is   *)
(* when every run reaches an aligned bit, and takes bits off the front in  *)
(* any case.                                                               *)
LEMMA SlotAlignFinds ==
  ASSUME stop \in Nat, start \in Nat, NEW v \in BOOLEAN, NEW n \in Nat \ {0}, NEW a \in Nat \ {0},
         NEW s \in 0 .. stop, NEW o \in Nat
  PROVE  Settles(slot_align_search(v, n, a)[s][o], o, s, v, n, a)
<1> DEFINE f == slot_align_search(v, n, a)
           S == {t \in 0 .. stop : \A j \in Nat : Settles(f[t][j], j, t, v, n, a)}
<1>1. f = [t \in 0 .. stop |-> [j \in Nat |-> slot_align_round(f, v, n, a, t, j)]]
  BY SlotAlignSearchIs
<1> HIDE DEF f
<1>2. ASSUME NEW t \in 0 .. stop, NEW j \in Nat PROVE f[t][j] = slot_align_round(f, v, n, a, t, j)
  <2>1. f[t] = [k \in Nat |-> slot_align_round(f, v, n, a, t, k)]
    BY <1>1, Zenon
  <2> QED BY <2>1
<1>3. ASSUME NEW t \in 0 .. stop, \A u \in (t + 1) .. stop : u \in S PROVE t \in S
  <2> SUFFICES ASSUME NEW j \in Nat PROVE Settles(f[t][j], j, t, v, n, a)
    OBVIOUS
  <2>1. CASE \E q : Settles(q, j, t, v, n, a) /\ \A h : slot_align_round(h, v, n, a, t, j) = q
    BY <1>2, <2>1
  <2>2. CASE \E u, k, more :
              /\ PassesOn(u, k, more, j, t, v, n, a)
              /\ \A h : slot_align_round(h, v, n, a, t, j) = Later(h, u, k, more)
    <3>1. PICK u, k, more :
              /\ PassesOn(u, k, more, j, t, v, n, a)
              /\ slot_align_round(f, v, n, a, t, j) = Later(f, u, k, more)
      BY <2>2
    <3>2. u \in (t + 1) .. stop /\ k \in Nat /\ more \in SUBSET Nat
      BY <3>1 DEF PassesOn, Within
    <3>3. Settles(f[u][k], k, u, v, n, a)
      BY <1>3, <3>2
    <3>4. f[u][k] \in Outcomes /\ FindsAligned(f[u][k], k, u, v, n, a)
      BY <3>3 DEF Settles
    <3>5. Later(f, u, k, more) \in Outcomes
      BY <3>2, <3>4, ReadingOutcome DEF Later
    <3>6. FindsAligned(Later(f, u, k, more), j, t, v, n, a)
      BY <3>1, <3>4 DEF PassesOn, Later
    <3>7. f[t][j] = Later(f, u, k, more)
      BY <1>2, <3>1
    <3> QED BY <3>5, <3>6, <3>7 DEF Settles
  <2> QED BY <2>1, <2>2, SlotAlignRound
<1>4. 0 .. stop \subseteq S
  <2> HIDE DEF S
  <2> QED BY <1>3, Downward
<1> QED BY <1>4 DEF f

IInv == mem \in Memories /\ WindowOK

(* The bits of the window s .. e - 1. *)
Shown(s, e) == Str(e - s, Down(mem \cap 0 .. (e - 1), s))

-----------------------------------------------------------------------------
(* Strings. *)

LEMMA StrIs ==
  /\ \A n, s : Str(n, s).len = n /\ Str(n, s).ones = s
  /\ \A m, n, s, t : m = n /\ s = t => Str(m, s) = Str(n, t)
BY DEF Str

(* BitsIterSpec has its own copy of the operators on strings.              *)
LEMMA SameOperators ==
  /\ Abstract!NoBits = NoBits
  /\ \A n, s : Abstract!Str(n, s) = Str(n, s)
  /\ \A a, b : Abstract!Concat(a, b) = Concat(a, b)
  /\ \A a, n : Abstract!Take(a, n) = Take(a, n) /\ Abstract!Drop(a, n) = Drop(a, n)
  /\ \A a, n, b : Abstract!Overwrite(a, n, b) = Overwrite(a, n, b)
  /\ \A a, i : Abstract!BitAt(a, i) = BitAt(a, i)
  /\ \A a : Abstract!IsBitString(a) <=> IsBitString(a)
BY DEF Abstract!NoBits, Abstract!Str, Abstract!Concat, Abstract!Take, Abstract!Drop,
       Abstract!Overwrite, Abstract!BitAt, Abstract!IsBitString,
       NoBits, Str, Concat, Take, Drop, Overwrite, BitAt, IsBitString

LEMMA WindowType ==
  ASSUME IInv
  PROVE  /\ start \in Nat /\ stop \in Nat /\ start <= stop /\ mem \subseteq Nat
         /\ MemWords * WordSize \in Nat /\ stop <= MemWords * WordSize
         /\ mem \subseteq 0 .. (MemWords * WordSize - 1)
         /\ len = stop - start /\ len \in Nat
<1>1. MemWords * WordSize \in Nat
  BY IterAssumption, WordBase
<1>2. mem \subseteq 0 .. (MemWords * WordSize - 1)
  BY IterAssumption DEF IInv
<1> QED BY <1>1, <1>2 DEF IInv, WindowOK, len

LEMMA ShownIs ==
  ASSUME mem \subseteq Nat, NEW s \in Nat, NEW e \in Nat, s <= e
  PROVE  /\ Shown(s, e) = Str(e - s, Shown(s, e).ones)
         /\ Shown(s, e).len = e - s
         /\ Shown(s, e).ones \subseteq 0 .. (e - s - 1)
         /\ \A x \in Int : x \in Shown(s, e).ones <=> x \in 0 .. (e - s - 1) /\ s + x \in mem
<1> DEFINE S == Down(mem \cap 0 .. (e - 1), s)
<1>1. Shown(s, e) = Str(e - s, S)
  BY DEF Shown
<1>2. Shown(s, e).len = e - s /\ Shown(s, e).ones = S
  BY <1>1, StrIs
<1>3. S = {i - s : i \in {j \in mem \cap 0 .. (e - 1) : j >= s}}
  BY DEF Down
<1>4. S \subseteq 0 .. (e - s - 1)
  <2>1. \A i \in mem \cap 0 .. (e - 1) : i >= s => i - s \in 0 .. (e - s - 1)
    OBVIOUS
  <2> HIDE DEF S
  <2> QED BY <1>3, <2>1
<1>5. ASSUME NEW x \in Int PROVE x \in S <=> x \in 0 .. (e - s - 1) /\ s + x \in mem
  <2>1. ASSUME x \in S PROVE x \in 0 .. (e - s - 1) /\ s + x \in mem
    <3>1. PICK i \in mem \cap 0 .. (e - 1) : i >= s /\ x = i - s
      BY <1>3, <2>1
    <3>2. s + x = i
      BY <3>1
    <3> QED BY <3>1, <3>2
  <2>2. ASSUME x \in 0 .. (e - s - 1), s + x \in mem PROVE x \in S
    <3>1. s + x \in 0 .. (e - 1) /\ s + x >= s /\ x = (s + x) - s
      BY <2>2
    <3> HIDE DEF S
    <3> QED BY <1>3, <2>2, <3>1
  <2> QED BY <2>1, <2>2
<1> QED BY <1>1, <1>2, <1>4, <1>5

LEMMA ShownString ==
  ASSUME mem \subseteq Nat, NEW s \in Nat, NEW e \in Nat, s <= e
  PROVE  IsBitString(Shown(s, e))
<1>1. Shown(s, e) = Str(e - s, Shown(s, e).ones) /\ Shown(s, e).len = e - s
      /\ Shown(s, e).ones \subseteq 0 .. (e - s - 1) /\ e - s \in Nat
  BY ShownIs
<1> QED BY <1>1 DEF IsBitString

(* A string that has the bits of the window is what the window shows.      *)
LEMMA ShowsBits ==
  ASSUME mem \subseteq Nat, NEW s \in Nat, NEW e \in Nat, s <= e, NEW S, NEW n, n = e - s,
         S \subseteq 0 .. (n - 1), \A x \in 0 .. (n - 1) : x \in S <=> s + x \in mem
  PROVE  Str(n, S) = Shown(s, e)
<1> DEFINE O == Shown(s, e).ones
<1>1. /\ Shown(s, e) = Str(e - s, O) /\ O \subseteq 0 .. (e - s - 1)
      /\ \A x \in Int : x \in O <=> x \in 0 .. (e - s - 1) /\ s + x \in mem
  BY ShownIs
<1> HIDE DEF O
<1>2. \A x : x \in S <=> x \in O
  <2>1. O \subseteq 0 .. (n - 1) /\ n \in Nat
    BY <1>1
  <2>2. \A x \in 0 .. (n - 1) : x \in O <=> s + x \in mem
    BY <1>1, <2>1
  <2>3. \A x \in 0 .. (n - 1) : x \in S <=> x \in O
    BY <2>2
  <2> QED BY <2>1, <2>3, Zenon
<1>3. S = O
  BY <1>2
<1> QED BY <1>1, <1>3

LEMMA ShownTake ==
  ASSUME mem \subseteq Nat, NEW s \in Nat, NEW e \in Nat, s <= e, NEW n \in 0 .. (e - s)
  PROVE  Take(Shown(s, e), n) = Shown(s, s + n)
<1> DEFINE O == Shown(s, e).ones
           S == O \cap (0 .. (n - 1))
<1>1. \A x \in Int : x \in O <=> x \in 0 .. (e - s - 1) /\ s + x \in mem
  BY ShownIs
<1>2. Take(Shown(s, e), n) = Str(n, S)
  BY DEF Take
<1> HIDE DEF O
<1>3. S \subseteq 0 .. (n - 1) /\ \A x \in 0 .. (n - 1) : x \in S <=> s + x \in mem
  BY <1>1
<1>4. s + n \in Nat /\ s <= s + n /\ n = (s + n) - s
  OBVIOUS
<1> HIDE DEF S
<1> QED BY <1>2, <1>3, <1>4, ShowsBits

LEMMA ShownDrop ==
  ASSUME mem \subseteq Nat, NEW s \in Nat, NEW e \in Nat, s <= e, NEW n \in 0 .. (e - s)
  PROVE  Drop(Shown(s, e), n) = Shown(s + n, e)
<1> DEFINE O == Shown(s, e).ones
           S == {i - n : i \in {j \in O : j >= n}}
           m == (e - s) - n
<1>1. /\ \A x \in Int : x \in O <=> x \in 0 .. (e - s - 1) /\ s + x \in mem
      /\ O \subseteq 0 .. (e - s - 1) /\ Shown(s, e).len = e - s
  BY ShownIs
<1>2. Drop(Shown(s, e), n) = Str(m, S)
  BY <1>1 DEF Drop
<1> HIDE DEF O
<1>3. S \subseteq 0 .. (m - 1)
  BY <1>1
<1>4. ASSUME NEW x \in 0 .. (m - 1) PROVE x \in S <=> (s + n) + x \in mem
  <2>1. x + n \in Int /\ x + n \in 0 .. (e - s - 1) /\ x + n >= n /\ (x + n) - n = x
        /\ s + (x + n) = (s + n) + x
    OBVIOUS
  <2>2. x + n \in O <=> (s + n) + x \in mem
    BY <1>1, <2>1
  <2>3. ASSUME NEW i \in O, x = i - n PROVE i = x + n
    BY <1>1, <2>3
  <2>4. x \in S <=> x + n \in O
    BY <2>1, <2>3
  <2> QED BY <2>2, <2>4
<1>5. s + n \in Nat /\ s + n <= e /\ m = e - (s + n)
  OBVIOUS
<1> HIDE DEF S, m
<1> QED BY <1>2, <1>3, <1>4, <1>5, ShowsBits

LEMMA ShownNothing ==
  ASSUME mem \subseteq Nat, NEW s \in Nat
  PROVE  Shown(s, s) = NoBits
<1>1. {} \subseteq 0 .. (0 - 1) /\ 0 = s - s
      /\ \A x \in 0 .. (0 - 1) : x \in {} <=> s + x \in mem
  OBVIOUS
<1>2. Str(0, {}) = Shown(s, s)
  BY <1>1, ShowsBits
<1> QED BY <1>2 DEF NoBits

(* The indexes of the bits v are those of the hits.                        *)
LEMMA IndexesAre ==
  ASSUME IInv, NEW v \in BOOLEAN
  PROVE  LET I == Abstract!IndexesOf(Shown(start, stop), v)
         IN  /\ I \subseteq 0 .. (len - 1)
             /\ \A x \in Int : x \in I <=> x \in 0 .. (len - 1) /\ (start + x \in mem <=> v)
<1> DEFINE O == Shown(start, stop).ones
           I == Abstract!IndexesOf(Shown(start, stop), v)
<1>1. /\ start \in Nat /\ stop \in Nat /\ start <= stop /\ mem \subseteq Nat
      /\ len = stop - start /\ len \in Nat
  BY WindowType
<1>2. /\ O \subseteq 0 .. (len - 1) /\ Shown(start, stop).len = len
      /\ \A x \in Int : x \in O <=> x \in 0 .. (len - 1) /\ start + x \in mem
  BY <1>1, ShownIs
<1>3. I = IF v THEN O ELSE (0 .. (len - 1)) \ O
  BY <1>2 DEF Abstract!IndexesOf
<1> HIDE DEF O, I
<1>4. I \subseteq 0 .. (len - 1)
  BY <1>2, <1>3
<1>5. ASSUME NEW x \in Int
      PROVE  x \in I <=> x \in 0 .. (len - 1) /\ (start + x \in mem <=> v)
  BY <1>2, <1>3
<1> QED BY <1>4, <1>5 DEF I

(* What every call does: the memory stays, the window stays in order, the  *)
(* words read belong to the window the call was made on.                   *)
Keeps == mem' = mem /\ WindowOK' /\ reads' \subseteq Within(start, stop)

(* A call that leaves the window s .. e - 1, in terms of strings.          *)
LEMMA CallsIs ==
  ASSUME IInv, NEW name, NEW a, NEW s \in Nat, NEW e \in Nat, NEW result, NEW seen,
         s <= e, e <= stop, seen \subseteq Within(start, stop), Calls(name, a, s, e, result, seen)
  PROVE  Keeps /\ Abstract!Calls(name, a, Shown(s, e), result)
<1>1. /\ start' = s /\ stop' = e /\ mem' = mem /\ reads' = seen
      /\ op' = name /\ args' = a /\ ret' = result
  BY DEF Calls
<1>2. stop \in Nat /\ stop <= MemWords * WordSize /\ MemWords * WordSize \in Nat
  BY WindowType
<1>3. s \in 0 .. e /\ e \in 0 .. (MemWords * WordSize)
  BY <1>2
<1>4. WindowOK'
  BY <1>1, <1>3 DEF WindowOK
<1>5. Str(stop - start, Down(mem \cap 0 .. (stop - 1), start))' = Shown(s, e)
  BY <1>1 DEF Shown
<1>6. Str(len, Down(mem \cap 0 .. (stop - 1), start))' = Shown(s, e)
  BY <1>5 DEF len
<1> QED BY <1>1, <1>4, <1>6 DEF Keeps, Abstract!Calls

(* The string that is left, and its length.                                *)
Rest == Str(len, Down(mem \cap 0 .. (stop - 1), start))

LEMMA RestIs ==
  ASSUME IInv
  PROVE  Rest = Shown(start, stop) /\ Rest.len = len
BY StrIs DEF Rest, Shown, len

(* Stepping off the window from its front or its back.                     *)
LEMMA RestParts ==
  ASSUME IInv, NEW n \in 0 .. len
  PROVE  /\ start + n \in Nat /\ start + n <= stop /\ stop - n \in Nat /\ start <= stop - n
         /\ Take(Rest, n) = Shown(start, start + n)
         /\ Drop(Rest, n) = Shown(start + n, stop)
         /\ Take(Rest, Rest.len - n) = Shown(start, stop - n)
         /\ Drop(Rest, Rest.len - n) = Shown(stop - n, stop)
<1>1. /\ start \in Nat /\ stop \in Nat /\ start <= stop /\ mem \subseteq Nat
      /\ len = stop - start /\ len \in Nat /\ Rest = Shown(start, stop) /\ Rest.len = len
  BY WindowType, RestIs
<1>2. n \in 0 .. (stop - start) /\ (stop - start) - n \in 0 .. (stop - start)
  BY <1>1
<1>3. /\ Take(Rest, n) = Shown(start, start + n)
      /\ Drop(Rest, n) = Shown(start + n, stop)
  BY <1>1, <1>2, ShownTake, ShownDrop
<1>4. start + ((stop - start) - n) = stop - n
  BY <1>1
<1> DEFINE m == (stop - start) - n
<1>5. m \in 0 .. (stop - start) /\ start + m = stop - n /\ Rest.len - n = m
  BY <1>1, <1>2, <1>4
<1> HIDE DEF m
<1>6. /\ Take(Rest, m) = Shown(start, start + m)
      /\ Drop(Rest, m) = Shown(start + m, stop)
  BY <1>1, <1>5, ShownTake, ShownDrop
<1> QED BY <1>1, <1>2, <1>3, <1>5, <1>6

LEMMA RestNone ==
  ASSUME IInv
  PROVE  /\ NoBits = Shown(start, start) /\ NoBits = Shown(stop, stop)
BY WindowType, ShownNothing

LEMMA CountIs == ASSUME NEW n \in Counts PROVE n \in Nat
BY IterAssumption

-----------------------------------------------------------------------------
(* The calls that do not look at the bits. *)

LEMMA OpenKeeps ==
  ASSUME IInv, Open
  PROVE  Keeps /\ Abstract!Open
<1> DEFINE size_ == MemWords * WordSize
<1>1. PICK low \in Bounds, high \in Bounds :
        LET s == bounds_start(low)
            e == bounds_stop(high, size_)
        IN  IF is_invalid_range(s, e, size_)
            THEN Calls("new_bounds", <<low, high>>, start, stop, None, {})
            ELSE \/ Calls("new_bounds", <<low, high>>, s, e, Some(e - s), {})
                 \/ /\ BoundOverflows(low, high)
                    /\ Calls("new_bounds", <<low, high>>, start, stop, None, {})
  BY DEF Open
<1>2. low.at \in 0 .. UsizeMax /\ high.at \in 0 .. UsizeMax
  BY IterAssumption
<1>3. /\ start \in Nat /\ stop \in Nat /\ start <= stop /\ mem \subseteq Nat
      /\ size_ \in Nat /\ stop <= size_
  BY WindowType
<1> HIDE DEF size_
<1>4. bounds_start(low) \in Nat /\ bounds_stop(high, size_) \in Nat
  BY <1>2, <1>3, BoundsType
<1>5. PICK s \in Nat, e \in Nat :
        /\ s <= e /\ e <= size_
        /\ \E result \in {None, Some(e - s)} :
             Calls("new_bounds", <<low, high>>, s, e, result, {})
  <2>1. CASE Calls("new_bounds", <<low, high>>, start, stop, None, {})
    BY <1>3, <2>1
  <2>2. CASE ~is_invalid_range(bounds_start(low), bounds_stop(high, size_), size_)
             /\ Calls("new_bounds", <<low, high>>, bounds_start(low), bounds_stop(high, size_),
                      Some(bounds_stop(high, size_) - bounds_start(low)), {})
    <3>1. bounds_start(low) <= bounds_stop(high, size_) /\ bounds_stop(high, size_) <= size_
      BY <1>3, <1>4, <2>2 DEF is_invalid_range
    <3> QED BY <1>4, <2>2, <3>1
  <2> QED BY <1>1, <2>1, <2>2
<1>6. /\ start' = s /\ stop' = e /\ mem' = mem /\ reads' = {}
      /\ op' = "new_bounds" /\ args' = <<low, high>> /\ ret' \in {None, Some(e - s)}
  BY <1>5 DEF Calls
<1>7. s \in 0 .. e /\ e \in 0 .. size_
  BY <1>3, <1>5
<1>8. WindowOK'
  BY <1>6, <1>7 DEF WindowOK, size_
<1>9. Rest' = Shown(s, e)
  BY <1>6 DEF Rest, Shown, len
<1>10. IsBitString(Shown(s, e)) /\ Shown(s, e).len = e - s
  BY <1>3, <1>5, ShownString, ShownIs
<1>11. Abstract!IsBitString(Rest') /\ ret' \in {{}, {Rest'.len}}
  BY <1>5, <1>6, <1>9, <1>10, SameOperators DEF None, Some
<1>12. Abstract!Open
  BY <1>6, <1>11 DEF Abstract!Open, Rest
<1> QED BY <1>6, <1>8, <1>12 DEF Keeps

LEMMA SetLimitKeeps ==
  ASSUME IInv, SetLimit
  PROVE  Keeps /\ Abstract!SetLimit
<1>1. PICK n \in Counts :
        IF n > len THEN Calls("set_limit", <<n>>, start, stop, Some(FALSE), {})
                   ELSE Calls("set_limit", <<n>>, start, start + n, Some(TRUE), {})
  BY DEF SetLimit
<1>2. /\ n \in Nat /\ start \in Nat /\ stop \in Nat /\ start <= stop /\ len \in Nat
      /\ Rest = Shown(start, stop) /\ Rest.len = len
  BY CountIs, WindowType, RestIs
<1>3. CASE n > len
  <2>1. Keeps /\ Abstract!Calls("set_limit", <<n>>, Rest, {FALSE})
    BY <1>1, <1>2, <1>3, CallsIs DEF Some
  <2> QED BY <1>2, <1>3, <2>1 DEF Abstract!SetLimit, Rest
<1>4. CASE ~(n > len)
  <2>1. n \in 0 .. len
    BY <1>2, <1>4
  <2>2. start + n \in Nat /\ start <= start + n /\ start + n <= stop
        /\ Take(Rest, n) = Shown(start, start + n)
    BY <1>2, <2>1, RestParts
  <2>3. Keeps /\ Abstract!Calls("set_limit", <<n>>, Take(Rest, n), {TRUE})
    BY <1>1, <1>2, <1>4, <2>2, CallsIs DEF Some
  <2> QED BY <1>2, <1>4, <2>3, SameOperators DEF Abstract!SetLimit, Rest
<1> QED BY <1>3, <1>4

LEMMA SetEndLimitKeeps ==
  ASSUME IInv, SetEndLimit
  PROVE  Keeps /\ Abstract!SetEndLimit
<1>1. PICK n \in Counts :
        IF n > len THEN Calls("set_end_limit", <<n>>, start, stop, Some(FALSE), {})
                   ELSE Calls("set_end_limit", <<n>>, stop - n, stop, Some(TRUE), {})
  BY DEF SetEndLimit
<1>2. /\ n \in Nat /\ start \in Nat /\ stop \in Nat /\ start <= stop /\ len \in Nat
      /\ Rest = Shown(start, stop) /\ Rest.len = len
  BY CountIs, WindowType, RestIs
<1>3. CASE n > len
  <2>1. Keeps /\ Abstract!Calls("set_end_limit", <<n>>, Rest, {FALSE})
    BY <1>1, <1>2, <1>3, CallsIs DEF Some
  <2> QED BY <1>2, <1>3, <2>1 DEF Abstract!SetEndLimit, Rest
<1>4. CASE ~(n > len)
  <2>1. n \in 0 .. len
    BY <1>2, <1>4
  <2>2. stop - n \in Nat /\ stop - n <= stop /\ Drop(Rest, Rest.len - n) = Shown(stop - n, stop)
    BY <1>2, <2>1, RestParts
  <2>3. Keeps /\ Abstract!Calls("set_end_limit", <<n>>, Drop(Rest, Rest.len - n), {TRUE})
    BY <1>1, <1>2, <1>4, <2>2, CallsIs DEF Some
  <2> QED BY <1>2, <1>4, <2>3, SameOperators DEF Abstract!SetEndLimit, Rest
<1> QED BY <1>3, <1>4

LEMMA AdvanceByKeeps ==
  ASSUME IInv, AdvanceBy
  PROVE  Keeps /\ Abstract!AdvanceBy
<1>1. PICK n \in Counts :
        IF start + n <= stop THEN Calls("advance_by", <<n>>, start + n, stop, None, {})
                             ELSE Calls("advance_by", <<n>>, stop, stop, Some(n - len), {})
  BY DEF AdvanceBy
<1>2. /\ n \in Nat /\ start \in Nat /\ stop \in Nat /\ start <= stop
      /\ len = stop - start /\ Rest.len = len
  BY CountIs, WindowType, RestIs
<1>3. CASE n <= len
  <2>1. n \in 0 .. len /\ start + n <= stop
    BY <1>2, <1>3
  <2>2. start + n \in Nat /\ Drop(Rest, n) = Shown(start + n, stop)
    BY <2>1, RestParts
  <2>3. Keeps /\ Abstract!Calls("advance_by", <<n>>, Drop(Rest, n), {})
    BY <1>1, <1>2, <2>1, <2>2, CallsIs DEF None
  <2> QED BY <1>2, <1>3, <2>3, SameOperators DEF Abstract!AdvanceBy, Rest
<1>4. CASE ~(n <= len)
  <2>1. ~(start + n <= stop)
    BY <1>2, <1>4
  <2>2. Keeps /\ Abstract!Calls("advance_by", <<n>>, NoBits, {n - Rest.len})
    BY <1>1, <1>2, <2>1, RestNone, CallsIs DEF Some
  <2> QED BY <1>2, <1>4, <2>2, SameOperators DEF Abstract!AdvanceBy, Rest
<1> QED BY <1>3, <1>4

LEMMA AdvanceBackByKeeps ==
  ASSUME IInv, AdvanceBackBy
  PROVE  Keeps /\ Abstract!AdvanceBackBy
<1>1. PICK n \in Counts :
        IF n <= stop /\ stop - n >= start
        THEN Calls("advance_back_by", <<n>>, start, stop - n, None, {})
        ELSE Calls("advance_back_by", <<n>>, start, start, Some(n - len), {})
  BY DEF AdvanceBackBy
<1>2. /\ n \in Nat /\ start \in Nat /\ stop \in Nat /\ start <= stop
      /\ len = stop - start /\ Rest.len = len
  BY CountIs, WindowType, RestIs
<1>3. CASE n <= len
  <2>1. n \in 0 .. len /\ n <= stop /\ stop - n >= start
    BY <1>2, <1>3
  <2>2. stop - n \in Nat /\ start <= stop - n /\ stop - n <= stop
        /\ Take(Rest, Rest.len - n) = Shown(start, stop - n)
    BY <1>2, <2>1, RestParts
  <2>3. Keeps /\ Abstract!Calls("advance_back_by", <<n>>, Take(Rest, Rest.len - n), {})
    BY <1>1, <1>2, <2>1, <2>2, CallsIs DEF None
  <2> QED BY <1>2, <1>3, <2>3, SameOperators DEF Abstract!AdvanceBackBy, Rest
<1>4. CASE ~(n <= len)
  <2>1. ~(n <= stop /\ stop - n >= start)
    BY <1>2, <1>4
  <2>2. Keeps /\ Abstract!Calls("advance_back_by", <<n>>, NoBits, {n - Rest.len})
    <3>1. Calls("advance_back_by", <<n>>, start, start, {n - Rest.len}, {})
      BY <1>1, <1>2, <2>1 DEF Some
    <3>2. NoBits = Shown(start, start)
      BY RestNone
    <3>3. Keeps /\ Abstract!Calls("advance_back_by", <<n>>, Shown(start, start), {n - Rest.len})
      BY <1>2, <3>1, CallsIs
    <3> QED BY <3>2, <3>3
  <2> QED BY <1>2, <1>4, <2>2, SameOperators DEF Abstract!AdvanceBackBy, Rest
<1> QED BY <1>3, <1>4

LEMMA AdvanceWordsByKeeps ==
  ASSUME IInv, AdvanceWordsBy
  PROVE  Keeps /\ Abstract!AdvanceWordsBy
<1>1. PICK n \in Counts :
        LET at == WordSize * n + start
            floor == word_index(at) * WordSize
        IN  Calls("advance_words_by", <<n>>,
                  IF n = 0 \/ at > UsizeMax THEN start ELSE least(floor, stop), stop, None, {})
  BY DEF AdvanceWordsBy
<1> DEFINE at == WordSize * n + start
           floor == word_index(at) * WordSize
           s == IF n = 0 \/ at > UsizeMax THEN start ELSE least(floor, stop)
           k == s - start
<1>2. /\ n \in Nat /\ start \in Nat /\ stop \in Nat /\ start <= stop
      /\ len = stop - start /\ Rest.len = len /\ WordSize \in Nat
  BY CountIs, WindowType, RestIs, WordSizeType
<1>3. Calls("advance_words_by", <<n>>, s, stop, None, {})
  BY <1>1
<1>4. /\ n * WordSize \in Nat /\ at = n * WordSize + start /\ at \in Nat
      /\ (n - 1) * WordSize = n * WordSize - WordSize
  <2>1. n * WordSize \in Nat /\ (n - 1) * WordSize = n * WordSize - WordSize
    BY <1>2, WordBase, TimesNext
  <2>2. WordSize * n = n * WordSize
    BY <1>2
  <2> QED BY <1>2, <2>1, <2>2
<1> HIDE DEF at
<1>5. /\ word_index(at) \in Nat /\ bit_in_word_index(at) \in 0 .. (WordSize - 1)
      /\ at = floor + bit_in_word_index(at) /\ floor \in Nat
  BY <1>4, IndexSplit, WordBase
<1>6. floor <= at /\ at < floor + WordSize
  BY <1>2, <1>5
<1> HIDE DEF floor
<1>7. ASSUME n # 0 PROVE floor > start /\ floor > n * WordSize - WordSize + start
  <2>1. n * WordSize >= WordSize
    <3>1. 1 * WordSize <= n * WordSize /\ 1 * WordSize = WordSize
      BY <1>2, <1>7, TimesMono
    <3> QED BY <3>1
  <2> QED BY <1>2, <1>4, <1>5, <1>6, <2>1
<1>8. /\ s \in start .. stop
      /\ at > UsizeMax => k = 0
      /\ ~(at > UsizeMax) =>
           k <= n * WordSize /\ (k = len \/ k > (n - 1) * WordSize) /\ (n = 0 => k = 0)
  <2>1. CASE n = 0 \/ at > UsizeMax
    <3>1. s = start /\ k = 0
      BY <1>2, <2>1
    <3> HIDE DEF s, k
    <3> QED BY <1>2, <1>4, <2>1, <3>1, WordSizeType
  <2>2. CASE ~(n = 0 \/ at > UsizeMax)
    <3>1. s = least(floor, stop)
      BY <2>2
    <3> HIDE DEF s
    <3>2. CASE floor < stop
      BY <1>2, <1>4, <1>5, <1>6, <1>7, <2>2, <3>1, <3>2 DEF least
    <3>3. CASE ~(floor < stop)
      BY <1>2, <1>4, <1>5, <1>6, <2>2, <3>1, <3>3 DEF least
    <3> QED BY <3>2, <3>3
  <2> QED BY <2>1, <2>2
<1> HIDE DEF s
<1>9. k \in 0 .. len /\ start + k = s /\ s \in Nat /\ s <= stop
  BY <1>2, <1>8
<1>10. Drop(Rest, k) = Shown(s, stop)
  <2> HIDE DEF k
  <2> QED BY <1>9, RestParts
<1>11. Keeps /\ Abstract!Calls("advance_words_by", <<n>>, Drop(Rest, k), {})
  BY <1>2, <1>3, <1>9, <1>10, CallsIs DEF None
<1> HIDE DEF k
<1> DEFINE before == MemWords * WordSize - Rest.len
<1>12. UsizeMax \in Int /\ MemWords * WordSize \in Int /\ start <= before
  BY <1>2, UsizeType, WindowType, IterAssumption, WordSizeType
<1>13. CASE at > UsizeMax
  <2>1. n * WordSize + before > UsizeMax
    BY <1>2, <1>4, <1>12, <1>13
  <2>2. Drop(Rest, k) = Rest
    BY <1>2, <1>8, <1>9, <1>10, <1>13, RestIs
  <2>3. Abstract!Calls("advance_words_by", <<n>>, Rest, {})
    BY <1>11, <2>2
  <2>4. Abstract!AdvanceWordsBy
    BY <2>1, <2>3 DEF Abstract!AdvanceWordsBy, Rest
  <2> QED BY <1>11, <2>4
<1>14. CASE ~(at > UsizeMax)
  <2>1. n * WordSize <= UsizeMax
    BY <1>2, <1>4, <1>12, <1>14
  <2>2. Abstract!AdvanceWordsBy
    BY <1>2, <1>8, <1>9, <1>11, <1>14, <2>1, SameOperators DEF Abstract!AdvanceWordsBy, Rest
  <2> QED BY <1>11, <2>2
<1> QED BY <1>13, <1>14

(* The bit at an index of the string. *)
LEMMA RestBit ==
  ASSUME IInv, NEW n \in Nat, n < len
  PROVE  BitAt(Rest, n) = bit(start + n)
<1>1. /\ start \in Nat /\ stop \in Nat /\ start <= stop /\ mem \subseteq Nat
      /\ len = stop - start /\ len \in Nat /\ Rest = Shown(start, stop) /\ Rest.len = len
  BY WindowType, RestIs
<1>2. \A x \in Int : x \in Rest.ones <=> x \in 0 .. (stop - start - 1) /\ start + x \in mem
  BY <1>1, ShownIs
<1>3. n \in Rest.ones <=> start + n \in mem
  BY <1>1, <1>2
<1> QED BY <1>1, <1>3 DEF BitAt, bit, Named

LEMMA NthKeeps ==
  ASSUME IInv, Nth
  PROVE  Keeps /\ Abstract!Nth
<1>1. PICK n \in Counts :
        IF start + n < stop
        THEN Calls("const_nth", <<n>>, start + n + 1, stop, Some(bit(start + n)),
                   {word_index(start + n)})
        ELSE Calls("const_nth", <<n>>, stop, stop, None, {})
  BY DEF Nth
<1>2. /\ n \in Nat /\ start \in Nat /\ stop \in Nat /\ start <= stop
      /\ len = stop - start /\ Rest.len = len
  BY CountIs, WindowType, RestIs
<1>3. CASE n < len
  <2> DEFINE m == n + 1
  <2>1. m \in 0 .. len /\ start + n < stop /\ start + m = start + n + 1
        /\ start + n \in start .. (stop - 1)
    BY <1>2, <1>3
  <2> HIDE DEF m
  <2>2. start + m \in Nat /\ start + m <= stop /\ Drop(Rest, m) = Shown(start + m, stop)
    BY <2>1, RestParts
  <2>3. {word_index(start + n)} \subseteq Within(start, stop)
    BY <1>2, <2>1, WordOfBit
  <2>4. Calls("const_nth", <<n>>, start + m, stop, Some(bit(start + n)), {word_index(start + n)})
    BY <1>1, <2>1
  <2>5. Keeps /\ Abstract!Calls("const_nth", <<n>>, Drop(Rest, m), {BitAt(Rest, n)})
    BY <1>2, <1>3, <2>2, <2>3, <2>4, RestBit, CallsIs DEF Some
  <2> QED BY <1>2, <1>3, <2>5, SameOperators DEF Abstract!Nth, Rest, m
<1>4. CASE ~(n < len)
  <2>1. ~(start + n < stop)
    BY <1>2, <1>4
  <2>2. Calls("const_nth", <<n>>, stop, stop, None, {})
    BY <1>1, <2>1
  <2>3. Keeps /\ Abstract!Calls("const_nth", <<n>>, NoBits, {})
    BY <1>2, <2>2, RestNone, CallsIs DEF None
  <2> QED BY <1>2, <1>4, <2>3, SameOperators DEF Abstract!Nth, Rest
<1> QED BY <1>3, <1>4

LEMMA NthBackKeeps ==
  ASSUME IInv, NthBack
  PROVE  Keeps /\ Abstract!NthBack
<1>1. PICK n \in Counts :
        IF n <= stop /\ stop - n > start
        THEN Calls("const_nth_back", <<n>>, start, stop - n - 1, Some(bit(stop - n - 1)),
                   {word_index(stop - n - 1)})
        ELSE Calls("const_nth_back", <<n>>, start, start, None, {})
  BY DEF NthBack
<1>2. /\ n \in Nat /\ start \in Nat /\ stop \in Nat /\ start <= stop
      /\ len = stop - start /\ Rest.len = len
  BY CountIs, WindowType, RestIs
<1>3. CASE n < len
  <2> DEFINE m == len - 1 - n
  <2>1. m \in 0 .. len /\ n <= stop /\ stop - n > start /\ start + m = stop - n - 1
        /\ start + m \in start .. (stop - 1) /\ m \in Nat /\ m < len
    BY <1>2, <1>3
  <2> HIDE DEF m
  <2>2. start + m \in Nat /\ start + m <= stop /\ Take(Rest, m) = Shown(start, start + m)
    BY <2>1, RestParts
  <2>3. {word_index(start + m)} \subseteq Within(start, stop)
    BY <1>2, <2>1, WordOfBit
  <2>4. Calls("const_nth_back", <<n>>, start, start + m, Some(bit(start + m)),
              {word_index(start + m)})
    BY <1>1, <2>1
  <2>5. start <= start + m
    BY <1>2, <2>1
  <2>6. Keeps /\ Abstract!Calls("const_nth_back", <<n>>, Take(Rest, m), {BitAt(Rest, m)})
    BY <1>2, <2>1, <2>2, <2>3, <2>4, <2>5, RestBit, CallsIs DEF Some
  <2> QED BY <1>2, <1>3, <2>6, SameOperators DEF Abstract!NthBack, Rest, m
<1>4. CASE ~(n < len)
  <2>1. ~(n <= stop /\ stop - n > start)
    BY <1>2, <1>4
  <2>2. Calls("const_nth_back", <<n>>, start, start, None, {})
    BY <1>1, <2>1
  <2>3. Keeps /\ Abstract!Calls("const_nth_back", <<n>>, NoBits, {})
    <3>1. NoBits = Shown(start, start)
      BY RestNone
    <3>2. Keeps /\ Abstract!Calls("const_nth_back", <<n>>, Shown(start, start), {})
      BY <1>2, <2>2, CallsIs DEF None
    <3> QED BY <3>1, <3>2
  <2> QED BY <1>2, <1>4, <2>3, SameOperators DEF Abstract!NthBack, Rest
<1> QED BY <1>3, <1>4

LEMMA TrySplitOffKeeps ==
  ASSUME IInv, TrySplitOff
  PROVE  Keeps /\ Abstract!TrySplitOff
<1>1. PICK n \in Counts :
        IF n > len THEN Calls("try_split_off", <<n>>, start, stop, None, {})
        ELSE Calls("try_split_off", <<n>>, start, start + n,
                   Some(Str(len - n, Down(mem \cap 0 .. (stop - 1), start + n))), {})
  BY DEF TrySplitOff
<1>2. /\ n \in Nat /\ start \in Nat /\ stop \in Nat /\ start <= stop
      /\ len = stop - start /\ Rest.len = len /\ Rest = Shown(start, stop)
  BY CountIs, WindowType, RestIs
<1>3. CASE n > len
  <2>1. Keeps /\ Abstract!Calls("try_split_off", <<n>>, Rest, {})
    BY <1>1, <1>2, <1>3, CallsIs DEF None
  <2> QED BY <1>2, <1>3, <2>1 DEF Abstract!TrySplitOff, Rest
<1>4. CASE ~(n > len)
  <2>1. n \in 0 .. len /\ len - n = stop - (start + n)
    BY <1>2, <1>4
  <2>2. start + n \in Nat /\ start <= start + n /\ start + n <= stop
        /\ Take(Rest, n) = Shown(start, start + n) /\ Drop(Rest, n) = Shown(start + n, stop)
    BY <1>2, <2>1, RestParts
  <2>3. Str(len - n, Down(mem \cap 0 .. (stop - 1), start + n)) = Drop(Rest, n)
    BY <2>1, <2>2 DEF Shown
  <2>4. Keeps /\ Abstract!Calls("try_split_off", <<n>>, Take(Rest, n), {Drop(Rest, n)})
    <3>1. Calls("try_split_off", <<n>>, start, start + n, {Drop(Rest, n)}, {})
      BY <1>1, <1>4, <2>3 DEF Some
    <3> QED BY <1>2, <2>2, <3>1, CallsIs
  <2> QED BY <1>2, <1>4, <2>4, SameOperators DEF Abstract!TrySplitOff, Rest
<1> QED BY <1>3, <1>4

-----------------------------------------------------------------------------
(* Reading a word's worth of bits. *)

(* What is shown of a word of bits that begins at bit s.                   *)
LEMMA RawIs ==
  ASSUME NEW w, w.count \in 0 .. WordSize
  PROVE  raw(w) = w.value \cap (0 .. (w.count - 1))
BY MaskUpTo DEF raw

LEMMA PeekShows ==
  ASSUME mem \subseteq Nat, NEW s \in Nat, NEW e \in Nat, s <= e
  PROVE  LET w == peek_word(s, e)
         IN  /\ w.count \in 0 .. WordSize /\ s + w.count \in Nat /\ s + w.count <= e
             /\ w.count = 0 => s = e
             /\ Str(w.count, raw(w)) = Shown(s, s + w.count)
<1> DEFINE w == peek_word(s, e)
           c == w.count
<1>1. CASE s = e
  <2>1. w.value = {} /\ c = 0
    BY <1>1, PeekNothing
  <2>2. raw(w) = {}
    BY <2>1 DEF raw
  <2>3. Str(c, raw(w)) = Shown(s, s)
    BY <2>1, <2>2, ShownNothing DEF NoBits
  <2>4. c \in 0 .. WordSize /\ s + c = s
    BY <2>1, WordSizeType
  <2> HIDE DEF c, w
  <2> QED BY <1>1, <2>3, <2>4 DEF c, w
<1>2. CASE s < e
  <2> DEFINE rest == WordSize - bit_in_word_index(s)
  <2>1. /\ rest \in 1 .. WordSize /\ c = least(rest, e - s) /\ c \in 1 .. WordSize
        /\ w.value \subseteq 0 .. (rest - 1)
        /\ \A j \in 0 .. (rest - 1) : j \in w.value <=> s + j \in mem
    BY <1>2, PeekWordIs
  <2> HIDE DEF rest, w
  <2>2. c \in Nat /\ c <= rest /\ c <= e - s
    BY <2>1, WordSizeType DEF least
  <2>3. raw(w) = w.value \cap (0 .. (c - 1))
    BY <2>1, RawIs
  <2> DEFINE S == raw(w)
  <2>4. S \subseteq 0 .. (c - 1) /\ \A x \in 0 .. (c - 1) : x \in S <=> s + x \in mem
    BY <2>1, <2>2, <2>3
  <2>5. s + c \in Nat /\ s <= s + c /\ c = (s + c) - s
    BY <2>2
  <2> HIDE DEF S, c
  <2>6. Str(c, S) = Shown(s, s + c)
    BY <2>4, <2>5, ShowsBits
  <2> QED BY <2>1, <2>2, <2>5, <2>6, WordSizeType DEF S, c, w
<1> QED BY <1>1, <1>2

LEMMA NextWordKeeps ==
  ASSUME IInv, NextWord
  PROVE  Keeps /\ Abstract!NextWord
<1> DEFINE w == peek_word(start, stop)
           k == w.count
<1>1. Calls("next_word", <<>>, start + k, stop, Some(Str(k, raw(w))), WordsPeeked(start, stop))
  BY DEF NextWord
<1>2. /\ start \in Nat /\ stop \in Nat /\ start <= stop /\ mem \subseteq Nat
      /\ len = stop - start /\ Rest.len = len
  BY WindowType, RestIs
<1>3. /\ k \in 0 .. WordSize /\ start + k \in Nat /\ start + k <= stop
      /\ k = 0 => start = stop
      /\ Str(k, raw(w)) = Shown(start, start + k)
  BY <1>2, PeekShows
<1>4. WordsPeeked(start, stop) \subseteq Within(start, stop)
  BY <1>2, PeekedWithin
<1> HIDE DEF w, k
<1>5. k \in 0 .. len /\ (k = 0 => len = 0)
  BY <1>2, <1>3, WordSizeType
<1>6. Take(Rest, k) = Shown(start, start + k) /\ Drop(Rest, k) = Shown(start + k, stop)
  BY <1>5, RestParts
<1>7. Keeps /\ Abstract!Calls("next_word", <<>>, Drop(Rest, k), {Take(Rest, k)})
  BY <1>1, <1>2, <1>3, <1>4, <1>6, CallsIs DEF Some
<1>8. k <= len
  BY <1>2, <1>5
<1> QED BY <1>2, <1>3, <1>5, <1>7, <1>8, SameOperators DEF Abstract!NextWord, Rest

(* The second word read by next_bits fits behind the first one, or not at  *)
(* all.                                                                    *)
LEMMA SecondWord ==
  ASSUME mem \subseteq Nat, NEW s \in Nat, NEW f \in Nat, s <= f
  PROVE  LET c == peek_word(s, f).count
             two == peek_word(s + c, f)
         IN  /\ c + two.count <= WordSize => c + two.count = f - s
             /\ two.count = 0 => two.value = {} /\ s + c = f
             /\ two.count > 0 =>
                  /\ c > 0 /\ two.value \subseteq Nat
                  /\ \A j \in 0 .. (two.count - 1) : j \in two.value <=> (s + c) + j \in mem
<1> DEFINE c == peek_word(s, f).count
           next == s + c
           two == peek_word(next, f)
           d == two.count
           b == bit_in_word_index(next)
<1>1. c \in 0 .. WordSize /\ next \in Nat /\ next <= f /\ (c = 0 => s = f)
  BY PeekShows
<1>2. CASE next = f
  <2>1. two.value = {} /\ d = 0
    BY <1>2, PeekNothing
  <2> HIDE DEF c, two
  <2> QED BY <1>1, <1>2, <2>1 DEF c, two, d
<1>3. CASE next < f
  <2>1. /\ WordSize - b \in 1 .. WordSize /\ d = least(WordSize - b, f - next)
         /\ d \in 1 .. WordSize
        /\ two.value \subseteq 0 .. (WordSize - b - 1)
        /\ \A j \in 0 .. (WordSize - b - 1) : j \in two.value <=> next + j \in mem
    BY <1>1, <1>3, PeekWordIs
  <2>2. s < f /\ c > 0
    BY <1>1, <1>3
  <2>3. b = 0
    BY <1>3, <2>2, BehindPeeked
  <2> HIDE DEF c, two, d, b
  <2>4. d \in Nat /\ d > 0 /\ d <= WordSize /\ d <= f - next /\ d \in {WordSize, f - next}
    BY <1>1, <2>1, <2>3, WordSizeType DEF least
  <2>5. c + d <= WordSize => c + d = f - s
    BY <1>1, <2>2, <2>4, WordSizeType
  <2>6. two.value \subseteq Nat /\ \A j \in 0 .. (d - 1) : j \in two.value <=> next + j \in mem
    BY <2>1, <2>3, <2>4, WordSizeType
  <2> HIDE DEF next
  <2> QED BY <2>2, <2>4, <2>5, <2>6 DEF c, two, d, next
<1> QED BY <1>1, <1>2, <1>3

LEMMA NextBitsShows ==
  ASSUME mem \subseteq Nat, NEW s \in Nat, NEW e \in Nat, s <= e, NEW n \in Nat
  PROVE  LET w == next_bits(s, e, n)
             k == w.count
         IN  /\ k \in 0 .. WordSize /\ s + k \in Nat /\ s + k <= e /\ k <= n
             /\ k < n /\ k < e - s => n > WordSize /\ k > 0
             /\ Str(k, raw(w)) = Shown(s, s + k)
<1> DEFINE f == Limited(s, e, n)
           one == peek_word(s, f)
           c == one.count
           two == peek_word(s + c, f)
           d == two.count
           w == next_bits(s, e, n)
           k == w.count
<1>1. f \in s .. e /\ f = IF s + n <= e THEN s + n ELSE e
  BY LimitedIs
<1> HIDE DEF f
<1>2. f \in Nat /\ s <= f /\ f <= e /\ f - s <= n /\ (f - s < n => f = e)
  BY <1>1
<1>3. /\ c \in 0 .. WordSize /\ s + c \in Nat /\ s + c <= f /\ (c = 0 => s = f)
      /\ Str(c, raw(one)) = Shown(s, s + c)
  BY <1>2, PeekShows
<1>4. d \in 0 .. WordSize /\ (s + c) + d <= f
  BY <1>2, <1>3, PeekShows
<1>5. /\ c + d <= WordSize => c + d = f - s
      /\ d = 0 => two.value = {} /\ s + c = f
      /\ d > 0 =>
           /\ c > 0 /\ two.value \subseteq Nat
           /\ \A j \in 0 .. (d - 1) : j \in two.value <=> (s + c) + j \in mem
  BY <1>2, SecondWord
<1>6. w = truncated(IF c < n THEN push_bits(one, two) ELSE one, n)
  BY DEF next_bits, f
<1> HIDE DEF one, two, w
<1>7. c \in Nat /\ d \in Nat /\ c <= n /\ c <= WordSize
  BY <1>2, <1>3, <1>4, WordSizeType
<1>8. raw(one) = one.value \cap (0 .. (c - 1))
  BY <1>3, RawIs
<1>9. CASE ~(c < n) \/ c + d > WordSize
  <2>1. w = truncated(one, n)
    <3>1. c + d > WordSize => push_bits(one, two) = one
      BY <1>7, WordSizeType DEF push_bits
    <3> QED BY <1>6, <1>9, <3>1
  <2>2. w = WordBits(one.value, least(c, n)) /\ least(c, n) = c
    BY <1>7, <2>1 DEF truncated, least
  <2>3. k = c /\ w.value = one.value
    BY <2>2, WordFields
  <2> HIDE DEF k
  <2>4. raw(w) = raw(one)
    BY <1>3, <1>8, <2>3, RawIs DEF k
  <2>5. k < n => n > WordSize /\ k > 0
    <3>1. ASSUME k < n PROVE n > WordSize /\ k > 0
      <4>1. c + d > WordSize
        BY <1>7, <1>9, <2>3, <3>1
      <4>2. n > WordSize
        BY <1>2, <1>3, <1>4, <1>7, <4>1, WordSizeType
      <4>3. c # 0
        BY <1>2, <1>3, <1>4, <1>7, <4>1, WordSizeType
      <4> QED BY <1>7, <2>3, <4>2, <4>3
    <3> QED BY <3>1
  <2>6. k \in 0 .. WordSize /\ s + k \in Nat /\ s + k <= e /\ k <= n
    BY <1>2, <1>3, <1>7, <2>3
  <2>7. Str(k, raw(w)) = Shown(s, s + k)
    BY <1>3, <2>3, <2>4
  <2> QED BY <2>5, <2>6, <2>7 DEF k, w
<1>10. CASE c < n /\ c + d <= WordSize
  <2> DEFINE m == c + d
             V == raw(one) \cup (Up(two.value, c % WordSize) \cap Bit)
  <2>1. m \in 0 .. WordSize /\ m = f - s /\ s + m = f /\ m <= n
    BY <1>2, <1>5, <1>7, <1>10
  <2>2. push_bits(one, two) = WordBits(V, m)
    BY <1>10 DEF push_bits, Merged
  <2>3. w = truncated(WordBits(V, m), n)
    BY <1>6, <1>10, <2>2
  <2> HIDE DEF V
  <2>4. w = WordBits(V, m)
    <3>1. WordBits(V, m).value = V /\ WordBits(V, m).count = m
      BY WordFields
    <3> HIDE DEF m
    <3> QED BY <2>1, <2>3, <3>1 DEF truncated, least
  <2>5. k = m /\ w.value = V
    BY <2>4, WordFields
  <2>6. raw(w) = V \cap (0 .. (m - 1))
    <3> HIDE DEF m
    <3> QED BY <2>1, <2>5, RawIs
  <2>7. ASSUME NEW x \in 0 .. (m - 1) PROVE x \in V <=> s + x \in mem
    <3>1. ASSUME NEW y \in 0 .. (c - 1) PROVE y \in raw(one) <=> s + y \in mem
      <4> DEFINE t == s + c
      <4>0. t \in Nat /\ s <= t /\ t - s = c
        BY <1>3, <1>7
      <4> HIDE DEF t
      <4>1. \A z \in Int : z \in Shown(s, t).ones <=> z \in 0 .. (c - 1) /\ s + z \in mem
        BY <4>0, ShownIs
      <4>2. Shown(s, s + c).ones = raw(one)
        BY <1>3, StrIs
      <4> QED BY <1>7, <4>1, <4>2 DEF t
    <3>2. CASE d = 0
      <4>1. two.value = {} /\ m = c
        BY <1>5, <1>7, <3>2
      <4>2. V = raw(one)
        BY <4>1 DEF V, Up
      <4> HIDE DEF m
      <4> QED BY <3>1, <4>1, <4>2
    <3>3. CASE d > 0
      <4>1. c < WordSize /\ c % WordSize = c
        BY <1>7, <1>10, <3>3, WordSizeType
      <4>2. V = raw(one) \cup ({i + c : i \in two.value} \cap Bit)
        BY <4>1 DEF V, Up
      <4>3. two.value \subseteq Nat
            /\ \A j \in 0 .. (d - 1) : j \in two.value <=> (s + c) + j \in mem
        BY <1>5, <3>3
      <4>4. x \in Bit
        BY <1>7, <1>10, WordSizeType DEF Bit
      <4>5. CASE x < c
        <5>1. x \notin {i + c : i \in two.value}
          BY <1>7, <4>3, <4>5
        <5> QED BY <1>7, <3>1, <4>2, <4>5, <5>1
      <4>6. CASE x >= c
        <5>1. x - c \in 0 .. (d - 1) /\ (s + c) + (x - c) = s + x /\ (x - c) + c = x
          BY <1>7, <4>6
        <5>2. x \notin raw(one)
          BY <1>7, <1>8, <4>6
        <5>3. ASSUME NEW i \in two.value, x = i + c PROVE i = x - c
          BY <1>7, <4>3, <5>3
        <5>4. x \in {i + c : i \in two.value} <=> x - c \in two.value
          BY <5>1, <5>3
        <5> QED BY <4>2, <4>3, <4>4, <5>1, <5>2, <5>4
      <4> QED BY <1>7, <4>5, <4>6
    <3> QED BY <1>7, <3>2, <3>3
  <2> DEFINE S == V \cap (0 .. (m - 1))
  <2>8. Str(m, S) = Shown(s, s + m)
    <3>1. S \subseteq 0 .. (m - 1) /\ \A x \in 0 .. (m - 1) : x \in S <=> s + x \in mem
      BY <2>7
    <3>2. s + m \in Nat /\ s <= s + m /\ m = (s + m) - s
      BY <1>2, <2>1
    <3> HIDE DEF S, m
    <3> QED BY <3>1, <3>2, ShowsBits
  <2>9. ~(k < n /\ k < e - s)
    BY <1>2, <2>1, <2>5
  <2> HIDE DEF m, k
  <2>10. k \in 0 .. WordSize /\ s + k \in Nat /\ s + k <= e /\ k <= n
    BY <1>2, <2>1, <2>5
  <2>11. Str(k, raw(w)) = Shown(s, s + k)
    BY <2>5, <2>6, <2>8
  <2> QED BY <2>9, <2>10, <2>11 DEF k, w
<1> QED BY <1>7, <1>9, <1>10, WordSizeType

LEMMA NextBitsKeeps ==
  ASSUME IInv, NextBits
  PROVE  Keeps /\ Abstract!NextBits
<1>1. PICK n \in Counts :
        LET e == Limited(start, stop, n)
            w == next_bits(start, stop, n)
            one == peek_word(start, e)
        IN  Calls("next_bits", <<n>>, start + w.count, stop, Some(Str(w.count, raw(w))),
                  WordsPeeked(start, e) \cup
                  (IF one.count < n THEN WordsPeeked(start + one.count, e) ELSE {}))
  BY DEF NextBits
<1> DEFINE e == Limited(start, stop, n)
           w == next_bits(start, stop, n)
           k == w.count
           one == peek_word(start, e)
           seen == WordsPeeked(start, e) \cup
                   (IF one.count < n THEN WordsPeeked(start + one.count, e) ELSE {})
<1>2. /\ start \in Nat /\ stop \in Nat /\ start <= stop /\ mem \subseteq Nat /\ n \in Nat
      /\ len = stop - start /\ Rest.len = len
  BY WindowType, RestIs, CountIs
<1>3. /\ k \in 0 .. WordSize /\ start + k \in Nat /\ start + k <= stop /\ k <= n
      /\ k < n /\ k < stop - start => n > WordSize /\ k > 0
      /\ Str(k, raw(w)) = Shown(start, start + k)
  BY <1>2, NextBitsShows
<1>4. Calls("next_bits", <<n>>, start + k, stop, Some(Str(k, raw(w))), seen)
  BY <1>1
<1>5. seen \subseteq Within(start, stop)
  <2>1. e \in start .. stop
    BY <1>2, LimitedIs
  <2> HIDE DEF e
  <2>2. start + one.count \in Nat /\ start + one.count <= e /\ one.count \in 0 .. WordSize
    BY <1>2, <2>1, PeekShows
  <2> DEFINE next == start + one.count
  <2>3. next \in start .. e
    BY <1>2, <2>2, WordSizeType
  <2> HIDE DEF next
  <2>4. WordsPeeked(start, e) \subseteq Within(start, e)
        /\ WordsPeeked(next, e) \subseteq Within(next, e)
    BY <1>2, <2>1, <2>3, PeekedWithin
  <2>5. Within(start, e) \subseteq Within(start, stop)
        /\ Within(next, e) \subseteq Within(start, stop)
    BY <1>2, <2>1, <2>3, WithinGrows
  <2> QED BY <2>4, <2>5 DEF next
<1> HIDE DEF w, k, seen
<1>6. k \in 0 .. len
  BY <1>2, <1>3, WordSizeType
<1>7. Take(Rest, k) = Shown(start, start + k) /\ Drop(Rest, k) = Shown(start + k, stop)
  BY <1>6, RestParts
<1>8. Keeps /\ Abstract!Calls("next_bits", <<n>>, Drop(Rest, k), {Take(Rest, k)})
  BY <1>2, <1>3, <1>4, <1>5, <1>7, CallsIs DEF Some
<1>9. k <= len
  BY <1>2, <1>6
<1> QED BY <1>2, <1>3, <1>8, <1>9, SameOperators DEF Abstract!NextBits, Rest

(* The indexes of the bits v in the string that is left.                   *)
Indexes(v) == Abstract!IndexesOf(Rest, v)

LEMMA RestIndexes ==
  ASSUME IInv, NEW v \in BOOLEAN
  PROVE  /\ Indexes(v) \subseteq 0 .. (len - 1)
         /\ \A x \in Int : x \in Indexes(v) <=> x \in 0 .. (len - 1) /\ (start + x \in mem <=> v)
         /\ \A i : i \in Hits(start, stop, v) <=> i \in start .. (stop - 1) /\ (i \in mem <=> v)
         /\ \A i \in Hits(start, stop, v) : i \in Nat /\ i - start \in Indexes(v)
         /\ \A x \in Indexes(v) : x \in Nat /\ start + x \in Hits(start, stop, v)
<1> DEFINE I == Indexes(v)
           H == Hits(start, stop, v)
<1>1. /\ start \in Nat /\ stop \in Nat /\ start <= stop
      /\ len = stop - start /\ len \in Nat /\ Rest = Shown(start, stop)
  BY WindowType, RestIs
<1>2. /\ I \subseteq 0 .. (len - 1)
      /\ \A x \in Int : x \in I <=> x \in 0 .. (len - 1) /\ (start + x \in mem <=> v)
  BY <1>1, IndexesAre DEF Indexes
<1>3. \A i : i \in H <=> i \in start .. (stop - 1) /\ (i \in mem <=> v)
  BY <1>1, HitsAre
<1> HIDE DEF I, H
<1>4. ASSUME NEW i \in H PROVE i \in Nat /\ i - start \in I
  <2>1. i \in start .. (stop - 1) /\ start + (i - start) = i /\ i - start \in 0 .. (len - 1)
    BY <1>1, <1>3
  <2> QED BY <1>1, <1>2, <1>3, <2>1
<1>5. ASSUME NEW x \in I PROVE x \in Nat /\ start + x \in H
  <2>1. x \in 0 .. (len - 1) /\ start + x \in start .. (stop - 1)
    BY <1>1, <1>2
  <2> QED BY <1>1, <1>2, <1>3, <2>1
<1> QED BY <1>2, <1>3, <1>4, <1>5 DEF I, H

(* The first hit is the first index.                                       *)
LEMMA FirstIndex ==
  ASSUME IInv, NEW v \in BOOLEAN, NEW i, IsLeast(i, Hits(start, stop, v))
  PROVE  /\ i \in Nat /\ i - start \in 0 .. (len - 1) /\ i + 1 <= stop
         /\ i - start \in Indexes(v) /\ Abstract!IsFirst(i - start, Indexes(v))
<1>1. start \in Nat /\ stop \in Nat /\ start <= stop /\ len = stop - start
  BY WindowType
<1>2. i \in Hits(start, stop, v) /\ \A j \in Hits(start, stop, v) : i <= j
  BY DEF IsLeast
<1>3. /\ i \in Nat /\ i - start \in Indexes(v) /\ Indexes(v) \subseteq 0 .. (len - 1)
      /\ i \in start .. (stop - 1)
      /\ \A x \in Indexes(v) : x \in Nat /\ start + x \in Hits(start, stop, v)
  BY <1>2, RestIndexes
<1>4. ASSUME NEW x \in Indexes(v) PROVE i - start <= x
  <2>1. i <= start + x /\ x \in Nat
    BY <1>2, <1>3
  <2> QED BY <1>1, <1>3, <2>1
<1> QED BY <1>1, <1>3, <1>4 DEF Abstract!IsFirst

LEMMA BitPositionKeeps ==
  ASSUME IInv, BitPosition
  PROVE  Keeps /\ Abstract!BitPosition
<1>1. PICK v \in BOOLEAN : Finds("bit_position", <<v>>, position(start, stop, v))
  BY DEF BitPosition
<1> DEFINE p == position(start, stop, v)
           H == Hits(start, stop, v)
<1>2. start \in Nat /\ stop \in Nat /\ start <= stop /\ len = stop - start
  BY WindowType
<1>3. /\ H = {} => p.off = None /\ p.start = stop
      /\ \A i : IsLeast(i, H) => p.off = Some(i - start) /\ p.start = i + 1
      /\ p.reads \subseteq Within(start, stop)
  BY <1>2, PositionFinds DEF FindsFirst
<1>4. Calls("bit_position", <<v>>, p.start, stop, p.off, p.reads)
  BY <1>1 DEF Finds
<1> HIDE DEF p, H
<1>5. CASE H = {}
  <2>1. Calls("bit_position", <<v>>, stop, stop, None, p.reads)
    BY <1>3, <1>4, <1>5
  <2>2. Keeps /\ Abstract!Calls("bit_position", <<v>>, NoBits, {})
    BY <1>2, <1>3, <2>1, RestNone, CallsIs DEF None
  <2>3. Indexes(v) = {}
    BY <1>5, RestIndexes DEF H
  <2> QED BY <2>2, <2>3, SameOperators DEF Abstract!BitPosition, Indexes, Rest
<1>6. CASE H # {}
  <2>1. PICK i : IsLeast(i, H)
    BY <1>2, <1>6, LeastHit DEF H
  <2> DEFINE x == i - start
             k == x + 1
  <2>2. /\ i \in Nat /\ x \in 0 .. (len - 1) /\ i + 1 <= stop
        /\ x \in Indexes(v) /\ Abstract!IsFirst(x, Indexes(v))
    BY <2>1, FirstIndex DEF H
  <2>3. k \in 0 .. len /\ start + k = i + 1
    BY <1>2, <2>2
  <2>4. Calls("bit_position", <<v>>, i + 1, stop, Some(x), p.reads)
    BY <1>3, <1>4, <2>1
  <2> HIDE DEF x, k
  <2>5. Drop(Rest, k) = Shown(i + 1, stop)
    BY <2>3, RestParts
  <2>6. Keeps /\ Abstract!Calls("bit_position", <<v>>, Drop(Rest, k), {x})
    BY <1>2, <1>3, <2>2, <2>4, <2>5, CallsIs DEF Some
  <2>7. Abstract!Calls("bit_position", <<v>>, Abstract!Drop(Rest, x + 1), {x})
    BY <2>6, SameOperators DEF k
  <2> QED BY <2>2, <2>6, <2>7 DEF Abstract!BitPosition, Indexes, Rest
<1> QED BY <1>5, <1>6

-----------------------------------------------------------------------------
(* The last hit. *)

LEMMA MaxIs ==
  ASSUME NEW n \in Nat, NEW S, S \subseteq 0 .. n, S # {}
  PROVE  Max(S) \in S /\ \A y \in S : y <= Max(S)
<1> DEFINE T == {n - s : s \in S}
<1>1. T \subseteq Nat /\ T # {}
  <2>1. \A s \in S : n - s \in Nat
    OBVIOUS
  <2>2. PICK s \in S : TRUE
    OBVIOUS
  <2>3. n - s \in T
    BY <2>2
  <2>4. T \subseteq Nat
    BY <2>1
  <2> QED BY <2>3, <2>4
<1>2. PICK t \in T : \A u \in T : t <= u
  <2> HIDE DEF T
  <2> QED BY <1>1, Least
<1>3. PICK x \in S : t = n - x
  BY <1>2
<1>4. \A y \in S : x >= y
  <2> SUFFICES ASSUME NEW y \in S PROVE x >= y
    OBVIOUS
  <2>1. n - x <= n - y
    BY <1>2, <1>3
  <2> QED BY <2>1
<1>5. \E z \in S : \A y \in S : z >= y
  BY <1>4
<1>6. Max(S) \in S /\ \A y \in S : Max(S) >= y
  BY <1>5, Zenon DEF Max
<1> QED BY <1>6

LEMMA RBitPositionKeeps ==
  ASSUME IInv, RBitPosition
  PROVE  Keeps /\ Abstract!RBitPosition
<1>1. PICK v \in BOOLEAN :
        LET hits == {i \in start .. (stop - 1) : (i \in mem) = v}
        IN  IF hits = {}
            THEN Calls("rbit_position", <<v>>, start, start, None,
                       {word_index(i) : i \in start .. (stop - 1)})
            ELSE Calls("rbit_position", <<v>>, start, Max(hits), Some(Max(hits) - start),
                       {word_index(i) : i \in Max(hits) .. (stop - 1)})
  BY DEF RBitPosition
<1> DEFINE H == Hits(start, stop, v)
           m == Max(H)
<1>2. /\ start \in Nat /\ stop \in Nat /\ start <= stop /\ len = stop - start /\ Rest.len = len
  BY WindowType, RestIs
<1>3. /\ \A i : i \in H <=> i \in start .. (stop - 1) /\ (i \in mem <=> v)
      /\ \A i \in H : i \in Nat /\ i - start \in Indexes(v)
      /\ \A x \in Indexes(v) : x \in Nat /\ start + x \in H
      /\ Indexes(v) \subseteq 0 .. (len - 1)
  BY RestIndexes
<1>4. IF H = {}
      THEN Calls("rbit_position", <<v>>, start, start, None,
                 {word_index(i) : i \in start .. (stop - 1)})
      ELSE Calls("rbit_position", <<v>>, start, m, Some(m - start),
                 {word_index(i) : i \in m .. (stop - 1)})
  BY <1>1 DEF Hits
<1> HIDE DEF H
<1>5. ASSUME NEW s \in start .. stop
      PROVE  {word_index(i) : i \in s .. (stop - 1)} \subseteq Within(start, stop)
  <2> SUFFICES ASSUME NEW i \in s .. (stop - 1) PROVE word_index(i) \in Within(start, stop)
    OBVIOUS
  <2>1. i \in start .. (stop - 1)
    BY <1>2, <1>5
  <2> QED BY <1>2, <2>1, WordOfBit
<1>6. CASE H = {}
  <2>1. {word_index(i) : i \in start .. (stop - 1)} \subseteq Within(start, stop)
    BY <1>2, <1>5
  <2>2. Calls("rbit_position", <<v>>, start, start, None,
              {word_index(i) : i \in start .. (stop - 1)})
    BY <1>4, <1>6
  <2>3. NoBits = Shown(start, start)
    BY RestNone
  <2>4. Keeps /\ Abstract!Calls("rbit_position", <<v>>, Shown(start, start), {})
    BY <1>2, <2>1, <2>2, CallsIs DEF None
  <2>5. Indexes(v) = {}
    BY <1>3, <1>6
  <2> QED BY <2>3, <2>4, <2>5, SameOperators DEF Abstract!RBitPosition, Indexes, Rest
<1>7. CASE H # {}
  <2>1. m \in H /\ \A y \in H : y <= m
    <3>1. H \subseteq 0 .. stop
      BY <1>2, <1>3
    <3> QED BY <1>2, <1>7, <3>1, MaxIs
  <2> DEFINE x == m - start
  <2>2. Calls("rbit_position", <<v>>, start, m, Some(x), {word_index(i) : i \in m .. (stop - 1)})
    BY <1>4, <1>7
  <2> HIDE DEF m
  <2>3. /\ m \in start .. stop /\ m \in Nat /\ start <= m /\ m <= stop
        /\ x \in Indexes(v) /\ x \in 0 .. len /\ start + x = m
    BY <1>2, <1>3, <2>1
  <2>4. \A y \in Indexes(v) : y <= x
    <3> SUFFICES ASSUME NEW y \in Indexes(v) PROVE y <= x
      OBVIOUS
    <3>1. start + y <= m /\ y \in Nat
      BY <1>3, <2>1
    <3> QED BY <1>2, <2>3, <3>1
  <2> HIDE DEF x
  <2>5. Take(Rest, x) = Shown(start, m)
    BY <2>3, RestParts
  <2>6. {word_index(i) : i \in m .. (stop - 1)} \subseteq Within(start, stop)
    BY <1>5, <2>3
  <2>7. Keeps /\ Abstract!Calls("rbit_position", <<v>>, Take(Rest, x), {x})
    BY <1>2, <2>2, <2>3, <2>5, <2>6, CallsIs DEF Some
  <2> QED BY <2>3, <2>4, <2>7, SameOperators DEF Abstract!RBitPosition, Indexes, Rest
<1> QED BY <1>6, <1>7

LEMMA NextBitCountKeeps ==
  ASSUME IInv, NextBitCount
  PROVE  Keeps /\ Abstract!NextBitCount
<1> DEFINE v == start \in mem
           other == ~v
           next == start + 1
           p == position(next, stop, other)
           H == Hits(next, stop, other)
           seen == p.reads \cup {word_index(start)}
<1>1. IF len = 0
      THEN Calls("next_bit_count", <<>>, start, stop, Some(<<FALSE, 0>>), {})
      ELSE IF p.off # None
      THEN Calls("next_bit_count", <<>>, start + 1 + Min(p.off), stop,
                 Some(<<v, Min(p.off) + 1>>), seen)
      ELSE Calls("next_bit_count", <<>>, stop, stop, Some(<<v, stop - start>>), seen)
  BY DEF NextBitCount
<1>2. /\ start \in Nat /\ stop \in Nat /\ start <= stop /\ len = stop - start /\ len \in Nat
      /\ Rest.len = len /\ Rest = Shown(start, stop)
  BY WindowType, RestIs
<1>3. v \in BOOLEAN /\ (start \in mem <=> v) /\ other \in BOOLEAN /\ (other <=> ~v)
  OBVIOUS
<1>4. CASE len = 0
  <2>1. Calls("next_bit_count", <<>>, start, stop, Some(<<FALSE, 0>>), {})
    BY <1>1, <1>4
  <2>2. Keeps /\ Abstract!Calls("next_bit_count", <<>>, Rest, {<<FALSE, 0>>})
    BY <1>2, <2>1, CallsIs DEF Some
  <2> QED BY <1>2, <1>4, <2>2 DEF Abstract!NextBitCount, Rest
<1>5. CASE len # 0
  <2> HIDE DEF v, other
  <2>1. next \in Nat /\ next <= stop /\ start < next
    BY <1>2, <1>5
  <2> HIDE DEF next
  <2>2. /\ H = {} => p.off = None /\ p.start = stop
        /\ \A i : IsLeast(i, H) => p.off = Some(i - next) /\ p.start = i + 1
        /\ p.reads \subseteq Within(next, stop)
    <3>1. stop \in Nat /\ other \in BOOLEAN
      BY <1>2, <1>3
    <3>2. FindsFirst(p, next, next, stop, other) /\ p.reads \subseteq Within(next, stop)
      BY <2>1, <3>1, PositionFinds
    <3> QED BY <3>2 DEF FindsFirst
  <2>3. seen \subseteq Within(start, stop)
    <3>1. Within(next, stop) \subseteq Within(start, stop)
      BY <1>2, <2>1, WithinGrows
    <3>2. start \in start .. (stop - 1)
      BY <1>2, <1>5
    <3>3. word_index(start) \in Within(start, stop)
      BY <1>2, <3>2, WordOfBit
    <3> QED BY <2>2, <3>1, <3>3
  <2>4. \A i : i \in H <=> i \in next .. (stop - 1) /\ (i \in mem <=> other)
    BY <1>2, <1>3, <2>1, HitsAre
  <2>5. \A x \in Int : x \in Indexes(v) <=> x \in 0 .. (len - 1) /\ (start + x \in mem <=> v)
    BY <1>3, RestIndexes
  <2>6. PICK n \in 1 .. len :
          /\ Calls("next_bit_count", <<>>, start + n, stop, Some(<<v, n>>), seen)
          /\ \A i \in next .. (start + n - 1) : i \in mem <=> v
          /\ n < len => (start + n \in mem <=> other)
    <3>1. CASE H = {}
      <4>1. p.off = None
        BY <2>2, <3>1
      <4> HIDE DEF p, seen
      <4>2. Calls("next_bit_count", <<>>, start + len, stop, Some(<<v, len>>), seen)
        <5>1. start + len = stop /\ stop - start = len
          BY <1>2
        <5> QED BY <1>1, <1>5, <4>1, <5>1
      <4>3. \A i \in next .. (start + len - 1) : i \in mem <=> v
        BY <1>2, <1>3, <2>4, <3>1
      <4>4. len \in 1 .. len
        BY <1>2, <1>5
      <4> QED BY <4>2, <4>3, <4>4
    <3>2. CASE H # {}
      <4>1. PICK i : IsLeast(i, H)
        BY <1>2, <1>3, <2>1, <3>2, LeastHit
      <4>2. i \in next .. (stop - 1) /\ (i \in mem <=> other) /\ \A j \in H : i <= j
        BY <2>4, <4>1 DEF IsLeast
      <4>3. p.off = Some(i - next)
        BY <2>2, <4>1
      <4> DEFINE n == i - start
      <4>4. p.off # None /\ Min(p.off) = i - next
        BY <2>1, <4>2, <4>3, SomeIs
      <4>5. n \in 1 .. len /\ start + n = i /\ start + n - 1 = i - 1 /\ Min(p.off) + 1 = n
            /\ start + 1 + Min(p.off) = i
        BY <1>2, <2>1, <4>2, <4>4 DEF next
      <4> HIDE DEF n, p, seen, H
      <4>6. Calls("next_bit_count", <<>>, start + n, stop, Some(<<v, n>>), seen)
        BY <1>1, <1>5, <4>4, <4>5
      <4>7. \A j \in next .. (i - 1) : j \in mem <=> v
        <5> SUFFICES ASSUME NEW j \in next .. (i - 1) PROVE j \in mem <=> v
          OBVIOUS
        <5>1. j \in next .. (stop - 1) /\ ~(i <= j)
          BY <1>2, <2>1, <4>2
        <5>2. ~(j \in mem <=> other)
          BY <2>4, <4>2, <5>1
        <5> QED BY <1>3, <5>2
      <4>8. \A j \in next .. (start + n - 1) : j \in mem <=> v
        BY <4>5, <4>7
      <4> QED BY <4>2, <4>5, <4>6, <4>8
    <3> QED BY <3>1, <3>2
  <2> HIDE DEF seen, p, H
  <2>7. n \in 0 .. len /\ start + n \in Nat /\ start + n <= stop
    BY <1>2
  <2>8. Drop(Rest, n) = Shown(start + n, stop)
    BY <2>7, RestParts
  <2>9. Keeps /\ Abstract!Calls("next_bit_count", <<>>, Drop(Rest, n), {<<v, n>>})
    BY <1>2, <2>3, <2>6, <2>7, <2>8, CallsIs DEF Some
  <2>10. 0 .. (n - 1) \subseteq Indexes(v)
    <3> SUFFICES ASSUME NEW x \in 0 .. (n - 1) PROVE x \in Indexes(v)
      OBVIOUS
    <3>1. x \in 0 .. (len - 1) /\ x \in Int
      BY <1>2, <2>7
    <3>2. CASE x = 0
      BY <1>2, <1>3, <2>5, <3>1, <3>2
    <3>3. CASE x # 0
      <4>1. start + x \in next .. (start + n - 1)
        BY <1>2, <2>7, <3>3 DEF next
      <4>2. start + x \in mem <=> v
        BY <2>6, <4>1
      <4> QED BY <2>5, <3>1, <4>2
    <3> QED BY <3>2, <3>3
  <2>11. n < len => n \notin Indexes(v)
    <3>1. n < len => ~(start + n \in mem <=> v)
      BY <1>3, <2>6
    <3> QED BY <2>5, <2>7, <3>1
  <2>12. n \in 1 .. Rest.len /\ (n < Rest.len => n \notin Indexes(v))
    BY <1>2, <2>6, <2>11
  <2>13. Abstract!Calls("next_bit_count", <<>>, Abstract!Drop(Rest, n), {<<v, n>>})
    BY <2>9, SameOperators
  <2> QED BY <1>3, <2>9, <2>10, <2>12, <2>13 DEF Abstract!NextBitCount, Indexes, Rest
<1> QED BY <1>4, <1>5

(* All bits of the string are v when the window has no other.              *)
LEMMA AllBits ==
  ASSUME IInv, NEW v \in BOOLEAN
  PROVE  Indexes(v) = 0 .. (len - 1) <=> \A i \in start .. (stop - 1) : i \in mem <=> v
<1>1. /\ start \in Nat /\ stop \in Nat /\ start <= stop /\ len = stop - start /\ len \in Nat
      /\ Indexes(v) \subseteq 0 .. (len - 1)
      /\ \A x \in Int : x \in Indexes(v) <=> x \in 0 .. (len - 1) /\ (start + x \in mem <=> v)
  BY WindowType, RestIndexes
<1>2. ASSUME Indexes(v) = 0 .. (len - 1), NEW i \in start .. (stop - 1) PROVE i \in mem <=> v
  <2>1. i - start \in 0 .. (len - 1) /\ start + (i - start) = i
    BY <1>1
  <2> QED BY <1>1, <1>2, <2>1
<1>3. ASSUME \A i \in start .. (stop - 1) : i \in mem <=> v, NEW x \in 0 .. (len - 1)
      PROVE  x \in Indexes(v)
  <2>1. start + x \in start .. (stop - 1)
    BY <1>1
  <2> QED BY <1>1, <1>3, <2>1
<1> QED BY <1>1, <1>2, <1>3

LEMMA BooleanSet ==
  ASSUME NEW S, S \subseteq BOOLEAN
  PROVE  /\ TRUE \in S /\ FALSE \notin S => S = {TRUE}
         /\ TRUE \notin S /\ FALSE \in S => S = {FALSE}
         /\ TRUE \notin S /\ FALSE \notin S => S = {}
<1>1. \A v \in S : v = TRUE \/ v = FALSE
  BY Zenon
<1> QED BY <1>1, Zenon

LEMMA AllValueKeeps ==
  ASSUME IInv, AllValue
  PROVE  Keeps /\ Abstract!AllValue
<1> DEFINE one == position(start, stop, TRUE)
           next == one.start
           zero == position(next, stop, FALSE)
           result == CASE len = 0 -> None
                       [] len > 0 /\ one.off = None -> Some(FALSE)
                       [] len > 0 /\ one.off = Some(0) ->
                            IF zero.off = None THEN Some(TRUE) ELSE None
                       [] OTHER -> None
           seen == one.reads \cup (IF one.off = Some(0) THEN zero.reads ELSE {})
           H == Hits(start, stop, TRUE)
           answer == {v \in BOOLEAN : len > 0 /\ Indexes(v) = 0 .. (len - 1)}
           All(v) == \A i \in start .. (stop - 1) : i \in mem <=> v
           any == len > 0
<1>1. Calls("all_value", <<>>, start, stop, result, seen)
  BY DEF AllValue
<1>2. /\ start \in Nat /\ stop \in Nat /\ start <= stop /\ len = stop - start /\ len \in Nat
      /\ Rest.len = len /\ Rest = Shown(start, stop)
  BY WindowType, RestIs
<1>3. FindsFirst(one, start, start, stop, TRUE) /\ one.reads \subseteq Within(start, stop)
  BY <1>2, PositionFinds
<1>4. /\ H = {} => one.off = None /\ next = stop
      /\ \A i : IsLeast(i, H) => one.off = Some(i - start) /\ next = i + 1
  BY <1>3 DEF FindsFirst
<1>5. \A i : i \in H <=> i \in start .. (stop - 1) /\ i \in mem
  BY DEF Hits
<1>6. /\ answer \subseteq BOOLEAN
      /\ TRUE \in answer <=> any /\ All(TRUE)
      /\ FALSE \in answer <=> any /\ All(FALSE)
  <2>1. /\ Indexes(TRUE) = 0 .. (len - 1) <=> All(TRUE)
        /\ Indexes(FALSE) = 0 .. (len - 1) <=> All(FALSE)
    BY AllBits
  <2> HIDE DEF All
  <2> QED BY <2>1
<1>9. /\ ~any => result = None
      /\ any /\ one.off = None => result = Some(FALSE)
      /\ any /\ one.off # None /\ one.off = Some(0) =>
           result = IF zero.off = None THEN Some(TRUE) ELSE None
      /\ one.off # None /\ one.off # Some(0) => result = None
  <2> DEFINE off == one.off
             zoff == zero.off
             no == len = 0
             yes == any
  <2>1. result = CASE no -> None
                   [] yes /\ off = None -> Some(FALSE)
                   [] yes /\ off = Some(0) -> IF zoff = None THEN Some(TRUE) ELSE None
                   [] OTHER -> None
    OBVIOUS
  <2>2. None # Some(0)
    BY DEF None, Some
  <2>3. ~no <=> yes
    BY <1>2
  <2> HIDE DEF off, zoff, result, no, yes
  <2>4. no => result = None
    BY <2>1, <2>3
  <2>5. yes /\ off = None => result = Some(FALSE)
    <3>1. ASSUME yes, off = None PROVE result = Some(FALSE)
      <4>1. ~no /\ ~(off = Some(0))
        BY <2>2, <2>3, <3>1
      <4> QED BY <2>1, <3>1, <4>1
    <3> QED BY <3>1
  <2>6. yes /\ off # None /\ off = Some(0) =>
           result = IF zoff = None THEN Some(TRUE) ELSE None
    <3>1. ASSUME yes, off # None, off = Some(0)
          PROVE  result = IF zoff = None THEN Some(TRUE) ELSE None
      BY <2>1, <2>3, <3>1
    <3> QED BY <3>1
  <2>7. off # None /\ off # Some(0) => result = None
    BY <2>1
  <2>8. ~yes => result = None
    BY <2>3, <2>4, Zenon
  <2> QED BY <2>5, <2>6, <2>7, <2>8, Zenon DEF off, zoff, yes
<1>10. any <=> len # 0
  BY <1>2
<1> HIDE DEF one, next, zero, H, answer, result, any
<1>7. seen \subseteq Within(start, stop) /\ result = answer
  <2>1. CASE len = 0
    <3>1. H = {} /\ answer = {} /\ result = None
      <4>1. H = {}
        BY <1>2, <1>5, <2>1
      <4>2. TRUE \notin answer /\ FALSE \notin answer
        BY <1>6, <1>10, <2>1, Zenon
      <4> QED BY <1>6, <1>9, <1>10, <2>1, <4>1, <4>2, BooleanSet
    <3>2. one.off # Some(0)
      BY <1>4, <3>1 DEF None, Some
    <3> QED BY <1>3, <3>1, <3>2 DEF None
  <2>2. CASE len # 0 /\ H = {}
    <3>1. one.off = None /\ one.off # Some(0)
      BY <1>4, <2>2 DEF None, Some
    <3>2. result = Some(FALSE) /\ any
      BY <1>9, <1>10, <2>2, <3>1, Zenon
    <3>3. All(FALSE) /\ ~All(TRUE)
      <4>1. start \in start .. (stop - 1) /\ start \notin H
        BY <1>2, <2>2
      <4> QED BY <1>5, <2>2, <4>1
    <3>4. answer = {FALSE}
      BY <1>6, <3>2, <3>3, BooleanSet
    <3> QED BY <1>3, <3>1, <3>2, <3>4 DEF Some
  <2>3. CASE len # 0 /\ H # {}
    <3>1. PICK i : IsLeast(i, H)
      BY <1>2, <2>3, LeastHit DEF H
    <3>2. /\ i \in start .. (stop - 1) /\ i \in mem /\ \A j \in H : i <= j
          /\ one.off = Some(i - start) /\ next = i + 1
      BY <1>4, <1>5, <3>1 DEF IsLeast
    <3>3. one.off # None /\ ~All(FALSE) /\ next \in Nat /\ next <= stop
      BY <1>2, <3>2 DEF None, Some
    <3>4. CASE i = start
      <4>1. one.off = Some(0)
        BY <1>2, <3>2, <3>4
      <4>2. result = IF zero.off = None THEN Some(TRUE) ELSE None
        BY <1>9, <1>10, <2>3, <3>3, <4>1, Zenon
      <4> DEFINE Z == Hits(next, stop, FALSE)
      <4>3. FindsFirst(zero, next, next, stop, FALSE) /\ zero.reads \subseteq Within(next, stop)
        BY <1>2, <3>3, PositionFinds DEF zero
      <4>4. /\ Z = {} => zero.off = None
            /\ \A k : IsLeast(k, Z) => zero.off = Some(k - next)
        BY <4>3 DEF FindsFirst
      <4>5. \A k : k \in Z <=> k \in next .. (stop - 1) /\ ~(k \in mem)
        BY DEF Hits
      <4>6. Z # {} => \E k : IsLeast(k, Z)
        BY <1>2, <3>3, LeastHit
      <4> HIDE DEF Z
      <4>7. zero.off = None <=> Z = {}
        BY <4>4, <4>6 DEF None, Some
      <4>8. All(TRUE) <=> Z = {}
        <5>1. \A k \in start .. (stop - 1) : k = start \/ k \in next .. (stop - 1)
          BY <1>2, <3>2, <3>4
        <5>2. \A k \in next .. (stop - 1) : k \in start .. (stop - 1)
          BY <1>2, <3>2, <3>4
        <5> QED BY <3>2, <3>4, <4>5, <5>1, <5>2
      <4>9. answer = IF Z = {} THEN {TRUE} ELSE {}
        <5>1. TRUE \in answer <=> Z = {}
          BY <1>6, <1>10, <2>3, <4>8, Zenon
        <5> QED BY <1>6, <3>3, <5>1, BooleanSet
      <4>10. seen \subseteq Within(start, stop)
        <5>1. Within(next, stop) \subseteq Within(start, stop)
          BY <1>2, <3>2, <3>3, WithinGrows
        <5> QED BY <1>3, <4>3, <5>1
      <4> QED BY <4>2, <4>7, <4>9, <4>10 DEF None, Some
    <3>5. CASE i # start
      <4>1. one.off # Some(0)
        <5>1. i - start # 0
          BY <1>2, <3>2, <3>5
        <5> QED BY <3>2, <5>1 DEF Some
      <4>2. result = None
        BY <1>9, <3>3, <4>1
      <4>3. ~All(TRUE)
        <5>1. start \in start .. (stop - 1) /\ start \notin H
          BY <1>2, <2>3, <3>2, <3>5
        <5> QED BY <1>5, <5>1
      <4>4. answer = {}
        BY <1>6, <3>3, <4>3, BooleanSet
      <4> QED BY <1>3, <4>1, <4>2, <4>4 DEF None
    <3> QED BY <3>4, <3>5
  <2> QED BY <2>1, <2>2, <2>3
<1> HIDE DEF seen
<1>8. Keeps /\ Abstract!Calls("all_value", <<>>, Rest, answer)
  BY <1>1, <1>2, <1>7, CallsIs
<1> QED BY <1>2, <1>8 DEF Abstract!AllValue, Indexes, Rest, answer, any

-----------------------------------------------------------------------------
(* Slots. *)

LEMMA SizeIs == ASSUME NEW n \in Sizes PROVE n \in Nat
BY IterAssumption

(* The slots of the string are those of the window.                        *)
LEMMA RestSlots ==
  ASSUME IInv, NEW v \in BOOLEAN, NEW n \in Nat \ {0}
  PROVE  /\ \A x : x \in Abstract!Slots(Rest, v, n) =>
                   x \in Nat /\ x + n <= len /\ start + x \in SlotsFrom(start, v, n)
         /\ \A i : i \in SlotsFrom(start, v, n) =>
                   i \in Nat /\ start <= i /\ i + n <= stop
                   /\ i - start \in Abstract!Slots(Rest, v, n)
<1> DEFINE S == Abstract!Slots(Rest, v, n)
           T == SlotsFrom(start, v, n)
<1>1. /\ start \in Nat /\ stop \in Nat /\ start <= stop /\ len = stop - start /\ len \in Nat
      /\ Rest.len = len
      /\ \A x \in Int : x \in Indexes(v) <=> x \in 0 .. (len - 1) /\ (start + x \in mem <=> v)
  BY WindowType, RestIs, RestIndexes
<1>2. \A x : x \in S <=> x \in 0 .. (len - n) /\ x .. (x + n - 1) \subseteq Indexes(v)
  BY <1>1 DEF Abstract!Slots, Indexes
<1>3. \A i : i \in T <=> /\ i \in Int /\ start <= i /\ i + n <= stop
                         /\ \A j \in i .. (i + n - 1) : j \in mem <=> v
  BY <1>1, SlotsAre
<1> HIDE DEF S, T
<1>4. ASSUME NEW x, x \in S PROVE x \in Nat /\ x + n <= len /\ start + x \in T
  <2>1. x \in Nat /\ x + n <= len /\ x .. (x + n - 1) \subseteq Indexes(v)
    BY <1>1, <1>2, <1>4
  <2>2. ASSUME NEW j \in (start + x) .. ((start + x) + n - 1) PROVE j \in mem <=> v
    <3>1. j - start \in x .. (x + n - 1) /\ j - start \in Int /\ start + (j - start) = j
      BY <1>1, <2>1
    <3>2. j - start \in Indexes(v)
      BY <2>1, <3>1
    <3> QED BY <1>1, <3>1, <3>2
  <2>3. start + x \in Int /\ start <= start + x /\ (start + x) + n <= stop
    BY <1>1, <2>1
  <2> QED BY <1>3, <2>1, <2>2, <2>3
<1>5. ASSUME NEW i, i \in T
      PROVE  i \in Nat /\ start <= i /\ i + n <= stop /\ i - start \in S
  <2>1. /\ i \in Int /\ start <= i /\ i + n <= stop
        /\ \A j \in i .. (i + n - 1) : j \in mem <=> v
    BY <1>3, <1>5
  <2> DEFINE x == i - start
  <2>2. x \in 0 .. (len - n) /\ i \in Nat /\ i = start + x
    BY <1>1, <2>1
  <2>3. x .. (x + n - 1) \subseteq Indexes(v)
    <3> SUFFICES ASSUME NEW y \in x .. (x + n - 1) PROVE y \in Indexes(v)
      OBVIOUS
    <3>1. start + y \in i .. (i + n - 1) /\ y \in 0 .. (len - 1)
      BY <1>1, <2>1, <2>2
    <3> QED BY <1>1, <2>1, <3>1
  <2> QED BY <1>2, <2>1, <2>2, <2>3
<1> QED BY <1>4, <1>5 DEF S, T

LEMMA FindContinuousSlotKeeps ==
  ASSUME IInv, FindContinuousSlot
  PROVE  Keeps /\ Abstract!FindContinuousSlot
<1>1. PICK v \in BOOLEAN, n \in Sizes : Finds("find_continuous_slot", <<v, n>>, slot(v, n))
  BY DEF FindContinuousSlot
<1>2. /\ start \in Nat /\ stop \in Nat /\ start <= stop /\ len = stop - start /\ len \in Nat
      /\ Rest.len = len /\ Rest = Shown(start, stop) /\ n \in Nat
  BY WindowType, RestIs, SizeIs
<1>3. CASE n = 0
  <2>1. Calls("find_continuous_slot", <<v, n>>, start, stop, Some(0), {})
    BY <1>1, <1>3 DEF Finds, slot
  <2>2. Keeps /\ Abstract!Calls("find_continuous_slot", <<v, n>>, Rest, {0})
    BY <1>2, <2>1, CallsIs DEF Some
  <2> QED BY <1>3, <2>2 DEF Abstract!FindContinuousSlot, Rest
<1>4. CASE n # 0
  <2> DEFINE p == slot_search(v, n)[start][0]
             T == SlotsFrom(start, v, n)
             S == Abstract!Slots(Rest, v, n)
  <2>1. Calls("find_continuous_slot", <<v, n>>, p.start, stop, p.off, p.reads)
    BY <1>1, <1>4 DEF Finds, slot
  <2>2. FindsSlot(p, 0, start, v, n)
    <3>1. n \in Nat \ {0} /\ start \in 0 .. stop /\ 0 \in Nat
      BY <1>2, <1>4
    <3> QED BY <1>2, <3>1, SlotFinds
  <2>3. /\ \A x : x \in S => x \in Nat /\ x + n <= len /\ start + x \in T
        /\ \A i : i \in T => i \in Nat /\ start <= i /\ i + n <= stop /\ i - start \in S
    BY <1>2, <1>4, RestSlots
  <2>4. /\ T = {} => p.off = None /\ p.start = stop
        /\ \A i : IsLeast(i, T) => p.off = Some(0 + (i - start)) /\ p.start = i + n
        /\ p.reads \subseteq Within(start, stop)
    BY <2>2 DEF FindsSlot
  <2> HIDE DEF p, T, S
  <2>5. CASE T = {}
    <3>1. S = {}
      BY <2>3, <2>5
    <3>2. Calls("find_continuous_slot", <<v, n>>, stop, stop, None, p.reads)
      BY <2>1, <2>4, <2>5
    <3>3. Keeps /\ Abstract!Calls("find_continuous_slot", <<v, n>>, NoBits, {})
      BY <1>2, <2>4, <3>2, RestNone, CallsIs DEF None
    <3>4. n > 0
      BY <1>2, <1>4
    <3>5. Abstract!Calls("find_continuous_slot", <<v, n>>, Abstract!NoBits, {})
      BY <3>3, SameOperators
    <3> QED BY <3>1, <3>3, <3>4, <3>5 DEF Abstract!FindContinuousSlot, S, Rest
  <2>6. CASE T # {}
    <3>1. PICK i : IsLeast(i, T)
      <4>1. T \subseteq Nat
        BY <2>3
      <4> QED BY <2>6, <4>1, MinIs
    <3> DEFINE x == i - start
               k == x + n
    <3>2. i \in Nat /\ start <= i /\ i + n <= stop /\ x \in S /\ \A j \in T : i <= j
      BY <2>3, <3>1 DEF IsLeast
    <3>3. Abstract!IsFirst(x, S)
      <4> SUFFICES ASSUME NEW y \in S PROVE x <= y
        BY <3>2 DEF Abstract!IsFirst
      <4>1. y \in Nat /\ i <= start + y
        BY <2>3, <3>2
      <4> QED BY <1>2, <3>2, <4>1
    <3>4. k \in 0 .. len /\ start + k = i + n /\ 0 + (i - start) = x
      BY <1>2, <3>2
    <3>5. Calls("find_continuous_slot", <<v, n>>, i + n, stop, Some(x), p.reads)
      BY <2>1, <2>4, <3>1, <3>4
    <3> HIDE DEF x, k
    <3>6. Drop(Rest, k) = Shown(i + n, stop) /\ i + n \in Nat
      BY <1>2, <3>2, <3>4, RestParts
    <3>7. Keeps /\ Abstract!Calls("find_continuous_slot", <<v, n>>, Drop(Rest, k), {x})
      BY <1>2, <2>4, <3>2, <3>5, <3>6, CallsIs DEF Some
    <3>8. Abstract!Calls("find_continuous_slot", <<v, n>>, Abstract!Drop(Rest, x + n), {x})
      BY <3>7, SameOperators DEF k
    <3>9. n > 0
      BY <1>2, <1>4
    <3> QED BY <3>2, <3>3, <3>7, <3>8, <3>9 DEF Abstract!FindContinuousSlot, S, Rest
  <2> QED BY <2>5, <2>6
<1> QED BY <1>3, <1>4

LEMMA AlignIs == ASSUME NEW a \in Aligns PROVE a \in Nat \ {0}
BY IterAssumption, WordSizeType

(* Runs that reach an aligned index do so in the window.                   *)
LEMMA RunsAre ==
  ASSUME IInv, NEW v \in BOOLEAN, NEW a \in Nat \ {0}, Abstract!RunsReachAlignment(Rest, v, a)
  PROVE  RunsReach(v, a)
<1>1. /\ start \in Nat /\ stop \in Nat /\ start <= stop /\ len = stop - start /\ len \in Nat
      /\ Rest.len = len
      /\ \A x \in Int : x \in Indexes(v) <=> x \in 0 .. (len - 1) /\ (start + x \in mem <=> v)
  BY WindowType, RestIs, RestIndexes
<1>2. \A x \in Indexes(v) : (x = 0 \/ x - 1 \notin Indexes(v)) =>
        \A j \in x .. (x + a - 1) : (j % a) = 0 => j >= len \/ j \in Indexes(v)
  BY <1>1 DEF Abstract!RunsReachAlignment, Indexes
<1> SUFFICES ASSUME NEW i \in start .. (stop - 1), i \in mem <=> v,
                    i = start \/ ~(i - 1 \in mem <=> v),
                    NEW j \in i .. (i + a - 1), ((j - start) % a) = 0, j < stop
             PROVE  j \in mem <=> v
  BY DEF RunsReach
<1> DEFINE x == i - start
           y == j - start
<1>3. /\ x \in Int /\ x \in 0 .. (len - 1) /\ start + x = i
      /\ x # 0 => x - 1 \in Int /\ start + (x - 1) = i - 1 /\ i # start
  BY <1>1
<1>4. /\ y \in Int /\ y \in x .. (x + a - 1) /\ start + y = j /\ ~(y >= len) /\ (y % a) = 0
  BY <1>1
<1> HIDE DEF x, y
<1>5. x \in Indexes(v)
  BY <1>1, <1>3
<1>6. x = 0 \/ x - 1 \notin Indexes(v)
  <2>1. ASSUME x # 0, x - 1 \in Indexes(v) PROVE FALSE
    BY <1>1, <1>3, <2>1
  <2> QED BY <2>1
<1>7. y \in Indexes(v)
  BY <1>2, <1>4, <1>5, <1>6
<1> QED BY <1>1, <1>4, <1>7

LEMMA FindContinuousSlotAlignKeeps ==
  ASSUME IInv, FindContinuousSlotAlign
  PROVE  Keeps /\ Abstract!FindContinuousSlotAlign
<1>1. PICK v \in BOOLEAN, n \in Sizes, a \in Aligns :
        Finds("find_continuous_slot_align", <<v, n, a>>, slot_align(v, n, a))
  BY DEF FindContinuousSlotAlign
<1>2. /\ start \in Nat /\ stop \in Nat /\ start <= stop /\ len = stop - start /\ len \in Nat
      /\ Rest.len = len /\ Rest = Shown(start, stop) /\ n \in Nat /\ a \in Nat \ {0}
  BY WindowType, RestIs, SizeIs, AlignIs
<1>3. CASE n = 0
  <2>1. Calls("find_continuous_slot_align", <<v, n, a>>, start, stop, Some(0), {})
    BY <1>1, <1>3 DEF Finds, slot_align
  <2>2. Keeps /\ Abstract!Calls("find_continuous_slot_align", <<v, n, a>>, Rest, {0})
    BY <1>2, <2>1, CallsIs DEF Some
  <2> QED BY <1>3, <2>2 DEF Abstract!FindContinuousSlotAlign, Rest
<1>4. CASE n # 0
  <2> DEFINE p == slot_align_search(v, n, a)[start][0]
             T == AlignedFrom(start, v, n, a)
             S == Abstract!AlignedSlots(Rest, v, n, a)
             reach == Abstract!RunsReachAlignment(Rest, v, a)
  <2>1. Calls("find_continuous_slot_align", <<v, n, a>>, p.start, stop, p.off, p.reads)
    BY <1>1, <1>4 DEF Finds, slot_align
  <2>2. FindsAligned(p, 0, start, v, n, a)
    <3>1. n \in Nat \ {0} /\ start \in 0 .. stop /\ 0 \in Nat
      BY <1>2, <1>4
    <3> QED BY <1>2, <3>1, SlotAlignFinds DEF Settles
  <2>3. /\ p.off = None \/ \E x \in 0 .. (0 + (stop - start)) : p.off = Some(x)
        /\ p.start \in start .. stop /\ p.reads \subseteq Within(start, stop)
    BY <2>2 DEF FindsAligned
  <2>4. ASSUME reach
        PROVE  /\ T = {} => p.off = None /\ p.start = stop
               /\ \A i : IsLeast(i, T) => p.off = Some(i - start) /\ p.start = i + n
    <3>1. RunsReach(v, a)
      BY <1>2, <2>4, RunsAre
    <3>2. InStep(0, start, v, a)
      BY <1>2, <3>1 DEF InStep, Fresh
    <3> QED BY <2>2, <3>2 DEF FindsAligned
  <2>5. n > 0
    BY <1>2, <1>4
  <2>6. CASE ~reach
    <3> HIDE DEF p
    <3> DEFINE k == p.start - start
    <3>1. k \in 0 .. len /\ start + k = p.start /\ p.start \in Nat /\ p.start <= stop
      BY <1>2, <2>3
    <3> HIDE DEF k
    <3>2. Drop(Rest, k) = Shown(p.start, stop)
      BY <3>1, RestParts
    <3>3. Keeps /\ Abstract!Calls("find_continuous_slot_align", <<v, n, a>>, Drop(Rest, k), p.off)
      BY <1>2, <2>1, <2>3, <3>1, <3>2, CallsIs
    <3>4. p.off \in {{}} \cup {{i} : i \in 0 .. (2 * Rest.len)}
      <4>1. CASE p.off = None
        BY <4>1 DEF None
      <4>2. CASE \E x \in 0 .. (0 + (stop - start)) : p.off = Some(x)
        <5>1. PICK x \in 0 .. (0 + (stop - start)) : p.off = Some(x)
          BY <4>2
        <5>2. x \in 0 .. (2 * Rest.len)
          BY <1>2
        <5> QED BY <5>1, <5>2 DEF Some
      <4> QED BY <2>3, <4>1, <4>2
    <3>5. k \in 0 .. Rest.len
      BY <1>2, <3>1
    <3>6. Abstract!Calls("find_continuous_slot_align", <<v, n, a>>, Abstract!Drop(Rest, k), p.off)
      BY <3>3, SameOperators
    <3> QED BY <2>5, <2>6, <3>3, <3>4, <3>5, <3>6
            DEF Abstract!FindContinuousSlotAlign, reach, Rest
  <2>7. CASE reach
    <3>1. /\ \A x : x \in S => x \in Nat /\ start + x \in T
          /\ \A i : i \in T => i \in Nat /\ start <= i /\ i + n <= stop /\ i - start \in S
      <4> DEFINE A == Abstract!Slots(Rest, v, n)
                 B == SlotsFrom(start, v, n)
      <4>1. /\ \A x : x \in A => x \in Nat /\ x + n <= len /\ start + x \in B
            /\ \A i : i \in B => i \in Nat /\ start <= i /\ i + n <= stop /\ i - start \in A
        BY <1>2, <1>4, RestSlots
      <4>2. \A x : x \in S <=> x \in A /\ (x % a) = 0
        BY DEF Abstract!AlignedSlots
      <4>3. \A i : i \in T <=> i \in B /\ ((i - start) % a) = 0
        BY DEF AlignedFrom
      <4> HIDE DEF A, B, S, T
      <4>4. ASSUME NEW x, x \in S PROVE x \in Nat /\ start + x \in T
        <5>1. x \in Nat /\ (start + x) - start = x
          BY <1>2, <4>1, <4>2, <4>4
        <5> QED BY <4>1, <4>2, <4>3, <4>4, <5>1
      <4>5. ASSUME NEW i, i \in T
            PROVE  i \in Nat /\ start <= i /\ i + n <= stop /\ i - start \in S
        BY <4>1, <4>2, <4>3, <4>5
      <4> QED BY <4>4, <4>5
    <3>2. /\ T = {} => p.off = None /\ p.start = stop
          /\ \A i : IsLeast(i, T) => p.off = Some(i - start) /\ p.start = i + n
      BY <2>4, <2>7
    <3> HIDE DEF p, T, S, reach
    <3>3. CASE T = {}
      <4>1. S = {}
        BY <3>1, <3>3
      <4>2. Calls("find_continuous_slot_align", <<v, n, a>>, stop, stop, None, p.reads)
        BY <2>1, <3>2, <3>3
      <4>3. Keeps /\ Abstract!Calls("find_continuous_slot_align", <<v, n, a>>, NoBits, {})
        BY <1>2, <2>3, <4>2, RestNone, CallsIs DEF None
      <4>4. Abstract!Calls("find_continuous_slot_align", <<v, n, a>>, Abstract!NoBits, {})
        BY <4>3, SameOperators
      <4> QED BY <2>5, <2>7, <4>1, <4>3, <4>4
              DEF Abstract!FindContinuousSlotAlign, S, reach, Rest
    <3>4. CASE T # {}
      <4>1. PICK i : IsLeast(i, T)
        <5>1. T \subseteq Nat
          BY <3>1
        <5> QED BY <3>4, <5>1, MinIs
      <4> DEFINE x == i - start
                 k == x + n
      <4>2. i \in Nat /\ start <= i /\ i + n <= stop /\ x \in S /\ \A j \in T : i <= j
        BY <3>1, <4>1 DEF IsLeast
      <4>3. Abstract!IsFirst(x, S)
        <5> SUFFICES ASSUME NEW y \in S PROVE x <= y
          BY <4>2 DEF Abstract!IsFirst
        <5>1. y \in Nat /\ i <= start + y
          BY <3>1, <4>2
        <5> QED BY <1>2, <4>2, <5>1
      <4>4. k \in 0 .. len /\ start + k = i + n
        BY <1>2, <4>2
      <4>5. Calls("find_continuous_slot_align", <<v, n, a>>, i + n, stop, Some(x), p.reads)
        BY <2>1, <3>2, <4>1
      <4> HIDE DEF x, k
      <4>6. Drop(Rest, k) = Shown(i + n, stop) /\ i + n \in Nat
        BY <1>2, <4>2, <4>4, RestParts
      <4>7. Keeps /\ Abstract!Calls("find_continuous_slot_align", <<v, n, a>>, Drop(Rest, k), {x})
        BY <1>2, <2>3, <4>2, <4>5, <4>6, CallsIs DEF Some
      <4>8. Abstract!Calls("find_continuous_slot_align", <<v, n, a>>,
                           Abstract!Drop(Rest, x + n), {x})
        BY <4>7, SameOperators DEF k
      <4> QED BY <2>5, <2>7, <4>2, <4>3, <4>7, <4>8
              DEF Abstract!FindContinuousSlotAlign, S, reach, Rest
    <3> QED BY <3>3, <3>4
  <2> QED BY <2>6, <2>7
<1> QED BY <1>3, <1>4

LEMMA SliceIs ==
  ASSUME NEW d \in Slices
  PROVE  IsBitString(d) /\ bit_in_word_index(d.len) = 0 /\ d.len \in Nat /\ d.ones \subseteq Nat
BY IterAssumption DEF IsBitString

LEMMA WordsOfBits ==
  ASSUME IInv
  PROVE  {word_index(i) : i \in start .. (stop - 1)} \subseteq Within(start, stop)
<1> SUFFICES ASSUME NEW i \in start .. (stop - 1) PROVE word_index(i) \in Within(start, stop)
  OBVIOUS
<1> QED BY WindowType, WordOfBit

LEMMA ListedIs ==
  ASSUME NEW b, IsBitString(b), NEW R, R \subseteq Nat
  PROVE  listed(b, R) = b.ones
<1> DEFINE n == b.len
           S == b.ones
           w == words_for(n)
           last == (w - 1) * WordSize
           all == w * WordSize
<1>1. n \in Nat /\ S \subseteq 0 .. (n - 1)
  BY DEF IsBitString
<1>2. CASE n <= DATA_BITS
  BY <1>2 DEF listed
<1>3. CASE ~(n <= DATA_BITS)
  <2>1. n > 0
    BY <1>1, <1>3, DataBitsType
  <2>2. w \in Nat /\ w > 0 /\ all \in Nat /\ n <= all /\ all < n + WordSize
    BY <1>1, <2>1, WordsForBounds, WordsForPositive
  <2>3. listed(b, R) = (((R \ Word(w - 1)) \ (0 .. (0 + n - 1))) \cup {i + 0 : i \in S})
                         \cap Words(0, w)
    BY <1>3 DEF listed, copy_bits, Up
  <2> HIDE DEF w
  <2>4. w - 1 \in Nat /\ last \in Nat /\ Word(w - 1) = last .. (last + WordSize - 1)
        /\ all = last + WordSize
    <3> DEFINE k == w - 1
    <3>1. k \in Nat /\ w = k + 1
      BY <2>2
    <3> HIDE DEF k
    <3>2. k * WordSize \in Nat /\ (k + 1) * WordSize = k * WordSize + WordSize
          /\ Word(k) = (k * WordSize) .. (k * WordSize + WordSize - 1)
      BY <3>1, WordBase
    <3> QED BY <3>1, <3>2 DEF k
  <2>5. Words(0, w) = 0 .. (all - 1)
    <3>1. 0 * WordSize = 0
      BY WordSizeType
    <3> QED BY <3>1 DEF Words
  <2> HIDE DEF all, last, n, S
  <2>6. last < n
    BY <1>1, <2>2, <2>4, WordSizeType
  <2>7. {i + 0 : i \in S} = S
    <3>1. \A i \in S : i + 0 = i
      BY <1>1
    <3> QED BY <3>1
  <2>8. \A x : x \in listed(b, R) <=> x \in S
    <3>1. ASSUME NEW x \in Nat, x
          \in 0 .. (all - 1), x \notin Word(w - 1), x \notin 0 .. (0 + n - 1)
          PROVE  FALSE
      BY <1>1, <2>2, <2>4, <2>6, <3>1, WordSizeType
    <3>2. \A x \in S : x \in 0 .. (all - 1)
      BY <1>1, <2>2
    <3> QED BY <2>3, <2>5, <2>7, <3>1, <3>2
  <2> HIDE DEF listed
  <2>9. listed(b, R) = S
    BY <2>8
  <2> QED BY <2>9 DEF S
<1> QED BY <1>2, <1>3

LEMMA ToListKeeps ==
  ASSUME IInv, ToList
  PROVE  Keeps /\ Abstract!ToList
<1> DEFINE seen == {word_index(i) : i \in start .. (stop - 1)}
<1>1. PICK d \in Slices :
        Calls("to_list", <<>>, start, stop, Some(Str(len, listed(Rest, d.ones))), seen)
  BY DEF ToList, Rest
<1>2. /\ start \in Nat /\ stop \in Nat /\ start <= stop /\ len = stop - start /\ mem \subseteq Nat
      /\ Rest.len = len /\ Rest = Shown(start, stop)
  BY WindowType, RestIs
<1>3. IsBitString(Rest)
  BY <1>2, ShownString
<1>4. listed(Rest, d.ones) = Rest.ones
  BY <1>3, SliceIs, ListedIs
<1>5. Str(len, listed(Rest, d.ones)) = Rest
  BY <1>2, <1>3, <1>4 DEF IsBitString
<1>6. seen \subseteq Within(start, stop)
  BY WordsOfBits
<1> HIDE DEF seen
<1>7. Keeps /\ Abstract!Calls("to_list", <<>>, Rest, {Rest})
  <2>1. Calls("to_list", <<>>, start, stop, {Rest}, seen)
    BY <1>1, <1>5 DEF Some
  <2>2. Keeps /\ Abstract!Calls("to_list", <<>>, Shown(start, stop), {Rest})
    BY <1>2, <1>6, <2>1, CallsIs
  <2> QED BY <1>2, <2>2
<1> QED BY <1>7 DEF Abstract!ToList, Rest

LEMMA CopyBitsSliceKeeps ==
  ASSUME IInv, CopyBitsSlice
  PROVE  Keeps /\ Abstract!CopyBitsSlice
<1> DEFINE seen == {word_index(i) : i \in start .. (stop - 1)}
<1>1. PICK at \in Sizes, d \in Slices :
        IF FitsSlice(len, at, d.len)
        THEN Calls("copy_bits_slice", <<at, d>>, start, stop,
                   Some(Str(d.len, copy_bits(d.ones, at, Rest))), seen)
        ELSE Calls("copy_bits_slice", <<at, d>>, start, stop, None, {})
  BY DEF CopyBitsSlice, Rest
<1>2. /\ start \in Nat /\ stop \in Nat /\ start <= stop /\ len = stop - start /\ len \in Nat
      /\ Rest.len = len /\ Rest = Shown(start, stop) /\ mem \subseteq Nat /\ at \in Nat
  BY WindowType, RestIs, SizeIs
<1>3. seen \subseteq Within(start, stop)
  BY WordsOfBits
<1>4. FitsSlice(len, at, d.len) <=> at + len <= d.len
  <2> DEFINE c == word_index(d.len)
             n == len + at
  <2>1. c \in Nat /\ d.len = c * WordSize
    <3>1. d.len \in Nat /\ bit_in_word_index(d.len) = 0
      BY SliceIs
    <3>2. c \in Nat /\ d.len = c * WordSize + bit_in_word_index(d.len)
      BY <3>1, IndexSplit
    <3>3. c * WordSize \in Nat
      BY <3>2, WordBase
    <3> QED BY <3>1, <3>2, <3>3
  <2>2. n \in Nat /\ n = at + len
    BY <1>2
  <2> HIDE DEF c, n
  <2>3. words_for(n) <= c <=> n <= c * WordSize
    BY <2>1, <2>2, WordsForLeast
  <2> QED BY <2>1, <2>2, <2>3 DEF FitsSlice, c, n
<1> HIDE DEF seen
<1>5. Str(d.len, copy_bits(d.ones, at, Rest)) = Overwrite(d, at, Rest)
  <2>1. Rest.ones \subseteq Int
    BY <1>2, ShownIs
  <2>2. {i + at : i \in Rest.ones} = {at + i : i \in Rest.ones}
    BY <1>2, <2>1
  <2> QED BY <2>2 DEF copy_bits, Up, Overwrite
<1>6. CASE at + len <= d.len
  <2>1. Keeps /\ Abstract!Calls("copy_bits_slice", <<at, d>>, Rest, {Overwrite(d, at, Rest)})
    BY <1>1, <1>2, <1>3, <1>4, <1>5, <1>6, CallsIs DEF Some
  <2> QED BY <1>2, <1>6, <2>1, SameOperators DEF Abstract!CopyBitsSlice, Rest
<1>7. CASE ~(at + len <= d.len)
  <2>1. Keeps /\ Abstract!Calls("copy_bits_slice", <<at, d>>, Rest, {})
    BY <1>1, <1>2, <1>4, <1>7, CallsIs DEF None
  <2> QED BY <1>2, <1>7, <2>1 DEF Abstract!CopyBitsSlice, Rest
<1> QED BY <1>6, <1>7

-----------------------------------------------------------------------------
(* Windows that meet. *)

LEMMA ShownConcat ==
  ASSUME mem \subseteq Nat, NEW a \in Nat, NEW b \in Nat, NEW c \in Nat, a <= b, b <= c
  PROVE  Concat(Shown(a, b), Shown(b, c)) = Shown(a, c)
<1> DEFINE P == Shown(a, b).ones
           Q == Shown(b, c).ones
           n == (b - a) + (c - b)
           S == P \cup {(b - a) + i : i \in Q}
<1>1. /\ Shown(a, b).len = b - a /\ P \subseteq 0 .. (b - a - 1)
      /\ \A x \in Int : x \in P <=> x \in 0 .. (b - a - 1) /\ a + x \in mem
      /\ Shown(b, c).len = c - b /\ Q \subseteq 0 .. (c - b - 1)
      /\ \A x \in Int : x \in Q <=> x \in 0 .. (c - b - 1) /\ b + x \in mem
  BY ShownIs
<1>2. Concat(Shown(a, b), Shown(b, c)) = Str(n, S)
  BY <1>1 DEF Concat
<1> HIDE DEF P, Q
<1>3. n = c - a /\ a <= c
  OBVIOUS
<1>4. S \subseteq 0 .. (n - 1)
  <2>1. \A i \in Q : (b - a) + i \in 0 .. (n - 1)
    BY <1>1
  <2>2. \A i \in P : i \in 0 .. (n - 1)
    BY <1>1
  <2> QED BY <2>1, <2>2
<1>5. ASSUME NEW x \in 0 .. (n - 1) PROVE x \in S <=> a + x \in mem
  <2>1. CASE x < b - a
    <3>1. x \in 0 .. (b - a - 1)
      BY <2>1
    <3>2. ASSUME NEW i \in Q PROVE x # (b - a) + i
      BY <1>1, <2>1
    <3>3. x \in P <=> a + x \in mem
      BY <1>1, <3>1
    <3> QED BY <3>2, <3>3
  <2>2. CASE ~(x < b - a)
    <3> DEFINE y == x - (b - a)
    <3>1. y \in 0 .. (c - b - 1) /\ b + y = a + x /\ x = (b - a) + y /\ y \in Int
      BY <1>3, <2>2
    <3>2. x \notin P
      BY <1>1, <2>2
    <3>3. ASSUME NEW i \in Q, x = (b - a) + i PROVE i = y
      BY <1>1, <3>3
    <3> HIDE DEF y
    <3>4. y \in Q <=> a + x \in mem
      BY <1>1, <3>1
    <3> QED BY <3>1, <3>2, <3>3, <3>4
  <2> QED BY <2>1, <2>2
<1> HIDE DEF S, n
<1> QED BY <1>2, <1>3, <1>4, <1>5, ShowsBits

(* The first word and the further words that word_aligned returns for a    *)
(* window that reaches into word k.                                        *)
LEMMA AlignedWords ==
  ASSUME mem \subseteq Nat, NEW s \in Nat, NEW e \in Nat, s <= e,
         words_for(e) > word_index(s)
  PROVE  LET all == Concat(aligned_words(s, e)[1], aligned_words(s, e)[2])
         IN  \E f \in e .. (e + WordSize - 1) : all = Shown(s, f)
<1> DEFINE first == word_index(s)
           b == bit_in_word_index(s)
           here == WordSize - b
           V == Down(WordAt(mem, first), b)
           c == least(here, e - s)
           word == new_word_bits(V, c)
           count == words_for(e) - first
           far == (first + 1) * WordSize
           end == words_for(e) * WordSize
           second == Str((count - 1) * WordSize,
                         Down(mem \cap Words(first + 1, first + count), far))
<1>1. /\ first \in Nat /\ b \in 0 .. (WordSize - 1) /\ s = first * WordSize + b
      /\ first * WordSize \in Nat /\ far = first * WordSize + WordSize
      /\ words_for(e) \in Nat /\ end \in Nat /\ e <= end /\ end < e + WordSize
      /\ WordSize \in Nat /\ WordSize > 1
  BY IndexSplit, WordBase, WordsForBounds, WordSizeType
<1>2. count # 0
  BY <1>1
<1>3. aligned_words(s, e) = <<Held(word), second>>
  BY <1>2 DEF aligned_words
<1>4. here \in 1 .. WordSize /\ V \subseteq 0 .. (here - 1)
      /\ \A j \in 0 .. (here - 1) : j \in V <=> s + j \in mem
  <2> DEFINE w == peek_word(s, s + 1)
  <2>1. /\ here \in 1 .. WordSize /\ w.value \subseteq 0 .. (here - 1)
        /\ \A j \in 0 .. (here - 1) : j \in w.value <=> s + j \in mem
    <3>1. s + 1 \in Nat /\ s < s + 1
      OBVIOUS
    <3> QED BY <3>1, PeekWordIs
  <2>2. w.value = V
    <3>1. s # s + 1
      OBVIOUS
    <3>2. w = WordBits(V, least(here, (s + 1) - s))
      BY <3>1 DEF peek_word
    <3> QED BY <3>2, WordFields
  <2> HIDE DEF w, V, here
  <2> QED BY <2>1, <2>2
<1> HIDE DEF V, here
<1>5. c \in Nat /\ c <= here /\ c <= e - s /\ c \in {here, e - s} /\ c \in 0 .. WordSize
  BY <1>1, <1>4 DEF least
<1> HIDE DEF c
<1>6. Held(word) = Shown(s, s + c)
  <2>1. least(c, WordSize) = c
    BY <1>1, <1>5 DEF least
  <2>2. word.value = V \cap (0 .. (c - 1)) /\ word.count = c
    BY <1>5, <2>1, MaskUpTo, WordFields DEF new_word_bits
  <2> HIDE DEF word
  <2>3. raw(word) = V \cap (0 .. (c - 1))
    BY <1>5, <2>2, RawIs
  <2> DEFINE S == V \cap (0 .. (c - 1))
  <2>4. S \subseteq 0 .. (c - 1) /\ \A x \in 0 .. (c - 1) : x \in S <=> s + x \in mem
    BY <1>4, <1>5
  <2>5. s + c \in Nat /\ s <= s + c /\ c = (s + c) - s
    BY <1>5
  <2> HIDE DEF S
  <2>6. Str(c, S) = Shown(s, s + c)
    BY <2>4, <2>5, ShowsBits
  <2> QED BY <2>2, <2>3, <2>6 DEF Held, S
<1>7. far <= end /\ (count - 1) * WordSize = end - far
  <2> DEFINE m == words_for(e)
             n == first + 1
  <2>1. m \in Int /\ n \in Int /\ n <= m /\ count - 1 = m - n
    BY <1>1
  <2> HIDE DEF m, n
  <2>2. n * WordSize <= m * WordSize /\ m * WordSize \in Int /\ n * WordSize \in Int
    BY <1>1, <2>1, TimesMono, TimesNext
  <2>3. (m - n) * WordSize = m * WordSize - n * WordSize
    <3>1. ((m - n) + n) * WordSize = (m - n) * WordSize + n * WordSize /\ (m - n) + n = m
      BY <1>1, <2>1, TimesAssoc
    <3>2. (m - n) * WordSize \in Int
      BY <1>1, <2>1, TimesNext
    <3> QED BY <2>2, <3>1, <3>2
  <2> QED BY <2>1, <2>2, <2>3 DEF m, n
<1>8. second = Shown(far, end)
  <2> DEFINE A == mem \cap Words(first + 1, first + count)
             B == mem \cap 0 .. (end - 1)
  <2>1. Words(first + 1, first + count) = far .. (end - 1)
    <3>1. first + count = words_for(e)
      BY <1>1
    <3> QED BY <3>1 DEF Words
  <2>2. \A j : j \in A /\ j >= far <=> j \in B /\ j >= far
    <3>1. far \in Nat
      BY <1>1
    <3> HIDE DEF far, end
    <3>2. \A j \in mem : j \in far .. (end - 1) <=> j \in 0 .. (end - 1) /\ j >= far
      BY <1>1, <3>1
    <3>3. \A j \in mem : j \in far .. (end - 1) => j >= far
      BY <1>1, <3>1
    <3> QED BY <2>1, <3>2, <3>3
  <2> HIDE DEF A, B
  <2>3. {j \in A : j >= far} = {j \in B : j >= far}
    BY <2>2
  <2>4. Down(A, far) = Down(B, far)
    BY <2>3 DEF Down
  <2> QED BY <1>7, <2>4 DEF Shown, A, B
<1>9. far \in Nat
  BY <1>1
<1> DEFINE all == Concat(Held(word), second)
<1>10. Concat(aligned_words(s, e)[1], aligned_words(s, e)[2]) = all
  BY <1>3
<1> HIDE DEF word, second, far, end, count
<1>11. CASE c = here
  <2>1. s + c = far
    BY <1>1, <1>11 DEF here
  <2>2. all = Shown(s, end)
    BY <1>1, <1>5, <1>6, <1>7, <1>8, <1>9, <2>1, ShownConcat
  <2>3. end \in e .. (e + WordSize - 1)
    BY <1>1
  <2> QED BY <1>10, <2>2, <2>3
<1>12. CASE c # here
  <2>1. s + c = e /\ e < far
    BY <1>1, <1>5, <1>12 DEF here
  <2>2. end = far
    <3>1. words_for(e) <= first + 1
      <4>1. e <= (first + 1) * WordSize /\ first + 1 \in Nat
        BY <1>1, <1>9, <2>1 DEF far
      <4> QED BY <4>1, WordsForLeast
    <3>2. words_for(e) = first + 1
      BY <1>1, <3>1
    <3> QED BY <3>2 DEF end, far
  <2>3. second = Shown(e, e)
    BY <1>8, <1>9, <2>2, ShownNothing
  <2>4. all = Shown(s, e)
    BY <1>6, <2>1, <2>3, ShownConcat
  <2>5. e \in e .. (e + WordSize - 1)
    BY <1>1
  <2> QED BY <1>10, <2>4, <2>5
<1> QED BY <1>11, <1>12

LEMMA WordAlignedKeeps ==
  ASSUME IInv, WordAligned
  PROVE  Keeps /\ Abstract!WordAligned
<1> DEFINE p == aligned_words(start, stop)
           first == word_index(start)
           count == words_for(stop) - first
           seen == IF words_for(stop) > first THEN {first} ELSE {}
           all == Concat(p[1], p[2])
<1>1. Calls("word_aligned", <<>>, start, stop, Some(p), seen)
  BY DEF WordAligned
<1>2. /\ start \in Nat /\ stop \in Nat /\ start <= stop /\ len = stop - start /\ len \in Nat
      /\ Rest.len = len /\ Rest = Shown(start, stop) /\ mem \subseteq Nat
  BY WindowType, RestIs
<1>3. /\ first \in Nat /\ first * WordSize \in Nat /\ first * WordSize <= start
      /\ start < (first + 1) * WordSize /\ (first + 1) * WordSize \in Nat
      /\ words_for(stop) \in Nat
  <2>1. /\ first \in Nat /\ bit_in_word_index(start) \in 0 .. (WordSize - 1)
        /\ start = first * WordSize + bit_in_word_index(start)
    BY <1>2, IndexSplit
  <2>2. first * WordSize \in Nat /\ (first + 1) * WordSize = first * WordSize + WordSize
        /\ WordSize \in Nat
    BY <2>1, WordBase, WordSizeType
  <2> QED BY <1>2, <2>1, <2>2, WordsForBounds
<1>4. words_for(stop) <= first <=> stop <= first * WordSize
  BY <1>2, <1>3, WordsForLeast
<1> HIDE DEF p
<1>5. seen \subseteq Within(start, stop)
  <2>1. CASE words_for(stop) > first
    <3>1. first * WordSize < stop
      BY <1>2, <1>3, <1>4, <2>1
    <3> QED BY <1>2, <1>3, <2>1, <3>1 DEF Within
  <2>2. CASE ~(words_for(stop) > first)
    BY <2>2
  <2> QED BY <2>1, <2>2
<1>6. Take(all, len) = Rest /\ all.len \in len .. (len + WordSize - 1)
  <2>1. CASE words_for(stop) > first
    <3>1. PICK f \in stop .. (stop + WordSize - 1) : all = Shown(start, f)
      BY <1>2, <2>1, AlignedWords DEF p
    <3>2. f \in Nat /\ start <= f /\ f - start \in len .. (len + WordSize - 1)
      BY <1>2, WordSizeType
    <3>3. len \in 0 .. (f - start) /\ start + len = stop
      BY <1>2, <3>2, WordSizeType
    <3>4. Take(all, len) = Shown(start, stop)
      BY <1>2, <3>1, <3>2, <3>3, ShownTake
    <3>5. all.len = f - start
      BY <1>2, <3>1, <3>2, ShownIs
    <3> QED BY <1>2, <3>2, <3>4, <3>5
  <2>2. CASE ~(words_for(stop) > first)
    <3>1. start = stop /\ len = 0
      BY <1>2, <1>3, <1>4, <2>2
    <3>2. words_for(stop) >= first
      <4>1. words_for(start) <= words_for(stop)
        BY <1>2, WordsForMonotone
      <4>2. words_for(start) >= first
        BY <1>3 DEF words_for
      <4>3. words_for(start) \in Nat
        BY <1>2, WordsForBounds
      <4> QED BY <1>3, <4>1, <4>2, <4>3
    <3>3. count = 0
      BY <1>3, <2>2, <3>2
    <3>4. p = <<NoBits, NoBits>>
      BY <3>3 DEF p, aligned_words
    <3>5. all.len = 0 /\ all.ones = {}
      BY <3>4, StrIs DEF Concat, NoBits
    <3>6. Take(all, len) = NoBits
      BY <3>1, <3>5 DEF Take, NoBits
    <3>7. Rest = NoBits
      BY <1>2, <3>1, RestNone
    <3> QED BY <3>1, <3>5, <3>6, <3>7, WordSizeType
  <2> QED BY <2>1, <2>2
<1> HIDE DEF seen
<1>7. Keeps /\ Abstract!Calls("word_aligned", <<>>, Rest, {p})
  <2>1. Calls("word_aligned", <<>>, start, stop, {p}, seen)
    BY <1>1 DEF Some
  <2>2. Keeps /\ Abstract!Calls("word_aligned", <<>>, Shown(start, stop), {p})
    BY <1>2, <1>5, <2>1, CallsIs
  <2> QED BY <1>2, <2>2
<1>8. op' = "word_aligned" /\ args' = <<>> /\ Rest' = Rest /\ ret' = {p} /\ ret' # {}
  BY <1>7 DEF Abstract!Calls, Rest
<1>9. Abstract!Take(Abstract!Concat(p[1], p[2]), Rest.len) = Rest
      /\ Abstract!Concat(p[1], p[2]).len \in Rest.len .. (Rest.len + WordSize - 1)
  BY <1>2, <1>6, SameOperators
<1> QED BY <1>7, <1>8, <1>9 DEF Abstract!WordAligned, Rest

LEMMA IterInit == Init => IInv /\ Abstract!Init
<1> SUFFICES ASSUME Init PROVE IInv /\ Abstract!Init
  OBVIOUS
<1>1. /\ mem \in Memories /\ start \in 0 .. (MemWords * WordSize)
      /\ stop \in 0 .. (MemWords * WordSize)
      /\ ~is_invalid_range(start, stop, MemWords * WordSize)
      /\ op = "new" /\ args = <<>> /\ ret = None
  BY DEF Init
<1>2. MemWords * WordSize \in Nat
  BY IterAssumption, WordBase
<1>3. start \in 0 .. stop
  BY <1>1, <1>2 DEF is_invalid_range
<1>4. IInv
  BY <1>1, <1>3 DEF IInv, WindowOK
<1>5. IsBitString(Rest)
  <2>1. start \in Nat /\ stop \in Nat /\ start <= stop /\ mem \subseteq Nat
        /\ Rest = Shown(start, stop)
    BY <1>4, WindowType, RestIs
  <2> QED BY <2>1, ShownString
<1>6. Abstract!Init
  BY <1>1, <1>5, SameOperators DEF Abstract!Init, Rest, None
<1> QED BY <1>4, <1>6

(* Every call keeps the window in order and does what is promised.         *)
LEMMA IterStep ==
  ASSUME IInv, Next
  PROVE  Keeps /\ Abstract!Next
<1>1. CASE Open BY <1>1, OpenKeeps DEF Abstract!Next
<1>2. CASE ToList BY <1>2, ToListKeeps DEF Abstract!Next
<1>3. CASE CopyBitsSlice BY <1>3, CopyBitsSliceKeeps DEF Abstract!Next
<1>4. CASE WordAligned BY <1>4, WordAlignedKeeps DEF Abstract!Next
<1>5. CASE SetLimit BY <1>5, SetLimitKeeps DEF Abstract!Next
<1>6. CASE SetEndLimit BY <1>6, SetEndLimitKeeps DEF Abstract!Next
<1>7. CASE AdvanceBy BY <1>7, AdvanceByKeeps DEF Abstract!Next
<1>8. CASE AdvanceBackBy BY <1>8, AdvanceBackByKeeps DEF Abstract!Next
<1>9. CASE AdvanceWordsBy BY <1>9, AdvanceWordsByKeeps DEF Abstract!Next
<1>10. CASE Nth BY <1>10, NthKeeps DEF Abstract!Next
<1>11. CASE NthBack BY <1>11, NthBackKeeps DEF Abstract!Next
<1>12. CASE NextWord BY <1>12, NextWordKeeps DEF Abstract!Next
<1>13. CASE NextBits BY <1>13, NextBitsKeeps DEF Abstract!Next
<1>14. CASE BitPosition BY <1>14, BitPositionKeeps DEF Abstract!Next
<1>15. CASE RBitPosition BY <1>15, RBitPositionKeeps DEF Abstract!Next
<1>16. CASE FindContinuousSlot BY <1>16, FindContinuousSlotKeeps DEF Abstract!Next
<1>17. CASE FindContinuousSlotAlign BY <1>17, FindContinuousSlotAlignKeeps DEF Abstract!Next
<1>18. CASE NextBitCount BY <1>18, NextBitCountKeeps DEF Abstract!Next
<1>19. CASE TrySplitOff BY <1>19, TrySplitOffKeeps DEF Abstract!Next
<1>20. CASE AllValue BY <1>20, AllValueKeeps DEF Abstract!Next
<1> QED
  BY <1>1, <1>2, <1>3, <1>4, <1>5, <1>6, <1>7, <1>8, <1>9, <1>10, <1>11, <1>12, <1>13,
     <1>14, <1>15, <1>16, <1>17, <1>18, <1>19, <1>20 DEF Next

LEMMA IterNext == IInv /\ [Next]_vars => IInv'
<1>1. ASSUME IInv, UNCHANGED vars PROVE IInv'
  BY <1>1 DEF IInv, WindowOK, vars
<1>2. ASSUME IInv, Next PROVE IInv'
  BY <1>2, IterStep DEF Keeps, IInv
<1> QED BY <1>1, <1>2

LEMMA IterIInv == Spec => []IInv
BY IterInit, IterNext, PTL DEF Spec

(* Whatever order the calls come in, the window of an iterator never turns *)
(* inside out and never leaves the memory (iter.rs:419 and the debug       *)
(* assertions after every other advance).                                  *)
THEOREM WindowStaysInOrder == Spec => []WindowOK
<1>1. IInv => WindowOK
  BY DEF IInv
<1> QED BY <1>1, IterIInv, PTL

(* No call reads a word that holds no bit of the window it is made on      *)
(* (iter.rs:375-392).                                                      *)
THEOREM OnlyWordsInsideAreRead == Spec => ReadsInside
<1> DEFINE Inside == {k \in 0 .. (MemWords - 1) : k * WordSize < stop /\ (k + 1) * WordSize > start}
<1>1. ASSUME IInv, Next PROVE reads' \subseteq Inside
  <2>1. reads' \subseteq Within(start, stop)
    BY <1>1, IterStep DEF Keeps
  <2> SUFFICES ASSUME NEW k \in Within(start, stop) PROVE k \in Inside
    BY <2>1
  <2>2. k \in Nat /\ k * WordSize < stop /\ (k + 1) * WordSize > start
    BY DEF Within
  <2>3. stop \in Nat /\ stop <= MemWords * WordSize /\ MemWords \in Nat
        /\ MemWords * WordSize \in Nat
    BY <1>1, WindowType, IterAssumption
  <2>4. k <= MemWords - 1
    <3> SUFFICES ASSUME MemWords <= k PROVE FALSE
      BY <2>2, <2>3
    <3>1. MemWords * WordSize <= k * WordSize /\ k * WordSize \in Nat
      BY <2>2, <2>3, TimesMono, WordBase, WordSizeType
    <3> QED BY <2>2, <2>3, <3>1
  <2> QED BY <2>2, <2>3, <2>4
<1>2. IInv /\ [Next]_vars => [reads' \subseteq Inside]_vars
  BY <1>1
<1> QED BY <1>2, IterIInv, PTL DEF Spec, ReadsInside

(* Wherever in its words a window begins and ends, and whichever word size *)
(* the machine has, every call on an iterator takes off the string of the  *)
(* bits that are left, and returns, what BitsIterSpec says.                *)
THEOREM IteratorsKeepTheirPromise == Spec => IterPromise
<1>1. Init => Abstract!Init
  BY IterInit
<1>2. IInv /\ [Next]_vars => [Abstract!Next]_(Abstract!vars)
  <2>1. CASE UNCHANGED vars
    <3>1. Rest' = Rest /\ op' = op /\ args' = args /\ ret' = ret
      BY <2>1 DEF vars, Rest, len
    <3> QED BY <3>1 DEF Abstract!vars, Rest
  <2>2. ASSUME IInv, Next PROVE Abstract!Next
    BY <2>2, IterStep
  <2> QED BY <2>1, <2>2
<1> QED BY <1>1, <1>2, IterIInv, PTL DEF Spec, IterPromise, Abstract!Spec

-----------------------------------------------------------------------------
(* Opening a window. *)

LEMMA AfterIs ==
  ASSUME NEW i \in 0 .. UsizeMax, i # UsizeMax
  PROVE  after(i) = i + 1
<1> DEFINE w == UsizeMax + 1
           r == i + 1
<1>1. w \in Nat /\ w > 0 /\ r \in Nat /\ r < w /\ 0 \in Nat /\ r = 0 * w + r
  BY UsizeType
<1> HIDE DEF w, r
<1>2. r % w = r
  BY <1>1, DivUnique
<1> QED BY <1>2 DEF after, w, r

LEMMA OnlyOpenOpens ==
  ASSUME Next, op' = "new_bounds"
  PROVE  Open
BY DEF Next, Open, ToList, CopyBitsSlice, WordAligned, SetLimit, SetEndLimit, AdvanceBy,
       AdvanceBackBy, AdvanceWordsBy, Nth, NthBack, NextWord, NextBits, BitPosition, RBitPosition,
       FindContinuousSlot, FindContinuousSlotAlign, NextBitCount, TrySplitOff, AllValue,
       Finds, Calls

(* A window that is opened shows the range that its two bounds name, or    *)
(* the call panics because there is no such range; the only bounds let     *)
(* through by mistake are those next to usize::MAX (iter.rs:93-106).       *)
THEOREM RangesAreOpenedAsAsked == Spec => OpensWhatIsAsked
<1> DEFINE size_ == MemWords * WordSize
           OK == op' = "new_bounds" => \/ BoundOverflows(args'[1], args'[2])
                                       \/ Opened(Asked(args'[1], args'[2]))
<1>1. ASSUME IInv, Next PROVE OK
  <2> SUFFICES ASSUME op' = "new_bounds"
               PROVE  BoundOverflows(args'[1], args'[2]) \/ Opened(Asked(args'[1], args'[2]))
    OBVIOUS
  <2>1. PICK low \in Bounds, high \in Bounds :
          LET s == bounds_start(low)
              e == bounds_stop(high, size_)
          IN  IF is_invalid_range(s, e, size_)
              THEN Calls("new_bounds", <<low, high>>, start, stop, None, {})
              ELSE \/ Calls("new_bounds", <<low, high>>, s, e, Some(e - s), {})
                   \/ /\ BoundOverflows(low, high)
                      /\ Calls("new_bounds", <<low, high>>, start, stop, None, {})
    BY <1>1, OnlyOpenOpens DEF Open
  <2>2. args' = <<low, high>> /\ args'[1] = low /\ args'[2] = high
    BY <2>1 DEF Calls
  <2> SUFFICES ASSUME ~BoundOverflows(low, high) PROVE Opened(Asked(low, high))
    BY <2>2
  <2>3. /\ low.kind \in {"unbounded", "included", "excluded"} /\ low.at \in 0 .. UsizeMax
        /\ high.kind \in {"unbounded", "included", "excluded"} /\ high.at \in 0 .. UsizeMax
    BY IterAssumption
  <2>4. /\ low.kind = "excluded" => after(low.at) = low.at + 1
        /\ high.kind = "included" => after(high.at) = high.at + 1
    BY <2>3, AfterIs DEF BoundOverflows
  <2> DEFINE s == bounds_start(low)
             e == bounds_stop(high, size_)
  <2>5. Asked(low, high) = <<s, e>>
    <3>1. s = CASE low.kind = "unbounded" -> 0 [] low.kind = "included" -> low.at
                [] OTHER -> low.at + 1
      BY <2>3, <2>4 DEF bounds_start
    <3>2. e = CASE high.kind = "unbounded" -> size_ [] high.kind = "included" -> high.at + 1
                [] OTHER -> high.at
      BY <2>3, <2>4 DEF bounds_stop
    <3> HIDE DEF s, e
    <3> QED BY <3>1, <3>2 DEF Asked
  <2>6. size_ \in Nat
    BY <1>1, WindowType
  <2>7. s \in Nat /\ e \in Nat
    BY <2>3, <2>6, BoundsType
  <2>8. IF is_invalid_range(s, e, size_)
        THEN Calls("new_bounds", <<low, high>>, start, stop, None, {})
        ELSE Calls("new_bounds", <<low, high>>, s, e, Some(e - s), {})
    BY <2>1
  <2> HIDE DEF s, e
  <2> DEFINE r == <<s, e>>
  <2>9. r[1] = s /\ r[2] = e
    OBVIOUS
  <2>10. CASE is_invalid_range(s, e, size_)
    <3>1. ret' = None /\ start' = start /\ stop' = stop
      BY <2>8, <2>10 DEF Calls
    <3>2. ~(s <= e /\ e <= size_)
      BY <2>6, <2>7, <2>10 DEF is_invalid_range
    <3> QED BY <2>5, <2>9, <3>1, <3>2 DEF Opened
  <2>11. CASE ~is_invalid_range(s, e, size_)
    <3>1. start' = s /\ stop' = e
      BY <2>8, <2>11 DEF Calls
    <3>2. s <= e /\ e <= size_
      BY <2>6, <2>7, <2>11 DEF is_invalid_range
    <3> QED BY <2>5, <2>9, <3>1, <3>2 DEF Opened
  <2> QED BY <2>10, <2>11
<1>2. IInv /\ [Next]_vars => [OK]_vars
  <2> HIDE DEF OK
  <2> QED BY <1>1
<1> QED BY <1>2, IterIInv, PTL DEF Spec, OpensWhatIsAsked

(* The windows of n bits from s and from t on show the same bits.          *)
SameBits(s, t, n) == \A i \in 0 .. (n - 1) : s + i \in mem <=> t + i \in mem

LEMMA SameBit ==
  ASSUME NEW i, NEW j
  PROVE  bit(i) = bit(j) <=> (i \in mem <=> j \in mem)
BY DEF bit, Named

(* Words that are the same show the same bits, and the other way round.    *)
LEMMA SameWord ==
  ASSUME NEW k \in Nat, NEW l \in Nat
  PROVE  WordAt(mem, k) = WordAt(mem, l)
           <=> \A x \in Bit : k * WordSize + x \in mem <=> l * WordSize + x \in mem
<1>1. /\ WordAt(mem, k) \subseteq Bit
      /\ \A x \in Bit : x \in WordAt(mem, k) <=> k * WordSize + x \in mem
      /\ WordAt(mem, l) \subseteq Bit
      /\ \A x \in Bit : x \in WordAt(mem, l) <=> l * WordSize + x \in mem
  BY WordBitsAt
<1> DEFINE A == WordAt(mem, k)
           B == WordAt(mem, l)
<1> HIDE DEF A, B
<1>2. A = B <=> \A x \in Bit : x \in A <=> x \in B
  <2>1. ASSUME \A x \in Bit : x \in A <=> x \in B PROVE A = B
    <3>1. \A x : x \in A <=> x \in B
      BY <1>1, <2>1 DEF A, B
    <3> QED BY <3>1
  <2> QED BY <2>1
<1> QED BY <1>1, <1>2 DEF A, B

(* The full words from words k and l on, and the bits behind them.         *)
SameWordsAndBits(k, l, n) ==
  /\ \A i \in 0 .. (word_index(n) - 1) : WordAt(mem, k + i) = WordAt(mem, l + i)
  /\ \A i \in (WordSize * word_index(n)) .. (n - 1) :
       bit(k * WordSize + i) = bit(l * WordSize + i)

(* Windows that begin at words k and l: whole words first, then bits.      *)
LEMMA EqualByWords ==
  ASSUME NEW k \in Nat, NEW l \in Nat, NEW n \in Nat
  PROVE  SameBits(k * WordSize, l * WordSize, n) <=> SameWordsAndBits(k, l, n)
<1> DEFINE q == word_index(n)
           s == k * WordSize
           t == l * WordSize
<1>1. /\ q \in Nat /\ q * WordSize \in Nat /\ q * WordSize <= n /\ WordSize * q = q * WordSize
      /\ WordSize \in Nat /\ s \in Nat /\ t \in Nat
  <2>1. q \in Nat /\ bit_in_word_index(n) \in 0 .. (WordSize - 1)
        /\ n = q * WordSize + bit_in_word_index(n)
    BY IndexSplit
  <2> HIDE DEF q
  <2>2. q * WordSize \in Nat /\ s \in Nat /\ t \in Nat /\ WordSize \in Nat
    BY <2>1, WordBase, WordSizeType
  <2>3. WordSize * q = q * WordSize
    BY <2>1, <2>2
  <2> QED BY <2>1, <2>2, <2>3
<1>2. ASSUME NEW i \in Nat
      PROVE  /\ k + i \in Nat /\ l + i \in Nat /\ i * WordSize \in Nat
             /\ (k + i) * WordSize = s + i * WordSize
             /\ (l + i) * WordSize = t + i * WordSize
  BY <1>1, TimesAssoc, WordBase
<1> HIDE DEF q, s, t
<1>3. ASSUME SameBits(s, t, n), NEW i \in 0 .. (q - 1)
      PROVE  WordAt(mem, k + i) = WordAt(mem, l + i)
  <2>1. i \in Nat /\ (i + 1) * WordSize = i * WordSize + WordSize /\ i * WordSize \in Nat
        /\ (i + 1) * WordSize <= q * WordSize
    <3>1. i \in Nat /\ i + 1 <= q
      BY <1>1
    <3> QED BY <1>1, <3>1, WordBase, TimesMono
  <2> DEFINE u == i * WordSize
  <2>2. /\ k + i \in Nat /\ l + i \in Nat /\ (k + i) * WordSize = s + u
        /\ (l + i) * WordSize = t + u /\ u \in Nat /\ u + WordSize <= n
    BY <1>1, <1>2, <2>1
  <2> HIDE DEF u
  <2>3. ASSUME NEW x \in Bit PROVE (s + u) + x \in mem <=> (t + u) + x \in mem
    <3>1. u + x \in 0 .. (n - 1) /\ s + (u + x) = (s + u) + x /\ t + (u + x) = (t + u) + x
      BY <1>1, <2>2 DEF Bit
    <3> QED BY <1>3, <3>1 DEF SameBits
  <2> QED BY <2>2, <2>3, SameWord
<1>4. ASSUME \A i \in 0 .. (q - 1) : WordAt(mem, k + i) = WordAt(mem, l + i),
             \A i \in (q * WordSize) .. (n - 1) : bit(s + i) = bit(t + i),
             NEW j \in 0 .. (n - 1)
      PROVE  s + j \in mem <=> t + j \in mem
  <2>1. CASE j \in (q * WordSize) .. (n - 1)
    BY <1>4, <2>1, SameBit
  <2>2. CASE j \notin (q * WordSize) .. (n - 1)
    <3> DEFINE i == word_index(j)
               x == bit_in_word_index(j)
               u == i * WordSize
    <3>1. j \in Nat /\ j < q * WordSize
      BY <1>1, <2>2
    <3>2. i \in Nat /\ x \in Bit /\ j = u + x /\ u \in Nat
      BY <3>1, IndexSplit, WordBase DEF Bit
    <3> HIDE DEF i, x
    <3>3. i \in 0 .. (q - 1)
      <4> SUFFICES ASSUME q <= i PROVE FALSE
        BY <1>1, <3>2
      <4>1. q * WordSize <= i * WordSize
        BY <1>1, <3>2, TimesMono
      <4> QED BY <1>1, <3>1, <3>2, <4>1 DEF Bit
    <3>4. k + i \in Nat /\ l + i \in Nat /\ (k + i) * WordSize = s + u /\ (l + i) * WordSize = t + u
      BY <1>2, <3>2
    <3> HIDE DEF u
    <3>5. (s + u) + x \in mem <=> (t + u) + x \in mem
      <4>1. WordAt(mem, k + i) = WordAt(mem, l + i)
        BY <1>4, <3>3
      <4>2. (k + i) * WordSize + x \in mem <=> (l + i) * WordSize + x \in mem
        BY <3>2, <3>4, <4>1, SameWord
      <4> QED BY <3>4, <4>2
    <3>6. (s + u) + x = s + j /\ (t + u) + x = t + j
      BY <1>1, <3>2 DEF Bit
    <3> QED BY <3>5, <3>6
  <2> QED BY <2>1, <2>2
<1>5. ASSUME SameBits(s, t, n), NEW i \in (q * WordSize) .. (n - 1) PROVE bit(s + i) = bit(t + i)
  <2>1. i \in 0 .. (n - 1)
    BY <1>1
  <2> QED BY <1>5, <2>1, SameBit DEF SameBits
<1>6. SameBits(s, t, n) <=>
           /\ \A i \in 0 .. (q - 1) : WordAt(mem, k + i) = WordAt(mem, l + i)
           /\ \A i \in (q * WordSize) .. (n - 1) : bit(s + i) = bit(t + i)
  BY <1>3, <1>4, <1>5 DEF SameBits
<1>7. SameWordsAndBits(k, l, n) <=>
           /\ \A i \in 0 .. (q - 1) : WordAt(mem, k + i) = WordAt(mem, l + i)
           /\ \A i \in (q * WordSize) .. (n - 1) : bit(s + i) = bit(t + i)
  BY <1>1 DEF SameWordsAndBits, q, s, t
<1> QED BY <1>6, <1>7 DEF s, t

(* The full words of the window of n bits from word k on.                  *)
LEMMA FullWordsAre ==
  ASSUME NEW k \in Nat, NEW n \in Nat, NEW s, s = k * WordSize
  PROVE  /\ full_words(s, s + n) = [i \in 0 .. (word_index(n) - 1) |-> WordAt(mem, k + i)]
         /\ word_index(s + n) - words_for(s) = word_index(n)
<1> DEFINE q == word_index(n)
           b == bit_in_word_index(n)
<1>1. q \in Nat /\ b \in 0 .. (WordSize - 1) /\ n = q * WordSize + b /\ q * WordSize \in Nat
      /\ k * WordSize \in Nat /\ WordSize \in Nat /\ WordSize > 1
  BY IndexSplit, WordBase, WordSizeType
<1>2. words_for(s) = k
  <2>1. s = k * WordSize + 0 /\ 0 \in Bit
    BY <1>1, WordSizeType DEF Bit
  <2>2. word_index(s) = k /\ bit_in_word_index(s) = 0
    BY <2>1, WordIndexIs
  <2> QED BY <2>2 DEF words_for
<1> HIDE DEF q, b
<1>3. word_index(s + n) = k + q
  <2>1. (k + q) * WordSize = k * WordSize + q * WordSize
    BY <1>1, TimesAssoc
  <2>2. s + n = (k + q) * WordSize + b /\ k + q \in Nat /\ b \in Bit
    BY <1>1, <2>1 DEF Bit
  <2> QED BY <2>2, WordIndexIs
<1>4. word_index(s + n) - words_for(s) = q
  BY <1>1, <1>2, <1>3
<1>5. word_index(s + n) - words_for(s) - 1 = q - 1
  BY <1>1, <1>2, <1>3
<1>6. full_words(s, s + n) = [i \in 0 .. (q - 1) |-> WordAt(mem, k + i)]
  BY <1>2, <1>5 DEF full_words
<1> QED BY <1>4, <1>6 DEF q

LEMMA EqualIs ==
  ASSUME NEW s \in Nat, NEW e \in Nat, NEW t \in Nat, NEW f \in Nat, s <= e, t <= f
  PROVE  is_equal(s, e, t, f) <=> e - s = f - t /\ SameBits(s, t, f - t)
<1> DEFINE n == f - t
           aligned == bit_in_word_index(s) = 0 /\ bit_in_word_index(t) = 0
           skip == IF aligned /\ s < e THEN WordSize * (word_index(e) - words_for(s)) ELSE 0
           bits == \A i \in skip .. (e - s - 1) : bit(s + i) = bit(t + i)
           full == full_words(s, e) = full_words(t, f)
<1>1. is_equal(s, e, t, f) <=> e - s = n /\ (aligned => full) /\ bits
  BY DEF is_equal
<1>2. CASE e - s # n
  BY <1>1, <1>2
<1>3. CASE e - s = n /\ ~aligned
  <2>1. skip = 0
    BY <1>3
  <2>2. bits <=> \A i \in 0 .. (n - 1) : bit(s + i) = bit(t + i)
    BY <1>3, <2>1
  <2> HIDE DEF n, bits
  <2>3. bits <=> SameBits(s, t, n)
    BY <2>2, SameBit DEF SameBits
  <2> QED BY <1>1, <1>3, <2>3 DEF n
<1>4. CASE e - s = n /\ aligned
  <2> DEFINE k == word_index(s)
             l == word_index(t)
             q == word_index(n)
             A == [i \in 0 .. (q - 1) |-> WordAt(mem, k + i)]
             B == [i \in 0 .. (q - 1) |-> WordAt(mem, l + i)]
  <2>1. k \in Nat /\ s = k * WordSize /\ l \in Nat /\ t = l * WordSize
    <3>1. k \in Nat /\ s = k * WordSize + bit_in_word_index(s)
          /\ l \in Nat /\ t = l * WordSize + bit_in_word_index(t)
      BY IndexSplit
    <3>2. k * WordSize \in Nat /\ l * WordSize \in Nat
      BY <3>1, WordBase
    <3> QED BY <1>4, <3>1, <3>2
  <2>2. n \in Nat /\ e = s + n /\ f = t + n
    BY <1>4
  <2> HIDE DEF n, k, l
  <2>3. full_words(s, e) = A /\ full_words(t, f) = B /\ word_index(e) - words_for(s) = q
    BY <2>1, <2>2, FullWordsAre
  <2>4. q \in Nat
    BY <2>2, IndexSplit
  <2>5. skip = WordSize * q
    <3>1. CASE s < e
      BY <1>4, <2>3, <3>1
    <3>2. CASE ~(s < e)
      <4>1. n = 0
        BY <2>2, <3>2
      <4>2. q = 0
        <5>1. 0 = 0 * WordSize + 0 /\ 0 \in Bit /\ 0 \in Nat
          BY WordSizeType DEF Bit
        <5> QED BY <4>1, <5>1, WordIndexIs
      <4>3. WordSize * q = 0
        BY <4>2, WordSizeType
      <4> QED BY <3>2, <4>3
    <3> QED BY <3>1, <3>2
  <2>6. full <=> \A i \in 0 .. (q - 1) : WordAt(mem, k + i) = WordAt(mem, l + i)
    <3> HIDE DEF q
    <3>1. A = B <=> \A i \in 0 .. (q - 1) : WordAt(mem, k + i) = WordAt(mem, l + i)
      <4>1. ASSUME A = B, NEW i \in 0 .. (q - 1) PROVE WordAt(mem, k + i) = WordAt(mem, l + i)
        <5>1. A[i] = B[i]
          BY <4>1
        <5> QED BY <5>1
      <4> QED BY <4>1
    <3> HIDE DEF A, B
    <3> QED BY <2>3, <3>1
  <2>7. bits <=> \A i \in (WordSize * q) .. (n - 1) : bit(s + i) = bit(t + i)
    <3> HIDE DEF q, skip
    <3> QED BY <1>4, <2>5
  <2> HIDE DEF bits, full, skip, q
  <2>8. SameBits(s, t, n) <=> full /\ bits
    <3>1. k \in Nat /\ l \in Nat /\ n \in Nat
      BY <2>1, <2>2
    <3>2. SameBits(k * WordSize, l * WordSize, n) <=> SameWordsAndBits(k, l, n)
      BY <3>1, EqualByWords
    <3>3. SameWordsAndBits(k, l, n) <=> full /\ bits
      BY <2>1, <2>6, <2>7 DEF SameWordsAndBits, q
    <3> QED BY <2>1, <3>2, <3>3
  <2> QED BY <1>1, <1>4, <2>8 DEF n
<1> QED BY <1>2, <1>3, <1>4

(* Two windows of the memory compare as equal exactly when they show the   *)
(* same bits, whether they lie in step with the words and are compared a   *)
(* word at a time, or not (iter.rs:592).                                   *)
THEOREM EqualWindowsShowTheSame == Spec => []EqualIffSameBits
<1>1. IInv => EqualIffSameBits
  <2> SUFFICES ASSUME IInv, NEW t \in 0 .. (MemWords * WordSize),
                      NEW f \in 0 .. (MemWords * WordSize), t <= f
               PROVE  is_equal(start, stop, t, f) <=>
                        /\ stop - start = f - t
                        /\ \A i \in 0 .. (f - t - 1) : (start + i \in mem) = (t + i \in mem)
    BY DEF EqualIffSameBits
  <2>1. start \in Nat /\ stop \in Nat /\ start <= stop /\ t \in Nat /\ f \in Nat
    BY WindowType
  <2>2. is_equal(start, stop, t, f) <=> stop - start = f - t /\ SameBits(start, t, f - t)
    BY <2>1, EqualIs
  <2>3. SameBits(start, t, f - t) <=>
          \A i \in 0 .. (f - t - 1) : (start + i \in mem) = (t + i \in mem)
    BY DEF SameBits
  <2> QED BY <2>2, <2>3
<1> QED BY <1>1, IterIInv, PTL

-----------------------------------------------------------------------------
(* The clients. *)

(* While BitIndexes has bits to read, its index is where its window begins.*)
IndexIInv ==
  client = "indexes" =>
    /\ base \in Nat /\ start \in Nat /\ stop \in Nat /\ base <= start /\ start <= stop
    /\ index \in Nat /\ value \in BOOLEAN
    /\ start < stop => index = start - base

LEMMA BaseIs ==
  ASSUME base \in {0, 1 + CountBits}, MemWords * WordSize \in Nat,
         stop \in base .. (IF base = 0 THEN MemWords * WordSize ELSE WordSize)
  PROVE  base \in Nat /\ base < WordSize /\ stop \in Nat /\ base <= stop
         /\ size = stop - base /\ size \in Nat
<1>1. base \in Nat /\ base < WordSize
  BY WordAssumption, WordSizeType
<1>2. CASE base = 0
  BY <1>1, <1>2 DEF size
<1>3. CASE base # 0
  BY <1>1, <1>3, WordSizeType DEF size
<1> QED BY <1>2, <1>3

LEMMA IndexInit == ClientInit => IndexIInv
<1> SUFFICES ASSUME ClientInit, client = "indexes"
             PROVE  /\ base \in Nat /\ start \in Nat /\ stop \in Nat /\ base <= start
                    /\ start <= stop /\ index \in Nat /\ value \in BOOLEAN
                    /\ start < stop => index = start - base
  BY DEF IndexIInv
<1>1. /\ base \in {0, 1 + CountBits}
      /\ stop \in base .. (IF base = 0 THEN MemWords * WordSize ELSE WordSize)
  BY DEF ClientInit
<1>2. MemWords * WordSize \in Nat
  BY IterAssumption, WordBase
<1>3. base \in Nat /\ stop \in Nat /\ base <= stop /\ size = stop - base /\ size \in Nat
  BY <1>1, <1>2, BaseIs
<1>4. value \in BOOLEAN
  BY DEF ClientInit
<1>5. PICK at \in Counts : index = least(at, size) /\ start = base + index
  BY DEF ClientInit
<1>6. at \in Nat
  BY CountIs
<1>7. index \in Nat /\ index <= size
  BY <1>3, <1>5, <1>6 DEF least
<1> QED BY <1>3, <1>4, <1>5, <1>7

LEMMA HasValue ==
  ASSUME NEW v \in BOOLEAN
  PROVE  \A i : ((i \in mem) = v) <=> (i \in mem <=> v)
OBVIOUS

(* What a search from the iterator's place on says of the indexes.         *)
LEMMA IndexFinds ==
  ASSUME IndexIInv, client = "indexes"
  PROVE  LET p == position(start, stop, value)
             S == {i \in (start - base) .. (size - 1) : (base + i \in mem) = value}
         IN  \/ p.off = None /\ p.start = stop /\ S = {}
             \/ \E h \in start .. (stop - 1) :
                  /\ p.off = Some(h - start) /\ p.start = h + 1 /\ index = start - base
                  /\ {i \in S : \A j \in S : i <= j} = {h - base}
<1> DEFINE p == position(start, stop, value)
           S == {i \in (start - base) .. (size - 1) : (base + i \in mem) = value}
           H == Hits(start, stop, value)
<1>1. /\ base \in Nat /\ start \in Nat /\ stop \in Nat /\ base <= start /\ start <= stop
      /\ index \in Nat /\ value \in BOOLEAN
      /\ start < stop => index = start - base
      /\ size = stop - base
  BY DEF IndexIInv, size
<1>2. FindsFirst(p, start, start, stop, value)
  BY <1>1, PositionFinds
<1>3. /\ H = {} => p.off = None /\ p.start = stop
      /\ \A i : IsLeast(i, H) => p.off = Some(i - start) /\ p.start = i + 1
  BY <1>2 DEF FindsFirst
<1>4. \A i : i \in H <=> i \in start .. (stop - 1) /\ (i \in mem <=> value)
  BY <1>1, HitsAre
<1>5. \A i : i \in S <=> i \in (start - base) .. (size - 1) /\ (base + i \in mem <=> value)
  <2> TAKE i
  <2>1. i \in S <=> i \in (start - base) .. (size - 1) /\ (base + i \in mem) = value
    BY Zenon
  <2>2. ((base + i \in mem) = value) <=> (base + i \in mem <=> value)
    BY <1>1, HasValue
  <2> QED BY <2>1, <2>2, Zenon
<1>6. H # {} => \E i : IsLeast(i, H)
  BY <1>1, LeastHit
<1> HIDE DEF p, S, H
<1>7. ASSUME NEW i, i \in S PROVE i \in Int /\ base + i \in H
  <2>1. base + i \in start .. (stop - 1) /\ i \in Int
    BY <1>1, <1>5, <1>7
  <2> QED BY <1>4, <1>5, <1>7, <2>1
<1>8. ASSUME NEW h, h \in H PROVE h \in Int /\ h - base \in S
  <2>1. h - base \in (start - base) .. (size - 1) /\ base + (h - base) = h /\ h \in Int
    BY <1>1, <1>4, <1>8
  <2> QED BY <1>4, <1>5, <1>8, <2>1
<1>9. CASE H = {}
  <2>1. S = {}
    BY <1>7, <1>9
  <2> QED BY <1>3, <1>9, <2>1 DEF p, S
<1>10. CASE H # {}
  <2>1. PICK h : IsLeast(h, H)
    BY <1>6, <1>10
  <2>2. h \in H /\ \A g \in H : h <= g
    BY <2>1 DEF IsLeast
  <2>3. h \in start .. (stop - 1) /\ p.off = Some(h - start) /\ p.start = h + 1
        /\ index = start - base
    BY <1>1, <1>3, <1>4, <2>1, <2>2
  <2>4. h - base \in S /\ \A j \in S : h - base <= j
    <3> SUFFICES ASSUME NEW j \in S PROVE h - base <= j
      BY <1>8, <2>2
    <3>1. h <= base + j /\ j \in Int
      BY <1>7, <2>2
    <3> QED BY <1>1, <2>3, <3>1
  <2>5. ASSUME NEW i \in S, \A j \in S : i <= j PROVE i = h - base
    <3>1. i <= h - base /\ h - base <= i /\ i \in Int
      BY <1>7, <2>4, <2>5
    <3> QED BY <1>1, <2>3, <3>1
  <2>6. {i \in S : \A j \in S : i <= j} = {h - base}
    BY <2>4, <2>5
  <2> QED BY <2>3, <2>6 DEF p, S
<1> QED BY <1>9, <1>10

(* A search gives out the next index, and moves the index with the window. *)
LEMMA NextIndexKeeps ==
  ASSUME IndexIInv, NextIndex
  PROVE  /\ IndexIInv'
         /\ LET S == {i \in (start - base) .. (size - 1) : (base + i \in mem) = value}
            IN  ret' = {i \in S : \A j \in S : i <= j}
<1> DEFINE p == position(start, stop, value)
           S == {i \in (start - base) .. (size - 1) : (base + i \in mem) = value}
           least_ == {i \in S : \A j \in S : i <= j}
<1>1. /\ client = "indexes" /\ client' = client /\ base' = base /\ stop' = stop
      /\ value' = value /\ start' = p.start /\ ret' = {index + i : i \in p.off}
      /\ index' = IF p.off = None THEN index ELSE index + Min(p.off) + 1
  BY DEF NextIndex, Took
<1>2. /\ base \in Nat /\ start \in Nat /\ stop \in Nat /\ base <= start /\ start <= stop
      /\ index \in Nat /\ value \in BOOLEAN
  BY <1>1 DEF IndexIInv
<1>3. \/ p.off = None /\ p.start = stop /\ S = {}
      \/ \E h \in start .. (stop - 1) :
           /\ p.off = Some(h - start) /\ p.start = h + 1 /\ index = start - base
           /\ least_ = {h - base}
  BY <1>1, IndexFinds
<1> HIDE DEF p
<1>4. CASE p.off = None /\ p.start = stop /\ S = {}
  <2>1. start' = stop /\ index' = index /\ ret' = {}
    BY <1>1, <1>4 DEF None
  <2>2. least_ = {}
    BY <1>4
  <2>3. IndexIInv'
    BY <1>1, <1>2, <2>1 DEF IndexIInv
  <2> QED BY <2>1, <2>2, <2>3
<1>5. CASE \E h \in start .. (stop - 1) :
           /\ p.off = Some(h - start) /\ p.start = h + 1 /\ index = start - base
           /\ least_ = {h - base}
  <2>1. PICK h \in start .. (stop - 1) :
           /\ p.off = Some(h - start) /\ p.start = h + 1 /\ index = start - base
           /\ least_ = {h - base}
    BY <1>5
  <2> HIDE DEF least_
  <2>2. h - start \in Int
    BY <1>2
  <2>3. p.off # None /\ Min(p.off) = h - start
    BY <2>1, <2>2, SomeIs
  <2>4. start' = h + 1 /\ index' = h + 1 - base /\ index' \in Nat
    BY <1>1, <1>2, <2>1, <2>3
  <2>5. ret' = {index + (h - start)}
    BY <1>1, <2>1 DEF Some
  <2>6. index + (h - start) = h - base
    BY <1>2, <2>1
  <2>7. IndexIInv'
    BY <1>1, <1>2, <2>4 DEF IndexIInv
  <2> QED BY <2>1, <2>5, <2>6, <2>7 DEF least_
<1> QED BY <1>3, <1>4, <1>5

LEMMA IndexStep ==
  ASSUME IndexIInv, ClientNext
  PROVE  IndexIInv'
<1>1. CASE NextIndex
  BY <1>1, NextIndexKeeps
<1>2. CASE ChangeBit
  BY <1>2 DEF ChangeBit, Took, IndexIInv
<1>3. CASE AdvanceTotalBits
  <2>1. PICK n \in Counts :
       IF n <= len
       THEN Took("advance_total_bits", <<n>>, start + n, None) /\ index' = index + n
       ELSE Took("advance_total_bits", <<n>>, stop, Some(n - len)) /\ index' = index
    BY <1>3 DEF AdvanceTotalBits
  <2>2. /\ base \in Nat /\ start \in Nat /\ stop \in Nat /\ base <= start /\ start <= stop
        /\ index \in Nat /\ value \in BOOLEAN /\ (start < stop => index = start - base)
        /\ n \in Nat /\ len = stop - start /\ value' = value
    BY <1>3, CountIs DEF IndexIInv, AdvanceTotalBits, len
  <2>3. CASE n <= len
    <3>1. start' = start + n /\ index' = index + n /\ stop' = stop /\ base' = base
      BY <2>1, <2>3 DEF Took
    <3> QED BY <2>2, <2>3, <3>1 DEF IndexIInv
  <2>4. CASE ~(n <= len)
    <3>1. start' = stop /\ index' = index /\ stop' = stop /\ base' = base
      BY <2>1, <2>4 DEF Took
    <3> QED BY <2>2, <3>1 DEF IndexIInv
  <2> QED BY <2>3, <2>4
<1>4. CASE CompressNext
  BY <1>4 DEF CompressNext, Took, IndexIInv
<1>5. CASE NextWordBits
  BY <1>5 DEF NextWordBits, Took, IndexIInv
<1>6. CASE NextBackWordBits
  BY <1>6 DEF NextBackWordBits, Took, IndexIInv
<1> QED BY <1>1, <1>2, <1>3, <1>4, <1>5, <1>6 DEF ClientNext

LEMMA IndexNext == IndexIInv /\ [ClientNext]_allVars => IndexIInv'
<1>1. ASSUME IndexIInv, UNCHANGED allVars PROVE IndexIInv'
  BY <1>1 DEF IndexIInv, allVars, vars, clientVars
<1> QED BY <1>1, IndexStep

LEMMA IndexSpec == ClientSpec => []IndexIInv
BY IndexInit, IndexNext, PTL DEF ClientSpec

(* As long as there are bits to read, the index that BitIndexes counts is  *)
(* the one its iterator has come to, in whatever order next, change_bit    *)
(* and advance_total_bits are called (iter.rs:1236-1262).                  *)
THEOREM IndexStaysWithWindow == ClientSpec => []IndexFollowsWindow
<1>1. IndexIInv => IndexFollowsWindow
  BY DEF IndexIInv, IndexFollowsWindow
<1> QED BY <1>1, IndexSpec, PTL

(* Each index BitIndexes gives out is that of the next bit that has the    *)
(* value asked for last, and None means that no bit has it any more        *)
(* (iter.rs:1240).                                                         *)
THEOREM EachIndexIsTheNext == ClientSpec => NextIndexIsNext
<1> DEFINE S == {i \in (start - base) .. (size - 1) : (base + i \in mem) = value}
           OK == op' = "const_next" => ret' = {i \in S : \A j \in S : i <= j}
<1>1. ASSUME IndexIInv, ClientNext PROVE OK
  <2>1. CASE NextIndex
    BY <1>1, <2>1, NextIndexKeeps
  <2>2. CASE ~NextIndex
    <3>1. op' # "const_next"
      BY <1>1, <2>2 DEF ClientNext, ChangeBit, AdvanceTotalBits, CompressNext, NextWordBits,
                        NextBackWordBits, Took
    <3> QED BY <3>1
  <2> QED BY <2>1, <2>2
<1>2. IndexIInv /\ [ClientNext]_allVars => [OK]_allVars
  <2> HIDE DEF OK
  <2> QED BY <1>1
<1> QED BY <1>2, IndexSpec, PTL DEF ClientSpec, NextIndexIsNext

-----------------------------------------------------------------------------
(* Strings put together. *)

LEMMA ConcatFields ==
  \A a, b : /\ Concat(a, b).len = a.len + b.len
            /\ Concat(a, b).ones = a.ones \cup {a.len + i : i \in b.ones}
            /\ Concat(a, b) = Str(Concat(a, b).len, Concat(a, b).ones)
BY DEF Concat, Str

LEMMA ConcatString ==
  ASSUME NEW a, NEW b, IsBitString(a), IsBitString(b)
  PROVE  IsBitString(Concat(a, b))
<1> DEFINE c == Concat(a, b)
<1>1. /\ a.len \in Nat /\ a.ones \subseteq 0 .. (a.len - 1)
      /\ b.len \in Nat /\ b.ones \subseteq 0 .. (b.len - 1)
  BY DEF IsBitString
<1>2. /\ c.len = a.len + b.len /\ c.ones = a.ones \cup {a.len + i : i \in b.ones}
      /\ c = Str(c.len, c.ones)
  BY ConcatFields
<1> HIDE DEF c
<1>3. c.len \in Nat
  BY <1>1, <1>2
<1>4. \A i \in b.ones : a.len + i \in 0 .. (c.len - 1)
  BY <1>1, <1>2
<1>5. \A i \in a.ones : i \in 0 .. (c.len - 1)
  BY <1>1, <1>2
<1>6. c.ones \subseteq 0 .. (c.len - 1)
  BY <1>2, <1>4, <1>5
<1> QED BY <1>2, <1>3, <1>6 DEF IsBitString, c

LEMMA ConcatAssoc ==
  ASSUME NEW a, NEW b, NEW c, IsBitString(a), IsBitString(b), IsBitString(c)
  PROVE  Concat(Concat(a, b), c) = Concat(a, Concat(b, c))
<1> DEFINE l == Concat(Concat(a, b), c)
           r == Concat(a, Concat(b, c))
<1>1. /\ a.len \in Nat /\ b.len \in Nat /\ c.len \in Nat /\ b.ones \subseteq Int
      /\ c.ones \subseteq Int
  BY DEF IsBitString
<1>2. /\ l.len = (a.len + b.len) + c.len
      /\ l.ones = (a.ones \cup {a.len + i : i \in b.ones}) \cup {(a.len + b.len) + i : i \in c.ones}
      /\ l = Str(l.len, l.ones)
  BY ConcatFields
<1>3. /\ r.len = a.len + (b.len + c.len)
      /\ r.ones = a.ones \cup {a.len + i : i \in b.ones \cup {b.len + j : j \in c.ones}}
      /\ r = Str(r.len, r.ones)
  BY ConcatFields
<1> HIDE DEF l, r
<1>4. l.len = r.len
  BY <1>1, <1>2, <1>3
<1>5. ASSUME NEW i \in c.ones PROVE a.len + (b.len + i) = (a.len + b.len) + i
  BY <1>1
<1>6. l.ones \subseteq r.ones
  <2> SUFFICES ASSUME NEW x \in l.ones PROVE x \in r.ones
    OBVIOUS
  <2>1. CASE x \in a.ones
    BY <1>3, <2>1
  <2>2. CASE \E i \in b.ones : x = a.len + i
    BY <1>3, <2>2
  <2>3. CASE \E i \in c.ones : x = (a.len + b.len) + i
    <3>1. PICK i \in c.ones : x = (a.len + b.len) + i
      BY <2>3
    <3>2. x = a.len + (b.len + i)
      BY <1>5, <3>1
    <3> QED BY <1>3, <3>2
  <2> QED BY <1>2, <2>1, <2>2, <2>3
<1>7. r.ones \subseteq l.ones
  <2> SUFFICES ASSUME NEW x \in r.ones PROVE x \in l.ones
    OBVIOUS
  <2>1. CASE x \in a.ones
    BY <1>2, <2>1
  <2>2. CASE \E i \in b.ones : x = a.len + i
    BY <1>2, <2>2
  <2>3. CASE \E i \in c.ones : x = a.len + (b.len + i)
    <3>1. PICK i \in c.ones : x = a.len + (b.len + i)
      BY <2>3
    <3>2. x = (a.len + b.len) + i
      BY <1>5, <3>1
    <3> QED BY <1>2, <3>2
  <2> QED BY <1>3, <2>1, <2>2, <2>3
<1>8. l.ones = r.ones
  BY <1>6, <1>7
<1> QED BY <1>2, <1>3, <1>4, <1>8 DEF l, r

LEMMA ConcatNothing ==
  ASSUME NEW a, IsBitString(a)
  PROVE  Concat(NoBits, a) = a /\ Concat(a, NoBits) = a
<1>1. /\ a.len \in Nat /\ a.ones \subseteq Int /\ a = Str(a.len, a.ones)
  BY DEF IsBitString
<1>2. NoBits.len = 0 /\ NoBits.ones = {}
  BY StrIs DEF NoBits
<1>3. Concat(NoBits, a) = Str(0 + a.len, {} \cup {0 + i : i \in a.ones})
  BY <1>2 DEF Concat
<1>4. Concat(a, NoBits) = Str(a.len + 0, a.ones \cup {a.len + i : i \in {}})
  BY <1>2 DEF Concat
<1>5. 0 + a.len = a.len /\ a.len + 0 = a.len
  BY <1>1
<1>6. {} \cup {0 + i : i \in a.ones} = a.ones
  <2>1. \A i \in a.ones : 0 + i = i
    BY <1>1
  <2> QED BY <2>1
<1>7. a.ones \cup {a.len + i : i \in {}} = a.ones
  OBVIOUS
<1> QED BY <1>1, <1>3, <1>4, <1>5, <1>6, <1>7

LEMMA NoBitsString == IsBitString(NoBits)
<1>1. NoBits.len = 0 /\ NoBits.ones = {}
  BY StrIs DEF NoBits
<1>2. NoBits = Str(0, {})
  BY DEF NoBits
<1> QED BY <1>1, <1>2 DEF IsBitString

-----------------------------------------------------------------------------
(* Words given out. *)

LEMMA HeldString ==
  ASSUME NEW w, w.count \in 0 .. WordSize
  PROVE  /\ IsBitString(Held(w))
         /\ w.count = 0 => Held(w) = NoBits
<1>1. raw(w) = w.value \cap (0 .. (w.count - 1)) /\ w.count \in Nat
  BY RawIs, WordSizeType
<1>2. Held(w).len = w.count /\ Held(w).ones = raw(w) /\ Held(w) = Str(w.count, raw(w))
  BY StrIs DEF Held
<1>3. raw(w) \subseteq 0 .. (w.count - 1)
  BY <1>1
<1>4. w.count = 0 => raw(w) = {}
  BY <1>1
<1> QED BY <1>1, <1>2, <1>3, <1>4 DEF IsBitString, NoBits

(* A WordBits that holds the bits of the memory from bit s on.             *)
LEMMA HeldShows ==
  ASSUME mem \subseteq Nat, NEW s \in Nat, NEW e \in Nat, s <= e, e - s <= WordSize, NEW v,
         \A x \in 0 .. (e - s - 1) : x \in v <=> s + x \in mem
  PROVE  Held(WordBits(v, e - s)) = Shown(s, e)
<1> DEFINE w == WordBits(v, e - s)
           n == e - s
           S == v \cap (0 .. (n - 1))
<1>1. w.value = v /\ w.count = n
  BY WordFields
<1>2. n \in 0 .. WordSize
  BY WordSizeType
<1> HIDE DEF w
<1>3. Held(w) = Str(n, S)
  BY <1>1, <1>2, RawIs DEF Held
<1>4. S \subseteq 0 .. (n - 1) /\ \A x \in 0 .. (n - 1) : x \in S <=> s + x \in mem
  OBVIOUS
<1> HIDE DEF S
<1>5. Str(n, S) = Shown(s, e)
  BY <1>4, ShowsBits
<1> QED BY <1>3, <1>5 DEF w

LEMMA FullWordShows ==
  ASSUME mem \subseteq Nat, NEW k \in Nat
  PROVE  /\ k * WordSize \in Nat /\ (k + 1) * WordSize \in Nat
         /\ k * WordSize <= (k + 1) * WordSize
         /\ FullWord(k) = Shown(k * WordSize, (k + 1) * WordSize)
<1> DEFINE s == k * WordSize
           e == (k + 1) * WordSize
<1>1. s \in Nat /\ e = s + WordSize /\ WordSize \in Nat
  BY WordBase, WordSizeType
<1>2. WordAt(mem, k) \subseteq Bit /\ \A x \in Bit : x \in WordAt(mem, k) <=> s + x \in mem
  BY WordBitsAt
<1> HIDE DEF s, e
<1>3. e \in Nat /\ s <= e /\ WordSize = e - s
  BY <1>1
<1>4. Str(WordSize, WordAt(mem, k)) = Shown(s, e)
  BY <1>1, <1>2, <1>3, ShowsBits DEF Bit
<1> QED BY <1>1, <1>3, <1>4 DEF FullWord, s, e

(* The state of a WordBitsIter. *)
Ends(low, high, w) == [lo |-> low, hi |-> high, last |-> w]

LEMMA EndsIs ==
  \A l, h, w :
    LET e == Ends(l, h, w)
    IN  /\ e.lo = l /\ e.hi = h /\ e.last = w
        /\ [e EXCEPT !.lo = @ + 1] = Ends(l + 1, h, w)
        /\ [e EXCEPT !.hi = @ - 1] = Ends(l, h - 1, w)
        /\ [e EXCEPT !.last = EmptyWordBits] = Ends(l, h, EmptyWordBits)
BY DEF Ends

(* Everything the iterator has given out or still has, in order. *)
Everything(f, l, h, w, b) ==
  Concat(f, Concat(Shown(l * WordSize, h * WordSize), Concat(Held(w), b)))

(* Where the words given out end: raw words are given out whole. *)
WordsEnd == IF client = "raw_words" /\ base = 0 THEN words_for(stop) * WordSize ELSE stop

EndsOK(l, h, w) == l \in Nat /\ h \in Nat /\ l <= h /\ w.count \in 0 .. WordSize

(* What has been given out from both ends and what lies between them are   *)
(* the list.                                                               *)
WordsIInv ==
  client \in {"word_bits", "raw_words"} =>
    /\ base \in Nat /\ stop \in Nat /\ base <= stop /\ mem \subseteq 0 .. (stop - 1)
    /\ words = Ends(words.lo, words.hi, words.last) /\ EndsOK(words.lo, words.hi, words.last)
    /\ IsBitString(front) /\ IsBitString(back)
    /\ Everything(front, words.lo, words.hi, words.last, back) = Shown(base, WordsEnd)

-----------------------------------------------------------------------------
(* One word more given out. *)

LEMMA ShownWords ==
  ASSUME mem \subseteq Nat, NEW l \in Nat, NEW h \in Nat, l <= h
  PROVE  /\ l * WordSize \in Nat /\ h * WordSize \in Nat /\ l * WordSize <= h * WordSize
         /\ IsBitString(Shown(l * WordSize, h * WordSize))
<1>1. l * WordSize \in Nat /\ h * WordSize \in Nat /\ l * WordSize <= h * WordSize
  BY WordBase, TimesMono, WordSizeType
<1> QED BY <1>1, ShownString

LEMMA FrontWord ==
  ASSUME mem \subseteq Nat, NEW f, NEW l, NEW h, NEW w, NEW b, EndsOK(l, h, w),
         IsBitString(f), IsBitString(b), l < h
  PROVE  /\ EndsOK(l + 1, h, w) /\ IsBitString(Concat(f, FullWord(l)))
         /\ Everything(Concat(f, FullWord(l)), l + 1, h, w, b) = Everything(f, l, h, w, b)
<1> DEFINE one == FullWord(l)
           left == Shown((l + 1) * WordSize, h * WordSize)
           rest == Concat(Held(w), b)
<1>1. l \in Nat /\ h \in Nat /\ l + 1 \in Nat /\ l + 1 <= h /\ w.count \in 0 .. WordSize
  BY DEF EndsOK
<1>2. /\ l * WordSize \in Nat /\ (l + 1) * WordSize \in Nat /\ h * WordSize \in Nat
      /\ l * WordSize <= (l + 1) * WordSize /\ (l + 1) * WordSize <= h * WordSize
      /\ IsBitString(left)
  BY <1>1, ShownWords
<1>3. one = Shown(l * WordSize, (l + 1) * WordSize) /\ IsBitString(one)
  BY <1>1, <1>2, FullWordShows, ShownString
<1>4. IsBitString(rest)
  BY <1>1, HeldString, ConcatString
<1>5. Concat(one, left) = Shown(l * WordSize, h * WordSize)
  BY <1>2, <1>3, ShownConcat
<1>6. Everything(Concat(f, one), l + 1, h, w, b) = Concat(Concat(f, one), Concat(left, rest))
  BY DEF Everything
<1>7. Everything(f, l, h, w, b) = Concat(f, Concat(Concat(one, left), rest))
  BY <1>5 DEF Everything
<1> HIDE DEF one, left, rest
<1>8. Concat(Concat(f, one), Concat(left, rest)) = Concat(f, Concat(one, Concat(left, rest)))
  BY <1>2, <1>3, <1>4, ConcatAssoc, ConcatString
<1>9. Concat(one, Concat(left, rest)) = Concat(Concat(one, left), rest)
  BY <1>2, <1>3, <1>4, ConcatAssoc
<1>10. IsBitString(Concat(f, one))
  BY <1>3, ConcatString
<1> QED BY <1>1, <1>6, <1>7, <1>8, <1>9, <1>10 DEF EndsOK, one

LEMMA EmptyIs ==
  /\ EmptyWordBits.count = 0 /\ EmptyWordBits.count \in 0 .. WordSize
  /\ Held(EmptyWordBits) = NoBits
<1>1. EmptyWordBits.count = 0
  BY WordFields DEF EmptyWordBits
<1>2. EmptyWordBits.count \in 0 .. WordSize
  BY <1>1, WordSizeType
<1> QED BY <1>1, <1>2, HeldString

LEMMA FrontLast ==
  ASSUME mem \subseteq Nat, NEW f, NEW l, NEW w, NEW b, EndsOK(l, l, w),
         IsBitString(f), IsBitString(b)
  PROVE  /\ EndsOK(l, l, EmptyWordBits) /\ IsBitString(Concat(f, Held(w)))
         /\ Everything(Concat(f, Held(w)), l, l, EmptyWordBits, b) = Everything(f, l, l, w, b)
<1> DEFINE last == Held(w)
<1>1. l \in Nat /\ l * WordSize \in Nat /\ w.count \in 0 .. WordSize
  BY ShownWords DEF EndsOK
<1>2. Shown(l * WordSize, l * WordSize) = NoBits
  BY <1>1, ShownNothing
<1>3. IsBitString(last)
  BY <1>1, HeldString
<1>4. Everything(f, l, l, w, b) = Concat(f, Concat(NoBits, Concat(last, b)))
  BY <1>2 DEF Everything
<1>5. Everything(Concat(f, last), l, l, EmptyWordBits, b)
        = Concat(Concat(f, last), Concat(NoBits, Concat(NoBits, b)))
  BY <1>2, EmptyIs DEF Everything
<1> HIDE DEF last
<1>6. Concat(NoBits, b) = b /\ Concat(NoBits, Concat(last, b)) = Concat(last, b)
  BY <1>3, ConcatNothing, ConcatString
<1>7. Concat(Concat(f, last), b) = Concat(f, Concat(last, b)) /\ IsBitString(Concat(f, last))
  BY <1>3, ConcatAssoc, ConcatString
<1>8. EndsOK(l, l, EmptyWordBits)
  BY <1>1, EmptyIs DEF EndsOK
<1> QED BY <1>4, <1>5, <1>6, <1>7, <1>8 DEF last

LEMMA BackLast ==
  ASSUME mem \subseteq Nat, NEW f, NEW l, NEW h, NEW w, NEW b, EndsOK(l, h, w),
         IsBitString(f), IsBitString(b)
  PROVE  /\ EndsOK(l, h, EmptyWordBits) /\ IsBitString(Concat(Held(w), b))
         /\ Everything(f, l, h, EmptyWordBits, Concat(Held(w), b)) = Everything(f, l, h, w, b)
<1> DEFINE rest == Concat(Held(w), b)
<1>1. l \in Nat /\ h \in Nat /\ l <= h /\ w.count \in 0 .. WordSize
  BY DEF EndsOK
<1>2. IsBitString(rest)
  BY <1>1, HeldString, ConcatString
<1>3. Everything(f, l, h, EmptyWordBits, rest)
        = Concat(f, Concat(Shown(l * WordSize, h * WordSize), Concat(NoBits, rest)))
  BY EmptyIs DEF Everything
<1>4. Everything(f, l, h, w, b) = Concat(f, Concat(Shown(l * WordSize, h * WordSize), rest))
  BY DEF Everything
<1> HIDE DEF rest
<1>5. Concat(NoBits, rest) = rest
  BY <1>2, ConcatNothing
<1>6. EndsOK(l, h, EmptyWordBits)
  BY <1>1, EmptyIs DEF EndsOK
<1> QED BY <1>2, <1>3, <1>4, <1>5, <1>6 DEF rest

LEMMA BackWord ==
  ASSUME mem \subseteq Nat, NEW f, NEW l, NEW h, NEW w, NEW b, EndsOK(l, h, w),
         IsBitString(f), IsBitString(b), w.count = 0, l < h
  PROVE  /\ EndsOK(l, h - 1, w) /\ IsBitString(Concat(FullWord(h - 1), b))
         /\ Everything(f, l, h - 1, w, Concat(FullWord(h - 1), b)) = Everything(f, l, h, w, b)
<1> DEFINE k == h - 1
           one == FullWord(k)
           left == Shown(l * WordSize, k * WordSize)
<1>1. l \in Nat /\ h \in Nat /\ k \in Nat /\ l <= k /\ k <= h /\ k + 1 = h
      /\ w.count \in 0 .. WordSize
  BY DEF EndsOK
<1> HIDE DEF k
<1>2. /\ l * WordSize \in Nat /\ k * WordSize \in Nat /\ h * WordSize \in Nat
      /\ l * WordSize <= k * WordSize /\ k * WordSize <= h * WordSize
      /\ IsBitString(left)
  BY <1>1, ShownWords
<1>3. one = Shown(k * WordSize, h * WordSize) /\ IsBitString(one)
  BY <1>1, <1>2, FullWordShows, ShownString
<1>4. Concat(left, one) = Shown(l * WordSize, h * WordSize)
  BY <1>2, <1>3, ShownConcat
<1>5. Held(w) = NoBits
  BY <1>1, HeldString
<1>6. Everything(f, l, k, w, Concat(one, b))
        = Concat(f, Concat(left, Concat(NoBits, Concat(one, b))))
  BY <1>5 DEF Everything
<1>7. Everything(f, l, h, w, b) = Concat(f, Concat(Concat(left, one), Concat(NoBits, b)))
  BY <1>4, <1>5 DEF Everything
<1> HIDE DEF one, left
<1>8. Concat(NoBits, b) = b /\ Concat(NoBits, Concat(one, b)) = Concat(one, b)
      /\ IsBitString(Concat(one, b))
  BY <1>3, ConcatNothing, ConcatString
<1>9. Concat(Concat(left, one), b) = Concat(left, Concat(one, b))
  BY <1>2, <1>3, ConcatAssoc
<1>10. EndsOK(l, k, w)
  BY <1>1 DEF EndsOK
<1> QED BY <1>6, <1>7, <1>8, <1>9, <1>10 DEF one, k

LEMMA FrontStep ==
  ASSUME WordsIInv, NextWordBits
  PROVE  WordsIInv'
<1> DEFINE l == words.lo
           h == words.hi
           w == words.last
<1>1. /\ base \in Nat /\ stop \in Nat /\ base <= stop /\ mem \subseteq 0 .. (stop - 1)
      /\ words = Ends(l, h, w) /\ EndsOK(l, h, w) /\ IsBitString(front) /\ IsBitString(back)
      /\ Everything(front, l, h, w, back) = Shown(base, WordsEnd)
  BY DEF WordsIInv, NextWordBits
<1>2. /\ mem' = mem /\ stop' = stop /\ base' = base /\ client' = client /\ back' = back
  BY DEF NextWordBits, Took
<1>3. mem \subseteq Nat
  BY <1>1
<1>4. ASSUME NEW i, NEW j, NEW z, NEW f, words' = Ends(i, j, z), front' = f, EndsOK(i, j, z),
             IsBitString(f), Everything(f, i, j, z, back) = Everything(front, l, h, w, back)
      PROVE  WordsIInv'
  <2>1. words'.lo = i /\ words'.hi = j /\ words'.last = z
    BY <1>4, EndsIs
  <2>2. Everything(front', words'.lo, words'.hi, words'.last, back') = Shown(base, WordsEnd)
    BY <1>1, <1>2, <1>4, <2>1
  <2>3. Everything(front', words'.lo, words'.hi, words'.last, back')
          = Everything(front, words.lo, words.hi, words.last, back)'
    BY <1>2 DEF Everything, Shown
  <2>4. Shown(base, WordsEnd) = Shown(base, WordsEnd)'
    BY <1>2 DEF Shown, WordsEnd
  <2>5. EndsOK(words.lo, words.hi, words.last)'
    BY <1>4, <2>1 DEF EndsOK
  <2>6. IsBitString(front)' /\ IsBitString(back)'
    BY <1>1, <1>2, <1>4 DEF IsBitString
  <2>7. words' = Ends(words'.lo, words'.hi, words'.last)
    BY <1>4, <2>1
  <2> QED BY <1>1, <1>2, <2>2, <2>3, <2>4, <2>5, <2>6, <2>7 DEF WordsIInv, Ends
<1>5. CASE /\ l < h
           /\ words' = [words EXCEPT !.lo = @ + 1]
           /\ front' = Concat(front, FullWord(l))
  <2>1. words' = Ends(l + 1, h, w)
    BY <1>1, <1>5, EndsIs
  <2> HIDE DEF l, h, w
  <2> QED BY <1>1, <1>3, <1>4, <1>5, <2>1, FrontWord
<1>6. CASE /\ l = h /\ w.count # 0
           /\ words' = [words EXCEPT !.last = EmptyWordBits]
           /\ front' = Concat(front, Held(w))
  <2>1. words' = Ends(l, h, EmptyWordBits)
    BY <1>1, <1>6, EndsIs
  <2> HIDE DEF l, h, w
  <2>2. /\ EndsOK(l, l, EmptyWordBits) /\ IsBitString(Concat(front, Held(w)))
        /\ Everything(Concat(front, Held(w)), l, l, EmptyWordBits, back)
             = Everything(front, l, l, w, back)
    BY <1>1, <1>3, <1>6, FrontLast
  <2> QED BY <1>4, <1>6, <2>1, <2>2
<1> QED BY <1>5, <1>6 DEF NextWordBits

LEMMA BackStep ==
  ASSUME WordsIInv, NextBackWordBits
  PROVE  WordsIInv'
<1> DEFINE l == words.lo
           h == words.hi
           w == words.last
<1>1. /\ base \in Nat /\ stop \in Nat /\ base <= stop /\ mem \subseteq 0 .. (stop - 1)
      /\ words = Ends(l, h, w) /\ EndsOK(l, h, w) /\ IsBitString(front) /\ IsBitString(back)
      /\ Everything(front, l, h, w, back) = Shown(base, WordsEnd)
  BY DEF WordsIInv, NextBackWordBits
<1>2. /\ mem' = mem /\ stop' = stop /\ base' = base /\ client' = client /\ front' = front
  BY DEF NextBackWordBits, Took
<1>3. mem \subseteq Nat
  BY <1>1
<1>4. ASSUME NEW i, NEW j, NEW z, NEW b, words' = Ends(i, j, z), back' = b, EndsOK(i, j, z),
             IsBitString(b), Everything(front, i, j, z, b) = Everything(front, l, h, w, back)
      PROVE  WordsIInv'
  <2>1. words'.lo = i /\ words'.hi = j /\ words'.last = z
    BY <1>4, EndsIs
  <2>2. Everything(front', words'.lo, words'.hi, words'.last, back') = Shown(base, WordsEnd)
    BY <1>1, <1>2, <1>4, <2>1
  <2>3. Everything(front', words'.lo, words'.hi, words'.last, back')
          = Everything(front, words.lo, words.hi, words.last, back)'
    BY <1>2 DEF Everything, Shown
  <2>4. Shown(base, WordsEnd) = Shown(base, WordsEnd)'
    BY <1>2 DEF Shown, WordsEnd
  <2>5. EndsOK(words.lo, words.hi, words.last)'
    BY <1>4, <2>1 DEF EndsOK
  <2>6. IsBitString(front)' /\ IsBitString(back)'
    BY <1>1, <1>2, <1>4 DEF IsBitString
  <2>7. words' = Ends(words'.lo, words'.hi, words'.last)
    BY <1>4, <2>1
  <2> QED BY <1>1, <1>2, <2>2, <2>3, <2>4, <2>5, <2>6, <2>7 DEF WordsIInv, Ends
<1>5. CASE /\ w.count # 0
           /\ words' = [words EXCEPT !.last = EmptyWordBits]
           /\ back' = Concat(Held(w), back)
  <2>1. words' = Ends(l, h, EmptyWordBits)
    BY <1>1, <1>5, EndsIs
  <2> HIDE DEF l, h, w
  <2> QED BY <1>1, <1>3, <1>4, <1>5, <2>1, BackLast
<1>6. CASE /\ w.count = 0 /\ l < h
           /\ words' = [words EXCEPT !.hi = @ - 1]
           /\ back' = Concat(FullWord(h - 1), back)
  <2>1. words' = Ends(l, h - 1, w)
    BY <1>1, <1>6, EndsIs
  <2> HIDE DEF l, h, w
  <2> QED BY <1>1, <1>3, <1>4, <1>6, <2>1, BackWord
<1> QED BY <1>5, <1>6 DEF NextBackWordBits

LEMMA WordsNext == WordsIInv /\ [ClientNext]_allVars => WordsIInv'
<1> SUFFICES ASSUME WordsIInv, [ClientNext]_allVars PROVE WordsIInv'
  OBVIOUS
<1>1. CASE NextIndex \/ ChangeBit \/ AdvanceTotalBits \/ CompressNext
  <2>1. client' \notin {"word_bits", "raw_words"}
    BY <1>1 DEF NextIndex, ChangeBit, AdvanceTotalBits, CompressNext, Took
  <2> QED BY <2>1 DEF WordsIInv
<1>2. CASE NextWordBits
  BY <1>2, FrontStep
<1>3. CASE NextBackWordBits
  BY <1>3, BackStep
<1>4. CASE UNCHANGED allVars
  <2>1. /\ mem' = mem /\ stop' = stop /\ base' = base /\ client' = client /\ front' = front
        /\ back' = back /\ words' = words
    BY <1>4 DEF allVars, vars, clientVars
  <2> QED BY <2>1 DEF WordsIInv, Everything, Shown, WordsEnd, EndsOK, IsBitString
<1> QED BY <1>1, <1>2, <1>3, <1>4 DEF ClientNext

(* A new iterator has given out nothing. *)
LEMMA EverythingNew ==
  ASSUME mem \subseteq Nat, NEW l, NEW h, NEW w, EndsOK(l, h, w)
  PROVE  Everything(NoBits, l, h, w, NoBits)
           = Concat(Shown(l * WordSize, h * WordSize), Held(w))
<1> DEFINE left == Shown(l * WordSize, h * WordSize)
<1>1. l \in Nat /\ h \in Nat /\ l <= h /\ w.count \in 0 .. WordSize
  BY DEF EndsOK
<1>2. IsBitString(left)
  BY <1>1, ShownWords
<1>3. IsBitString(Held(w))
  BY <1>1, HeldString
<1>4. Everything(NoBits, l, h, w, NoBits) = Concat(NoBits, Concat(left, Concat(Held(w), NoBits)))
  BY DEF Everything
<1> HIDE DEF left
<1>5. Concat(Held(w), NoBits) = Held(w)
  BY <1>3, ConcatNothing
<1>6. Concat(NoBits, Concat(left, Held(w))) = Concat(left, Held(w))
  BY <1>2, <1>3, ConcatString, ConcatNothing
<1> QED BY <1>4, <1>5, <1>6 DEF left

LEMMA OnlyWordHolds ==
  ASSUME mem \subseteq Nat, base \in Nat, base # 0, stop \in base .. WordSize
  PROVE  LET w == WordBits(Down(WordAt(mem, 0), base), size)
         IN  EndsOK(0, 0, w) /\ Everything(NoBits, 0, 0, w, NoBits) = Shown(base, stop)
<1> DEFINE v == Down(WordAt(mem, 0), base)
           w == WordBits(v, size)
<1>1. WordAt(mem, 0) \subseteq Bit
      /\ \A x \in Bit : x \in WordAt(mem, 0) <=> 0 * WordSize + x \in mem
  BY WordBitsAt
<1>2. WordSize \in Nat /\ stop \in Nat /\ base <= stop /\ size = stop - base /\ 0 * WordSize = 0
  BY WordSizeType DEF size
<1>3. v = {i - base : i \in {j \in WordAt(mem, 0) : j >= base}}
  BY DEF Down
<1>4. ASSUME NEW x \in 0 .. (stop - base - 1) PROVE x \in v <=> base + x \in mem
  <2>1. base + x \in Bit /\ base + x >= base /\ x = (base + x) - base /\ base + x \in Int
        /\ 0 * WordSize + (base + x) = base + x
    BY <1>2 DEF Bit
  <2>2. base + x \in WordAt(mem, 0) <=> base + x \in mem
    BY <1>1, <2>1
  <2>3. ASSUME NEW i \in WordAt(mem, 0), x = i - base PROVE i = base + x
    BY <1>1, <1>2, <2>3 DEF Bit
  <2> QED BY <1>3, <2>1, <2>2, <2>3
<1> HIDE DEF v
<1>5. Held(WordBits(v, stop - base)) = Shown(base, stop)
  BY <1>2, <1>4, HeldShows
<1>6. w.count \in 0 .. WordSize
  BY <1>2, WordFields
<1>7. EndsOK(0, 0, w)
  BY <1>6 DEF EndsOK
<1>8. Shown(0 * WordSize, 0 * WordSize) = NoBits
  BY <1>2, ShownNothing
<1>9. Everything(NoBits, 0, 0, w, NoBits) = Concat(NoBits, Held(w))
  BY <1>7, <1>8, EverythingNew
<1>10. Concat(NoBits, Held(w)) = Held(w)
  BY <1>6, HeldString, ConcatNothing
<1> QED BY <1>2, <1>5, <1>7, <1>9, <1>10 DEF v

LEMMA AllWordsHold ==
  ASSUME mem \subseteq Nat, stop \in Nat
  PROVE  LET h == words_for(stop)
         IN  /\ EndsOK(0, h, EmptyWordBits)
             /\ Everything(NoBits, 0, h, EmptyWordBits, NoBits) = Shown(0, h * WordSize)
<1> DEFINE h == words_for(stop)
<1>1. h \in Nat /\ 0 * WordSize = 0
  BY WordsForBounds, WordSizeType
<1> HIDE DEF h
<1>2. EndsOK(0, h, EmptyWordBits)
  BY <1>1, EmptyIs DEF EndsOK
<1>3. IsBitString(Shown(0, h * WordSize))
  BY <1>1, ShownWords
<1>4. Everything(NoBits, 0, h, EmptyWordBits, NoBits) = Concat(Shown(0, h * WordSize), NoBits)
  BY <1>1, <1>2, EmptyIs, EverythingNew
<1>5. Concat(Shown(0, h * WordSize), NoBits) = Shown(0, h * WordSize)
  BY <1>3, ConcatNothing
<1> QED BY <1>2, <1>4, <1>5 DEF h

(* The last word of a heap list: the bits from its boundary to the end.    *)
LEMMA LastWordIs ==
  ASSUME stop \in Nat, stop > 0
  PROVE  LET k == words_for(stop) - 1
             c == IF bit_in_word_index(stop) = 0 THEN WordSize ELSE bit_in_word_index(stop)
         IN  /\ k \in Nat /\ k * WordSize \in Nat /\ c \in 1 .. WordSize
             /\ k * WordSize + c = stop
<1> DEFINE q == word_index(stop)
           b == bit_in_word_index(stop)
           k == words_for(stop) - 1
<1>1. q \in Nat /\ b \in 0 .. (WordSize - 1) /\ stop = q * WordSize + b
  BY IndexSplit
<1>2. words_for(stop) = q + (IF b # 0 THEN 1 ELSE 0)
  BY DEF words_for
<1>3. words_for(stop) \in Nat /\ words_for(stop) > 0
  BY WordsForPositive
<1> HIDE DEF q, b
<1>4. k \in Nat
  BY <1>3
<1>5. CASE b = 0
  <2>1. k = q - 1
    BY <1>1, <1>2, <1>5
  <2>2. k * WordSize = q * WordSize - WordSize
    BY <1>1, <2>1, TimesNext, WordSizeType
  <2>3. k * WordSize \in Nat
    BY <1>4, WordBase
  <2> HIDE DEF k
  <2> QED BY <1>1, <1>4, <1>5, <2>2, <2>3, WordSizeType DEF b, k
<1>6. CASE b # 0
  <2>1. k = q
    BY <1>1, <1>2, <1>6
  <2>2. k * WordSize \in Nat
    BY <1>4, WordBase
  <2> HIDE DEF k
  <2> QED BY <1>1, <1>4, <1>6, <2>1, <2>2, WordSizeType DEF b, k
<1> QED BY <1>5, <1>6

LEMMA WordsAndLastHold ==
  ASSUME mem \subseteq Nat, stop \in Nat, stop > 0
  PROVE  LET h == words_for(stop) - 1
             w == WordBits(WordAt(mem, h),
                           IF bit_in_word_index(stop) = 0 THEN WordSize
                                                          ELSE bit_in_word_index(stop))
         IN  EndsOK(0, h, w) /\ Everything(NoBits, 0, h, w, NoBits) = Shown(0, stop)
<1> DEFINE h == words_for(stop) - 1
           c == IF bit_in_word_index(stop) = 0 THEN WordSize ELSE bit_in_word_index(stop)
           s == h * WordSize
           w == WordBits(WordAt(mem, h), c)
<1>1. h \in Nat /\ s \in Nat /\ c \in 1 .. WordSize /\ s + c = stop
  BY LastWordIs
<1>2. \A x \in Bit : x \in WordAt(mem, h) <=> s + x \in mem
  BY <1>1, WordBitsAt
<1> HIDE DEF h, c
<1>3. 0 * WordSize = 0 /\ WordSize \in Nat
  BY WordSizeType
<1>4. w.count \in 0 .. WordSize /\ w.count = c
  BY <1>1, <1>3, WordFields
<1>5. EndsOK(0, h, w)
  BY <1>1, <1>4 DEF EndsOK
<1>6. Everything(NoBits, 0, h, w, NoBits) = Concat(Shown(0, s), Held(w))
  BY <1>3, <1>5, EverythingNew
<1> HIDE DEF s
<1>7. s <= stop /\ stop - s = c /\ stop - s <= WordSize
      /\ \A x \in 0 .. (stop - s - 1) : x \in Bit
  BY <1>1, <1>3 DEF Bit
<1>8. Held(WordBits(WordAt(mem, h), stop - s)) = Shown(s, stop)
  BY <1>1, <1>2, <1>7, HeldShows
<1>9. Concat(Shown(0, s), Shown(s, stop)) = Shown(0, stop)
  BY <1>1, <1>7, ShownConcat
<1> QED BY <1>5, <1>6, <1>7, <1>8, <1>9 DEF h, c

LEMMA WordsInit == ClientInit => WordsIInv
<1> SUFFICES ASSUME ClientInit, client \in {"word_bits", "raw_words"} PROVE WordsIInv
  BY DEF WordsIInv
<1>1. /\ base \in {0, 1 + CountBits}
      /\ stop \in base .. (IF base = 0 THEN MemWords * WordSize ELSE WordSize)
      /\ mem \subseteq 0 .. (stop - 1) /\ front = NoBits /\ back = NoBits
  BY DEF ClientInit
<1>2. words = IF client = "word_bits" THEN word_bits_iter ELSE raw_words
  BY DEF ClientInit
<1>3. MemWords * WordSize \in Nat
  BY IterAssumption, WordBase
<1>4. base \in Nat /\ stop \in Nat /\ base <= stop
  BY <1>1, <1>3, BaseIs
<1>5. mem \subseteq Nat
  BY <1>1
<1>6. ASSUME NEW l, NEW h, NEW w, words = Ends(l, h, w), EndsOK(l, h, w),
             Everything(NoBits, l, h, w, NoBits) = Shown(base, WordsEnd)
      PROVE  WordsIInv
  <2>1. words.lo = l /\ words.hi = h /\ words.last = w
    BY <1>6, EndsIs
  <2> QED BY <1>1, <1>4, <1>6, <2>1, NoBitsString DEF WordsIInv
<1>7. CASE base # 0
  <2> DEFINE w == WordBits(Down(WordAt(mem, 0), base), size)
  <2>1. stop \in base .. WordSize
    BY <1>1, <1>7
  <2>2. words = Ends(0, 0, w)
    BY <1>2, <1>7 DEF word_bits_iter, raw_words, Ends
  <2>3. EndsOK(0, 0, w) /\ Everything(NoBits, 0, 0, w, NoBits) = Shown(base, stop)
    BY <1>4, <1>5, <1>7, <2>1, OnlyWordHolds
  <2>4. WordsEnd = stop
    BY <1>7 DEF WordsEnd
  <2> HIDE DEF w
  <2> QED BY <1>6, <2>2, <2>3, <2>4
<1>8. CASE base = 0 /\ (client = "raw_words" \/ stop = 0)
  <2> DEFINE h == words_for(stop)
  <2>1. ~(stop > 0) <=> stop = 0
    BY <1>4
  <2>2. words = Ends(0, h, EmptyWordBits)
    BY <1>2, <1>8, <2>1 DEF word_bits_iter, raw_words, Ends
  <2>3. /\ EndsOK(0, h, EmptyWordBits)
        /\ Everything(NoBits, 0, h, EmptyWordBits, NoBits) = Shown(0, h * WordSize)
    BY <1>4, <1>5, AllWordsHold
  <2>4. WordsEnd = h * WordSize
    <3>1. stop = 0 => h * WordSize = 0
      BY WordsForZero, WordSizeType
    <3> HIDE DEF h
    <3> QED BY <1>8, <3>1 DEF WordsEnd, h
  <2> HIDE DEF h
  <2> QED BY <1>6, <1>8, <2>2, <2>3, <2>4
<1>9. CASE base = 0 /\ client = "word_bits" /\ stop # 0
  <2> DEFINE h == words_for(stop) - 1
             w == WordBits(WordAt(mem, h),
                           IF bit_in_word_index(stop) = 0 THEN WordSize
                                                          ELSE bit_in_word_index(stop))
  <2>1. stop > 0
    BY <1>4, <1>9
  <2>2. words = Ends(0, h, w)
    BY <1>2, <1>9, <2>1 DEF word_bits_iter, Ends
  <2>3. EndsOK(0, h, w) /\ Everything(NoBits, 0, h, w, NoBits) = Shown(0, stop)
    BY <1>4, <1>5, <2>1, WordsAndLastHold
  <2>4. WordsEnd = stop
    BY <1>9 DEF WordsEnd
  <2> HIDE DEF h, w
  <2> QED BY <1>6, <1>9, <2>2, <2>3, <2>4
<1> QED BY <1>7, <1>8, <1>9

LEMMA WordsSpec == ClientSpec => []WordsIInv
BY WordsInit, WordsNext, PTL DEF ClientSpec

-----------------------------------------------------------------------------
(* The property. *)

(* The full words as the property writes them. *)
LEMMA LeftIs ==
  ASSUME mem \subseteq Nat, NEW l \in Nat, NEW h \in Nat, l <= h
  PROVE  (IF l < h
          THEN Str((h - l) * WordSize, Down(mem \cap Words(l, h), l * WordSize))
          ELSE NoBits) = Shown(l * WordSize, h * WordSize)
<1> DEFINE s == l * WordSize
           e == h * WordSize
           S == Down(mem \cap Words(l, h), s)
           T == Down(mem \cap 0 .. (e - 1), s)
<1>1. s \in Nat /\ e \in Nat /\ s <= e
  BY ShownWords
<1>2. CASE l = h
  <2>1. Shown(s, e) = NoBits
    BY <1>1, <1>2, ShownNothing
  <2> QED BY <1>2, <2>1
<1>3. CASE l < h
  <2>1. (h - l) * WordSize = e - s
    BY WordSizeType
  <2>2. Words(l, h) = s .. (e - 1)
    BY DEF Words
  <2> HIDE DEF s, e
  <2>3. {j \in mem \cap Words(l, h) : j >= s} = {j \in mem \cap 0 .. (e - 1) : j >= s}
    BY <1>1, <2>2
  <2>4. S = T
    BY <2>3 DEF Down
  <2> HIDE DEF S, T
  <2> QED BY <1>3, <2>1, <2>4 DEF S, T, Shown, s, e
<1> QED BY <1>2, <1>3

(* The words given out from both ends and those still inside are the list, *)
(* each bit once, in whatever order the ends are read (iter.rs:1178-1212); *)
(* behind the list a word given out whole has only zeros.                  *)
THEOREM WordsAreTheList == ClientSpec => []WordsCoverList
<1>1. ASSUME WordsIInv PROVE WordsCoverList
  <2> DEFINE left == IF words.lo < words.hi
                     THEN Str((words.hi - words.lo) * WordSize,
                              Down(mem \cap Words(words.lo, words.hi), words.lo * WordSize))
                     ELSE NoBits
             all == Concat(front, Concat(left, Concat(Held(words.last), back)))
  <2> SUFFICES ASSUME client \in {"word_bits", "raw_words"}
               PROVE  /\ Part(0, size).ones = all.ones
                      /\ client = "word_bits" => all.len = size
                      /\ all.len \in size .. (size + WordSize - 1)
    BY DEF WordsCoverList
  <2>1. /\ base \in Nat /\ stop \in Nat /\ base <= stop /\ mem \subseteq 0 .. (stop - 1)
        /\ EndsOK(words.lo, words.hi, words.last)
        /\ Everything(front, words.lo, words.hi, words.last, back) = Shown(base, WordsEnd)
    BY <1>1 DEF WordsIInv
  <2>2. mem \subseteq Nat
    BY <2>1
  <2>3. left = Shown(words.lo * WordSize, words.hi * WordSize)
    BY <2>1, <2>2, LeftIs DEF EndsOK
  <2>4. all = Shown(base, WordsEnd)
    <3> HIDE DEF left
    <3> QED BY <2>1, <2>3 DEF Everything
  <2> HIDE DEF all
  <2>5. size = stop - base /\ size \in Nat /\ WordSize \in Nat /\ WordSize > 1
    BY <2>1, WordSizeType DEF size
  <2>6. /\ WordsEnd \in Nat /\ stop <= WordsEnd
        /\ WordsEnd - base \in size .. (size + WordSize - 1)
        /\ client = "word_bits" => WordsEnd = stop
    <3>1. CASE client = "raw_words" /\ base = 0
      <4> DEFINE e == words_for(stop) * WordSize
      <4>1. e \in Nat /\ stop <= e /\ e < stop + WordSize
        BY <2>1, WordsForBounds
      <4>2. WordsEnd = e
        BY <3>1 DEF WordsEnd
      <4> HIDE DEF e
      <4> QED BY <2>1, <2>5, <3>1, <4>1, <4>2
    <3>2. CASE ~(client = "raw_words" /\ base = 0)
      <4>1. WordsEnd = stop
        BY <3>2 DEF WordsEnd
      <4> QED BY <2>1, <2>5, <4>1
    <3> QED BY <3>1, <3>2
  <2>7. /\ all.len = WordsEnd - base
        /\ all.ones \subseteq 0 .. (WordsEnd - base - 1)
        /\ \A x \in Int : x \in all.ones <=> x \in 0 .. (WordsEnd - base - 1) /\ base + x \in mem
    BY <2>1, <2>2, <2>4, <2>6, ShownIs
  <2> DEFINE O == Shown(base, stop).ones
  <2>8. /\ O \subseteq 0 .. (stop - base - 1)
        /\ \A x \in Int : x \in O <=> x \in 0 .. (stop - base - 1) /\ base + x \in mem
    BY <2>1, <2>2, ShownIs
  <2>9. Part(0, size) = Shown(base, stop)
    <3>1. size - 0 = stop - base /\ base + size - 0 - 1 = stop - 1 /\ base + 0 = base
          /\ base + size - 1 = stop - 1
      BY <2>1, <2>5
    <3> QED BY <3>1 DEF Part, Shown
  <2> HIDE DEF O
  <2>10. \A x : x \in all.ones <=> x \in O
    <3>1. \A x \in Int : x \in all.ones <=> x \in O
      <4>1. ASSUME NEW x \in Int, base + x \in mem
            PROVE  x \in 0 .. (WordsEnd - base - 1) <=> x \in 0 .. (stop - base - 1)
        BY <2>1, <2>6, <4>1
      <4> QED BY <2>7, <2>8, <4>1
    <3>2. all.ones \subseteq Int /\ O \subseteq Int
      BY <2>7, <2>8
    <3> QED BY <3>1, <3>2
  <2>11. all.ones = O
    BY <2>10
  <2> QED BY <2>5, <2>6, <2>7, <2>9, <2>11 DEF O
<1> QED BY <1>1, WordsSpec, PTL
=============================================================================
