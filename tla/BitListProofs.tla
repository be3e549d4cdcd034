--------------------------- MODULE BitListProofs ---------------------------
(***************************************************************************)
(* For every word size, every bound and every set of arguments, careful    *)
(* owner or not, debug or release: the representation stays well formed;   *)
(* what the calls leave of a list when they fail, the capacity they keep,  *)
(* the bits they leave in memory when it grows within its room; and that   *)
(* they implement the string of bits that BitListSpec promises the owner.  *)
(***************************************************************************)
EXTENDS BitList, BitWordsProofs

(* What every function of the code keeps of a representation; between two  *)
(* calls its length is bounded as well.                                    *)
WellFormed(r) ==
  /\ r \in [kind : {"inline", "heap"}, len : Nat, cap : 0 .. MaxWords, ones : SUBSET Nat]
  /\ r.ones \subseteq 0 .. (r.len - 1)
  /\ r.len <= capacity(r)
  /\ r.kind = "inline" => r.cap = 0

(* An outcome whose representation is well formed. *)
Good(o) ==
  /\ WellFormed(o.rep)
  /\ o.ret \in {"none", "zero", "one", "done", "err"}
  /\ o.end \in {"return", "panic", "abort"}

LEMMA Bounds ==
  /\ MaxLen \in Nat
  /\ MaxWords \in Nat
  /\ \A b \in Operands : b.len \in Nat /\ b.ones \subseteq 0 .. (b.len - 1)
                        /\ b = Str(b.len, b.ones)
  /\ Positions \subseteq Nat
  /\ Reserves \subseteq Nat
  /\ Repeats \subseteq Nat
BY BoundAssumption DEF IsBitString

-----------------------------------------------------------------------------
(* Building representations. *)

LEMMA InlineWellFormed ==
  ASSUME NEW n \in Nat, n <= DATA_BITS, NEW s, s \subseteq 0 .. (n - 1)
  PROVE  WellFormed(Inline(n, s)) /\ Inline(n, s).len = n
BY Bounds, DataBitsType DEF WellFormed, Inline, capacity

LEMMA MaskedWellFormed ==
  ASSUME NEW n \in Nat, n <= DATA_BITS, NEW s
  PROVE  WellFormed(new_masked(s, n)) /\ new_masked(s, n).len = n
BY InlineWellFormed DEF new_masked

LEMMA HeapWellFormed ==
  ASSUME NEW n \in Nat, NEW c \in 0 .. MaxWords, n <= c * WordSize, NEW m,
         m \cap Words(0, words_for(n)) \subseteq 0 .. (n - 1)
  PROVE  WellFormed(Heap(n, c, m))
<1>1. m \cap Words(0, words_for(n)) \in SUBSET Nat
  OBVIOUS
<1> QED BY <1>1, Bounds DEF WellFormed, Heap, capacity

(* The bits of the last word that lie beyond the length. *)
LEMMA LastBitsRange ==
  ASSUME NEW n \in Nat, n > 0
  PROVE  /\ words_for(n) * WordSize \in Nat
         /\ (words_for(n) - 1) * WordSize \in Nat
         /\ (words_for(n) - 1) * WordSize < n
         /\ LastBits(n) = ((words_for(n) - 1) * WordSize) .. (n - 1)
         /\ Word(words_for(n) - 1)
              = ((words_for(n) - 1) * WordSize) .. (words_for(n) * WordSize - 1)
         /\ Words(0, words_for(n)) = 0 .. (words_for(n) * WordSize - 1)
<1>1. words_for(n) \in Nat /\ words_for(n) > 0
  BY WordsForPositive
<1>2. words_for(n) * WordSize < n + WordSize /\ words_for(n) * WordSize \in Nat
  BY WordsForBounds
<1>3. (words_for(n) - 1) * WordSize = words_for(n) * WordSize - WordSize
  BY <1>1, TimesNext, WordSizeType
<1>4. 0 * WordSize <= (words_for(n) - 1) * WordSize /\ 0 * WordSize = 0
  BY <1>1, TimesMono, WordSizeType
<1>5. words_for(n) - 1 + 1 = words_for(n)
  BY <1>1
<1>6. LastBits(n) = ((words_for(n) - 1) * WordSize) .. (n - 1)
  BY LastWordMask DEF LastBits
<1>7. Word(words_for(n) - 1)
        = ((words_for(n) - 1) * WordSize) .. (words_for(n) * WordSize - 1)
  BY <1>5 DEF Word
<1>8. Words(0, words_for(n)) = 0 .. (words_for(n) * WordSize - 1)
  BY <1>4 DEF Words
<1> QED BY <1>1, <1>2, <1>3, <1>4, <1>6, <1>7, <1>8, WordSizeType

(* Outside its last word, a memory of n bits has only bits below n. *)
LEMMA BelowLastWord ==
  ASSUME NEW n \in Nat, n > 0,
         NEW x \in Words(0, words_for(n)), x \notin Word(words_for(n) - 1) \/ x \in LastBits(n)
  PROVE  x \in 0 .. (n - 1)
<1> DEFINE lo == (words_for(n) - 1) * WordSize
           hi == words_for(n) * WordSize
<1>1. /\ lo \in Nat /\ hi \in Nat /\ lo < n
      /\ LastBits(n) = lo .. (n - 1)
      /\ Word(words_for(n) - 1) = lo .. (hi - 1)
      /\ Words(0, words_for(n)) = 0 .. (hi - 1)
  BY LastBitsRange
<1> HIDE DEF lo, hi
<1>2. CASE x \notin Word(words_for(n) - 1)
  BY <1>1, <1>2
<1>3. CASE x \in LastBits(n)
  BY <1>1, <1>3
<1> QED BY <1>2, <1>3

LEMMA MaskLastInside ==
  ASSUME NEW n \in Nat, n > 0, NEW m
  PROVE  MaskLast(m, n) \cap Words(0, words_for(n)) \subseteq 0 .. (n - 1)
BY BelowLastWord DEF MaskLast

(* The parts of the operators of BitList that write memory. *)
LEMMA ShrinkInside ==
  ASSUME NEW n \in Nat, n > 0, NEW s
  PROVE  ((s \ Word(words_for(n) - 1)) \cup LastBits(n)) \cap Words(0, words_for(n))
           \subseteq 0 .. (n - 1)
BY BelowLastWord

(* Appended memory before the copy: the old bits, and nothing in the last  *)
(* word if that is a new one.                                              *)
LEMMA ClearedInside ==
  ASSUME NEW m \in Nat, NEW n \in Nat, m <= n, NEW s, s \subseteq 0 .. (m - 1), NEW g
  PROVE  (IF words_for(m) # words_for(n)
          THEN (s \cup g) \ Word(words_for(n) - 1) ELSE s) \cap Words(0, words_for(n))
           \subseteq 0 .. (n - 1)
<1>1. CASE words_for(m) # words_for(n)
  <2>1. n > 0
    BY <1>1
  <2>2. SUFFICES ASSUME NEW x \in Words(0, words_for(n)), x \notin Word(words_for(n) - 1)
                 PROVE  x \in 0 .. (n - 1)
    BY <1>1
  <2> QED BY <2>1, <2>2, BelowLastWord
<1>2. CASE words_for(m) = words_for(n)
  <2>1. 0 .. (m - 1) \subseteq 0 .. (n - 1)
    OBVIOUS
  <2> QED BY <1>2, <2>1
<1> QED BY <1>1, <1>2

LEMMA CopyInside ==
  ASSUME NEW m \in Nat, NEW b, b.len \in Nat, b.ones \subseteq 0 .. (b.len - 1),
         NEW d, NEW w, d \cap w \subseteq 0 .. (m + b.len - 1)
  PROVE  copy_bits(d, m, b) \cap w \subseteq 0 .. (m + b.len - 1)
BY DEF copy_bits, Up

LEMMA FillInside ==
  ASSUME NEW m \in Nat, NEW k \in Nat, NEW v \in BOOLEAN,
         NEW d, NEW w, d \cap w \subseteq 0 .. (m + k - 1)
  PROVE  fill_bits(d, m, k, v) \cap w \subseteq 0 .. (m + k - 1)
BY DEF fill_bits

-----------------------------------------------------------------------------
(* Outcomes. *)

LEMMA GoodOutcomes ==
  ASSUME NEW r, WellFormed(r), NEW x \in {"none", "zero", "one", "done", "err"}
  PROVE  Good(Returns(r, x)) /\ Good(Panics(r)) /\ Good(Aborts(r))
BY DEF Good, Returns, Panics, Aborts

LEMMA Fields ==
  ASSUME NEW r, NEW x
  PROVE  /\ Returns(r, x).rep = r /\ Returns(r, x).ret = x /\ Returns(r, x).end = "return"
         /\ Panics(r).rep = r /\ Panics(r).end = "panic" /\ Panics(r).ret = "none"
         /\ Aborts(r).rep = r /\ Aborts(r).end = "abort" /\ Aborts(r).ret = "none"
BY DEF Returns, Panics, Aborts

(* What stops an inner call is good, and so is what it goes on with.       *)
LEMMA Split ==
  ASSUME NEW S, \A o \in S : Good(o)
  PROVE  /\ \A o \in Stopped(S) : Good(o)
         /\ \A q \in Onward(S) : WellFormed(q)
         /\ \A q \in Onward(S) : \E o \in S : o.rep = q /\ o.end = "return"
BY DEF Stopped, Onward, Good

LEMMA UnwrappedGood ==
  ASSUME NEW S, \A o \in S : Good(o)
  PROVE  /\ \A o \in Unwrapped(S) : Good(o)
         /\ \A o \in Unwrapped(S) : o.end = "return" => o \in S /\ o.ret # "err"
<1> SUFFICES ASSUME NEW o \in S,
                    NEW p, p = IF o.end = "return" /\ o.ret = "err" THEN Panics(o.rep) ELSE o
             PROVE  Good(p) /\ (p.end = "return" => p \in S /\ p.ret # "err")
  BY DEF Unwrapped
<1>1. CASE o.end = "return" /\ o.ret = "err"
  BY <1>1, GoodOutcomes, Fields DEF Good
<1>2. CASE ~(o.end = "return" /\ o.ret = "err")
  BY <1>2
<1> QED BY <1>1, <1>2

-----------------------------------------------------------------------------
(* Constructors. *)

LEMMA WithCapacityGood ==
  ASSUME NEW r, WellFormed(r), NEW n \in Nat, NEW m,
         m \cap Words(0, words_for(n)) \subseteq 0 .. (n - 1)
  PROVE  \A o \in with_capacity(r, n, m) : Good(o) /\ (o.end = "return" => o.rep.len = n)
<1>1. ASSUME NEW c \in {words_for(n)} \cap (0 .. MaxWords)
      PROVE  WellFormed(Heap(n, c, m)) /\ Heap(n, c, m).len = n
  BY WordsForBounds, HeapWellFormed DEF Heap
<1> QED BY <1>1, GoodOutcomes, Fields DEF with_capacity

LEMMA ZerosGood ==
  ASSUME NEW r, WellFormed(r), NEW n \in Nat
  PROVE  \A o \in zeros(r, n) : Good(o) /\ (o.end = "return" => o.rep.len = n)
<1>1. CASE n <= DATA_BITS
  BY <1>1, MaskedWellFormed, GoodOutcomes, Fields DEF zeros
<1>2. CASE ~(n <= DATA_BITS)
  BY <1>2, WithCapacityGood DEF zeros
<1> QED BY <1>1, <1>2

LEMMA OnesGood ==
  ASSUME NEW r, WellFormed(r), NEW n \in Nat
  PROVE  \A o \in ones(r, n) : Good(o) /\ (o.end = "return" => o.rep.len = n)
<1>1. CASE n <= DATA_BITS
  BY <1>1, MaskedWellFormed, GoodOutcomes, Fields DEF ones
<1>2. CASE ~(n <= DATA_BITS)
  <2>1. n > 0
    BY <1>2, DataBitsType
  <2> QED BY <1>2, <2>1, MaskLastInside, WithCapacityGood DEF ones
<1> QED BY <1>1, <1>2

LEMMA FromBitsGood ==
  ASSUME NEW r, WellFormed(r), NEW b, b.len \in Nat, b.ones \subseteq 0 .. (b.len - 1)
  PROVE  \A o \in from_bits(r, b) : Good(o)
<1>1. CASE b.len <= DATA_BITS
  BY <1>1, InlineWellFormed, GoodOutcomes DEF from_bits
<1>2. CASE ~(b.len <= DATA_BITS)
  <2>1. b.len > 0
    BY <1>2, DataBitsType
  <2> QED BY <1>2, <2>1, MaskLastInside, WithCapacityGood DEF from_bits
<1> QED BY <1>1, <1>2

LEMMA WordsGood ==
  ASSUME NEW r, WellFormed(r), NEW b, b.len \in Nat, b.ones \subseteq 0 .. (b.len - 1)
  PROVE  \A o \in words(r, b) : Good(o)
<1>1. WellFormed(NO_BITS)
  BY InlineWellFormed, DataBitsType DEF NO_BITS
<1>2. \A o \in with_capacity(r, b.len, b.ones) : Good(o)
  BY WithCapacityGood
<1> QED BY <1>1, <1>2, GoodOutcomes DEF words

-----------------------------------------------------------------------------
(* Capacity. *)

LEMMA RepType ==
  ASSUME NEW r, WellFormed(r)
  PROVE  /\ r.len \in Nat /\ r.cap \in 0 .. MaxWords /\ r.kind \in {"inline", "heap"}
         /\ r.ones \subseteq 0 .. (r.len - 1)
         /\ r.kind = "inline" => r.len <= DATA_BITS /\ r.cap = 0
         /\ r.kind = "heap" => r.len <= r.cap * WordSize
BY DEF WellFormed, capacity

(* A block may be replaced by one that still holds the list. *)
LEMMA RecapWellFormed ==
  ASSUME NEW r, WellFormed(r), r.kind = "heap", NEW c \in 0 .. MaxWords, r.len <= c * WordSize
  PROVE  /\ WellFormed([r EXCEPT !.cap = c])
         /\ [r EXCEPT !.cap = c].len = r.len
         /\ [r EXCEPT !.cap = c].kind = "heap"
         /\ [r EXCEPT !.cap = c].cap = c
BY DEF WellFormed, capacity

LEMMA TryEnsureGood ==
  ASSUME NEW r, WellFormed(r), r.kind = "heap", NEW n \in Nat
  PROVE  \A o \in try_ensure_capacity(r, n) :
           /\ Good(o)
           /\ o.end = "return" /\ o.ret # "err" =>
                n <= capacity(o.rep) /\ o.rep.len = r.len /\ o.rep.kind = "heap"
<1>1. CASE n <= r.cap * WordSize
  <2>1. n <= capacity(r)
    BY <1>1 DEF capacity
  <2> QED BY <1>1, <2>1, GoodOutcomes, Fields DEF try_ensure_capacity
<1>2. CASE ~(n <= r.cap * WordSize) /\ DebugBuild /\ r.len = 0
  BY <1>2, GoodOutcomes, Fields DEF try_ensure_capacity
<1>3. CASE ~(n <= r.cap * WordSize) /\ ~(DebugBuild /\ r.len = 0)
  <2>1. ASSUME NEW c \in words_for(n) .. MaxWords
        PROVE  /\ WellFormed([r EXCEPT !.cap = c])
               /\ [r EXCEPT !.cap = c].len = r.len
               /\ [r EXCEPT !.cap = c].kind = "heap"
               /\ n <= capacity([r EXCEPT !.cap = c])
    <3>1. c \in 0 .. MaxWords /\ c \in Nat /\ words_for(n) <= c
      BY <2>1, WordsForBounds, Bounds
    <3>2. n <= c * WordSize
      BY <3>1, WordsForLeast
    <3>3. c * WordSize \in Int /\ r.cap * WordSize \in Int /\ r.len \in Nat
          /\ r.len <= r.cap * WordSize
      BY <3>1, RepType, TimesNext, WordSizeType, Bounds
    <3>4. r.len <= c * WordSize
      BY <1>3, <3>2, <3>3
    <3> QED BY <3>1, <3>2, <3>4, RecapWellFormed DEF capacity
  <2>2. SUFFICES ASSUME NEW o \in {Returns(r, "err")} \cup
                     {Returns([r EXCEPT !.cap = c], "done") : c \in words_for(n) .. MaxWords}
                 PROVE  /\ Good(o)
                        /\ o.end = "return" /\ o.ret # "err" =>
                             n <= capacity(o.rep) /\ o.rep.len = r.len /\ o.rep.kind = "heap"
    BY <1>3 DEF try_ensure_capacity
  <2>3. CASE o = Returns(r, "err")
    BY <2>3, GoodOutcomes, Fields
  <2>4. ASSUME NEW c \in words_for(n) .. MaxWords, o = Returns([r EXCEPT !.cap = c], "done")
        PROVE  /\ Good(o)
               /\ o.end = "return" /\ o.ret # "err" =>
                    n <= capacity(o.rep) /\ o.rep.len = r.len /\ o.rep.kind = "heap"
    <3> DEFINE q == [r EXCEPT !.cap = c]
    <3>1. WellFormed(q) /\ q.len = r.len /\ q.kind = "heap" /\ n <= capacity(q)
      BY <2>1
    <3>2. o = Returns(q, "done")
      BY <2>4
    <3> HIDE DEF q
    <3> QED BY <3>1, <3>2, GoodOutcomes, Fields
  <2>5. \/ o = Returns(r, "err")
        \/ \E c \in words_for(n) .. MaxWords : o = Returns([r EXCEPT !.cap = c], "done")
    BY <2>2, Zenon
  <2> QED BY <2>3, <2>4, <2>5, Zenon
<1> QED BY <1>1, <1>2, <1>3

LEMMA TryReserveGood ==
  ASSUME NEW r, WellFormed(r), NEW k \in Nat
  PROVE  \A o \in try_reserve(r, k) :
           /\ Good(o)
           /\ o.end = "return" /\ o.ret # "err" =>
                r.len + k <= capacity(o.rep) /\ o.rep.len = r.len
<1> DEFINE n == r.len + k
<1>0. n \in Nat /\ r.len \in Nat /\ r.len <= n
  BY RepType
<1>1. CASE n > UsizeMax
  BY <1>1, GoodOutcomes, Fields DEF try_reserve
<1>2. CASE ~(n > UsizeMax) /\ r.kind = "heap"
  <2>1. try_reserve(r, k) = try_ensure_capacity(r, n)
    BY <1>2 DEF try_reserve
  <2> HIDE DEF n
  <2> QED BY <1>0, <1>2, <2>1, TryEnsureGood DEF n
<1>3. CASE ~(n > UsizeMax) /\ r.kind # "heap" /\ n <= DATA_BITS
  <2>1. capacity(r) = DATA_BITS
    BY <1>3, RepType DEF capacity
  <2> QED BY <1>3, <2>1, GoodOutcomes, Fields DEF try_reserve
<1>4. CASE ~(n > UsizeMax) /\ r.kind # "heap" /\ ~(n <= DATA_BITS)
  <2>1. SUFFICES ASSUME NEW o \in {Returns(r, "err")} \cup
                     {Returns(Heap(r.len, c, r.ones), "done") :
                        c \in {words_for(n)} \cap (0 .. MaxWords)}
                 PROVE  /\ Good(o)
                        /\ o.end = "return" /\ o.ret # "err" =>
                             n <= capacity(o.rep) /\ o.rep.len = r.len
    BY <1>4 DEF try_reserve
  <2>2. CASE o = Returns(r, "err")
    BY <2>2, GoodOutcomes, Fields
  <2>3. ASSUME NEW c \in {words_for(n)} \cap (0 .. MaxWords), o = Returns(Heap(r.len, c, r.ones), "done")
        PROVE  /\ Good(o)
               /\ o.end = "return" /\ o.ret # "err" =>
                    n <= capacity(o.rep) /\ o.rep.len = r.len
    <3>1. c = words_for(n) /\ c \in 0 .. MaxWords
      BY <2>3
    <3>2. n <= c * WordSize /\ c * WordSize \in Nat
      BY <1>0, <3>1, WordsForBounds
    <3>3. r.len <= c * WordSize /\ r.ones \subseteq 0 .. (r.len - 1)
      BY <1>0, <3>2, RepType
    <3>4. WellFormed(Heap(r.len, c, r.ones))
      BY <1>0, <3>1, <3>3, HeapWellFormed
    <3>5. capacity(Heap(r.len, c, r.ones)) = c * WordSize /\ Heap(r.len, c, r.ones).len = r.len
      BY DEF capacity, Heap
    <3> QED BY <2>3, <3>2, <3>4, <3>5, GoodOutcomes, Fields
  <2> QED BY <2>1, <2>2, <2>3
<1> QED BY <1>1, <1>2, <1>3, <1>4

(* When reserve returns, there is room. *)
LEMMA ReserveGood ==
  ASSUME NEW r, WellFormed(r), NEW k \in Nat
  PROVE  \A o \in reserve(r, k) :
           /\ Good(o)
           /\ o.end = "return" => r.len + k <= capacity(o.rep) /\ o.rep.len = r.len
BY TryReserveGood, UnwrappedGood DEF reserve

LEMMA ClearGood ==
  ASSUME NEW r, WellFormed(r)
  PROVE  \A o \in clear(r) : Good(o)
<1>1. WellFormed(NO_BITS)
  BY InlineWellFormed, DataBitsType DEF NO_BITS
<1>2. ASSUME r.kind # "inline" PROVE WellFormed(Heap(0, r.cap, r.ones))
  <2>1. r.cap \in 0 .. MaxWords /\ 0 <= r.cap * WordSize
    <3>1. r.cap * WordSize \in Int
      BY RepType, TimesNext, WordSizeType, Bounds
    <3> QED BY <1>2, <3>1, RepType
  <2>2. Words(0, words_for(0)) = {}
    BY WordsForZero, WordSizeType DEF Words
  <2> QED BY <2>1, <2>2, HeapWellFormed
<1> QED BY <1>1, <1>2, GoodOutcomes DEF clear

-----------------------------------------------------------------------------
(* Length. *)

(* The data may be rewritten within the length. *)
LEMMA RewriteWellFormed ==
  ASSUME NEW r, WellFormed(r), NEW s, s \subseteq 0 .. (r.len - 1)
  PROVE  WellFormed([r EXCEPT !.ones = s]) /\ WellFormed(Written(r, s))
<1>1. s \in SUBSET Nat
  BY RepType
<1> QED BY <1>1 DEF WellFormed, capacity, Written

LEMMA ResizeInlineGood ==
  ASSUME NEW r, WellFormed(r), r.kind = "inline", NEW n \in Nat, n > 0, NEW fill \in BOOLEAN
  PROVE  \A o \in ResizeInline(r, n, fill) : Good(o)
<1> DEFINE data == IF fill THEN r.ones \cup (Bit \ (0 .. (r.len - 1))) ELSE r.ones
           first == IF n < WordSize THEN data \cap last_word_mask(n) ELSE data
           built == IF fill THEN ones(r, n) ELSE zeros(r, n)
<1>1. CASE n <= DATA_BITS
  <2>1. ResizeInline(r, n, fill) = {Returns(new_masked(data, n), "done")}
    BY <1>1 DEF ResizeInline
  <2> HIDE DEF data
  <2> QED BY <1>1, <2>1, MaskedWellFormed, GoodOutcomes
<1>2. CASE ~(n <= DATA_BITS)
  <2>1. first \subseteq 0 .. (n - 1)
    <3>1. CASE n < WordSize
      BY <3>1, SmallMask
    <3>2. CASE ~(n < WordSize)
      <4>1. 0 .. (r.len - 1) \subseteq 0 .. (n - 1) /\ Bit \subseteq 0 .. (n - 1)
        BY <3>2, RepType, DataBitsType, WordSizeType DEF Bit
      <4>2. data \subseteq 0 .. (n - 1)
        BY <4>1, RepType
      <4> QED BY <3>2, <4>2
    <3> QED BY <3>1, <3>2
  <2>2. \A o \in built : Good(o) /\ (o.end = "return" => o.rep.len = n)
    BY ZerosGood, OnesGood
  <2>3. ResizeInline(r, n, fill) =
          {IF o.end = "return"
           THEN Returns([o.rep EXCEPT !.ones = (@ \ Word(0)) \cup first], "done") ELSE o :
             o \in built}
    BY <1>2 DEF ResizeInline
  <2> HIDE DEF first, built, data
  <2>4. ASSUME NEW o \in built, o.end = "return"
        PROVE  WellFormed([o.rep EXCEPT !.ones = (@ \ Word(0)) \cup first])
    <3>1. WellFormed(o.rep) /\ o.rep.len = n
      BY <2>2, <2>4 DEF Good
    <3>2. (o.rep.ones \ Word(0)) \cup first \subseteq 0 .. (o.rep.len - 1)
      BY <2>1, <3>1, RepType
    <3> QED BY <3>1, <3>2, RewriteWellFormed
  <2> QED BY <2>2, <2>3, <2>4, GoodOutcomes
<1> QED BY <1>1, <1>2

LEMMA GrowHeapWellFormed ==
  ASSUME NEW q, WellFormed(q), q.kind = "heap", NEW n \in Nat, n > 0, n <= capacity(q),
         NEW fill \in BOOLEAN
  PROVE  WellFormed(GrowHeap(q, n, fill))
<1>1. q.cap \in 0 .. MaxWords /\ n <= q.cap * WordSize
  BY RepType DEF capacity
<1> QED BY <1>1, MaskLastInside, HeapWellFormed DEF GrowHeap

LEMMA ShrinkHeapWellFormed ==
  ASSUME NEW q, WellFormed(q), q.kind = "heap", NEW n \in Nat, n > 0, n <= q.len
  PROVE  WellFormed(ShrinkHeap(q, n))
<1>1. q.cap \in 0 .. MaxWords /\ n <= q.cap * WordSize
  <2>1. q.cap * WordSize \in Int
    BY RepType, TimesNext, WordSizeType, Bounds
  <2> QED BY <2>1, RepType
<1> QED BY <1>1, ShrinkInside, HeapWellFormed DEF ShrinkHeap

LEMMA ResizeHeapGood ==
  ASSUME NEW r, WellFormed(r), r.kind = "heap", NEW n \in Nat, n > 0, NEW fill \in BOOLEAN
  PROVE  \A o \in ResizeHeap(r, n, fill) : Good(o)
<1> DEFINE room == Unwrapped(try_ensure_capacity(r, n))
<1>1. CASE r.len >= n
  <2>1. WellFormed(ShrinkHeap(r, n))
    BY <1>1, RepType, ShrinkHeapWellFormed
  <2> QED BY <1>1, <2>1, GoodOutcomes DEF ResizeHeap
<1>2. CASE ~(r.len >= n)
  <2>1. ResizeHeap(r, n, fill) =
          Stopped(room) \cup {Returns(GrowHeap(q, n, fill), "done") : q \in Onward(room)}
    BY <1>2 DEF ResizeHeap
  <2>2. \A o \in room : /\ Good(o)
                        /\ o.end = "return" => n <= capacity(o.rep) /\ o.rep.kind = "heap"
    BY TryEnsureGood, UnwrappedGood
  <2> HIDE DEF room
  <2>3. ASSUME NEW q \in Onward(room) PROVE WellFormed(GrowHeap(q, n, fill))
    <3>1. WellFormed(q) /\ n <= capacity(q) /\ q.kind = "heap"
      BY <2>2, Split
    <3> QED BY <3>1, GrowHeapWellFormed
  <2>4. \A o \in Stopped(room) : Good(o)
    BY <2>2, Split
  <2> QED BY <2>1, <2>3, <2>4, GoodOutcomes
<1> QED BY <1>1, <1>2

LEMMA ResizeGood ==
  ASSUME NEW r, WellFormed(r), NEW n \in Nat, NEW f
  PROVE  \A o \in resize(r, n, f) : Good(o)
<1>0. FillBit(r, f) \in BOOLEAN
  BY DEF FillBit
<1>1. CASE n = 0
  BY <1>1, ClearGood DEF resize
<1>2. CASE n # 0 /\ r.kind = "inline"
  <2>1. n > 0 /\ resize(r, n, f) = ResizeInline(r, n, FillBit(r, f))
    BY <1>2 DEF resize
  <2> QED BY <1>0, <1>2, <2>1, ResizeInlineGood
<1>3. CASE n # 0 /\ r.kind # "inline"
  <2>1. n > 0 /\ r.kind = "heap" /\ resize(r, n, f) = ResizeHeap(r, n, FillBit(r, f))
    BY <1>3, RepType DEF resize
  <2> QED BY <1>0, <1>3, <2>1, ResizeHeapGood
<1> QED BY <1>1, <1>2, <1>3

LEMMA TruncateGood ==
  ASSUME NEW r, WellFormed(r), NEW n \in Nat
  PROVE  \A o \in truncate(r, n) : Good(o)
BY ResizeGood, GoodOutcomes DEF truncate

LEMMA ShrinkToFitGood ==
  ASSUME NEW r, WellFormed(r)
  PROVE  \A o \in shrink_to_fit(r) : Good(o)
<1>1. CASE r.kind = "inline"
  BY <1>1, GoodOutcomes DEF shrink_to_fit
<1>2. CASE r.kind # "inline" /\ r.len <= DATA_BITS
  <2>1. WellFormed(Inline(r.len, r.ones))
    BY <1>2, RepType, InlineWellFormed
  <2> QED BY <1>2, <2>1, GoodOutcomes DEF shrink_to_fit
<1>3. CASE r.kind # "inline" /\ ~(r.len <= DATA_BITS)
  <2>1. ASSUME NEW c \in words_for(r.len) .. r.cap PROVE WellFormed([r EXCEPT !.cap = c])
    <3>1. c \in 0 .. MaxWords /\ c \in Nat /\ words_for(r.len) <= c
      BY <2>1, RepType, WordsForBounds, Bounds
    <3>2. r.len <= c * WordSize
      BY <3>1, RepType, WordsForLeast
    <3> QED BY <1>3, <3>1, <3>2, RepType, RecapWellFormed
  <2> QED BY <1>3, <2>1, GoodOutcomes DEF shrink_to_fit
<1> QED BY <1>1, <1>2, <1>3

-----------------------------------------------------------------------------
(* Appending and removing at the end. *)

(* Both ways of appending to a list that has room for the result. *)
LEMMA AppendedGood ==
  ASSUME NEW r, WellFormed(r), NEW b, b.len \in Nat, b.ones \subseteq 0 .. (b.len - 1),
         r.len + b.len <= capacity(r)
  PROVE  \A q \in Appended(r, b) : WellFormed(q)
<1> DEFINE n == r.len + b.len
           cleared(g) == IF words_for(r.len) # words_for(n)
                         THEN (r.ones \cup g) \ Word(words_for(n) - 1) ELSE r.ones
<1>0. n \in Nat /\ r.len \in Nat /\ r.len <= n /\ r.ones \subseteq 0 .. (r.len - 1)
  BY RepType
<1>1. CASE r.kind = "inline"
  <2>1. n <= DATA_BITS
    BY <1>1 DEF capacity
  <2>2. r.ones \cup Up(b.ones, r.len) \subseteq 0 .. (n - 1)
    BY <1>0 DEF Up
  <2>3. Appended(r, b) = {Inline(n, r.ones \cup Up(b.ones, r.len))}
    BY <1>1 DEF Appended
  <2> HIDE DEF n
  <2> QED BY <1>0, <2>1, <2>2, <2>3, InlineWellFormed
<1>2. CASE r.kind # "inline"
  <2>1. n <= r.cap * WordSize /\ r.cap \in 0 .. MaxWords
    BY <1>2, RepType DEF capacity
  <2>2. ASSUME NEW g
        PROVE  copy_bits(cleared(g), r.len, b) \cap Words(0, words_for(n)) \subseteq 0 .. (n - 1)
    <3>1. cleared(g) \cap Words(0, words_for(n)) \subseteq 0 .. (n - 1)
      <4> HIDE DEF n
      <4> QED BY <1>0, ClearedInside
    <3> HIDE DEF cleared
    <3> QED BY <1>0, <3>1, CopyInside
  <2>3. Appended(r, b) =
          {Heap(n, r.cap, copy_bits(cleared(g), r.len, b)) : g \in Garbage(r.len, n)}
    BY <1>2 DEF Appended
  <2> HIDE DEF n, cleared
  <2> QED BY <1>0, <2>1, <2>2, <2>3, HeapWellFormed
<1> QED BY <1>1, <1>2

LEMMA AppendedManyGood ==
  ASSUME NEW r, WellFormed(r), NEW v \in BOOLEAN, NEW k \in Nat, r.len + k <= capacity(r)
  PROVE  \A q \in AppendedMany(r, v, k) : WellFormed(q)
<1> DEFINE n == r.len + k
           cleared(g) == IF words_for(r.len) # words_for(n)
                         THEN (r.ones \cup g) \ Word(words_for(n) - 1) ELSE r.ones
<1>0. n \in Nat /\ r.len \in Nat /\ r.len <= n /\ r.ones \subseteq 0 .. (r.len - 1)
  BY RepType
<1>1. CASE r.kind = "inline"
  <2>1. n <= DATA_BITS
    BY <1>1 DEF capacity
  <2>2. AppendedMany(r, v, k) = {new_masked(r.ones \cup (Bit \ (0 .. (r.len - 1))), n)}
    BY <1>1 DEF AppendedMany
  <2> HIDE DEF n
  <2> QED BY <1>0, <2>1, <2>2, MaskedWellFormed
<1>2. CASE r.kind # "inline"
  <2>1. n <= r.cap * WordSize /\ r.cap \in 0 .. MaxWords
    BY <1>2, RepType DEF capacity
  <2>2. ASSUME NEW g
        PROVE  fill_bits(cleared(g), r.len, k, v) \cap Words(0, words_for(n)) \subseteq 0 .. (n - 1)
    <3>1. cleared(g) \cap Words(0, words_for(n)) \subseteq 0 .. (n - 1)
      <4> HIDE DEF n
      <4> QED BY <1>0, ClearedInside
    <3> HIDE DEF cleared
    <3> QED BY <1>0, <3>1, FillInside
  <2>3. AppendedMany(r, v, k) =
          {Heap(n, r.cap, fill_bits(cleared(g), r.len, k, v)) : g \in Garbage(r.len, n)}
    BY <1>2 DEF AppendedMany
  <2> HIDE DEF n, cleared
  <2> QED BY <1>0, <2>1, <2>2, <2>3, HeapWellFormed
<1> QED BY <1>1, <1>2

LEMMA PushBitsGood ==
  ASSUME NEW r, WellFormed(r), NEW b, b.len \in Nat, b.ones \subseteq 0 .. (b.len - 1)
  PROVE  \A o \in push_bits(r, b) : Good(o)
<1> DEFINE room == reserve(r, b.len)
<1>1. \A o \in room : Good(o) /\ (o.end = "return" => r.len + b.len <= capacity(o.rep)
                                                      /\ o.rep.len = r.len)
  BY ReserveGood
<1>2. push_bits(r, b) = Stopped(room) \cup
        {Returns(q, "done") : q \in UNION {Appended(p, b) : p \in Onward(room)}}
  BY DEF push_bits
<1> HIDE DEF room
<1>3. \A o \in Stopped(room) : Good(o)
  BY <1>1, Split
<1>4. ASSUME NEW p \in Onward(room), NEW q \in Appended(p, b) PROVE WellFormed(q)
  <2>1. WellFormed(p) /\ p.len + b.len <= capacity(p)
    BY <1>1, Split
  <2> QED BY <2>1, <1>4, AppendedGood
<1> QED BY <1>2, <1>3, <1>4, GoodOutcomes

LEMMA PushManyBitsGood ==
  ASSUME NEW r, WellFormed(r), NEW v \in BOOLEAN, NEW k \in Nat
  PROVE  \A o \in push_many_bits(r, v, k) : Good(o)
<1> DEFINE room == reserve(r, k)
<1>1. \A o \in room : Good(o) /\ (o.end = "return" => r.len + k <= capacity(o.rep)
                                                      /\ o.rep.len = r.len)
  BY ReserveGood
<1>2. push_many_bits(r, v, k) = Stopped(room) \cup
        {Returns(q, "done") : q \in UNION {AppendedMany(p, v, k) : p \in Onward(room)}}
  BY DEF push_many_bits
<1> HIDE DEF room
<1>3. \A o \in Stopped(room) : Good(o)
  BY <1>1, Split
<1>4. ASSUME NEW p \in Onward(room), NEW q \in AppendedMany(p, v, k) PROVE WellFormed(q)
  <2>1. WellFormed(p) /\ p.len + k <= capacity(p)
    BY <1>1, Split
  <2> QED BY <2>1, <1>4, AppendedManyGood
<1> QED BY <1>2, <1>3, <1>4, GoodOutcomes

LEMMA PopBitGood ==
  ASSUME NEW r, WellFormed(r)
  PROVE  \A o \in pop_bit(r) : Good(o)
<1>1. CASE r.len = 0
  BY <1>1, GoodOutcomes DEF pop_bit
<1>2. CASE r.len # 0
  <2> DEFINE x == BitAt(Value(r), r.len - 1)
             cut == truncate(r, r.len - 1)
  <2>1. x \in {"none", "zero", "one", "done", "err"}
    BY DEF BitAt
  <2>2. \A o \in cut : Good(o)
    BY <1>2, RepType, TruncateGood
  <2>3. pop_bit(r) = Stopped(cut) \cup {Returns(q, x) : q \in Onward(cut)}
    BY <1>2 DEF pop_bit, Returning
  <2> HIDE DEF x, cut
  <2> QED BY <2>1, <2>2, <2>3, Split, GoodOutcomes
<1> QED BY <1>1, <1>2

-----------------------------------------------------------------------------
(* Copies. *)

LEMMA ValueType ==
  ASSUME NEW r, WellFormed(r)
  PROVE  /\ Value(r).len = r.len /\ Value(r).len \in Nat
         /\ Value(r).ones = r.ones /\ Value(r).ones \subseteq 0 .. (Value(r).len - 1)
BY RepType DEF Value, Str

LEMMA CloneGood ==
  ASSUME NEW r, WellFormed(r)
  PROVE  \A o \in clone(r) : Good(o)
<1>1. ASSUME r.len <= DATA_BITS PROVE WellFormed(Inline(r.len, r.ones))
  BY <1>1, RepType, InlineWellFormed
<1> QED BY <1>1, GoodOutcomes DEF clone

(* The copies of a string that repeat appends. *)
LEMMA ReplicateInside ==
  ASSUME NEW b, b.len \in Nat, b.ones \subseteq 0 .. (b.len - 1), NEW k \in Nat
  PROVE  /\ Replicate(b, k).len \in Nat
         /\ Replicate(b, k).ones \subseteq 0 .. (Replicate(b, k).len - 1)
<1>1. Replicate(b, k).len = b.len * k /\ b.len * k \in Nat
  BY DEF Replicate, Str
<1>2. ASSUME NEW j \in 0 .. (k - 1), NEW i \in b.ones PROVE b.len * j + i \in 0 .. (b.len * k - 1)
  <2>1. b.len * (j + 1) <= b.len * k
    <3>1. k = j + 1 + (k - 1 - j) /\ k - 1 - j \in Nat
      BY <1>2
    <3>2. \A d \in Nat : b.len * (j + 1) <= b.len * (j + 1 + d)
      OBVIOUS
    <3> QED BY <3>1, <3>2
  <2>2. b.len * (j + 1) = b.len * j + b.len /\ b.len * j \in Nat
    BY <1>2
  <2> QED BY <1>1, <2>1, <2>2
<1> QED BY <1>1, <1>2 DEF Replicate, Str

LEMMA RepeatGood ==
  ASSUME NEW r, WellFormed(r), NEW k \in Nat
  PROVE  \A o \in repeat(r, k) : Good(o)
<1> DEFINE more == Replicate(Value(r), k - 1)
<1>1. CASE k = 0
  BY <1>1, ClearGood DEF repeat
<1>2. CASE k # 0
  <2>1. more.len \in Nat /\ more.ones \subseteq 0 .. (more.len - 1)
    BY <1>2, ValueType, ReplicateInside
  <2>2. repeat(r, k) = Stopped(clone(r)) \cup
          (IF more.len > UsizeMax THEN {Panics(r)} ELSE push_bits(r, more))
    BY <1>2 DEF repeat
  <2> HIDE DEF more
  <2>3. \A o \in push_bits(r, more) : Good(o)
    BY <2>1, PushBitsGood
  <2>4. \A o \in Stopped(clone(r)) : Good(o)
    BY CloneGood, Split
  <2> QED BY <2>2, <2>3, <2>4, GoodOutcomes
<1> QED BY <1>1, <1>2

LEMMA ReverseGood ==
  ASSUME NEW r, WellFormed(r)
  PROVE  \A o \in reverse(r) : Good(o)
<1>1. CASE r.kind = "inline"
  BY <1>1, RepType, MaskedWellFormed, GoodOutcomes DEF reverse
<1>2. CASE r.kind # "inline"
  <2> DEFINE b == Mirror(Value(r))
  <2>1. b.len \in Nat /\ b.ones \subseteq 0 .. (b.len - 1)
    BY ValueType DEF Mirror, Str
  <2>2. reverse(r) = from_bits(r, b)
    BY <1>2 DEF reverse
  <2> HIDE DEF b
  <2> QED BY <2>1, <2>2, FromBitsGood
<1> QED BY <1>1, <1>2

-----------------------------------------------------------------------------
(* Writing within the list. *)

LEMMA SetGood ==
  ASSUME NEW r, WellFormed(r), NEW i \in Nat, NEW v \in BOOLEAN
  PROVE  \A o \in set(r, i, v) : Good(o)
<1>1. CASE i >= r.len
  BY <1>1, GoodOutcomes DEF set
<1>2. CASE ~(i >= r.len)
  <2> DEFINE s == IF v THEN r.ones \cup {i} ELSE r.ones \ {i}
  <2>1. s \subseteq 0 .. (r.len - 1)
    BY <1>2, RepType
  <2>2. BitAt(Value(r), i) \in {"none", "zero", "one", "done", "err"}
    BY DEF BitAt
  <2>3. set(r, i, v) = {Returns(Written(r, s), BitAt(Value(r), i))}
    BY <1>2 DEF set
  <2> HIDE DEF s
  <2> QED BY <2>1, <2>2, <2>3, RewriteWellFormed, GoodOutcomes
<1> QED BY <1>1, <1>2

(* A copy and a fill inside a list stay inside it. *)
LEMMA CopyWithin ==
  ASSUME NEW r, WellFormed(r), NEW i \in Nat,
         NEW b, b.len \in Nat, b.ones \subseteq 0 .. (b.len - 1),
         i <= r.len, b.len <= r.len - i
  PROVE  WellFormed(Written(r, copy_bits(r.ones, i, b)))
<1>1. copy_bits(r.ones, i, b) \subseteq 0 .. (r.len - 1)
  BY RepType DEF copy_bits, Up
<1> QED BY <1>1, RewriteWellFormed

LEMMA FillWithin ==
  ASSUME NEW r, WellFormed(r), NEW start \in Nat, NEW stop \in Nat, NEW v \in BOOLEAN,
         start <= stop, stop <= r.len
  PROVE  WellFormed(Written(r, fill_bits(r.ones, start, stop - start, v)))
<1>1. fill_bits(r.ones, start, stop - start, v) \subseteq 0 .. (r.len - 1)
  BY RepType DEF fill_bits
<1> QED BY <1>1, RewriteWellFormed

LEMMA SetRangeGood ==
  ASSUME NEW r, WellFormed(r), NEW i \in Nat,
         NEW b, b.len \in Nat, b.ones \subseteq 0 .. (b.len - 1)
  PROVE  \A o \in set_range(r, i, b) \cup set_bits_at(r, i, b) : Good(o)
<1>1. CASE i > r.len \/ b.len > r.len - i
  BY <1>1, RepType, GoodOutcomes DEF set_range, set_bits_at, is_invalid_range
<1>2. CASE ~(i > r.len \/ b.len > r.len - i)
  <2>1. WellFormed(Written(r, copy_bits(r.ones, i, b)))
    BY <1>2, RepType, CopyWithin
  <2> QED BY <1>2, <2>1, RepType, GoodOutcomes DEF set_range, set_bits_at
<1> QED BY <1>1, <1>2

LEMMA SetRangeFillGood ==
  ASSUME NEW r, WellFormed(r), NEW start \in Nat, NEW stop \in Nat, NEW v \in BOOLEAN
  PROVE  \A o \in set_range_fill(r, start, stop, v) : Good(o)
<1>1. CASE is_invalid_range(start, stop, r.len)
  BY <1>1, GoodOutcomes DEF set_range_fill
<1>2. CASE ~is_invalid_range(start, stop, r.len)
  <2>1. WellFormed(Written(r, fill_bits(r.ones, start, stop - start, v)))
    BY <1>2, RepType, FillWithin DEF is_invalid_range
  <2> QED BY <1>2, <2>1, GoodOutcomes DEF set_range_fill
<1> QED BY <1>1, <1>2

(* The word a length is added up in holds what is left of the sum. *)
LEMMA SumInWord ==
  ASSUME NEW n \in Nat
  PROVE  n % (UsizeMax + 1) \in Nat /\ (~(n > UsizeMax) => n % (UsizeMax + 1) = n)
<1>1. UsizeMax \in Nat
  BY UsizeType, CapacityAssumption, DataBitsType
<1>2. n % (UsizeMax + 1) \in Nat
  BY <1>1, DivSplit
<1>3. ASSUME ~(n > UsizeMax) PROVE n % (UsizeMax + 1) = n
  <2>1. n < UsizeMax + 1 /\ n = 0 * (UsizeMax + 1) + n /\ UsizeMax + 1 \in Nat
    BY <1>1, <1>3
  <2> QED BY <2>1, DivUnique
<1> QED BY <1>2, <1>3

(* An assertion lets an outcome through or makes a panic of it. *)
LEMMA AssertedIs ==
  ASSUME NEW S, NEW n
  PROVE  /\ \A p \in Asserted(S, n) :
              \E o \in S : p = o \/ (o.end = "return" /\ o.rep.len # n /\ p = Panics(o.rep))
         /\ (\A o \in S : o.end = "return" => o.rep.len = n) => Asserted(S, n) = S
BY DEF Asserted

(* Each of the four calls of insert starts from what the one before it     *)
(* left.                                                                   *)
LEMMA InsertGood ==
  ASSUME NEW r, WellFormed(r), NEW start \in Nat, NEW stop \in Nat,
         NEW b, b.len \in Nat, b.ones \subseteq 0 .. (b.len - 1)
  PROVE  \A o \in insert(r, start, stop, b) : Good(o)
<1> DEFINE tail == Drop(Value(r), stop)
           copied == IF tail.len <= DATA_BITS THEN {} ELSE {Aborts(r)}
           total == InsertedLen(r, start, stop, b) % (UsizeMax + 1)
           resized == resize(r, total, "zero")
           cut == Stopped(resized) \cup UNION {truncate(q, start) : q \in Onward(resized)}
           pushed == Stopped(cut) \cup UNION {push_bits(q, b) : q \in Onward(cut)}
           done == Stopped(pushed) \cup UNION {push_bits(q, tail) : q \in Onward(pushed)}
<1>1. CASE is_invalid_range(stop, r.len, r.len)
  BY <1>1, GoodOutcomes DEF insert
<1>2. CASE ~is_invalid_range(stop, r.len, r.len)
  <2>1. \A o \in insert(r, start, stop, b) :
          o \in copied \/ o = Panics(r) \/ o \in Asserted(done, total)
    BY <1>2 DEF insert
  <2>2. tail.len \in Nat /\ tail.ones \subseteq 0 .. (tail.len - 1)
    BY <1>2, ValueType DEF Drop, Str, is_invalid_range
  <2>3. \A o \in copied : Good(o)
    BY GoodOutcomes
  <2>3b. total \in Nat
    BY <2>2, SumInWord DEF InsertedLen
  <2> HIDE DEF tail, copied, total
  <2>4. \A o \in resized : Good(o)
    BY <2>3b, ResizeGood
  <2> HIDE DEF resized
  <2>5. \A o \in cut : Good(o)
    BY <2>4, Split, TruncateGood
  <2> HIDE DEF cut
  <2>6. \A o \in pushed : Good(o)
    BY <2>5, Split, PushBitsGood
  <2> HIDE DEF pushed
  <2>7. \A o \in done : Good(o)
    BY <2>2, <2>6, Split, PushBitsGood
  <2> HIDE DEF done
  <2>8. \A o \in Asserted(done, total) : Good(o)
    <3>1. \A o \in done : Good(Panics(o.rep))
      BY <2>7, Fields DEF Good
    <3> QED BY <2>7, <3>1, AssertedIs
  <2> QED BY <2>1, <2>3, <2>8, GoodOutcomes
<1> QED BY <1>1, <1>2

-----------------------------------------------------------------------------
(* The specification. *)

(* The inductive invariant: what the calls keep, the bound, and out.       *)
IInv ==
  /\ WellFormed(rep)
  /\ rep.len <= MaxLen
  /\ out \in [op : Operations, ret : {"none", "zero", "one", "done", "err"},
              end : {"return", "panic", "abort"}]

LEMMA InitIInv == Init => IInv
<1>1. WellFormed(NO_BITS) /\ NO_BITS.len = 0
  BY InlineWellFormed, DataBitsType DEF NO_BITS
<1> QED BY <1>1, Bounds DEF Init, IInv, Operations

(* What remains to be shown of a call is that its outcomes are good. *)
LEMMA OutcomeIInv ==
  ASSUME NEW op \in Operations, NEW o, Good(o), o.rep.len <= MaxLen,
         rep' = o.rep, out' = [op |-> op, ret |-> o.ret, end |-> o.end]
  PROVE  IInv'
BY DEF Good, IInv, WellFormed, capacity

LEMMA NextIInv == IInv /\ [Next]_vars => IInv'
<1> SUFFICES ASSUME IInv, [Next]_vars PROVE IInv'
  OBVIOUS
<1> USE Bounds, OutcomeIInv DEF Call, Operations
<1>0. WellFormed(rep)
  BY DEF IInv
<1>1. CASE Zeros
  BY <1>0, <1>1, ZerosGood DEF Zeros
<1>2. CASE Ones
  BY <1>0, <1>2, OnesGood DEF Ones
<1>3. CASE FromBits
  BY <1>0, <1>3, FromBitsGood DEF FromBits
<1>4. CASE FromWords
  BY <1>0, <1>4, WordsGood DEF FromWords
<1>5. CASE TryReserve
  BY <1>0, <1>5, TryReserveGood DEF TryReserve
<1>6. CASE Reserve
  BY <1>0, <1>6, ReserveGood DEF Reserve
<1>7. CASE Clear
  BY <1>0, <1>7, ClearGood DEF Clear
<1>8. CASE Resize
  BY <1>0, <1>8, ResizeGood DEF Resize
<1>9. CASE Truncate
  BY <1>0, <1>9, TruncateGood DEF Truncate
<1>10. CASE ShrinkToFit
  BY <1>0, <1>10, ShrinkToFitGood DEF ShrinkToFit
<1>11. CASE PushBits
  BY <1>0, <1>11, PushBitsGood DEF PushBits
<1>12. CASE PushManyBits
  BY <1>0, <1>12, PushManyBitsGood DEF PushManyBits
<1>13. CASE PopBit
  BY <1>0, <1>13, PopBitGood DEF PopBit
<1>14. CASE Repeat
  BY <1>0, <1>14, RepeatGood DEF Repeat
<1>15. CASE Insert
  BY <1>0, <1>15, InsertGood DEF Insert
<1>16. CASE Set
  BY <1>0, <1>16, SetGood DEF Set
<1>17. CASE SetRange
  BY <1>0, <1>17, SetRangeGood DEF SetRange
<1>18. CASE SetBitsAt
  BY <1>0, <1>18, SetRangeGood DEF SetBitsAt
<1>19. CASE SetRangeFill
  BY <1>0, <1>19, SetRangeFillGood DEF SetRangeFill
<1>20. CASE Reverse
  BY <1>0, <1>20, ReverseGood DEF Reverse
<1>21. CASE Clone
  BY <1>0, <1>21, CloneGood DEF Clone
<1>22. CASE UNCHANGED vars
  BY <1>22 DEF vars, IInv, WellFormed, capacity
<1> QED
  BY <1>1, <1>2, <1>3, <1>4, <1>5, <1>6, <1>7, <1>8, <1>9, <1>10, <1>11, <1>12, <1>13,
     <1>14, <1>15, <1>16, <1>17, <1>18, <1>19, <1>20, <1>21, <1>22 DEF Next

LEMMA SpecIInv == Spec => []IInv
BY InitIInv, NextIInv, PTL DEF Spec

(* The variables keep their types, whatever the owner calls.               *)
THEOREM TypeCorrect == Spec => []TypeOK
<1>1. IInv => TypeOK
  BY Bounds DEF IInv, WellFormed, TypeOK, Reps
<1> QED BY <1>1, SpecIInv, PTL

(* No call of the code, not even one that panics half way or one of those  *)
(* that lose the contents of the list, leaves a 1 bit beyond the length,   *)
(* in the inline word or in the last word of the heap block: eq, hash and  *)
(* count_ones, which read whole words, may rely on it.                     *)
THEOREM TrailingBitsAreZero == Spec => []TrailingBitsZero
<1>1. IInv => TrailingBitsZero
  BY DEF IInv, WellFormed, TrailingBitsZero
<1> QED BY <1>1, SpecIInv, PTL

(* No call of the code makes a list longer than the memory it has: the     *)
(* unchecked reads and writes of heap.rs and inline.rs stay inside it.     *)
THEOREM LengthFitsCapacity == Spec => []FitsCapacity
<1>1. IInv => FitsCapacity
  BY DEF IInv, WellFormed, FitsCapacity
<1> QED BY <1>1, SpecIInv, PTL

-----------------------------------------------------------------------------
(* The calls. *)

(* A call that fails leaves the list alone, one that returns leaves it the *)
(* room it had.                                                            *)
Kept(r, o) ==
  /\ o.end # "return" => o.rep = r /\ o.ret = "none"
  /\ capacity(r) <= capacity(o.rep)

LEMMA CapacityType ==
  ASSUME NEW r, WellFormed(r)
  PROVE  capacity(r) \in Int /\ capacity(r) <= UsizeMax /\ r.len <= capacity(r)
<1>1. CASE r.kind = "inline"
  BY <1>1, CapacityAssumption, DataBitsType, RepType DEF capacity
<1>2. CASE r.kind = "heap"
  <2>1. r.cap \in Int /\ MaxWords \in Int /\ r.cap <= MaxWords
    BY RepType, Bounds
  <2>2. r.cap * WordSize <= MaxWords * WordSize
    BY <2>1, TimesMono, WordSizeType
  <2>3. r.cap * WordSize \in Int /\ MaxWords * WordSize \in Int /\ UsizeMax \in Int
    BY <2>1, TimesNext, WordSizeType, UsizeType
  <2> QED BY <1>2, <2>2, <2>3, CapacityAssumption, RepType DEF capacity
<1> QED BY <1>1, <1>2, RepType

LEMMA KeptOutcomes ==
  ASSUME NEW r, WellFormed(r), NEW x
  PROVE  Kept(r, Returns(r, x)) /\ Kept(r, Panics(r)) /\ Kept(r, Aborts(r))
<1>1. capacity(r) <= capacity(r)
  BY CapacityType
<1> QED BY <1>1, Fields DEF Kept

(* A call that goes on from the lists another one left. *)
LEMMA KeptSplit ==
  ASSUME NEW r, NEW S, \A o \in S : Kept(r, o)
  PROVE  /\ \A o \in Stopped(S) : Kept(r, o) /\ o.rep = r /\ o.end # "return" /\ o \in S
         /\ \A q \in Onward(S) : capacity(r) <= capacity(q)
BY DEF Stopped, Onward, Kept

LEMMA UnwrappedKept ==
  ASSUME NEW r, NEW S, \A o \in S : Kept(r, o),
         \A o \in S : o.ret = "err" => o.rep = r
  PROVE  \A o \in Unwrapped(S) : Kept(r, o)
BY Fields DEF Unwrapped, Kept

-----------------------------------------------------------------------------
(* Room. *)

(* What reserving room for n bits makes of a heap list: nothing when there *)
(* is room, otherwise a refusal or a larger block with the same contents.  *)
LEMMA TryEnsureKept ==
  ASSUME NEW r, WellFormed(r), r.kind = "heap", NEW n \in Nat
  PROVE  /\ n <= capacity(r) => try_ensure_capacity(r, n) = {Returns(r, "done")}
         /\ \A o \in try_ensure_capacity(r, n) :
              /\ Kept(r, o)
              /\ o.ret = "err" => o.rep = r /\ o.end = "return"
              /\ o.ret = "done" => o.end = "return"
              /\ o.end = "return" => o.ret \in {"done", "err"}
              /\ o.end # "return" => HitsEmptyGrowth(r, n)
              /\ o.rep.ones = r.ones /\ o.rep.kind = "heap" /\ o.rep.len = r.len
<1>0. capacity(r) = r.cap * WordSize /\ r.cap * WordSize \in Int
  BY RepType, TimesNext, WordSizeType, Bounds DEF capacity
<1>1. CASE n <= r.cap * WordSize
  BY <1>0, <1>1, KeptOutcomes, Fields DEF try_ensure_capacity
<1>2. CASE ~(n <= r.cap * WordSize) /\ DebugBuild /\ r.len = 0
  <2>1. HitsEmptyGrowth(r, n)
    BY <1>0, <1>2 DEF HitsEmptyGrowth
  <2> QED BY <1>0, <1>2, <2>1, KeptOutcomes, Fields DEF try_ensure_capacity
<1>3. CASE ~(n <= r.cap * WordSize) /\ ~(DebugBuild /\ r.len = 0)
  <2>1. ASSUME NEW c \in words_for(n) .. MaxWords, NEW q, q = [r EXCEPT !.cap = c]
        PROVE  /\ q.ones = r.ones /\ q.kind = "heap" /\ q.len = r.len
               /\ capacity(r) <= capacity(q)
    <3>1. c \in Nat /\ words_for(n) <= c
      BY <2>1, WordsForBounds, Bounds
    <3>2. n <= c * WordSize
      BY <3>1, WordsForLeast
    <3>3. c * WordSize \in Int /\ r.cap * WordSize \in Int
      BY <3>1, RepType, TimesNext, WordSizeType, Bounds
    <3>4. q.ones = r.ones /\ q.kind = "heap" /\ q.len = r.len /\ q.cap = c
      BY <2>1 DEF WellFormed
    <3> QED BY <1>0, <1>3, <3>2, <3>3, <3>4 DEF capacity
  <2>2. SUFFICES ASSUME NEW o \in try_ensure_capacity(r, n)
                 PROVE  /\ Kept(r, o)
                        /\ o.ret = "err" => o.rep = r /\ o.end = "return"
                        /\ o.ret = "done" => o.end = "return"
                        /\ o.end = "return" => o.ret \in {"done", "err"}
                        /\ o.end # "return" => HitsEmptyGrowth(r, n)
                        /\ o.rep.ones = r.ones /\ o.rep.kind = "heap" /\ o.rep.len = r.len
    BY <1>0, <1>3
  <2>3. \/ o = Returns(r, "err")
        \/ \E c \in words_for(n) .. MaxWords : o = Returns([r EXCEPT !.cap = c], "done")
    BY <1>3, <2>2 DEF try_ensure_capacity
  <2>4. CASE o = Returns(r, "err")
    BY <2>4, KeptOutcomes, Fields
  <2>5. ASSUME NEW c \in words_for(n) .. MaxWords, NEW q, q = [r EXCEPT !.cap = c],
               o = Returns(q, "done")
        PROVE  /\ Kept(r, o)
               /\ o.ret # "err" /\ o.end = "return" /\ o.ret = "done"
               /\ o.rep.ones = r.ones /\ o.rep.kind = "heap" /\ o.rep.len = r.len
    BY <2>1, <2>5, Fields DEF Kept
  <2> QED BY <2>3, <2>4, <2>5
<1> QED BY <1>1, <1>2, <1>3

LEMMA TryReserveKept ==
  ASSUME NEW r, WellFormed(r), NEW k \in Nat
  PROVE  /\ r.len + k <= capacity(r) => try_reserve(r, k) = {Returns(r, "done")}
         /\ \A o \in try_reserve(r, k) :
              /\ Kept(r, o)
              /\ o.ret = "err" => o.rep = r /\ o.end = "return"
              /\ o.ret = "done" => o.end = "return"
              /\ o.end = "return" => o.ret \in {"done", "err"}
              /\ o.end # "return" => HitsEmptyGrowth(r, r.len + k)
              /\ o.rep.ones = r.ones /\ o.rep.len = r.len
              /\ o.end = "return" /\ o.ret # "err" =>
                   (o.rep.kind = "inline" <=> r.kind = "inline" /\ r.len + k <= DATA_BITS)
<1> DEFINE n == r.len + k
           Fine(o) == /\ Kept(r, o)
                      /\ o.ret = "err" => o.rep = r /\ o.end = "return"
                      /\ o.ret = "done" => o.end = "return"
                      /\ o.end = "return" => o.ret \in {"done", "err"}
                      /\ o.end # "return" => HitsEmptyGrowth(r, n)
                      /\ o.rep.ones = r.ones /\ o.rep.len = r.len
                      /\ o.end = "return" /\ o.ret # "err" =>
                           (o.rep.kind = "inline" <=> r.kind = "inline" /\ n <= DATA_BITS)
<1>0. n \in Nat /\ r.len \in Nat /\ UsizeMax \in Int
  BY RepType, UsizeType
<1>1. CASE n > UsizeMax
  <2>1. ~(n <= capacity(r))
    BY <1>0, <1>1, CapacityType
  <2>2. \A o \in try_reserve(r, k) : Fine(o)
    BY <1>1, KeptOutcomes, Fields DEF try_reserve
  <2> QED BY <2>1, <2>2
<1>2. CASE ~(n > UsizeMax) /\ r.kind = "heap"
  <2>1. try_reserve(r, k) = try_ensure_capacity(r, n)
    BY <1>2 DEF try_reserve
  <2> HIDE DEF n
  <2>2. /\ n <= capacity(r) => try_ensure_capacity(r, n) = {Returns(r, "done")}
        /\ \A o \in try_ensure_capacity(r, n) : Fine(o)
    BY <1>0, <1>2, TryEnsureKept
  <2> QED BY <2>1, <2>2 DEF n
<1>3. CASE ~(n > UsizeMax) /\ r.kind # "heap" /\ n <= DATA_BITS
  <2>1. try_reserve(r, k) = {Returns(r, "done")} /\ r.kind = "inline"
    BY <1>3, RepType DEF try_reserve
  <2> QED BY <1>3, <2>1, KeptOutcomes, Fields
<1>4. CASE ~(n > UsizeMax) /\ r.kind # "heap" /\ ~(n <= DATA_BITS)
  <2>1. capacity(r) = DATA_BITS /\ r.kind = "inline" /\ DATA_BITS \in Nat
    BY <1>4, RepType, DataBitsType DEF capacity
  <2>2. ASSUME NEW c \in {words_for(n)} \cap (0 .. MaxWords),
               NEW q, q = Heap(r.len, c, r.ones)
        PROVE  /\ q.ones = r.ones /\ q.len = r.len /\ q.kind = "heap"
               /\ capacity(r) <= capacity(q)
    <3>1. n <= c * WordSize /\ c * WordSize \in Nat
      BY <1>0, <2>2, WordsForBounds
    <3>2. r.ones \cap Words(0, words_for(r.len)) = r.ones
      <4>1. words_for(r.len) * WordSize \in Nat /\ r.len <= words_for(r.len) * WordSize
        BY <1>0, WordsForBounds
      <4> QED BY <4>1, RepType, WordSizeType DEF Words
    <3>3. capacity(q) = c * WordSize
      BY <2>2 DEF capacity, Heap
    <3> QED BY <1>0, <1>4, <2>1, <2>2, <3>1, <3>2, <3>3 DEF Heap
  <2>3. ASSUME NEW o \in try_reserve(r, k) PROVE Fine(o)
    <3>1. \/ o = Returns(r, "err")
          \/ \E c \in {words_for(n)} \cap (0 .. MaxWords) :
               o = Returns(Heap(r.len, c, r.ones), "done")
      BY <1>4, <2>3 DEF try_reserve
    <3>2. CASE o = Returns(r, "err")
      BY <3>2, KeptOutcomes, Fields
    <3>3. ASSUME NEW c \in {words_for(n)} \cap (0 .. MaxWords),
                 NEW q, q = Heap(r.len, c, r.ones), o = Returns(q, "done")
          PROVE  Fine(o)
      <4>1. o.ret = "done" /\ o.end = "return" /\ o.rep = q
        BY <3>3, Fields
      <4>2. q.ones = r.ones /\ q.len = r.len /\ q.kind = "heap" /\ capacity(r) <= capacity(q)
        BY <2>2, <3>3
      <4> QED BY <1>4, <4>1, <4>2 DEF Kept
    <3> QED BY <3>1, <3>2, <3>3
  <2>4. ~(n <= capacity(r))
    BY <1>4, <2>1
  <2> QED BY <2>3, <2>4
<1> QED BY <1>1, <1>2, <1>3, <1>4

LEMMA ReserveKept ==
  ASSUME NEW r, WellFormed(r), NEW k \in Nat
  PROVE  /\ r.len + k <= capacity(r) => reserve(r, k) = {Returns(r, "done")}
         /\ \A o \in reserve(r, k) :
              /\ Kept(r, o) /\ Good(o)
              /\ o.end = "abort" => HitsEmptyGrowth(r, r.len + k)
              /\ o.end = "return" =>
                   /\ o.ret = "done"
                   /\ WellFormed(o.rep) /\ o.rep.ones = r.ones /\ o.rep.len = r.len
                   /\ r.len + k <= capacity(o.rep)
                   /\ o.rep.kind = "inline" <=> r.kind = "inline" /\ r.len + k <= DATA_BITS
<1> DEFINE S == try_reserve(r, k)
<1>1. /\ r.len + k <= capacity(r) => S = {Returns(r, "done")}
      /\ \A o \in S : /\ Kept(r, o)
                      /\ o.ret = "err" => o.rep = r /\ o.end = "return"
                      /\ o.end = "return" => o.ret \in {"done", "err"}
                      /\ o.end # "return" => HitsEmptyGrowth(r, r.len + k)
                      /\ o.rep.ones = r.ones /\ o.rep.len = r.len
                      /\ o.end = "return" /\ o.ret # "err" =>
                           (o.rep.kind = "inline" <=> r.kind = "inline" /\ r.len + k <= DATA_BITS)
  BY TryReserveKept
<1>2. \A o \in S : /\ Good(o)
                   /\ o.end = "return" /\ o.ret # "err" => r.len + k <= capacity(o.rep)
  BY TryReserveGood
<1>3. reserve(r, k) = Unwrapped(S)
  BY DEF reserve
<1> HIDE DEF S
<1>4. \A o \in Unwrapped(S) : Kept(r, o)
  BY <1>1, UnwrappedKept
<1>5. \A o \in Unwrapped(S) : Good(o) /\ (o.end = "return" => o \in S /\ o.ret # "err")
  BY <1>2, UnwrappedGood
<1>8. \A o \in Unwrapped(S) : o.end = "abort" => HitsEmptyGrowth(r, r.len + k)
  BY <1>1, Fields DEF Unwrapped
<1>6. ASSUME S = {Returns(r, "done")} PROVE Unwrapped(S) = S
  BY <1>6, Fields DEF Unwrapped
<1>7. ASSUME NEW o \in Unwrapped(S), o.end = "return"
      PROVE  /\ o.ret = "done"
             /\ WellFormed(o.rep) /\ o.rep.ones = r.ones /\ o.rep.len = r.len
             /\ r.len + k <= capacity(o.rep)
             /\ o.rep.kind = "inline" <=> r.kind = "inline" /\ r.len + k <= DATA_BITS
  <2>1. o \in S /\ o.ret # "err" /\ WellFormed(o.rep)
    BY <1>5, <1>7 DEF Good
  <2> QED BY <1>1, <1>2, <1>7, <2>1
<1> QED BY <1>1, <1>3, <1>4, <1>5, <1>6, <1>7, <1>8

(* The memory push_bits and push_many_bits write to: s is what the list    *)
(* holds, g what the new words do.                                         *)
Cleared(m, n, s, g) ==
  IF words_for(m) # words_for(n) THEN (s \cup g) \ Word(words_for(n) - 1) ELSE s

(* Memory to which n - m bits are about to be appended: with what the new  *)
(* words held, and the last word zeroed when it is one of them, nothing is *)
(* left but the old bits, outside the place of the new ones.               *)
LEMMA ClearedIs ==
  ASSUME NEW m \in Nat, NEW n \in Nat, m <= n, NEW s, s \subseteq 0 .. (m - 1),
         NEW g, g \subseteq Words(words_for(m), words_for(n))
  PROVE  /\ (Cleared(m, n, s, g) \ (m .. (n - 1))) \cap Words(0, words_for(n)) = s
         /\ (m .. (n - 1)) \subseteq Words(0, words_for(n))
<1> DEFINE lo == words_for(m) * WordSize
           hi == words_for(n) * WordSize
           base == (words_for(n) - 1) * WordSize
           d == Cleared(m, n, s, g)
<1>1. /\ words_for(m) \in Nat /\ lo \in Nat /\ m <= lo
      /\ words_for(n) \in Nat /\ hi \in Nat /\ n <= hi /\ hi < n + WordSize
  BY WordsForBounds
<1>2. Words(0, words_for(n)) = 0 .. (hi - 1) /\ Words(words_for(m), words_for(n)) = lo .. (hi - 1)
  BY WordSizeType DEF Words
<1>3. base = hi - WordSize /\ base \in Int
  BY <1>1, TimesNext, WordSizeType
<1>4. Word(words_for(n) - 1) = base .. (hi - 1)
  <2>1. words_for(n) - 1 + 1 = words_for(n)
    BY <1>1
  <2> QED BY <2>1 DEF Word
<1>5. CASE words_for(m) = words_for(n)
  <2>1. d = s /\ lo = hi
    BY <1>5 DEF Cleared
  <2> HIDE DEF lo, hi, base, d
  <2>2. s \ (m .. (n - 1)) = s /\ s \subseteq 0 .. (hi - 1) /\ (m .. (n - 1)) \subseteq 0 .. (hi - 1)
    BY <1>1, <2>1
  <2> QED BY <1>2, <2>1, <2>2 DEF d
<1>6. CASE words_for(m) # words_for(n)
  <2>1. words_for(m) <= words_for(n) - 1
    BY <1>1, <1>6, WordsForMonotone
  <2>2. lo <= base
    BY <1>1, <2>1, TimesMono, WordSizeType
  <2>3. d = (s \cup g) \ Word(words_for(n) - 1)
    BY <1>6 DEF Cleared
  <2> HIDE DEF lo, hi, base, d
  <2>4. ASSUME NEW x \in d, x \notin m .. (n - 1), x \in 0 .. (hi - 1) PROVE x \in s
    BY <1>1, <1>2, <1>3, <1>4, <2>3, <2>4, WordSizeType
  <2>5. ASSUME NEW x \in s PROVE x \in d /\ x \notin m .. (n - 1) /\ x \in 0 .. (hi - 1)
    BY <1>1, <1>3, <1>4, <2>2, <2>3, WordSizeType
  <2>6. (m .. (n - 1)) \subseteq 0 .. (hi - 1)
    BY <1>1
  <2>7. (d \ (m .. (n - 1))) \cap (0 .. (hi - 1)) = s
    BY <2>4, <2>5
  <2> QED BY <1>2, <2>6, <2>7 DEF d
<1> QED BY <1>5, <1>6

(* What a list with room for b becomes when b is appended.  No trace is    *)
(* left of g, what the memory held.                                        *)
LEMMA AppendedIs ==
  ASSUME NEW r, WellFormed(r), NEW b, b.len \in Nat, b.ones \subseteq 0 .. (b.len - 1),
         r.len + b.len <= capacity(r)
  PROVE  \A q \in Appended(r, b) :
           /\ q.kind = r.kind /\ q.cap = r.cap /\ q.len = r.len + b.len
           /\ q.ones = r.ones \cup Up(b.ones, r.len)
<1> DEFINE n == r.len + b.len
           cleared(g) == IF words_for(r.len) # words_for(n)
                         THEN (r.ones \cup g) \ Word(words_for(n) - 1) ELSE r.ones
<1>0. n \in Nat /\ r.len \in Nat /\ r.len <= n /\ r.ones \subseteq 0 .. (r.len - 1)
  BY RepType
<1>1. CASE r.kind = "inline"
  <2>1. n <= DATA_BITS /\ r.cap = 0
    BY <1>1, RepType DEF capacity
  <2>2. r.ones \cup Up(b.ones, r.len) \subseteq 0 .. (DATA_BITS - 1)
    BY <1>0, <2>1, DataBitsType DEF Up
  <2>3. Appended(r, b) = {Inline(n, r.ones \cup Up(b.ones, r.len))}
    BY <1>1 DEF Appended
  <2> HIDE DEF n
  <2> QED BY <1>0, <1>1, <2>1, <2>2, <2>3 DEF Inline, n
<1>2. CASE r.kind # "inline"
  <2>1. r.kind = "heap"
    BY <1>2, RepType
  <2>2. Up(b.ones, r.len) \subseteq r.len .. (n - 1)
    BY <1>0 DEF Up
  <2>3. ASSUME NEW g, g \subseteq Words(words_for(r.len), words_for(n))
        PROVE  copy_bits(cleared(g), r.len, b) \cap Words(0, words_for(n))
                 = r.ones \cup Up(b.ones, r.len)
    <3> DEFINE d == Cleared(r.len, n, r.ones, g)
    <3>0. cleared(g) = d
      BY DEF Cleared
    <3>1. /\ (d \ (r.len .. (n - 1))) \cap Words(0, words_for(n)) = r.ones
          /\ (r.len .. (n - 1)) \subseteq Words(0, words_for(n))
      <4> HIDE DEF n
      <4> QED BY <1>0, <2>3, ClearedIs
    <3> HIDE DEF d, cleared
    <3>2. copy_bits(d, r.len, b)
            = (d \ (r.len .. (n - 1))) \cup Up(b.ones, r.len)
      BY <1>0 DEF copy_bits
    <3> HIDE DEF n, cleared
    <3>3. copy_bits(d, r.len, b) \cap Words(0, words_for(n)) = r.ones \cup Up(b.ones, r.len)
      BY <2>2, <3>1, <3>2
    <3> QED BY <3>0, <3>3
  <2>4. Appended(r, b) =
          {Heap(n, r.cap, copy_bits(cleared(g), r.len, b)) : g \in Garbage(r.len, n)}
    BY <1>2 DEF Appended
  <2>5. \A g \in Garbage(r.len, n) : g \subseteq Words(words_for(r.len), words_for(n))
    BY DEF Garbage
  <2> HIDE DEF n, cleared
  <2> QED BY <2>1, <2>3, <2>4, <2>5 DEF Heap, n
<1> QED BY <1>1, <1>2

(* The same for a run of one bit; on an inline list it is a run of ones.   *)
LEMMA AppendedManyIs ==
  ASSUME NEW r, WellFormed(r), NEW v \in BOOLEAN, NEW k \in Nat, r.len + k <= capacity(r)
  PROVE  \A q \in AppendedMany(r, v, k) :
           /\ q.kind = r.kind /\ q.cap = r.cap /\ q.len = r.len + k
           /\ q.ones = r.ones \cup
                (IF r.kind = "inline" \/ v THEN r.len .. (r.len + k - 1) ELSE {})
<1> DEFINE n == r.len + k
           cleared(g) == IF words_for(r.len) # words_for(n)
                         THEN (r.ones \cup g) \ Word(words_for(n) - 1) ELSE r.ones
<1>0. n \in Nat /\ r.len \in Nat /\ r.len <= n /\ r.ones \subseteq 0 .. (r.len - 1)
  BY RepType
<1>1. CASE r.kind = "inline"
  <2>1. n <= DATA_BITS /\ r.cap = 0
    BY <1>1, RepType DEF capacity
  <2>2. (((r.ones \cup (Bit \ (0 .. (r.len - 1)))) \cap (0 .. (n - 1))) \cap (0 .. (DATA_BITS - 1)))
          = r.ones \cup (r.len .. (n - 1))
    BY <1>0, <2>1, DataBitsType, WordSizeType DEF Bit
  <2>3. AppendedMany(r, v, k) = {new_masked(r.ones \cup (Bit \ (0 .. (r.len - 1))), n)}
    BY <1>1 DEF AppendedMany
  <2>4. \A q \in AppendedMany(r, v, k) :
           /\ q.kind = "inline" /\ q.cap = 0 /\ q.len = n
           /\ q.ones = r.ones \cup (r.len .. (n - 1))
    <3> HIDE DEF n
    <3> QED BY <2>2, <2>3 DEF Inline, new_masked
  <2>5. r.len .. (r.len + k - 1) = r.len .. (n - 1)
    BY <1>0
  <2> HIDE DEF n
  <2>6. \A q \in AppendedMany(r, v, k) : q.kind = r.kind /\ q.cap = r.cap
    BY <1>1, <2>1, <2>4
  <2> QED BY <1>1, <2>4, <2>5, <2>6 DEF n
<1>2. CASE r.kind # "inline"
  <2>1. r.kind = "heap"
    BY <1>2, RepType
  <2>3. ASSUME NEW g, g \subseteq Words(words_for(r.len), words_for(n))
        PROVE  fill_bits(cleared(g), r.len, k, v) \cap Words(0, words_for(n))
                 = r.ones \cup (IF v THEN r.len .. (n - 1) ELSE {})
    <3> DEFINE d == Cleared(r.len, n, r.ones, g)
    <3>0. cleared(g) = d
      BY DEF Cleared
    <3>1. /\ (d \ (r.len .. (n - 1))) \cap Words(0, words_for(n)) = r.ones
          /\ (r.len .. (n - 1)) \subseteq Words(0, words_for(n))
      <4> HIDE DEF n
      <4> QED BY <1>0, <2>3, ClearedIs
    <3> HIDE DEF d, cleared
    <3>2. fill_bits(d, r.len, k, v)
            = (d \ (r.len .. (n - 1))) \cup (IF v THEN r.len .. (n - 1) ELSE {})
      BY <1>0 DEF fill_bits
    <3> HIDE DEF n, cleared
    <3>3. fill_bits(d, r.len, k, v) \cap Words(0, words_for(n))
            = r.ones \cup (IF v THEN r.len .. (n - 1) ELSE {})
      BY <3>1, <3>2
    <3> QED BY <3>0, <3>3
  <2>4. AppendedMany(r, v, k) =
          {Heap(n, r.cap, fill_bits(cleared(g), r.len, k, v)) : g \in Garbage(r.len, n)}
    BY <1>2 DEF AppendedMany
  <2>5. \A g \in Garbage(r.len, n) : g \subseteq Words(words_for(r.len), words_for(n))
    BY DEF Garbage
  <2>6. r.len .. (r.len + k - 1) = r.len .. (n - 1)
    BY <1>0
  <2> HIDE DEF n, cleared
  <2>7. \A q \in AppendedMany(r, v, k) :
           /\ q.kind = "heap" /\ q.cap = r.cap /\ q.len = n
           /\ q.ones = r.ones \cup (IF v THEN r.len .. (n - 1) ELSE {})
    BY <2>3, <2>4, <2>5 DEF Heap
  <2> QED BY <2>1, <2>6, <2>7 DEF n
<1> QED BY <1>1, <1>2

-----------------------------------------------------------------------------
(* The calls that append. *)

LEMMA PushBitsIs ==
  ASSUME NEW r, WellFormed(r), NEW b, b.len \in Nat, b.ones \subseteq 0 .. (b.len - 1)
  PROVE  \A o \in push_bits(r, b) :
           /\ Kept(r, o)
           /\ o.end = "abort" => HitsEmptyGrowth(r, r.len + b.len)
           /\ o.end = "return" => /\ o.ret = "done" /\ o.rep.len = r.len + b.len
                                  /\ o.rep.ones = r.ones \cup Up(b.ones, r.len)
           /\ r.len + b.len <= capacity(r) =>
                o.end = "return" /\ o.rep.kind = r.kind /\ o.rep.cap = r.cap
<1> DEFINE room == reserve(r, b.len)
<1>1. /\ r.len + b.len <= capacity(r) => room = {Returns(r, "done")}
      /\ \A o \in room :
           /\ Kept(r, o)
           /\ o.end = "abort" => HitsEmptyGrowth(r, r.len + b.len)
           /\ o.end = "return" =>
                /\ WellFormed(o.rep) /\ o.rep.ones = r.ones /\ o.rep.len = r.len
                /\ r.len + b.len <= capacity(o.rep)
  BY ReserveKept
<1> SUFFICES ASSUME NEW o \in push_bits(r, b)
             PROVE  /\ Kept(r, o)
                    /\ o.end = "abort" => HitsEmptyGrowth(r, r.len + b.len)
                    /\ o.end = "return" => /\ o.ret = "done" /\ o.rep.len = r.len + b.len
                                           /\ o.rep.ones = r.ones \cup Up(b.ones, r.len)
                    /\ r.len + b.len <= capacity(r) =>
                         o.end = "return" /\ o.rep.kind = r.kind /\ o.rep.cap = r.cap
  OBVIOUS
<1>2. \/ o \in Stopped(room)
      \/ \E p \in Onward(room) : \E q \in Appended(p, b) : o = Returns(q, "done")
  BY DEF push_bits
<1> HIDE DEF room
<1>3. CASE o \in Stopped(room)
  <2>1. o \in room /\ o.end # "return"
    BY <1>3 DEF Stopped
  <2>2. Returns(r, "done").end = "return"
    BY Fields
  <2> QED BY <1>1, <2>1, <2>2
<1>4. ASSUME NEW p \in Onward(room), NEW q \in Appended(p, b), o = Returns(q, "done")
      PROVE  /\ Kept(r, o)
             /\ o.end = "return" /\ o.ret = "done" /\ o.rep.len = r.len + b.len
             /\ o.rep.ones = r.ones \cup Up(b.ones, r.len)
             /\ r.len + b.len <= capacity(r) => o.rep.kind = r.kind /\ o.rep.cap = r.cap
  <2>1. PICK s \in room : s.rep = p /\ s.end = "return"
    BY DEF Onward, Stopped
  <2>2. /\ WellFormed(p) /\ p.ones = r.ones /\ p.len = r.len /\ p.len + b.len <= capacity(p)
        /\ capacity(r) <= capacity(p)
    BY <1>1, <2>1 DEF Kept
  <2>3. /\ q.kind = p.kind /\ q.cap = p.cap /\ q.len = p.len + b.len
        /\ q.ones = p.ones \cup Up(b.ones, p.len)
    BY <1>4, <2>2, AppendedIs
  <2>4. o.end = "return" /\ o.ret = "done" /\ o.rep = q
    BY <1>4, Fields
  <2>5. capacity(q) = capacity(p)
    BY <2>3 DEF capacity
  <2>6. r.len + b.len <= capacity(r) => p = r
    BY <1>1, <2>1, Fields
  <2> QED BY <2>2, <2>3, <2>4, <2>5, <2>6 DEF Kept
<1> QED BY <1>2, <1>3, <1>4

(* The run of ones an inline list gets whatever bit was asked for is the   *)
(* one in AppendedManyIs.                                                  *)
LEMMA PushManyBitsIs ==
  ASSUME NEW r, WellFormed(r), NEW v \in BOOLEAN, NEW k \in Nat
  PROVE  \A o \in push_many_bits(r, v, k) :
           /\ Kept(r, o)
           /\ o.end = "abort" => HitsEmptyGrowth(r, r.len + k)
           /\ o.end = "return" =>
                /\ o.ret = "done" /\ o.rep.len = r.len + k
                /\ o.rep.ones = r.ones \cup
                     (IF (r.kind = "inline" /\ r.len + k <= DATA_BITS) \/ v
                      THEN r.len .. (r.len + k - 1) ELSE {})
           /\ r.len + k <= capacity(r) =>
                o.end = "return" /\ o.rep.kind = r.kind /\ o.rep.cap = r.cap
<1> DEFINE room == reserve(r, k)
           more == IF (r.kind = "inline" /\ r.len + k <= DATA_BITS) \/ v
                   THEN r.len .. (r.len + k - 1) ELSE {}
<1>1. /\ r.len + k <= capacity(r) => room = {Returns(r, "done")}
      /\ \A o \in room :
           /\ Kept(r, o)
           /\ o.end = "abort" => HitsEmptyGrowth(r, r.len + k)
           /\ o.end = "return" =>
                /\ WellFormed(o.rep) /\ o.rep.ones = r.ones /\ o.rep.len = r.len
                /\ r.len + k <= capacity(o.rep)
                /\ o.rep.kind = "inline" <=> r.kind = "inline" /\ r.len + k <= DATA_BITS
  BY ReserveKept
<1> SUFFICES ASSUME NEW o \in push_many_bits(r, v, k)
             PROVE  /\ Kept(r, o)
                    /\ o.end = "abort" => HitsEmptyGrowth(r, r.len + k)
                    /\ o.end = "return" => /\ o.ret = "done" /\ o.rep.len = r.len + k
                                           /\ o.rep.ones = r.ones \cup more
                    /\ r.len + k <= capacity(r) =>
                         o.end = "return" /\ o.rep.kind = r.kind /\ o.rep.cap = r.cap
  OBVIOUS
<1>2. \/ o \in Stopped(room)
      \/ \E p \in Onward(room) : \E q \in AppendedMany(p, v, k) : o = Returns(q, "done")
  BY DEF push_many_bits
<1> HIDE DEF room
<1>3. CASE o \in Stopped(room)
  <2>1. o \in room /\ o.end # "return"
    BY <1>3 DEF Stopped
  <2>2. Returns(r, "done").end = "return"
    BY Fields
  <2> QED BY <1>1, <2>1, <2>2
<1>4. ASSUME NEW p \in Onward(room), NEW q \in AppendedMany(p, v, k), o = Returns(q, "done")
      PROVE  /\ Kept(r, o)
             /\ o.end = "return" /\ o.ret = "done" /\ o.rep.len = r.len + k
             /\ o.rep.ones = r.ones \cup more
             /\ r.len + k <= capacity(r) => o.rep.kind = r.kind /\ o.rep.cap = r.cap
  <2>1. PICK s \in room : s.rep = p /\ s.end = "return"
    BY DEF Onward, Stopped
  <2>2. /\ WellFormed(p) /\ p.ones = r.ones /\ p.len = r.len /\ p.len + k <= capacity(p)
        /\ capacity(r) <= capacity(p)
        /\ p.kind = "inline" <=> r.kind = "inline" /\ r.len + k <= DATA_BITS
    BY <1>1, <2>1 DEF Kept
  <2>3. /\ q.kind = p.kind /\ q.cap = p.cap /\ q.len = p.len + k
        /\ q.ones = p.ones \cup
             (IF p.kind = "inline" \/ v THEN p.len .. (p.len + k - 1) ELSE {})
    BY <1>4, <2>2, AppendedManyIs
  <2>4. o.end = "return" /\ o.ret = "done" /\ o.rep = q
    BY <1>4, Fields
  <2>5. capacity(q) = capacity(p)
    BY <2>3 DEF capacity
  <2>6. r.len + k <= capacity(r) => p = r
    BY <1>1, <2>1, Fields
  <2>7. q.ones = r.ones \cup more
    BY <2>2, <2>3
  <2> QED BY <2>2, <2>3, <2>4, <2>5, <2>6, <2>7 DEF Kept
<1> QED BY <1>2, <1>3, <1>4

-----------------------------------------------------------------------------
(* The calls that change the length. *)

LEMMA ClearIs ==
  ASSUME NEW r, WellFormed(r)
  PROVE  \A o \in clear(r) :
           /\ Kept(r, o)
           /\ o.end = "return" /\ o.ret = "done" /\ o.rep.len = 0 /\ o.rep.ones = {}
           /\ o.rep.kind = r.kind /\ o.rep.cap = r.cap
<1>1. CASE r.kind = "inline"
  <2>1. clear(r) = {Returns(NO_BITS, "done")} /\ r.cap = 0
    BY <1>1, RepType DEF clear
  <2>2. /\ NO_BITS.kind = "inline" /\ NO_BITS.cap = 0
        /\ NO_BITS.len = 0 /\ NO_BITS.ones = {}
    BY DEF NO_BITS, Inline
  <2>3. capacity(r) <= capacity(NO_BITS)
    BY <1>1, <2>2, DataBitsType DEF capacity
  <2> QED BY <1>1, <2>1, <2>2, <2>3, Fields DEF Kept
<1>2. CASE r.kind # "inline"
  <2> DEFINE q == Heap(0, r.cap, r.ones)
  <2>1. clear(r) = {Returns(q, "done")} /\ r.kind = "heap"
    BY <1>2, RepType DEF clear
  <2>2. Words(0, words_for(0)) = {}
    BY WordsForZero, WordSizeType DEF Words
  <2>3. q.kind = "heap" /\ q.cap = r.cap /\ q.len = 0 /\ q.ones = {}
    BY <2>2 DEF Heap
  <2>4. capacity(r) <= capacity(q)
    BY <2>1, <2>3, CapacityType DEF capacity
  <2> HIDE DEF q
  <2> QED BY <2>1, <2>3, <2>4, Fields DEF Kept
<1> QED BY <1>1, <1>2

LEMMA WithCapacityIs ==
  ASSUME NEW r, NEW n \in Nat, NEW m
  PROVE  \A o \in with_capacity(r, n, m) :
           \/ o = Aborts(r)
           \/ /\ o.end = "return" /\ o.ret = "done"
              /\ o.rep.kind = "heap" /\ o.rep.len = n
              /\ o.rep.ones = m \cap Words(0, words_for(n))
<1>1. \A c : /\ Heap(n, c, m).kind = "heap" /\ Heap(n, c, m).len = n
             /\ Heap(n, c, m).ones = m \cap Words(0, words_for(n))
  BY DEF Heap
<1> QED BY <1>1, Fields DEF with_capacity

LEMMA MaskLastIs ==
  ASSUME NEW n \in Nat, n > 0, NEW m
  PROVE  /\ MaskLast(m, n) \cap Words(0, words_for(n)) = m \cap (0 .. (n - 1))
         /\ 0 .. (n - 1) \subseteq Words(0, words_for(n))
<1> DEFINE lo == (words_for(n) - 1) * WordSize
           hi == words_for(n) * WordSize
<1>1. /\ lo \in Nat /\ hi \in Nat /\ lo < n /\ n <= hi
      /\ LastBits(n) = lo .. (n - 1)
      /\ Word(words_for(n) - 1) = lo .. (hi - 1)
      /\ Words(0, words_for(n)) = 0 .. (hi - 1)
  BY LastBitsRange, WordsForBounds
<1> HIDE DEF lo, hi
<1>2. 0 .. (n - 1) \subseteq 0 .. (hi - 1)
  BY <1>1
<1>3. ASSUME NEW x \in 0 .. (n - 1)
      PROVE  ~(x \in lo .. (hi - 1) /\ x \notin lo .. (n - 1))
  BY <1>1
<1>4. ASSUME NEW x \in 0 .. (hi - 1), ~(x \in lo .. (hi - 1) /\ x \notin lo .. (n - 1))
      PROVE  x \in 0 .. (n - 1)
  BY <1>1, <1>4
<1>5. MaskLast(m, n) = m \ ((lo .. (hi - 1)) \ (lo .. (n - 1)))
  BY <1>1 DEF MaskLast
<1>6. \A x : x \in MaskLast(m, n) /\ x \in 0 .. (hi - 1) <=> x \in m /\ x \in 0 .. (n - 1)
  BY <1>2, <1>3, <1>4, <1>5
<1> QED BY <1>1, <1>2, <1>6

(* What a new list of n bits, none of them in the inline form, holds.      *)
LEMMA FilledIs ==
  ASSUME NEW r, NEW n \in Nat, n > DATA_BITS, NEW fill \in BOOLEAN
  PROVE  \A o \in (IF fill THEN ones(r, n) ELSE zeros(r, n)) :
           \/ o = Aborts(r)
           \/ /\ o.end = "return" /\ o.ret = "done"
              /\ o.rep.kind = "heap" /\ o.rep.len = n
              /\ o.rep.ones = IF fill THEN 0 .. (n - 1) ELSE {}
<1>0. n > 0 /\ ~(n <= DATA_BITS)
  BY DataBitsType
<1>1. CASE fill
  <2> DEFINE m == MaskLast(Words(0, words_for(n)), n)
  <2>1. ones(r, n) = with_capacity(r, n, m)
    BY <1>0 DEF ones
  <2>2. m \cap Words(0, words_for(n)) = 0 .. (n - 1)
    BY <1>0, MaskLastIs
  <2> HIDE DEF m
  <2>3. \A o \in with_capacity(r, n, m) :
           \/ o = Aborts(r)
           \/ /\ o.end = "return" /\ o.ret = "done"
              /\ o.rep.kind = "heap" /\ o.rep.len = n
              /\ o.rep.ones = m \cap Words(0, words_for(n))
    BY WithCapacityIs
  <2> QED BY <1>1, <2>1, <2>2, <2>3
<1>2. CASE ~fill
  <2>1. zeros(r, n) = with_capacity(r, n, {})
    BY <1>0 DEF zeros
  <2> QED BY <1>2, <2>1, WithCapacityIs
<1> QED BY <1>1, <1>2

(* The bits resize to n leaves, if it leaves them right. *)
Refilled(r, n, fill) ==
  (r.ones \cup (IF fill THEN r.len .. (n - 1) ELSE {})) \cap (0 .. (n - 1))

LEMMA ResizeInlineIs ==
  ASSUME NEW r, WellFormed(r), r.kind = "inline", NEW n \in Nat, n > 0, NEW fill \in BOOLEAN
  PROVE  \A o \in ResizeInline(r, n, fill) :
           /\ Kept(r, o)
           /\ o.end # "return" => n > capacity(r) /\ o.end = "abort"
           /\ o.end = "return" => /\ o.ret = "done" /\ o.rep.len = n
                                  /\ o.rep.ones = Refilled(r, n, fill)
           /\ n <= capacity(r) => o.rep.kind = r.kind /\ o.rep.cap = r.cap
<1> DEFINE data == IF fill THEN r.ones \cup (Bit \ (0 .. (r.len - 1))) ELSE r.ones
           first == IF n < WordSize THEN data \cap last_word_mask(n) ELSE data
           built == IF fill THEN ones(r, n) ELSE zeros(r, n)
<1>0. /\ capacity(r) = DATA_BITS /\ r.cap = 0 /\ r.len \in Nat /\ r.len <= DATA_BITS
      /\ r.ones \subseteq 0 .. (r.len - 1)
  BY RepType DEF capacity
<1>1. CASE n <= DATA_BITS
  <2> DEFINE q == new_masked(data, n)
  <2>1. ResizeInline(r, n, fill) = {Returns(q, "done")}
    BY <1>1 DEF ResizeInline
  <2>2. (data \cap (0 .. (n - 1))) \cap (0 .. (DATA_BITS - 1)) = Refilled(r, n, fill)
    <3>1. ASSUME NEW x \in Int PROVE x \in data /\ x \in 0 .. (n - 1) /\ x \in 0 .. (DATA_BITS - 1)
                                     <=> x \in Refilled(r, n, fill)
      BY <1>0, <1>1, DataBitsType, WordSizeType DEF Bit, Refilled
    <3> QED BY <3>1, DataBitsType DEF Refilled
  <2>3. /\ q.kind = "inline" /\ q.cap = 0 /\ q.len = n
        /\ q.ones = (data \cap (0 .. (n - 1))) \cap (0 .. (DATA_BITS - 1))
    BY DEF new_masked, Inline
  <2> HIDE DEF q, data
  <2>4. capacity(r) <= capacity(q)
    BY <1>0, <2>3, DataBitsType DEF capacity
  <2>5. q.ones = Refilled(r, n, fill)
    BY <2>2, <2>3 DEF data
  <2>6. \A o \in ResizeInline(r, n, fill) : o.end = "return" /\ o.ret = "done" /\ o.rep = q
    BY <2>1, Fields
  <2> QED BY <1>0, <2>3, <2>4, <2>5, <2>6 DEF Kept
<1>2. CASE ~(n <= DATA_BITS)
  <2>1. ResizeInline(r, n, fill) =
          {IF o.end = "return"
           THEN Returns([o.rep EXCEPT !.ones = (@ \ Word(0)) \cup first], "done") ELSE o :
             o \in built}
    BY <1>2 DEF ResizeInline
  <2>2. ~(n <= capacity(r)) /\ n > capacity(r)
    BY <1>0, <1>2, DataBitsType
  <2>3. Word(0) = 0 .. (WordSize - 1)
    BY WordSizeType DEF Word
  <2> DEFINE all == IF fill THEN 0 .. (n - 1) ELSE {}
  <2>4. (all \ Word(0)) \cup first = Refilled(r, n, fill)
    <3>1. CASE n < WordSize
      <4>1. first = data \cap (0 .. (n - 1))
        BY <3>1, SmallMask
      <4>2. \A x \in Int : (x \in all /\ x \notin 0 .. (WordSize - 1))
                           \/ (x \in data /\ x \in 0 .. (n - 1))
                           <=> x \in Refilled(r, n, fill)
        BY <1>0, <1>2, <3>1, DataBitsType, WordSizeType DEF Bit, Refilled
      <4>3. Refilled(r, n, fill) \subseteq Int /\ all \subseteq Int
        BY DEF Refilled
      <4>4. \A x \in Int : x \in (all \ Word(0)) \cup first <=> x \in Refilled(r, n, fill)
        BY <2>3, <4>1, <4>2
      <4>5. first \subseteq Int
        BY <4>1
      <4> HIDE DEF all, data, first
      <4> QED BY <4>3, <4>4, <4>5
    <3>2. CASE ~(n < WordSize)
      <4>1. first = data
        BY <3>2
      <4>2. \A x \in Int : (x \in all /\ x \notin 0 .. (WordSize - 1))
                           \/ x \in data
                           <=> x \in Refilled(r, n, fill)
        BY <1>0, <1>2, <3>2, DataBitsType, WordSizeType DEF Bit, Refilled
      <4>3. Refilled(r, n, fill) \subseteq Int /\ all \subseteq Int
        BY DEF Refilled
      <4>4. data \subseteq Int
        BY <1>0 DEF Bit
      <4> HIDE DEF all, data, first
      <4> QED BY <2>3, <4>1, <4>2, <4>3, <4>4
    <3> QED BY <3>1, <3>2
  <2>5. \A o \in built : \/ o = Aborts(r)
                         \/ /\ o.end = "return" /\ o.ret = "done"
                            /\ o.rep.kind = "heap" /\ o.rep.len = n
                            /\ o.rep.ones = IF fill THEN 0 .. (n - 1) ELSE {}
    BY <1>2, DataBitsType, FilledIs
  <2>6. \A o \in built : Good(o)
    BY ZerosGood, OnesGood
  <2> HIDE DEF built, first, data
  <2>7. ASSUME NEW o \in built, o.end = "return",
               NEW q, q = [o.rep EXCEPT !.ones = (@ \ Word(0)) \cup first]
        PROVE  q.len = n /\ q.ones = Refilled(r, n, fill) /\ capacity(r) <= capacity(q)
    <3>1. /\ o.rep.kind = "heap" /\ o.rep.len = n
          /\ o.rep.ones = IF fill THEN 0 .. (n - 1) ELSE {}
      BY <2>5, <2>7, Fields
    <3>2. WellFormed(o.rep)
      BY <2>6, <2>7 DEF Good
    <3>3. /\ q.kind = "heap" /\ q.cap = o.rep.cap /\ q.len = n
          /\ q.ones = (o.rep.ones \ Word(0)) \cup first
      BY <2>7, <3>1, <3>2 DEF WellFormed
    <3>4. capacity(q) = capacity(o.rep) /\ n <= capacity(o.rep) /\ capacity(o.rep) \in Int
      BY <3>1, <3>2, <3>3, CapacityType DEF capacity
    <3> QED BY <1>0, <2>2, <2>4, <3>1, <3>3, <3>4, DataBitsType
  <2>8. ASSUME NEW o \in ResizeInline(r, n, fill)
        PROVE  \/ o = Aborts(r)
               \/ /\ o.end = "return" /\ o.ret = "done" /\ o.rep.len = n
                  /\ o.rep.ones = Refilled(r, n, fill) /\ Kept(r, o)
    <3>1. PICK s \in built :
            o = IF s.end = "return"
                THEN Returns([s.rep EXCEPT !.ones = (@ \ Word(0)) \cup first], "done") ELSE s
      BY <2>1, <2>8
    <3>2. CASE s.end = "return"
      <4> DEFINE q == [s.rep EXCEPT !.ones = (@ \ Word(0)) \cup first]
      <4>1. q.len = n /\ q.ones = Refilled(r, n, fill) /\ capacity(r) <= capacity(q)
        BY <2>7, <3>2
      <4>2. o = Returns(q, "done")
        BY <3>1, <3>2
      <4> HIDE DEF q
      <4> QED BY <4>1, <4>2, Fields DEF Kept
    <3>3. CASE s.end # "return"
      BY <2>5, <3>1, <3>3
    <3> QED BY <3>2, <3>3
  <2> QED BY <2>2, <2>8, KeptOutcomes, Fields
<1> QED BY <1>1, <1>2

(* Growing within the block a list has. *)
LEMMA GrowHeapIs ==
  ASSUME NEW q, WellFormed(q), q.kind = "heap", NEW n \in Nat, n > q.len, NEW fill \in BOOLEAN
  PROVE  LET g == GrowHeap(q, n, fill)
         IN  /\ g.kind = "heap" /\ g.cap = q.cap /\ g.len = n
             /\ g.ones = Refilled(q, n, fill)
<1> DEFINE m == q.len
           lo == words_for(m) * WordSize
           hi == words_for(n) * WordSize
           rest == IF m = 0 THEN {} ELSE Word(words_for(m) - 1) \ LastBits(m)
           new == Words(words_for(m), words_for(n))
           all == IF fill THEN q.ones \cup rest \cup new ELSE q.ones
           g == GrowHeap(q, n, fill)
<1>0. m \in Nat /\ q.ones \subseteq 0 .. (m - 1) /\ n > 0 /\ m < n
  BY RepType
<1>1. /\ lo \in Nat /\ m <= lo /\ hi \in Nat /\ n <= hi
  BY <1>0, WordsForBounds
<1>2. new = lo .. (hi - 1)
  BY DEF Words
<1>3. rest = m .. (lo - 1)
  <2>1. CASE m = 0
    <3>1. lo = 0
      BY <2>1, WordsForZero, WordSizeType
    <3> QED BY <2>1, <3>1
  <2>2. CASE m # 0
    <3> DEFINE base == (words_for(m) - 1) * WordSize
    <3>1. /\ base \in Nat /\ base < m
          /\ LastBits(m) = base .. (m - 1)
          /\ Word(words_for(m) - 1) = base .. (lo - 1)
      <4>1. m > 0
        BY <1>0, <2>2
      <4> HIDE DEF m
      <4> QED BY <1>0, <4>1, LastBitsRange
    <3>2. rest = Word(words_for(m) - 1) \ LastBits(m)
      BY <2>2
    <3> HIDE DEF m, lo, rest, base
    <3> QED BY <1>0, <1>1, <3>1, <3>2
  <2> QED BY <2>1, <2>2
<1>4. MaskLast(all, n) \cap Words(0, words_for(n)) = all \cap (0 .. (n - 1))
  BY <1>0, MaskLastIs
<1>5. g = Heap(n, q.cap, MaskLast(all, n))
  BY DEF GrowHeap
<1> HIDE DEF lo, hi, rest, new
<1>6. all \cap (0 .. (n - 1)) = Refilled(q, n, fill)
  <2> HIDE DEF m
  <2>1. CASE fill
    <3>1. all = q.ones \cup (m .. (lo - 1)) \cup (lo .. (hi - 1))
      BY <1>2, <1>3, <2>1
    <3>2. \A x \in 0 .. (n - 1) : x \in m .. (n - 1) <=> x \in m .. (lo - 1) \/ x \in lo .. (hi - 1)
      BY <1>0, <1>1
    <3> HIDE DEF all
    <3>3. \A x \in 0 .. (n - 1) : x \in all <=> x \in q.ones \/ x \in m .. (n - 1)
      BY <3>1, <3>2
    <3>4. Refilled(q, n, fill) = (q.ones \cup (m .. (n - 1))) \cap (0 .. (n - 1))
      BY <2>1 DEF Refilled, m
    <3> QED BY <3>3, <3>4
  <2>2. CASE ~fill
    BY <2>2 DEF Refilled
  <2> QED BY <2>1, <2>2
<1>7. /\ g.kind = "heap" /\ g.cap = q.cap /\ g.len = n
      /\ g.ones = MaskLast(all, n) \cap Words(0, words_for(n))
  BY <1>5 DEF Heap
<1> QED BY <1>4, <1>6, <1>7

LEMMA ResizeHeapIs ==
  ASSUME NEW r, WellFormed(r), r.kind = "heap", NEW n \in Nat, n > 0, NEW fill \in BOOLEAN
  PROVE  \A o \in ResizeHeap(r, n, fill) :
           /\ Kept(r, o)
           /\ o.end # "return" => n > r.len
           /\ o.end = "abort" => HitsEmptyGrowth(r, n)
           /\ o.end = "return" => /\ o.ret = "done" /\ o.rep.len = n
                                  /\ n > r.len => o.rep.ones = Refilled(r, n, fill)
           /\ n <= capacity(r) =>
                o.end = "return" /\ o.rep.kind = r.kind /\ o.rep.cap = r.cap
<1> DEFINE try == try_ensure_capacity(r, n)
           room == Unwrapped(try)
<1>0. r.len \in Nat /\ capacity(r) \in Int /\ r.len <= capacity(r)
  BY RepType, CapacityType
<1>1. CASE r.len >= n
  <2> DEFINE q == ShrinkHeap(r, n)
  <2>1. ResizeHeap(r, n, fill) = {Returns(q, "done")}
    BY <1>1 DEF ResizeHeap
  <2>2. q.kind = "heap" /\ q.cap = r.cap /\ q.len = n
    BY DEF ShrinkHeap, Heap
  <2>3. capacity(q) = capacity(r) /\ ~(n > r.len)
    BY <1>0, <1>1, <2>2 DEF capacity
  <2> HIDE DEF q
  <2>4. \A o \in ResizeHeap(r, n, fill) : o.end = "return" /\ o.ret = "done" /\ o.rep = q
    BY <2>1, Fields
  <2> QED BY <1>0, <2>2, <2>3, <2>4 DEF Kept
<1>2. CASE ~(r.len >= n)
  <2>0. n > r.len
    BY <1>0, <1>2
  <2>1. ResizeHeap(r, n, fill) =
          Stopped(room) \cup {Returns(GrowHeap(q, n, fill), "done") : q \in Onward(room)}
    BY <1>2 DEF ResizeHeap
  <2>2. /\ n <= capacity(r) => try = {Returns(r, "done")}
        /\ \A o \in try :
              /\ Kept(r, o)
              /\ o.ret = "err" => o.rep = r
              /\ o.end # "return" => HitsEmptyGrowth(r, n)
              /\ o.rep.ones = r.ones /\ o.rep.kind = "heap" /\ o.rep.len = r.len
    BY TryEnsureKept
  <2>3. \A o \in try : Good(o)
    BY TryEnsureGood
  <2> HIDE DEF try
  <2>4. \A o \in room : /\ Kept(r, o)
                        /\ o.end = "abort" => HitsEmptyGrowth(r, n)
                        /\ o.end = "return" => o \in try /\ WellFormed(o.rep)
    <3>1. \A o \in room : o.end = "abort" => HitsEmptyGrowth(r, n)
      BY <2>2, Fields DEF Unwrapped
    <3>2. \A o \in room : Kept(r, o)
      BY <2>2, UnwrappedKept
    <3>3. \A o \in room : Good(o) /\ (o.end = "return" => o \in try)
      BY <2>3, UnwrappedGood
    <3> QED BY <3>1, <3>2, <3>3 DEF Good
  <2>5. n <= capacity(r) => room = {Returns(r, "done")}
    BY <2>2, Fields DEF Unwrapped
  <2> HIDE DEF room
  <2>6. ASSUME NEW o \in Stopped(room)
        PROVE  /\ Kept(r, o) /\ o.end # "return" /\ ~(n <= capacity(r))
               /\ o.end = "abort" => HitsEmptyGrowth(r, n)
    <3>1. o \in room /\ o.end # "return"
      BY DEF Stopped
    <3> QED BY <2>4, <2>5, <3>1, Fields
  <2>7. ASSUME NEW p \in Onward(room), NEW o, o = Returns(GrowHeap(p, n, fill), "done")
        PROVE  /\ Kept(r, o) /\ o.end = "return" /\ o.ret = "done" /\ o.rep.len = n
               /\ o.rep.ones = Refilled(r, n, fill)
               /\ n <= capacity(r) => o.rep.kind = r.kind /\ o.rep.cap = r.cap
    <3> DEFINE g == GrowHeap(p, n, fill)
    <3>1. PICK s \in room : s.rep = p /\ s.end = "return"
      BY DEF Onward, Stopped
    <3>2. /\ WellFormed(p) /\ p.ones = r.ones /\ p.kind = "heap" /\ p.len = r.len
          /\ capacity(r) <= capacity(p)
      BY <2>2, <2>4, <3>1 DEF Kept
    <3>3. /\ g.kind = "heap" /\ g.cap = p.cap /\ g.len = n /\ g.ones = Refilled(p, n, fill)
      BY <2>0, <3>2, GrowHeapIs
    <3>4. Refilled(p, n, fill) = Refilled(r, n, fill)
      BY <3>2 DEF Refilled
    <3>5. n <= capacity(r) => p = r
      BY <2>5, <3>1, Fields
    <3>6. o.end = "return" /\ o.ret = "done" /\ o.rep = g
      BY <2>7, Fields
    <3>7. capacity(g) = capacity(p)
      BY <3>2, <3>3 DEF capacity
    <3> HIDE DEF g
    <3> QED BY <3>2, <3>3, <3>4, <3>5, <3>6, <3>7 DEF Kept
  <2> QED BY <2>0, <2>1, <2>6, <2>7
<1> QED BY <1>1, <1>2

LEMMA ResizeIs ==
  ASSUME NEW r, WellFormed(r), NEW n \in Nat, NEW f
  PROVE  \A o \in resize(r, n, f) :
           /\ Kept(r, o)
           /\ o.end # "return" => n > r.len
           /\ o.end = "return" =>
                /\ o.ret = "done" /\ o.rep.len = n
                /\ ~HitsShorterHeap(r, n) => o.rep.ones = Refilled(r, n, FillBit(r, f))
           /\ n <= capacity(r) =>
                o.end = "return" /\ o.rep.kind = r.kind /\ o.rep.cap = r.cap
<1>0. FillBit(r, f) \in BOOLEAN /\ r.len \in Nat /\ capacity(r) \in Int /\ r.len <= capacity(r)
  BY RepType, CapacityType DEF FillBit
<1>1. CASE n = 0
  <2>1. resize(r, n, f) = clear(r)
    BY <1>1 DEF resize
  <2>2. Refilled(r, n, FillBit(r, f)) = {}
    <3>1. 0 .. (n - 1) = {}
      BY <1>1
    <3> QED BY <3>1 DEF Refilled
  <2>3. \A o \in resize(r, n, f) :
           /\ Kept(r, o)
           /\ o.end = "return" /\ o.ret = "done" /\ o.rep.len = n /\ o.rep.ones = {}
           /\ o.rep.kind = r.kind /\ o.rep.cap = r.cap
    BY <1>1, <2>1, ClearIs
  <2> QED BY <2>2, <2>3
<1>2. CASE n # 0 /\ r.kind = "inline"
  <2>1. n > 0 /\ resize(r, n, f) = ResizeInline(r, n, FillBit(r, f))
    BY <1>2 DEF resize
  <2>2. \A o \in ResizeInline(r, n, FillBit(r, f)) :
           /\ Kept(r, o)
           /\ o.end # "return" => n > capacity(r)
           /\ o.end = "return" => /\ o.ret = "done" /\ o.rep.len = n
                                  /\ o.rep.ones = Refilled(r, n, FillBit(r, f))
           /\ n <= capacity(r) => o.rep.kind = r.kind /\ o.rep.cap = r.cap
    BY <1>0, <1>2, <2>1, ResizeInlineIs
  <2> QED BY <1>0, <2>1, <2>2
<1>3. CASE n # 0 /\ r.kind # "inline"
  <2>1. n > 0 /\ r.kind = "heap" /\ resize(r, n, f) = ResizeHeap(r, n, FillBit(r, f))
    BY <1>3, RepType DEF resize
  <2>2. \A o \in ResizeHeap(r, n, FillBit(r, f)) :
           /\ Kept(r, o)
           /\ o.end # "return" => n > r.len
           /\ o.end = "return" => /\ o.ret = "done" /\ o.rep.len = n
                                  /\ n > r.len => o.rep.ones = Refilled(r, n, FillBit(r, f))
           /\ n <= capacity(r) =>
                o.end = "return" /\ o.rep.kind = r.kind /\ o.rep.cap = r.cap
    BY <1>0, <2>1, ResizeHeapIs
  <2>3. ~HitsShorterHeap(r, n) => n > r.len
    BY <1>0, <2>1 DEF HitsShorterHeap
  <2> QED BY <2>1, <2>2, <2>3
<1> QED BY <1>1, <1>2, <1>3

(* Shortening a list asks for nothing, so it cannot fail. *)
LEMMA TruncateIs ==
  ASSUME NEW r, WellFormed(r), NEW n \in Nat
  PROVE  \A o \in truncate(r, n) :
           /\ Kept(r, o) /\ WellFormed(o.rep)
           /\ o.end = "return" /\ o.ret = "done"
           /\ o.rep.kind = r.kind /\ o.rep.cap = r.cap
           /\ o.rep.len = IF n < r.len THEN n ELSE r.len
           /\ n >= r.len \/ ~HitsShorterHeap(r, n) => o.rep.ones = r.ones \cap (0 .. (n - 1))
<1>0. r.len \in Nat /\ capacity(r) \in Int /\ r.len <= capacity(r) /\ r.ones \subseteq 0 .. (r.len - 1)
  BY RepType, CapacityType
<1>1. CASE n >= r.len
  <2>1. truncate(r, n) = {Returns(r, "done")} /\ ~(n < r.len)
    BY <1>0, <1>1 DEF truncate
  <2>2. r.ones = r.ones \cap (0 .. (n - 1))
    BY <1>0, <1>1
  <2>3. \A o \in truncate(r, n) : o.end = "return" /\ o.ret = "done" /\ o.rep = r
    BY <2>1, Fields
  <2>4. \A o \in truncate(r, n) : Kept(r, o)
    BY <2>1, KeptOutcomes
  <2> QED BY <2>1, <2>2, <2>3, <2>4
<1>2. CASE ~(n >= r.len)
  <2>1. truncate(r, n) = resize(r, n, "zero") /\ n < r.len /\ n <= capacity(r)
    BY <1>0, <1>2 DEF truncate
  <2>2. FillBit(r, "zero") = FALSE
    BY DEF FillBit
  <2>3. Refilled(r, n, FillBit(r, "zero")) = r.ones \cap (0 .. (n - 1))
    BY <2>2 DEF Refilled
  <2>4. \A o \in truncate(r, n) : WellFormed(o.rep)
    BY TruncateGood DEF Good
  <2>5. \A o \in resize(r, n, "zero") :
           /\ Kept(r, o)
           /\ o.end = "return" =>
                /\ o.ret = "done" /\ o.rep.len = n
                /\ ~HitsShorterHeap(r, n) => o.rep.ones = Refilled(r, n, FillBit(r, "zero"))
           /\ n <= capacity(r) =>
                o.end = "return" /\ o.rep.kind = r.kind /\ o.rep.cap = r.cap
    BY ResizeIs
  <2> QED BY <1>2, <2>1, <2>3, <2>4, <2>5
<1> QED BY <1>1, <1>2

LEMMA PopBitIs ==
  ASSUME NEW r, WellFormed(r)
  PROVE  \A o \in pop_bit(r) :
           /\ Kept(r, o) /\ o.end = "return"
           /\ r.len = 0 => o.ret = "none" /\ o.rep = r
           /\ r.len # 0 =>
                /\ o.ret = BitAt(Value(r), r.len - 1) /\ o.rep.len = r.len - 1
                /\ ~HitsShorterHeap(r, r.len - 1) => o.rep.ones = r.ones \cap (0 .. (r.len - 2))
<1>1. CASE r.len = 0
  <2>1. pop_bit(r) = {Returns(r, "none")}
    BY <1>1 DEF pop_bit
  <2> QED BY <1>1, <2>1, KeptOutcomes, Fields
<1>2. CASE r.len # 0
  <2> DEFINE n == r.len - 1
             cut == truncate(r, n)
             x == BitAt(Value(r), n)
  <2>0. n \in Nat /\ n < r.len /\ r.len - 2 = n - 1
    BY <1>2, RepType
  <2>1. pop_bit(r) = Stopped(cut) \cup {Returns(q, x) : q \in Onward(cut)}
    BY <1>2 DEF pop_bit, Returning
  <2> HIDE DEF x, n
  <2>2. \A o \in cut :
           /\ Kept(r, o) /\ o.end = "return" /\ o.rep.len = n
           /\ ~HitsShorterHeap(r, n) => o.rep.ones = r.ones \cap (0 .. (n - 1))
    BY <2>0, TruncateIs
  <2> HIDE DEF cut
  <2>3. Stopped(cut) = {}
    BY <2>2 DEF Stopped
  <2>4. ASSUME NEW q \in Onward(cut), NEW o, o = Returns(q, x)
        PROVE  /\ Kept(r, o) /\ o.end = "return" /\ o.ret = x /\ o.rep.len = n
               /\ ~HitsShorterHeap(r, n) => o.rep.ones = r.ones \cap (0 .. (n - 1))
    <3>1. PICK s \in cut : s.rep = q
      BY DEF Onward, Stopped
    <3> QED BY <2>2, <2>4, <3>1, Fields DEF Kept
  <2> QED BY <1>2, <2>0, <2>1, <2>3, <2>4 DEF n, x
<1> QED BY <1>1, <1>2

-----------------------------------------------------------------------------
(* Copies and replacements. *)

LEMMA NewListKept ==
  ASSUME NEW r, WellFormed(r), NEW n \in Nat, NEW b
  PROVE  \A o \in zeros(r, n) \cup ones(r, n) \cup from_bits(r, b) \cup words(r, b) :
           o.end # "return" => o = Aborts(r)
<1>1. \A m, k : \A o \in with_capacity(r, k, m) : o.end # "return" => o = Aborts(r)
  BY Fields DEF with_capacity
<1> QED BY <1>1, Fields DEF zeros, ones, from_bits, words

LEMMA CloneKept ==
  ASSUME NEW r, WellFormed(r)
  PROVE  \A o \in clone(r) \cup shrink_to_fit(r) : o.end # "return" => o = Aborts(r)
<1>1. \A o \in clone(r) : o.end # "return" => o = Aborts(r)
  BY Fields DEF clone
<1>2. ASSUME NEW o \in shrink_to_fit(r), o.end # "return" PROVE o = Aborts(r)
  <2>1. \/ o = Aborts(r)
        \/ \E q : o = Returns(q, "done")
    BY DEF shrink_to_fit
  <2> QED BY <1>2, <2>1, Fields
<1> QED BY <1>1, <1>2

LEMMA ReverseKept ==
  ASSUME NEW r, WellFormed(r)
  PROVE  \A o \in reverse(r) : o.end # "return" => o.rep = r /\ o.ret = "none"
<1>1. \A o \in from_bits(r, Mirror(Value(r))) : o.end # "return" => o = Aborts(r)
  BY NewListKept
<1> QED BY <1>1, Fields DEF reverse

LEMMA RepeatKept ==
  ASSUME NEW r, WellFormed(r), NEW k \in Nat
  PROVE  \A o \in repeat(r, k) : Kept(r, o)
<1> DEFINE more == Replicate(Value(r), k - 1)
<1>1. CASE k = 0
  BY <1>1, ClearIs DEF repeat
<1>2. CASE k # 0
  <2>1. more.len \in Nat /\ more.ones \subseteq 0 .. (more.len - 1)
    BY <1>2, ValueType, ReplicateInside
  <2>2. repeat(r, k) = Stopped(clone(r)) \cup
          (IF more.len > UsizeMax THEN {Panics(r)} ELSE push_bits(r, more))
    BY <1>2 DEF repeat
  <2> HIDE DEF more
  <2>3. \A o \in push_bits(r, more) : Kept(r, o)
    BY <2>1, PushBitsIs
  <2>4. \A o \in Stopped(clone(r)) : o = Aborts(r)
    BY CloneKept DEF Stopped
  <2> QED BY <2>2, <2>3, <2>4, KeptOutcomes
<1> QED BY <1>1, <1>2

LEMMA WrittenKept ==
  ASSUME NEW r, WellFormed(r), NEW s, NEW x
  PROVE  Kept(r, Returns(Written(r, s), x))
<1>1. Written(r, s).kind = r.kind /\ Written(r, s).cap = r.cap
  BY DEF WellFormed, Written
<1>2. capacity(Written(r, s)) = capacity(r)
  BY <1>1 DEF capacity
<1> QED BY <1>2, CapacityType, Fields DEF Kept

LEMMA SetKept ==
  ASSUME NEW r, WellFormed(r), NEW i, NEW j, NEW v, NEW b
  PROVE  \A o \in set(r, i, v) \cup set_range(r, i, b) \cup set_bits_at(r, i, b)
                   \cup set_range_fill(r, i, j, v) : Kept(r, o)
BY WrittenKept, KeptOutcomes DEF set, set_range, set_bits_at, set_range_fill

-----------------------------------------------------------------------------
(* insert gets all its memory from the first of its four calls: what comes *)
(* after it, on a list that is already cut, finds the room it needs.  So   *)
(* it is if the new length fits a word.                                    *)
LEMMA InsertIs ==
  ASSUME NEW r, WellFormed(r), NEW start \in Nat, NEW stop \in Nat,
         NEW b, b.len \in Nat, b.ones \subseteq 0 .. (b.len - 1),
         stop > r.len \/ ~InsertOverflows(r, start, stop, b)
  PROVE  \A o \in insert(r, start, stop, b) :
           /\ Kept(r, o)
           /\ o.end = "return" =>
                LET tail == Drop(Value(r), stop)
                    total == start + b.len + tail.len
                IN  /\ stop <= r.len /\ o.ret = "done" /\ o.rep.len = total
                    /\ ~HitsInsert(r, start, total) =>
                         o.rep.ones = ((r.ones \cap (0 .. (start - 1))) \cup Up(b.ones, start))
                                        \cup Up(tail.ones, start + b.len)
<1> DEFINE tail == Drop(Value(r), stop)
           copied == IF tail.len <= DATA_BITS THEN {} ELSE {Aborts(r)}
           total == start + b.len + tail.len
           resized == resize(r, total, "zero")
           cut == Stopped(resized) \cup UNION {truncate(q, start) : q \in Onward(resized)}
           pushed == Stopped(cut) \cup UNION {push_bits(q, b) : q \in Onward(cut)}
           done == Stopped(pushed) \cup UNION {push_bits(q, tail) : q \in Onward(pushed)}
           prefix == r.ones \cap (0 .. (start - 1))
<1>0. r.len \in Nat /\ capacity(r) \in Int
  BY RepType, CapacityType
<1>1. CASE is_invalid_range(stop, r.len, r.len)
  <2>1. insert(r, start, stop, b) = {Panics(r)}
    BY <1>1 DEF insert
  <2> QED BY <2>1, KeptOutcomes, Fields
<1>2. CASE ~is_invalid_range(stop, r.len, r.len)
  <2>0. stop <= r.len
    BY <1>0, <1>2 DEF is_invalid_range
  <2>2. tail.len \in Nat /\ tail.ones \subseteq 0 .. (tail.len - 1)
    BY <1>2, ValueType DEF Drop, Str, is_invalid_range
  <2>1. insert(r, start, stop, b) = copied \cup Asserted(done, total)
    <3>1. ~InsertOverflows(r, start, stop, b)
      BY <1>0, <2>0
    <3>2. InsertedLen(r, start, stop, b) = total /\ total \in Nat
      BY <2>2 DEF InsertedLen
    <3>3. InsertedLen(r, start, stop, b) % (UsizeMax + 1) = total
      BY <3>1, <3>2, SumInWord DEF InsertOverflows
    <3> QED BY <1>2, <3>1, <3>3 DEF insert
  <2>3. total \in Nat /\ start <= total /\ start + b.len <= total /\ total = (start + b.len) + tail.len
    BY <2>2
  <2>4. \A o \in copied : Kept(r, o) /\ o.end # "return"
    BY KeptOutcomes, Fields
  <2> HIDE DEF tail, copied, total
  <2>5. ASSUME NEW q \in Onward(resized)
        PROVE  /\ WellFormed(q) /\ q.len = total /\ total <= capacity(q)
               /\ capacity(r) <= capacity(q)
               /\ start = 0 \/ (r.kind = "inline" /\ total <= DATA_BITS) =>
                    /\ start = 0 \/ ~HitsShorterHeap(q, start)
                    /\ q.ones \cap (0 .. (start - 1)) = prefix
    <3>1. PICK o \in resized : o.rep = q /\ o.end = "return"
      BY DEF Onward, Stopped
    <3>2. /\ Kept(r, o) /\ q.len = total
          /\ ~HitsShorterHeap(r, total) => q.ones = Refilled(r, total, FillBit(r, "zero"))
          /\ total <= capacity(r) => q.kind = r.kind
      BY <2>3, <3>1, ResizeIs
    <3>3. WellFormed(q)
      BY <2>3, <3>1, ResizeGood DEF Good
    <3>4. total <= capacity(q) /\ capacity(r) <= capacity(q)
      BY <3>1, <3>2, <3>3, CapacityType DEF Kept
    <3>5. CASE start = 0
      BY <3>2, <3>3, <3>4, <3>5
    <3>6. ASSUME r.kind = "inline", total <= DATA_BITS
          PROVE  ~HitsShorterHeap(q, start) /\ q.ones \cap (0 .. (start - 1)) = prefix
      <4>1. q.kind = "inline"
        BY <3>2, <3>6 DEF capacity
      <4>2. ~HitsShorterHeap(q, start) /\ ~HitsShorterHeap(r, total)
        BY <3>6, <4>1 DEF HitsShorterHeap
      <4>3. q.ones = r.ones \cap (0 .. (total - 1))
        BY <3>2, <4>2 DEF Refilled, FillBit
      <4>4. 0 .. (start - 1) \subseteq 0 .. (total - 1)
        BY <2>3
      <4> QED BY <4>2, <4>3, <4>4
    <3> QED BY <3>2, <3>3, <3>4, <3>5, <3>6
  <2>6. \A o \in Stopped(resized) : Kept(r, o) /\ o.end # "return"
    BY <2>3, ResizeIs DEF Stopped
  <2> HIDE DEF resized, prefix
  <2>7. ASSUME NEW q \in Onward(resized), NEW o \in truncate(q, start)
        PROVE  /\ o.end = "return" /\ WellFormed(o.rep) /\ o.rep.len = start
               /\ total <= capacity(o.rep) /\ capacity(r) <= capacity(o.rep)
               /\ start = 0 \/ (r.kind = "inline" /\ total <= DATA_BITS) => o.rep.ones = prefix
    <3>1. /\ Kept(q, o) /\ WellFormed(o.rep) /\ o.end = "return"
          /\ o.rep.kind = q.kind /\ o.rep.cap = q.cap
          /\ o.rep.len = IF start < q.len THEN start ELSE q.len
          /\ start >= q.len \/ ~HitsShorterHeap(q, start) =>
               o.rep.ones = q.ones \cap (0 .. (start - 1))
      BY <2>5, TruncateIs
    <3>2. o.rep.len = start
      BY <2>3, <2>5, <3>1
    <3>3. capacity(o.rep) = capacity(q)
      BY <3>1 DEF capacity
    <3>4. start = 0 => ~HitsShorterHeap(q, start)
      BY DEF HitsShorterHeap
    <3> QED BY <2>5, <3>1, <3>2, <3>3, <3>4
  <2>8. /\ \A o \in Stopped(cut) : Kept(r, o) /\ o.end # "return"
        /\ \A q \in Onward(cut) :
             /\ WellFormed(q) /\ q.len = start
             /\ total <= capacity(q) /\ capacity(r) <= capacity(q)
             /\ start = 0 \/ (r.kind = "inline" /\ total <= DATA_BITS) => q.ones = prefix
    BY <2>6, <2>7 DEF Stopped, Onward
  <2> HIDE DEF cut
  <2>9. ASSUME NEW q \in Onward(cut), NEW o \in push_bits(q, b)
        PROVE  /\ o.end = "return" /\ WellFormed(o.rep) /\ o.rep.len = start + b.len
               /\ total <= capacity(o.rep) /\ capacity(r) <= capacity(o.rep)
               /\ start = 0 \/ (r.kind = "inline" /\ total <= DATA_BITS) =>
                    o.rep.ones = prefix \cup Up(b.ones, start)
    <3>0. /\ WellFormed(q) /\ q.len = start
          /\ total <= capacity(q) /\ capacity(r) <= capacity(q)
          /\ start = 0 \/ (r.kind = "inline" /\ total <= DATA_BITS) => q.ones = prefix
      BY <2>8
    <3>1. q.len + b.len <= capacity(q)
      BY <2>3, <3>0, CapacityType
    <3>2. /\ o.end = "return" /\ o.rep.kind = q.kind /\ o.rep.cap = q.cap
          /\ o.rep.len = q.len + b.len
          /\ o.rep.ones = q.ones \cup Up(b.ones, q.len)
      BY <3>0, <3>1, PushBitsIs
    <3>3. WellFormed(o.rep)
      BY <3>0, PushBitsGood DEF Good
    <3>4. capacity(o.rep) = capacity(q)
      BY <3>2 DEF capacity
    <3> QED BY <3>0, <3>2, <3>3, <3>4
  <2>10. /\ \A o \in Stopped(pushed) : Kept(r, o) /\ o.end # "return"
         /\ \A q \in Onward(pushed) :
              /\ WellFormed(q) /\ q.len = start + b.len
              /\ total <= capacity(q) /\ capacity(r) <= capacity(q)
              /\ start = 0 \/ (r.kind = "inline" /\ total <= DATA_BITS) =>
                   q.ones = prefix \cup Up(b.ones, start)
    BY <2>8, <2>9 DEF Stopped, Onward
  <2> HIDE DEF pushed
  <2>11. ASSUME NEW q \in Onward(pushed), NEW o \in push_bits(q, tail)
         PROVE  /\ Kept(r, o) /\ o.end = "return" /\ o.ret = "done" /\ o.rep.len = total
                /\ start = 0 \/ (r.kind = "inline" /\ total <= DATA_BITS) =>
                     o.rep.ones = (prefix \cup Up(b.ones, start)) \cup Up(tail.ones, start + b.len)
    <3>0. /\ WellFormed(q) /\ q.len = start + b.len
          /\ total <= capacity(q) /\ capacity(r) <= capacity(q)
          /\ start = 0 \/ (r.kind = "inline" /\ total <= DATA_BITS) =>
               q.ones = prefix \cup Up(b.ones, start)
      BY <2>10
    <3>1. q.len + tail.len <= capacity(q)
      BY <2>3, <3>0
    <3>2. /\ o.end = "return" /\ o.ret = "done"
          /\ o.rep.kind = q.kind /\ o.rep.cap = q.cap
          /\ o.rep.len = q.len + tail.len
          /\ o.rep.ones = q.ones \cup Up(tail.ones, q.len)
      BY <2>2, <3>0, <3>1, PushBitsIs
    <3>3. capacity(o.rep) = capacity(q)
      BY <3>2 DEF capacity
    <3> QED BY <2>3, <3>0, <3>2, <3>3 DEF Kept
  <2>12. ~HitsInsert(r, start, total) => start = 0 \/ (r.kind = "inline" /\ total <= DATA_BITS)
    BY DEF HitsInsert
  <2>13. \A o \in done : /\ Kept(r, o)
                         /\ o.end = "return" => o.rep.len = total
    BY <2>10, <2>11
  <2>14. Asserted(done, total) = done
    <3> HIDE DEF done
    <3> QED BY <2>13, AssertedIs
  <2> QED BY <2>0, <2>1, <2>4, <2>10, <2>11, <2>12, <2>14 DEF tail, total, prefix
<1> QED BY <1>1, <1>2

(* Else a debug build stops before it does anything, and a release build   *)
(* at least gives no memory back.                                          *)
LEMMA InsertWraps ==
  ASSUME NEW r, WellFormed(r), NEW start \in Nat, NEW stop \in Nat,
         NEW b, b.len \in Nat, b.ones \subseteq 0 .. (b.len - 1),
         stop <= r.len, InsertOverflows(r, start, stop, b)
  PROVE  \A o \in insert(r, start, stop, b) :
           /\ capacity(r) <= capacity(o.rep)
           /\ DebugBuild => Kept(r, o)
<1> DEFINE tail == Drop(Value(r), stop)
           copied == IF tail.len <= DATA_BITS THEN {} ELSE {Aborts(r)}
           total == InsertedLen(r, start, stop, b) % (UsizeMax + 1)
           resized == resize(r, total, "zero")
           cut == Stopped(resized) \cup UNION {truncate(q, start) : q \in Onward(resized)}
           pushed == Stopped(cut) \cup UNION {push_bits(q, b) : q \in Onward(cut)}
           done == Stopped(pushed) \cup UNION {push_bits(q, tail) : q \in Onward(pushed)}
           Grown(q) == WellFormed(q) /\ capacity(r) <= capacity(q)
<1>0. r.len \in Nat /\ capacity(r) \in Int
  BY RepType, CapacityType
<1>1. /\ DebugBuild => insert(r, start, stop, b) = copied \cup {Panics(r)}
      /\ ~DebugBuild => insert(r, start, stop, b) = copied \cup Asserted(done, total)
  BY <1>0 DEF insert, is_invalid_range
<1>2. tail.len \in Nat /\ tail.ones \subseteq 0 .. (tail.len - 1)
  BY <1>0, ValueType DEF Drop, Str
<1>3. total \in Nat
  BY <1>2, SumInWord DEF InsertedLen
<1>4. \A o \in copied \cup {Panics(r)} : Kept(r, o)
  BY KeptOutcomes
<1> HIDE DEF tail, copied, total
<1>5. \A o \in resized : Grown(o.rep)
  BY <1>3, ResizeIs, ResizeGood DEF Kept, Good
<1> HIDE DEF resized
<1>6. \A o \in cut : Grown(o.rep)
  <2>1. ASSUME NEW q \in Onward(resized), NEW o \in truncate(q, start) PROVE Grown(o.rep)
    <3>1. WellFormed(q) /\ capacity(r) <= capacity(q)
      BY <1>5 DEF Onward, Stopped
    <3>2. WellFormed(o.rep) /\ capacity(q) <= capacity(o.rep)
      BY <3>1, TruncateIs DEF Kept
    <3> QED BY <1>0, <3>1, <3>2, CapacityType
  <2> QED BY <1>5, <2>1 DEF Stopped
<1> HIDE DEF cut
<1>7. \A o \in pushed : Grown(o.rep)
  <2>1. ASSUME NEW q \in Onward(cut), NEW o \in push_bits(q, b) PROVE Grown(o.rep)
    <3>1. WellFormed(q) /\ capacity(r) <= capacity(q)
      BY <1>6 DEF Onward, Stopped
    <3>2. WellFormed(o.rep) /\ capacity(q) <= capacity(o.rep)
      BY <3>1, PushBitsIs, PushBitsGood DEF Kept, Good
    <3> QED BY <1>0, <3>1, <3>2, CapacityType
  <2> QED BY <1>6, <2>1 DEF Stopped
<1> HIDE DEF pushed
<1>8. \A o \in done : Grown(o.rep)
  <2>1. ASSUME NEW q \in Onward(pushed), NEW o \in push_bits(q, tail) PROVE Grown(o.rep)
    <3>1. WellFormed(q) /\ capacity(r) <= capacity(q)
      BY <1>7 DEF Onward, Stopped
    <3>2. WellFormed(o.rep) /\ capacity(q) <= capacity(o.rep)
      BY <1>2, <3>1, PushBitsIs, PushBitsGood DEF Kept, Good
    <3> QED BY <1>0, <3>1, <3>2, CapacityType
  <2> QED BY <1>7, <2>1 DEF Stopped
<1> HIDE DEF done
<1>9. \A o \in Asserted(done, total) : capacity(r) <= capacity(o.rep)
  BY <1>8, AssertedIs, Fields
<1>10. \A o : Kept(r, o) => capacity(r) <= capacity(o.rep)
  BY DEF Kept
<1>11. CASE DebugBuild
  BY <1>1, <1>4, <1>10, <1>11
<1>12. CASE ~DebugBuild
  BY <1>1, <1>4, <1>9, <1>10, <1>12
<1> QED BY <1>11, <1>12

-----------------------------------------------------------------------------
(* The steps of the specification. *)

(* The one call that may change the list and then panic. *)
InsertHasWrapped ==
  /\ out'.op = "insert" /\ ~DebugBuild
  /\ InsertOverflows(rep, args'[1], args'[2], args'[3])

(* Whatever a call is, if it does not return it leaves the list as it was; *)
(* if it is one of Keeping it also keeps the capacity.                     *)
StepKept ==
  /\ out'.end # "return" => rep' = rep \/ InsertHasWrapped
  /\ out'.op \in Keeping => capacity(rep) <= capacity(rep')

LEMMA CallKept ==
  ASSUME NEW op, NEW a, NEW S, Call(op, a, S), \A o \in S : o.end # "return" => o.rep = rep,
         op \in Keeping => \A o \in S : Kept(rep, o)
  PROVE  StepKept
BY DEF Call, StepKept, Kept

LEMMA NextKept == IInv /\ Next => StepKept
<1> SUFFICES ASSUME IInv, Next PROVE StepKept
  OBVIOUS
<1>0. WellFormed(rep)
  BY DEF IInv
<1>a. \A o : Kept(rep, o) => (o.end # "return" => o.rep = rep)
  BY DEF Kept
<1>b. \A o : o = Aborts(rep) => o.rep = rep
  BY Fields
<1> DEFINE Intact(S) == \A o \in S : o.end # "return" => o.rep = rep
<1>c. \A n \in Nat : \A b :
        /\ Intact(zeros(rep, n)) /\ Intact(ones(rep, n))
        /\ Intact(from_bits(rep, b)) /\ Intact(words(rep, b))
  BY <1>0, <1>b, NewListKept
<1>d. Intact(clone(rep)) /\ Intact(shrink_to_fit(rep)) /\ Intact(reverse(rep))
  BY <1>0, <1>b, CloneKept, ReverseKept
<1>1. CASE Zeros
  BY <1>1, <1>c, CallKept, Bounds DEF Zeros, Keeping
<1>2. CASE Ones
  BY <1>2, <1>c, CallKept, Bounds DEF Ones, Keeping
<1>3. CASE FromBits
  BY <1>3, <1>c, CallKept DEF FromBits, Keeping
<1>4. CASE FromWords
  BY <1>4, <1>c, CallKept DEF FromWords, Keeping
<1>5. CASE TryReserve
  BY <1>0, <1>a, <1>5, CallKept, TryReserveKept, Bounds DEF TryReserve
<1>6. CASE Reserve
  BY <1>0, <1>a, <1>6, CallKept, ReserveKept, Bounds DEF Reserve
<1>7. CASE Clear
  BY <1>0, <1>a, <1>7, CallKept, ClearIs DEF Clear
<1>8. CASE Resize
  BY <1>0, <1>a, <1>8, CallKept, ResizeIs, Bounds DEF Resize
<1>9. CASE Truncate
  BY <1>0, <1>a, <1>9, CallKept, TruncateIs, Bounds DEF Truncate
<1>10. CASE ShrinkToFit
  BY <1>10, <1>d, CallKept DEF ShrinkToFit, Keeping
<1>11. CASE PushBits
  BY <1>0, <1>a, <1>11, CallKept, PushBitsIs, Bounds DEF PushBits
<1>12. CASE PushManyBits
  BY <1>0, <1>a, <1>12, CallKept, PushManyBitsIs, Bounds DEF PushManyBits
<1>13. CASE PopBit
  BY <1>0, <1>a, <1>13, CallKept, PopBitIs DEF PopBit
<1>14. CASE Repeat
  BY <1>0, <1>a, <1>14, CallKept, RepeatKept, Bounds DEF Repeat
<1>15. CASE Insert
  <2>1. PICK start \in Positions, stop \in Positions, b \in Operands :
           Call("insert", <<start, stop, b>>, insert(rep, start, stop, b))
    BY <1>15 DEF Insert
  <2>2. /\ start \in Nat /\ stop \in Nat /\ b.len \in Nat /\ b.ones \subseteq 0 .. (b.len - 1)
        /\ rep.len \in Nat
    BY <1>0, RepType, Bounds
  <2>3. CASE stop > rep.len \/ ~InsertOverflows(rep, start, stop, b)
    <3>1. \A o \in insert(rep, start, stop, b) : Kept(rep, o)
      BY <1>0, <2>2, <2>3, InsertIs
    <3> QED BY <1>a, <2>1, <3>1, CallKept
  <2>4. CASE ~(stop > rep.len) /\ InsertOverflows(rep, start, stop, b)
    <3>1. \A o \in insert(rep, start, stop, b) :
             capacity(rep) <= capacity(o.rep) /\ (DebugBuild => Kept(rep, o))
      BY <1>0, <2>2, <2>4, InsertWraps
    <3>2. CASE DebugBuild
      BY <1>a, <2>1, <3>1, <3>2, CallKept
    <3>3. CASE ~DebugBuild
      <4>1. out'.op = "insert" /\ args' = <<start, stop, b>> /\ capacity(rep) <= capacity(rep')
        BY <2>1, <3>1 DEF Call, capacity
      <4>2. InsertHasWrapped
        BY <2>4, <3>3, <4>1 DEF InsertHasWrapped
      <4> QED BY <4>1, <4>2 DEF StepKept
    <3> QED BY <3>2, <3>3
  <2> QED BY <2>3, <2>4
<1>16. CASE Set
  BY <1>0, <1>a, <1>16, CallKept, SetKept DEF Set
<1>17. CASE SetRange
  BY <1>0, <1>a, <1>17, CallKept, SetKept DEF SetRange
<1>18. CASE SetBitsAt
  BY <1>0, <1>a, <1>18, CallKept, SetKept DEF SetBitsAt
<1>19. CASE SetRangeFill
  BY <1>0, <1>a, <1>19, CallKept, SetKept DEF SetRangeFill
<1>20. CASE Reverse
  BY <1>20, <1>d, CallKept DEF Reverse, Keeping
<1>21. CASE Clone
  BY <1>21, <1>d, CallKept DEF Clone, Keeping
<1> QED
  BY <1>1, <1>2, <1>3, <1>4, <1>5, <1>6, <1>7, <1>8, <1>9, <1>10, <1>11, <1>12, <1>13,
     <1>14, <1>15, <1>16, <1>17, <1>18, <1>19, <1>20, <1>21 DEF Next

(* A call that panics leaves the list as it found it: the failing calls    *)
(* fail before they change anything, and insert, which cuts the list and   *)
(* then pushes twice, has all the memory it needs by then.  The exception  *)
(* is the insert of a release build whose new length does not fit a word.  *)
THEOREM PanicsLeaveTheListIntact == Spec => PanicLeavesListIntact
<1> DEFINE Intact == rep' = rep \/ InsertHasWrapped
<1>1. IInv /\ Next => (out'.end = "panic" => Intact)
  BY NextKept DEF StepKept
<1>2. IInv /\ [Next]_vars =>
        [out'.end = "panic" =>
           \/ rep' = rep
           \/ /\ out'.op = "insert" /\ ~DebugBuild
              /\ InsertOverflows(rep, args'[1], args'[2], args'[3])]_vars
  BY <1>1 DEF InsertHasWrapped
<1> QED BY <1>2, SpecIInv, PTL DEF Spec, PanicLeavesListIntact

(* The calls that may not give memory back keep the capacity, also when    *)
(* the list moves to the heap, is cleared, or is cut.                      *)
THEOREM CapacityIsKept == Spec => CapacityKept
<1>1. IInv /\ [Next]_vars => [out'.op \in Keeping => capacity(rep') >= capacity(rep)]_vars
  <2> SUFFICES ASSUME IInv, Next, out'.op \in Keeping PROVE capacity(rep') >= capacity(rep)
    OBVIOUS
  <2>1. IInv'
    BY NextIInv
  <2>2. capacity(rep) \in Int /\ capacity(rep') \in Int
    BY <2>1, CapacityType DEF IInv
  <2> QED BY <2>2, NextKept DEF StepKept
<1> QED BY <1>1, SpecIInv, PTL DEF Spec, CapacityKept

(* What reserve promises it keeps: after it there is room, the bits are    *)
(* the same, and within its room a list grows without failing or moving.   *)
THEOREM RoomIsAlwaysUsed == Spec => []RoomIsUsed
<1>1. IInv => RoomIsUsed
  <2> SUFFICES ASSUME IInv PROVE RoomIsUsed
    OBVIOUS
  <2>0. WellFormed(rep) /\ rep.len \in Nat /\ capacity(rep) \in Int
    BY RepType, CapacityType DEF IInv
  <2>1. ASSUME NEW n \in Reserves, NEW o \in try_reserve(rep, n)
        PROVE  /\ o.ret = "done" => capacity(o.rep) >= rep.len + n
               /\ o.end = "return" => Value(o.rep) = Value(rep)
    <3>1. n \in Nat
      BY Bounds
    <3>2. WellFormed(o.rep) /\ o.rep.ones = rep.ones /\ o.rep.len = rep.len
      BY <2>0, <3>1, TryReserveGood, TryReserveKept DEF Good
    <3>3. o.ret = "done" => o.end = "return" /\ rep.len + n <= capacity(o.rep)
      BY <2>0, <3>1, TryReserveKept, TryReserveGood
    <3>4. capacity(o.rep) \in Int
      BY <3>2, CapacityType
    <3> QED BY <2>0, <3>1, <3>2, <3>3, <3>4 DEF Value
  <2>2. ASSUME NEW b \in Operands, rep.len + b.len <= capacity(rep), NEW o \in push_bits(rep, b)
        PROVE  o.end = "return" /\ o.rep.kind = rep.kind /\ o.rep.cap = rep.cap
    BY <2>0, <2>2, PushBitsIs, Bounds
  <2>3. ASSUME NEW n \in rep.len .. capacity(rep), NEW v \in BOOLEAN, NEW f,
               NEW o \in resize(rep, n, f) \cup push_many_bits(rep, v, n - rep.len)
        PROVE  o.end = "return" /\ o.rep.kind = rep.kind /\ o.rep.cap = rep.cap
    <3>1. n \in Nat /\ n <= capacity(rep) /\ n - rep.len \in Nat
          /\ rep.len + (n - rep.len) <= capacity(rep)
      BY <2>0
    <3>2. CASE o \in resize(rep, n, f)
      BY <2>0, <3>1, <3>2, ResizeIs
    <3>3. CASE o \in push_many_bits(rep, v, n - rep.len)
      BY <2>0, <3>1, <3>3, PushManyBitsIs
    <3> QED BY <3>2, <3>3
  <2> QED BY <2>1, <2>2, <2>3 DEF RoomIsUsed
<1> QED BY <1>1, SpecIInv, PTL

(* What a growing call leaves in memory does not depend on what memory     *)
(* held that was never written.                                            *)
THEOREM NoGarbageIsLeft == Spec => []NoGarbage
<1>1. IInv => NoGarbage
  <2> SUFFICES ASSUME IInv PROVE NoGarbage
    OBVIOUS
  <2>0. WellFormed(rep)
    BY DEF IInv
  <2>1. ASSUME NEW b \in Operands, NEW o \in push_bits(rep, b), o.end = "return"
        PROVE  o.rep.ones = rep.ones \cup Up(b.ones, rep.len)
    BY <2>0, <2>1, PushBitsIs, Bounds
  <2>2. ASSUME NEW n \in 0 .. MaxLen, NEW v \in BOOLEAN, NEW o \in push_many_bits(rep, v, n),
               o.end = "return"
        PROVE  o.rep.ones = rep.ones \cup
                 (IF (rep.kind = "inline" /\ rep.len + n <= DATA_BITS) \/ v
                  THEN rep.len .. (rep.len + n - 1) ELSE {})
    <3>1. n \in Nat
      BY Bounds
    <3> QED BY <2>0, <2>2, <3>1, PushManyBitsIs
  <2> QED BY <2>1, <2>2 DEF NoGarbage
<1> QED BY <1>1, SpecIInv, PTL

-----------------------------------------------------------------------------
(* The refinement: in either of its forms, in a debug and in a release     *)
(* build, every call of a careful owner has the effect on the string that  *)
(* the promise gives it, or fails in a way the promise allows.             *)

(* BitListSpec has its own copy of the operators on strings: they are the  *)
(* same.                                                                   *)
LEMMA SameStrings ==
  /\ Abstract!NoBits = NoBits
  /\ \A n, v : Abstract!Constant(n, v) = Constant(n, v)
  /\ \A a, b : Abstract!Concat(a, b) = Concat(a, b)
  /\ \A a, n : Abstract!Take(a, n) = Take(a, n) /\ Abstract!Drop(a, n) = Drop(a, n)
  /\ \A a, n, b : Abstract!Overwrite(a, n, b) = Overwrite(a, n, b)
  /\ \A a, k : Abstract!Replicate(a, k) = Replicate(a, k)
  /\ \A a : Abstract!Mirror(a) = Mirror(a)
  /\ \A a, i : Abstract!BitAt(a, i) = BitAt(a, i)
  /\ \A a : Abstract!LastBit(a) = LastBit(a)
  /\ \A n, s : Abstract!Str(n, s) = Str(n, s)
BY DEF Abstract!NoBits, Abstract!Constant, Abstract!Concat, Abstract!Take, Abstract!Drop,
       Abstract!Overwrite, Abstract!Replicate, Abstract!Mirror, Abstract!BitAt,
       Abstract!LastBit, Abstract!Str, NoBits, Constant, Concat, Take, Drop, Overwrite,
       Replicate, Mirror, BitAt, LastBit, Str

LEMMA ValueIs ==
  ASSUME NEW r, WellFormed(r)
  PROVE  Value(r) = Str(r.len, r.ones)
BY ValueType DEF Value, Str

-----------------------------------------------------------------------------
(* What the outcomes of a call mean for the string. *)

Gives(o, w, x) == o.end = "return" /\ o.ret = x /\ Str(o.rep.len, o.rep.ones) = w

Fails(r, o) == o.end \in {"panic", "abort"} /\ o.rep = r /\ o.ret = "none"

LEMMA StrFields ==
  /\ \A n, s : Str(n, s).len = n /\ Str(n, s).ones = s
  /\ \A m, n, s, t : m = n /\ s = t => Str(m, s) = Str(n, t)
BY DEF Str

LEMMA ReturnsGive ==
  ASSUME NEW q, NEW n, NEW s, q.len = n, q.ones = s, NEW x
  PROVE  Gives(Returns(q, x), Str(n, s), x)
<1>1. Str(q.len, q.ones) = Str(n, s)
  OBVIOUS
<1> QED BY <1>1, Fields DEF Gives

LEMMA KeptFails ==
  ASSUME NEW r, NEW o, Kept(r, o) \/ o = Aborts(r) \/ o = Panics(r), o.end # "return",
         o.end \in {"return", "panic", "abort"}
  PROVE  Fails(r, o)
BY Fields DEF Kept, Fails

LEMMA UpIs ==
  ASSUME NEW s, s \subseteq Int, NEW k \in Int
  PROVE  Up(s, k) = {k + i : i \in s}
<1>1. \A i \in s : i + k = k + i
  OBVIOUS
<1> QED BY <1>1 DEF Up

LEMMA ConstantUp ==
  ASSUME NEW m \in Nat, NEW k \in Nat, NEW v \in BOOLEAN
  PROVE  {m + i : i \in Constant(k, v).ones} = IF v THEN m .. (m + k - 1) ELSE {}
<1>1. Constant(k, v).ones = IF v THEN 0 .. (k - 1) ELSE {}
  BY DEF Constant, Str
<1>2. {m + i : i \in 0 .. (k - 1)} = m .. (m + k - 1)
  <2>1. ASSUME NEW x \in m .. (m + k - 1) PROVE \E i \in 0 .. (k - 1) : x = m + i
    <3>1. x - m \in 0 .. (k - 1) /\ x = m + (x - m)
      BY <2>1
    <3> QED BY <3>1
  <2>2. ASSUME NEW i \in 0 .. (k - 1) PROVE m + i \in m .. (m + k - 1)
    BY <2>2
  <2> QED BY <2>1, <2>2
<1> QED BY <1>1, <1>2

(* New lists. *)
LEMMA ZerosGive ==
  ASSUME NEW r, WellFormed(r), NEW n \in Nat
  PROVE  \A o \in zeros(r, n) : o = Aborts(r) \/ Gives(o, Constant(n, FALSE), "done")
<1>0. Constant(n, FALSE) = Str(n, {})
  BY DEF Constant
<1>1. CASE n <= DATA_BITS
  <2> DEFINE q == new_masked({}, n)
  <2>1. zeros(r, n) = {Returns(q, "done")}
    BY <1>1 DEF zeros
  <2>2. q.len = n /\ q.ones = {}
    BY DEF new_masked, Inline
  <2> HIDE DEF q
  <2> QED BY <1>0, <2>1, <2>2, ReturnsGive
<1>2. CASE ~(n <= DATA_BITS)
  <2>1. n > DATA_BITS
    BY <1>2, DataBitsType
  <2>2. \A o \in (IF FALSE THEN ones(r, n) ELSE zeros(r, n)) :
           \/ o = Aborts(r)
           \/ /\ o.end = "return" /\ o.ret = "done"
              /\ o.rep.kind = "heap" /\ o.rep.len = n
              /\ o.rep.ones = IF FALSE THEN 0 .. (n - 1) ELSE {}
    BY <2>1, FilledIs
  <2> QED BY <1>0, <2>2 DEF Gives
<1> QED BY <1>1, <1>2

LEMMA OnesGive ==
  ASSUME NEW r, WellFormed(r), NEW n \in Nat
  PROVE  \A o \in ones(r, n) : o = Aborts(r) \/ Gives(o, Constant(n, TRUE), "done")
<1>0. Constant(n, TRUE) = Str(n, 0 .. (n - 1))
  BY DEF Constant
<1>1. CASE n <= DATA_BITS
  <2> DEFINE q == new_masked(Bit, n)
  <2>1. ones(r, n) = {Returns(q, "done")}
    BY <1>1 DEF ones
  <2>2. (Bit \cap (0 .. (n - 1))) \cap (0 .. (DATA_BITS - 1)) = 0 .. (n - 1)
    BY <1>1, DataBitsType, WordSizeType DEF Bit
  <2>3. q.len = n /\ q.ones = 0 .. (n - 1)
    BY <2>2 DEF new_masked, Inline
  <2> HIDE DEF q
  <2> QED BY <1>0, <2>1, <2>3, ReturnsGive
<1>2. CASE ~(n <= DATA_BITS)
  <2>1. n > DATA_BITS
    BY <1>2, DataBitsType
  <2>2. \A fill \in BOOLEAN : \A o \in (IF fill THEN ones(r, n) ELSE zeros(r, n)) :
           \/ o = Aborts(r)
           \/ /\ o.end = "return" /\ o.ret = "done"
              /\ o.rep.kind = "heap" /\ o.rep.len = n
              /\ o.rep.ones = IF fill THEN 0 .. (n - 1) ELSE {}
    BY <2>1, FilledIs
  <2> QED BY <1>0, <2>2 DEF Gives
<1> QED BY <1>1, <1>2

LEMMA FromBitsGive ==
  ASSUME NEW r, WellFormed(r), NEW b, b.len \in Nat, b.ones \subseteq 0 .. (b.len - 1)
  PROVE  \A o \in from_bits(r, b) : o = Aborts(r) \/ Gives(o, Str(b.len, b.ones), "done")
<1>1. CASE b.len <= DATA_BITS
  <2>1. from_bits(r, b) = {Returns(Inline(b.len, b.ones), "done")}
    BY <1>1 DEF from_bits
  <2>2. b.ones \cap (0 .. (DATA_BITS - 1)) = b.ones
    BY <1>1, DataBitsType
  <2>3. Inline(b.len, b.ones).len = b.len /\ Inline(b.len, b.ones).ones = b.ones
    BY <2>2 DEF Inline
  <2> QED BY <2>1, <2>3, ReturnsGive
<1>2. CASE ~(b.len <= DATA_BITS)
  <2> DEFINE m == MaskLast(b.ones, b.len)
  <2>1. from_bits(r, b) = with_capacity(r, b.len, m)
    BY <1>2 DEF from_bits
  <2>2. b.len > 0
    BY <1>2, DataBitsType
  <2>3. m \cap Words(0, words_for(b.len)) = b.ones
    <3>1. m \cap Words(0, words_for(b.len)) = b.ones \cap (0 .. (b.len - 1))
      BY <2>2, MaskLastIs
    <3> QED BY <3>1
  <2> HIDE DEF m
  <2>4. \A o \in with_capacity(r, b.len, m) :
           \/ o = Aborts(r)
           \/ /\ o.end = "return" /\ o.ret = "done"
              /\ o.rep.kind = "heap" /\ o.rep.len = b.len
              /\ o.rep.ones = m \cap Words(0, words_for(b.len))
    BY WithCapacityIs
  <2> QED BY <2>1, <2>3, <2>4 DEF Gives
<1> QED BY <1>1, <1>2

LEMMA WordsGive ==
  ASSUME NEW r, WellFormed(r), NEW b, b.len \in Nat, b.ones \subseteq 0 .. (b.len - 1)
  PROVE  \A o \in words(r, b) : o = Aborts(r) \/ Gives(o, Str(b.len, b.ones), "done")
<1>1. CASE b.len = 0
  <2>1. words(r, b) = {Returns(NO_BITS, "done")} /\ b.ones = {}
    BY <1>1 DEF words
  <2>2. NO_BITS.len = b.len /\ NO_BITS.ones = b.ones
    BY <1>1, <2>1 DEF NO_BITS, Inline
  <2> QED BY <2>1, <2>2, ReturnsGive
<1>2. CASE b.len # 0
  <2>1. words(r, b) = with_capacity(r, b.len, b.ones)
    BY <1>2 DEF words
  <2>2. b.ones \cap Words(0, words_for(b.len)) = b.ones
    BY <1>2, MaskLastIs
  <2>3. \A o \in with_capacity(r, b.len, b.ones) :
           \/ o = Aborts(r)
           \/ /\ o.end = "return" /\ o.ret = "done"
              /\ o.rep.kind = "heap" /\ o.rep.len = b.len
              /\ o.rep.ones = b.ones \cap Words(0, words_for(b.len))
    BY WithCapacityIs
  <2> QED BY <2>1, <2>2, <2>3 DEF Gives
<1> QED BY <1>1, <1>2

(* The calls that must leave the string alone. *)
LEMMA CopiesGive ==
  ASSUME NEW r, WellFormed(r)
  PROVE  \A o \in clone(r) \cup shrink_to_fit(r) :
           o = Aborts(r) \/ Gives(o, Str(r.len, r.ones), "done")
<1>1. Gives(Returns(r, "done"), Str(r.len, r.ones), "done")
  BY Fields DEF Gives
<1>2. ASSUME r.len <= DATA_BITS
      PROVE  Gives(Returns(Inline(r.len, r.ones), "done"), Str(r.len, r.ones), "done")
  <2>1. r.ones \cap (0 .. (DATA_BITS - 1)) = r.ones
    BY <1>2, RepType, DataBitsType
  <2>2. Inline(r.len, r.ones).len = r.len /\ Inline(r.len, r.ones).ones = r.ones
    BY <2>1 DEF Inline
  <2> QED BY <2>2, ReturnsGive
<1>3. ASSUME NEW c PROVE Gives(Returns([r EXCEPT !.cap = c], "done"), Str(r.len, r.ones), "done")
  <2>1. [r EXCEPT !.cap = c].len = r.len /\ [r EXCEPT !.cap = c].ones = r.ones
    BY DEF WellFormed
  <2> QED BY <2>1, ReturnsGive
<1>4. \A o \in clone(r) : o = Aborts(r) \/ Gives(o, Str(r.len, r.ones), "done")
  BY <1>1, <1>2 DEF clone
<1>5. ASSUME NEW o \in shrink_to_fit(r)
      PROVE  o = Aborts(r) \/ Gives(o, Str(r.len, r.ones), "done")
  <2>1. \/ o = Aborts(r) \/ o = Returns(r, "done")
        \/ r.len <= DATA_BITS /\ o = Returns(Inline(r.len, r.ones), "done")
        \/ \E c \in words_for(r.len) .. r.cap : o = Returns([r EXCEPT !.cap = c], "done")
    BY DEF shrink_to_fit
  <2> QED BY <1>1, <1>2, <1>3, <2>1
<1> QED BY <1>4, <1>5

(* The calls that append: what push_bits leaves is the concatenation.      *)
LEMMA ConcatIs ==
  ASSUME NEW r, WellFormed(r), NEW b, b.ones \subseteq Int
  PROVE  Concat(Value(r), b) = Str(r.len + b.len, r.ones \cup Up(b.ones, r.len))
<1>1. Value(r).len = r.len /\ Value(r).ones = r.ones /\ r.len \in Int
  BY ValueType
<1>2. Up(b.ones, r.len) = {r.len + i : i \in b.ones}
  BY <1>1, UpIs
<1> QED BY <1>1, <1>2 DEF Concat

LEMMA ConcatConstant ==
  ASSUME NEW r, WellFormed(r), NEW k \in Nat, NEW v \in BOOLEAN
  PROVE  Concat(Value(r), Constant(k, v))
           = Str(r.len + k, r.ones \cup (IF v THEN r.len .. (r.len + k - 1) ELSE {}))
<1>1. Value(r).len = r.len /\ Value(r).ones = r.ones /\ r.len \in Nat
  BY ValueType
<1>2. Constant(k, v).len = k
  BY DEF Constant, Str
<1>3. {r.len + i : i \in Constant(k, v).ones} = IF v THEN r.len .. (r.len + k - 1) ELSE {}
  BY <1>1, ConstantUp
<1> QED BY <1>1, <1>2, <1>3 DEF Concat

LEMMA PushBitsGive ==
  ASSUME NEW r, WellFormed(r), NEW b, b.len \in Nat, b.ones \subseteq 0 .. (b.len - 1),
         ~HitsEmptyGrowth(r, r.len + b.len)
  PROVE  \A o \in push_bits(r, b) :
           \/ Gives(o, Concat(Value(r), b), "done")
           \/ o.end = "panic" /\ Fails(r, o) /\ b.len # 0
<1>1. Concat(Value(r), b) = Str(r.len + b.len, r.ones \cup Up(b.ones, r.len))
  BY ConcatIs
<1>2. r.len + b.len <= capacity(r) \/ b.len # 0
  <2>1. r.len \in Nat /\ r.len <= capacity(r)
    BY RepType, CapacityType
  <2>2. b.len = 0 => r.len + b.len = r.len
    BY <2>1
  <2> QED BY <2>1, <2>2
<1> SUFFICES ASSUME NEW o \in push_bits(r, b)
             PROVE  \/ Gives(o, Concat(Value(r), b), "done")
                    \/ o.end = "panic" /\ Fails(r, o) /\ b.len # 0
  OBVIOUS
<1>3. /\ Kept(r, o) /\ o.end # "abort"
      /\ o.end = "return" => /\ o.ret = "done" /\ o.rep.len = r.len + b.len
                             /\ o.rep.ones = r.ones \cup Up(b.ones, r.len)
      /\ r.len + b.len <= capacity(r) => o.end = "return"
  BY PushBitsIs
<1>4. o.end \in {"return", "panic", "abort"}
  BY PushBitsGood DEF Good
<1>5. CASE o.end = "return"
  <2>1. Str(o.rep.len, o.rep.ones) = Str(r.len + b.len, r.ones \cup Up(b.ones, r.len))
    BY <1>3, <1>5
  <2> QED BY <1>1, <1>3, <1>5, <2>1 DEF Gives
<1>6. CASE o.end # "return"
  BY <1>2, <1>3, <1>4, <1>6, KeptFails
<1> QED BY <1>5, <1>6

LEMMA PushManyBitsGive ==
  ASSUME NEW r, WellFormed(r), NEW v \in BOOLEAN, NEW k \in Nat,
         ~HitsEmptyGrowth(r, r.len + k), ~HitsInlineZeros(r, v, k)
  PROVE  \A o \in push_many_bits(r, v, k) :
           \/ Gives(o, Concat(Value(r), Constant(k, v)), "done")
           \/ o.end = "panic" /\ Fails(r, o) /\ k > 0
<1> DEFINE run == r.len .. (r.len + k - 1)
           all == r.ones \cup (IF v THEN run ELSE {})
           some == r.ones \cup
                     (IF (r.kind = "inline" /\ r.len + k <= DATA_BITS) \/ v THEN run ELSE {})
<1>0. r.len \in Nat /\ r.len <= capacity(r) /\ capacity(r) \in Int
  BY RepType, CapacityType
<1>1. Concat(Value(r), Constant(k, v)) = Str(r.len + k, all)
  BY ConcatConstant
<1>2. r.len + k <= capacity(r) \/ k > 0
  BY <1>0
<1>3. some = all
  <2>1. CASE k = 0
    <3>1. run = {}
      BY <1>0, <2>1
    <3> QED BY <3>1
  <2>2. CASE k # 0
    BY <2>2 DEF HitsInlineZeros
  <2> QED BY <2>1, <2>2
<1> SUFFICES ASSUME NEW o \in push_many_bits(r, v, k)
             PROVE  \/ Gives(o, Concat(Value(r), Constant(k, v)), "done")
                    \/ o.end = "panic" /\ Fails(r, o) /\ k > 0
  OBVIOUS
<1>4. /\ Kept(r, o) /\ o.end # "abort"
      /\ o.end = "return" => o.ret = "done" /\ o.rep.len = r.len + k /\ o.rep.ones = some
      /\ r.len + k <= capacity(r) => o.end = "return"
  BY PushManyBitsIs
<1>5. o.end \in {"return", "panic", "abort"}
  BY PushManyBitsGood DEF Good
<1> HIDE DEF all, some
<1>6. CASE o.end = "return"
  <2>1. Str(o.rep.len, o.rep.ones) = Str(r.len + k, all)
    BY <1>3, <1>4, <1>6
  <2> QED BY <1>1, <1>4, <1>6, <2>1 DEF Gives
<1>7. CASE o.end # "return"
  BY <1>2, <1>4, <1>5, <1>7, KeptFails
<1> QED BY <1>6, <1>7

(* resize, wherever it does not overwrite the last word it keeps. *)
Resized(w, n, fill) ==
  IF n <= w.len THEN Take(w, n) ELSE Concat(w, Constant(n - w.len, fill))

LEMMA ResizedIs ==
  ASSUME NEW r, WellFormed(r), NEW n \in Nat, NEW fill \in BOOLEAN
  PROVE  Resized(Value(r), n, fill) = Str(n, Refilled(r, n, fill))
<1>0. /\ Value(r).len = r.len /\ Value(r).ones = r.ones /\ r.len \in Nat
      /\ r.ones \subseteq 0 .. (r.len - 1)
  BY ValueType
<1>1. CASE n <= r.len
  <2>1. (IF fill THEN r.len .. (n - 1) ELSE {}) = {}
    BY <1>0, <1>1
  <2>2. Refilled(r, n, fill) = r.ones \cap (0 .. (n - 1))
    BY <2>1 DEF Refilled
  <2> QED BY <1>0, <1>1, <2>2 DEF Resized, Take
<1>2. CASE ~(n <= r.len)
  <2> DEFINE k == n - r.len
             run == IF fill THEN r.len .. (r.len + k - 1) ELSE {}
  <2>1. k \in Nat /\ r.len + k = n
    BY <1>0, <1>2
  <2>2. Concat(Value(r), Constant(k, fill)) = Str(r.len + k, r.ones \cup run)
    <3> HIDE DEF k
    <3> QED BY <2>1, ConcatConstant
  <2>3. run = IF fill THEN r.len .. (n - 1) ELSE {}
    <3>1. r.len + k - 1 = n - 1
      BY <1>0, <2>1
    <3> HIDE DEF k
    <3> QED BY <3>1
  <2>4. r.ones \cup run \subseteq 0 .. (n - 1)
    <3>1. 0 .. (r.len - 1) \subseteq 0 .. (n - 1) /\ r.len .. (n - 1) \subseteq 0 .. (n - 1)
      BY <1>0, <1>2
    <3> HIDE DEF run
    <3> QED BY <1>0, <2>3, <3>1
  <2>5. Refilled(r, n, fill) = r.ones \cup run
    <3> HIDE DEF run
    <3> QED BY <2>3, <2>4 DEF Refilled
  <2>6. Resized(Value(r), n, fill) = Concat(Value(r), Constant(k, fill))
    BY <1>0, <1>2 DEF Resized
  <2> HIDE DEF k, run
  <2> QED BY <2>1, <2>2, <2>5, <2>6
<1> QED BY <1>1, <1>2

LEMMA ResizeGives ==
  ASSUME NEW r, WellFormed(r), NEW n \in Nat, NEW f, ~HitsShorterHeap(r, n)
  PROVE  \A o \in resize(r, n, f) :
           \/ Gives(o, Resized(Value(r), n, FillBit(r, f)), "done")
           \/ Fails(r, o) /\ n > r.len
<1>0. FillBit(r, f) \in BOOLEAN
  BY DEF FillBit
<1>1. Resized(Value(r), n, FillBit(r, f)) = Str(n, Refilled(r, n, FillBit(r, f)))
  BY <1>0, ResizedIs
<1> SUFFICES ASSUME NEW o \in resize(r, n, f)
             PROVE  \/ Gives(o, Resized(Value(r), n, FillBit(r, f)), "done")
                    \/ Fails(r, o) /\ n > r.len
  OBVIOUS
<1>2. /\ Kept(r, o)
      /\ o.end # "return" => n > r.len
      /\ o.end = "return" => /\ o.ret = "done" /\ o.rep.len = n
                             /\ o.rep.ones = Refilled(r, n, FillBit(r, f))
  BY ResizeIs
<1>3. o.end \in {"return", "panic", "abort"}
  BY ResizeGood DEF Good
<1>4. CASE o.end = "return"
  <2>1. Str(o.rep.len, o.rep.ones) = Str(n, Refilled(r, n, FillBit(r, f)))
    BY <1>2, <1>4
  <2> QED BY <1>1, <1>2, <1>4, <2>1 DEF Gives
<1>5. CASE o.end # "return"
  BY <1>2, <1>3, <1>5, KeptFails
<1> QED BY <1>4, <1>5

LEMMA TruncateGives ==
  ASSUME NEW r, WellFormed(r), NEW n \in Nat, n >= r.len \/ ~HitsShorterHeap(r, n)
  PROVE  \A o \in truncate(r, n) :
           Gives(o, IF n < r.len THEN Take(Value(r), n) ELSE Value(r), "done")
<1>0. /\ Value(r).ones = r.ones /\ r.len \in Nat /\ r.ones \subseteq 0 .. (r.len - 1)
      /\ Value(r) = Str(r.len, r.ones)
  BY ValueType, ValueIs
<1> SUFFICES ASSUME NEW o \in truncate(r, n)
             PROVE  Gives(o, IF n < r.len THEN Take(Value(r), n) ELSE Value(r), "done")
  OBVIOUS
<1>1. /\ o.end = "return" /\ o.ret = "done"
      /\ o.rep.len = IF n < r.len THEN n ELSE r.len
      /\ o.rep.ones = r.ones \cap (0 .. (n - 1))
  BY TruncateIs
<1>2. CASE n < r.len
  <2>1. Str(o.rep.len, o.rep.ones) = Str(n, r.ones \cap (0 .. (n - 1)))
    BY <1>1, <1>2
  <2> QED BY <1>0, <1>1, <1>2, <2>1 DEF Gives, Take
<1>3. CASE ~(n < r.len)
  <2>1. r.ones \cap (0 .. (n - 1)) = r.ones
    BY <1>0, <1>3
  <2>2. Str(o.rep.len, o.rep.ones) = Str(r.len, r.ones)
    BY <1>1, <1>3, <2>1
  <2> QED BY <1>0, <1>1, <1>3, <2>2 DEF Gives
<1> QED BY <1>2, <1>3

LEMMA PopBitGives ==
  ASSUME NEW r, WellFormed(r), ~HitsShorterHeap(r, r.len - 1)
  PROVE  \A o \in pop_bit(r) :
           IF Value(r) = NoBits THEN Gives(o, Value(r), "none")
           ELSE Gives(o, Take(Value(r), Value(r).len - 1), LastBit(Value(r)))
<1>0. /\ Value(r).len = r.len /\ Value(r).ones = r.ones /\ r.len \in Nat
      /\ r.ones \subseteq 0 .. (r.len - 1) /\ Value(r) = Str(r.len, r.ones)
  BY ValueType, ValueIs
<1>1. Value(r) = NoBits <=> r.len = 0
  <2>1. NoBits.len = 0
    BY DEF NoBits, Str
  <2>2. ASSUME r.len = 0 PROVE Value(r) = NoBits
    <3>1. r.ones = {}
      BY <1>0, <2>2
    <3> QED BY <1>0, <2>2, <3>1 DEF NoBits
  <2> QED BY <1>0, <2>1, <2>2
<1> SUFFICES ASSUME NEW o \in pop_bit(r)
             PROVE  IF Value(r) = NoBits THEN Gives(o, Value(r), "none")
                    ELSE Gives(o, Take(Value(r), Value(r).len - 1), LastBit(Value(r)))
  OBVIOUS
<1>2. CASE r.len = 0
  <2>1. o.end = "return" /\ o.ret = "none" /\ o.rep = r
    BY <1>2, PopBitIs
  <2> QED BY <1>0, <1>1, <1>2, <2>1 DEF Gives
<1>3. CASE r.len # 0
  <2> DEFINE n == r.len - 1
  <2>1. /\ o.end = "return" /\ o.ret = BitAt(Value(r), n) /\ o.rep.len = n
        /\ o.rep.ones = r.ones \cap (0 .. (r.len - 2))
    BY <1>3, PopBitIs
  <2>2. r.len - 2 = n - 1
    BY <1>0
  <2>3. Take(Value(r), n) = Str(n, r.ones \cap (0 .. (n - 1)))
    BY <1>0 DEF Take
  <2>4. LastBit(Value(r)) = BitAt(Value(r), n) /\ Value(r).len - 1 = n
    BY <1>0, <1>3 DEF LastBit
  <2> HIDE DEF n
  <2>5. Str(o.rep.len, o.rep.ones) = Str(n, r.ones \cap (0 .. (n - 1)))
    BY <2>1, <2>2
  <2> QED BY <1>1, <1>3, <2>1, <2>3, <2>4, <2>5 DEF Gives
<1> QED BY <1>2, <1>3

(* Writing within the list. *)
LEMMA WrittenFields ==
  ASSUME NEW r, WellFormed(r), NEW s
  PROVE  Written(r, s).len = r.len /\ Written(r, s).ones = s
BY DEF WellFormed, Written

LEMMA SetGives ==
  ASSUME NEW r, WellFormed(r), NEW i \in Nat, NEW v \in BOOLEAN
  PROVE  \A o \in set(r, i, v) :
           Gives(o, IF i < Value(r).len
                    THEN Str(Value(r).len, IF v THEN Value(r).ones \cup {i} ELSE Value(r).ones \ {i})
                    ELSE Value(r), BitAt(Value(r), i))
<1>0. /\ Value(r).len = r.len /\ Value(r).ones = r.ones /\ r.len \in Nat
      /\ Value(r) = Str(r.len, r.ones)
  BY ValueType, ValueIs
<1>1. CASE i >= r.len
  <2>1. set(r, i, v) = {Returns(r, "none")} /\ ~(i < r.len)
    BY <1>0, <1>1 DEF set
  <2>2. BitAt(Value(r), i) = "none"
    BY <1>0, <1>1 DEF BitAt
  <2> QED BY <1>0, <2>1, <2>2, ReturnsGive
<1>2. CASE ~(i >= r.len)
  <2> DEFINE s == IF v THEN r.ones \cup {i} ELSE r.ones \ {i}
             x == BitAt(Value(r), i)
  <2>1. set(r, i, v) = {Returns(Written(r, s), x)} /\ i < r.len
    BY <1>0, <1>2 DEF set
  <2>2. s = IF v THEN Value(r).ones \cup {i} ELSE Value(r).ones \ {i}
    BY <1>0
  <2> HIDE DEF s, x
  <2>3. Gives(Returns(Written(r, s), x), Str(r.len, s), x)
    BY WrittenFields, ReturnsGive
  <2> QED BY <1>0, <2>1, <2>2, <2>3 DEF x
<1> QED BY <1>1, <1>2

LEMMA OverwriteIs ==
  ASSUME NEW r, WellFormed(r), NEW i \in Nat, NEW b, b.ones \subseteq Int
  PROVE  Overwrite(Value(r), i, b) = Str(r.len, copy_bits(r.ones, i, b))
<1>1. Value(r).len = r.len /\ Value(r).ones = r.ones
  BY ValueType
<1>2. Up(b.ones, i) = {i + j : j \in b.ones}
  BY UpIs
<1> QED BY <1>1, <1>2 DEF Overwrite, copy_bits

LEMMA SetRangeGives ==
  ASSUME NEW r, WellFormed(r), NEW i \in Nat,
         NEW b, b.len \in Nat, b.ones \subseteq 0 .. (b.len - 1)
  PROVE  IF i + b.len <= Value(r).len
         THEN \A o \in set_range(r, i, b) \cup set_bits_at(r, i, b) :
                Gives(o, Overwrite(Value(r), i, b), "done")
         ELSE /\ \A o \in set_range(r, i, b) : Gives(o, Value(r), "none")
              /\ \A o \in set_bits_at(r, i, b) : o = Panics(r)
<1>0. /\ Value(r).len = r.len /\ r.len \in Nat /\ Value(r) = Str(r.len, r.ones)
  BY ValueType, ValueIs
<1>1. CASE i + b.len <= r.len
  <2> DEFINE q == Written(r, copy_bits(r.ones, i, b))
  <2>1. ~(i > r.len) /\ ~(b.len > r.len - i) /\ ~is_invalid_range(i, r.len, r.len)
    BY <1>0, <1>1 DEF is_invalid_range
  <2>2. set_range(r, i, b) = {Returns(q, "done")} /\ set_bits_at(r, i, b) = {Returns(q, "done")}
    BY <2>1 DEF set_range, set_bits_at
  <2>3. q.len = r.len /\ q.ones = copy_bits(r.ones, i, b)
    BY WrittenFields
  <2>4. Overwrite(Value(r), i, b) = Str(r.len, copy_bits(r.ones, i, b))
    BY OverwriteIs
  <2> HIDE DEF q
  <2>5. Gives(Returns(q, "done"), Overwrite(Value(r), i, b), "done")
    BY <2>3, <2>4, ReturnsGive
  <2> QED BY <1>0, <1>1, <2>2, <2>5
<1>2. CASE ~(i + b.len <= r.len)
  <2>1. i > r.len \/ b.len > r.len - i
    BY <1>0, <1>2
  <2>2. is_invalid_range(i, r.len, r.len) \/ b.len > r.len - i
    BY <2>1 DEF is_invalid_range
  <2>3. set_range(r, i, b) = {Returns(r, "none")} /\ set_bits_at(r, i, b) = {Panics(r)}
    BY <2>1, <2>2 DEF set_range, set_bits_at
  <2>4. Gives(Returns(r, "none"), Value(r), "none")
    BY <1>0, ReturnsGive
  <2> QED BY <1>0, <1>2, <2>3, <2>4
<1> QED BY <1>1, <1>2

LEMMA SetRangeFillGives ==
  ASSUME NEW r, WellFormed(r), NEW start \in Nat, NEW stop \in Nat, NEW v \in BOOLEAN
  PROVE  IF start <= stop /\ stop <= Value(r).len
         THEN \A o \in set_range_fill(r, start, stop, v) :
                Gives(o, Overwrite(Value(r), start, Constant(stop - start, v)), "done")
         ELSE \A o \in set_range_fill(r, start, stop, v) : o = Panics(r)
<1>0. /\ Value(r).len = r.len /\ Value(r).ones = r.ones /\ r.len \in Nat
  BY ValueType
<1>1. CASE start <= stop /\ stop <= r.len
  <2> DEFINE k == stop - start
             s == fill_bits(r.ones, start, k, v)
             q == Written(r, s)
  <2>1. ~is_invalid_range(start, stop, r.len)
    BY <1>0, <1>1 DEF is_invalid_range
  <2>2. set_range_fill(r, start, stop, v) = {Returns(q, "done")}
    BY <2>1 DEF set_range_fill
  <2>3. k \in Nat
    BY <1>1
  <2> HIDE DEF k
  <2>4. Overwrite(Value(r), start, Constant(k, v)) = Str(r.len, s)
    <3>1. {start + i : i \in Constant(k, v).ones} = IF v THEN start .. (start + k - 1) ELSE {}
      BY <2>3, ConstantUp
    <3>2. Constant(k, v).len = k
      BY DEF Constant, Str
    <3>3. s = (r.ones \ (start .. (start + k - 1))) \cup (IF v THEN start .. (start + k - 1) ELSE {})
      BY DEF fill_bits
    <3> HIDE DEF s
    <3> QED BY <1>0, <3>1, <3>2, <3>3 DEF Overwrite
  <2>5. q.len = r.len /\ q.ones = s
    BY WrittenFields
  <2> HIDE DEF q, s
  <2>6. Gives(Returns(q, "done"), Overwrite(Value(r), start, Constant(k, v)), "done")
    BY <2>4, <2>5, ReturnsGive
  <2> QED BY <1>0, <1>1, <2>2, <2>6 DEF k
<1>2. CASE ~(start <= stop /\ stop <= r.len)
  <2>1. is_invalid_range(start, stop, r.len)
    BY <1>0, <1>2 DEF is_invalid_range
  <2>2. set_range_fill(r, start, stop, v) = {Panics(r)}
    BY <2>1 DEF set_range_fill
  <2> QED BY <1>0, <1>2, <2>2
<1> QED BY <1>1, <1>2

(* Copies. *)
LEMMA ReplicateNext ==
  ASSUME NEW r, WellFormed(r), NEW k \in Nat, k # 0
  PROVE  Concat(Value(r), Replicate(Value(r), k - 1)) = Replicate(Value(r), k)
<1> DEFINE w == Value(r)
           m == r.len
           Copies(l, h, s) == {l * j + i : j \in 0 .. h, i \in s}
           some == {m * j + i : j \in 0 .. (k - 2), i \in r.ones}
           all == {m * j + i : j \in 0 .. (k - 1), i \in r.ones}
<1>0. w.len = m /\ w.ones = r.ones /\ m \in Nat /\ r.ones \subseteq 0 .. (m - 1)
  BY ValueType
<1>1. k - 1 - 1 = k - 2 /\ k - 1 \in Nat
  OBVIOUS
<1>2. Replicate(w, k - 1) = Str(m * (k - 1), some)
  <2>1. some = Copies(m, k - 2, r.ones)
    OBVIOUS
  <2>2. Replicate(w, k - 1) = Str(w.len * (k - 1), Copies(w.len, (k - 1) - 1, w.ones))
    BY DEF Replicate
  <2> HIDE DEF Copies, some, w, m
  <2> QED BY <1>0, <1>1, <2>1, <2>2
<1>3. Replicate(w, k) = Str(m * k, all)
  <2>1. all = Copies(m, k - 1, r.ones)
    OBVIOUS
  <2>2. Replicate(w, k) = Str(w.len * k, Copies(w.len, k - 1, w.ones))
    BY DEF Replicate
  <2> HIDE DEF Copies, all, w, m
  <2> QED BY <1>0, <2>1, <2>2
<1>4. some \subseteq Int
  <2>1. ASSUME NEW j \in 0 .. (k - 2), NEW i \in r.ones PROVE m * j + i \in Int
    <3> DEFINE t == m * j
    <3>1. i \in Int /\ j \in Int /\ m \in Int
      BY <1>0
    <3>2. t \in Int
      BY <3>1
    <3> HIDE DEF t
    <3>3. t + i \in Int
      BY <3>1, <3>2
    <3> QED BY <3>3 DEF t
  <2> QED BY <2>1
<1>5. Concat(w, Str(m * (k - 1), some)) = Str(m + m * (k - 1), r.ones \cup Up(some, m))
  <2> DEFINE b == Str(m * (k - 1), some)
  <2>1. b.len = m * (k - 1) /\ b.ones = some
    BY DEF Str
  <2> HIDE DEF b, some
  <2>2. Concat(w, b) = Str(m + b.len, r.ones \cup Up(b.ones, m))
    BY <1>4, <2>1, ConcatIs
  <2>3. Concat(w, b) = Str(m + m * (k - 1), r.ones \cup Up(some, m))
    BY <2>1, <2>2
  <2> QED BY <2>3 DEF b
<1>6. m + m * (k - 1) = m * k
  BY <1>0
<1>7. r.ones \cup Up(some, m) = all
  <2>1. ASSUME NEW x \in r.ones PROVE x \in all
    <3>1. 0 \in 0 .. (k - 1) /\ x = m * 0 + x
      BY <1>0
    <3> QED BY <3>1
  <2>2. ASSUME NEW y \in some PROVE y + m \in all
    <3>1. PICK j \in 0 .. (k - 2), i \in r.ones : y = m * j + i
      OBVIOUS
    <3>2. j + 1 \in 0 .. (k - 1) /\ m * (j + 1) = m * j + m /\ m * j \in Int /\ i \in Int
      BY <1>0, <3>1
    <3>3. y + m = m * (j + 1) + i
      BY <1>0, <3>1, <3>2
    <3> QED BY <3>2, <3>3
  <2>3. ASSUME NEW x \in all PROVE x \in r.ones \/ x \in Up(some, m)
    <3>1. PICK j \in 0 .. (k - 1), i \in r.ones : x = m * j + i
      OBVIOUS
    <3>2. CASE j = 0
      BY <1>0, <3>1, <3>2
    <3>3. CASE j # 0
      <4>1. j - 1 \in 0 .. (k - 2) /\ m * (j - 1) = m * j - m /\ m * j \in Int /\ i \in Int
        BY <1>0, <3>1, <3>3
      <4>2. x = (m * (j - 1) + i) + m /\ m * (j - 1) + i \in some
        BY <1>0, <3>1, <4>1
      <4> QED BY <4>2 DEF Up
    <3> QED BY <3>2, <3>3
  <2>4. \A x \in Up(some, m) : \E y \in some : x = y + m
    BY DEF Up
  <2> HIDE DEF some, all
  <2> QED BY <2>1, <2>2, <2>3, <2>4
<1>8. Concat(w, Str(m * (k - 1), some)) = Str(m * k, all)
  <2> HIDE DEF w, some, all
  <2> QED BY <1>5, <1>6, <1>7
<1>9. Concat(w, Replicate(w, k - 1)) = Replicate(w, k)
  <2> HIDE DEF w, some, all
  <2> QED BY <1>2, <1>3, <1>8
<1> QED BY <1>9

LEMMA RepeatGives ==
  ASSUME NEW r, WellFormed(r), NEW k \in Nat
  PROVE  \A o \in repeat(r, k) :
           \/ Gives(o, Replicate(Value(r), k), "done")
           \/ Fails(r, o) /\ k > 0
<1>0. Value(r).len \in Nat /\ Value(r).ones \subseteq 0 .. (Value(r).len - 1)
  BY ValueType
<1>1. CASE k = 0
  <2>1. Replicate(Value(r), k) = Str(0, {})
    <3>1. Value(r).len * k = 0 /\ 0 .. (k - 1) = {}
      BY <1>0, <1>1
    <3> QED BY <3>1 DEF Replicate
  <2>2. repeat(r, k) = clear(r)
    BY <1>1 DEF repeat
  <2>3. \A o \in clear(r) : o.end = "return" /\ o.ret = "done" /\ o.rep.len = 0 /\ o.rep.ones = {}
    BY ClearIs
  <2> QED BY <2>1, <2>2, <2>3 DEF Gives
<1>2. CASE k # 0
  <2> DEFINE more == Replicate(Value(r), k - 1)
  <2>0. k > 0 /\ k - 1 \in Nat
    BY <1>2
  <2>1. more.len \in Nat /\ more.ones \subseteq 0 .. (more.len - 1)
    BY <1>0, <2>0, ReplicateInside
  <2>2. repeat(r, k) = Stopped(clone(r)) \cup
          (IF more.len > UsizeMax THEN {Panics(r)} ELSE push_bits(r, more))
    BY <1>2 DEF repeat
  <2>3. Concat(Value(r), more) = Replicate(Value(r), k)
    BY <1>2, ReplicateNext
  <2> HIDE DEF more
  <2>4. \A o \in Stopped(clone(r)) : o = Aborts(r)
    BY CloneKept DEF Stopped
  <2>5. Fails(r, Aborts(r)) /\ Fails(r, Panics(r))
    BY Fields DEF Fails
  <2>6. ASSUME NEW o \in push_bits(r, more)
        PROVE  Gives(o, Replicate(Value(r), k), "done") \/ Fails(r, o)
    <3>1. /\ Kept(r, o)
          /\ o.end = "return" => /\ o.ret = "done" /\ o.rep.len = r.len + more.len
                                 /\ o.rep.ones = r.ones \cup Up(more.ones, r.len)
      BY <2>1, PushBitsIs
    <3>2. o.end \in {"return", "panic", "abort"}
      BY <2>1, PushBitsGood DEF Good
    <3>3. Concat(Value(r), more) = Str(r.len + more.len, r.ones \cup Up(more.ones, r.len))
      BY <2>1, ConcatIs
    <3>4. CASE o.end = "return"
      <4>1. Str(o.rep.len, o.rep.ones) = Str(r.len + more.len, r.ones \cup Up(more.ones, r.len))
        BY <3>1, <3>4
      <4> QED BY <2>3, <3>1, <3>3, <3>4, <4>1 DEF Gives
    <3>5. CASE o.end # "return"
      BY <3>1, <3>2, <3>5, KeptFails
    <3> QED BY <3>4, <3>5
  <2> QED BY <2>0, <2>2, <2>4, <2>5, <2>6
<1> QED BY <1>1, <1>2

LEMMA ReverseGives ==
  ASSUME NEW r, WellFormed(r), ~HitsEmptyReverse(r)
  PROVE  \A o \in reverse(r) : o = Aborts(r) \/ Gives(o, Mirror(Value(r)), "done")
<1> DEFINE b == Mirror(Value(r))
<1>0. /\ Value(r) = Str(r.len, r.ones) /\ Value(r).len = r.len /\ Value(r).ones = r.ones
      /\ r.len \in Nat /\ r.ones \subseteq 0 .. (r.len - 1)
  BY ValueType, ValueIs
<1>1. b.len = r.len /\ b.ones \subseteq 0 .. (r.len - 1) /\ b = Str(b.len, b.ones)
  <2>1. b = Str(r.len, {r.len - 1 - i : i \in r.ones})
    BY <1>0 DEF Mirror
  <2>2. b.len = r.len /\ b.ones = {r.len - 1 - i : i \in r.ones}
    BY <2>1 DEF Str
  <2>3. \A i \in r.ones : r.len - 1 - i \in 0 .. (r.len - 1)
    BY <1>0
  <2> HIDE DEF b
  <2> QED BY <2>1, <2>2, <2>3
<1>2. CASE r.kind = "inline"
  <2>1. ~(r.len = 0 /\ DebugBuild)
    <3> SUFFICES ASSUME r.len = 0 PROVE r = NO_BITS
      BY DEF HitsEmptyReverse
    <3>1. r.ones = {} /\ r.cap = 0
      BY <1>0, <1>2, RepType
    <3>2. r = [kind |-> r.kind, len |-> r.len, cap |-> r.cap, ones |-> r.ones]
      BY DEF WellFormed
    <3> QED BY <1>2, <3>1, <3>2 DEF NO_BITS, Inline
  <2> DEFINE q == new_masked(b.ones, r.len)
  <2>2. reverse(r) = {Returns(q, "done")}
    BY <1>0, <1>2, <2>1 DEF reverse
  <2>3. r.len <= DATA_BITS
    BY <1>2, RepType
  <2> HIDE DEF b
  <2>4. (b.ones \cap (0 .. (r.len - 1))) \cap (0 .. (DATA_BITS - 1)) = b.ones
    BY <1>0, <1>1, <2>3, DataBitsType
  <2>5. q.len = b.len /\ q.ones = b.ones
    BY <1>1, <2>4 DEF new_masked, Inline
  <2> HIDE DEF q
  <2> QED BY <1>1, <2>2, <2>5, ReturnsGive DEF b
<1>3. CASE r.kind # "inline"
  <2>1. reverse(r) = from_bits(r, b)
    BY <1>3 DEF reverse
  <2>2. b.len \in Nat /\ b.ones \subseteq 0 .. (b.len - 1)
    BY <1>0, <1>1
  <2> HIDE DEF b
  <2>3. \A o \in from_bits(r, b) : o = Aborts(r) \/ Gives(o, Str(b.len, b.ones), "done")
    BY <2>2, FromBitsGive
  <2> QED BY <1>1, <2>1, <2>3 DEF b
<1> QED BY <1>2, <1>3

(* insert, wherever resize and truncate are not the ones that lose bits.   *)
LEMMA InsertGives ==
  ASSUME NEW r, WellFormed(r), NEW start \in Nat, NEW stop \in Nat,
         NEW b, b.len \in Nat, b.ones \subseteq 0 .. (b.len - 1),
         stop > r.len \/ ~HitsInsert(r, start, start + b.len + r.len - stop)
  PROVE  IF stop > Value(r).len
         THEN \A o \in insert(r, start, stop, b) : o = Panics(r)
         ELSE \A o \in insert(r, start, stop, b) :
                \/ Gives(o, Concat(Concat(Take(Value(r), start), b), Drop(Value(r), stop)), "done")
                \/ Fails(r, o)
<1>0. /\ Value(r) = Str(r.len, r.ones) /\ Value(r).len = r.len /\ Value(r).ones = r.ones
      /\ r.len \in Nat /\ r.ones \subseteq 0 .. (r.len - 1)
  BY ValueType, ValueIs
<1>1. CASE stop > r.len
  <2>1. insert(r, start, stop, b) = {Panics(r)}
    BY <1>1 DEF insert, is_invalid_range
  <2> QED BY <1>0, <1>1, <2>1
<1>2. CASE ~(stop > r.len)
  <2> DEFINE tail == Drop(Value(r), stop)
             total == start + b.len + tail.len
             prefix == r.ones \cap (0 .. (start - 1))
             made == (prefix \cup Up(b.ones, start)) \cup Up(tail.ones, start + b.len)
  <2>1. tail.len = r.len - stop /\ tail.ones \subseteq Int
    BY <1>0, <1>2 DEF Drop, Str
  <2>2. start + b.len + r.len - stop = total
    BY <1>0, <1>2, <2>1
  <2>3. ~HitsInsert(r, start, total)
    BY <1>2, <2>2
  <2>3b. ~InsertOverflows(r, start, stop, b)
    BY <2>3 DEF HitsInsert, InsertOverflows, InsertedLen
  <2>4. \A o \in insert(r, start, stop, b) :
           /\ Kept(r, o)
           /\ o.end = "return" => o.ret = "done" /\ o.rep.len = total /\ o.rep.ones = made
    <3> HIDE DEF total, tail
    <3>1. \A o \in insert(r, start, stop, b) :
            /\ Kept(r, o)
            /\ o.end = "return" =>
                 /\ o.ret = "done" /\ o.rep.len = start + b.len + Drop(Value(r), stop).len
                 /\ ~HitsInsert(r, start, start + b.len + Drop(Value(r), stop).len) =>
                      o.rep.ones = (prefix \cup Up(b.ones, start))
                                     \cup Up(Drop(Value(r), stop).ones, start + b.len)
      BY <2>3b, InsertIs
    <3> QED BY <2>3, <3>1 DEF total, tail
  <2>5. \A o \in insert(r, start, stop, b) : o.end \in {"return", "panic", "abort"}
    BY InsertGood DEF Good
  <2>6. Concat(Concat(Take(Value(r), start), b), tail) = Str(total, made)
    <3>1. Take(Value(r), start) = Str(start, prefix)
      BY <1>0 DEF Take
    <3>2. Up(b.ones, start) = {start + i : i \in b.ones}
      BY UpIs
    <3>3. Concat(Str(start, prefix), b) = Str(start + b.len, prefix \cup Up(b.ones, start))
      BY <3>2 DEF Concat, Str
    <3>4. Up(tail.ones, start + b.len) = {start + b.len + i : i \in tail.ones}
      BY <2>1, UpIs
    <3> HIDE DEF prefix, tail
    <3>5. Concat(Str(start + b.len, prefix \cup Up(b.ones, start)), tail) = Str(total, made)
      BY <3>4 DEF Concat, Str
    <3> QED BY <3>1, <3>3, <3>5
  <2> HIDE DEF tail, total, made
  <2>7. ASSUME NEW o \in insert(r, start, stop, b)
        PROVE  Gives(o, Str(total, made), "done") \/ Fails(r, o)
    <3>1. CASE o.end = "return"
      <4>1. Str(o.rep.len, o.rep.ones) = Str(total, made)
        BY <2>4, <3>1
      <4> QED BY <2>4, <3>1, <4>1 DEF Gives
    <3>2. CASE o.end # "return"
      BY <2>4, <2>5, <3>2, KeptFails
    <3> QED BY <3>1, <3>2
  <2> QED BY <1>0, <1>2, <2>6, <2>7 DEF tail
<1> QED BY <1>1, <1>2

-----------------------------------------------------------------------------
(* One call: what its outcome means for the string is a step of the        *)
(* promise.                                                                *)

Ends(op, a, o) ==
  /\ out.end # "abort" /\ o.rep.len <= MaxLen
  /\ rep' = o.rep /\ out' = [op |-> op, ret |-> o.ret, end |-> o.end] /\ args' = a

LEMMA CallEnds ==
  ASSUME NEW op, NEW a, NEW S, Call(op, a, S)
  PROVE  \E o \in S : Ends(op, a, o)
BY DEF Call, Ends

LEMMA EndsGives ==
  ASSUME NEW op, NEW a, NEW o, Ends(op, a, o), IInv', NEW w, NEW x, Gives(o, w, x)
  PROVE  Abstract!Does(op, a, w, x)
<1>1. WellFormed(o.rep)
  BY DEF IInv, Ends, WellFormed, capacity
<1>2. Value(rep)' = w
  BY <1>1, ValueIs DEF Ends, Gives
<1>3. w.len <= MaxLen
  BY DEF Ends, Gives, Str
<1> QED BY <1>2, <1>3 DEF Ends, Gives, Abstract!Does, Abstract!Out, Abstract!Running

LEMMA EndsFails ==
  ASSUME NEW op, NEW a, NEW o, Ends(op, a, o), Fails(rep, o)
  PROVE  /\ Abstract!Refused(op, a)
         /\ o.end = "panic" => Abstract!Panics(op, a)
         /\ o.end = "abort" => Abstract!Aborts(op, a)
BY DEF Ends, Fails, Abstract!Panics, Abstract!Aborts, Abstract!Refused, Abstract!Fails,
       Abstract!Out, Abstract!Running

LEMMA EndsAborts ==
  ASSUME NEW op, NEW a, NEW o, Ends(op, a, o), o = Aborts(rep)
  PROVE  Abstract!Aborts(op, a)
BY EndsFails, Fields DEF Fails

LEMMA EndsPanics ==
  ASSUME NEW op, NEW a, NEW o, Ends(op, a, o), o = Panics(rep)
  PROVE  Abstract!Panics(op, a)
BY EndsFails, Fields DEF Fails

(* Lists built anew. *)
LEMMA NewListPromise ==
  ASSUME IInv, IInv', Zeros \/ Ones \/ FromBits \/ FromWords
  PROVE  Abstract!Next
<1>0. WellFormed(rep)
  BY DEF IInv
<1>1. CASE Zeros
  <2>1. PICK n \in Positions : Call("zeros", <<n>>, zeros(rep, n))
    BY <1>1 DEF Zeros
  <2>2. PICK o \in zeros(rep, n) : Ends("zeros", <<n>>, o)
    BY <2>1, CallEnds
  <2>3. o = Aborts(rep) \/ Gives(o, Constant(n, FALSE), "done")
    BY <1>0, Bounds, ZerosGive
  <2>4. Abstract!Does("zeros", <<n>>, Constant(n, FALSE), "done")
          \/ Abstract!Aborts("zeros", <<n>>)
    BY <2>2, <2>3, EndsGives, EndsAborts
  <2>5. Abstract!Zeros
    BY <2>4, SameStrings DEF Abstract!Zeros
  <2> QED BY <2>5 DEF Abstract!Next
<1>2. CASE Ones
  <2>1. PICK n \in Positions : Call("ones", <<n>>, ones(rep, n))
    BY <1>2 DEF Ones
  <2>2. PICK o \in ones(rep, n) : Ends("ones", <<n>>, o)
    BY <2>1, CallEnds
  <2>3. o = Aborts(rep) \/ Gives(o, Constant(n, TRUE), "done")
    BY <1>0, Bounds, OnesGive
  <2>4. Abstract!Does("ones", <<n>>, Constant(n, TRUE), "done")
          \/ Abstract!Aborts("ones", <<n>>)
    BY <2>2, <2>3, EndsGives, EndsAborts
  <2>5. Abstract!Ones
    BY <2>4, SameStrings DEF Abstract!Ones
  <2> QED BY <2>5 DEF Abstract!Next
<1>3. CASE FromBits
  <2>1. PICK b \in Operands : Call("from_bits", <<b>>, from_bits(rep, b))
    BY <1>3 DEF FromBits
  <2>2. PICK o \in from_bits(rep, b) : Ends("from_bits", <<b>>, o)
    BY <2>1, CallEnds
  <2>3. o = Aborts(rep) \/ Gives(o, b, "done")
    BY <1>0, Bounds, FromBitsGive
  <2>4. Abstract!Does("from_bits", <<b>>, b, "done") \/ Abstract!Aborts("from_bits", <<b>>)
    BY <2>2, <2>3, EndsGives, EndsAborts
  <2>5. Abstract!FromBits
    BY <2>4 DEF Abstract!FromBits
  <2> QED BY <2>5 DEF Abstract!Next
<1>4. CASE FromWords
  <2>1. PICK b \in Operands : Call("words", <<b>>, words(rep, b))
    BY <1>4 DEF FromWords
  <2>2. PICK o \in words(rep, b) : Ends("words", <<b>>, o)
    BY <2>1, CallEnds
  <2>3. o = Aborts(rep) \/ Gives(o, b, "done")
    BY <1>0, Bounds, WordsGive
  <2>4. Abstract!Does("words", <<b>>, b, "done") \/ Abstract!Aborts("words", <<b>>)
    BY <2>2, <2>3, EndsGives, EndsAborts
  <2>5. Abstract!FromWords
    BY <2>4 DEF Abstract!FromWords
  <2> QED BY <2>5 DEF Abstract!Next
<1> QED BY <1>1, <1>2, <1>3, <1>4

(* Capacity, copies: the string stays as it is. *)
LEMMA SameStringPromise ==
  ASSUME IInv, IInv', Careful, TryReserve \/ Reserve \/ ShrinkToFit \/ Clone
  PROVE  Abstract!Next
<1>0. WellFormed(rep) /\ Value(rep) = Str(rep.len, rep.ones)
  BY ValueIs DEF IInv
<1>1. CASE TryReserve
  <2>1. PICK n \in Reserves : /\ ~HitsEmptyGrowth(rep, rep.len + n)
                              /\ Call("try_reserve", <<n>>, try_reserve(rep, n))
    BY <1>1 DEF TryReserve
  <2>2. PICK o \in try_reserve(rep, n) : Ends("try_reserve", <<n>>, o)
    BY <2>1, CallEnds
  <2>3. o.end = "return" /\ o.ret \in {"done", "err"} /\ o.rep.ones = rep.ones
        /\ o.rep.len = rep.len
    <3>1. n \in Nat
      BY Bounds
    <3>2. o.end \in {"return", "panic", "abort"}
      BY <1>0, <3>1, TryReserveGood DEF Good
    <3> QED BY <1>0, <2>1, <3>1, <3>2, TryReserveKept
  <2>4. Gives(o, Value(rep), o.ret)
    <3>1. Str(o.rep.len, o.rep.ones) = Str(rep.len, rep.ones)
      BY <2>3
    <3> QED BY <1>0, <2>3, <3>1 DEF Gives
  <2>5. Abstract!Does("try_reserve", <<n>>, Value(rep), o.ret)
    BY <2>2, <2>4, EndsGives
  <2>6. Abstract!TryReserve
    BY <2>3, <2>5 DEF Abstract!TryReserve
  <2> QED BY <2>6 DEF Abstract!Next
<1>2. CASE Reserve
  <2>1. PICK n \in Reserves : /\ ~HitsEmptyGrowth(rep, rep.len + n)
                              /\ Call("reserve", <<n>>, reserve(rep, n))
    BY <1>2 DEF Reserve
  <2>2. PICK o \in reserve(rep, n) : Ends("reserve", <<n>>, o)
    BY <2>1, CallEnds
  <2>3. /\ Kept(rep, o) /\ Good(o) /\ o.end # "abort"
        /\ o.end = "return" => o.ret = "done" /\ o.rep.ones = rep.ones /\ o.rep.len = rep.len
    BY <1>0, <2>1, Bounds, ReserveKept
  <2>4. CASE o.end = "return"
    <3>1. Str(o.rep.len, o.rep.ones) = Str(rep.len, rep.ones)
      BY <2>3, <2>4
    <3>2. Gives(o, Value(rep), "done")
      BY <1>0, <2>3, <2>4, <3>1 DEF Gives
    <3>3. Abstract!Does("reserve", <<n>>, Value(rep), "done")
      BY <2>2, <3>2, EndsGives
    <3> QED BY <3>3 DEF Abstract!Reserve, Abstract!Next
  <2>5. CASE o.end # "return"
    <3>1. o.end = "panic" /\ Fails(rep, o)
      BY <2>3, <2>5, KeptFails DEF Good
    <3>2. Abstract!Panics("reserve", <<n>>)
      BY <2>2, <3>1, EndsFails
    <3> QED BY <3>2 DEF Abstract!Reserve, Abstract!Next
  <2> QED BY <2>4, <2>5
<1>3. CASE ShrinkToFit
  <2>1. Call("shrink_to_fit", <<>>, shrink_to_fit(rep))
    BY <1>3 DEF ShrinkToFit
  <2>2. PICK o \in shrink_to_fit(rep) : Ends("shrink_to_fit", <<>>, o)
    BY <2>1, CallEnds
  <2>3. o = Aborts(rep) \/ Gives(o, Value(rep), "done")
    BY <1>0, CopiesGive
  <2>4. Abstract!Does("shrink_to_fit", <<>>, Value(rep), "done")
          \/ Abstract!Aborts("shrink_to_fit", <<>>)
    BY <2>2, <2>3, EndsGives, EndsAborts
  <2> QED BY <2>4 DEF Abstract!ShrinkToFit, Abstract!Next
<1>4. CASE Clone
  <2>1. Call("clone", <<>>, clone(rep))
    BY <1>4 DEF Clone
  <2>2. PICK o \in clone(rep) : Ends("clone", <<>>, o)
    BY <2>1, CallEnds
  <2>3. o = Aborts(rep) \/ Gives(o, Value(rep), "done")
    BY <1>0, CopiesGive
  <2>4. Abstract!Does("clone", <<>>, Value(rep), "done") \/ Abstract!Aborts("clone", <<>>)
    BY <2>2, <2>3, EndsGives, EndsAborts
  <2> QED BY <2>4 DEF Abstract!Clone, Abstract!Next
<1> QED BY <1>1, <1>2, <1>3, <1>4

(* Length. *)
LEMMA FillIs ==
  ASSUME NEW f \in {"keep", "zero", "one"}
  PROVE  WellFormed(rep) => Abstract!Fill(f) = FillBit(rep, f)
<1>1. CASE f = "zero"
  BY <1>1 DEF Abstract!Fill, FillBit
<1>2. CASE f = "one"
  BY <1>2 DEF Abstract!Fill, FillBit
<1>3. CASE f = "keep"
  <2> SUFFICES ASSUME WellFormed(rep) PROVE Abstract!Fill(f) = FillBit(rep, f)
    OBVIOUS
  <2>1. rep.len \in Nat /\ Value(rep).len = rep.len /\ Value(rep).ones = rep.ones
    BY ValueType
  <2>2. Abstract!Fill(f) = (LastBit(Value(rep)) = "one")
    BY <1>3, SameStrings DEF Abstract!Fill
  <2>3. LastBit(Value(rep)) = "one" <=> rep.len > 0 /\ (rep.len - 1) \in rep.ones
    BY <2>1 DEF LastBit, BitAt
  <2>4. FillBit(rep, f) = (rep.len > 0 /\ (rep.len - 1) \in rep.ones)
    BY <1>3 DEF FillBit
  <2> QED BY <2>2, <2>3, <2>4
<1> QED BY <1>1, <1>2, <1>3

LEMMA LengthPromise ==
  ASSUME IInv, IInv', Careful, Clear \/ Resize \/ Truncate \/ PopBit
  PROVE  Abstract!Next
<1>0. /\ WellFormed(rep) /\ Value(rep).len = rep.len /\ rep.len \in Nat
  BY ValueType DEF IInv
<1>1. CASE Clear
  <2>1. Call("clear", <<>>, clear(rep))
    BY <1>1 DEF Clear
  <2>2. PICK o \in clear(rep) : Ends("clear", <<>>, o)
    BY <2>1, CallEnds
  <2>3. Gives(o, NoBits, "done")
    <3>1. o.end = "return" /\ o.ret = "done" /\ o.rep.len = 0 /\ o.rep.ones = {}
      BY <1>0, ClearIs
    <3> QED BY <3>1 DEF Gives, NoBits
  <2>4. Abstract!Does("clear", <<>>, NoBits, "done")
    BY <2>2, <2>3, EndsGives
  <2> QED BY <2>4, SameStrings DEF Abstract!Clear, Abstract!Next
<1>2. CASE Resize
  <2>1. PICK n \in Positions, f \in {"keep", "zero", "one"} :
           ~HitsShorterHeap(rep, n) /\ Call("resize", <<n, f>>, resize(rep, n, f))
    BY <1>2 DEF Resize
  <2>2. PICK o \in resize(rep, n, f) : Ends("resize", <<n, f>>, o)
    BY <2>1, CallEnds
  <2> DEFINE w == Resized(Value(rep), n, FillBit(rep, f))
  <2>3. Gives(o, w, "done") \/ (Fails(rep, o) /\ n > rep.len)
    BY <1>0, <2>1, Bounds, ResizeGives
  <2>4. w = IF n <= Value(rep).len THEN Abstract!Take(Value(rep), n)
            ELSE Abstract!Concat(Value(rep),
                   Abstract!Constant(n - Value(rep).len, Abstract!Fill(f)))
    BY <1>0, FillIs, SameStrings DEF Resized
  <2> HIDE DEF w
  <2>5. \/ Abstract!Does("resize", <<n, f>>, w, "done")
        \/ n > Value(rep).len /\ Abstract!Refused("resize", <<n, f>>)
    BY <1>0, <2>2, <2>3, EndsGives, EndsFails
  <2>6. Abstract!Resize
    BY <2>4, <2>5 DEF Abstract!Resize
  <2> QED BY <2>6 DEF Abstract!Next
<1>3. CASE Truncate
  <2>1. PICK n \in Positions : /\ n >= rep.len \/ ~HitsShorterHeap(rep, n)
                               /\ Call("truncate", <<n>>, truncate(rep, n))
    BY <1>3 DEF Truncate
  <2>2. PICK o \in truncate(rep, n) : Ends("truncate", <<n>>, o)
    BY <2>1, CallEnds
  <2> DEFINE w == IF n < rep.len THEN Take(Value(rep), n) ELSE Value(rep)
  <2>3. Gives(o, w, "done")
    BY <1>0, <2>1, Bounds, TruncateGives
  <2>4. w = IF n < Value(rep).len THEN Abstract!Take(Value(rep), n) ELSE Value(rep)
    BY <1>0, SameStrings
  <2> HIDE DEF w
  <2>5. Abstract!Does("truncate", <<n>>, w, "done")
    BY <2>2, <2>3, EndsGives
  <2>6. Abstract!Truncate
    BY <2>4, <2>5 DEF Abstract!Truncate
  <2> QED BY <2>6 DEF Abstract!Next
<1>4. CASE PopBit
  <2>1. ~HitsShorterHeap(rep, rep.len - 1) /\ Call("pop_bit", <<>>, pop_bit(rep))
    BY <1>4 DEF PopBit
  <2>2. PICK o \in pop_bit(rep) : Ends("pop_bit", <<>>, o)
    BY <2>1, CallEnds
  <2>3. IF Value(rep) = NoBits THEN Gives(o, Value(rep), "none")
        ELSE Gives(o, Take(Value(rep), Value(rep).len - 1), LastBit(Value(rep)))
    BY <1>0, <2>1, PopBitGives
  <2>4. IF Value(rep) = NoBits THEN Abstract!Does("pop_bit", <<>>, Value(rep), "none")
        ELSE Abstract!Does("pop_bit", <<>>, Take(Value(rep), Value(rep).len - 1),
                           LastBit(Value(rep)))
    BY <2>2, <2>3, EndsGives
  <2>5. Abstract!PopBit
    BY <2>4, SameStrings DEF Abstract!PopBit
  <2> QED BY <2>5 DEF Abstract!Next
<1> QED BY <1>1, <1>2, <1>3, <1>4

(* Growing at the end, and in the middle. *)
LEMMA GrowingPromise ==
  ASSUME IInv, IInv', Careful, PushBits \/ PushManyBits \/ Repeat \/ Insert
  PROVE  Abstract!Next
<1>0. /\ WellFormed(rep) /\ Value(rep).len = rep.len /\ rep.len \in Nat
  BY ValueType DEF IInv
<1>1. CASE PushBits
  <2>1. PICK b \in Operands : ~HitsEmptyGrowth(rep, rep.len + b.len)
                              /\ Call("push_bits", <<b>>, push_bits(rep, b))
    BY <1>1 DEF PushBits
  <2>2. PICK o \in push_bits(rep, b) : Ends("push_bits", <<b>>, o)
    BY <2>1, CallEnds
  <2>3. \/ Gives(o, Concat(Value(rep), b), "done")
        \/ o.end = "panic" /\ Fails(rep, o) /\ b.len # 0
    BY <1>0, <2>1, Bounds, PushBitsGive
  <2>4. b.len # 0 => b # NoBits
    BY StrFields DEF NoBits
  <2>5. \/ Abstract!Does("push_bits", <<b>>, Concat(Value(rep), b), "done")
        \/ b # NoBits /\ Abstract!Panics("push_bits", <<b>>)
    BY <2>2, <2>3, <2>4, EndsGives, EndsFails
  <2>6. Abstract!PushBits
    BY <2>5, SameStrings DEF Abstract!PushBits
  <2> QED BY <2>6 DEF Abstract!Next
<1>2. CASE PushManyBits
  <2>1. PICK v \in BOOLEAN, n \in Positions :
           /\ ~HitsInlineZeros(rep, v, n) /\ ~HitsEmptyGrowth(rep, rep.len + n)
           /\ Call("push_many_bits", <<v, n>>, push_many_bits(rep, v, n))
    BY <1>2 DEF PushManyBits
  <2>2. PICK o \in push_many_bits(rep, v, n) : Ends("push_many_bits", <<v, n>>, o)
    BY <2>1, CallEnds
  <2>3. \/ Gives(o, Concat(Value(rep), Constant(n, v)), "done")
        \/ o.end = "panic" /\ Fails(rep, o) /\ n > 0
    BY <1>0, <2>1, Bounds, PushManyBitsGive
  <2>4. \/ Abstract!Does("push_many_bits", <<v, n>>, Concat(Value(rep), Constant(n, v)), "done")
        \/ n > 0 /\ Abstract!Panics("push_many_bits", <<v, n>>)
    BY <2>2, <2>3, EndsGives, EndsFails
  <2>5. Abstract!PushManyBits
    BY <2>4, SameStrings DEF Abstract!PushManyBits
  <2> QED BY <2>5 DEF Abstract!Next
<1>3. CASE Repeat
  <2>1. PICK k \in Repeats : Call("repeat", <<k>>, repeat(rep, k))
    BY <1>3 DEF Repeat
  <2>2. PICK o \in repeat(rep, k) : Ends("repeat", <<k>>, o)
    BY <2>1, CallEnds
  <2>3. Gives(o, Replicate(Value(rep), k), "done") \/ (Fails(rep, o) /\ k > 0)
    BY <1>0, Bounds, RepeatGives
  <2>4. \/ Abstract!Does("repeat", <<k>>, Replicate(Value(rep), k), "done")
        \/ k > 0 /\ Abstract!Refused("repeat", <<k>>)
    BY <2>2, <2>3, EndsGives, EndsFails
  <2>5. Abstract!Repeat
    BY <2>4, SameStrings DEF Abstract!Repeat
  <2> QED BY <2>5 DEF Abstract!Next
<1>4. CASE Insert
  <2>1. PICK start \in Positions, stop \in Positions, b \in Operands :
           /\ stop > rep.len \/ ~HitsInsert(rep, start, start + b.len + rep.len - stop)
           /\ Call("insert", <<start, stop, b>>, insert(rep, start, stop, b))
    BY <1>4 DEF Insert
  <2>2. PICK o \in insert(rep, start, stop, b) : Ends("insert", <<start, stop, b>>, o)
    BY <2>1, CallEnds
  <2> DEFINE w == Concat(Concat(Take(Value(rep), start), b), Drop(Value(rep), stop))
  <2>3. IF stop > Value(rep).len THEN o = Panics(rep)
        ELSE Gives(o, w, "done") \/ Fails(rep, o)
    BY <1>0, <2>1, Bounds, InsertGives
  <2>4. IF stop > Value(rep).len THEN Abstract!Panics("insert", <<start, stop, b>>)
        ELSE \/ Abstract!Does("insert", <<start, stop, b>>, w, "done")
             \/ Abstract!Refused("insert", <<start, stop, b>>)
    <3> HIDE DEF w
    <3> QED BY <2>2, <2>3, EndsGives, EndsFails, EndsPanics
  <2>5. Abstract!Insert
    BY <2>4, SameStrings DEF Abstract!Insert
  <2> QED BY <2>5 DEF Abstract!Next
<1> QED BY <1>1, <1>2, <1>3, <1>4

(* Writing within the list. *)
LEMMA WritingPromise ==
  ASSUME IInv, IInv', Careful, Set \/ SetRange \/ SetBitsAt \/ SetRangeFill \/ Reverse
  PROVE  Abstract!Next
<1>0. WellFormed(rep)
  BY DEF IInv
<1>1. CASE Set
  <2>1. PICK i \in Positions, v \in BOOLEAN : Call("set", <<i, v>>, set(rep, i, v))
    BY <1>1 DEF Set
  <2>2. PICK o \in set(rep, i, v) : Ends("set", <<i, v>>, o)
    BY <2>1, CallEnds
  <2> DEFINE w == IF i < Value(rep).len
                  THEN Str(Value(rep).len, IF v THEN Value(rep).ones \cup {i}
                                                ELSE Value(rep).ones \ {i})
                  ELSE Value(rep)
  <2>3. Gives(o, w, BitAt(Value(rep), i))
    BY <1>0, Bounds, SetGives
  <2>4. w = IF i < Value(rep).len THEN Abstract!Put(Value(rep), i, v) ELSE Value(rep)
    BY SameStrings DEF Abstract!Put
  <2> HIDE DEF w
  <2>5. Abstract!Does("set", <<i, v>>, w, BitAt(Value(rep), i))
    BY <2>2, <2>3, EndsGives
  <2>6. Abstract!Set
    BY <2>4, <2>5, SameStrings DEF Abstract!Set
  <2> QED BY <2>6 DEF Abstract!Next
<1>2. CASE SetRange
  <2>1. PICK i \in Positions, b \in Operands : Call("set_range", <<i, b>>, set_range(rep, i, b))
    BY <1>2 DEF SetRange
  <2>2. PICK o \in set_range(rep, i, b) : Ends("set_range", <<i, b>>, o)
    BY <2>1, CallEnds
  <2>3. IF i + b.len <= Value(rep).len THEN Gives(o, Overwrite(Value(rep), i, b), "done")
                                       ELSE Gives(o, Value(rep), "none")
    BY <1>0, Bounds, SetRangeGives
  <2>4. IF i + b.len <= Value(rep).len
        THEN Abstract!Does("set_range", <<i, b>>, Overwrite(Value(rep), i, b), "done")
        ELSE Abstract!Does("set_range", <<i, b>>, Value(rep), "none")
    BY <2>2, <2>3, EndsGives
  <2>5. Abstract!SetRange
    BY <2>4, SameStrings DEF Abstract!SetRange
  <2> QED BY <2>5 DEF Abstract!Next
<1>3. CASE SetBitsAt
  <2>1. PICK i \in Positions, b \in Operands :
           Call("set_bits_at", <<i, b>>, set_bits_at(rep, i, b))
    BY <1>3 DEF SetBitsAt
  <2>2. PICK o \in set_bits_at(rep, i, b) : Ends("set_bits_at", <<i, b>>, o)
    BY <2>1, CallEnds
  <2>3. IF i + b.len <= Value(rep).len THEN Gives(o, Overwrite(Value(rep), i, b), "done")
                                       ELSE o = Panics(rep)
    BY <1>0, Bounds, SetRangeGives
  <2>4. IF i + b.len <= Value(rep).len
        THEN Abstract!Does("set_bits_at", <<i, b>>, Overwrite(Value(rep), i, b), "done")
        ELSE Abstract!Panics("set_bits_at", <<i, b>>)
    BY <2>2, <2>3, EndsGives, EndsPanics
  <2>5. Abstract!SetBitsAt
    BY <2>4, SameStrings DEF Abstract!SetBitsAt
  <2> QED BY <2>5 DEF Abstract!Next
<1>4. CASE SetRangeFill
  <2>1. PICK start \in Positions, stop \in Positions, v \in BOOLEAN :
           Call("set_range_fill", <<start, stop, v>>, set_range_fill(rep, start, stop, v))
    BY <1>4 DEF SetRangeFill
  <2>2. PICK o \in set_range_fill(rep, start, stop, v) :
           Ends("set_range_fill", <<start, stop, v>>, o)
    BY <2>1, CallEnds
  <2> DEFINE w == Overwrite(Value(rep), start, Constant(stop - start, v))
  <2>3. IF start <= stop /\ stop <= Value(rep).len THEN Gives(o, w, "done") ELSE o = Panics(rep)
    BY <1>0, Bounds, SetRangeFillGives
  <2>4. IF start <= stop /\ stop <= Value(rep).len
        THEN Abstract!Does("set_range_fill", <<start, stop, v>>, w, "done")
        ELSE Abstract!Panics("set_range_fill", <<start, stop, v>>)
    <3> HIDE DEF w
    <3> QED BY <2>2, <2>3, EndsGives, EndsPanics
  <2>5. Abstract!SetRangeFill
    BY <2>4, SameStrings DEF Abstract!SetRangeFill
  <2> QED BY <2>5 DEF Abstract!Next
<1>5. CASE Reverse
  <2>1. ~HitsEmptyReverse(rep) /\ Call("reverse", <<>>, reverse(rep))
    BY <1>5 DEF Reverse
  <2>2. PICK o \in reverse(rep) : Ends("reverse", <<>>, o)
    BY <2>1, CallEnds
  <2>3. o = Aborts(rep) \/ Gives(o, Mirror(Value(rep)), "done")
    BY <1>0, <2>1, ReverseGives
  <2>4. \/ Abstract!Does("reverse", <<>>, Mirror(Value(rep)), "done")
        \/ Abstract!Aborts("reverse", <<>>)
    BY <2>2, <2>3, EndsGives, EndsAborts
  <2>5. Abstract!Reverse
    BY <2>4, SameStrings DEF Abstract!Reverse
  <2> QED BY <2>5 DEF Abstract!Next
<1> QED BY <1>1, <1>2, <1>3, <1>4, <1>5

-----------------------------------------------------------------------------
(* Whatever the word size, the capacity of the inline form and what memory *)
(* held before, and in a debug as in a release build: a list whose owner   *)
(* avoids the calls that Hits names is the string BitListSpec promises.    *)
(* Every call either has its effect on the string or fails as allowed.     *)
THEOREM ListsKeepTheirPromise ==
  ASSUME Careful
  PROVE  Spec => Promise
<1>1. Init => Abstract!Init
  <2>1. Value(NO_BITS) = NoBits
    <3>1. NO_BITS.len = 0 /\ NO_BITS.ones = {}
      BY DEF NO_BITS, Inline
    <3> QED BY <3>1 DEF Value, NoBits
  <2> QED BY <2>1, SameStrings DEF Init, Abstract!Init, Abstract!Out
<1>2. IInv /\ IInv' /\ [Next]_vars => [Abstract!Next]_(Abstract!vars)
  <2>1. CASE UNCHANGED vars
    BY <2>1 DEF vars, Abstract!vars, Value
  <2>2. ASSUME IInv, IInv', Next PROVE Abstract!Next
    BY <2>2, NewListPromise, SameStringPromise, LengthPromise, GrowingPromise, WritingPromise
       DEF Next
  <2> QED BY <2>1, <2>2
<1> QED BY <1>1, <1>2, SpecIInv, PTL DEF Spec, Promise, Abstract!Spec
=============================================================================
