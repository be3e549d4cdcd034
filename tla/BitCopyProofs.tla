---------------------------- MODULE BitCopyProofs ----------------------------
(***************************************************************************)
(* Proofs about BitCopy.  Between two steps the memory is the old one with *)
(* the first bits of the destination already as they are due; which unit   *)
(* comes next, and that it still has something to write, is what the loops *)
(* of util.rs keep in their pointers and counters.                         *)
(***************************************************************************)
EXTENDS BitCopy, BitWordsProofs

(* The first d bits of the destination, what each is due to become, and    *)
(* the memory when they have been written.                                 *)
Target(d) == job.to .. (job.to + d - 1)

Due(i) == IF job.call = "copy" THEN job.from + (i - job.to) \in old ELSE job.value

Halfway(d) == (old \ Target(d)) \cup {i \in Target(d) : Due(i)}

moved == job.count - left

(* Every place lies in a word that holds a bit of the destination.         *)
Touches(s) ==
  \A i \in s : i \in Nat /\ \E j \in Target(job.count) : word_index(i) = word_index(j)

(* Every place lies in a word of which some bit is to be kept.             *)
Spares(s) ==
  \A i \in s : \E j \in Nat : j \notin Target(job.count) /\ word_index(i) = word_index(j)

(* Where the call is. *)
Place ==
  /\ pc \in {"copy", "fill"} => pc = job.call /\ left = job.count
  /\ pc \in {"copy_last", "copy_words"} => job.call = "copy"
  /\ pc \in {"fill_bytes", "fill_last"} => job.call = "fill"
  /\ pc = "copy_words" => job.to + moved = dst * WordSize
  /\ pc \in {"copy_last", "fill_last"} =>
       /\ unit \in {ByteSize, WordSize} /\ left \in 1 .. (unit - 1)
       /\ job.to + moved = dst * unit
  /\ pc = "copy_last" => (job.from + moved) % unit = 0
  /\ pc = "fill_bytes" => (job.to + moved) % ByteSize = 0
  /\ pc = "done" => left = 0

IInv ==
  /\ job \in CopyJobs \cup FillJobs
  /\ old \subseteq Nat
  /\ left \in 0 .. job.count
  /\ dst \in Nat
  /\ pc \in {"copy", "copy_last", "copy_words", "fill", "fill_bytes", "fill_last", "done"}
  /\ mem = Halfway(moved)
  /\ Place
  /\ Touches(read \cup written)
  /\ Spares(read)

-----------------------------------------------------------------------------
(* Jobs and memory. *)

LEMMA JobType ==
  ASSUME job \in CopyJobs \cup FillJobs
  PROVE  /\ job.from \in Nat /\ job.to \in Nat /\ job.count \in Nat
         /\ job.value \in BOOLEAN /\ job.call \in {"copy", "fill"}
         /\ job.call = "copy" =>
              job.from + job.count <= job.to \/ job.to + job.count <= job.from
<1>1. CASE job \in CopyJobs
  <2>1. /\ job \in [call : {"copy"}, from : 0 .. MemBits, to : 0 .. MemBits,
                    count : 0 .. MemBits, value : {FALSE}]
        /\ job.from + job.count <= job.to \/ job.to + job.count <= job.from
    BY <1>1 DEF CopyJobs
  <2>2. job.call = "copy" /\ job.value \in BOOLEAN
    BY <2>1
  <2> QED BY <2>1, <2>2
<1>2. CASE job \in FillJobs
  BY <1>2 DEF FillJobs
<1> QED BY <1>1, <1>2

LEMMA UnitsType ==
  /\ ByteSize \in Nat /\ ByteSize > 0 /\ WordSize \in Nat /\ WordSize > 1
  /\ WordSize % ByteSize = 0
BY CopyAssumption, WordSizeType

(* A unit that is a byte or a word lies in one word. *)
LEMMA UnitInWord ==
  ASSUME NEW u \in {ByteSize, WordSize}, NEW k \in Nat,
         NEW i \in Unit(u, k), NEW j \in Unit(u, k)
  PROVE  i \in Nat /\ j \in Nat /\ word_index(i) = word_index(j)
<1>1. u \in Nat /\ u > 0 /\ WordSize % u = 0
  BY UnitsType
<1>2. i \in Nat /\ i \div u = k /\ j \in Nat /\ j \div u = k
  BY <1>1, UnitPositions DEF Unit
<1>3. CASE u = WordSize
  BY <1>2, <1>3 DEF word_index
<1>4. CASE u = ByteSize
  <2>1. OneUnit(ByteSize, i, j)
    BY <1>2, <1>4 DEF OneUnit
  <2>2. OneUnit(WordSize, i, j)
    BY <1>2, <2>1, UnitsType, UnitsNest
  <2> QED BY <1>2, <2>2 DEF OneUnit, word_index
<1> QED BY <1>3, <1>4

LEMMA PutIs ==
  ASSUME NEW u \in Nat, u > 0, NEW k \in Nat, NEW b, b \subseteq 0 .. (u - 1)
  PROVE  \A i : i \in Put(u, k, b) <=> IF i \in Unit(u, k) THEN i - k * u \in b ELSE i \in mem
<1> DEFINE base == k * u
<1>1. base \in Nat /\ Unit(u, k) = base .. (base + u - 1)
  BY TimesNext DEF Unit
<1>2. Put(u, k, b) = (mem \ Unit(u, k)) \cup {i + base : i \in b}
  BY DEF Put, Up
<1> HIDE DEF base
<1>3. ASSUME NEW i PROVE i \in {x + base : x \in b} <=> i \in Unit(u, k) /\ i - base \in b
  BY <1>1
<1> QED BY <1>2, <1>3 DEF base

(* When the next bits of the destination have become what they are due.    *)
LEMMA Advances ==
  ASSUME job \in CopyJobs \cup FillJobs, NEW d \in Nat, NEW e \in Nat, d <= e,
         mem = Halfway(d),
         NEW m, \A i : i \in m <=> IF i \in (job.to + d) .. (job.to + e - 1) THEN Due(i) ELSE i \in mem
  PROVE  m = Halfway(e)
<1>1. job.to \in Nat
  BY JobType
<1>2. \A i : i \in Target(e) <=> i \in Target(d) \/ i \in (job.to + d) .. (job.to + e - 1)
  BY <1>1 DEF Target
<1>3. \A i : i \in Target(d) => i \notin (job.to + d) .. (job.to + e - 1)
  BY <1>1 DEF Target
<1>4. \A i : i \in Halfway(d) <=> IF i \in Target(d) THEN Due(i) ELSE i \in old
  BY DEF Halfway
<1>5. \A i : i \in Halfway(e) <=> IF i \in Target(e) THEN Due(i) ELSE i \in old
  BY DEF Halfway
<1>6. \A i : i \in m <=> i \in Halfway(e)
  BY <1>2, <1>3, <1>4, <1>5
<1> QED BY <1>6

(* The source is what it was: no bit of it is a bit of the destination.    *)
LEMMA SourceKept ==
  ASSUME job \in CopyJobs \cup FillJobs, job.call = "copy", NEW d \in 0 .. job.count,
         mem = Halfway(d), NEW x \in 0 .. (job.count - 1)
  PROVE  job.from + x \in mem <=> Due(job.to + x)
<1>1. /\ job.from \in Nat /\ job.to \in Nat /\ job.count \in Nat
      /\ job.from + job.count <= job.to \/ job.to + job.count <= job.from
  BY JobType
<1>2. job.from + x \notin Target(d)
  BY <1>1 DEF Target
<1>3. job.from + ((job.to + x) - job.to) = job.from + x
  BY <1>1
<1> QED BY <1>2, <1>3 DEF Halfway, Due

-----------------------------------------------------------------------------
(* What the source hands out. *)

LEMMA SourceMask ==
  /\ \A n : Source!last_word_mask(n) = last_word_mask(n)
  /\ \A w : raw(w) = w.value \cap last_word_mask(w.count)
BY DEF raw, Source!raw, Source!last_word_mask, last_word_mask, Source!bit_in_word_index,
       bit_in_word_index, Source!Bit, Bit

(* w has c bits, those of the memory from bit s on. *)
Reads(w, s, c) ==
  /\ w = [value |-> w.value, count |-> c]
  /\ w.value \subseteq Nat
  /\ \A j \in 0 .. (c - 1) : j \in w.value <=> s + j \in mem

Lesser(x, y) == IF x < y THEN x ELSE y

LEMMA PeekIs ==
  ASSUME NEW s \in Nat, NEW f \in Nat, s < f
  PROVE  Reads(Source!peek_word(s, f), s, Lesser(WordSize - (s % WordSize), f - s))
<1> DEFINE k == s \div WordSize
           b == s % WordSize
           base == k * WordSize
           rest == WordSize - b
           c == Lesser(rest, f - s)
           v == Down(WordAt(mem, k), b)
<1>1. k \in Nat /\ b \in Nat /\ b < WordSize /\ s = base + b /\ base \in Nat
  BY DivSplit, WordSizeType, TimesNext
<1>2. Source!peek_word(s, f) = [value |-> v, count |-> c]
  BY DEF Source!peek_word, Source!WordBits, Source!Down, Source!WordAt, Source!word_index,
         Source!bit_in_word_index, Source!least, Lesser, Source!Word, Down, WordAt, Word
<1>3. Word(k) = base .. (base + WordSize - 1)
  BY <1>1, WordSizeType, TimesNext DEF Word
<1>4. WordAt(mem, k) = {i - base : i \in mem \cap Word(k)}
  <2>1. WordAt(mem, k) = {i - base : i \in {j \in mem \cap Word(k) : j >= base}}
    BY DEF WordAt, Down
  <2> HIDE DEF k, base
  <2>2. {j \in mem \cap Word(k) : j >= base} = mem \cap Word(k)
    BY <1>1, <1>3
  <2> QED BY <2>1, <2>2
<1> HIDE DEF base, k
<1>5. WordAt(mem, k) \subseteq Nat
  BY <1>1, <1>3, <1>4
<1>6. v \subseteq Nat
  BY <1>1, <1>5 DEF Down
<1>7. ASSUME NEW j \in 0 .. (c - 1) PROVE j \in v <=> s + j \in mem
  <2>1. j \in Nat /\ j + b < WordSize /\ s + j = base + (j + b) /\ s + j \in Word(k)
    BY <1>1, <1>3, WordSizeType DEF Lesser
  <2>2. j \in v <=> j + b \in WordAt(mem, k)
    <3>1. j \in v <=> \E x \in WordAt(mem, k) : x >= b /\ j = x - b
      BY DEF Down
    <3>2. ASSUME NEW x \in WordAt(mem, k), j = x - b PROVE x = j + b
      BY <1>1, <1>5, <3>2
    <3>3. j + b >= b /\ (j + b) - b = j
      BY <1>1, <2>1
    <3> QED BY <3>1, <3>2, <3>3
  <2>3. j + b \in WordAt(mem, k) <=> s + j \in mem
    <3>1. ASSUME NEW i \in mem \cap Word(k), j + b = i - base PROVE i = s + j
      BY <1>1, <1>3, <2>1, <3>1
    <3>2. (s + j) - base = j + b
      BY <1>1, <2>1
    <3> QED BY <1>4, <2>1, <3>1, <3>2
  <2> QED BY <2>2, <2>3
<1> HIDE DEF v, c
<1> QED BY <1>2, <1>6, <1>7 DEF c, Reads

LEMMA PeekNone ==
  ASSUME NEW s \in Nat
  PROVE  Reads(Source!peek_word(s, s), s, 0) /\ Source!peek_word(s, s).value = {}
BY DEF Reads, Source!peek_word, Source!WordBits

(* Two words pushed together.  Behind a full word there must come nothing: *)
(* the shift would wrap.                                                   *)
LEMMA PushValue ==
  ASSUME NEW a \in 0 .. WordSize, NEW b \in 0 .. WordSize, a + b <= WordSize,
         NEW one, one.count = a, one.value \subseteq Nat,
         NEW two, two.count = b, two.value \subseteq Nat, a = WordSize => two.value = {}
  PROVE  LET push == Source!push_bits(one, two)
         IN  /\ push = [value |-> push.value, count |-> a + b]
             /\ push.value \subseteq Nat
             /\ \A j \in 0 .. (a - 1) : j \in push.value <=> j \in one.value
             /\ \A j \in a .. (a + b - 1) : j \in push.value <=> j - a \in two.value
<1> DEFINE push == Source!push_bits(one, two)
           low == one.value \cap (0 .. (a - 1))
           high == {i + (a % WordSize) : i \in two.value} \cap (0 .. (WordSize - 1))
<1>1. raw(one) = low
  BY SourceMask, MaskUpTo
<1>2. push = [value |-> low \cup high, count |-> a + b]
  BY <1>1 DEF raw, Source!push_bits, Source!Merged, Source!WordBits, Source!Up, Source!Bit
<1>3. CASE a = WordSize
  <2>1. high = {}
    BY <1>3
  <2>2. b = 0 /\ a .. (a + b - 1) = {}
    BY <1>3, WordSizeType
  <2>3. push.value = low /\ push = [value |-> push.value, count |-> a + b]
    BY <1>2, <2>1
  <2> HIDE DEF push
  <2> QED BY <2>2, <2>3 DEF push
<1>4. CASE a < WordSize
  <2>1. a % WordSize = a
    BY <1>4, WordSizeType
  <2>2. \A j \in 0 .. (a + b - 1) : j \in high <=> j - a \in two.value
    BY <2>1, WordSizeType
  <2>3. \A j \in 0 .. (a - 1) : j - a \notin two.value
    OBVIOUS
  <2>4. \A j \in 0 .. (a - 1) : j \in low <=> j \in one.value
    OBVIOUS
  <2>5. \A j \in a .. (a + b - 1) : j \notin low
    OBVIOUS
  <2>6. low \cup high \subseteq Nat /\ 0 .. (a - 1) \subseteq 0 .. (a + b - 1)
        /\ a .. (a + b - 1) \subseteq 0 .. (a + b - 1)
    OBVIOUS
  <2> HIDE DEF low, high
  <2>7. push.value = low \cup high /\ push = [value |-> push.value, count |-> a + b]
    BY <1>2
  <2> HIDE DEF push
  <2>8. \A j \in 0 .. (a - 1) : j \in push.value <=> j \in one.value
    BY <2>2, <2>3, <2>4, <2>6, <2>7
  <2>9. \A j \in a .. (a + b - 1) : j \in push.value <=> j - a \in two.value
    BY <2>2, <2>5, <2>6, <2>7
  <2> QED BY <2>6, <2>7, <2>8, <2>9 DEF push
<1> QED BY <1>3, <1>4, WordSizeType

LEMMA PushIs ==
  ASSUME NEW s \in Nat, NEW a \in 0 .. WordSize, NEW b \in 0 .. WordSize, a + b <= WordSize,
         NEW one, Reads(one, s, a), NEW two, Reads(two, s + a, b), a = WordSize => two.value = {}
  PROVE  Reads(Source!push_bits(one, two), s, a + b)
<1> DEFINE push == Source!push_bits(one, two)
<1>1. one.count = a /\ two.count = b /\ one.value \subseteq Nat /\ two.value \subseteq Nat
  BY DEF Reads
<1>2. /\ push = [value |-> push.value, count |-> a + b]
      /\ push.value \subseteq Nat
      /\ \A j \in 0 .. (a - 1) : j \in push.value <=> j \in one.value
      /\ \A j \in a .. (a + b - 1) : j \in push.value <=> j - a \in two.value
  BY <1>1, PushValue
<1> HIDE DEF push
<1>3. ASSUME NEW j \in 0 .. (a + b - 1) PROVE j \in push.value <=> s + j \in mem
  <2>1. CASE j < a
    BY <1>2, <2>1 DEF Reads
  <2>2. CASE j >= a
    <3>1. j - a \in 0 .. (b - 1) /\ (s + a) + (j - a) = s + j /\ j \in a .. (a + b - 1)
      BY <2>2
    <3> QED BY <1>2, <3>1 DEF Reads
  <2> QED BY <2>1, <2>2
<1>4. Reads(push, s, a + b)
  BY <1>2, <1>3 DEF Reads
<1> QED BY <1>4 DEF push

LEMMA NextBitsIs ==
  ASSUME NEW s \in Nat, NEW e \in Nat, s <= e, NEW n \in 1 .. WordSize
  PROVE  Reads(Source!next_bits(s, e, n), s, Lesser(e - s, n))
<1> DEFINE c == Lesser(e - s, n)
           f == s + c
           one == Source!peek_word(s, f)
           two == Source!peek_word(s + one.count, f)
           push == Source!push_bits(one, two)
           all == IF one.count < n THEN push ELSE one
<1>1. c \in Nat /\ c <= n /\ c <= WordSize /\ f \in Nat /\ f - s = c /\ (c = 0 <=> s = f)
  BY WordSizeType DEF Lesser
<1>2. Source!next_bits(s, e, n) = [value |-> all.value, count |-> Lesser(all.count, n)]
  <2>1. Source!Limited(s, e, n) = f
    BY DEF Source!Limited, Lesser
  <2> QED BY <2>1 DEF Source!next_bits, Source!truncated, Source!WordBits, Source!least, Lesser
<1> HIDE DEF c, f
<1>3. Reads(all, s, c)
  <2>1. CASE c = 0
    <3>1. Reads(one, s, 0) /\ one.count = 0 /\ one.value = {}
      BY <1>1, <2>1, PeekNone DEF Reads
    <3>2. Reads(two, s, 0)
      BY <1>1, <2>1, <3>1, PeekNone
    <3> HIDE DEF one, two
    <3>3. Reads(push, s, 0)
      BY <3>1, <3>2, PushIs, WordSizeType
    <3> QED BY <2>1, <3>1, <3>3
  <2>2. CASE c > 0
    <3> DEFINE rest == WordSize - (s % WordSize)
               a == Lesser(rest, c)
    <3>1. rest \in 1 .. WordSize
      BY DivSplit, WordSizeType
    <3>2. Reads(one, s, a) /\ one.count = a
      BY <1>1, <2>2, PeekIs DEF Reads
    <3>3. a \in 1 .. c
      BY <1>1, <2>2, <3>1 DEF Lesser
    <3>4. CASE a = c
      <4>1. s + one.count = f
        BY <3>2, <3>4 DEF f
      <4>2. Reads(two, f, 0) /\ two.value = {}
        BY <1>1, <4>1, PeekNone
      <4> HIDE DEF one, two, a
      <4>3. Reads(push, s, c)
        <5>1. Reads(one, s, c) /\ Reads(two, s + c, 0) /\ two.value = {}
          BY <1>1, <3>2, <3>4, <4>2 DEF f
        <5>2. c \in 0 .. WordSize /\ 0 \in 0 .. WordSize /\ c + 0 = c /\ c + 0 <= WordSize
          BY <1>1, WordSizeType
        <5> HIDE DEF push
        <5>3. Reads(push, s, c + 0)
          BY <5>1, <5>2, PushIs DEF push
        <5> QED BY <5>2, <5>3
      <4> QED BY <3>2, <3>4, <4>3
    <3>5. CASE a # c
      <4>1. a = rest /\ rest < c
        BY <3>5 DEF Lesser
      <4>2. (s + rest) % WordSize = 0
        <5>1. s = (s \div WordSize) * WordSize + (s % WordSize) /\ s \div WordSize \in Nat
          BY DivSplit, WordSizeType
        <5> DEFINE k == s \div WordSize
        <5>2. k \in Nat /\ s + rest = k * WordSize + WordSize
          BY <5>1, WordSizeType
        <5>3. (k + 1) * WordSize = k * WordSize + WordSize
          BY <5>2, TimesNext, WordSizeType
        <5> HIDE DEF k
        <5>4. k + 1 \in Nat /\ s + rest = (k + 1) * WordSize
          BY <5>2, <5>3
        <5> DEFINE m == k + 1
                   t == s + rest
        <5>5. m \in Nat /\ t = m * WordSize /\ m * WordSize \in Int
          BY <5>4, TimesNext, WordSizeType
        <5> HIDE DEF m, t
        <5>6. t = m * WordSize + 0
          BY <5>5
        <5>7. t % WordSize = 0
          BY <5>5, <5>6, DivUnique, WordSizeType
        <5> QED BY <5>7 DEF t
      <4> HIDE DEF rest
      <4>3. s + rest \in Nat /\ s + rest < f /\ f - (s + rest) = c - rest
        BY <1>1, <3>1, <4>1 DEF f
      <4>4. Reads(two, s + rest, Lesser(WordSize - 0, f - (s + rest)))
        BY <1>1, <3>2, <4>1, <4>2, <4>3, PeekIs
      <4>5. Lesser(WordSize - 0, f - (s + rest)) = c - rest
        BY <1>1, <3>1, <4>1, <4>3, WordSizeType DEF Lesser
      <4> HIDE DEF one, two, a
      <4>6. Reads(two, s + rest, c - rest) /\ Reads(one, s, rest) /\ one.count < n
        <5>1. one.count < n
          BY <1>1, <3>1, <3>2, <4>1
        <5> QED BY <3>2, <4>1, <4>4, <4>5, <5>1
      <4>7. c - rest \in 0 .. WordSize /\ rest + (c - rest) = c /\ rest # WordSize
        BY <1>1, <3>1, <4>1, WordSizeType
      <4>8. Reads(push, s, c)
        BY <1>1, <3>1, <4>6, <4>7, PushIs
      <4> QED BY <4>6, <4>8
    <3> QED BY <3>4, <3>5
  <2> QED BY <1>1, <2>1, <2>2
<1> HIDE DEF all
<1>4. all.count = c /\ Lesser(c, n) = c
  BY <1>1, <1>3 DEF Reads, Lesser
<1> QED BY <1>2, <1>3, <1>4 DEF Reads, c

-----------------------------------------------------------------------------
(* One unit written. *)

LEMMA UnitAtIs ==
  ASSUME NEW u \in Nat, u > 0, NEW k \in Nat
  PROVE  /\ UnitAt(u, k) \subseteq 0 .. (u - 1)
         /\ \A x \in 0 .. (u - 1) : x \in UnitAt(u, k) <=> k * u + x \in mem
<1> DEFINE base == k * u
<1>1. base \in Nat /\ Unit(u, k) = base .. (base + u - 1)
  BY TimesNext DEF Unit
<1>2. UnitAt(u, k) = {i - base : i \in {j \in mem \cap Unit(u, k) : j >= base}}
  BY DEF UnitAt, Down
<1> HIDE DEF base
<1>3. \A x : x \in UnitAt(u, k) <=> x \in 0 .. (u - 1) /\ base + x \in mem
  <2> SUFFICES ASSUME NEW x
               PROVE  x \in UnitAt(u, k) <=> x \in 0 .. (u - 1) /\ base + x \in mem
    OBVIOUS
  <2>1. ASSUME NEW i \in mem \cap Unit(u, k), x = i - base PROVE x \in 0 .. (u - 1) /\ base + x = i
    BY <1>1, <2>1
  <2>2. ASSUME x \in 0 .. (u - 1)
        PROVE  base + x \in Unit(u, k) /\ base + x >= base /\ x = (base + x) - base
    BY <1>1, <2>2
  <2> QED BY <1>2, <2>1, <2>2
<1> QED BY <1>3 DEF base

LEMMA WordAtIs ==
  ASSUME NEW k \in Nat
  PROVE  /\ WordAt(mem, k) \subseteq 0 .. (WordSize - 1)
         /\ \A x \in 0 .. (WordSize - 1) : x \in WordAt(mem, k) <=> k * WordSize + x \in mem
<1>1. WordAt(mem, k) = UnitAt(WordSize, k)
  BY DEF WordAt, UnitAt, Word, Unit
<1> QED BY <1>1, UnitAtIs, WordSizeType

(* In unit d of size u the c bits from bit o on are as they are due, the   *)
(* others as they were.                                                    *)
Fills(bits, u, d, o, c) ==
  /\ bits \subseteq 0 .. (u - 1)
  /\ \A x \in 0 .. (u - 1) :
       x \in bits <=> IF x \in o .. (o + c - 1) THEN Due(d * u + x) ELSE d * u + x \in mem

LEMMA Moving ==
  ASSUME IInv
  PROVE  /\ moved \in Nat /\ left \in Nat /\ moved + left = job.count /\ moved <= job.count
         /\ from = job.from + moved /\ from \in Nat
BY JobType DEF IInv, moved, from

LEMMA Shifted ==
  ASSUME NEW t \in Int, NEW D \in Int, NEW base \in Int, NEW o \in Int, t + D = base + o,
         NEW c \in Int, NEW i \in Int
  PROVE  i - base \in o .. (o + c - 1) <=> i \in (t + D) .. (t + (D + c) - 1)
OBVIOUS

(* Those are the next c bits to write. *)
Suits(bits, u, d, o, c) ==
  /\ u \in {ByteSize, WordSize} /\ d \in Nat /\ o \in Nat /\ c \in Nat
  /\ c > 0 /\ c <= left /\ o + c <= u
  /\ job.to + moved = d * u + o
  /\ Fills(bits, u, d, o, c)

LEMMA UnitWritten ==
  ASSUME IInv, NEW bits, NEW u, NEW d, NEW o, NEW c, Suits(bits, u, d, o, c)
  PROVE  /\ Put(u, d, bits) = Halfway(moved + c)
         /\ Touches(read \cup (written \cup Unit(u, d)))
         /\ Touches((read \cup Unit(u, d)) \cup (written \cup Unit(u, d)))
         /\ (o > 0 /\ moved = 0) \/ (o + c < u /\ c = left) => Spares(read \cup Unit(u, d))
<1> DEFINE base == d * u
           D == moved
<1> USE DEF Suits
<1>1. u \in Nat /\ u > 0 /\ job.to \in Nat /\ job.count \in Nat /\ D \in Nat /\ D + left = job.count
  BY UnitsType, JobType, Moving DEF IInv
<1>2. base \in Nat /\ Unit(u, d) = base .. (base + u - 1) /\ job.to + D = base + o
  BY <1>1, TimesNext DEF Unit
<1>3. /\ bits \subseteq 0 .. (u - 1)
      /\ \A x \in 0 .. (u - 1) :
           x \in bits <=> IF x \in o .. (o + c - 1) THEN Due(base + x) ELSE base + x \in mem
  BY DEF Fills
<1>4. mem = Halfway(D) /\ job \in CopyJobs \cup FillJobs
  BY DEF IInv
<1>5. \A i : i \in Put(u, d, bits) <=> IF i \in Unit(u, d) THEN i - base \in bits ELSE i \in mem
  BY <1>1, <1>3, PutIs
<1>6. left \in Nat /\ c \in Nat
  BY Moving
<1> HIDE DEF base, D
<1>7. ASSUME NEW i
      PROVE  i \in Put(u, d, bits) <=>
               IF i \in (job.to + D) .. (job.to + (D + c) - 1) THEN Due(i) ELSE i \in mem
  <2>1. CASE i \in Unit(u, d)
    <3>1. i - base \in 0 .. (u - 1) /\ base + (i - base) = i
      BY <1>1, <1>2, <2>1
    <3>2. i - base \in o .. (o + c - 1) <=> i \in (job.to + D) .. (job.to + (D + c) - 1)
      <4> DEFINE t == job.to
      <4>1. i \in Int /\ t \in Int /\ D \in Int /\ base \in Int /\ t + D = base + o
        BY <1>1, <1>2, <2>1
      <4> HIDE DEF t
      <4>2. i - base \in o .. (o + c - 1) <=> i \in (t + D) .. (t + (D + c) - 1)
        BY <4>1, Shifted
      <4> QED BY <4>2 DEF t
    <3> QED BY <1>3, <1>5, <2>1, <3>1, <3>2
  <2>2. CASE i \notin Unit(u, d)
    <3>1. i \notin (job.to + D) .. (job.to + (D + c) - 1)
      BY <1>1, <1>2, <2>2
    <3> QED BY <1>5, <2>2, <3>1
  <2> QED BY <2>1, <2>2
<1>8. Put(u, d, bits) = Halfway(D + c)
  <2>1. D + c \in Nat /\ D <= D + c
    BY <1>1
  <2> QED BY <1>1, <1>4, <1>7, <2>1, Advances
<1>9. \A i \in Unit(u, d), j \in Unit(u, d) : i \in Nat /\ word_index(i) = word_index(j)
  BY UnitInWord
<1>10. job.to + D \in Target(job.count) /\ job.to + D \in Unit(u, d)
  <2>1. D < job.count
    BY <1>1, <1>6
  <2>2. job.to + D \in Target(job.count)
    BY <1>1, <2>1 DEF Target
  <2>3. base + o \in base .. (base + u - 1)
    BY <1>1, <1>2, <1>6
  <2> QED BY <1>2, <2>2, <2>3
<1>11. Touches(Unit(u, d)) /\ Touches(read \cup written)
  BY <1>9, <1>10 DEF Touches, IInv
<1>12. /\ Touches(read \cup (written \cup Unit(u, d)))
       /\ Touches((read \cup Unit(u, d)) \cup (written \cup Unit(u, d)))
  BY <1>11 DEF Touches
<1>13. ASSUME (o > 0 /\ D = 0) \/ (o + c < u /\ c = left) PROVE Spares(read \cup Unit(u, d))
  <2>1. \E j \in Unit(u, d) : j \notin Target(job.count)
    <3>1. CASE o > 0 /\ D = 0
      <4>1. job.to - 1 \in Unit(u, d) /\ job.to - 1 \notin Target(job.count)
        BY <1>1, <1>2, <3>1 DEF Target
      <4> QED BY <4>1
    <3>2. CASE o + c < u /\ c = left
      <4>1. job.to + job.count \in Unit(u, d) /\ job.to + job.count \notin Target(job.count)
        <5> DEFINE t == job.to
                   n == job.count
        <5>1. /\ t \in Int /\ D \in Int /\ n \in Int /\ base \in Int /\ t + D = base + o
              /\ D + left = n /\ left = c /\ o + c < u /\ Unit(u, d) = base .. (base + u - 1)
          BY <1>1, <1>2, <1>6, <3>2
        <5>2. Target(job.count) = t .. (t + n - 1)
          BY DEF Target
        <5> HIDE DEF t, n
        <5>3. t + n = base + (o + c) /\ t + n \notin t .. (t + n - 1)
          BY <5>1
        <5>4. t + n \in Unit(u, d)
          BY <1>1, <1>6, <5>1, <5>3
        <5> QED BY <5>2, <5>3, <5>4 DEF t, n
      <4> QED BY <4>1
    <3> QED BY <1>13, <3>1, <3>2
  <2>2. Spares(Unit(u, d)) /\ Spares(read)
    BY <1>9, <2>1 DEF Spares, IInv
  <2> QED BY <2>2 DEF Spares
<1> QED BY <1>8, <1>12, <1>13 DEF D

(* The bits still to be copied are those of the source.                    *)
LEMMA SourceBits ==
  ASSUME IInv, job.call = "copy", NEW x \in 0 .. (left - 1), NEW i, i = job.to + moved + x
  PROVE  from + x \in mem <=> Due(i)
<1> DEFINE D == moved
           y == D + x
<1>1. /\ D \in Nat /\ left \in Nat /\ D + left = job.count /\ from = job.from + D
      /\ job.from \in Nat /\ job.to \in Nat /\ job.count \in Nat
  BY Moving, JobType DEF IInv
<1>2. mem = Halfway(D) /\ job \in CopyJobs \cup FillJobs
  BY DEF IInv
<1> HIDE DEF D
<1>3. D \in 0 .. job.count /\ y \in 0 .. (job.count - 1) /\ from + x = job.from + y
  BY <1>1
<1>4. i = job.to + y
  BY <1>1 DEF D
<1> HIDE DEF y
<1> QED BY <1>2, <1>3, <1>4, SourceKept

LEMMA NextBitsAre ==
  ASSUME IInv, NEW n \in 1 .. WordSize
  PROVE  Reads(NextBits(n), from, Lesser(left, n))
<1> DEFINE e == job.from + job.count
<1>1. from \in Nat /\ e \in Nat /\ from <= e /\ e - from = left
  BY Moving, JobType DEF IInv
<1>2. NextBits(n) = Source!next_bits(from, e, n)
  BY DEF NextBits
<1> HIDE DEF e
<1> QED BY <1>1, <1>2, NextBitsIs

-----------------------------------------------------------------------------
(* The steps. *)

(* What a step must establish. *)
LEMMA Arrives ==
  ASSUME IInv, NEW c \in Nat, c <= left, job' = job, old' = old, left' = left - c,
         mem' = Halfway(moved + c), dst' \in Nat,
         pc' \in {"copy", "copy_last", "copy_words", "fill", "fill_bytes", "fill_last", "done"},
         Place', Touches(read' \cup written'), Spares(read')
  PROVE  IInv'
<1>1. /\ moved \in Nat /\ left \in Nat /\ moved + left = job.count /\ job.count \in Nat
  BY Moving, JobType DEF IInv
<1>2. moved' = moved + c /\ left' \in 0 .. job'.count
  BY <1>1 DEF moved
<1>3. mem' = Halfway(moved)'
  BY <1>2 DEF Halfway, Target, Due
<1>4. Touches(read \cup written)' /\ Spares(read)'
  BY DEF Touches, Spares, Target
<1>5. job' \in CopyJobs \cup FillJobs /\ old' \subseteq Nat
  BY DEF IInv
<1> QED BY <1>2, <1>3, <1>4, <1>5 DEF IInv, CopyJobs, FillJobs, MemBits

Places == {"copy", "copy_last", "copy_words", "fill", "fill_bytes", "fill_last", "done"}

LEMMA AfterModifies ==
  ASSUME IInv, NEW bits, NEW u, NEW d, NEW o, NEW c, Suits(bits, u, d, o, c),
         (o > 0 /\ moved = 0) \/ (o + c < u /\ c = left),
         NEW n, n = left - c, Modifies(u, d, bits, n), pc' \in Places, Place'
  PROVE  IInv'
<1>1. mem' = Halfway(moved + c)
  <2>1. Put(u, d, bits) = Halfway(moved + c)
    BY UnitWritten
  <2> QED BY <2>1 DEF Modifies, Writes
<1>2. Touches(read' \cup written')
  <2>1. Touches((read \cup Unit(u, d)) \cup (written \cup Unit(u, d)))
    BY UnitWritten
  <2>2. read' = read \cup Unit(u, d) /\ written' = written \cup Unit(u, d)
    BY DEF Modifies, Writes
  <2> QED BY <2>1, <2>2
<1>3. Spares(read')
  BY UnitWritten DEF Modifies
<1>4. job' = job /\ old' = old /\ left' = left - c /\ dst' \in Nat
  BY DEF Modifies, Writes, Suits
<1>5. c \in Nat /\ c <= left
  BY DEF Suits
<1> QED BY <1>1, <1>2, <1>3, <1>4, <1>5, Arrives DEF Places

LEMMA AfterWrites ==
  ASSUME IInv, NEW bits, NEW u, NEW d, NEW o, NEW c, Suits(bits, u, d, o, c),
         NEW n, n = left - c, Writes(u, d, bits, n), read' = read, pc' \in Places, Place'
  PROVE  IInv'
<1>1. mem' = Halfway(moved + c)
  <2>1. Put(u, d, bits) = Halfway(moved + c)
    BY UnitWritten
  <2> QED BY <2>1 DEF Writes
<1>2. Touches(read' \cup written')
  <2>1. Touches(read \cup (written \cup Unit(u, d)))
    BY UnitWritten
  <2>2. read' = read /\ written' = written \cup Unit(u, d)
    BY DEF Writes
  <2> QED BY <2>1, <2>2
<1>3. Spares(read')
  BY DEF IInv
<1>4. job' = job /\ old' = old /\ left' = left - c /\ dst' \in Nat
  BY DEF Writes, Suits
<1>5. c \in Nat /\ c <= left
  BY DEF Suits
<1> QED BY <1>1, <1>2, <1>3, <1>4, <1>5, Arrives DEF Places

(* A call over because nothing is left to write. *)
LEMMA NothingLeft ==
  ASSUME IInv, left = 0, pc' = "done", UNCHANGED <<mem, job, old, unit, dst, left, read, written>>
  PROVE  IInv'
<1>1. moved \in Nat /\ moved + 0 = moved /\ left' = left - 0
  BY Moving
<1>2. mem' = Halfway(moved + 0)
  BY <1>1 DEF IInv
<1>3. Place'
  BY DEF Place
<1>4. Touches(read' \cup written') /\ Spares(read') /\ dst' \in Nat
  BY DEF IInv
<1>5. 0 \in Nat /\ 0 <= left
  OBVIOUS
<1> QED BY <1>1, <1>2, <1>3, <1>4, <1>5, Arrives

LEMMA NothingStep ==
  ASSUME IInv, Nothing
  PROVE  IInv'
<1>1. left = 0
  BY DEF IInv, Place, Nothing
<1> QED BY <1>1, NothingLeft DEF Nothing

LEMMA CopyLastStep ==
  ASSUME IInv, CopyLast
  PROVE  IInv'
<1> DEFINE u == unit
           d == dst
           f == from \div u
           mask == 0 .. (left - 1)
           bits == (UnitAt(u, d) \ mask) \cup (UnitAt(u, f) \cap mask)
<1>1. /\ u \in {ByteSize, WordSize} /\ left \in 1 .. (u - 1) /\ job.to + moved = d * u
      /\ (job.from + moved) % u = 0 /\ job.call = "copy" /\ d \in Nat
  BY DEF IInv, Place, CopyLast
<1>2. u \in Nat /\ u > 0
  BY <1>1, UnitsType
<1>3. f \in Nat /\ from \in Nat /\ from = f * u
  <2>1. from \in Nat /\ from % u = 0
    BY <1>1, Moving
  <2>2. f \in Nat /\ from = f * u + 0
    BY <1>2, <2>1, DivSplit
  <2> QED BY <1>2, <2>1, <2>2, TimesNext
<1>4. Modifies(u, d, bits, 0) /\ pc' = "done"
  BY DEF CopyLast
<1> HIDE DEF f
<1>5. Fills(bits, u, d, 0, left)
  <2>1. /\ UnitAt(u, d) \subseteq 0 .. (u - 1) /\ UnitAt(u, f) \subseteq 0 .. (u - 1)
        /\ \A x \in 0 .. (u - 1) : x \in UnitAt(u, d) <=> d * u + x \in mem
        /\ \A x \in 0 .. (u - 1) : x \in UnitAt(u, f) <=> from + x \in mem
    BY <1>1, <1>2, <1>3, UnitAtIs
  <2>2. ASSUME NEW x \in mask PROVE from + x \in mem <=> Due(d * u + x)
    BY <1>1, SourceBits
  <2>3. mask = 0 .. (0 + left - 1)
    BY <1>1
  <2> HIDE DEF mask
  <2> QED BY <2>1, <2>2, <2>3 DEF Fills
<1>6. Place' /\ left - left = 0 /\ job.to + moved = d * u + 0
  <2>1. left' = 0
    BY <1>4 DEF Modifies, Writes
  <2>2. Place'
    BY <1>4, <2>1 DEF Place
  <2>3. job.to + moved = d * u + 0
    BY <1>1, <1>2, TimesNext
  <2> QED BY <1>1, <2>2, <2>3
<1>7. 0 \in Nat /\ left \in Nat /\ left > 0 /\ left <= left /\ 0 + left < u /\ 0 + left <= u
  BY <1>1, <1>2
<1> HIDE DEF u, d, bits
<1>8. Suits(bits, u, d, 0, left)
  BY <1>1, <1>5, <1>6, <1>7 DEF Suits
<1> QED BY <1>4, <1>6, <1>7, <1>8, AfterModifies DEF Places

LEMMA FilledIs ==
  ASSUME NEW S, NEW bits, NEW mask, bits \subseteq S /\ mask \subseteq S /\ job.value \in BOOLEAN
  PROVE  /\ Filled(bits, mask) \subseteq S
         /\ \A x \in mask : x \in Filled(bits, mask) <=> job.value
         /\ \A x : x \notin mask => (x \in Filled(bits, mask) <=> x \in bits)
<1>1. CASE job.value
  BY <1>1 DEF Filled
<1>2. CASE ~job.value
  BY <1>2 DEF Filled
<1> QED BY <1>1, <1>2

LEMMA FilledFills ==
  ASSUME IInv, job.call = "fill", NEW u \in {ByteSize, WordSize}, NEW d \in Nat,
         NEW o \in Nat, NEW c \in Nat, o + c <= u
  PROVE  Fills(Filled(UnitAt(u, d), o .. (o + c - 1)), u, d, o, c)
<1> DEFINE was == UnitAt(u, d)
           S == 0 .. (u - 1)
           mask == o .. (o + c - 1)
           bits == Filled(was, mask)
<1>1. u \in Nat /\ u > 0
  BY UnitsType
<1>2. was \subseteq S /\ \A x \in S : x \in was <=> d * u + x \in mem
  BY <1>1, UnitAtIs
<1>3. \A i : Due(i) <=> job.value
  BY DEF Due
<1>4. mask \subseteq S /\ job.value \in BOOLEAN
  BY <1>1, JobType DEF IInv
<1> HIDE DEF was, S, mask
<1>5. was \subseteq S /\ mask \subseteq S /\ job.value \in BOOLEAN
  BY <1>2, <1>4
<1>6. bits \subseteq S
  BY <1>5, FilledIs
<1>7. \A x \in mask : x \in bits <=> job.value
  BY <1>5, FilledIs
<1>8. \A x : x \notin mask => (x \in bits <=> x \in was)
  BY <1>5, FilledIs
<1> HIDE DEF bits
<1>9. bits \subseteq S /\ \A x \in S : x \in bits <=> IF x \in mask THEN Due(d * u + x) ELSE d * u + x \in mem
  BY <1>2, <1>3, <1>6, <1>7, <1>8
<1> QED BY <1>9 DEF Fills, bits, S, mask, was

LEMMA FillLastStep ==
  ASSUME IInv, FillLast
  PROVE  IInv'
<1> DEFINE u == unit
           d == dst
           bits == Filled(UnitAt(u, d), 0 .. (left - 1))
<1>1. /\ u \in {ByteSize, WordSize} /\ left \in 1 .. (u - 1) /\ job.to + moved = d * u
      /\ job.call = "fill" /\ d \in Nat
  BY DEF IInv, Place, FillLast
<1>2. u \in Nat /\ u > 0
  BY <1>1, UnitsType
<1>3. Modifies(u, d, bits, 0) /\ pc' = "done"
  BY DEF FillLast
<1>4. Fills(bits, u, d, 0, left)
  <2>1. 0 + left - 1 = left - 1 /\ 0 + left <= u /\ left \in Nat /\ 0 \in Nat
    BY <1>1, <1>2
  <2>2. Fills(Filled(UnitAt(u, d), 0 .. (0 + left - 1)), u, d, 0, left)
    BY <1>1, <2>1, FilledFills
  <2> QED BY <2>1, <2>2
<1>5. Place' /\ left - left = 0 /\ job.to + moved = d * u + 0
  <2>1. left' = 0
    BY <1>3 DEF Modifies, Writes
  <2>2. Place'
    BY <1>3, <2>1 DEF Place
  <2>3. job.to + moved = d * u + 0
    BY <1>1, <1>2, TimesNext
  <2> QED BY <1>1, <2>2, <2>3
<1>6. 0 \in Nat /\ left \in Nat /\ left > 0 /\ left <= left /\ 0 + left < u /\ 0 + left <= u
  BY <1>1, <1>2
<1> HIDE DEF u, d, bits
<1>7. Suits(bits, u, d, 0, left)
  BY <1>1, <1>4, <1>5, <1>6 DEF Suits
<1> QED BY <1>3, <1>5, <1>6, <1>7, AfterModifies DEF Places

LEMMA FillFirstByteStep ==
  ASSUME IInv, FillFirstByte
  PROVE  IInv'
<1> DEFINE u == ByteSize
           d == job.to \div ByteSize
           o == job.to % ByteSize
           c == Lesser(job.count, u - o)
           bits == Filled(UnitAt(u, d), o .. (o + c - 1))
           n == left - c
<1>1. /\ job.call = "fill" /\ left = job.count /\ job.count > 0 /\ o # 0 /\ moved = 0
      /\ job.to \in Nat /\ job.count \in Nat
  <2>1. job.call = "fill" /\ left = job.count /\ job.count > 0 /\ o # 0
    BY DEF IInv, Place, FillFirstByte
  <2>2. job.to \in Nat /\ job.count \in Nat
    BY JobType DEF IInv
  <2> QED BY <2>1, <2>2 DEF moved
<1>2. /\ u \in Nat /\ u > 0 /\ d \in Nat /\ o \in Nat /\ o < u
      /\ job.to = d * u + o
  BY <1>1, UnitsType, DivSplit
<1>3. /\ c \in Nat /\ c > 0 /\ c <= left /\ o + c <= u
      /\ o + job.count < u => c = job.count
      /\ o + job.count >= u => c = u - o
  BY <1>1, <1>2 DEF Lesser
<1> HIDE DEF d, o, c
<1>4. /\ Modifies(u, d, bits, n)
      /\ o + job.count < u => pc' = "done" /\ n = 0
      /\ o + job.count >= u => pc' = "fill_bytes"
  <2>1. CASE o + job.count < u
    <3>1. Modifies(u, d, Filled(UnitAt(u, d), o .. ((o + job.count) - 1)), 0) /\ pc' = "done"
      BY <2>1 DEF FillFirstByte, d, o
    <3>2. n = 0 /\ o + c - 1 = (o + job.count) - 1 /\ ~(o + job.count >= u)
      BY <1>1, <1>2, <1>3, <2>1
    <3> HIDE DEF n
    <3> QED BY <3>1, <3>2
  <2>2. CASE o + job.count >= u
    <3>0. ~(o + job.count < u)
      BY <1>1, <1>2, <2>2
    <3>1. Modifies(u, d, Filled(UnitAt(u, d), o .. (u - 1)), (o + job.count) - u) /\ pc' = "fill_bytes"
      BY <3>0 DEF FillFirstByte, d, o
    <3>2. n = (o + job.count) - u /\ o + c - 1 = u - 1
      BY <1>1, <1>2, <1>3, <2>2
    <3> HIDE DEF n
    <3> QED BY <3>0, <3>1, <3>2
  <2> QED BY <1>1, <1>2, <2>1, <2>2
<1>5. Fills(bits, u, d, o, c)
  BY <1>1, <1>2, <1>3, FilledFills
<1>6. Place' /\ pc' \in Places
  <2>1. left' = n /\ job' = job
    BY <1>4 DEF Modifies, Writes
  <2>2. moved' = c
    BY <1>1, <1>3, <2>1 DEF moved
  <2>3. CASE o + job.count < u
    BY <1>1, <1>4, <2>1, <2>3 DEF Place, Places
  <2>4. CASE o + job.count >= u
    <3>1. pc' = "fill_bytes" /\ c = u - o
      BY <1>3, <1>4, <2>4
    <3>2. (job.to + c) % ByteSize = 0
      <4> DEFINE base == d * u
                 m == d + 1
                 t == job.to + c
      <4>1. base \in Int /\ m * u = base + u /\ m \in Nat
        BY <1>2, TimesNext
      <4>2. t = base + u
        BY <1>1, <1>2, <3>1, <4>1
      <4> HIDE DEF base, m, t
      <4>3. t = m * u + 0
        BY <1>2, <4>1, <4>2
      <4>4. t % u = 0
        BY <1>2, <4>1, <4>3, DivUnique
      <4> QED BY <4>4 DEF t
    <3> QED BY <1>1, <2>1, <2>2, <3>1, <3>2 DEF Place, Places
  <2> QED BY <1>1, <1>2, <2>3, <2>4
<1>7. job.to + moved = d * u + o /\ (o > 0 /\ moved = 0)
  BY <1>1, <1>2
<1> HIDE DEF bits, n
<1>8. Suits(bits, u, d, o, c)
  BY <1>2, <1>3, <1>5, <1>7 DEF Suits
<1> QED BY <1>4, <1>6, <1>7, <1>8, AfterModifies DEF n

LEMMA Multiple ==
  ASSUME NEW u \in Nat, u > 0, NEW t \in Nat, t % u = 0, NEW q \in Nat
  PROVE  (t + q * u) % u = 0 /\ t + q * u = ((t + q * u) \div u) * u /\ q * u \in Nat
<1> DEFINE k == t \div u
           s == t + q * u
<1>1. k \in Nat /\ t = k * u + 0
  BY DivSplit
<1>2. q * u \in Nat /\ k * u \in Int /\ (k + q) * u = k * u + q * u
  <2>1. k \in Int /\ q \in Int /\ u \in Int
    BY <1>1
  <2> QED BY <2>1, TimesAssoc, TimesNext
<1> HIDE DEF k
<1> DEFINE m == k + q
<1>3. s = m * u + 0 /\ m \in Nat
  BY <1>1, <1>2
<1> HIDE DEF m, s
<1>4. s \div u = m /\ s % u = 0 /\ m * u \in Int
  BY <1>3, DivUnique, TimesNext
<1>5. s = m * u
  BY <1>3, <1>4
<1> QED BY <1>2, <1>4, <1>5 DEF s

LEMMA TargetTouched ==
  ASSUME job \in CopyJobs \cup FillJobs, NEW S, S \subseteq Target(job.count)
  PROVE  Touches(S)
<1>1. Target(job.count) \subseteq Nat
  BY JobType DEF Target
<1> QED BY <1>1 DEF Touches

LEMMA FillBytesStep ==
  ASSUME IInv, FillBytes
  PROVE  IInv'
<1> DEFINE u == ByteSize
           D == moved
           at == job.to + D
           q == left \div u
           c == q * u
           range == at .. (at + c - 1)
<1>1. /\ job.to \in Nat /\ job.count \in Nat /\ job.value \in BOOLEAN /\ D \in Nat /\ left \in Nat
      /\ D + left = job.count /\ u \in Nat /\ u > 0 /\ at \in Nat
  BY Moving, JobType, UnitsType DEF IInv
<1>2. job.call = "fill" /\ at % u = 0
  <2>1. CASE pc = "fill_bytes"
    BY <2>1 DEF IInv, Place
  <2>2. CASE pc = "fill" /\ (job.to % ByteSize) = 0
    <3>1. job.call = "fill" /\ left = job.count
      BY <2>2 DEF IInv, Place
    <3>2. D = 0
      BY <1>1, <3>1
    <3>3. at = job.to
      BY <1>1, <3>2
    <3> QED BY <2>2, <3>1, <3>3
  <2> QED BY <2>1, <2>2 DEF FillBytes
<1>3. /\ mem' = fill_bits(mem, at, c, job.value) /\ unit' = ByteSize /\ dst' = (at + c) \div u
      /\ left' = left - c /\ pc' = IF left' = 0 THEN "done" ELSE "fill_last"
      /\ written' = written \cup range /\ job' = job /\ old' = old /\ read' = read
  BY DEF FillBytes, moved
<1>4. q \in Nat /\ c \in Nat /\ left - c \in Nat /\ left - c < u
  <2>1. q \in Nat /\ left % u \in Nat /\ left % u < u /\ left = q * u + (left % u)
    BY <1>1, DivSplit
  <2> HIDE DEF q
  <2>2. c \in Int /\ q * u \in Nat
    BY <1>1, <2>1, TimesNext, Multiple
  <2> QED BY <1>1, <2>1, <2>2
<1>5. (at + c) % u = 0 /\ at + c = dst' * u /\ dst' \in Nat
  <2>1. (at + c) % u = 0 /\ at + c = ((at + c) \div u) * u
    BY <1>1, <1>2, <1>4, Multiple
  <2> HIDE DEF c, at
  <2>2. (at + c) \div u \in Nat
    BY <1>1, <1>4, DivSplit
  <2> QED BY <1>3, <2>1, <2>2 DEF at, c
<1> HIDE DEF c, q
<1>6. mem' = Halfway(D + c)
  <2>1. \A i : i \in mem' <=> IF i \in range THEN Due(i) ELSE i \in mem
    <3>1. \A i : Due(i) <=> job.value
      BY <1>2 DEF Due
    <3>2. CASE job.value
      BY <1>3, <3>1, <3>2 DEF fill_bits
    <3>3. CASE ~job.value
      BY <1>3, <3>1, <3>3 DEF fill_bits
    <3> QED BY <3>2, <3>3
  <2>2. range = (job.to + D) .. (job.to + (D + c) - 1)
    BY <1>1, <1>4
  <2>3. mem = Halfway(D) /\ job \in CopyJobs \cup FillJobs
    BY DEF IInv
  <2>4. D + c \in Nat /\ D <= D + c
    BY <1>1, <1>4
  <2> HIDE DEF D, range
  <2> QED BY <1>1, <2>1, <2>2, <2>3, <2>4, Advances
<1>7. Touches(read' \cup written') /\ Spares(read')
  <2>1. range \subseteq Target(job.count)
    BY <1>1, <1>4 DEF Target
  <2>2. Touches(range) /\ Touches(read \cup written) /\ Spares(read)
    BY <2>1, TargetTouched DEF IInv
  <2> HIDE DEF range
  <2> QED BY <1>3, <2>2 DEF Touches
<1>8. Place' /\ pc' \in Places
  <2>1. moved' = D + c
    BY <1>1, <1>3, <1>4 DEF moved
  <2>2. CASE left' = 0
    BY <1>3, <2>2 DEF Place, Places
  <2>3. CASE left' # 0
    <3>1. left' \in 1 .. (u - 1) /\ pc' = "fill_last"
      BY <1>1, <1>3, <1>4, <2>3
    <3>2. job'.to + moved' = dst' * unit'
      BY <1>1, <1>3, <1>4, <1>5, <2>1
    <3> QED BY <1>2, <1>3, <3>1, <3>2 DEF Place, Places
  <2> QED BY <2>2, <2>3
<1>9. c <= left
  BY <1>1, <1>4
<1> QED BY <1>3, <1>4, <1>5, <1>6, <1>7, <1>8, <1>9, Arrives DEF Places

LEMMA MovedIs ==
  ASSUME NEW i \in Nat, NEW n \in Nat, NEW j \in Nat
  PROVE  \A x : x \in Moved(i, n, j) <=> x \in j .. (j + n - 1) /\ i + (x - j) \in mem
<1> DEFINE low == {y - i : y \in {z \in mem \cap (i .. (i + n - 1)) : z >= i}}
<1>1. Moved(i, n, j) = {y + j : y \in low}
  BY DEF Moved, Up, Down
<1>2. \A y : y \in low <=> y \in 0 .. (n - 1) /\ i + y \in mem
  OBVIOUS
<1> HIDE DEF low
<1> QED BY <1>1, <1>2

LEMMA CopyUnitsStep ==
  ASSUME IInv, CopyUnits
  PROVE  IInv'
<1> DEFINE u == IF AlignedTo(WordSize) THEN WordSize ELSE ByteSize
           q == job.count \div u
           c == q * u
           range == job.to .. (job.to + c - 1)
<1>1. /\ mem' = (mem \ range) \cup Moved(job.from, c, job.to)
      /\ unit' = u /\ dst' = (job.to + c) \div u /\ left' = job.count - c
      /\ pc' = IF left' = 0 THEN "done" ELSE "copy_last"
      /\ written' = written \cup range /\ job' = job /\ old' = old /\ read' = read
      /\ AlignedTo(ByteSize)
  BY DEF CopyUnits
<1>2. u \in {ByteSize, WordSize} /\ u \in Nat /\ u > 0 /\ job.from % u = 0 /\ job.to % u = 0
  BY <1>1, UnitsType DEF AlignedTo
<1>3. job.call = "copy" /\ left = job.count /\ moved = 0
  <2>1. job.call = "copy" /\ left = job.count
    BY DEF CopyUnits, IInv, Place
  <2>2. job.count \in Nat
    BY JobType DEF IInv
  <2> QED BY <2>1, <2>2 DEF moved
<1>4. job.from \in Nat /\ job.to \in Nat /\ job.count \in Nat
  BY JobType DEF IInv
<1> HIDE DEF u
<1>5. q \in Nat /\ c \in Nat /\ job.count - c \in Nat /\ job.count - c < u
  <2>1. q \in Nat /\ job.count % u \in Nat /\ job.count % u < u /\ job.count = q * u + (job.count % u)
    BY <1>2, <1>4, DivSplit
  <2> HIDE DEF q
  <2>2. q * u \in Nat
    BY <1>2, <2>1, Multiple
  <2> QED BY <1>2, <1>4, <2>1, <2>2
<1>6. (job.to + c) % u = 0 /\ (job.from + c) % u = 0 /\ job.to + c = dst' * u /\ dst' \in Nat
  <2>1. /\ (job.to + c) % u = 0 /\ job.to + c = ((job.to + c) \div u) * u
        /\ (job.from + c) % u = 0
    BY <1>2, <1>4, <1>5, Multiple
  <2> HIDE DEF c
  <2>2. (job.to + c) \div u \in Nat
    BY <1>2, <1>4, <1>5, DivSplit
  <2> QED BY <1>1, <2>1, <2>2 DEF c
<1> HIDE DEF c, q
<1>7. mem' = Halfway(0 + c)
  <2>1. \A i : i \in mem' <=> IF i \in range THEN Due(i) ELSE i \in mem
    <3>1. \A i : i \in Moved(job.from, c, job.to) <=> i \in range /\ job.from + (i - job.to) \in mem
      BY <1>4, <1>5, MovedIs
    <3>2. ASSUME NEW i \in range PROVE job.from + (i - job.to) \in mem <=> Due(i)
      <4> DEFINE x == i - job.to
      <4>1. x \in 0 .. (left - 1) /\ i = job.to + 0 + x
        BY <1>3, <1>4, <1>5
      <4> HIDE DEF x
      <4>2. from + x \in mem <=> Due(i)
        BY <1>3, <4>1, SourceBits
      <4>3. from = job.from
        BY <1>3, <1>4, Moving
      <4> QED BY <4>2, <4>3 DEF x
    <3> HIDE DEF range
    <3> QED BY <1>1, <3>1, <3>2
  <2>2. range = (job.to + 0) .. (job.to + (0 + c) - 1)
    BY <1>4, <1>5
  <2>3. mem = Halfway(0) /\ job \in CopyJobs \cup FillJobs
    BY <1>3 DEF IInv
  <2>4. 0 \in Nat /\ 0 + c \in Nat /\ 0 <= 0 + c
    BY <1>5
  <2> HIDE DEF range
  <2> QED BY <2>1, <2>2, <2>3, <2>4, Advances
<1>8. Touches(read' \cup written') /\ Spares(read')
  <2>1. range \subseteq Target(job.count)
    BY <1>4, <1>5 DEF Target
  <2>2. Touches(range) /\ Touches(read \cup written) /\ Spares(read)
    BY <2>1, TargetTouched DEF IInv
  <2> HIDE DEF range
  <2> QED BY <1>1, <2>2 DEF Touches
<1>9. Place' /\ pc' \in Places
  <2>1. moved' = c
    BY <1>1, <1>4, <1>5 DEF moved
  <2>2. CASE left' = 0
    BY <1>1, <2>2 DEF Place, Places
  <2>3. CASE left' # 0
    <3>1. left' \in 1 .. (u - 1) /\ pc' = "copy_last"
      BY <1>1, <1>2, <1>4, <1>5, <2>3
    <3>2. job'.to + moved' = dst' * unit' /\ (job'.from + moved') % unit' = 0
      BY <1>1, <1>6, <2>1
    <3> QED BY <1>1, <1>2, <1>3, <3>1, <3>2 DEF Place, Places
  <2> QED BY <2>2, <2>3
<1>10. c <= left /\ left' = left - c
  BY <1>1, <1>3, <1>4, <1>5
<1> QED BY <1>1, <1>3, <1>5, <1>6, <1>7, <1>8, <1>9, <1>10, Arrives DEF Places

(* Bits handed out, or-ed over the bits of a word behind them. *)
LEMMA HandedOut ==
  ASSUME IInv, job.call = "copy", NEW c \in 1 .. WordSize, c <= left, NEW w, Reads(w, from, c),
         NEW d \in Nat, job.to + moved = d * WordSize
  PROVE  /\ Fills(raw(w) \cup (WordAt(mem, d) \ last_word_mask(c)), WordSize, d, 0, c)
         /\ c = WordSize => Fills(raw(w), WordSize, d, 0, c)
<1> DEFINE mask == 0 .. (c - 1)
           was == WordAt(mem, d)
           base == d * WordSize
           S == 0 .. (WordSize - 1)
<1>1. raw(w) = w.value \cap mask /\ last_word_mask(c) = mask
  BY SourceMask, MaskUpTo DEF Reads
<1>2. was \subseteq S /\ \A x \in S : x \in was <=> base + x \in mem
  BY WordAtIs
<1>3. left \in Nat /\ WordSize \in Nat /\ mask \subseteq S /\ mask = 0 .. (0 + c - 1)
      /\ (c = WordSize => mask = S)
  BY Moving, WordSizeType
<1>4. ASSUME NEW x \in mask PROVE x \in w.value <=> Due(base + x)
  <2>1. x \in 0 .. (left - 1)
    BY <1>3
  <2>2. from + x \in mem <=> Due(base + x)
    BY <2>1, SourceBits
  <2> QED BY <2>2 DEF Reads
<1> HIDE DEF mask, was, base, S
<1>5. Fills(raw(w) \cup (was \ mask), WordSize, d, 0, c)
  <2> DEFINE bits == raw(w) \cup (was \ mask)
  <2>1. bits \subseteq S /\ \A x \in S : x \in bits <=> IF x \in mask THEN Due(base + x) ELSE base + x \in mem
    BY <1>1, <1>2, <1>3, <1>4
  <2> HIDE DEF bits
  <2>2. Fills(bits, WordSize, d, 0, c)
    BY <1>3, <2>1 DEF Fills, S, base
  <2> QED BY <2>2 DEF bits
<1>6. ASSUME c = WordSize PROVE Fills(raw(w), WordSize, d, 0, c)
  <2> DEFINE bits == raw(w)
  <2>1. bits \subseteq S /\ \A x \in S : x \in bits <=> IF x \in mask THEN Due(base + x) ELSE base + x \in mem
    BY <1>1, <1>3, <1>4, <1>6
  <2> HIDE DEF bits
  <2>2. Fills(bits, WordSize, d, 0, c)
    BY <1>3, <2>1 DEF Fills, S, base
  <2> QED BY <2>2 DEF bits
<1> QED BY <1>1, <1>5, <1>6 DEF was

LEMMA CopyWordStep ==
  ASSUME IInv, CopyWord
  PROVE  IInv'
<1> DEFINE w == NextBits(WordSize)
           c == Lesser(left, WordSize)
           d == dst
           rest == WordAt(mem, d) \ last_word_mask(w.count)
<1>1. job.call = "copy" /\ job.to + moved = d * WordSize /\ d \in Nat /\ left \in Nat
  BY Moving DEF CopyWord, IInv, Place
<1>2. Reads(w, from, c) /\ w.count = c
  <2>1. WordSize \in 1 .. WordSize
    BY WordSizeType
  <2>2. Reads(w, from, c)
    BY <2>1, NextBitsAre
  <2> QED BY <2>2 DEF Reads
<1>3. c \in 0 .. WordSize /\ c <= left /\ (c < WordSize => c = left)
  BY <1>1, WordSizeType DEF Lesser
<1>4. \/ /\ w.count = WordSize
         /\ Writes(WordSize, d, raw(w), left - WordSize)
         /\ read' = read /\ pc' = pc
      \/ /\ w.count \in 1 .. (WordSize - 1)
         /\ Modifies(WordSize, d, raw(w) \cup rest, 0)
         /\ pc' = "done"
      \/ /\ w.count = 0
         /\ pc' = "done"
         /\ UNCHANGED <<mem, job, old, unit, dst, left, read, written>>
  BY DEF CopyWord
<1> HIDE DEF w, c
<1>5. job.to + moved = d * WordSize + 0 /\ 0 \in Nat /\ WordSize \in {ByteSize, WordSize}
      /\ WordSize \in Nat /\ WordSize > 0
  BY <1>1, WordSizeType, TimesNext
<1>6. CASE c = WordSize
  <2>1. Fills(raw(w), WordSize, d, 0, c)
    <3>1. c \in 1 .. WordSize
      BY <1>5, <1>6
    <3> QED BY <1>1, <1>2, <1>3, <1>6, <3>1, HandedOut
  <2>2. Suits(raw(w), WordSize, d, 0, c)
    BY <1>1, <1>3, <1>5, <1>6, <2>1 DEF Suits
  <2>3. Writes(WordSize, d, raw(w), left - WordSize) /\ read' = read /\ pc' = "copy_words"
    BY <1>2, <1>4, <1>5, <1>6 DEF CopyWord
  <2>4. Place'
    <3>1. job' = job /\ left' = left - WordSize /\ dst' = d + 1
      BY <2>3 DEF Writes
    <3>2. moved' = moved + WordSize /\ moved \in Nat
      BY <1>1, <1>5, <3>1, Moving, JobType DEF moved, IInv
    <3>3. (d + 1) * WordSize = d * WordSize + WordSize /\ d * WordSize \in Int
      BY <1>1, <1>5, TimesNext
    <3>4. job.to \in Nat
      BY JobType DEF IInv
    <3> DEFINE base == d * WordSize
               D == moved
    <3> HIDE DEF base, D
    <3>5. job.to + (D + WordSize) = base + WordSize
      BY <1>1, <1>5, <3>2, <3>3, <3>4 DEF base, D
    <3>6. job'.to + moved' = dst' * WordSize
      BY <3>1, <3>2, <3>3, <3>5 DEF base, D
    <3> QED BY <1>1, <2>3, <3>1, <3>6 DEF Place
  <2> QED BY <1>6, <2>2, <2>3, <2>4, AfterWrites DEF Places
<1>7. CASE c # 0 /\ c # WordSize
  <2>1. c \in 1 .. WordSize /\ c = left /\ c < WordSize /\ left - c = 0
    BY <1>1, <1>3, <1>5, <1>7
  <2>2. Fills(raw(w) \cup rest, WordSize, d, 0, c)
    BY <1>1, <1>2, <1>3, <2>1, HandedOut
  <2> HIDE DEF rest
  <2>3. Suits(raw(w) \cup rest, WordSize, d, 0, c)
    BY <1>1, <1>3, <1>5, <2>1, <2>2 DEF Suits
  <2>4. Modifies(WordSize, d, raw(w) \cup rest, 0) /\ pc' = "done"
    BY <1>2, <1>4, <1>7
  <2>5. Place'
    BY <2>4 DEF Place, Modifies, Writes
  <2>6. 0 + c < WordSize /\ 0 = left - c
    BY <1>3, <2>1
  <2> QED BY <2>1, <2>3, <2>4, <2>5, <2>6, AfterModifies DEF Places
<1>8. CASE c = 0
  <2>1. left = 0
    BY <1>3, <1>5, <1>8
  <2>2. pc' = "done" /\ UNCHANGED <<mem, job, old, unit, dst, left, read, written>>
    BY <1>2, <1>4, <1>5, <1>8
  <2> QED BY <2>1, <2>2, NothingLeft
<1> QED BY <1>6, <1>7, <1>8

LEMMA CopyFirstWordStep ==
  ASSUME IInv, CopyFirstWord
  PROVE  IInv'
<1> DEFINE d == word_index(job.to)
           o == bit_in_word_index(job.to)
           first == WordAt(mem, d)
           w == NextBits(WordSize - o)
           begun == Source!WordBits(first, o)
           both == Source!push_bits(begun, w)
           c == Lesser(left, WordSize - o)
           keep == first \ last_word_mask(both.count)
           S == 0 .. (WordSize - 1)
           base == d * WordSize
<1>1. job.call = "copy" /\ left = job.count /\ left > 0 /\ pc = "copy"
  BY DEF CopyFirstWord, IInv, Place
<1>2. /\ job.to \in Nat /\ left \in Nat /\ moved = 0 /\ from \in Nat
      /\ WordSize \in Nat /\ WordSize > 1 /\ WordSize \in {ByteSize, WordSize}
  BY <1>1, JobType, Moving, WordSizeType DEF IInv
<1>3. d \in Nat /\ o \in 0 .. (WordSize - 1) /\ job.to = base + o /\ base \in Nat
  <2>1. d \in Nat /\ o \in 0 .. (WordSize - 1) /\ job.to = base + o
    BY <1>2, IndexSplit
  <2> HIDE DEF d
  <2>2. base \in Int
    BY <1>2, <2>1, TimesNext
  <2>3. 0 * WordSize <= base /\ 0 * WordSize = 0
    BY <1>2, <2>1, TimesMono
  <2> QED BY <2>1, <2>2, <2>3
<1>4. CopyFirstWord =>
        IF o = 0
        THEN pc' = "copy_words" /\ dst' = d /\ UNCHANGED <<mem, job, old, unit, left, read, written>>
        ELSE IF both.count < WordSize
        THEN Modifies(WordSize, d, raw(both) \cup keep, 0) /\ pc' = "done"
        ELSE Modifies(WordSize, d, raw(both), left - w.count) /\ pc' = "copy_words"
  BY DEF CopyFirstWord
<1>5. first \subseteq S /\ \A x \in S : x \in first <=> base + x \in mem
  <2> HIDE DEF d
  <2> QED BY <1>3, WordAtIs
<1>6. begun.value = first /\ begun.count = o
  BY DEF Source!WordBits
<1> HIDE DEF d, o, first, begun
<1>7. Reads(w, from, c) /\ w.count = c /\ w.value \subseteq Nat
  <2>1. WordSize - o \in 1 .. WordSize
    BY <1>2, <1>3
  <2>2. Reads(w, from, c)
    BY <2>1, NextBitsAre
  <2> QED BY <2>2 DEF Reads
<1> HIDE DEF w
<1>8. c \in 1 .. WordSize /\ c <= left /\ o + c <= WordSize /\ (o + c < WordSize => c = left)
  BY <1>1, <1>2, <1>3 DEF Lesser
<1> HIDE DEF c
<1>9. /\ both.count = o + c
      /\ \A j \in 0 .. (o - 1) : j \in both.value <=> j \in first
      /\ \A j \in o .. (o + c - 1) : j \in both.value <=> j - o \in w.value
  <2>1. o \in 0 .. WordSize /\ c \in 0 .. WordSize /\ first \subseteq Nat /\ o # WordSize
    BY <1>2, <1>3, <1>5, <1>8
  <2>2. /\ both = [value |-> both.value, count |-> o + c]
        /\ \A j \in 0 .. (o - 1) : j \in both.value <=> j \in begun.value
        /\ \A j \in o .. (o + c - 1) : j \in both.value <=> j - o \in w.value
    BY <1>6, <1>7, <1>8, <2>1, PushValue
  <2> HIDE DEF both
  <2> QED BY <1>6, <2>2
<1> HIDE DEF both
<1>10. raw(both) = both.value \cap (0 .. (o + c - 1)) /\ last_word_mask(both.count) = 0 .. (o + c - 1)
  <2>1. o + c \in 0 .. WordSize
    BY <1>2, <1>3, <1>8
  <2>2. last_word_mask(o + c) = 0 .. (o + c - 1)
    <3> DEFINE t == o + c
    <3>1. t \in 0 .. WordSize /\ t = o + c
      BY <2>1
    <3> HIDE DEF t
    <3>2. last_word_mask(t) = 0 .. (t - 1)
      BY <3>1, MaskUpTo
    <3> QED BY <1>3, <1>8, <3>1, <3>2
  <2>3. last_word_mask(both.count) = 0 .. (o + c - 1)
    BY <1>9, <2>2
  <2> QED BY <2>3, SourceMask
<1>11. ASSUME NEW x \in o .. (o + c - 1) PROVE x \in both.value <=> Due(base + x)
  <2> DEFINE y == x - o
             i == base + x
  <2>1. y \in 0 .. (c - 1) /\ y \in 0 .. (left - 1) /\ i = job.to + 0 + y
    BY <1>2, <1>3, <1>8
  <2> HIDE DEF i
  <2>2. x \in both.value <=> y \in w.value
    BY <1>9
  <2> HIDE DEF y
  <2>3. y \in w.value <=> from + y \in mem
    BY <1>7, <2>1 DEF Reads
  <2>4. from + y \in mem <=> Due(i)
    BY <1>1, <1>2, <2>1, SourceBits
  <2> QED BY <2>2, <2>3, <2>4 DEF i
<1> HIDE DEF base
<1>12. ASSUME NEW bits, bits = raw(both) \cup keep \/ (o + c = WordSize /\ bits = raw(both))
       PROVE  Suits(bits, WordSize, d, o, c)
  <2>1. keep = first \ (0 .. (o + c - 1))
    BY <1>10
  <2>2. raw(both) \subseteq S /\ keep \subseteq S
    BY <1>2, <1>3, <1>5, <1>8, <1>10, <2>1
  <2>3. ASSUME NEW x \in S
        PROVE  x \in bits <=> IF x \in o .. (o + c - 1) THEN Due(base + x) ELSE base + x \in mem
    <3>1. CASE x < o
      <4>1. x \in 0 .. (o - 1) /\ x \in 0 .. (o + c - 1) /\ x \notin o .. (o + c - 1)
        BY <1>3, <1>8, <3>1
      <4> QED BY <1>5, <1>9, <1>10, <1>12, <2>1, <4>1
    <3>2. CASE x \in o .. (o + c - 1)
      <4>1. x \in 0 .. (o + c - 1)
        BY <1>3, <3>2
      <4> QED BY <1>10, <1>11, <1>12, <2>1, <3>2, <4>1
    <3>3. CASE x >= o + c
      <4>1. x \notin 0 .. (o + c - 1) /\ x \notin o .. (o + c - 1) /\ o + c # WordSize
        BY <1>2, <1>3, <1>8, <3>3
      <4> QED BY <1>5, <1>10, <1>12, <2>1, <3>3, <4>1
    <3> QED BY <1>3, <1>8, <3>1, <3>2, <3>3
  <2>4. bits \subseteq S
    BY <1>12, <2>2
  <2>5. Fills(bits, WordSize, d, o, c)
    BY <2>3, <2>4 DEF Fills, base
  <2>6. job.to + moved = d * WordSize + o
    BY <1>2, <1>3 DEF base
  <2> QED BY <1>2, <1>3, <1>8, <2>5, <2>6 DEF Suits
<1>13. CASE o = 0
  <2>1. pc' = "copy_words" /\ dst' = d /\ UNCHANGED <<mem, job, old, unit, left, read, written>>
    BY <1>4, <1>13
  <2>2. job.to + moved = d * WordSize
    BY <1>2, <1>3, <1>13 DEF base
  <2>3. Place'
    BY <1>1, <2>1, <2>2 DEF Place, moved
  <2>4. left' = left - 0 /\ moved + 0 = moved /\ 0 \in Nat /\ 0 <= left
    BY <1>2, <2>1
  <2>5. mem' = Halfway(moved + 0) /\ Touches(read' \cup written') /\ Spares(read')
    BY <2>1, <2>4 DEF IInv
  <2> QED BY <1>3, <2>1, <2>3, <2>4, <2>5, Arrives
<1>14. CASE o # 0 /\ o + c < WordSize
  <2> DEFINE bits == raw(both) \cup keep
  <2>1. Modifies(WordSize, d, bits, 0) /\ pc' = "done"
    BY <1>4, <1>9, <1>14
  <2>2. Suits(bits, WordSize, d, o, c)
    BY <1>12
  <2> HIDE DEF bits
  <2>3. Place'
    BY <2>1 DEF Place, Modifies, Writes
  <2>4. 0 = left - c /\ (o > 0 /\ moved = 0)
    BY <1>2, <1>3, <1>8, <1>14
  <2> QED BY <2>1, <2>2, <2>3, <2>4, AfterModifies DEF Places
<1>15. CASE o # 0 /\ o + c = WordSize
  <2>1. Modifies(WordSize, d, raw(both), left - c) /\ pc' = "copy_words"
    <3>1. ~(both.count < WordSize)
      BY <1>2, <1>9, <1>15
    <3> QED BY <1>4, <1>7, <1>15, <3>1
  <2>2. Suits(raw(both), WordSize, d, o, c)
    BY <1>12, <1>15
  <2>3. Place'
    <3>1. job' = job /\ left' = left - c /\ dst' = d + 1
      BY <2>1 DEF Modifies, Writes
    <3>2. moved' = c
      BY <1>1, <1>2, <1>8, <3>1 DEF moved
    <3>3. (d + 1) * WordSize = base + WordSize
      BY <1>2, <1>3, TimesNext DEF base
    <3>4. job'.to + moved' = dst' * WordSize
      BY <1>2, <1>3, <1>8, <1>15, <3>1, <3>2, <3>3
    <3> QED BY <1>1, <2>1, <3>1, <3>4 DEF Place
  <2>4. o > 0 /\ moved = 0
    BY <1>2, <1>3, <1>15
  <2> QED BY <2>1, <2>2, <2>3, <2>4, AfterModifies DEF Places
<1>16. o + c < WordSize \/ o + c = WordSize
  BY <1>2, <1>3, <1>8
<1> QED BY <1>13, <1>14, <1>15, <1>16

-----------------------------------------------------------------------------
(* What every run keeps. *)

LEMMA StartsWell == Init => IInv
<1> SUFFICES ASSUME Init PROVE IInv
  OBVIOUS
<1>1. job \in CopyJobs \cup FillJobs /\ left = job.count /\ pc = job.call
      /\ mem \in Contents /\ old = mem /\ read = {} /\ written = {} /\ dst = 0
  BY DEF Init
<1>2. job.count \in Nat /\ job.to \in Nat /\ job.call \in {"copy", "fill"}
  BY <1>1, JobType
<1>3. mem \subseteq Nat
  <2>1. mem \subseteq 0 .. (MemWords * WordSize - 1)
    BY <1>1, CopyAssumption
  <2> QED BY <2>1
<1>4. mem = Halfway(moved)
  <2>1. moved = 0
    BY <1>1, <1>2 DEF moved
  <2>2. Target(0) = {}
    BY <1>2 DEF Target
  <2> QED BY <1>1, <2>1, <2>2 DEF Halfway
<1>5. Place
  BY <1>1, <1>2 DEF Place
<1>6. Touches(read \cup written) /\ Spares(read)
  BY <1>1 DEF Touches, Spares
<1> QED BY <1>1, <1>2, <1>3, <1>4, <1>5, <1>6 DEF IInv

LEMMA StepsWell == IInv /\ [Next]_vars => IInv'
<1> SUFFICES ASSUME IInv, [Next]_vars PROVE IInv'
  OBVIOUS
<1>1. CASE Nothing
  BY <1>1, NothingStep
<1>2. CASE CopyUnits
  BY <1>2, CopyUnitsStep
<1>3. CASE CopyLast
  BY <1>3, CopyLastStep
<1>4. CASE CopyFirstWord
  BY <1>4, CopyFirstWordStep
<1>5. CASE CopyWord
  BY <1>5, CopyWordStep
<1>6. CASE FillFirstByte
  BY <1>6, FillFirstByteStep
<1>7. CASE FillBytes
  BY <1>7, FillBytesStep
<1>8. CASE FillLast
  BY <1>8, FillLastStep
<1>9. CASE UNCHANGED vars
  <2>1. job' = job /\ old' = old /\ mem' = mem /\ left' = left /\ dst' = dst /\ pc' = pc
        /\ unit' = unit /\ read' = read /\ written' = written
    BY <1>9 DEF vars
  <2>2. Place' <=> Place
    BY <2>1 DEF Place, moved
  <2>3. mem' = Halfway(moved)'
    BY <2>1 DEF IInv, Halfway, Target, Due, moved
  <2>4. Touches(read \cup written)' /\ Spares(read)'
    BY <2>1 DEF IInv, Touches, Spares, Target
  <2> QED BY <2>1, <2>2, <2>3, <2>4 DEF IInv, CopyJobs, FillJobs, MemBits
<1> QED BY <1>1, <1>2, <1>3, <1>4, <1>5, <1>6, <1>7, <1>8, <1>9 DEF Next

LEMMA AlwaysHalfway == Spec => []IInv
BY StartsWell, StepsWell, PTL DEF Spec

(* However large the word, the byte and the memory and whatever bits are   *)
(* copied or filled, a call that is over has done what its contract says   *)
(* (util.rs:61-230).                                                       *)
THEOREM CallsKeepTheirContract == Spec => []ContractKept
<1>1. IInv => ContractKept
  <2> SUFFICES ASSUME IInv, pc = "done"
               PROVE  mem = IF job.call = "copy"
                            THEN copy_bits(old, job.to,
                                           Str(job.count, Down(old \cap (0 .. (job.from + job.count - 1)), job.from)))
                            ELSE fill_bits(old, job.to, job.count, job.value)
    BY DEF ContractKept
  <2>1. /\ job.from \in Nat /\ job.to \in Nat /\ job.count \in Nat
        /\ job.value \in BOOLEAN /\ job.call \in {"copy", "fill"}
    BY JobType DEF IInv
  <2>2. mem = Halfway(job.count)
    <3>1. moved = job.count
      BY <2>1 DEF IInv, Place, moved
    <3> QED BY <3>1 DEF IInv
  <2>3. old \subseteq Nat
    BY DEF IInv
  <2>4. CASE job.call = "copy"
    <3> DEFINE ones == Down(old \cap (0 .. (job.from + job.count - 1)), job.from)
               b == Str(job.count, ones)
    <3>1. \A x : x \in ones <=> x \in 0 .. (job.count - 1) /\ job.from + x \in old
      BY <2>1, <2>3 DEF Down
    <3>2. b.len = job.count /\ b.ones = ones
      BY DEF Str
    <3> HIDE DEF ones, b
    <3>3. \A i : i \in Up(ones, job.to) <=> i \in Target(job.count) /\ job.from + (i - job.to) \in old
      BY <2>1, <3>1 DEF Up, Target
    <3>4. copy_bits(old, job.to, b) = (old \ Target(job.count)) \cup Up(ones, job.to)
      BY <3>2 DEF copy_bits, Target
    <3>5. mem = copy_bits(old, job.to, b)
      BY <2>2, <2>4, <3>3, <3>4 DEF Halfway, Due
    <3> QED BY <2>4, <3>5 DEF b, ones
  <2>5. CASE job.call = "fill"
    <3>1. mem = (old \ Target(job.count)) \cup {i \in Target(job.count) : job.value}
      BY <2>2, <2>5 DEF Halfway, Due
    <3>2. mem = fill_bits(old, job.to, job.count, job.value)
      <4>1. CASE job.value
        BY <3>1, <4>1 DEF fill_bits, Target
      <4>2. CASE ~job.value
        BY <3>1, <4>2 DEF fill_bits, Target
      <4> QED BY <4>1, <4>2
    <3> QED BY <2>5, <3>2
  <2> QED BY <2>1, <2>4, <2>5
<1> QED BY <1>1, AlwaysHalfway, PTL

(* At no step is a bit outside the destination another one, nor a word     *)
(* touched that holds no bit of it (util.rs:66-67).                        *)
THEOREM OnlyItsWordsAreTouched == Spec => []TouchesOnlyItsWords
<1>1. IInv => TouchesOnlyItsWords
  <2> SUFFICES ASSUME IInv PROVE TouchesOnlyItsWords
    OBVIOUS
  <2> DEFINE range == job.to .. (job.to + job.count - 1)
             words == {word_index(i) : i \in range}
  <2>1. range = Target(job.count)
    BY DEF Target
  <2>2. {word_index(i) : i \in read \cup written} \subseteq words
    BY <2>1 DEF IInv, Touches
  <2>3. Target(moved) \subseteq range
    BY Moving, JobType DEF Target, IInv
  <2>4. mem \ range = old \ range
    BY <2>3 DEF IInv, Halfway
  <2> QED BY <2>2, <2>4 DEF TouchesOnlyItsWords
<1> QED BY <1>1, AlwaysHalfway, PTL

(* A word of the destination that is wholly overwritten is never read: it  *)
(* may not have been initialised (util.rs:69-72).                          *)
THEOREM OnlyKeptWordsAreRead == Spec => []ReadsInitialisedOnly
<1>1. IInv => ReadsInitialisedOnly
  <2> SUFFICES ASSUME IInv, NEW i \in read
               PROVE  ~(Word(word_index(i)) \subseteq job.to .. (job.to + job.count - 1))
    BY DEF ReadsInitialisedOnly
  <2>1. PICK j \in Nat : j \notin Target(job.count) /\ word_index(i) = word_index(j)
    BY DEF IInv, Spares
  <2>2. j \in Word(word_index(j))
    <3> DEFINE k == word_index(j)
    <3>1. k \in Nat /\ j \div WordSize = k
      BY IndexSplit DEF word_index
    <3> HIDE DEF k
    <3>2. j \in (k * WordSize) .. ((k + 1) * WordSize - 1)
      BY <3>1, UnitPositions, WordSizeType
    <3> QED BY <3>2 DEF Word, k
  <2> QED BY <2>1, <2>2 DEF Target
<1> QED BY <1>1, AlwaysHalfway, PTL
=============================================================================
