---------------------------- MODULE BitListReads ----------------------------
(***************************************************************************)
(* The functions that read a list out: as bytes and integers (ops.rs:89,   *)
(* 599-660, convert.rs), as slices (get_range, concat, set_at), as digits  *)
(* in base 16 and 10 (ops.rs:246-276, 353-366, 1112-1150).  They are       *)
(* compared with the string and the number the list stands for, in every   *)
(* list BitListNumbers can make.                                           *)
(***************************************************************************)
EXTENDS BitListNumbers

None == {}
Some(x) == {x}

(* The bits of the first n bytes; an array that is longer ends with zeros. *)
to_le_bytes(r, n) == r.ones \cap (0 .. (n * ByteSize - 1))

(* Mutant: the length of the list is compared with the bytes that are set. *)
try_from_value(r, n) ==
  IF r.ones \ (0 .. (n - 1)) # {} THEN None
  ELSE Some(Unsigned(to_le_bytes(r, n \div ByteSize)))

(* TryFrom<BitList> for an integer of n bits. *)
try_from(r, n) ==
  IF r.len > n THEN None ELSE Some(Unsigned(to_le_bytes(r, n \div ByteSize)))

(* An empty heap list has no first word: decompose panics.                 *)
Decomposes(r) == r.kind = "inline" \/ r.len > 0

(* try_usize and try_u32: the first word, if n bits hold the whole list.   *)
try_word(r, n) ==
  IF r.len > n THEN None
  ELSE Some(Unsigned(first_word_init(r) \cap (0 .. (n - 1))))

(* try_u128 goes bit by bit. *)
try_u128(r) ==
  IF r.len > WideBits THEN None
  ELSE Some(MapThenSumSet(LAMBDA i : IF BitAt(Value(r), i) = "one" THEN 2^i ELSE 0,
                          0 .. (r.len - 1)))

-----------------------------------------------------------------------------
(* Slices. *)

Slice(b, s, e) == Take(Drop(b, s), e - s)

(* An inline list is shifted up where it ought to be shifted down.         *)
get_range(r, s, e) ==
  IF is_invalid_range(s, e, r.len) THEN None
  ELSE IF r.kind = "inline" THEN Some(new_masked(Up(r.ones, s) \cap Bit, e - s))
  ELSE Onward(from_bits(r, Slice(Value(r), s, e)))

concat(r, q) == Stopped(clone(r)) \cup UNION {push_bits(p, Value(q)) : p \in Onward(clone(r))}

(* InlineBitList::concat adds what concat ors in. *)
inline_concat(r, q) ==
  IF r.len + q.len > DATA_BITS THEN None
  ELSE Some(Inline(r.len + q.len, Truncated(Unsigned(r.ones) + Unsigned(Up(q.ones, r.len)),
                                            WordSize)))

(* Mutant: the ones of the value are put in, its zeros are not. *)
set_at_or(r, i, q) ==
  IF i + q.len > r.len THEN None ELSE Some(Inline(r.len, r.ones \cup Up(q.ones, i)))

(* InlineBitList::set_at: a mask moved into place.                         *)
inline_set_at(r, i, q) ==
  LET mask == Up(0 .. (q.len - 1), i)
  IN  IF i + q.len > r.len THEN None
      ELSE Some(Inline(r.len, (r.ones \ mask) \cup (Up(q.ones, i) \cap mask)))

(* HeapBitList::set_at: bit by bit. *)
heap_set_at(r, i, q) ==
  LET put[k \in 0 .. q.len] ==
        IF k = 0 THEN {r}
        ELSE UNION {Onward(set(p, i + k - 1, k - 1 \in q.ones)) : p \in put[k - 1]}
  IN  IF i + q.len > r.len THEN None ELSE put[q.len]

set_at(r, i, q) ==
  IF r.kind = "inline" THEN inline_set_at(r, i, q) ELSE heap_set_at(r, i, q)

-----------------------------------------------------------------------------
(* Digits. *)

(* At most n bits from index i on. *)
get_value_at(r, i, n) ==
  IF i >= r.len THEN None ELSE Some(Slice(Value(r), i, i + n).ones)

(* The digits UpperHex and LowerHex write, the last one first. *)
HexDigits(r) ==
  [k \in 0 .. ((r.len + 3) \div 4 - 1) |->
     CHOOSE d \in 0 .. 15 :
       \A w \in get_value_at(r, 4 * k, ByteSize) : d = Unsigned(w \cap (0 .. 3))]

(* Mutant: the room for a carry out of the last digit is missing. *)
bcd_size_tight(n) == IF n <= 3 THEN 4 ELSE n + (n - 4) \div 3

bcd_size_for_bits(n) == IF n <= 3 THEN 4 ELSE n + (n - 4) \div 3 + 1

(* The sum is taken in a usize without a check: the lists converted here   *)
(* are short enough for it to be what is written above.                    *)
ASSUME DigitsAssumption == bcd_size_for_bits(MaxLen) <= UsizeMax

(* The digit that step i, j of the conversion looks at begins here.        *)
DigitAt(n, i, j) == n - i + 4 * j - 3

(* Mutant: a 5 is doubled as it is. *)
add_three_above_five(r, at) ==
  UNION {IF Unsigned(w) > 5 THEN set_bits_at(r, at, Str(4, Truncated(Unsigned(w) + 3, 4)))
         ELSE {Returns(r, "done")} : w \in get_value_at(r, at, 4)}

(* A digit above 4 is raised by 3, so that doubling it carries.            *)
add_three(r, at) ==
  UNION {IF Unsigned(w) > 4 THEN set_bits_at(r, at, Str(4, Truncated(Unsigned(w) + 3, 4)))
         ELSE {Returns(r, "done")} : w \in get_value_at(r, at, 4)}

unsigned_binary_to_bcd(r) ==
  LET n == r.len
      sized == Stopped(clone(r)) \cup
               UNION {resize(p, bcd_size_for_bits(n), "zero") : p \in Onward(clone(r))}
      Last(i) == i \div 3
      ran[i \in 0 .. (n - 4), j \in 0 .. (n \div 3)] ==
        UNION {IF o.end = "return" THEN add_three(o.rep, DigitAt(n, i, j)) ELSE {o} :
                 o \in IF j > 0 THEN ran[i, j - 1]
                       ELSE IF i > 0 THEN ran[i - 1, Last(i - 1)] ELSE sized}
  IN  IF n <= 3 THEN sized ELSE ran[n - 4, Last(n - 4)]

(* format_decimal: the digits in base 16 of the BCD list without the zeros *)
(* at the front, as the set of the places and digits that are left.        *)
format_decimal(r, bcd) ==
  LET digits == HexDigits(bcd)
      shown == {k \in DOMAIN digits : \E h \in DOMAIN digits : h >= k /\ digits[h] # 0}
  IN  IF shown = {} THEN (IF r.len = 0 THEN <<>> ELSE <<0>>)
      ELSE [k \in 1 .. Cardinality(shown) |-> digits[Cardinality(shown) - k]]

-----------------------------------------------------------------------------
(* Properties. *)

(* A list is read back as the number it stands for: into an integer of n   *)
(* bits, signed or not, exactly when it is no longer than n bits (convert. *)
(* rs), and as the lowest bytes of that number (ops.rs:89).  Adding the    *)
(* numbers of two inline lists joins them as concat does (inline.rs:61).   *)
NumbersReadBack ==
  LET number == Unsigned(Value(rep).ones)
      Fits(n) == IF rep.len <= n THEN Some(number) ELSE None
  IN  /\ \A n \in {ByteSize, LongBits, WideBits} : try_from(rep, n) = Fits(n)
      /\ Decomposes(rep) =>
           try_word(rep, WordSize) = Fits(WordSize) /\ try_word(rep, ByteSize) = Fits(ByteSize)
      /\ try_u128(rep) = Fits(WideBits)
      /\ \A n \in 0 .. 4 : \A o \in from_le_bytes(rep, Str(n * ByteSize, to_le_bytes(rep, n))) :
           o.end = "return" => Unsigned(Value(o.rep).ones) = number % 2^(n * ByteSize)
      /\ \A q \in Other : rep.kind = "inline" /\ q.kind = "inline" =>
           \A joined \in inline_concat(rep, q) :
             \A o \in concat(rep, q) : o.end = "return" => o.rep = joined

(* The two parts of a heap list, each in the form its length asks for, put *)
(* together again are the list, wherever it is cut (heap.rs:421,           *)
(* ops.rs:516).                                                            *)
PartsRejoin ==
  rep.kind = "heap" =>
    \A i \in 0 .. rep.len :
      \A low \in get_range(rep, 0, i), high \in get_range(rep, i, rep.len) :
        \A o \in concat(low, high) : o.end = "return" => eq(o.rep, rep)

(* set_at replaces the bits at its index and no other, with either form of *)
(* the list, or does nothing (inline.rs:150, heap.rs:429).                 *)
SetAtOverwrites ==
  \A q \in Other, i \in 0 .. MaxLen :
    (rep.kind = "inline" => q.kind = "inline") =>
      IF i + q.len > rep.len THEN set_at(rep, i, q) = None
      ELSE /\ set_at(rep, i, q) # None
           /\ \A p \in set_at(rep, i, q) :
                p.ones = Overwrite(Value(rep), i, Value(q)).ones /\ p.len = rep.len

(* Every digit the conversion looks at lies within the list made for it:   *)
(* the unwrap of ops.rs:268 and the write of ops.rs:271 never panic, if    *)
(* the size of that list can be counted in a word (heap.rs:500 adds        *)
(* without a check).                                                       *)
DigitsFit(n) ==
  n >= 4 /\ bcd_size_for_bits(n) <= UsizeMax =>
    \A i \in 0 .. (n - 4) : \A j \in 0 .. (i \div 3) :
      DigitAt(n, i, j) >= 0 /\ DigitAt(n, i, j) + 4 <= bcd_size_for_bits(n)

BcdFits == \A n \in rep.len .. 4 * rep.len : DigitsFit(n)

Decimal(digits) ==
  MapThenSumSet(LAMBDA k : digits[k] * 10^(Len(digits) - k), DOMAIN digits)

(* format_decimal writes the number in base 10, with no zero in front      *)
(* (test_format_decimal, ops.rs:1502).                                     *)
DecimalIsNumber ==
  \A o \in unsigned_binary_to_bcd(rep) :
    o.end = "return" =>
      LET digits == format_decimal(rep, o.rep)
      IN  /\ \A k \in DOMAIN digits : digits[k] <= 9
          /\ Decimal(digits) = Unsigned(Value(rep).ones)
          /\ Len(digits) > 1 => digits[1] # 0
=============================================================================
