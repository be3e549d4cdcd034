--------------------------- MODULE BitListNumbers ---------------------------
(***************************************************************************)
(* The arithmetic of a BitList (basic_math.rs, ops.rs:733-808, util.rs:    *)
(* 13-59) and the lists made of integers, bytes and text (ops.rs:65-244,   *)
(* convert.rs).  A call runs over the words of one or two lists and hands  *)
(* a carry from each to the next; what it leaves in the last word beyond   *)
(* the length is cut off and is the overflow.  Both operands may be inline *)
(* or on the heap.                                                         *)
(***************************************************************************)
EXTENDS BitListQueries, Sequences

CONSTANTS
  ByteSize,  \* bits in a byte, 8 in the code
  LongBits,  \* u64::BITS
  WideBits,  \* u128::BITS
  Scalars,   \* the scalars multiplied by, and the integers lists are made of
  Lengths,   \* the lengths of the lists made of integers
  Texts      \* the texts parsed, as sequences of digits; 16 is not a digit

ASSUME NumbersAssumption ==
  /\ ByteSize \in Nat \ {0} /\ WordSize % ByteSize = 0 /\ ByteSize <= DATA_BITS
  /\ LongBits \in Nat \ {0} /\ LongBits % WordSize = 0
  /\ WideBits = 2 * LongBits
  /\ Scalars \subseteq 0 .. UsizeMax
  /\ Lengths \subseteq Nat
  /\ Texts \subseteq Seq(0 .. 16)

(* The word, or the integer of n bits, with the value k. *)
Truncated(k, n) == {i \in 0 .. (n - 1) : ((k % 2^n) \div 2^i) % 2 = 1}

-----------------------------------------------------------------------------
(* One word: what is left there and what is carried on. *)

Carrying(word, carry) == [word |-> word, carry |-> carry]

word_or(c, x, y) == Carrying(x \cup y, c)
word_and(c, x, y) == Carrying(x \cap y, c)
word_xor(c, x, y) == Carrying((x \ y) \cup (y \ x), c)
word_not(c, x, y) == Carrying(Bit \ x, c)

(* Mutant: only the second of the two additions can carry. *)
word_add_once(c, x, y) ==
  LET sum == Unsigned(Truncated(Unsigned(x) + Unsigned(y), WordSize)) + c
  IN  Carrying(Truncated(sum, WordSize), sum \div 2^WordSize)

(* overflowing_add twice; one of the two carries at most.                  *)
word_add(c, x, y) ==
  LET sum == Unsigned(x) + Unsigned(y)
      all == (sum % 2^WordSize) + c
  IN  Carrying(Truncated(all, WordSize),
               IF sum > UsizeMax \/ all > UsizeMax THEN 1 ELSE 0)

word_sub(c, x, y) ==
  LET rest == Unsigned(x) - Unsigned(y)
      all == (rest % 2^WordSize) - c
  IN  Carrying(Truncated(all, WordSize), IF rest < 0 \/ all < 0 THEN 1 ELSE 0)

carrying_mul(c, x, k) ==
  LET product == Unsigned(x) * k + c
  IN  Carrying(Truncated(product, WordSize), product \div 2^WordSize)

(* The closure of a call; k is the scalar of a product.                    *)
Closure(op, k) == [op |-> op, k |-> k]

Applied(f, c, x, y) ==
  CASE f.op = "or" -> word_or(c, x, y)
    [] f.op = "and" -> word_and(c, x, y)
    [] f.op = "xor" -> word_xor(c, x, y)
    [] f.op = "not" -> word_not(c, x, y)
    [] f.op = "add" -> word_add(c, x, y)
    [] f.op = "sub" -> word_sub(c, x, y)
    [] f.op = "mul" -> carrying_mul(c, x, f.k)

-----------------------------------------------------------------------------
(* All the words. *)

(* util.rs: f is applied to the n words of two memories, from the first on. *)
for_each_carry(n, a, b, init, f) ==
  LET ran[i \in 0 .. n] ==
        IF i = 0 THEN [memory |-> {}, carry |-> init]
        ELSE LET before == ran[i - 1]
                 here == Applied(f, before.carry, WordAt(a, i - 1), WordAt(b, i - 1))
             IN  [memory |-> before.memory \cup Up(here.word, (i - 1) * WordSize),
                  carry |-> here.carry]
  IN  ran[n]

(* What a call leaves: the list, the last carry, and the bits cut off.     *)
Left(r, carry, over) == [rep |-> r, carry |-> carry, over |-> over]

(* An inline list is worked on as one word, and set_data cuts it off.      *)
InlineCarry(r, word) ==
  Left(Inline(r.len, word.word \cap (0 .. (r.len - 1))), word.carry,
       word.word \ (0 .. (r.len - 1)))

(* Mutant: the bits beyond the length of a heap list are not cut off. *)
HeapCarryUncut(r, done) ==
  Left(Heap(r.len, r.cap, done.memory), done.carry,
       WordAt(done.memory, words_for(r.len) - 1) \ last_word_mask(r.len))

HeapCarry(r, done) ==
  LET last == WordAt(done.memory, words_for(r.len) - 1)
  IN  Left(Heap(r.len, r.cap, MaskLast(done.memory, r.len)), done.carry,
           last \ last_word_mask(r.len))

(* Lists of one length.  When either is inline there is one word.          *)
assign_for_each_carry(r, q, init, f) ==
  IF r.len = 0 THEN Left(r, init, {})
  ELSE IF r.kind = "inline" THEN InlineCarry(r, Applied(f, init, r.ones, first_word_init(q)))
  ELSE HeapCarry(r, for_each_carry(words_for(r.len), r.ones, q.ones, init, f))

unary_for_each_carry(r, init, f) == assign_for_each_carry(r, r, init, f)

-----------------------------------------------------------------------------
(* The calls.  Lists of different lengths are found before any change.     *)

Matched(r, q, S) == IF r.len # q.len THEN {Panics(r)} ELSE S

assign_or(r, q) ==
  Matched(r, q, {Returns(assign_for_each_carry(r, q, 0, Closure("or", 0)).rep, "done")})

assign_and(r, q) ==
  Matched(r, q, {Returns(assign_for_each_carry(r, q, 0, Closure("and", 0)).rep, "done")})

assign_xor(r, q) ==
  Matched(r, q, {Returns(assign_for_each_carry(r, q, 0, Closure("xor", 0)).rep, "done")})

assign_not(r) == {Returns(unary_for_each_carry(r, 0, Closure("not", 0)).rep, "done")}

(* Mutant: the bits that are cut off do not count. *)
OverflowsAtWord(left) == IF left.carry = 1 THEN "overflow" ELSE "fits"

Overflows(left) == IF left.carry = 1 \/ left.over # {} THEN "overflow" ELSE "fits"

Flagged(left) == Returns(left.rep, Overflows(left))

assign_add_overflow(r, q) ==
  Matched(r, q, {Flagged(assign_for_each_carry(r, q, 0, Closure("add", 0)))})

assign_sub_overflow(r, q) ==
  Matched(r, q, {Flagged(assign_for_each_carry(r, q, 0, Closure("sub", 0)))})

Overflowing(op, r, q) ==
  IF op = "add" THEN assign_add_overflow(r, q) ELSE assign_sub_overflow(r, q)

assign_umul_scalar(r, k) ==
  {Returns(unary_for_each_carry(r, 0, Closure("mul", k)).rep, "done")}

(* After a clone; the list is replaced by the one returned.                *)
Cloned(r, S(_)) ==
  {[o EXCEPT !.rep = r] : o \in Stopped(clone(r))} \cup UNION {S(p) : p \in Onward(clone(r))}

wrapping(r, q, op) ==
  LET work(p) == Returning(Overflowing(op, p, q), "done")
  IN  IF r.len # q.len THEN {Returns(r, "none")} ELSE Cloned(r, work)

checked(r, q, op) ==
  LET work(p) == {IF o.ret = "overflow" THEN Returns(r, "overflow") ELSE Returns(o.rep, "done") :
                    o \in Overflowing(op, p, q)}
  IN  IF r.len # q.len THEN {Returns(r, "differ")} ELSE Cloned(r, work)

(* += and -=: the assertion comes after the change.                        *)
operator(r, q, op) ==
  {IF o.end # "return" THEN o
   ELSE IF DebugBuild /\ o.ret = "overflow" THEN Panics(o.rep) ELSE Returns(o.rep, "done") :
     o \in Overflowing(op, r, q)}

-----------------------------------------------------------------------------
(* Lists made of integers, bytes and text. *)

(* from_trunc_u64 and from_trunc_u128: an integer of size bits, which is   *)
(* masked for lengths up to last.                                          *)
from_trunc(r, k, n, last, size) ==
  IF n <= DATA_BITS THEN {Returns(new_masked(Truncated(k, WordSize), n), "done")}
  ELSE with_capacity(r, n, Truncated(k, IF n > last THEN size ELSE n))

(* A mask of LongBits bits is 1 << 64, which is 1 in a release build.      *)
from_trunc_u64(r, k, n) ==
  IF n # LongBits \/ n <= DATA_BITS THEN from_trunc(r, k, n, LongBits, LongBits)
  ELSE {IF DebugBuild /\ o.end = "return" THEN Panics(r) ELSE o :
          o \in with_capacity(r, n, {})}

from_trunc_u128(r, k, n) == from_trunc(r, k, n, WideBits - 1, WideBits)

(* Also From<u8> to From<i128>, which take the bytes of the integer.       *)
from_le_bytes(r, b) ==
  IF b.len = 0 THEN {Returns(NO_BITS, "done")}
  ELSE IF b.len <= DATA_BITS THEN {Returns(Inline(b.len, b.ones), "done")}
  ELSE with_capacity(r, b.len, b.ones)

(* The digits of the given size from the last of the text on, as many as   *)
(* fill word k.                                                            *)
try_collect_bits(t, size, k) ==
  LET digit(j) == IF j < Len(t) THEN Truncated(t[Len(t) - j], size) ELSE {}
      each == WordSize \div size
  IN  UNION {Up(digit(k * each + j), size * j) : j \in 0 .. (each - 1)}

(* try_from_nibbles: a text with a character that is no digit is found out *)
(* on the way, and the list begun is dropped.                              *)
parse(r, t, size) ==
  LET n == Len(t) * size
      memory == UNION {Up(try_collect_bits(t, size, k), k * WordSize) : k \in 0 .. words_for(n)}
      made == IF n <= DATA_BITS THEN {Returns(Inline(n, memory), "done")}
              ELSE with_capacity(r, n, MaskLast(memory, n))
  IN  IF \A i \in DOMAIN t : t[i] < 2^size THEN made
      ELSE {Returns(r, "err")} \cup {o \in made : o.end = "abort"}

-----------------------------------------------------------------------------
(* A careful owner does not come across these.                             *)

(* ops.rs:70: the mask for exactly 64 bits.                                *)
HitsMaskOf64(op, n) == op = "from_trunc_u64" /\ n = LongBits /\ n > DATA_BITS

-----------------------------------------------------------------------------
(* The owner's calls. *)

(* The other operand, in each of its forms. *)
Other == UNION {RepsOf(b) : b \in Operands}

AssignOr == \E q \in Other : Call("assign_or", <<Value(q)>>, assign_or(rep, q))

AssignAnd == \E q \in Other : Call("assign_and", <<Value(q)>>, assign_and(rep, q))

AssignXor == \E q \in Other : Call("assign_xor", <<Value(q)>>, assign_xor(rep, q))

AssignNot == \E op \in {"assign_not", "assign_neg"} : Call(op, <<>>, assign_not(rep))

AssignAdd ==
  \E q \in Other : Call("assign_add_overflow", <<Value(q)>>, assign_add_overflow(rep, q))

AssignSub ==
  \E q \in Other : Call("assign_sub_overflow", <<Value(q)>>, assign_sub_overflow(rep, q))

WrappingAdd ==
  \E q \in Other :
    /\ Careful => ~HitsSwappedArguments(rep)
    /\ Call("wrapping_add", <<Value(q)>>, wrapping(rep, q, "add"))

WrappingSub ==
  \E q \in Other :
    /\ Careful => ~HitsSwappedArguments(rep)
    /\ Call("wrapping_sub", <<Value(q)>>, wrapping(rep, q, "sub"))

CheckedAdd ==
  \E q \in Other :
    /\ Careful => ~HitsSwappedArguments(rep)
    /\ Call("checked_add", <<Value(q)>>, checked(rep, q, "add"))

CheckedSub ==
  \E q \in Other :
    /\ Careful => ~HitsSwappedArguments(rep)
    /\ Call("checked_sub", <<Value(q)>>, checked(rep, q, "sub"))

AddAssign ==
  \E q \in Other : Call("add_assign", <<Value(q)>>, operator(rep, q, "add"))

SubAssign ==
  \E q \in Other : Call("sub_assign", <<Value(q)>>, operator(rep, q, "sub"))

AssignUmulScalar ==
  \E k \in Scalars : Call("assign_umul_scalar", <<k>>, assign_umul_scalar(rep, k))

FromTrunc ==
  \E op \in {"from_trunc_u64", "from_trunc_u128"}, k \in Scalars, n \in Lengths :
    /\ Careful => ~HitsMaskOf64(op, n)
    /\ Call(op, <<k, n>>, IF op = "from_trunc_u64" THEN from_trunc_u64(rep, k, n)
                                                   ELSE from_trunc_u128(rep, k, n))

FromLeBytes ==
  \E b \in Operands :
    b.len % ByteSize = 0 /\ Call("from_le_bytes", <<b>>, from_le_bytes(rep, b))

Parse ==
  \E t \in Texts, size \in {1, 4} : Call("parse", <<t, size>>, parse(rep, t, size))

NumbersInit ==
  /\ rep \in Other
  /\ out = [op |-> "new", ret |-> "done", end |-> "return"]
  /\ args = <<>>

NumbersNext ==
  \/ AssignOr \/ AssignAnd \/ AssignXor \/ AssignNot
  \/ AssignAdd \/ AssignSub \/ AssignUmulScalar
  \/ WrappingAdd \/ WrappingSub \/ CheckedAdd \/ CheckedSub \/ AddAssign \/ SubAssign
  \/ FromTrunc \/ FromLeBytes \/ Parse

NumbersSpec == NumbersInit /\ [][NumbersNext]_vars

-----------------------------------------------------------------------------
(* Properties. *)

AbstractNumbers == INSTANCE BitListNumbersSpec WITH bits <- Value(rep)

(* A list computes with its number modulo 2^n, whatever the forms of the   *)
(* two operands, and says rightly whether a sum or a difference overflowed *)
(* (basic_math.rs:22-79); no call leaves a list of another number.         *)
NumberPromise == AbstractNumbers!NumbersSpec
=============================================================================
