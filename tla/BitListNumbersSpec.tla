------------------------- MODULE BitListNumbersSpec -------------------------
(***************************************************************************)
(* What the arithmetic of a BitList promises: a list of n bits is a number *)
(* below 2^n, the first bit the lowest.  Arithmetic is done modulo 2^n, and *)
(* a call that says whether it overflowed is right about it.  The operands *)
(* must have one length: a call with others fails and changes nothing.     *)
(***************************************************************************)
EXTENDS BitListSpec, Sequences, FiniteSetsExt

CONSTANTS
  Scalars,   \* the scalars multiplied by, and the integers lists are made of
  Lengths,   \* the lengths of the lists made of integers
  Texts      \* the texts parsed, as sequences of digits

Number(s) == MapThenSumSet(LAMBDA i : 2^i, s)

(* The n lowest bits of the number k, which may be negative. *)
Binary(n, k) == Str(n, {i \in 0 .. (n - 1) : ((k % 2^n) \div 2^i) % 2 = 1})

(* A text of digits of the given size, the first of which is the highest. *)
Reading(text, size) ==
  LET n == Len(text)
  IN  Binary(size * n, MapThenSumSet(LAMBDA i : text[i] * 2^(size * (n - i)), DOMAIN text))

-----------------------------------------------------------------------------
Same(b) == b.len = bits.len

(* A call on two lists: result has the bits, ret is what is returned. *)
Combines(op, b, result, ret) ==
  IF Same(b) THEN Does(op, <<b>>, result, ret) ELSE Panics(op, <<b>>)

AssignOr ==
  \E b \in Operands :
    Combines("assign_or", b, Str(bits.len, bits.ones \cup b.ones), "done")

AssignAnd ==
  \E b \in Operands :
    Combines("assign_and", b, Str(bits.len, bits.ones \cap b.ones), "done")

AssignXor ==
  \E b \in Operands :
    Combines("assign_xor", b,
             Str(bits.len, (bits.ones \ b.ones) \cup (b.ones \ bits.ones)), "done")

(* assign_neg does what assign_not does (basic_math.rs:18). *)
AssignNot ==
  \E op \in {"assign_not", "assign_neg"} :
    Does(op, <<>>, Str(bits.len, (0 .. (bits.len - 1)) \ bits.ones), "done")

Sum(b) == Binary(bits.len, Number(bits.ones) + Number(b.ones))

Difference(b) == Binary(bits.len, Number(bits.ones) - Number(b.ones))

TooBig(b) == Number(bits.ones) + Number(b.ones) >= 2^bits.len

Negative(b) == Number(bits.ones) < Number(b.ones)

Flag(v) == IF v THEN "overflow" ELSE "fits"

AssignAdd ==
  \E b \in Operands : Combines("assign_add_overflow", b, Sum(b), Flag(TooBig(b)))

AssignSub ==
  \E b \in Operands : Combines("assign_sub_overflow", b, Difference(b), Flag(Negative(b)))

(* The owner keeps the list that is returned, if there is one. *)
WrappingAdd ==
  \E b \in Operands :
    \/ Does("wrapping_add", <<b>>, IF Same(b) THEN Sum(b) ELSE bits,
            IF Same(b) THEN "done" ELSE "none")
    \/ Same(b) /\ Aborts("wrapping_add", <<b>>)

WrappingSub ==
  \E b \in Operands :
    \/ Does("wrapping_sub", <<b>>, IF Same(b) THEN Difference(b) ELSE bits,
            IF Same(b) THEN "done" ELSE "none")
    \/ Same(b) /\ Aborts("wrapping_sub", <<b>>)

Checked(op, b, result, overflow) ==
  \/ /\ ~Same(b)
     /\ Does(op, <<b>>, bits, "differ")
  \/ /\ Same(b)
     /\ \/ Does(op, <<b>>, IF overflow THEN bits ELSE result,
                IF overflow THEN "overflow" ELSE "done")
        \/ Aborts(op, <<b>>)

CheckedAdd == \E b \in Operands : Checked("checked_add", b, Sum(b), TooBig(b))

CheckedSub == \E b \in Operands : Checked("checked_sub", b, Difference(b), Negative(b))

(* An operator may panic when its result overflows; the list then has been *)
(* changed all the same (basic_math.rs:157).                               *)
Operator(op, b, result, overflow) ==
  \/ Combines(op, b, result, "done")
  \/ /\ Same(b) /\ overflow
     /\ Running
     /\ out' = Out(op, "none", "panic")
     /\ args' = <<b>>
     /\ bits' = result

AddAssign == \E b \in Operands : Operator("add_assign", b, Sum(b), TooBig(b))

SubAssign == \E b \in Operands : Operator("sub_assign", b, Difference(b), Negative(b))

AssignUmulScalar ==
  \E k \in Scalars :
    Does("assign_umul_scalar", <<k>>, Binary(bits.len, Number(bits.ones) * k), "done")

-----------------------------------------------------------------------------
(* Lists made of integers and of text. *)

FromTrunc ==
  \E op \in {"from_trunc_u64", "from_trunc_u128"}, k \in Scalars, n \in Lengths :
    Does(op, <<k, n>>, Binary(n, k), "done") \/ Aborts(op, <<k, n>>)

FromLeBytes ==
  \E b \in Operands :
    Does("from_le_bytes", <<b>>, b, "done") \/ Aborts("from_le_bytes", <<b>>)

Parse ==
  \E t \in Texts, size \in {1, 4} :
    \/ /\ \E i \in DOMAIN t : t[i] >= 2^size
       /\ Does("parse", <<t, size>>, bits, "err")
    \/ /\ \A i \in DOMAIN t : t[i] < 2^size
       /\ Does("parse", <<t, size>>, Reading(t, size), "done")
    \/ Aborts("parse", <<t, size>>)

NumbersInit == bits \in Operands /\ out = Out("new", "done", "return") /\ args = <<>>

NumbersNext ==
  \/ AssignOr \/ AssignAnd \/ AssignXor \/ AssignNot
  \/ AssignAdd \/ AssignSub \/ AssignUmulScalar
  \/ WrappingAdd \/ WrappingSub \/ CheckedAdd \/ CheckedSub \/ AddAssign \/ SubAssign
  \/ FromTrunc \/ FromLeBytes \/ Parse

NumbersSpec == NumbersInit /\ [][NumbersNext]_vars
=============================================================================
