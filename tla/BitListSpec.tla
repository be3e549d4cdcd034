---------------------------- MODULE BitListSpec ----------------------------
(***************************************************************************)
(* What a BitList promises its caller: it is a string of bits, and every   *)
(* call either has its effect on that string or fails and leaves it alone. *)
(* Nothing here knows of words, of the inline form, or of capacity.        *)
(*                                                                         *)
(* args is what the last call was given, out its result: its name, what it *)
(* returned, and how it ended.  A call that cannot get memory panics or    *)
(* aborts the process, as reserve (ops.rs:332) and handle_alloc_error      *)
(* (heap.rs:67) do; when it may, is not promised, except that a call that  *)
(* needs no memory cannot.                                                 *)
(***************************************************************************)
EXTENDS Integers, BitStrings

CONSTANTS
  MaxLen,     \* bound on the length of the list
  Operands,   \* the bit strings passed to calls
  Positions,  \* the indexes and lengths passed to calls
  Reserves,   \* the amounts passed to reserve and try_reserve
  Repeats     \* the counts passed to repeat

VARIABLES bits, out, args

vars == <<bits, out, args>>

Out(op, ret, end) == [op |-> op, ret |-> ret, end |-> end]

Init == bits = NoBits /\ out = Out("new", "done", "return") /\ args = <<>>

Running == out.end # "abort"

-----------------------------------------------------------------------------
(* The three ways a call ends. *)

Does(op, a, b, ret) ==
  /\ Running
  /\ out' = Out(op, ret, "return")
  /\ args' = a
  /\ b.len <= MaxLen
  /\ bits' = b

Fails(op, a, end) ==
  /\ Running
  /\ out' = Out(op, "none", end)
  /\ args' = a
  /\ bits' = bits

Panics(op, a) == Fails(op, a, "panic")

Aborts(op, a) == Fails(op, a, "abort")

(* A call that needs memory may be refused it. *)
Refused(op, a) == Panics(op, a) \/ Aborts(op, a)

-----------------------------------------------------------------------------
Zeros == \E n \in Positions :
           Does("zeros", <<n>>, Constant(n, FALSE), "done") \/ Aborts("zeros", <<n>>)

Ones == \E n \in Positions :
          Does("ones", <<n>>, Constant(n, TRUE), "done") \/ Aborts("ones", <<n>>)

FromBits ==
  \E b \in Operands : Does("from_bits", <<b>>, b, "done") \/ Aborts("from_bits", <<b>>)

FromWords ==
  \E b \in Operands : Does("words", <<b>>, b, "done") \/ Aborts("words", <<b>>)

TryReserve == \E n \in Reserves, x \in {"done", "err"} : Does("try_reserve", <<n>>, bits, x)

Reserve == \E n \in Reserves : Does("reserve", <<n>>, bits, "done") \/ Panics("reserve", <<n>>)

Clear == Does("clear", <<>>, NoBits, "done")

Fill(f) == CASE f = "zero" -> FALSE [] f = "one" -> TRUE
             [] OTHER -> LastBit(bits) = "one"

Resize ==
  \E n \in Positions, f \in {"keep", "zero", "one"} :
    \/ Does("resize", <<n, f>>,
            IF n <= bits.len THEN Take(bits, n)
            ELSE Concat(bits, Constant(n - bits.len, Fill(f))),
            "done")
    \/ n > bits.len /\ Refused("resize", <<n, f>>)

Truncate ==
  \E n \in Positions :
    Does("truncate", <<n>>, IF n < bits.len THEN Take(bits, n) ELSE bits, "done")

ShrinkToFit == Does("shrink_to_fit", <<>>, bits, "done") \/ Aborts("shrink_to_fit", <<>>)

PushBits ==
  \E b \in Operands :
    \/ Does("push_bits", <<b>>, Concat(bits, b), "done")
    \/ b # NoBits /\ Panics("push_bits", <<b>>)

PushManyBits ==
  \E v \in BOOLEAN, n \in Positions :
    \/ Does("push_many_bits", <<v, n>>, Concat(bits, Constant(n, v)), "done")
    \/ n > 0 /\ Panics("push_many_bits", <<v, n>>)

PopBit ==
  IF bits = NoBits THEN Does("pop_bit", <<>>, bits, "none")
  ELSE Does("pop_bit", <<>>, Take(bits, bits.len - 1), LastBit(bits))

Repeat ==
  \E k \in Repeats :
    \/ Does("repeat", <<k>>, Replicate(bits, k), "done")
    \/ k > 0 /\ Refused("repeat", <<k>>)

Insert ==
  \E start, stop \in Positions, b \in Operands :
    IF stop > bits.len THEN Panics("insert", <<start, stop, b>>)
    ELSE \/ Does("insert", <<start, stop, b>>,
                 Concat(Concat(Take(bits, start), b), Drop(bits, stop)), "done")
         \/ Refused("insert", <<start, stop, b>>)

Put(b, i, v) ==
  Str(b.len, IF v THEN b.ones \cup {i} ELSE b.ones \ {i})

Set ==
  \E i \in Positions, v \in BOOLEAN :
    Does("set", <<i, v>>, IF i < bits.len THEN Put(bits, i, v) ELSE bits, BitAt(bits, i))

SetRange ==
  \E i \in Positions, b \in Operands :
    IF i + b.len <= bits.len THEN Does("set_range", <<i, b>>, Overwrite(bits, i, b), "done")
                             ELSE Does("set_range", <<i, b>>, bits, "none")

SetBitsAt ==
  \E i \in Positions, b \in Operands :
    IF i + b.len <= bits.len THEN Does("set_bits_at", <<i, b>>, Overwrite(bits, i, b), "done")
                             ELSE Panics("set_bits_at", <<i, b>>)

SetRangeFill ==
  \E start, stop \in Positions, v \in BOOLEAN :
    IF start <= stop /\ stop <= bits.len
    THEN Does("set_range_fill", <<start, stop, v>>,
              Overwrite(bits, start, Constant(stop - start, v)), "done")
    ELSE Panics("set_range_fill", <<start, stop, v>>)

Reverse == Does("reverse", <<>>, Mirror(bits), "done") \/ Aborts("reverse", <<>>)

Clone == Does("clone", <<>>, bits, "done") \/ Aborts("clone", <<>>)

Next ==
  \/ Zeros \/ Ones \/ FromBits \/ FromWords
  \/ TryReserve \/ Reserve \/ Clear \/ Resize \/ Truncate \/ ShrinkToFit
  \/ PushBits \/ PushManyBits \/ PopBit \/ Repeat \/ Insert
  \/ Set \/ SetRange \/ SetBitsAt \/ SetRangeFill \/ Reverse \/ Clone

Spec == Init /\ [][Next]_vars
=============================================================================
