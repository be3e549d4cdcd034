---------------------------- MODULE WordBitsSpec ----------------------------
(***************************************************************************)
(* What WordBits promises: it is a queue of at most WordSize bits, to      *)
(* which bits are added at the back and from which they are taken at       *)
(* either end.  The one thing left open is what becomes of a full word     *)
(* that more is pushed on.                                                 *)
(***************************************************************************)
EXTENDS BitStrings

CONSTANTS
  WordSize,    \* the most bits it holds
  InlineBits,  \* the most bits that an inline list holds
  DebugBuild,  \* whether overflowing shifts panic
  Numbers,     \* the counts passed to calls
  Strings      \* the bit strings passed to calls

VARIABLES
  bits,  \* the bits held
  op,    \* the last call
  args,  \* what it was called with
  ret,   \* what it returned
  end    \* how it ended

vars == <<bits, op, args, ret, end>>

Calls(name, a, left, result) ==
  op' = name /\ args' = a /\ ret' = result /\ bits' = left /\ end' = "return"

Panics(name, a) == op' = name /\ args' = a /\ ret' = {} /\ bits' = bits /\ end' = "panic"

Init == bits = NoBits /\ op = "empty" /\ args = <<>> /\ ret = {} /\ end = "return"

(* The bits of a full word may turn to ones when more is pushed on it.     *)
Spoiled(name, a, result) ==
  \E s \in SUBSET (0 .. (WordSize - 1)) :
    bits.ones \subseteq s /\ Calls(name, a, Str(WordSize, s), result)

Full == bits.len = WordSize

Least(x, y) == IF x < y THEN x ELSE y

-----------------------------------------------------------------------------
New ==
  \E b \in Strings, n \in Numbers :
    b.len = WordSize /\ Calls("new", <<b, n>>, Take(b, Least(n, WordSize)), {})

Give == \E b \in Strings : Calls("given", <<b>>, b, {})

Truncate == \E n \in Numbers : Calls("truncate", <<n>>, Take(bits, Least(n, bits.len)), {})

Push ==
  \E v \in BOOLEAN :
    IF Full THEN Calls("push", <<v>>, bits, {FALSE})
            ELSE Calls("push", <<v>>, Concat(bits, Constant(1, v)), {TRUE})

PushBits ==
  \E b \in Strings :
    IF bits.len + b.len > WordSize THEN Calls("push_bits", <<b>>, bits, {FALSE})
    ELSE \/ Calls("push_bits", <<b>>, Concat(bits, b), {TRUE})
         \/ Full /\ Spoiled("push_bits", <<b>>, {TRUE})

(* What does not fit comes back. *)
PushOverflowing ==
  \E b \in Strings :
    LET all == Concat(bits, b)
        fits == Least(all.len, WordSize)
    IN  \/ Calls("push_overflowing", <<b>>, Take(all, fits), {Drop(all, fits)})
        \/ Full /\ Spoiled("push_overflowing", <<b>>, {b})

PopFront ==
  \E n \in Numbers :
    IF n > bits.len THEN Calls("pop_front", <<n>>, NoBits, {bits})
    ELSE \/ Calls("pop_front", <<n>>, Drop(bits, n), {Take(bits, n)})
         \/ n = WordSize /\ DebugBuild /\ Panics("pop_front", <<n>>)

NextBit ==
  IF bits.len = 0 THEN Calls("next", <<>>, bits, {})
                  ELSE Calls("next", <<>>, Drop(bits, 1), {BitAt(bits, 0)})

NextBack ==
  IF bits.len = 0 THEN Calls("next_back", <<>>, bits, {})
                  ELSE Calls("next_back", <<>>, Take(bits, bits.len - 1), {LastBit(bits)})

TryInline ==
  Calls("try_inline", <<>>, bits, IF bits.len <= InlineBits THEN {bits} ELSE {})

Next ==
  \/ New \/ Give \/ Truncate \/ Push \/ PushBits \/ PushOverflowing
  \/ PopFront \/ NextBit \/ NextBack \/ TryInline

Spec == Init /\ [][Next]_vars
=============================================================================
