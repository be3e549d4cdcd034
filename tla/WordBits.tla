------------------------------ MODULE WordBits ------------------------------
(***************************************************************************)
(* One WordBits and the calls its owner makes on it (iter.rs:901-1127).    *)
(***************************************************************************)
EXTENDS WordBitsOps

CONSTANTS
  DebugBuild,  \* cfg!(debug_assertions): a shift by WordSize panics
  Values,      \* the words passed to calls
  Numbers      \* the counts passed to calls

ASSUME WordBitsAssumption ==
  /\ DebugBuild \in BOOLEAN
  /\ Values \subseteq SUBSET Bit
  /\ Numbers \subseteq Nat

VARIABLES
  word,  \* the value
  op,    \* the last call
  args,  \* what it was called with
  ret,   \* what it returned: {} is nothing or None
  end    \* how it ended

vars == <<word, op, args, ret, end>>

(* The WordBits that callers pass, with anything beyond their count. *)
Operands == {WordBits(v, n) : v \in Values, n \in Numbers \cap (0 .. WordSize)}

Named(v) == IF v THEN "one" ELSE "zero"

Calls(name, a, left, result) ==
  op' = name /\ args' = a /\ ret' = result /\ word' = left /\ end' = "return"

Panics(name, a) == op' = name /\ args' = a /\ ret' = {} /\ word' = word /\ end' = "panic"

Init == word = EmptyWordBits /\ op = "empty" /\ args = <<>> /\ ret = {} /\ end = "return"

-----------------------------------------------------------------------------
New ==
  \E v \in Values, n \in Numbers :
    Calls("new", <<Str(WordSize, v), n>>, new_word_bits(v, n), {})

(* What peek_word and the heap list make with new_unchecked. *)
Give == \E b \in Operands : Calls("given", <<Held(b)>>, b, {})

Truncate == \E n \in Numbers : Calls("truncate", <<n>>, truncated(word, n), {})

Push ==
  \E v \in BOOLEAN :
    IF word.count < WordSize
    THEN Calls("push", <<v>>,
               WordBits((word.value \ {word.count}) \cup (IF v THEN {word.count} ELSE {}),
                        word.count + 1),
               {TRUE})
    ELSE Calls("push", <<v>>, word, {FALSE})

PushBits ==
  \E b \in Operands :
    Calls("push_bits", <<Held(b)>>, push_bits(word, b), {word.count + b.count <= WordSize})

(* Mutant: what does not fit is taken from the front of what is pushed. *)
overflow_front(w, b) == WordBits(b.value, w.count + b.count - WordSize)

(* What does not fit into the word. *)
overflow(w, b) ==
  IF w.count + b.count <= WordSize THEN EmptyWordBits
  ELSE WordBits(Down(b.value, WordSize - w.count), w.count + b.count - WordSize)

PushOverflowing ==
  \E b \in Operands :
    Calls("push_overflowing", <<Held(b)>>,
          WordBits(Merged(word, b.value), least(word.count + b.count, WordSize)),
          {Held(overflow(word, b))})

(* Taking a whole full word shifts by WordSize: a release build leaves the *)
(* value where it is.                                                      *)
PopFront ==
  \E n \in Numbers :
    IF n > word.count THEN Calls("pop_front", <<n>>, EmptyWordBits, {Held(word)})
    ELSE IF n = WordSize /\ DebugBuild THEN Panics("pop_front", <<n>>)
    ELSE Calls("pop_front", <<n>>,
               WordBits(Down(word.value, n % WordSize), word.count - n),
               {Held(WordBits(word.value, n))})

NextBit ==
  IF word.count = 0 THEN Calls("next", <<>>, word, None)
  ELSE Calls("next", <<>>, WordBits(Down(word.value, 1), word.count - 1),
             Some(Named(0 \in word.value)))

NextBack ==
  LET last == word.count - 1
  IN  IF word.count = 0 THEN Calls("next_back", <<>>, word, None)
      ELSE Calls("next_back", <<>>, WordBits(word.value \cap (0 .. (last - 1)), last),
                 Some(Named(last \in word.value)))

(* InlineBitList::new_masked cuts off what lies beyond the count. *)
TryInline ==
  Calls("try_inline", <<>>, word,
        IF word.count <= DATA_BITS THEN Some(Str(word.count, raw(word))) ELSE None)

Next ==
  \/ New \/ Give \/ Truncate \/ Push \/ PushBits \/ PushOverflowing
  \/ PopFront \/ NextBit \/ NextBack \/ TryInline

Spec == Init /\ [][Next]_vars

-----------------------------------------------------------------------------
(* Properties. *)

(* Whatever lies beyond the count, every call does to the bits held what   *)
(* WordBitsSpec says: garbage never gets into the word, and what           *)
(* push_overflowing returns follows what it kept (iter.rs:988).            *)
Abstract == INSTANCE WordBitsSpec
              WITH bits <- Held(word),
                   InlineBits <- DATA_BITS,
                   Strings <- {Held(b) : b \in Operands \cup {WordBits(v, WordSize) : v \in Values}}

WordPromise == Abstract!Spec

(* Two words are equal, and hash alike, exactly when they hold the same    *)
(* bits, whatever lies beyond the count (iter.rs:1072-1083), and the first *)
(* bit that is looked for is found inside the word or not at all           *)
(* (iter.rs:953).                                                          *)
EqIgnoresGarbage ==
  /\ \A b \in Operands :
       /\ same_word_bits(word, b) <=> Held(word) = Held(b)
       /\ Held(word) = Held(b) => word_bits_hash(word) = word_bits_hash(b)
  /\ \A v \in BOOLEAN :
       first_bit_value(word, v) =
         LET S == {i \in 0 .. (word.count - 1) : (i \in raw(word)) = v}
         IN  {i \in S : \A j \in S : i <= j}
=============================================================================
