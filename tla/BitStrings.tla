----------------------------- MODULE BitStrings -----------------------------
(***************************************************************************)
(* Finite bit strings, the values a BitList stands for: a length and the   *)
(* set of the indexes, 0 first, that hold a 1.                             *)
(***************************************************************************)
EXTENDS Integers

Str(n, s) == [len |-> n, ones |-> s]

NoBits == Str(0, {})

IsBitString(a) ==
  /\ a = Str(a.len, a.ones)
  /\ a.len \in Nat
  /\ a.ones \subseteq 0 .. (a.len - 1)

Constant(n, v) == Str(n, IF v THEN 0 .. (n - 1) ELSE {})

Concat(a, b) == Str(a.len + b.len, a.ones \cup {a.len + i : i \in b.ones})

Take(a, n) == Str(n, a.ones \cap (0 .. (n - 1)))

Drop(a, n) == Str(a.len - n, {i - n : i \in {j \in a.ones : j >= n}})

Overwrite(a, at, b) ==
  Str(a.len, (a.ones \ (at .. (at + b.len - 1))) \cup {at + i : i \in b.ones})

Replicate(a, k) == Str(a.len * k, {a.len * j + i : j \in 0 .. (k - 1), i \in a.ones})

Mirror(a) == Str(a.len, {a.len - 1 - i : i \in a.ones})

(* The bit at index i, as the result of a call; "none" is Option::None. *)
BitAt(a, i) == IF i >= a.len THEN "none" ELSE IF i \in a.ones THEN "one" ELSE "zero"

LastBit(a) == IF a.len = 0 THEN "none" ELSE BitAt(a, a.len - 1)
=============================================================================
