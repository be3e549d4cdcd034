----------------------------- MODULE MCBitCopy -----------------------------
(* Calls on four words of four bits, a byte being two bits. *)
EXTENDS BitCopy

MCContents ==
  LET all == 0 .. 15
  IN  {{}, all, {i \in all : i % 3 = 0}, {1, 2, 4, 7, 8, 9, 13}, {0, 2, 3, 5, 6, 10, 11, 14}}
=============================================================================
