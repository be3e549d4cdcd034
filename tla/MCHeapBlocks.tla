---------------------------- MODULE MCHeapBlocks ----------------------------
(* An instance of HeapBlocks over words of 4 bits: blocks of up to 3 words *)
(* of data, and three of them at a time.                                   *)
EXTENDS HeapBlocks, TLC

CONSTANTS a1, a2, a3

MCAddresses == {a1, a2, a3}

Symmetry == Permutations(MCAddresses)

MCPositions == {0, 1, 3, 4, 5, 9}

MCReserves == {0, 5, UsizeMax}

MCRepeats == {0, 1, 2, 3}
(* How the last call ended does not matter to what comes next, unless it   *)
(* ended the process.                                                      *)
View == <<debug, blocks, list, temp, vec, call, out.end = "abort">>
=============================================================================
