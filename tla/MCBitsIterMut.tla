--------------------------- MODULE MCBitsIterMut ---------------------------
(* An instance of BitsIterMut over words of 4 bits and bytes of 2: an      *)
(* inline list and a heap list that ends inside its second word.           *)
EXTENDS BitsIterMut, TLC

CONSTANTS t1, t2

MCThreads == {t1, t2}

MCLists == {[kind |-> "inline", bits |-> Str(1, {0})], [kind |-> "heap", bits |-> Str(5, {1, 4})]}

MCBounds == {Bound("unbounded", 0), Bound("included", 1), Bound("excluded", 5)}

MCCounts == {1, 2}

MCValues == {Str(3, {0, 2}), Str(2, {1})}

Symmetry == Permutations(Threads)
=============================================================================
