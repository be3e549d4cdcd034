----------------------------- MODULE MCBitsIter -----------------------------
(* Windows on three words of four bits. *)
EXTENDS BitsIter

(* Memories with one run of ones or of zeros, and some others.             *)
MCMemories ==
  LET all == 0 .. 11
      runs == {i .. j : i \in {0, 1, 3, 4, 6}, j \in all}
  IN  runs \cup {all \ r : r \in runs} \cup
      {{i \in all : i % 3 = k} : k \in 0 .. 2} \cup {{1, 2, 4, 7, 8, 9}, {0, 2, 3, 5, 6, 7, 10}}

MCCounts == {0, 1, 3, 4, 5, 9, 13}

MCSizes == {0, 1, 2, 5}

MCAligns == {2, 4}

MCBounds ==
  {Bound("unbounded", 0), Bound("included", 3), Bound("included", UsizeMax),
   Bound("excluded", 8), Bound("excluded", 12), Bound("excluded", 13), Bound("excluded", UsizeMax)}

MCSlices == {Str(8, 0 .. 7), Str(12, {i \in 0 .. 11 : i % 2 = 1})}

(* What a call does depends on the memory and the window alone. *)
View == <<mem, start, stop>>
=============================================================================
