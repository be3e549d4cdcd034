--------------------------- MODULE MCIterClients ---------------------------
(* Lists in two words of eight bits; counts of 1, 2 and 3 bits, so that a  *)
(* run of all 16 bits is too long for the third range.                     *)
EXTENDS IterClients

MCMemories ==
  LET all == 0 .. 15
      runs == {i .. j : i \in {0, 2, 4, 5, 8}, j \in {1, 3, 4, 6, 7, 8, 11, 12, 15}}
  IN  runs \cup {all \ r : r \in runs} \cup
      {{i \in all : i % 3 = 1}, {0, 2, 3, 7, 8, 14, 15}}

MCCounts == {0, 1, 3, 8, 17}

MCSizes == {0}

MCAligns == {2}

MCBounds == {Bound("unbounded", 0)}

MCSlices == {NoBits}

MCClients == {"indexes", "compressor", "word_bits", "raw_words"}

(* What a client does next does not depend on its last call. *)
View == <<mem, start, stop, clientVars>>
=============================================================================
