----------------------------- MODULE MCWordBits -----------------------------
(* Words of 8 bits. *)
EXTENDS WordBits

MCValues == {{}, Bit, {0, 5}, {2, 6, 7}, {1, 3, 4}}

MCNumbers == {0, 1, 3, 4, 7, 8, 9}

(* What a call does depends on the word alone. *)
View == word
=============================================================================
