-------------------------- MODULE MCBitListNumbers --------------------------
(* An instance of BitListReads over words of 8 bits and bytes of 4, with *)
(* lists of one and two words.                                             *)
EXTENDS BitListReads

MCOperands ==
  {NoBits, Str(1, {0}), Str(4, {0, 1}), Str(4, {3}), Str(8, {0, 1, 2, 7}), Str(8, {0}),
   Str(9, {0}), Str(9, 0 .. 8), Str(9, {2, 6, 7})}

MCScalars == {0, 3, 85, 255}

MCLengths == {0, 3, 4, 5, 8, 9, 10}

MCTexts == {<<>>, <<1>>, <<1, 0, 1>>, <<9, 15>>, <<1, 2>>, <<16, 0>>, <<1, 1, 0, 0, 1, 0, 1, 1, 1>>}

MCResidues == {{}, 0 .. 15}

View == <<rep, out.end = "abort">>
=============================================================================
