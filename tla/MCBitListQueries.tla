-------------------------- MODULE MCBitListQueries --------------------------
(* An instance of BitListQueries, and so of BitList, over 4-bit words.     *)
EXTENDS BitListQueries

MCOperands4 ==
  {NoBits, Str(1, {}), Str(1, {0}), Str(3, {1}), Str(4, {0, 2}), Str(5, {4}), Str(7, {0, 5}), Str(8, {3, 7})}

MCPositions4 == {0, 1, 3, 4, 5, 8, UsizeMax}

MCReserves == {0, 1, 5, UsizeMax}

MCResidues == {{}, 0 .. 63, {i \in 0 .. 63 : i % 3 = 0}}

MCRepeats == {0, 2, 3}

(* The last call's result does not matter to a query. *)
View == <<rep, out.end = "abort">>
=============================================================================
