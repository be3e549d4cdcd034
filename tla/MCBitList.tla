----------------------------- MODULE MCBitList -----------------------------
(* Instances of BitList: words of 4 bits (one bit of inline data) and of 8 *)
(* (four bits of inline data).                                             *)
EXTENDS BitList

MCOperands4 == {NoBits, Str(1, {}), Str(1, {0}), Str(3, {1}), Str(4, {0, 2}), Str(6, {1, 5})}

MCOperands8 == {NoBits, Str(1, {0}), Str(3, {1}), Str(6, {0, 5}), Str(8, {0, 7})}

MCPositions4 == {0, 1, 2, 4, 5, 7, UsizeMax}

MCPositions8 == {0, 1, 4, 5, 8, 9, UsizeMax}

MCReserves == {0, 1, 5, UsizeMax}

MCResidues == {{}, 0 .. 63, {i \in 0 .. 63 : i % 3 = 0}}

MCRepeats == {0, 1, 2, 3}

(* The calls a list can go on with depend on its representation and on     *)
(* whether the process still runs, not on how its last call ended: states  *)
(* that differ in nothing else are explored once.                          *)
View == <<rep, out.end = "abort">>
=============================================================================
