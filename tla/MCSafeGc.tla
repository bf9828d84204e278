------------------------------ MODULE MCSafeGc ------------------------------
(* SafeGc for TLC: arrays that are full after one or two elements.         *)
EXTENDS SafeGc, TLC
BlockSymmetry == Permutations(Block)
SmallInitial == [a \in Arrays |-> IF a = "entries" THEN 2 ELSE 1]
SmallGrowth == [a \in Arrays |-> 1]
=============================================================================
