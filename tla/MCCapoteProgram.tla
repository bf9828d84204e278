--------------------------- MODULE MCCapoteProgram ---------------------------
(* CapoteProgram for TLC: a few interchangeable objects, and the families  *)
(* of programs the escape analysis is checked on.                          *)
EXTENDS Escape, TLC
ObjSymmetry == Permutations(Obj)
Programs == {{"params", "loads"}, {"globals", "overwrite"}, {"returns"},
             {"globals", "assigns"}, {"globals", "reuses"}}
VarBound == [F \in Programs |-> IF "assigns" \in F THEN 1 ELSE 3]
=============================================================================
