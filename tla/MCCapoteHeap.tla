---------------------------- MODULE MCCapoteHeap ----------------------------
(* CapoteHeap for TLC: a few interchangeable objects.                      *)
EXTENDS CapoteHeap, TLC
ObjSymmetry == Permutations(Obj)
=============================================================================
