------------------------------ MODULE MCFfiHeap ------------------------------
(* Four addresses, two element values, vectors of up to two elements.     *)
(* Addresses and values are only compared for equality, so permuting      *)
(* either is a symmetry.                                                   *)
EXTENDS FfiHeap, TLC

CONSTANTS p1, p2, p3, p4, v1, v2

MCPtrs == {p1, p2, p3, p4}

MCVals == {v1, v2}

MCSymmetry == Permutations(MCPtrs) \cup Permutations(MCVals)
=============================================================================
