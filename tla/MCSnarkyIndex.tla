--------------------------- MODULE MCSnarkyIndex ---------------------------
(* Model-checking instances of SnarkyIndex. *)
EXTENDS SnarkyIndex

MCMatrixNames == <<"a">>

\* The three matrices index_create takes.
MCMatrixNamesABC == <<"a", "b", "c">>

\* A row may mention any variable of the circuit.
MCAnyEntry(n) == 0..(n - 1)

\* A row mentions at most the circuit's last variable, the one whose slot
\* lies furthest into the witness domain.
MCLastEntry(n) == IF n = 0 THEN {} ELSE {n - 1}

\* A row mentions flat index n, one past the circuit's last variable.
MCBeyondEntry(n) == {n}

=============================================================================
