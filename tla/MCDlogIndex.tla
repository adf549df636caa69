---------------------------- MODULE MCDlogIndex ----------------------------
(* Model-checking instance of DlogIndex. *)
EXTENDS DlogIndex, MCSnarkyIndex

=============================================================================
