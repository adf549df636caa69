--------------------------- MODULE AbstractIndex ---------------------------
(***************************************************************************)
(* What building an index and proving with it promise to the caller,      *)
(* without any domain layout (spec sections 1, 4.3 and 7).  The caller   *)
(* adds constraints, each a set of (coefficient, variable) terms, to the  *)
(* matrices; indexing either accepts a valid circuit and keeps exactly    *)
(* its constraints, or fails on an invalid one; proving assigns every     *)
(* variable its value.  Nothing else can happen.                          *)
(*                                                                         *)
(* The value of variable i is i, as in SnarkyIndex, so the assignment a   *)
(* proof uses can be checked exactly.                                      *)
(***************************************************************************)
EXTENDS Naturals, Sequences

CONSTANTS
  MatrixNames   \* the matrices, in order; the first one counts constraints

VARIABLES
  vars,           \* number of variables, the constant one included
  public_inputs,  \* constant + public inputs
  constraints,    \* matrix -> sequence of [terms, ok] the caller added
  status,         \* "collect", "indexed" or "aborted"
  matrix,         \* matrix -> the sequence of term sets the index holds
  assignment      \* variable -> value used by the last proof

avars == <<vars, public_inputs, constraints, status, matrix, assignment>>

Names == {MatrixNames[k] : k \in DOMAIN MatrixNames}

NoMatrix == [m \in Names |-> <<>>]

RECURSIVE NextPow2From(_, _)
NextPow2From(n, p) == IF p >= n THEN p ELSE NextPow2From(n, 2 * p)

(* The domain sizes: the smallest power of two at least n (spec 4.1).    *)
NextPow2(n) == NextPow2From(n, 1)

NumConstraints == Len(constraints[MatrixNames[1]])

(* Spec 7: a configuration error, a circuit that does not fit its domain *)
(* (the square matrix has a column per variable; the auxiliary inputs    *)
(* fill the slots the public inputs leave free), or a malformed row.     *)
Valid ==
  /\ public_inputs > 0
  /\ NumConstraints >= vars
  /\ vars - public_inputs <= NextPow2(NumConstraints) - NextPow2(public_inputs)
  /\ \A m \in Names : \A r \in DOMAIN constraints[m] : constraints[m][r].ok

-----------------------------------------------------------------------------
Init ==
  /\ public_inputs \in Nat
  /\ vars \in Nat
  /\ public_inputs <= vars
  /\ constraints = [m \in Names |-> <<>>]
  /\ status = "collect"
  /\ matrix = NoMatrix
  /\ assignment = <<>>

(* One constraint row is added to one matrix; the others are unchanged.   *)
AddConstraint ==
  /\ status = "collect"
  /\ \E m \in Names :
       /\ Len(constraints'[m]) = Len(constraints[m]) + 1
       /\ SubSeq(constraints'[m], 1, Len(constraints[m])) = constraints[m]
       /\ \A o \in Names \ {m} : constraints'[o] = constraints[o]
  /\ UNCHANGED <<vars, public_inputs, status, matrix, assignment>>

(* A valid circuit is indexed with exactly the caller's constraints.      *)
BuildIndex ==
  /\ status = "collect"
  /\ Valid
  /\ status' = "indexed"
  /\ matrix' = [m \in Names |-> [r \in DOMAIN constraints[m] |-> constraints[m][r].terms]]
  /\ UNCHANGED <<vars, public_inputs, constraints, assignment>>

(* An invalid one is rejected, fatally.                                   *)
RejectIndex ==
  /\ status = "collect"
  /\ ~Valid
  /\ status' = "aborted"
  /\ UNCHANGED <<vars, public_inputs, constraints, matrix, assignment>>

(* A proof evaluates the constraints at every variable's value.           *)
Prove ==
  /\ status = "indexed"
  /\ assignment' = [i \in 0..(vars - 1) |-> i]
  /\ UNCHANGED <<vars, public_inputs, constraints, status, matrix>>

Next == AddConstraint \/ BuildIndex \/ RejectIndex \/ Prove

Spec == Init /\ [][Next]_avars

=============================================================================
