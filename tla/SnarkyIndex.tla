---------------------------- MODULE SnarkyIndex ----------------------------
(***************************************************************************)
(* The caller-visible life of one constraint system in                    *)
(* src/snarky-bn382/src/lib.rs: the caller fills the constraint matrices  *)
(* row by row (camlsnark_bn382_fp_constraint_matrix_append_row), builds   *)
(* the index (camlsnark_bn382_fp_index_create, which re-indexes every     *)
(* matrix with rows_to_csmat) and proves with it                          *)
(* (camlsnark_bn382_fp_proof_create, which lays the witness out with      *)
(* prepare_witness).  Each FFI call is one atomic action; a Rust panic    *)
(* aborts the process, after which nothing happens.                       *)
(*                                                                         *)
(* The caller's circuit has vars flat variables: 0 is the constant one,   *)
(* 1 .. public_inputs - 1 the public inputs and public_inputs .. vars - 1 *)
(* the auxiliary inputs.                                                  *)
(***************************************************************************)
EXTENDS IndexMapper, FiniteSets

CONSTANTS
  MatrixNames,    \* the matrices index_create takes, in order, e.g. <<"a", "b", "c">>
  MaxVars,        \* largest vars the caller passes
  MaxPublic,      \* largest public_inputs the caller passes
  MaxRows,        \* rows a caller appends to one matrix
  MaxRowLen,      \* entries in one row
  LengthsAgree,   \* TRUE: every row has as many coefficients as indices
  RowEntries(_)   \* the flat indices a row of a circuit of n variables mentions
                  \* (n itself is one past the last variable)

ASSUME MatrixNames \in Seq(STRING) /\ Len(MatrixNames) > 0
ASSUME {MaxVars, MaxPublic, MaxRows, MaxRowLen} \subseteq Nat
ASSUME LengthsAgree \in BOOLEAN
ASSUME \A n \in 0..MaxVars : RowEntries(n) \subseteq 0..n

VARIABLES
  vars,            \* the circuit's variable count, argument of index_create
  public_inputs,   \* constant slot + public inputs, argument of index_create
  rows,            \* the caller's Vec<(Vec<usize>, Vec<Fp>)> per matrix
  phase,           \* "collect", "indexed" or "aborted"
  index,           \* the Index built by index_create
  witness,         \* the vector prepare_witness built for the last proof
  verifier         \* domains of the last verifier index the caller built

vvars == <<vars, public_inputs, rows, phase, index, witness, verifier>>

Names == {MatrixNames[k] : k \in DOMAIN MatrixNames}

NoIndex == [h_to_x_ratio |-> 0, h |-> 0, x |-> 0, mats |-> [m \in Names |-> <<>>]]

NoWitness == [w \in {} |-> Zero]

NoVerifier == [h |-> 0, x |-> 0]

-----------------------------------------------------------------------------
(* Inputs the caller passes.  The coefficients of a row are abstracted to  *)
(* their positions 1..n in the row.                                        *)
CoefficientCounts(idx) == IF LengthsAgree THEN {Len(idx)} ELSE 0..MaxRowLen

RowChoices ==
  UNION { { [indices |-> idx, coefficients |-> [j \in 1..n |-> j]] :
              n \in CoefficientCounts(idx) } :
          idx \in SeqOf(RowEntries(vars), MaxRowLen) }

(* The values the caller passes to proof_create: the value of flat        *)
(* variable i is i.                                                        *)
PrimaryInput == [i \in 1..(public_inputs - 1) |-> i]
AuxiliaryInput == [i \in 1..(vars - public_inputs) |-> public_inputs + i - 1]

NumConstraints == Len(rows[MatrixNames[1]])

-----------------------------------------------------------------------------
Init ==
  /\ public_inputs \in 0..MaxPublic
  /\ vars \in public_inputs..MaxVars
  /\ rows = [m \in Names |-> <<>>]
  /\ phase = "collect"
  /\ index = NoIndex
  /\ witness = NoWitness
  /\ verifier = NoVerifier

(* camlsnark_bn382_fp_constraint_matrix_append_row (lib.rs:544-553).      *)
AppendRow(m, row) ==
  /\ phase = "collect"
  /\ Len(rows[m]) < MaxRows
  /\ rows' = [rows EXCEPT ![m] = Append(@, row)]
  /\ UNCHANGED <<vars, public_inputs, phase, index, witness, verifier>>

(* camlsnark_bn382_fp_index_create (lib.rs:1301-1336): the two asserts,   *)
(* the ratio of the domain sizes, rows_to_csmat for each matrix in order. *)
(* Index::create and its evaluation domains are outside this repository;  *)
(* their H is compute_size_of_domain(num_constraints) and their X is      *)
(* compute_size_of_domain(public_inputs), the sizes index_create divides. *)
(* Seeded fault: the assert num_constraints >= vars left out.             *)
IndexOutcomeNoVarsCheck ==
  LET h == ComputeSizeOfDomain(NumConstraints)
      x == ComputeSizeOfDomain(public_inputs)
      ratio == h \div x
      mats == [m \in Names |-> RowsToCsmat(public_inputs, ratio, rows[m])]
  IN IF public_inputs = 0 \/ \E m \in Names : mats[m] = Abort
     THEN Abort
     ELSE [h_to_x_ratio |-> ratio, h |-> h, x |-> x, mats |-> mats]

IndexOutcomeMatrixAForAll ==
  LET h == ComputeSizeOfDomain(NumConstraints)
      x == ComputeSizeOfDomain(public_inputs)
      ratio == h \div x
      mats == [m \in Names |-> RowsToCsmat(public_inputs, ratio, rows[MatrixNames[1]])]
  IN IF public_inputs = 0 \/ NumConstraints < vars \/ \E m \in Names : mats[m] = Abort
     THEN Abort
     ELSE [h_to_x_ratio |-> ratio, h |-> h, x |-> x, mats |-> mats]

IndexOutcome ==
  LET h == ComputeSizeOfDomain(NumConstraints)
      x == ComputeSizeOfDomain(public_inputs)
      ratio == h \div x
      mats == [m \in Names |-> RowsToCsmat(public_inputs, ratio, rows[m])]
  IN IF public_inputs = 0 \/ NumConstraints < vars \/ \E m \in Names : mats[m] = Abort
     THEN Abort
     ELSE [h_to_x_ratio |-> ratio, h |-> h, x |-> x, mats |-> mats]

IndexCreate ==
  /\ phase = "collect"
  /\ IndexOutcome # Abort
  /\ index' = IndexOutcome
  /\ phase' = "indexed"
  /\ UNCHANGED <<vars, public_inputs, rows, witness, verifier>>

IndexCreatePanics ==
  /\ phase = "collect"
  /\ IndexOutcome = Abort
  /\ phase' = "aborted"
  /\ UNCHANGED <<vars, public_inputs, rows, index, witness, verifier>>

(* camlsnark_bn382_fp_proof_create (lib.rs:615-630): prepare_witness on   *)
(* the index's domains; ProverProof::create is outside this repository.   *)
ProofCreate ==
  /\ phase = "indexed"
  /\ LET w == PrepareWitness(index.h, index.x, PrimaryInput, AuxiliaryInput)
     IN \/ /\ w # Abort
           /\ witness' = w
           /\ UNCHANGED phase
        \/ /\ w = Abort
           /\ phase' = "aborted"
           /\ UNCHANGED witness
  /\ UNCHANGED <<vars, public_inputs, rows, index, verifier>>

(* The index getters the caller reads to rebuild a verifier index:       *)
(* fp_index_num_variables returns the row count of compiled matrix a,     *)
(* i.e. the padded constraint count, not vars (lib.rs:1446-1452).          *)
NumVariablesOfVars == vars

NumVariables == Len(index.mats[MatrixNames[1]])

(* EvaluationDomains::create(variables, public_inputs, nonzero_entries),  *)
(* external: H and X are the domains of the first two counts (K, sized by *)
(* nonzero_entries, is left out: Index::create sizes it outside src/).     *)
VerifierDomains(variables, pub) ==
  [h |-> ComputeSizeOfDomain(variables), x |-> ComputeSizeOfDomain(pub)]

(* camlsnark_bn382_fp_verifier_index_create (lib.rs:1045-1050): the      *)
(* index's own verifier_index(), with the index's domains.                *)
VerifierIndexCreate ==
  /\ phase = "indexed"
  /\ verifier' = [h |-> index.h, x |-> index.x]
  /\ UNCHANGED <<vars, public_inputs, rows, phase, index, witness>>

(* camlsnark_bn382_fp_verifier_index_make (lib.rs:1061-1098) called with  *)
(* fp_index_public_inputs and fp_index_num_variables of the index, as a   *)
(* caller that ships the verifier index apart from the prover does.       *)
VerifierIndexMake ==
  /\ phase = "indexed"
  /\ verifier' = VerifierDomains(NumVariables, public_inputs)
  /\ UNCHANGED <<vars, public_inputs, rows, phase, index, witness>>

Next ==
  \/ \E m \in Names, row \in RowChoices : AppendRow(m, row)
  \/ VerifierIndexCreate
  \/ VerifierIndexMake
  \/ IndexCreate
  \/ IndexCreatePanics
  \/ ProofCreate

Spec == Init /\ [][Next]_vvars

-----------------------------------------------------------------------------
(* The caller's obligation of spec 7: the matrices of one constraint     *)
(* system have the same number of rows.                                    *)
SizesAgree == \A m1, m2 \in Names : Len(rows[m1]) = Len(rows[m2])

TypeOK ==
  /\ public_inputs \in 0..MaxPublic
  /\ vars \in public_inputs..MaxVars
  /\ rows \in [Names -> Seq([indices : Seq(0..MaxVars), coefficients : Seq(Nat)])]
  /\ phase \in {"collect", "indexed", "aborted"}
  /\ phase = "indexed" /\ SizesAgree =>
       \A m \in Names :
         index.mats[m] \in [1..index.h -> Seq([col : 0..(index.h - 1), coef : Nat])]
  /\ witness \in [DOMAIN witness -> {Zero} \cup 0..(vars - 1)]


-----------------------------------------------------------------------------
(* What the spec (sections 4.2, 4.3 and 7) calls an error of the caller's *)
(* input.  The auxiliary inputs fit when there are at most H - X of them:  *)
(* every block of ratio slots keeps one slot for the constant or a public *)
(* input.                                                                  *)
DomainH == ComputeSizeOfDomain(NumConstraints)
DomainX == ComputeSizeOfDomain(public_inputs)

ShapeInvalid ==
  \/ public_inputs = 0
  \/ NumConstraints < vars
  \/ vars - public_inputs > DomainH - DomainX

RowMalformed(row) ==
  \/ Len(row.indices) # Len(row.coefficients)
  \/ \E j, k \in DOMAIN row.indices : j # k /\ row.indices[j] = row.indices[k]

InvalidInput ==
  \/ ShapeInvalid
  \/ \E m \in Names : \E r \in DOMAIN rows[m] : RowMalformed(rows[m][r])

(* The layout of spec section 3, independently of the div/mod formulas:   *)
(* flat index i < public_inputs sits at the start of block i; auxiliary   *)
(* index public_inputs + k sits at the k-th (0-based) slot that is not a  *)
(* block start, counting upwards from position 0.                          *)
RECURSIVE AuxSlotFrom(_, _, _)
AuxSlotFrom(ratio, k, w) ==
  IF w % ratio = 0 THEN AuxSlotFrom(ratio, k, w + 1)
  ELSE IF k = 0 THEN w
  ELSE AuxSlotFrom(ratio, k - 1, w + 1)

LayoutPosition(pub, ratio, i) ==
  IF i < pub THEN i * ratio ELSE AuxSlotFrom(ratio, i - pub, 0)

-----------------------------------------------------------------------------
(* index_to_witness_position and witness_position_to_index agree with the *)
(* block layout of the spec for the ratio index_create derives from the   *)
(* rows appended so far, for every flat index up to 2 * H (past the       *)
(* variables too), and the spec's round trip                               *)
(* d2f(f2d(d2f(w))) = d2f(w) holds for every position of H.               *)
MapperMatchesLayout ==
  LET ratio == DomainH \div DomainX
  IN public_inputs > 0 /\ ratio >= 2 =>
       /\ \A i \in 0..(2 * DomainH) :
            IndexToWitnessPosition(public_inputs, ratio, i)
              = LayoutPosition(public_inputs, ratio, i)
       /\ \A w \in 0..(DomainH - 1) :
            LET f == WitnessPositionToIndex(public_inputs, ratio, w)
                p == IndexToWitnessPosition(public_inputs, ratio, f)
            IN p # Abort /\ WitnessPositionToIndex(public_inputs, ratio, p) = f

(* index_create and proof_create panic exactly on the inputs the spec     *)
(* calls errors: a panic of either call means the input was invalid, and  *)
(* a witness built by proof_create means it was valid (in particular a    *)
(* duplicate column is never merged silently).  Matrices of different    *)
(* lengths are the caller's error (spec 7), which the code neither        *)
(* rejects nor survives reliably: rows_to_csmat sizes each matrix by its  *)
(* own row count, so a short b or c may panic in new_view.                *)
AbortExactlyOnInvalidInput ==
  /\ phase = "aborted" => InvalidInput \/ ~SizesAgree
  /\ witness # NoWitness => ~InvalidInput

(* prepare_witness puts the value of every flat variable i < vars at      *)
(* index_to_witness_position(i), the slot the matrices use for it, and   *)
(* leaves every other slot F::zero() (spec 4.4, "witness layout           *)
(* agreement" and "constant slot").                                       *)
WitnessLayout ==
  witness # NoWitness =>
    /\ \A i \in 0..(vars - 1) :
         LET p == IndexToWitnessPosition(public_inputs, index.h_to_x_ratio, i)
         IN p \in DOMAIN witness /\ witness[p] = i
    /\ \A w \in DOMAIN witness :
         witness[w] # Zero =>
           IndexToWitnessPosition(public_inputs, index.h_to_x_ratio, witness[w]) = w

(* The re-indexed matrices encode the caller's constraints: against the   *)
(* witness proof_create lays out, CSR row r pairs exactly the caller's    *)
(* coefficients of row r with the values of the caller's variables, the   *)
(* padding rows are empty, and the matrices are as wide as the witness.   *)
(* This is what rows_to_csmat and prepare_witness must agree on (spec 1). *)
(* index_create takes num_constraints from a alone (lib.rs:1316) and      *)
(* never compares the matrices' lengths; spec 7 leaves that to the        *)
(* caller, so the claim is made for callers whose matrices agree in size. *)
MatrixEncodesRows ==
  witness # NoWitness /\ SizesAgree =>
    \A m \in Names :
      /\ Len(index.mats[m]) = Cardinality(DOMAIN witness)
      /\ \A r \in 1..Len(index.mats[m]) :
           LET got == {<<e.coef, witness[e.col]>> : e \in ToSet(index.mats[m][r])}
           IN IF r > Len(rows[m]) THEN got = {}
              ELSE LET row == rows[m][r]
                   IN /\ Len(row.indices) = Len(row.coefficients)
                      /\ got = {<<row.coefficients[j], row.indices[j]>> :
                                  j \in DOMAIN row.indices}

(* A verifier index rebuilt from the index's getters has the domains the  *)
(* prover's index was built for (spec 6: the domain sizes the core uses    *)
(* and the ones the external domain capability computes must agree).       *)
(* It takes index_create (ratio from a's length), num_variables (a's       *)
(* padded row count, not vars) and EvaluationDomains::create to agree.    *)
VerifierDomainsMatch ==
  verifier # NoVerifier => verifier = [h |-> index.h, x |-> index.x]

-----------------------------------------------------------------------------
(* Refinement of AbstractIndex.  A caller row is the set of terms zip     *)
(* pairs up, and is well formed when the spec says so (spec 4.3: as many *)
(* coefficients as indices, no index twice, every index a variable).  The *)
(* index is read back through witness_position_to_index, the witness      *)
(* through index_to_witness_position.                                      *)
AbsRow(row) ==
  [terms |-> {<<row.coefficients[j], row.indices[j]>> :
                j \in 1..Min({Len(row.indices), Len(row.coefficients)})},
   ok |-> ~RowMalformed(row) /\ \A j \in DOMAIN row.indices : row.indices[j] < vars]

DecodedMatrix ==
  IF phase = "indexed"
  THEN [m \in Names |->
          [r \in DOMAIN rows[m] |->
             {<<e.coef, WitnessPositionToIndex(public_inputs, index.h_to_x_ratio, e.col)>> :
                e \in ToSet(index.mats[m][r])}]]
  ELSE [m \in Names |-> <<>>]

DecodedAssignment ==
  IF witness = NoWitness THEN <<>>
  ELSE [i \in 0..(vars - 1) |->
          LET p == IndexToWitnessPosition(public_inputs, index.h_to_x_ratio, i)
          IN IF p \in DOMAIN witness THEN witness[p] ELSE Zero]

Abs == INSTANCE AbstractIndex
         WITH constraints <- [m \in Names |-> [r \in DOMAIN rows[m] |-> AbsRow(rows[m][r])]],
              status <- phase,
              matrix <- DecodedMatrix,
              assignment <- DecodedAssignment

(* SnarkyIndex implements AbstractIndex: every append_row, index_create   *)
(* and proof_create step is a step the spec allows.  index_create accepts *)
(* exactly the valid circuits and keeps exactly the caller's terms, a    *)
(* panic is the rejection of an invalid circuit, and every proof assigns *)
(* each variable its own value.                                           *)
ImplementsAbstractIndex == Abs!Spec

=============================================================================
