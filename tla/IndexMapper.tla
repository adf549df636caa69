---------------------------- MODULE IndexMapper ----------------------------
(***************************************************************************)
(* The pure helpers of src/snarky-bn382/src/lib.rs that lay a rank-1      *)
(* constraint system out in the witness evaluation domain H:              *)
(*   ceil_pow2, witness_position_to_index, index_to_witness_position,     *)
(*   rows_to_csmat and prepare_witness.                                   *)
(* Every Rust panic (failed assert, division by zero, an Err of           *)
(* CsVecView::new_view, an out-of-bounds index) is the value Abort.       *)
(* Field elements are abstracted to identities: a coefficient is the      *)
(* position it had in the caller's row, a witness value is the flat index *)
(* of the variable it belongs to (0 being the constant one), and Zero is  *)
(* F::zero().                                                             *)
(***************************************************************************)
EXTENDS Integers, SequencesExt, TLC

CONSTANTS
  Abort,   \* model value: the call panics
  Zero     \* model value: F::zero() in a witness slot

-----------------------------------------------------------------------------
(* ceil_pow2 (lib.rs:40-46): res starts at 1 and doubles while x > res.   *)
RECURSIVE CeilPow2Loop(_, _)
CeilPow2Loop(x, res) == IF x > res THEN CeilPow2Loop(x, res * 2) ELSE res

CeilPow2(x) == CeilPow2Loop(x, 1)

(* EvaluationDomain::compute_size_of_domain (ff_fft, not in this          *)
(* repository): the smallest power of two >= n, n.next_power_of_two(),    *)
(* which is 1 for n = 0.  Stated from its contract, independently of      *)
(* ceil_pow2, so that the two can be compared.                            *)
ComputeSizeOfDomain(n) ==
  CHOOSE s \in {2^k : k \in 0..n} : s >= n /\ \A t \in {2^k : k \in 0..n} : t >= n => s <= t

-----------------------------------------------------------------------------
(* witness_position_to_index (lib.rs:48-60).  w % 0 panics.               *)
WitnessPositionToIndex(public_inputs, h_to_x_ratio, w) ==
  IF h_to_x_ratio = 0 THEN Abort
  ELSE IF w % h_to_x_ratio = 0 THEN w \div h_to_x_ratio
  ELSE LET m == h_to_x_ratio - 1
           aux_index_mod_m == (w - 1) % h_to_x_ratio
           aux_index_over_m == ((w - 1) - aux_index_mod_m) \div h_to_x_ratio
       IN aux_index_mod_m + m * aux_index_over_m + public_inputs

(* Seeded fault: the block of an auxiliary index divided by the ratio     *)
(* instead of m = ratio - 1.                                               *)
IndexToWitnessPositionBlockByRatio(public_inputs, h_to_x_ratio, i) ==
  LET m == h_to_x_ratio - 1
      aux_index == i - public_inputs
      res == IF i < public_inputs THEN i * h_to_x_ratio
             ELSE IF m <= 0 THEN Abort
             ELSE h_to_x_ratio * (aux_index \div h_to_x_ratio) + 1 + (aux_index % m)
  IN IF res = Abort THEN Abort
     ELSE IF WitnessPositionToIndex(public_inputs, h_to_x_ratio, res) # i THEN Abort
     ELSE res

(* index_to_witness_position (lib.rs:62-85).  For an auxiliary index      *)
(* m = ratio - 1: ratio 1 divides by zero; ratio 0 underflows usize,      *)
(* which panics in a debug build and, wrapped in a release build, reaches *)
(* the assert's w % 0: both builds abort.  The assert_eq! round trip is    *)
(* part of the function.                                                   *)
IndexToWitnessPosition(public_inputs, h_to_x_ratio, i) ==
  LET m == h_to_x_ratio - 1
      aux_index == i - public_inputs
      res == IF i < public_inputs THEN i * h_to_x_ratio
             ELSE IF m <= 0 THEN Abort
             ELSE h_to_x_ratio * (aux_index \div m) + 1 + (aux_index % m)
  IN IF res = Abort THEN Abort
     ELSE IF WitnessPositionToIndex(public_inputs, h_to_x_ratio, res) # i THEN Abort
     ELSE res

-----------------------------------------------------------------------------
(* Seeded fault: the column indices are sorted on their own, leaving the *)
(* coefficients in the caller's order.                                     *)
CsRowColumnsOnly(public_inputs, h_to_x_ratio, constraints, row) ==
  LET evaluated == Min({Len(row.indices), Len(row.coefficients) + 1})
      pos == [j \in 1..evaluated |->
                IndexToWitnessPosition(public_inputs, h_to_x_ratio, row.indices[j])]
      n == Min({Len(row.indices), Len(row.coefficients)})
      cols == SortSeq([j \in 1..n |-> pos[j]], <)
  IN IF \E j \in 1..evaluated : pos[j] = Abort THEN Abort
     ELSE IF ~(IsSorted(cols, <) /\ \A j \in DOMAIN cols : cols[j] < constraints)
          THEN Abort
     ELSE [j \in 1..n |-> [col |-> cols[j], coef |-> row.coefficients[j]]]

(* One row of rows_to_csmat (lib.rs:99-118).  A row is the caller's pair  *)
(* [indices, coefficients].  indices.iter().map(..).zip(coefficients) is  *)
(* lazy: it re-indexes the first Len(coefficients) + 1 indices at most    *)
(* (Zip pulls from the index side first) and pairs Len(coefficients) at   *)
(* most.  The pairs are sorted by column and handed to new_view, which    *)
(* fails unless the columns are strictly increasing and below the         *)
(* dimension; failure panics.  An entry is [col, coef].                   *)
CsRow(public_inputs, h_to_x_ratio, constraints, row) ==
  LET evaluated == Min({Len(row.indices), Len(row.coefficients) + 1})
      pos == [j \in 1..evaluated |->
                IndexToWitnessPosition(public_inputs, h_to_x_ratio, row.indices[j])]
      shifted == [j \in 1..Min({Len(row.indices), Len(row.coefficients)}) |->
                    [col |-> pos[j], coef |-> row.coefficients[j]]]
      sorted == SortSeq(shifted, LAMBDA p, q : p.col < q.col)
      cols == [j \in DOMAIN sorted |-> sorted[j].col]
  IN IF \E j \in 1..evaluated : pos[j] = Abort THEN Abort
     ELSE IF ~(IsSorted(cols, <) /\ \A j \in DOMAIN cols : cols[j] < constraints)
          THEN Abort
     ELSE sorted

(* Seeded fault: one padding row too many.                                *)
RowsToCsmatPadOnceMore(public_inputs, h_to_x_ratio, v) ==
  LET constraints == CeilPow2(Len(v))
      built == [r \in 1..Len(v) |-> CsRow(public_inputs, h_to_x_ratio, constraints, v[r])]
  IN IF \E r \in 1..Len(v) : built[r] = Abort THEN Abort
     ELSE built \o [r \in 1..(constraints - Len(v) + 1) |-> <<>>]

(* Seeded fault: the padding rows appended before the caller's rows.      *)
RowsToCsmatPadFirst(public_inputs, h_to_x_ratio, v) ==
  LET constraints == CeilPow2(Len(v))
      built == [r \in 1..Len(v) |-> CsRow(public_inputs, h_to_x_ratio, constraints, v[r])]
  IN IF \E r \in 1..Len(v) : built[r] = Abort THEN Abort
     ELSE [r \in 1..(constraints - Len(v)) |-> <<>>] \o built

(* rows_to_csmat (lib.rs:87-127): the rows in order, then                  *)
(* constraints - v.len() empty rows; constraints = ceil_pow2(v.len()) is   *)
(* both the row count and the column count.                               *)
RowsToCsmat(public_inputs, h_to_x_ratio, v) ==
  LET constraints == CeilPow2(Len(v))
      built == [r \in 1..Len(v) |-> CsRow(public_inputs, h_to_x_ratio, constraints, v[r])]
  IN IF \E r \in 1..Len(v) : built[r] = Abort THEN Abort
     ELSE built \o [r \in 1..(constraints - Len(v)) |-> <<>>]

-----------------------------------------------------------------------------
(* Seeded fault: the i-th primary input written at i * ratio, without the *)
(* shift past the constant slot.                                           *)
PrepareWitnessNoConstantShift(h, x, primary_input, auxiliary_input) ==
  LET ratio == h \div x
      m == ratio - 1
      writes == << [pos |-> 0, val |-> 0] >>
                \o [i \in 1..Len(primary_input) |->
                      [pos |-> (i - 1) * ratio, val |-> primary_input[i]]]
                \o [i \in 1..Len(auxiliary_input) |->
                      [pos |-> IF m = 0 THEN -1
                               ELSE ratio * ((i - 1) \div m) + 1 + ((i - 1) % m),
                       val |-> auxiliary_input[i]]]
      last(w) == Max({j \in DOMAIN writes : writes[j].pos = w})
  IN IF \E j \in DOMAIN writes : writes[j].pos \notin 0..(h - 1) THEN Abort
     ELSE [w \in 0..(h - 1) |->
             IF \E j \in DOMAIN writes : writes[j].pos = w
             THEN writes[last(w)].val ELSE Zero]

(* prepare_witness (lib.rs:129-150) for domains of sizes h and x.  The    *)
(* writes in program order: the constant one at 0, the i-th primary input *)
(* (0-based) at (1 + i) * ratio, the i-th auxiliary input at               *)
(* ratio * (i / m) + 1 + i % m.  A later write to a slot wins; a write     *)
(* past the end panics, and so does i / m with m = 0 once there is an     *)
(* auxiliary input.  The callers reach it with ratio >= 1 only.            *)
PrepareWitness(h, x, primary_input, auxiliary_input) ==
  LET ratio == h \div x
      m == ratio - 1
      writes == << [pos |-> 0, val |-> 0] >>
                \o [i \in 1..Len(primary_input) |->
                      [pos |-> i * ratio, val |-> primary_input[i]]]
                \o [i \in 1..Len(auxiliary_input) |->
                      [pos |-> IF m = 0 THEN -1   \* i / 0 panics
                               ELSE ratio * ((i - 1) \div m) + 1 + ((i - 1) % m),
                       val |-> auxiliary_input[i]]]
      last(w) == Max({j \in DOMAIN writes : writes[j].pos = w})
  IN IF \E j \in DOMAIN writes : writes[j].pos \notin 0..(h - 1) THEN Abort
     ELSE [w \in 0..(h - 1) |->
             IF \E j \in DOMAIN writes : writes[j].pos = w
             THEN writes[last(w)].val ELSE Zero]

=============================================================================
