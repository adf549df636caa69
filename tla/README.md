# TLA+ models of snarky-bn382 (src/snarky-bn382/src/lib.rs)

## The system

`lib.rs` is the C FFI layer between OCaml (snarky) and the Rust Marlin and
dlog prover over the BN-382 curve. Most of its 2892 lines are thin wrappers:

- field, group and bigint stubs;
- vectors and opaque handles (`*_create`, `*_emplace_back`, `*_get`, `*_delete`);
- URS read and write;
- proof, oracle and verifier-index getters.

Only a few functions have logic of their own. They are the part that
re-indexes the caller's rank-1 constraint system into the evaluation domain H
that the prover works over:

| Function | Lines | Role |
|---|---|---|
| `ceil_pow2` | 40-46 | Size of the square constraint matrix. |
| `witness_position_to_index` | 48-60 | Maps a domain slot back to a flat variable index. |
| `index_to_witness_position` | 62-85 | Maps a flat variable index to a slot. Public inputs go to every `ratio`-th slot. Auxiliary inputs fill the `ratio - 1` slots in between. An `assert_eq!` checks the round trip. |
| `rows_to_csmat` | 87-127 | Re-indexes each caller row and sorts it by column. Builds each row with `CsVecView::new_view`, which rejects unsorted, duplicate or out-of-range columns. Pads the matrix to `ceil_pow2(rows)` rows. |
| `prepare_witness` | 129-150 | Writes the witness vector of length \|H\| in the same layout. |
| `*_constraint_matrix_create/append_row` | 539-553 | Let the caller build a matrix row by row. |
| `camlsnark_bn382_fp_index_create` | 1302-1339 | Asserts `public_inputs > 0` and `num_constraints >= vars`. Computes `ratio = \|H\| / \|X\|` from `compute_size_of_domain` and calls `rows_to_csmat` on a, b and c. |
| `camlsnark_bn382_fp_proof_create` | 616-630 | Calls `prepare_witness`, then the external prover. |

The call sequence is fixed:

1. The caller appends rows to the matrices.
2. The caller creates the index.
3. The caller proves with the index, as often as it likes.

Any Rust panic ends the process. This includes:

- a failed assert;
- a division by zero;
- the `unwrap` of a `new_view` error;
- an out-of-bounds write.

## Modules

- **IndexMapper.tla** holds the pure helpers as operators.
  - `CeilPow2`: `ceil_pow2`, as a RECURSIVE loop.
  - `WitnessPositionToIndex` and `IndexToWitnessPosition`: the two mapping functions.
  - `CsRow` and `RowsToCsmat`: `rows_to_csmat`.
  - `PrepareWitness`: `prepare_witness`.
  - Each panic is the model value `Abort`.
  - Field elements are abstracted to identities:
    - a coefficient is its position in the caller's row;
    - a witness value is the flat index of its variable;
    - `Zero` is `F::zero()`.

  So "the matrix encodes the caller's rows" and "the witness holds each
  variable in its slot" can be checked exactly. Other details the model keeps:
  - `zip` pairs the indices lazily with the coefficients, and the model keeps
    the truncation.
  - `prepare_witness` writes in program order, and the last write to a slot
    wins.
  - `ComputeSizeOfDomain` is the contract of the external `compute_size_of_domain`
    (the next power of two). It is deliberately stated independently of
    `ceil_pow2`, so that the model can detect where the two disagree.
- **SnarkyIndex.tla** is the caller-visible state machine.
  - Variables:
    - `vars` and `public_inputs`: the arguments of `index_create`.
    - `rows`: the caller's matrices.
    - `phase`: `collect`, `indexed` or `aborted`.
    - `index`: the ratio, \|H\|, \|X\| and the CSR matrices.
    - `witness`: the witness vector.
    - `verifier`: the domains \|H\| and \|X\| of the last verifier
      index the caller built.
  - Actions:
    - `AppendRow`: `append_row`.
    - `IndexCreate` and `IndexCreatePanics`: `index_create`, successful or panicking.
    - `ProofCreate`: `proof_create`. It is repeatable, and it either writes the
      witness or aborts.
    - `VerifierIndexCreate`: `fp_verifier_index_create` (1045-1050), which
      takes the index's own domains.
    - `VerifierIndexMake`: `fp_verifier_index_make` (1061-1098), fed with the
      index getters:
      - `fp_index_num_variables` (`NumVariables`), the padded row count of
        matrix `a`;
      - `fp_index_public_inputs`.

      Its domains come from the external `EvaluationDomains::create`
      (`VerifierDomains`). The K domain is left out: `Index::create`, which
      sizes it, is outside src/, so the model could only restate it.
  - `Abs` instantiates AbstractIndex with a refinement mapping:
    - each caller row becomes its set of (coefficient, variable) terms, and
      is flagged malformed or out of range;
    - an index's CSR matrices are decoded through `witness_position_to_index`;
    - the witness is decoded through `index_to_witness_position`.
  - The caller's inputs are enumerated from small sets:
    - row contents come from `RowEntries`, up to `MaxRowLen` entries per row;
    - with `LengthsAgree = FALSE`, rows may have mismatched lengths.
- **DlogIndex.tla** extends SnarkyIndex with the Fq (dlog) path.
  - `FqAppendRow` and `FqIndexCreate` are the Fq constraint-matrix and index
    stubs; they run the same re-indexing code as the Fp ones.
  - `FqProofCreate` (`fq_proof_create`, 2516-2545) runs `prepare_witness`,
    then splits `prev_challenges` over `prev_sgs`.
  - `FqProofMake` (`fq_proof_make`, 2547-2617) only does the split; it needs
    no index.
  - `PrevSplit` is that split as written: `k = len(challenges) / len(sgs)`,
    which panics when `prev_sgs` is empty; sg `i` gets the slice
    `[i*k, (i+1)*k)`.
  - Variables: `prev`, the accumulators the last proof stores, and
    `prev_args`, the vectors the caller passed. A challenge and a commitment
    are abstracted to their positions in the caller's vectors.
- **AbstractIndex.tla** is what building an index and proving promise to the
  caller, from spec sections 1, 4.3 and 7, with no layout at all.
  - Variables: `vars`, `public_inputs`, `constraints` (the caller's rows as
    term sets), `status`, `matrix` (the rows the index holds) and
    `assignment` (the value of each variable the last proof used).
  - Actions:
    - `AddConstraint`: one row is appended to one matrix.
    - `BuildIndex`: a valid circuit is indexed with exactly its constraints.
    - `RejectIndex`: an invalid circuit aborts.
    - `Prove`: every variable gets its value.
  - `Valid` is the spec's configuration check. It requires:
    - `public_inputs > 0`;
    - at least as many constraints as variables;
    - the auxiliary inputs fit in the free slots;
    - every row is well formed.
- **BigintCodec.tla** models the bigint stubs that compute (lib.rs 188-271).
  - `BigintOfBiginteger` reads the limbs' memory as bytes.
  - `BigintegerOfBigint` takes `to_bytes_le`, resizes it to
    `BIGINT_NUM_BYTES`, and casts the buffer to limbs.
  - Both reinterpret memory, so they depend on the constant
    `HostLittleEndian`.
  - Actions:
    - `OfNumeral`: `of_numeral` and `of_decimal_string`. A numeral is
      abstracted to its number.
    - `OfNumeralUnparsable`: the parse panic.
    - `OfData`: `of_data`.
    - `Div`: `div`, which panics on a zero divisor.
  - Widths are scaled down: 2-bit bytes, 2-byte limbs and 8 bits in all.
    The code has 8, 8 and 384. This keeps the truncation and the byte order
    while every value stays enumerable.
- **UrsFile.tla** models the URS stubs that use the file system
  (`fp_urs_create/write/read`, 1108-1127; the Fq stubs are the same code).
  A URS file outlives the process, so the model keeps the files across
  process restarts.
  - Variables:
    - `files`: each file name is absent, partial or complete, with the URS
      it holds.
    - `created`: the URSs created so far.
    - `held`: the URSs the running process holds.
    - `status`: whether the process is running or panicked.
  - Actions:
    - `UrsCreate`: a fresh URS.
    - `UrsWrite`: `File::create(..).unwrap()` panics on a name that cannot
      be created, and truncates otherwise. The write then completes or
      fails part-way, and its error is discarded.
    - `UrsRead`: panics on a missing or partial file, and otherwise holds
      the URS.
    - `Restart`: the process ends and a new one starts with the same files.
  - `ToStringLossy` is the path conversion, modelled by what it does: bytes
    that are not UTF-8 become U+FFFD. In the run, the caller's paths `0xFE`
    and `0xFF` name one file.
  - The serialised bytes of a URS are abstracted to complete or partial.
    `URS::read` of a partial file fails.
- **FfiHeap.tla** models memory ownership across the C ABI, for every stub
  family of the file.
  - Variables:
    - `heap`: each address is unallocated, live, freed, or interior
      (pointing into another allocation).
    - `obj`: the object at each address.
    - `owned`: the handles the caller got from `Box::into_raw`.
    - `borrowed`: the pointers the caller got but must not free.
    - `fault`: none, a panic, or the first undefined behaviour.
  - Primitives, each translated from one stub:
    - `BoxNew`: `Box::into_raw(Box::new(..))`.
    - `MutateInPlace`: the `mut_*` and `copy` stubs.
    - `Delete`: `Box::from_raw` in every `*_delete`.
    - `VectorPush`: `emplace_back`, which pushes a copy of `*x`.
    - `VectorGet`: boxes a copy of `v[i]` and panics past the end.
    - `BigintToData`: a pointer into the bigint's limbs.
    - `FieldToString`: a pointer into a `String` that is dropped at return.
  - One definition per stub family (usize/Fp/Fq/G/G1/pair vectors,
    constraint matrices, field, bigint, group, sponge, proof, oracle, URS,
    index and verifier-index stubs) says which primitives its stubs are.
    Values are abstracted to two model values. Read-only stubs (length,
    compare, print) change no state and are left out.
  - The caller is the OCaml binding's discipline:
    - it frees only owned handles, each once;
    - it is done with a borrowed pointer before freeing the object the
      pointer points into.
  - `Spec` is every stub family. `SpecWithStrings` adds `to_string`.
- **MCSnarkyIndex.tla**, **MCDlogIndex.tla** and **MCFfiHeap.tla** give the
  model values for the configs:
  - MCSnarkyIndex: one matrix or the three matrices, and three row
    generators (any entry, only the last variable, or one past it);
  - MCFfiHeap: four addresses and two values, under symmetry.

## Properties

All are invariants except `ImplementsAbstractIndex`, a temporal property. They belong to `SnarkyIndex` unless another module is named. Each module has one type invariant (`TypeOK`, or `DlogTypeOK` for DlogIndex).

- `TypeOK`: every matrix is \|H\| rows of entries whose column is below \|H\|,
  and every witness slot is `Zero` or a variable.
- `MapperMatchesLayout`: for every `ratio >= 2` and every flat index below
  2\|H\|, `index_to_witness_position` equals a recursive reference layout taken
  from the spec. The reference counts the free slots, skipping every
  `ratio`-th slot. The round trip through `witness_position_to_index` holds.
- `AbortExactlyOnInvalidInput`: the process aborts only on an invalid input,
  and a witness is built only for a valid one. Invalid inputs are:
  - `public_inputs = 0`;
  - fewer constraints than variables;
  - more auxiliary inputs than the `H - X` free slots;
  - a row with mismatched lengths or a duplicate index.

  This relates what `index_create` accepts to what `proof_create` then does.
- `WitnessLayout`: after `proof_create`, every variable is in the slot the
  mapper gives it, and every non-zero slot holds the variable the mapper maps
  it back to. This relates `prepare_witness` to `index_to_witness_position`.
- `MatrixEncodesRows`: the matrix has as many rows as the witness has slots.
  Each CSR row, read through the witness, pairs exactly the caller's
  coefficients with the caller's variables. The padding rows are empty. This
  relates `rows_to_csmat` to `prepare_witness`, which are two separate code
  paths that must agree for the proof to be about the caller's circuit. It
  is claimed when the matrices have equal lengths (`SizesAgree`), which spec
  section 7 makes the caller's obligation: `index_create` takes
  `num_constraints` from `a` alone. For the same reason `AbortExactlyOnInvalidInput`
  lets a size mismatch panic.
- `PrevIsChunking` (DlogIndex): after every `fq_proof_create` or
  `fq_proof_make` that returns, the stored `prev` pairs the caller's
  commitments, in order, with equal consecutive blocks of the caller's
  challenges. The blocks are as long as possible and together form a prefix
  of `prev_challenges`. A call with no commitment never returns. The property
  is stated with `FlattenSeq` and lengths, not with the slice arithmetic of
  the code.
- `VerifierDomainsMatch`: a verifier index has the domains of the prover's
  index. This holds both for one built by `verifier_index_create` and for
  one rebuilt through `verifier_index_make` from the index's getters. It
  relies on three separate pieces of code agreeing on which count sizes H:
  - `index_create`, which takes the ratio from `a`'s length;
  - `num_variables`, which returns `a`'s padded row count and not `vars`;
  - `EvaluationDomains::create`.
- `ImplementsAbstractIndex`: `Spec` implements `Abs!Spec` under the mapping
  above. It relates every step of the re-indexing pipeline to the contract,
  across steps:
  - the decoded matrices are exactly the caller's constraints;
  - the decoded witness assigns every variable its value;
  - `index_create` panics exactly when the contract rejects.

  The code does not implement the contract, so this property is checked
  only by violation runs. The ratio_one run checks it at the smallest bounds
  where \|X\| = \|H\| while an auxiliary input exists (4 variables). The
  zip and index_range divergences break it too; those runs check the more
  specific `MatrixEncodesRows` instead.
- `TypeOK` (UrsFile) includes `held \subseteq created`. Across failed
  writes, panics and restarts, `urs_read` never hands the process anything
  but a URS that some `urs_create` made: not the contents of a partial file,
  and not those of an absent one.
- `BigintHoldsValue` (BigintCodec): the limbs a bigint stub returns denote
  the number the caller meant, modulo 2^`BIGINT_NUM_BITS`. This covers
  parsing, `of_data`'s copy, and both conversions in `div`.
- `MemorySafe` (FfiHeap): no stub dereferences or frees memory that is not
  live, and every handle the caller owns is live.
- `BorrowedValid` (FfiHeap): a pointer the library lends points into live
  memory for as long as the caller holds it. It is checked only by the
  ffi_strings violation run. With the caller's discipline (no borrowed
  pointer kept past its base's delete), the other stubs satisfy it by
  construction.

## Runs

| Run | Config | Expect | What it shows |
|---|---|---|---|
| core | MCSnarkyIndex.cfg | pass | Every circuit with ≤ 3 variables, ≤ 4 constraints and rows of ≤ 2 arbitrary entries (about 370k states). This covers sorting, duplicates and every ratio the shapes allow. |
| shapes | MCSnarkyShapes.cfg | pass | Up to 8 variables and 8 constraints with 1-entry rows (ratios 0 to 8). This is where auxiliary inputs exceed `H - X` and where `ratio = 1`; both `ProofCreate` outcomes fire. |
| ratio_one | MCSnarkyRatioOne.cfg | violation | `ImplementsAbstractIndex`: `index_create` builds an index for 3 public inputs, 4 variables and 4 constraints, which the contract rejects. |
| zip_truncation | MCSnarkyZip.cfg | violation | `MatrixEncodesRows`: a row with one coefficient and no index is silently truncated. |
| index_range | MCSnarkyRange.cfg | violation | `MatrixEncodesRows`: a row mentioning flat index `vars` (one past the last variable) is accepted and reads a zero slot. |
| abc | MCSnarkyABC.cfg | pass | All three matrices, appended in any interleaving, up to 2 rows each (about 17k states). This covers a short `b` whose own dimension is too small for a valid column. |
| dlog | MCDlogIndex.cfg | pass | The Fq path with up to 5 challenges and 3 commitments: empty `prev_sgs`, chunks of length 0 to 2, and remainders of 1 and 2. |
| ffi_heap | MCFfiHeap.cfg | pass | Every stub family interleaved over 4 addresses (about 17k states). |
| ffi_strings | MCFfiHeapStrings.cfg | violation | `BorrowedValid`: `fp_to_string` returns a pointer into freed memory. |
| bigint | MCBigintCodec.cfg | pass | A little-endian host: every numeral up to 600 (over 2^8, so truncation happens), and every 8-bit `of_data` and `div` operand pair. |
| urs | MCUrsFile.cfg | pass | Two URSs over four C paths and three file names (one not creatable, two C paths colliding), with writes failing and processes restarting at any point. |
| bigint_big_endian | MCBigintCodecBE.cfg | violation | `BigintHoldsValue`: on a big-endian host `of_numeral(1)` returns a bigint that is not 1. |

Each property of a passing run is broken by a seeded fault in the code it is
about, for example:

- the auxiliary block divided by `ratio` instead of `m`;
- only the columns sorted;
- one padding row too many;
- the primary inputs not shifted past the constant slot;
- the `num_constraints >= vars` assert dropped;
- matrix `a`'s rows used for `b` and `c` as well;
- the prev chunks strided over the commitments, or paired with the 0-based
  enumerate index;
- `num_variables` returning `vars` instead of the padded row count;
- `URS::read`'s error ignored;
- `to_bytes_le` cast to limbs without the resize, or with the limbs taken
  most significant first;
- `get` without the bounds check, and `get` handing out a pointer into the
  vector instead of a boxed copy.

Bounds: with three variables and four rows, every ratio from 0 to 4 occurs.
The runs reach public-only circuits, the aux-overflow case and ratio 1, and
also rows with two entries in either order and with duplicates. Those are the
cases where the re-indexing and the sort matter. Larger circuits only repeat
the same slot pattern.

FfiHeap needs four addresses: two vectors or values plus a bigint and its
borrowed limbs pointer, or a freed address next to a live one. Two vectors
of up to two elements reach `get` both inside and past the end.

Fairness: none is assumed and no liveness is checked. Every call is made by
the caller, so nothing in the code forces any of them to happen. The code
has no threads, callbacks or messages.
`CHECK_DEADLOCK FALSE` is set because an aborted process really stops.

## Findings

- **ratio_one (code bug).** `index_create` checks `num_constraints >= vars` but
  not that the auxiliary inputs fit into the `H - X` free slots. With 3 public
  inputs, 4 variables and 4 constraints, `|X| = |H| = 4` and the ratio is 1.
  The index is built. `proof_create` then panics dividing by `m = 0`
  (lib.rs:145). Spec section 7 says such configuration errors are detected
  before the mapper runs, and AbstractIndex rejects the shape.
- **zip_truncation (divergence).** `zip` at lib.rs:104 drops the unmatched tail
  of a row. Spec section 4.3 calls a count mismatch fatal.
- **index_range (divergence).** `rows_to_csmat` never compares a flat index
  with `vars` (lib.rs:103). Index `vars` maps to a slot inside the square
  matrix, so `new_view` accepts it. The constraint then reads a witness slot
  that is always zero. Spec sections 4.3 and 7 call an out-of-range index
  fatal.
- **ffi_strings (code bug).** `fp_to_string` and `fq_to_string`
  (lib.rs:366-373, 2022-2029) return `s.as_ptr()` of a `String` that is
  dropped at return. The pointer dangles, and the bytes have no NUL
  terminator. The comment `TODO: Leaky` assumes the string is leaked.

- **bigint_big_endian (code bug).** `biginteger_of_bigint` (lib.rs:202-209)
  casts the little-endian bytes of `to_bytes_le` to `[u64; 6]`.
  `bigint_of_biginteger` (lib.rs:195-199) reads the limbs' memory as
  little-endian bytes. Both are right only on a little-endian host. On a
  big-endian build every limb is byte-swapped. The only comment warns that
  the high bits are dropped.

Observed while modelling, with no run:

- `fq_proof_create` and `fq_proof_make` divide by `prev_sgs.len()`, so a
  proof without a previous accumulator panics. A remainder of challenges is
  dropped silently. `PrevIsChunking` pins this behaviour down.
- `fq_sponge_delete` frees an `ArithmeticSponge<Fp>` that was created as
  `ArithmeticSponge<Fq>` (lib.rs:2241).
- The `*_nocopy` getters box a copy that the caller must free.
- `urs_write` discards the result of the write (lib.rs:1118). UrsFile
  shows that this never makes `urs_read` return a stale URS, because
  `File::create` truncates first. A failed write, however, leaves a file
  that every later `urs_read` of that name panics on.

## Not modelled

- **URS serialisation.** The bytes `URS::write` produces and `URS::read`
  parses are external; UrsFile keeps only whether a file is complete.
  Spec section 1 says the core owns no file format.
- **Element types of freed objects.** `fq_sponge_delete` frees with the
  wrong element type (lib.rs:2241). FfiHeap tracks ownership, not Rust
  types. The two types have the same layout, so the free itself succeeds.
- **Liveness.** Every operation is a call the caller makes, and the code
  has no threads, callbacks or messages. No fairness is justified, so no
  liveness property is checked.
- **External cryptography.** The arithmetic of the field, group, sponge,
  commitment and proof stubs is external. `Index::create`,
  `ProverProof::create`, `DlogProof::create` and `EvaluationDomains::create`
  are assumed to succeed. Only the domain sizes `EvaluationDomains` computes
  are modelled (`ComputeSizeOfDomain`, `VerifierDomains`). FfiHeap models
  only what those stubs do with memory.
