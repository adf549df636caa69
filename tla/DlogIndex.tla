----------------------------- MODULE DlogIndex -----------------------------
(***************************************************************************)
(* The Fq (dlog) path of src/snarky-bn382/src/lib.rs.  The constraint     *)
(* matrices and the index are built exactly as on the Fp path             *)
(* (camlsnark_bn382_fq_constraint_matrix_append_row,                      *)
(* camlsnark_bn382_fq_index_create), so those actions are SnarkyIndex's.  *)
(* What the dlog prover adds is the list of previous accumulators: the    *)
(* caller passes one flat vector prev_challenges and a vector prev_sgs of  *)
(* commitments, and camlsnark_bn382_fq_proof_create and                   *)
(* camlsnark_bn382_fq_proof_make split the challenges into one equal      *)
(* chunk per commitment.                                                  *)
(*                                                                         *)
(* A challenge is abstracted to its position 1..n in prev_challenges and  *)
(* a commitment to its position 1..s in prev_sgs, so the split the proof  *)
(* stores can be compared with the caller's vectors exactly.              *)
(***************************************************************************)
EXTENDS SnarkyIndex

CONSTANTS
  MaxChallenges,  \* longest prev_challenges the caller passes
  MaxSgs          \* longest prev_sgs the caller passes

ASSUME {MaxChallenges, MaxSgs} \subseteq Nat

VARIABLES
  prev,       \* the Vec<(Vec<Fq>, GAffine)> the last proof stores, or NoPrev
  prev_args   \* the vectors the caller passed to the last proof call

dvars == <<vvars, prev, prev_args>>

NoPrev == <<>>
NoArgs == [challenges |-> <<>>, sgs |-> <<>>]

Challenges(n) == [j \in 1..n |-> j]
Sgs(s) == [i \in 1..s |-> i]

-----------------------------------------------------------------------------
(* The block that builds prev, the same in fq_proof_create                *)
(* (lib.rs:2529-2536) and fq_proof_make (lib.rs:2580-2587):               *)
(* challenges_per_sg = prev_challenges.len() / prev_sgs.len(), a panic    *)
(* when prev_sgs is empty; sg i (from 0) gets the slice                   *)
(* [i * challenges_per_sg .. (i + 1) * challenges_per_sg].                *)
PrevSplitStrided(ch, sgs) ==
  IF sgs = <<>> THEN Abort
  ELSE LET k == Len(ch) \div Len(sgs)
       IN [i \in 1..Len(sgs) |->
             [challenges |-> [j \in 1..k |-> ch[(j - 1) * Len(sgs) + i]],
              sg |-> sgs[i]]]

PrevSplitEnumerateIndex(ch, sgs) ==
  IF sgs = <<>> THEN Abort
  ELSE LET k == Len(ch) \div Len(sgs)
       IN [i \in 1..Len(sgs) |->
             [challenges |-> SubSeq(ch, (i - 1) * k + 1, i * k), sg |-> i - 1]]

PrevSplit(ch, sgs) ==
  IF sgs = <<>> THEN Abort
  ELSE LET k == Len(ch) \div Len(sgs)
       IN [i \in 1..Len(sgs) |->
             [challenges |-> SubSeq(ch, (i - 1) * k + 1, i * k), sg |-> sgs[i]]]

-----------------------------------------------------------------------------
DlogInit ==
  /\ Init
  /\ prev = NoPrev
  /\ prev_args = NoArgs

(* camlsnark_bn382_fq_constraint_matrix_append_row (lib.rs:2197-2208).    *)
FqAppendRow(m, row) ==
  /\ AppendRow(m, row)
  /\ UNCHANGED <<prev, prev_args>>

(* camlsnark_bn382_fq_index_create (lib.rs:1473-1512): the same asserts,  *)
(* ratio and rows_to_csmat as fp_index_create; DlogIndex::create is       *)
(* outside this repository.                                               *)
FqIndexCreate ==
  /\ \/ IndexCreate
     \/ IndexCreatePanics
  /\ UNCHANGED <<prev, prev_args>>

(* camlsnark_bn382_fq_proof_create (lib.rs:2516-2545): prepare_witness    *)
(* first, then the split of prev; DlogProof::create is external.          *)
FqProofCreate(ch, sgs) ==
  /\ phase = "indexed"
  /\ prev_args' = [challenges |-> ch, sgs |-> sgs]
  /\ LET w == PrepareWitness(index.h, index.x, PrimaryInput, AuxiliaryInput)
         p == PrevSplit(ch, sgs)
     IN IF w = Abort \/ p = Abort
        THEN /\ phase' = "aborted"
             /\ UNCHANGED <<witness, prev>>
        ELSE /\ witness' = w
             /\ prev' = p
             /\ UNCHANGED phase
  /\ UNCHANGED <<vars, public_inputs, rows, index, verifier>>

(* camlsnark_bn382_fq_proof_make (lib.rs:2547-2617): assembles a proof    *)
(* from its parts; only the split of prev is logic of this file.  It      *)
(* needs no index.                                                         *)
FqProofMake(ch, sgs) ==
  /\ phase # "aborted"
  /\ prev_args' = [challenges |-> ch, sgs |-> sgs]
  /\ LET p == PrevSplit(ch, sgs)
     IN IF p = Abort
        THEN /\ phase' = "aborted"
             /\ UNCHANGED prev
        ELSE /\ prev' = p
             /\ UNCHANGED phase
  /\ UNCHANGED <<vars, public_inputs, rows, index, witness, verifier>>

(* camlsnark_bn382_fq_verifier_index_create (lib.rs:1635-1640): the same *)
(* code as on the Fp path.                                                 *)
FqVerifierIndexCreate ==
  /\ VerifierIndexCreate
  /\ UNCHANGED <<prev, prev_args>>

(* camlsnark_bn382_fq_verifier_index_make (lib.rs:1651-1688) fed with     *)
(* fq_index_num_variables and fq_index_public_inputs: the same code as on *)
(* the Fp path.                                                            *)
FqVerifierIndexMake ==
  /\ VerifierIndexMake
  /\ UNCHANGED <<prev, prev_args>>

DlogNext ==
  \/ \E m \in Names, row \in RowChoices : FqAppendRow(m, row)
  \/ FqVerifierIndexCreate
  \/ FqVerifierIndexMake
  \/ FqIndexCreate
  \/ \E n \in 0..MaxChallenges, s \in 0..MaxSgs :
       \/ FqProofCreate(Challenges(n), Sgs(s))
       \/ FqProofMake(Challenges(n), Sgs(s))

DlogSpec == DlogInit /\ [][DlogNext]_dvars

-----------------------------------------------------------------------------
DlogTypeOK ==
  /\ TypeOK
  /\ prev \in Seq([challenges : Seq(1..MaxChallenges), sg : 1..MaxSgs])
  /\ prev_args \in [challenges : Seq(1..MaxChallenges),
                    sgs : Seq(1..MaxSgs)]

(* The accumulators a proof carries are the caller's, split as the dlog  *)
(* verifier reads them: after every proof call that returned (fq_proof_  *)
(* create or fq_proof_make), the stored prev pairs the caller's           *)
(* commitments, in order, with equal consecutive blocks of the caller's  *)
(* challenges; the blocks are as long as they can be, and together they   *)
(* are a prefix of prev_challenges, so at most len(prev_sgs) - 1          *)
(* trailing challenges are dropped.  A call with no commitment never      *)
(* returns.  Stated without the slice arithmetic of the code.             *)
PrevIsChunking ==
  prev_args # NoArgs =>
    LET ch == prev_args.challenges
        sgs == prev_args.sgs
        k == IF prev = NoPrev THEN 0 ELSE Len(prev[1].challenges)
    IN IF phase = "aborted" THEN TRUE
       ELSE /\ sgs # <<>>
            /\ [i \in DOMAIN prev |-> prev[i].sg] = sgs
            /\ \A i \in DOMAIN prev : Len(prev[i].challenges) = k
            /\ FlattenSeq([i \in DOMAIN prev |-> prev[i].challenges])
                 = SubSeq(ch, 1, k * Len(sgs))
            /\ Len(ch) - k * Len(sgs) < Len(sgs)

=============================================================================
