------------------------------ MODULE FfiHeap ------------------------------
(***************************************************************************)
(* Ownership of memory across the C ABI of src/snarky-bn382/src/lib.rs.   *)
(* Every stub takes raw pointers from the OCaml caller and dereferences   *)
(* them; a stub that returns an object hands over                         *)
(* Box::into_raw(Box::new(..)), which the caller later gives back to the  *)
(* matching *_delete (Box::from_raw, dropped at once).  Values are        *)
(* abstracted to Vals: what is modelled is which addresses are allocated, *)
(* freed or point into another allocation, and what the caller holds.     *)
(* Dereferencing or freeing memory that is not live is undefined          *)
(* behaviour: the model records it in fault and stops, as it does after a *)
(* panic.  A stub that only reads (a length, a comparison, a print)       *)
(* changes no state and is not an action.                                 *)
(*                                                                         *)
(* The caller follows the discipline of the OCaml bindings: it frees      *)
(* exactly the handles it received as owned, each once, and is done with  *)
(* a borrowed pointer before it frees the object that pointer points      *)
(* into.  A call takes at most two pointer arguments of the caller's.     *)
(***************************************************************************)
EXTENDS Naturals, Sequences, FiniteSets

CONSTANTS
  Ptrs,     \* the addresses the allocator can hand out
  NoPtr,    \* model value: "not inside another allocation"
  Vals,     \* values of field elements, group elements and bigints
  MaxLen    \* longest vector the caller builds

ASSUME NoPtr \notin Ptrs /\ MaxLen \in Nat

VARIABLES
  heap,      \* address -> "unallocated", "live", "freed" or "interior"
  obj,       \* address -> the object lying there
  owned,     \* handles the caller got from Box::into_raw and has not deleted
  borrowed,  \* pointers the caller got but must not free
  fault      \* "none", "panic", or the first undefined behaviour

hvars == <<heap, obj, owned, borrowed, fault>>

Unset == "unset"
Kinds == {"none", "value", "bigint", "vector", "limbs", "string"}
Obj(k, v) == [kind |-> k, val |-> v, elems |-> <<>>, base |-> NoPtr]

(* A pointer may be dereferenced: it is a live allocation, or points into *)
(* one.                                                                    *)
Valid(p) == \/ heap[p] = "live"
            \/ heap[p] = "interior" /\ heap[obj[p].base] = "live"

Deref(ps) == \A p \in ps : Valid(p)

Held == owned \cup borrowed
Fresh == {p \in Ptrs : heap[p] = "unallocated"}
Args == {ps \in SUBSET Held : Cardinality(ps) <= 2}

UB ==
  /\ fault' = "use_after_free"
  /\ UNCHANGED <<heap, obj, owned, borrowed>>

Panic ==
  /\ fault' = "panic"
  /\ UNCHANGED <<heap, obj, owned, borrowed>>

-----------------------------------------------------------------------------
Init ==
  /\ heap = [p \in Ptrs |-> "unallocated"]
  /\ obj = [p \in Ptrs |-> Obj("none", Unset)]
  /\ owned = {}
  /\ borrowed = {}
  /\ fault = "none"

(* Box::into_raw(Box::new(o)) after dereferencing ps, the return of every *)
(* constructor and getter, e.g. usize_vector_create (lib.rs:159-161).     *)
BoxNew(ps, o) ==
  /\ fault = "none"
  /\ IF Deref(ps)
     THEN \E q \in Fresh :
            /\ heap' = [heap EXCEPT ![q] = "live"]
            /\ obj' = [obj EXCEPT ![q] = o]
            /\ owned' = owned \cup {q}
            /\ UNCHANGED <<borrowed, fault>>
     ELSE UB

(* let x_ = &mut *x; *x_ op= *y: fp_mut_add (lib.rs:431-436).             *)
MutateInPlace(x, ps, v) ==
  /\ fault = "none"
  /\ obj[x].kind = "value"
  /\ IF Deref({x} \cup ps)
     THEN /\ obj' = [obj EXCEPT ![x].val = v]
          /\ UNCHANGED <<heap, owned, borrowed, fault>>
     ELSE UB

(* let _box = Box::from_raw(x): every *_delete, e.g. usize_vector_delete  *)
(* (lib.rs:182-186).  Freeing a freed address, or one that is not the    *)
(* start of an allocation, is undefined behaviour.                        *)
Delete(p) ==
  /\ fault = "none"
  /\ p \in owned
  /\ \A q \in borrowed : obj[q].base # p
  /\ owned' = owned \ {p}
  /\ IF heap[p] = "live"
     THEN /\ heap' = [heap EXCEPT ![p] = "freed"]
          /\ UNCHANGED fault
     ELSE /\ fault' = IF heap[p] = "freed" THEN "double_free" ELSE "bad_free"
          /\ UNCHANGED heap
  /\ UNCHANGED <<obj, borrowed>>

-----------------------------------------------------------------------------
(* fp_vector_emplace_back (lib.rs:517-522): v_.push of *x_, a copy of the  *)
(* element read through the pointers ps (none for usize, lib.rs:170-174). *)
VectorPush(v, ps, e) ==
  /\ fault = "none"
  /\ obj[v].kind = "vector"
  /\ Len(obj[v].elems) < MaxLen
  /\ IF Deref({v} \cup ps)
     THEN /\ obj' = [obj EXCEPT ![v].elems = Append(@, e)]
          /\ UNCHANGED <<heap, owned, borrowed, fault>>
     ELSE UB

(* Seeded fault: v_.get_unchecked(i), which reads past the end.           *)
VectorGetUnchecked(v, i) ==
  /\ obj[v].kind = "vector"
  /\ IF i < Len(obj[v].elems)
     THEN BoxNew({v}, Obj("value", obj[v].elems[i + 1]))
     ELSE BoxNew({v}, Obj("value", "uninit"))

(* Seeded fault: &mut v_[i] as *mut, a pointer into the vector handed   *)
(* out as if it were a new box, which the caller later deletes.          *)
VectorGetInterior(v, i) ==
  /\ fault = "none"
  /\ obj[v].kind = "vector"
  /\ i < Len(obj[v].elems)
  /\ Deref({v})
  /\ \E q \in Fresh :
       /\ heap' = [heap EXCEPT ![q] = "interior"]
       /\ obj' = [obj EXCEPT ![q] = [Obj("value", obj[v].elems[i + 1]) EXCEPT !.base = v]]
       /\ owned' = owned \cup {q}
       /\ UNCHANGED <<borrowed, fault>>

(* fp_vector_get (lib.rs:524-528): Box::new(v_[i as usize]); an index    *)
(* past the end panics.                                                   *)
VectorGet(v, i) ==
  /\ obj[v].kind = "vector"
  /\ IF i < Len(obj[v].elems)
     THEN BoxNew({v}, Obj("value", obj[v].elems[i + 1]))
     ELSE /\ fault = "none"
          /\ IF Deref({v}) THEN Panic ELSE UB

-----------------------------------------------------------------------------
(* bigint_to_data (lib.rs:229-233): x_.0.as_mut_ptr(), a pointer to    *)
(* the limbs inside the caller's bigint; the caller must not free it.     *)
BigintToData(x) ==
  /\ fault = "none"
  /\ obj[x].kind = "bigint"
  /\ IF Deref({x})
     THEN \E q \in Fresh :
            /\ heap' = [heap EXCEPT ![q] = "interior"]
            /\ obj' = [obj EXCEPT ![q] = [Obj("limbs", Unset) EXCEPT !.base = x]]
            /\ borrowed' = borrowed \cup {q}
            /\ UNCHANGED <<owned, fault>>
     ELSE UB

(* fp_to_string (lib.rs:366-373): format! builds a String s on the heap,  *)
(* s.as_ptr() is returned and s is dropped at the end of the function.    *)
FieldToString(x) ==
  /\ fault = "none"
  /\ obj[x].kind = "value"
  /\ IF Deref({x})
     THEN \E s \in Fresh :
            /\ heap' = [heap EXCEPT ![s] = "freed"]
            /\ obj' = [obj EXCEPT ![s] = Obj("string", Unset)]
            /\ borrowed' = borrowed \cup {s}
            /\ UNCHANGED <<owned, fault>>
     ELSE UB

(* The caller copies the limbs or the C string out and drops the pointer. *)
ReleaseBorrowed(q) ==
  /\ fault = "none"
  /\ q \in borrowed
  /\ borrowed' = borrowed \ {q}
  /\ fault' = IF Valid(q) THEN "none" ELSE "use_after_free"
  /\ UNCHANGED <<heap, obj, owned>>

-----------------------------------------------------------------------------
(* The stubs, family by family.  Every stub of a family has one of the    *)
(* shapes above; which value it computes is not told apart.               *)
NewObject(k) == \E ps \in Args, v \in Vals : BoxNew(ps, Obj(k, v))

DeleteOwned == \E p \in owned : Delete(p)

UpdateOwned == \E x \in owned, ps \in Args, v \in Vals : MutateInPlace(x, ps, v)

(* usize vectors: create, emplace_back of a usize by value, get of a usize *)
(* by value, which panics past the end, and delete.                       *)
UsizeVectorStubs ==
  \/ BoxNew({}, Obj("vector", Unset))
  \/ \E v \in owned, n \in Vals : VectorPush(v, {}, n)
  \/ \E v \in owned, i \in 0..MaxLen :
        /\ obj[v].kind = "vector"
        /\ i >= Len(obj[v].elems)
        /\ fault = "none"
        /\ Deref({v})
        /\ Panic
  \/ DeleteOwned

(* Vectors of Fp: emplace_back copies *x, get boxes a copy of v[i].       *)
FpVectorStubs ==
  \/ BoxNew({}, Obj("vector", Unset))
  \/ \E v \in owned, x \in Held :
        obj[x].kind = "value" /\ VectorPush(v, {x}, obj[x].val)
  \/ \E v \in owned, i \in 0..MaxLen : VectorGet(v, i)
  \/ DeleteOwned

(* Constraint matrices: create boxes an empty Vec of rows, append_row     *)
(* pushes clones of the caller's indices and coefficients vectors, which  *)
(* the caller still owns; delete frees.                                   *)
FpConstraintMatrixStubs ==
  \/ BoxNew({}, Obj("vector", Unset))
  \/ \E m \in owned, ps \in Args, e \in Vals :
        /\ \A p \in ps : obj[p].kind = "vector"
        /\ VectorPush(m, ps, e)
  \/ DeleteOwned

FqConstraintMatrixStubs == FpConstraintMatrixStubs

(* The Fq, G affine and G1 affine vectors repeat the Fp vector stubs.     *)
FqVectorStubs == FpVectorStubs

GAffineVectorStubs == FpVectorStubs

G1AffineVectorStubs == FpVectorStubs

(* Pairs of points: pair_0, pair_1 and pair_make box a copy; the pair     *)
(* vectors repeat the Fp vector stubs.                                     *)
G1AffinePairStubs == NewObject("value") \/ FpVectorStubs

GAffinePairStubs == NewObject("value") \/ FpVectorStubs

(* Fp stubs: constants, random, of_int, arithmetic, sqrt, inv, of_bigint  *)
(* box a new value and to_bigint a new bigint; mut_add, mut_mul,          *)
(* mut_square, mut_sub and copy write *x in place; delete frees.          *)
FpFieldStubs ==
  \/ NewObject("value")
  \/ NewObject("bigint")
  \/ UpdateOwned
  \/ DeleteOwned

FqFieldStubs == FpFieldStubs

(* Bigint stubs: of_decimal_string, of_numeral, of_data and div box a new *)
(* bigint; to_data lends the limbs; an unparsable numeral panics and so   *)
(* does find_wnaf, always; delete frees.                                  *)
BigintStubs ==
  \/ NewObject("bigint")
  \/ \E x \in owned : BigintToData(x)
  \/ fault = "none" /\ Panic
  \/ DeleteOwned

(* Points: random, one, add, scale, sub, negate, the affine conversions   *)
(* and the coordinate getters box a new value; delete frees.              *)
GStubs == NewObject("value") \/ DeleteOwned

G1Stubs == GStubs

(* Sponge: params and sponge are boxed, absorb updates the sponge in      *)
(* place, squeeze boxes the output; delete frees.                         *)
FpSpongeStubs == NewObject("value") \/ UpdateOwned \/ DeleteOwned

FqSpongeStubs == FpSpongeStubs

(* Proofs, indexes, verifier indexes, oracles, URS, evaluations: every    *)
(* make, create, read and getter boxes a new object read from its live    *)
(* arguments; every delete frees.                                         *)
ProtocolObjectStubs == NewObject("value") \/ DeleteOwned

FpProofStubs == ProtocolObjectStubs

FpOracleStubs == ProtocolObjectStubs

FpVerifierIndexStubs == ProtocolObjectStubs

(* URS: create boxes a new URS; read boxes what File::open(path).unwrap() *)
(* and read(file).unwrap() return, and panics when the file is missing   *)
(* or malformed; write and the commitments read it.                       *)
FpUrsStubs == ProtocolObjectStubs \/ (fault = "none" /\ Panic)

FqUrsStubs == FpUrsStubs

FpIndexStubs == ProtocolObjectStubs

FqIndexStubs == ProtocolObjectStubs

FqVerifierIndexStubs == ProtocolObjectStubs

FqOracleStubs == ProtocolObjectStubs

FqOpeningProofStubs == ProtocolObjectStubs

FqEvaluationsStubs == ProtocolObjectStubs

(* fq_triple_0/1/2: a boxed clone of one element of the triple.           *)
FqTripleStubs == ProtocolObjectStubs

(* fq_proof_make also splits prev_challenges over prev_sgs: with no sgs   *)
(* the division by prev_sgs.len() panics.                                 *)
FqProofStubs ==
  \/ ProtocolObjectStubs
  \/ \E sgs \in owned :
        /\ obj[sgs].kind = "vector"
        /\ obj[sgs].elems = <<>>
        /\ fault = "none"
        /\ Panic

(* fp_to_string and fq_to_string.                                          *)
FpStringStubs == \E x \in owned : FieldToString(x)

FqStringStubs == FpStringStubs

Next ==
  \/ UsizeVectorStubs \/ FpVectorStubs \/ FqVectorStubs
  \/ FpConstraintMatrixStubs \/ FqConstraintMatrixStubs
  \/ GAffineVectorStubs \/ G1AffineVectorStubs
  \/ G1AffinePairStubs \/ GAffinePairStubs
  \/ FpFieldStubs \/ FqFieldStubs \/ BigintStubs \/ GStubs \/ G1Stubs
  \/ FpSpongeStubs \/ FqSpongeStubs
  \/ FpProofStubs \/ FqProofStubs \/ FpOracleStubs \/ FqOracleStubs
  \/ FpVerifierIndexStubs \/ FqVerifierIndexStubs \/ FpUrsStubs \/ FqUrsStubs
  \/ FpIndexStubs \/ FqIndexStubs \/ FqOpeningProofStubs \/ FqEvaluationsStubs
  \/ FqTripleStubs
  \/ \E q \in borrowed : ReleaseBorrowed(q)

Spec == Init /\ [][Next]_hvars

(* The same caller, who also turns elements into strings.                 *)
NextWithStrings == Next \/ FpStringStubs \/ FqStringStubs

SpecWithStrings == Init /\ [][NextWithStrings]_hvars

-----------------------------------------------------------------------------
TypeOK ==
  /\ heap \in [Ptrs -> {"unallocated", "live", "freed", "interior"}]
  /\ \A p \in Ptrs :
        /\ obj[p].kind \in Kinds
        /\ obj[p].val \in Vals \cup {Unset}
        /\ obj[p].elems \in Seq(Vals)
        /\ obj[p].base \in Ptrs \cup {NoPtr}
  /\ owned \subseteq Ptrs
  /\ borrowed \subseteq Ptrs
  /\ fault \in {"none", "panic", "use_after_free", "double_free", "bad_free"}

(* Memory safety of the stubs: under the caller's discipline no stub      *)
(* dereferences or frees memory that is not live (emplace_back, get and   *)
(* every *_delete included), and every handle the caller owns is a live   *)
(* Box it may still use and free.                                          *)
MemorySafe ==
  /\ fault \in {"none", "panic"}
  /\ \A p \in owned : heap[p] = "live"

(* A pointer the library lends (bigint_to_data, to_string) points into    *)
(* live memory for as long as the caller holds it.                        *)
BorrowedValid == \A q \in borrowed : Valid(q)

=============================================================================
