---------------------------- MODULE BigintCodec ----------------------------
(***************************************************************************)
(* The bigint stubs of src/snarky-bn382/src/lib.rs (lines 188-320) that   *)
(* compute: the conversions between the caller's BigInteger384 (limbs of  *)
(* BIGINT_LIMB_BITS bits, least significant first) and num_bigint's       *)
(* BigUint, and the stubs that go through them (of_decimal_string,        *)
(* of_numeral, of_data, div).  Both conversions reinterpret memory: the   *)
(* limbs are read as bytes, and a byte vector is cast to limbs, so what   *)
(* they compute depends on the byte order of the host the library is     *)
(* built for (HostLittleEndian).                                          *)
(*                                                                         *)
(* Widths are scaled down: a byte of ByteBits bits, limbs of LimbBytes    *)
(* bytes, NumBits bits in all (384, 64 and 8 in the code).                *)
(***************************************************************************)
EXTENDS Naturals, SequencesExt

CONSTANTS
  ByteBits,          \* bits per byte
  LimbBytes,         \* bytes per limb (BIGINT_LIMB_BITS / 8)
  NumBits,           \* BIGINT_NUM_BITS
  HostLittleEndian,  \* the byte order of the build
  MaxNumeral         \* largest number a numeral the caller passes denotes

ASSUME {ByteBits, LimbBytes, NumBits, MaxNumeral} \subseteq Nat \ {0}
ASSUME HostLittleEndian \in BOOLEAN

VARIABLES
  big,     \* limbs of the BigInteger384 the last stub returned
  meant,   \* the number the caller meant by its arguments
  status   \* "ok" or "panic"

bvars == <<big, meant, status>>

ByteBase == 2 ^ ByteBits
LimbBits == ByteBits * LimbBytes
LimbBase == 2 ^ LimbBits

(* BIGINT_NUM_LIMBS and BIGINT_NUM_BYTES (lib.rs:190-193).                *)
NumLimbs == (NumBits + LimbBits - 1) \div LimbBits
NumBytes == NumLimbs * LimbBytes

(* The number a BigInteger384 denotes: limb 0 is the least significant.   *)
Value(limbs) == FoldLeft(LAMBDA acc, l : acc * LimbBase + l, 0, Reverse(limbs))

Limbs == [1..NumLimbs -> 0..(LimbBase - 1)]

-----------------------------------------------------------------------------
(* BigUint::to_bytes_le: the shortest little-endian bytes, <<0>> for 0.   *)
RECURSIVE ToBytesLE(_)
ToBytesLE(n) ==
  IF n < ByteBase THEN <<n>> ELSE <<n % ByteBase>> \o ToBytesLE(n \div ByteBase)

(* BigUint::from_bytes_le.                                                *)
FromBytesLE(bytes) == FoldLeft(LAMBDA acc, b : acc * ByteBase + b, 0, Reverse(bytes))

(* bytes.resize(BIGINT_NUM_BYTES, 0): cut the high bytes or pad zeros.    *)
Resize(bytes, n) ==
  IF Len(bytes) >= n THEN SubSeq(bytes, 1, n)
  ELSE bytes \o [i \in 1..(n - Len(bytes)) |-> 0]

(* The bytes of one u64 limb in memory, in address order.                 *)
LimbMemory(l) ==
  LET le == Resize(ToBytesLE(l), LimbBytes)
  IN IF HostLittleEndian THEN le ELSE Reverse(le)

(* The u64 stored in LimbBytes bytes of memory.                            *)
MemoryLimb(bytes) ==
  FromBytesLE(IF HostLittleEndian THEN bytes ELSE Reverse(bytes))

(* bigint_of_biginteger (lib.rs:195-199): the limbs' memory read as       *)
(* BIGINT_NUM_BYTES bytes, then BigUint::from_bytes_le.                   *)
BigintOfBiginteger(limbs) ==
  FromBytesLE(FlattenSeq([j \in 1..NumLimbs |-> LimbMemory(limbs[j])]))

(* Seeded fault: no resize, the whole buffer is cast to limbs.            *)
BigintegerOfBigintUnresized(n) ==
  LET raw == ToBytesLE(n)
      whole == ((Len(raw) + LimbBytes - 1) \div LimbBytes) * LimbBytes
      bytes == Resize(raw, IF whole > NumBytes THEN whole ELSE NumBytes)
  IN [j \in 1..(Len(bytes) \div LimbBytes) |->
        MemoryLimb(SubSeq(bytes, (j - 1) * LimbBytes + 1, j * LimbBytes))]

(* Seeded fault: the limbs taken most significant first.                  *)
BigintegerOfBigintLimbsReversed(n) ==
  LET bytes == Resize(ToBytesLE(n), NumBytes)
  IN [j \in 1..NumLimbs |->
        MemoryLimb(SubSeq(bytes, (NumLimbs - j) * LimbBytes + 1, (NumLimbs - j + 1) * LimbBytes))]

(* biginteger_of_bigint (lib.rs:201-209): to_bytes_le, resized to         *)
(* BIGINT_NUM_BYTES, and the byte buffer cast to [u64; BIGINT_NUM_LIMBS]. *)
BigintegerOfBigint(n) ==
  LET bytes == Resize(ToBytesLE(n), NumBytes)
  IN [j \in 1..NumLimbs |->
        MemoryLimb(SubSeq(bytes, (j - 1) * LimbBytes + 1, j * LimbBytes))]

-----------------------------------------------------------------------------
Init ==
  /\ big = [j \in 1..NumLimbs |-> 0]
  /\ meant = 0
  /\ status = "ok"

(* bigint_of_decimal_string (lib.rs:211-220) and bigint_of_numeral        *)
(* (lib.rs:259-271): BigUint::parse_bytes, a panic when the numeral does  *)
(* not parse, then biginteger_of_bigint.  A numeral is abstracted to the  *)
(* number it denotes.                                                      *)
OfNumeral(n) ==
  /\ status = "ok"
  /\ big' = BigintegerOfBigint(n)
  /\ meant' = n
  /\ UNCHANGED status

OfNumeralUnparsable ==
  /\ status = "ok"
  /\ status' = "panic"
  /\ UNCHANGED <<big, meant>>

(* bigint_of_data (lib.rs:234-240): copy_from_slice of the caller's limbs. *)
OfData(limbs) ==
  /\ status = "ok"
  /\ big' = limbs
  /\ meant' = Value(limbs)
  /\ UNCHANGED status

(* bigint_div (lib.rs:248-257): both operands through bigint_of_biginteger,*)
(* BigUint division (a panic on a zero divisor), and back.                *)
Div(y) ==
  /\ status = "ok"
  /\ LET q == BigintOfBiginteger(big)
         d == BigintOfBiginteger(y)
     IN IF d = 0
        THEN /\ status' = "panic"
             /\ UNCHANGED <<big, meant>>
        ELSE /\ big' = BigintegerOfBigint(q \div d)
             /\ meant' = Value(big) \div Value(y)
             /\ UNCHANGED status

Next ==
  \/ \E n \in 0..MaxNumeral : OfNumeral(n)
  \/ OfNumeralUnparsable
  \/ \E limbs \in Limbs : OfData(limbs) \/ Div(limbs)

Spec == Init /\ [][Next]_bvars

-----------------------------------------------------------------------------
TypeOK ==
  /\ big \in Limbs
  /\ meant \in Nat
  /\ status \in {"ok", "panic"}

(* The limbs the bigint stubs return denote the number the caller meant,  *)
(* modulo 2^(BIGINT_NUM_LIMBS * BIGINT_LIMB_BITS), which is               *)
(* 2^BIGINT_NUM_BITS ("This drops the high bits", lib.rs:201):            *)
(* through biginteger_of_bigint after parsing, through the copy of        *)
(* of_data, and through both conversions in div.                          *)
BigintHoldsValue ==
  status = "ok" => Value(big) = meant % (2 ^ (NumLimbs * LimbBits))

=============================================================================
