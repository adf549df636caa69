\* Two-bit bytes, two-byte limbs, eight bits in all (two limbs), a
\* little-endian build, and numerals up to 600, past 2^8 and 2^9.
CONSTANTS
  ByteBits = 2
  LimbBytes = 2
  NumBits = 8
  HostLittleEndian = TRUE
  MaxNumeral = 600
SPECIFICATION Spec
INVARIANT TypeOK
INVARIANT BigintHoldsValue
\* Every panic (an unparsable numeral, a zero divisor) ends the process.
CHECK_DEADLOCK FALSE
