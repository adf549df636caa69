\* The same widths in a big-endian build (e.g. powerpc64 or s390x).
CONSTANTS
  ByteBits = 2
  LimbBytes = 2
  NumBits = 8
  HostLittleEndian = FALSE
  MaxNumeral = 600
SPECIFICATION Spec
INVARIANT BigintHoldsValue
\* Every panic (an unparsable numeral, a zero divisor) ends the process.
CHECK_DEADLOCK FALSE
