\* The stubs with fp_to_string and fq_to_string.
CONSTANTS
  p1 = p1  p2 = p2  p3 = p3  p4 = p4
  v1 = v1  v2 = v2
  NoPtr = NoPtr
  Ptrs <- MCPtrs
  Vals <- MCVals
  MaxLen = 2
SYMMETRY MCSymmetry
INVARIANT BorrowedValid
SPECIFICATION SpecWithStrings
\* A panic ends the process, and a caller that has used every address and
\* deleted everything has nothing left to call: both are real ends.
CHECK_DEADLOCK FALSE
