\* The stubs without to_string, under the OCaml caller's discipline.
CONSTANTS
  p1 = p1  p2 = p2  p3 = p3  p4 = p4
  v1 = v1  v2 = v2
  NoPtr = NoPtr
  Ptrs <- MCPtrs
  Vals <- MCVals
  MaxLen = 2
SYMMETRY MCSymmetry
SPECIFICATION Spec
INVARIANT TypeOK
INVARIANT MemorySafe
\* A panic ends the process, and a caller that has used every address and
\* deleted everything has nothing left to call: both are real ends.
CHECK_DEADLOCK FALSE
