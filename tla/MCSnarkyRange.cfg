\* Rows that mention flat index vars, one past the last variable (a caller
\* error the spec says must be fatal).
CONSTANTS
  Abort = Abort
  Zero = Zero
  MatrixNames <- MCMatrixNames
  MaxVars = 2
  MaxPublic = 2
  MaxRows = 2
  MaxRowLen = 1
  LengthsAgree = TRUE
  RowEntries <- MCBeyondEntry
SPECIFICATION Spec
INVARIANT MatrixEncodesRows
CHECK_DEADLOCK FALSE
