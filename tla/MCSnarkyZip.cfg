\* Rows whose coefficient vector may be shorter or longer than their index
\* vector (a caller error the spec says must be fatal).
CONSTANTS
  Abort = Abort
  Zero = Zero
  MatrixNames <- MCMatrixNames
  MaxVars = 2
  MaxPublic = 2
  MaxRows = 2
  MaxRowLen = 2
  LengthsAgree = FALSE
  RowEntries <- MCAnyEntry
SPECIFICATION Spec
INVARIANT MatrixEncodesRows
CHECK_DEADLOCK FALSE
