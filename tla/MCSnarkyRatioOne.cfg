\* Circuit shapes up to 4 variables and 4 constraints with up to 3 public
\* inputs: the smallest bounds at which X = H while auxiliary inputs exist.
CONSTANTS
  Abort = Abort
  Zero = Zero
  MatrixNames <- MCMatrixNames
  MaxVars = 4
  MaxPublic = 3
  MaxRows = 4
  MaxRowLen = 1
  LengthsAgree = TRUE
  RowEntries <- MCLastEntry
SPECIFICATION Spec
PROPERTY ImplementsAbstractIndex
CHECK_DEADLOCK FALSE
