\* All three matrices a, b and c, filled in any interleaving of appends and
\* of any lengths (index_create may come before b or c has caught up with
\* a); circuits up to 2 variables, 2 rows per matrix, one entry per row.
CONSTANTS
  Abort = Abort
  Zero = Zero
  MatrixNames <- MCMatrixNamesABC
  MaxVars = 2
  MaxPublic = 2
  MaxRows = 2
  MaxRowLen = 1
  LengthsAgree = TRUE
  RowEntries <- MCAnyEntry
SPECIFICATION Spec
INVARIANT TypeOK
INVARIANT AbortExactlyOnInvalidInput
INVARIANT WitnessLayout
INVARIANT MatrixEncodesRows
INVARIANT VerifierDomainsMatch
\* A panic ends the process; the aborted state is a real end.
CHECK_DEADLOCK FALSE
