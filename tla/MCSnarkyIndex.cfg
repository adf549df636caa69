\* One matrix, circuits of up to 3 variables and 4 constraints, rows of up
\* to 2 entries with as many coefficients as indices.
CONSTANTS
  Abort = Abort
  Zero = Zero
  MatrixNames <- MCMatrixNames
  MaxVars = 3
  MaxPublic = 3
  MaxRows = 4
  MaxRowLen = 2
  LengthsAgree = TRUE
  RowEntries <- MCAnyEntry
SPECIFICATION Spec
INVARIANT TypeOK
INVARIANT MapperMatchesLayout
INVARIANT AbortExactlyOnInvalidInput
INVARIANT WitnessLayout
INVARIANT MatrixEncodesRows
INVARIANT VerifierDomainsMatch
\* A panic ends the process and proof_create may be repeated forever; the
\* aborted state is a real end.
CHECK_DEADLOCK FALSE
