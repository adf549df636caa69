\* Circuit shapes up to 8 variables, 5 public inputs and 8 constraints, so
\* that H reaches 8 and the ratio takes the values 0 to 8; a row mentions at
\* most the circuit's last variable.
CONSTANTS
  Abort = Abort
  Zero = Zero
  MatrixNames <- MCMatrixNames
  MaxVars = 8
  MaxPublic = 5
  MaxRows = 8
  MaxRowLen = 1
  LengthsAgree = TRUE
  RowEntries <- MCLastEntry
SPECIFICATION Spec
INVARIANT TypeOK
INVARIANT MapperMatchesLayout
INVARIANT AbortExactlyOnInvalidInput
INVARIANT WitnessLayout
INVARIANT MatrixEncodesRows
INVARIANT VerifierDomainsMatch
\* A panic ends the process; the aborted state is a real end.
CHECK_DEADLOCK FALSE
