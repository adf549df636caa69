\* Fq path: circuits up to 2 variables and 2 one-entry rows, and every
\* prev_challenges of up to 5 and prev_sgs of up to 3 elements, so that the
\* split meets an empty prev_sgs, chunks of length 0, 1 and 2, and a
\* remainder of 1 and 2.
CONSTANTS
  Abort = Abort
  Zero = Zero
  MatrixNames <- MCMatrixNames
  MaxVars = 2
  MaxPublic = 2
  MaxRows = 2
  MaxRowLen = 1
  LengthsAgree = TRUE
  RowEntries <- MCAnyEntry
  MaxChallenges = 5
  MaxSgs = 3
SPECIFICATION DlogSpec
INVARIANT DlogTypeOK
INVARIANT PrevIsChunking
\* A panic ends the process; the aborted state is a real end.
CHECK_DEADLOCK FALSE
