SPECIFICATION Spec
CONSTANTS
  PieceLen = 3
  Contents <- MCContents
  Gates <- MCGates
  Companions <- MCCompanions
INVARIANTS WellFormed CompletedMatchesStream HealthyUntouched StreamedAsBlocking
CHECK_DEADLOCK FALSE
