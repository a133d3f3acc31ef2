SPECIFICATION Spec
CONSTANTS
  RawLen = 5
  MarkerLen = 4
  PieceLen = 2
  TagLen = 3
  CoreLen = 5
  Byte <- MCByte
  Bodies <- MCBodies
  Contents <- MCContents
  Gates <- MCGates
INVARIANTS NoBoundarySkipped BlocksAsInBody HealedAsWhole NestedNeverHealed FirstContentSeen
CHECK_DEADLOCK FALSE
