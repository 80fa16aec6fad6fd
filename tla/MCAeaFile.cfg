SPECIFICATION Spec
CONSTANTS
  BlockFrames = 8
  Wrap = 1000
  Totals <- MCTotals
  MaxDamaged = 1
  Dummy = Dummy
  Malformed = Malformed
  Silence = Silence
INVARIANTS
  UnitsInPlace
  DecodedInPlace
  OwnFilesDecode
  AtMostABlockLost
PROPERTIES
  Returns
CHECK_DEADLOCK FALSE
