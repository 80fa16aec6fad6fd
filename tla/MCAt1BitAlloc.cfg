SPECIFICATION Spec
CONSTANTS
  MaxBfus = 52
  SpecsPerBlock <- MCSpecsPerBlock
  BfuToBand <- MCBfuToBand
  BfuAmountTab <- MCBfuAmountTab
  FixedLong <- MCFixedLong
  FixedShort <- MCFixedShort
  Boosted <- BitBoostMask
  SoundUnitSize = 212
  Unit = 2
  Frames <- MCFrames
  BfuIdxConsts = {0, 3}
  MaxFrames = 1
INVARIANTS
  SurplusIsExact
  FitsUnit
  BoostIsMaximal
  NoSilentTail
PROPERTIES
  FrameIsWritten
CHECK_DEADLOCK FALSE
