SPECIFICATION Spec
CONSTANTS
  BlockSizeTab <- MCBlockSizeTab
  FixedBitAllocTable <- MCFixedBitAllocTable
  ScaleFactorDivisor <- MCScaleFactorDivisor
  ClcLengthTab <- MCClcLengthTab
  ContainerParams <- MCContainerParams
  Unit = 1
  Channels <- MCChannels
  Empty = Empty
  Inputs <- MCInputs
  BfuIdxConsts = {0, 12}
  MaxUnits = 1
INVARIANTS
  FitsShare
  MantissasMatch
  TonalsDecode
PROPERTIES
  UnitIsWritten
CHECK_DEADLOCK FALSE
