SPECIFICATION Spec
CONSTANTS
  Subbands = 8
  Tonals <- MCTonals
  Spectra <- MCSpectra
  UseGha <- MCUseGha
  FrameSz = 2048
  MaxFrames = 4
INVARIANTS
  UnitAgrees
  ToneBandsFit
  TonesInStep
PROPERTIES
  UnitIsWritten
CHECK_DEADLOCK FALSE
