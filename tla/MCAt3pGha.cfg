SPECIFICATION GhaSpec
CONSTANTS
  Subbands = 2
  Inputs <- MCInputs
  Windows <- MCWindows
  Strategies <- MCStrategies
  TonesPerFrame = 5
  TonesPerBand = 3
INVARIANTS
  TonesFit
  TonesRead
PROPERTIES
  AnalysisEnds
CHECK_DEADLOCK FALSE
