SPECIFICATION Spec
CONSTANTS
  BufSize = 16
  Codecs  <- MCCodecs
  Lengths <- MCLengths
  Errors  <- MCErrors
  None    = None
INVARIANTS
  FramesInOrder
  LookAheadIsNext
  AllCovered
  NothingInvented
PROPERTIES
  EndsNormally
CHECK_DEADLOCK FALSE
