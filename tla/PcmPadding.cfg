SPECIFICATION Spec
CONSTANTS
  BufSize = 16
  Codecs  <- MCCodecs
  Lengths <- MCLengths
  Errors  <- MCErrors
  None    = None
INVARIANTS
  PaddingIsSilent
CHECK_DEADLOCK FALSE
