SPECIFICATION Spec
CONSTANTS
  Word32 <- MCWord32
  Requests <- BitrateRequests
  MaxFrames = 0
  Cuts = {0, 5, 191}
INVARIANTS
  BitrateIsListed
CHECK_DEADLOCK FALSE
