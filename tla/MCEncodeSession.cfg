SPECIFICATION Spec
CONSTANTS
  Word32 <- MCWord32
  Requests <- MCRequests
  MaxFrames = 9
  Cuts = {0, 5, 191}
INVARIANTS
  HeadersTell
  PacketsLead
  ExitTells
CHECK_DEADLOCK FALSE
