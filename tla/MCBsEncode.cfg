SPECIFICATION FairSpec
CONSTANTS
  NumParts   = 4
  AllocPart  = 2
  LoLambda   = 0
  HiLambda   = 4
  Step       = 1
  Costs      <- MCCosts
  Targets    <- MCTargets
  MaxRepeats = 1
  MaxFrames  = 2
INVARIANTS
  PrefixIsFresh
  AllocFits
  AllocIsTight
PROPERTIES
  Terminates
  ImplementsFrameAlloc
CHECK_DEADLOCK FALSE
