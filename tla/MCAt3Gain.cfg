SPECIFICATION GainSpec
CONSTANTS
  Sounds <- MCSounds
  MaxUnits = 3
INVARIANTS
  SoundRestored
  CurveFollows
  TargetIsFresh
CHECK_DEADLOCK FALSE
