SPECIFICATION Spec
CONSTANTS
  WallTimes <- MCWallTimes
  JitterWindow = 3
  MinSamples = 2
  MaxLevelShifts = 2
  JitterPct = 20
  Tiers <- MCTiers
  DerivedCvPct = 2
  DerivedConsecutiveCap = 3
  TotalCapShare = 1
  TotalCapFloor = 2
  ConfigKnobs <- MCConfigKnobs
INVARIANTS
  TypeOK
  DiscardsAreAccounted
  DiscardRunIsSlower
  WindowHoldsNewest
PROPERTIES
  LevelShiftIsSlower
  ShiftedBaselineIsSteady
  EverySliceCounts
  Terminates
CHECK_DEADLOCK FALSE
