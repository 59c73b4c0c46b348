SPECIFICATION RunnerSpec
CONSTANTS
  b1 = b1
  b2 = b2
  Bits = {b1, b2}
  MaxUniqueHashes = 3
  WallTimes <- MCWallTimes
  JitterWindow = 2
  MinSamples = 1
  MaxLevelShifts = 1
  JitterPct = 20
  Tiers <- MCTiers
  DerivedCvPct = 2
  DerivedConsecutiveCap = 2
  TotalCapShare = 1
  TotalCapFloor = 2
  ConfigKnobs <- MCConfigKnobs
  Configs <- MCConfigs
  CalibrationProbes = 3
  ProbeTimes = {5, 6}
  TargetSlice = 12
  MaxAutoIterations = 4
  MaxWork = 2
  Produces <- MCProduces
INVARIANT
  DivergenceIsReported
CHECK_DEADLOCK FALSE
