SPECIFICATION MachineSpec
CONSTANTS
  WallTimes <- MCWallTimes
  JitterWindow = 4
  MinSamples = 2
  MaxLevelShifts = 2
  JitterPct = 20
  Tiers <- MCTiers
  DerivedCvPct = 2
  DerivedConsecutiveCap = 3
  TotalCapShare = 1
  TotalCapFloor = 4
  ConfigKnobs <- MCConfigKnobs
  Speeds <- MCSpeeds
  SpikeTime = 50
  SpikeLimit = 2
  Hold = 3
INVARIANTS
  SettlingNeverFails
  MeanIsOneSpeed
CHECK_DEADLOCK FALSE
