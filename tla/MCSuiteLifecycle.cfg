SPECIFICATION DriverSpec
CONSTANTS
  UintRange = 8
  One = 100
  Micro = 10
  Dirs = {"d", "e"}
  Spellings = {"plain", "slash"}
  Configs <- MCConfigs
  NewTests <- MCOneTest
  NewFixtures <- MCOneFixture
  TomlEdits <- MCNoEdits
  Unterminated = FALSE
  Commands = {"init-suite", "find-suite", "rm", "new-test", "run", "validate"}
  CommandLimit = 5
  FaultLimit = 1
  EditLimit = 0
INVARIANTS
  MarkerIsAdopted
  ValidatePromotesWhatBuilt
CHECK_DEADLOCK FALSE
