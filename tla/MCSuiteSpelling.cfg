SPECIFICATION DriverSpec
CONSTANTS
  UintRange = 8
  One = 100
  Micro = 10
  Dirs = {"d"}
  Spellings = {"plain", "slash"}
  Configs <- MCConfigs
  NewTests <- MCOneTest
  NewFixtures <- MCOneFixture
  TomlEdits <- MCNoEdits
  Unterminated = FALSE
  Commands = {"init-suite", "find-suite", "rm"}
  CommandLimit = 3
  FaultLimit = 0
  EditLimit = 0
INVARIANT RemovedSuiteIsUnadopted
CHECK_DEADLOCK FALSE
