SPECIFICATION DriverSpec
CONSTANTS
  UintRange = 8
  One = 100
  Micro = 10
  Dirs = {"d"}
  Spellings = {"plain"}
  Configs <- MCConfigs
  NewTests <- MCNewTests
  NewFixtures <- MCNewFixtures
  TomlEdits <- MCTomlEdits
  Unterminated = TRUE
  Commands = {"init-suite", "new-test"}
  CommandLimit = 3
  FaultLimit = 0
  EditLimit = 1
INVARIANT AppendKeepsTests
CHECK_DEADLOCK FALSE
