SPECIFICATION DriverSpec
CONSTANTS
  UintRange = 8
  One = 100
  Micro = 10
  Dirs = {"d"}
  Spellings = {"plain"}
  Configs <- MCConfigs
  NewTests <- MCOneTest
  NewFixtures <- MCNewFixtures
  TomlEdits <- MCTomlEdits
  Unterminated = TRUE
  Commands = {"init-suite", "new-test", "run", "validate"}
  CommandLimit = 4
  FaultLimit = 1
  EditLimit = 1
INVARIANTS
  ProgramIsDeclared
  NewTestIsDeclared
  TestsHaveFixtures
  SettingsReachProgram
CHECK_DEADLOCK FALSE
