SPECIFICATION IsolatedSpec
CONSTANTS
  Programs <- MCPrograms
  Additions <- MCAdditions
  Patterns <- MCPatterns
  Timeouts = {0, 1, 8}
  Cooldowns = {0, 1}
  Platforms = {"windows", "posix"}
  MsPerSecond = 2
  MsRange = 16
INVARIANTS
  VerdictsAreTrue
  FilterIsGlob
PROPERTY IsolateReturns
CHECK_DEADLOCK FALSE
