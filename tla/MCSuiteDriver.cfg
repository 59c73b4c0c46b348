SPECIFICATION SuiteSpec
CONSTANTS
  t1 = t1
  t2 = t2
  t3 = t3
  fast = fast
  slow = slow
  TestIds = {t1, t2, t3}
  Fixtures = {fast, slow}
  Suites <- MCSuites
  Listeners <- MCListeners
  MaxStoredResults = 4
  Cooldowns = {TRUE, FALSE}
  Throughputs = {10}
  RunLimit = 2
  KStddev = 3
  MinHistoryFloor = 2
  Results <- NoResults
  JudgeLimit = 0
INVARIANTS
  ListenersHearTheSuite
  JudgesAgree
  StoredAreTheFirst
  PerformanceStartsCool
PROPERTIES
  SuiteReturns
CHECK_DEADLOCK FALSE
