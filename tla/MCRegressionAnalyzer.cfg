SPECIFICATION AnalyzerSpec
CONSTANTS
  TestIds = {t1, t2}
  KStddev = 2
  MinHistoryFloor = 3
  Results <- MCResults
  JudgeLimit = 4
INVARIANTS
  HistoryIsTheTrustedRuns
  VerdictNeedsHistory
  WorstOutcomeIsKept
CHECK_DEADLOCK FALSE
