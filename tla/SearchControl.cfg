CONSTANTS
  Workers <- TwoWorkers
  Watchdog = "watchdog"
  MaxConcurrent = 1
  NoWorker = "nobody"
SPECIFICATION FairSpec
CHECK_DEADLOCK FALSE
INVARIANTS TypeOK SlotsConserved AnswerDiscipline
PROPERTIES QuietWhenSettled SearchEnds KeepsPromise
