SPECIFICATION HelpersSpec
CONSTANTS
  Helper <- TwoHelpers
  NoHelper = "nobody"
  RunsOnCpu = FALSE
  MaxTasks = 2
  MaxRounds = 2
  MaxSearches = 2
  MaxReleases = 2
  MaxHeight = 2
  LocalCapacity = 2
CHECK_DEADLOCK FALSE
INVARIANTS TasksInv CollectorInv
PROPERTIES NoWakeUpIsMissed NoRequestIsLost
