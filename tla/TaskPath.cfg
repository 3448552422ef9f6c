SPECIFICATION Spec
CONSTANTS
  NumTasks = 3
  ActionSpace <- OneAction
  BrokerClasses <- OneClass
  Prefetch = 2
  NeedState = TRUE
  MaxRetries = 5
  MaxFailures = 0
  LoadTimeouts = FALSE
  TasksMayFail = TRUE
  SlowTasks = TRUE
INVARIANTS
  ChainInOrder
  LearnedHasRecord
  HistoryIsComplete
PROPERTIES
  RunEnds
  RewardsAreLearned
CHECK_DEADLOCK FALSE
