SPECIFICATION AgentsSpec
CONSTANTS
  Multis <- MCMultis
  Template <- MCTemplate
  SeedValues = {1, 2, 3}
  StartFrom = 1
  MaxAdds = 1
  NumActions = 2
  NumTasks = 3
  Configs <- MCAgentConfigs
  LoadedModel <- MCModel
  Rewards <- MCRewards
  RunEnds <- MCRunEnds
  SaveInterval = 2
  Schedules <- MCSchedules
  NumWorkerClasses = 2
  NumTaskClasses = 2
  NumSeen = 2
  Views <- MCViews
  WorkersOf <- MCWorkersOf
  CapacityUsage <- MCUsage
  WindowSize = 1
  Waits <- MCWaits
  Runtimes = {3}
  Files <- MCFiles
  MaxPerMachine = "1"
  Plans <- MCPlans
  Threads = {1, 2}
  BatchSize = 1
  RowBatch = 1
  NumClasses = 2
  MaxFaults = 1
INVARIANTS
  TypesOK
  RunsAreTheSearch
  LearningKeepsUp
  ValidationByStep
  TrajectoriesSavedOnce
  FeaturesAreTrue
  SavedStatsAreTrue
  DatasetIsTrue
CHECK_DEADLOCK FALSE
