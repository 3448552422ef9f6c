SPECIFICATION StartedFairSpec
CONSTANTS
  Resources = {"agent", "trajectory_collector", "task_generator"}
  NumRuns = 1
  AutoStart = TRUE
  AutoRun = TRUE
  TasksToBootstrap = 0
  TasksToGenerate = 1
  TasksToSkip = 0
  TasksMayFail = TRUE
  MaxPosts = 0
  MaxFailures = 1
  CeleryMayFail = FALSE
  SlowTasks = TRUE
  QuickAnnounce = TRUE
PROPERTIES
  ErrorIsFinal
  FailuresAreReported
CHECK_DEADLOCK FALSE
