SPECIFICATION SecondRunSpec
CONSTANTS
  Resources = {"agent", "trajectory_collector", "task_generator"}
  NumRuns = 2
  AutoStart = TRUE
  AutoRun = TRUE
  TasksToBootstrap = 2
  TasksToGenerate = 2
  TasksToSkip = 1
  TasksMayFail = FALSE
  MaxPosts = 0
  MaxFailures = 0
  CeleryMayFail = FALSE
  SlowTasks = TRUE
  QuickAnnounce = TRUE
PROPERTIES
  AllRunsExecuted
CHECK_DEADLOCK FALSE
