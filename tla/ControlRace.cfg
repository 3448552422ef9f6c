SPECIFICATION StartedSpec
CONSTANTS
  Resources = {"agent", "trajectory_collector", "task_generator"}
  NumRuns = 2
  AutoStart = TRUE
  AutoRun = TRUE
  TasksToBootstrap = 0
  TasksToGenerate = 1
  TasksToSkip = 0
  TasksMayFail = FALSE
  MaxPosts = 1
  MaxFailures = 0
  CeleryMayFail = FALSE
  SlowTasks = TRUE
  QuickAnnounce = TRUE
INVARIANTS
  StartedAsPrepared
CHECK_DEADLOCK FALSE
