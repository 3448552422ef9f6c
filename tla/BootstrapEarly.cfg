SPECIFICATION StartedSpec
CONSTANTS
  Resources = {"agent", "trajectory_collector", "task_generator"}
  NumRuns = 1
  AutoStart = TRUE
  AutoRun = TRUE
  TasksToBootstrap = 2
  TasksToGenerate = 1
  TasksToSkip = 0
  TasksMayFail = FALSE
  MaxPosts = 0
  MaxFailures = 0
  CeleryMayFail = FALSE
  SlowTasks = TRUE
  QuickAnnounce = TRUE
INVARIANTS
  ExecutionCompletedSound
CHECK_DEADLOCK FALSE
