SPECIFICATION FairSpec
CONSTANTS
  Resources = {"trajectory_collector", "task_generator"}
  NumRuns = 2
  AutoStart = FALSE
  AutoRun = TRUE
  TasksToBootstrap = 0
  TasksToGenerate = 2
  TasksToSkip = 0
  TasksMayFail = FALSE
  MaxPosts = 0
  MaxFailures = 0
  CeleryMayFail = TRUE
  SlowTasks = FALSE
  QuickAnnounce = TRUE
PROPERTIES
  StartUpCompletes
CHECK_DEADLOCK FALSE
