SPECIFICATION StartedSpec
CONSTANTS
  Resources = {"agent", "trajectory_collector", "task_generator"}
  NumRuns = 2
  AutoStart = FALSE
  AutoRun = TRUE
  TasksToBootstrap = 0
  TasksToGenerate = 2
  TasksToSkip = 0
  TasksMayFail = FALSE
  MaxPosts = 1
  MaxFailures = 0
  CeleryMayFail = FALSE
  SlowTasks = TRUE
  QuickAnnounce = TRUE
INVARIANTS
  TypeOK
  CommandsMeetTheirStatus
  StartedAsPrepared
  RunsConserved
  ExecutionCompletedSound
  NothingLeftOfTheLastRun
  TrajectoriesObserved
CHECK_DEADLOCK FALSE
