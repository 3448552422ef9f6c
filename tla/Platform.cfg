SPECIFICATION PlatformSpec
CONSTANTS
  Resources = {r1, r2, r3}
  NumRuns = 3
  Files <- MCFiles
  WorkerClasses = {"cpu"}
  PoolSize = 1
  MaxRequests = 2
  MaxFaults = 1
  MaxRestarts = 1
  Replicas <- MCReplicas
  MaxStarts = 2
  MaxChanges = 3
INVARIANTS
  TypesOK
  OneRunAtATime
PROPERTIES
  NobodyBehind
  DeployedIsComplete
  CleanedUp
  JobsEnd
  PoolSettles
  ReadyIsReported
CHECK_DEADLOCK FALSE
