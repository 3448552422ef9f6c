SPECIFICATION Spec
CONSTANTS
  NumActions = 2
  NumTasks = 2
  Configs <- MCConfigs
  LoadedModel <- MCNoModel
  Rewards <- MCRewards
INVARIANTS
  BestCheckpointSaved
CHECK_DEADLOCK FALSE
