SPECIFICATION Spec
CONSTANTS
  NumTasks = 2
  ActionSpace <- ThreeActions
  BrokerClasses <- TwoClasses
  Prefetch = 2
  NeedState = TRUE
  MaxRetries = 1
  MaxFailures = 2
  LoadTimeouts = TRUE
  TasksMayFail = TRUE
  SlowTasks = TRUE
INVARIANTS
  TypeOK
  LoadAccounts
  RewardOfTheAction
  NothingLeftToExecute
PROPERTIES
  StateIsKept
  ImplementsLife
CHECK_DEADLOCK FALSE
