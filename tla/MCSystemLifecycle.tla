-------------------------- MODULE MCSystemLifecycle --------------------------
(***************************************************************************)
(* SystemLifecycle for TLC: the state in which a start-up leaves the        *)
(* system, to check what follows it without the interleavings of the        *)
(* start-up itself, which the runs from Init check; and a state of a second *)
(* run in which a task of the first one is still executed.                  *)
(***************************************************************************)
EXTENDS SystemLifecycleRefinement

\* every component is up and WAITING, and the manager is about to be told
Started ==
  /\ boot = [c \in Components |-> "up"]
  /\ inbox = [c \in Components |->
                IF c = SystemManager THEN <<SystemStatusChanged("WAITING")>> ELSE <<>>]
  /\ outbox = [c \in Components |-> <<>>]
  /\ status = [r \in Resources |-> "WAITING"] /\ initialized = Resources
  /\ smStatus = "RUNNING" /\ systemStatus = "WAITING" /\ celeryStatus = "RUNNING"
  /\ celeryCheck = "done" /\ resourcesStatus = [r \in Resources |-> "WAITING"]
  /\ runCode = [r \in Resources |-> NoRun]
  /\ agentPhase = "WAIT" /\ nRewardObservation = 0
  /\ collectorPhase = "WAIT" /\ builderPhase = "WAIT"
  /\ taskToExecute = 0 /\ taskCompleted = 0 /\ notifying = FALSE
  /\ generating = "WAIT" /\ taskIndex = 0 /\ tasksScheduled = 0
  /\ statsGroups = {} /\ smRunCode = NoRun /\ smPhase = "WAIT"
  /\ isFirstRun = TRUE /\ isAutoRun = AutoRun
  /\ runsToExecute = [i \in 1..NumRuns |-> i]
  /\ currentRun = NoRun /\ currentRunStarted = FALSE
  /\ isCurrentExecutionCompleted = TRUE /\ executedRuns = <<>>
  /\ scheduler = [t \in {"consumer", "control"} |-> "idle"]
  /\ sent = 0 /\ created = 0 /\ rewarded = {} /\ failed = {} /\ notified = {} /\ late = 0
  /\ posts = 0 /\ failures = 0

\* the bootstrap of the second run has just been observed, while the last task of the first run is
\* still executed: a bootstrapping task was counted in its place, and so that run ended before it
SecondBootstrapDone ==
  /\ boot = [c \in Components |-> "up"]
  /\ inbox = [c \in Components |->
                IF c = Agent THEN <<>> ELSE <<ExecutionCompleted("BOOTSTRAP")>>]
  /\ outbox = [c \in Components |-> <<>>]
  /\ status = [r \in Resources |-> "RUNNING"] /\ initialized = Resources
  /\ smStatus = "RUNNING" /\ systemStatus = "RUNNING" /\ celeryStatus = "RUNNING"
  /\ celeryCheck = "done" /\ resourcesStatus = [r \in Resources |-> "RUNNING"]
  /\ runCode = [r \in Resources |-> 2]
  /\ agentPhase = "BOOTSTRAP" /\ nRewardObservation = TasksToBootstrap - 1
  /\ collectorPhase = "BOOTSTRAP" /\ builderPhase = "BOOTSTRAP"
  /\ taskToExecute = TasksToGenerate /\ taskCompleted = TasksToSkip + TasksToBootstrap - 1
  /\ notifying = FALSE /\ generating = "WAIT" /\ taskIndex = TasksToBootstrap /\ tasksScheduled = 0
  /\ statsGroups = {"global_stats", "agent_stats"} /\ smRunCode = 2 /\ smPhase = "BOOTSTRAP"
  /\ isFirstRun = FALSE /\ isAutoRun = AutoRun
  /\ executedRuns = <<1>> /\ currentRun = 2 /\ runsToExecute = [i \in 1..NumRuns - 2 |-> i + 2]
  /\ currentRunStarted = TRUE /\ isCurrentExecutionCompleted = FALSE
  /\ scheduler = [t \in {"consumer", "control"} |-> "idle"]
  /\ sent = TasksToBootstrap /\ created = TasksToBootstrap
  /\ rewarded = 1..(TasksToBootstrap - 1) /\ failed = {} /\ notified = rewarded /\ late = 1
  /\ posts = 0 /\ failures = 0

\* a run has been executed and its resources wait; the next one is about to be prepared
BetweenRuns ==
  /\ boot = [c \in Components |-> "up"]
  /\ inbox = [c \in Components |->
                IF c = SystemManager THEN <<SystemStatusChanged("WAITING")>> ELSE <<>>]
  /\ outbox = [c \in Components |-> <<>>]
  /\ status = [r \in Resources |-> "WAITING"] /\ initialized = Resources
  /\ smStatus = "RUNNING" /\ systemStatus = "WAITING" /\ celeryStatus = "RUNNING"
  /\ celeryCheck = "done" /\ resourcesStatus = [r \in Resources |-> "WAITING"]
  /\ runCode = [r \in Resources |-> 1]
  /\ agentPhase = "WAIT" /\ collectorPhase = "WAIT" /\ builderPhase = "RUN"
  /\ taskToExecute = TasksToGenerate /\ taskCompleted = TasksToGenerate /\ notifying = FALSE
  /\ generating = "WAIT" /\ taskIndex = TasksToGenerate /\ tasksScheduled = TasksToGenerate
  /\ statsGroups = StatsGroups /\ smRunCode = NoRun /\ smPhase = "WAIT"
  /\ isFirstRun = FALSE /\ isAutoRun = AutoRun
  /\ executedRuns = <<1>> /\ currentRun = NoRun /\ runsToExecute = [i \in 1..NumRuns - 1 |-> i + 1]
  /\ currentRunStarted = TRUE /\ isCurrentExecutionCompleted = TRUE
  /\ scheduler = [t \in {"consumer", "control"} |-> "idle"]
  /\ sent = TasksToBootstrap + TasksToGenerate - TasksToSkip /\ created = sent
  /\ rewarded = 1..sent /\ failed = {} /\ notified = 1..(sent - 1) /\ late = 0
  /\ nRewardObservation = sent - 1
  /\ posts = 0 /\ failures = 0

StartedSpec == Started /\ [][Next]_vars
StartedFairSpec == StartedSpec /\ Fairness
SecondRunSpec == (BetweenRuns \/ SecondBootstrapDone) /\ [][Next]_vars /\ Fairness

=============================================================================
