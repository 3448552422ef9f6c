--------------------------- MODULE SystemLifecycle ---------------------------
(***************************************************************************)
(* The run lifecycle of RLQ: the system manager (with its run manager), the *)
(* three resources it watches, and the one redis pub/sub topic they talk    *)
(* over.  The system manager turns the statuses the resources report into   *)
(* a system status; the run manager turns that status into PREPARE and      *)
(* START commands; the statistics of a finished execution end the run.      *)
(*                                                                          *)
(* Every publish reaches every subscriber, in one order (redis delivers a   *)
(* channel that way), and a component handles its events one at a time in   *)
(* its consumer thread.  inbox[c] is what c has still to handle; outbox[c]  *)
(* is what the handler c is running has still to publish, so that the       *)
(* publishes of two components interleave.  An event is put in an inbox     *)
(* only if the component's callback for it does something.                  *)
(*                                                                          *)
(* The path of one task (broker, queues, trajectory) is reduced here to     *)
(* what the lifecycle sees of it: a task is sent, then its reward is        *)
(* computed, and its trajectory completes once the next one is created too. *)
(***************************************************************************)
EXTENDS Naturals, Sequences, FiniteSets

CONSTANTS
  Resources,         \* config/system_manager.yml, system_resources
  NumRuns,           \* length of the list prepare_runs_config generates
  AutoStart,         \* config/system_manager.yml, run_manager.auto_start
  AutoRun,           \* config/system_manager.yml, run_manager.auto_run
  TasksToBootstrap,  \* bootstrapping.tasks_to_generate, 0 when disabled
  TasksToGenerate,   \* tasks_to_generate, summed over the rounds
  TasksToSkip,       \* tasks_to_generate[..].skip, summed over the rounds
  TasksMayFail,      \* whether the execution of a task may fail
  MaxPosts,          \* bound: REST requests to ControlRunResources
  MaxFailures,       \* bound: exceptions in prepare_run and start_run
  CeleryMayFail,     \* whether celery may stay unreachable
  SlowTasks,         \* whether a task takes longer than the delivery of an event
  QuickAnnounce      \* whether Context.init publishes the status before it can change

SystemManager == "system_manager"
Agent == "agent"
Collector == "trajectory_collector"
Generator == "task_generator"
Celery == "celery"
Components == Resources \union {SystemManager}

ASSUME LifecycleAssumption ==
  /\ Resources \subseteq {Agent, Collector, Generator} /\ Resources # {}
  /\ NumRuns \in Nat /\ TasksToBootstrap \in Nat
  /\ TasksToGenerate \in Nat /\ TasksToSkip \in 0..TasksToGenerate
  /\ MaxPosts \in Nat /\ MaxFailures \in Nat
  /\ {AutoStart, AutoRun, TasksMayFail, CeleryMayFail, SlowTasks, QuickAnnounce} \subseteq BOOLEAN

Status == {"NOT_READY", "WAITING", "READY", "RUNNING", "STOPPED", "ERROR"}
RunPhase == {"WAIT", "BOOTSTRAP", "RUN"}
StatsGroups == {"global_stats", "agent_stats", "execution_history_stats", "tasks_generated"}
Runs == 1..NumRuns
NoRun == 0
MaybeRun == Runs \union {NoRun}

-----------------------------------------------------------------------------
(* Events of the topic. *)

SystemStatusChanged(s) == [type |-> "SYSTEM_STATUS_CHANGED", status |-> s]
ResourceStatusChanged(n, s) == [type |-> "RESOURCE_STATUS_CHANGED", name |-> n, status |-> s]
PrepareNewRun(run) == [type |-> "PREPARE_NEW_RUN", run |-> run]
StartRun(run) == [type |-> "START_RUN", run |-> run]
RunCompleted(run) == [type |-> "RUN_COMPLETED", run |-> run]
StatsUpdated(group) == [type |-> "STATS_UPDATED", group |-> group]
SchedulingStarted(phase, n) == [type |-> "SCHEDULING_STARTED", phase |-> phase, tasks |-> n]
SchedulingCompleted(phase, n) == [type |-> "SCHEDULING_COMPLETED", phase |-> phase, tasks |-> n]
TrajectoryCompleted == [type |-> "TRAJECTORY_COMPLETED"]
ExecutionCompleted(phase) == [type |-> "EXECUTION_COMPLETED", phase |-> phase]

Event ==
  [type : {"SYSTEM_STATUS_CHANGED"}, status : Status]
    \union [type : {"RESOURCE_STATUS_CHANGED"}, name : Components \union {Celery}, status : Status]
    \union [type : {"PREPARE_NEW_RUN", "START_RUN", "RUN_COMPLETED"}, run : MaybeRun]
    \union [type : {"STATS_UPDATED"}, group : StatsGroups]
    \union [type : {"SCHEDULING_STARTED", "SCHEDULING_COMPLETED"}, phase : RunPhase, tasks : Nat]
    \union [type : {"TRAJECTORY_COMPLETED"}]
    \union [type : {"EXECUTION_COMPLETED"}, phase : RunPhase]

VARIABLES
  \* the topic and the consumer threads
  boot,               \* how far a component's start-up has come
  inbox, outbox,
  \* the contexts of the resources
  status, initialized, runCode,
  agentPhase, nRewardObservation,
  collectorPhase, builderPhase, taskToExecute, taskCompleted, notifying,
  generating, taskIndex, tasksScheduled,
  \* SystemManager and its context
  smStatus, systemStatus, celeryStatus, resourcesStatus, statsGroups, smRunCode, smPhase,
  celeryCheck,
  \* RunManager
  isFirstRun, isAutoRun, runsToExecute, currentRun, currentRunStarted,
  isCurrentExecutionCompleted, executedRuns,
  scheduler,          \* how far schedule_next_run has come in each thread that calls it
  \* tasks of the current run, numbered in the order they are sent; trajectories 1..created exist
  sent, created, rewarded, failed, notified,
  late,               \* tasks of earlier runs still being executed
  posts, failures     \* counters of what MaxPosts and MaxFailures bound

busVars == <<inbox, outbox>>
contextVars == <<status, initialized, runCode>>
agentVars == <<agentPhase, nRewardObservation>>
collectorVars == <<collectorPhase, builderPhase, taskToExecute, taskCompleted, notifying>>
generatorVars == <<generating, taskIndex, tasksScheduled>>
managerVars == <<smStatus, systemStatus, celeryStatus, resourcesStatus, statsGroups, smRunCode,
                 smPhase, celeryCheck>>
runVars == <<isFirstRun, isAutoRun, runsToExecute, currentRun, currentRunStarted,
             isCurrentExecutionCompleted, executedRuns, scheduler>>
taskVars == <<sent, created, rewarded, failed, notified, late>>
boundVars == <<posts, failures>>
resourceVars == <<contextVars, agentVars, collectorVars, generatorVars>>
vars == <<boot, busVars, resourceVars, managerVars, runVars, taskVars, boundVars>>

Init ==
  /\ boot = [c \in Components |-> "off"]
  /\ inbox = [c \in Components |-> <<>>]
  /\ outbox = [c \in Components |-> <<>>]
  /\ status = [r \in Resources |-> "NOT_READY"]
  /\ initialized = {}
  /\ runCode = [r \in Resources |-> NoRun]
  /\ agentPhase = "WAIT" /\ nRewardObservation = 0
  /\ collectorPhase = "WAIT" /\ builderPhase = "WAIT"
  /\ taskToExecute = 0 /\ taskCompleted = 0 /\ notifying = FALSE
  /\ generating = "WAIT" /\ taskIndex = 0 /\ tasksScheduled = 0
  /\ smStatus = "NOT_READY" /\ systemStatus = "NOT_READY" /\ celeryStatus = "NOT_READY"
  /\ resourcesStatus = [r \in Resources |-> "NOT_READY"]
  /\ statsGroups = {} /\ smRunCode = NoRun /\ smPhase = "WAIT" /\ celeryCheck = "off"
  /\ isFirstRun = TRUE /\ isAutoRun = AutoRun
  /\ runsToExecute = [i \in 1..NumRuns |-> i]
  /\ currentRun = NoRun /\ currentRunStarted = FALSE
  /\ isCurrentExecutionCompleted = TRUE /\ executedRuns = <<>>
  /\ scheduler = [t \in {"consumer", "control"} |-> "idle"]
  /\ sent = 0 /\ created = 0 /\ rewarded = {} /\ failed = {} /\ notified = {} /\ late = 0
  /\ posts = 0 /\ failures = 0

-----------------------------------------------------------------------------
(* The topic. *)

Up(c) == boot[c] # "off"

Contents(queue) == {queue[i] : i \in DOMAIN queue}

\* the events whose callback, in the *_CONSUMER_CALLBACKS table of c, does something
Relevant(c, e) ==
  IF c = SystemManager
  THEN \/ e.type = "SYSTEM_STATUS_CHANGED" /\ e.status \in {"WAITING", "READY"}
       \/ e.type = "RESOURCE_STATUS_CHANGED" /\ (e.name = SystemManager => e.status = "ERROR")
       \/ e.type \in {"PREPARE_NEW_RUN", "STATS_UPDATED", "SCHEDULING_STARTED",
                      "EXECUTION_COMPLETED", "RUN_COMPLETED"}
  ELSE \/ e.type \in {"PREPARE_NEW_RUN", "START_RUN", "RUN_COMPLETED"}
       \/ e.type = "RESOURCE_STATUS_CHANGED" /\ e.name = c
       \/ e.type = "RESOURCE_STATUS_CHANGED" /\ e.name = SystemManager /\ e.status = "RUNNING"
       \/ e.type = "SCHEDULING_STARTED" /\ c # Generator
       \/ e.type = "SCHEDULING_COMPLETED" /\ (c = Collector \/ (c = Generator /\ e.phase = "RUN"))
       \/ e.type = "TRAJECTORY_COMPLETED" /\ c = Agent
       \/ e.type = "EXECUTION_COMPLETED" /\ c = Agent /\ e.phase = "RUN"
       \/ e.type = "EXECUTION_COMPLETED" /\ c = Generator /\ e.phase = "BOOTSTRAP"
       \/ e.type = "EXECUTION_COMPLETED" /\ c = Collector

\* the inboxes ib after the publication of e
Deliver(ib, e) ==
  [c \in Components |-> IF Up(c) /\ Relevant(c, e) THEN Append(ib[c], e) ELSE ib[c]]

\* a thread other than the consumer threads publishes e
Publish(e) == inbox' = Deliver(inbox, e) /\ UNCHANGED outbox

\* the consumer thread of c is not inside a handler
Idle(c) ==
  /\ outbox[c] = <<>>
  /\ c = Generator => generating = "WAIT"
  /\ c = SystemManager => scheduler["consumer"] = "idle"
  /\ QuickAnnounce => boot[c] \notin Status

\* c takes the event at the head of its inbox, which is of type t
Receives(c, t) == Idle(c) /\ inbox[c] # <<>> /\ Head(inbox[c]).type = t

\* c removes that event and publishes the events es, the first one at once
React(c, es) ==
  LET taken == [inbox EXCEPT ![c] = Tail(@)]
  IN  IF es = <<>>
      THEN inbox' = taken /\ UNCHANGED outbox
      ELSE inbox' = Deliver(taken, Head(es)) /\ outbox' = [outbox EXCEPT ![c] = Tail(es)]

\* the handler c is running publishes its next event
Flush(c) ==
  /\ outbox[c] # <<>>
  /\ inbox' = Deliver(inbox, Head(outbox[c]))
  /\ outbox' = [outbox EXCEPT ![c] = Tail(@)]
  /\ UNCHANGED <<boot, resourceVars, managerVars, runVars, taskVars, boundVars>>

-----------------------------------------------------------------------------
(* Start-up.  Context.init subscribes and then announces the status; the    *)
(* consumer thread runs from the subscription on.                           *)

Subscribe(c) ==
  /\ boot[c] = "off"
  /\ boot' = [boot EXCEPT ![c] = "subscribed"]
  /\ UNCHANGED <<busVars, resourceVars, managerVars, runVars, taskVars, boundVars>>

\* the status is read, to be published by the next action
ReadStatus(r) ==
  /\ boot[r] = "subscribed"
  /\ boot' = [boot EXCEPT ![r] = status[r]]
  /\ UNCHANGED <<busVars, resourceVars, managerVars, runVars, taskVars, boundVars>>

Announce(r) ==
  /\ boot[r] \in Status
  /\ boot' = [boot EXCEPT ![r] = "up"]
  /\ Publish(ResourceStatusChanged(r, boot[r]))
  /\ UNCHANGED <<resourceVars, managerVars, runVars, taskVars, boundVars>>

\* init_resource of the system manager: SystemManager and RunManager exist, celery is being checked
CreateManagers ==
  /\ boot[SystemManager] = "subscribed"
  /\ boot' = [boot EXCEPT ![SystemManager] = "managers"]
  /\ celeryCheck' = "checking"
  /\ Publish(SystemStatusChanged(systemStatus))
  /\ UNCHANGED <<resourceVars, smStatus, systemStatus, celeryStatus, resourcesStatus, statsGroups,
                 smRunCode, smPhase, runVars, taskVars, boundVars>>

\* ... and, once the runs are prepared, announces that it is running
StartManagers ==
  /\ boot[SystemManager] = "managers"
  /\ boot' = [boot EXCEPT ![SystemManager] = "up"]
  /\ smStatus' = "RUNNING"
  /\ Publish(ResourceStatusChanged(SystemManager, "RUNNING"))
  /\ UNCHANGED <<resourceVars, systemStatus, celeryStatus, resourcesStatus, statsGroups, smRunCode,
                 smPhase, celeryCheck, runVars, taskVars, boundVars>>

\* the background check of celery ends: the status is set, then it is published
CheckCelery(s) ==
  /\ celeryCheck = "checking"
  /\ s = "RUNNING" \/ (s = "ERROR" /\ CeleryMayFail)
  /\ celeryStatus' = s
  /\ celeryCheck' = s
  /\ UNCHANGED <<boot, busVars, resourceVars, smStatus, systemStatus, resourcesStatus, statsGroups,
                 smRunCode, smPhase, runVars, taskVars, boundVars>>

PublishCelery ==
  /\ celeryCheck \in {"RUNNING", "ERROR"}
  /\ Publish(ResourceStatusChanged(Celery, celeryCheck))
  /\ celeryCheck' = "done"
  /\ UNCHANGED <<boot, resourceVars, smStatus, systemStatus, celeryStatus, resourcesStatus,
                 statsGroups, smRunCode, smPhase, runVars, taskVars, boundVars>>

-----------------------------------------------------------------------------
(* SystemManager: the system status. *)

\* mutant: one resource in a status is enough
SystemStatusFromAny(rs, current) ==
  LET Some(s) == \E r \in Resources : rs[r] = s
  IN  IF Some("ERROR") THEN "ERROR"
      ELSE IF Some("NOT_READY") THEN "NOT_READY"
      ELSE IF Some("WAITING") THEN "WAITING"
      ELSE IF Some("READY") THEN "READY"
      ELSE IF Some("RUNNING") THEN "RUNNING"
      ELSE current

\* mutant: a resource in ERROR is left out
SystemStatusFromHealthy(rs, current) ==
  LET healthy == {r \in Resources : rs[r] # "ERROR"}
      All(s) == \A r \in healthy : rs[r] = s
  IN  IF \E r \in healthy : rs[r] = "NOT_READY" THEN "NOT_READY"
      ELSE IF All("WAITING") THEN "WAITING"
      ELSE IF All("READY") THEN "READY"
      ELSE IF All("RUNNING") THEN "RUNNING"
      ELSE current

\* system_status_from_resources_status
SystemStatusFrom(rs, current) ==
  LET All(s) == \A r \in Resources : rs[r] = s
      Some(s) == \E r \in Resources : rs[r] = s
  IN  IF Some("ERROR") THEN "ERROR"
      ELSE IF Some("STOPPED") THEN "STOPPED"
      ELSE IF Some("NOT_READY") THEN "NOT_READY"
      ELSE IF All("WAITING") THEN "WAITING"
      ELSE IF All("READY") THEN "READY"
      ELSE IF All("RUNNING") THEN "RUNNING"
      ELSE current

\* check_system_status, for the celery status cs and the resource statuses rs
CheckSystemStatus(cs, rs) == IF cs = "RUNNING" THEN SystemStatusFrom(rs, systemStatus) ELSE cs

\* set_system_status publishes a change only
StatusEvents(s) == IF s # systemStatus THEN <<SystemStatusChanged(s)>> ELSE <<>>

\* mutant: a component that starts late is not answered
NoAnswer(e) == <<>>

\* the answer to a component that is not ready: the system manager's own status
Answer(e) ==
  IF e.status = "NOT_READY" /\ e.name # SystemManager
  THEN <<ResourceStatusChanged(SystemManager, smStatus)>> ELSE <<>>

ManagerHandlesResourceStatus ==
  /\ Receives(SystemManager, "RESOURCE_STATUS_CHANGED")
  /\ LET e == Head(inbox[SystemManager])
         hasManagers == boot[SystemManager] \in {"managers", "up"}
         known == hasManagers /\ e.name \in Resources /\ resourcesStatus[e.name] # e.status
         fromCelery == hasManagers /\ e.name = Celery
     IN  /\ resourcesStatus' = IF known THEN [resourcesStatus EXCEPT ![e.name] = e.status]
                               ELSE resourcesStatus
         /\ celeryStatus' = IF fromCelery THEN e.status ELSE celeryStatus
         /\ systemStatus' = IF known \/ fromCelery
                            THEN CheckSystemStatus(celeryStatus', resourcesStatus')
                            ELSE IF e.name = SystemManager /\ e.status = "ERROR" THEN "ERROR"
                            ELSE systemStatus
         /\ React(SystemManager, Answer(e) \o StatusEvents(systemStatus'))
  /\ UNCHANGED <<boot, resourceVars, smStatus, statsGroups, smRunCode, smPhase, celeryCheck,
                 runVars, taskVars, boundVars>>

-----------------------------------------------------------------------------
(* RunManager: which run is next.  schedule_next_run is called by the       *)
(* consumer thread and by the threads that serve ControlRunResources; it    *)
(* checks, takes the run, and publishes, with nothing to exclude another    *)
(* thread in between.                                                       *)

\* mutant: the status alone decides
MayScheduleByStatus == systemStatus = "WAITING"

MaySchedule == systemStatus = "WAITING" /\ isCurrentExecutionCompleted

\* system_changed_status in the WAITING status: prepare_next_run
ManagerHandlesWaiting ==
  /\ Receives(SystemManager, "SYSTEM_STATUS_CHANGED")
  /\ Head(inbox[SystemManager]).status = "WAITING"
  /\ scheduler' = [scheduler EXCEPT !["consumer"] =
                     IF (IF isFirstRun THEN AutoStart ELSE isAutoRun) /\ MaySchedule
                     THEN "checked" ELSE "idle"]
  /\ React(SystemManager, <<>>)
  /\ UNCHANGED <<boot, resourceVars, managerVars, isFirstRun, isAutoRun, runsToExecute, currentRun,
                 currentRunStarted, isCurrentExecutionCompleted, executedRuns, taskVars, boundVars>>

\* ControlRunResources.post
ControlRun(nextRun, autoRun) ==
  /\ boot[SystemManager] = "up" /\ scheduler["control"] = "idle" /\ posts < MaxPosts
  /\ posts' = posts + 1
  /\ isAutoRun' = autoRun
  /\ scheduler' = [scheduler EXCEPT !["control"] =
                     IF nextRun /\ MaySchedule THEN "checked" ELSE "idle"]
  /\ UNCHANGED <<boot, busVars, resourceVars, managerVars, isFirstRun, runsToExecute, currentRun,
                 currentRunStarted, isCurrentExecutionCompleted, executedRuns, taskVars, failures>>

TakeRun(t) ==
  /\ scheduler[t] = "checked"
  /\ IF runsToExecute = <<>>
     THEN /\ scheduler' = [scheduler EXCEPT ![t] = "idle"]
          /\ UNCHANGED <<runsToExecute, currentRun, currentRunStarted, isCurrentExecutionCompleted>>
     ELSE /\ scheduler' = [scheduler EXCEPT ![t] = "taken"]
          /\ currentRun' = Head(runsToExecute)
          /\ runsToExecute' = Tail(runsToExecute)
          /\ currentRunStarted' = FALSE
          /\ isCurrentExecutionCompleted' = FALSE
  /\ UNCHANGED <<boot, busVars, resourceVars, managerVars, isFirstRun, isAutoRun, executedRuns,
                 taskVars, boundVars>>

PublishPrepare(t) ==
  /\ scheduler[t] = "taken"
  /\ scheduler' = [scheduler EXCEPT ![t] = "idle"]
  /\ isFirstRun' = FALSE
  /\ Publish(PrepareNewRun(currentRun))
  /\ UNCHANGED <<boot, resourceVars, managerVars, isAutoRun, runsToExecute, currentRun,
                 currentRunStarted, isCurrentExecutionCompleted, executedRuns, taskVars, boundVars>>

\* system_changed_status in the READY status: start_next_run
ManagerHandlesReady ==
  /\ Receives(SystemManager, "SYSTEM_STATUS_CHANGED")
  /\ Head(inbox[SystemManager]).status = "READY"
  /\ IF systemStatus # "READY" \/ currentRunStarted
     THEN React(SystemManager, <<>>) /\ UNCHANGED currentRunStarted
     ELSE IF currentRun = NoRun   \* an exception, published by the wrapper of the callback
     THEN /\ React(SystemManager, <<ResourceStatusChanged(SystemManager, "ERROR")>>)
          /\ UNCHANGED currentRunStarted
     ELSE React(SystemManager, <<StartRun(currentRun)>>) /\ currentRunStarted' = TRUE
  /\ UNCHANGED <<boot, resourceVars, managerVars, isFirstRun, isAutoRun, runsToExecute, currentRun,
                 isCurrentExecutionCompleted, executedRuns, scheduler, taskVars, boundVars>>

\* mutant: the statistics of the last run still count
ManagerHandlesPrepareKeepingStats ==
  /\ Receives(SystemManager, "PREPARE_NEW_RUN")
  /\ smRunCode' = Head(inbox[SystemManager]).run
  /\ React(SystemManager, <<>>)
  /\ UNCHANGED <<boot, resourceVars, smStatus, systemStatus, celeryStatus, resourcesStatus,
                 statsGroups, smPhase, celeryCheck, runVars, taskVars, boundVars>>

ManagerHandlesPrepare ==
  /\ Receives(SystemManager, "PREPARE_NEW_RUN")
  /\ smRunCode' = Head(inbox[SystemManager]).run
  /\ statsGroups' = {}
  /\ React(SystemManager, <<>>)
  /\ UNCHANGED <<boot, resourceVars, smStatus, systemStatus, celeryStatus, resourcesStatus, smPhase,
                 celeryCheck, runVars, taskVars, boundVars>>

\* mutant: the statistics of the task generator are not awaited
StatsCollectedOfAgent(groups) ==
  {"global_stats", "agent_stats", "execution_history_stats"} \subseteq groups

StatsCollected(groups) == groups = StatsGroups

\* the last statistics of a completed execution: save_stats_on_disk, which publishes RUN_COMPLETED
ManagerHandlesStats ==
  /\ Receives(SystemManager, "STATS_UPDATED")
  /\ statsGroups' = statsGroups \union {Head(inbox[SystemManager]).group}
  /\ React(SystemManager,
       IF ~StatsCollected(statsGroups') \/ ~isCurrentExecutionCompleted THEN <<>>
       ELSE IF smRunCode = NoRun THEN <<ResourceStatusChanged(SystemManager, "ERROR")>>
       ELSE <<RunCompleted(smRunCode)>>)
  /\ UNCHANGED <<boot, resourceVars, smStatus, systemStatus, celeryStatus, resourcesStatus,
                 smRunCode, smPhase, celeryCheck, runVars, taskVars, boundVars>>

ManagerHandlesSchedulingStarted ==
  /\ Receives(SystemManager, "SCHEDULING_STARTED")
  /\ smPhase' = Head(inbox[SystemManager]).phase
  /\ React(SystemManager, <<>>)
  /\ UNCHANGED <<boot, resourceVars, smStatus, systemStatus, celeryStatus, resourcesStatus,
                 statsGroups, smRunCode, celeryCheck, runVars, taskVars, boundVars>>

\* the handler looks at the phase of its context, not at that of the event
ManagerHandlesExecutionCompleted ==
  /\ Receives(SystemManager, "EXECUTION_COMPLETED")
  /\ isCurrentExecutionCompleted' = (smPhase = "RUN" \/ isCurrentExecutionCompleted)
  /\ smPhase' = IF smPhase = "RUN" THEN "WAIT" ELSE smPhase
  /\ React(SystemManager, <<>>)
  /\ UNCHANGED <<boot, resourceVars, smStatus, systemStatus, celeryStatus, resourcesStatus,
                 statsGroups, smRunCode, celeryCheck, isFirstRun, isAutoRun, runsToExecute,
                 currentRun, currentRunStarted, executedRuns, scheduler, taskVars, boundVars>>

ManagerHandlesRunCompleted ==
  /\ Receives(SystemManager, "RUN_COMPLETED")
  /\ smRunCode' = NoRun
  /\ executedRuns' = Append(executedRuns, currentRun)
  /\ currentRun' = NoRun
  /\ React(SystemManager, <<>>)
  /\ UNCHANGED <<boot, resourceVars, smStatus, systemStatus, celeryStatus, resourcesStatus,
                 statsGroups, smPhase, celeryCheck, isFirstRun, isAutoRun, runsToExecute,
                 currentRunStarted, isCurrentExecutionCompleted, scheduler, taskVars, boundVars>>


-----------------------------------------------------------------------------
(* The resources: the contexts and their callbacks.                         *)

\* RESOURCE_STATUS_CHANGED: the system manager is running, so init_resource; or the echo of a
\* status r has published, which the callback assigns again
HandleResourceStatus(r) ==
  /\ Receives(r, "RESOURCE_STATUS_CHANGED")
  /\ LET e == Head(inbox[r])
     IN  IF e.name = r
         THEN /\ status' = [status EXCEPT ![r] = e.status]
              /\ React(r, <<>>)
              /\ UNCHANGED initialized
         ELSE IF r \in initialized
         THEN React(r, <<>>) /\ UNCHANGED <<status, initialized>>
         ELSE /\ status' = [status EXCEPT ![r] = "WAITING"]
              /\ initialized' = initialized \union {r}
              /\ React(r, IF status[r] = "WAITING" THEN <<>> ELSE <<ResourceStatusChanged(r, "WAITING")>>)
  /\ UNCHANGED <<boot, runCode, agentVars, collectorVars, generatorVars, managerVars, runVars,
                 taskVars, boundVars>>

\* the status in which a context takes a command; in any other one it drops it with a warning
CommandStatus == [PREPARE_NEW_RUN |-> "WAITING", START_RUN |-> "READY", RUN_COMPLETED |-> "RUNNING"]

\* r receives the command t in the status for it
Accepts(r, t) == Receives(r, t) /\ status[r] = CommandStatus[t]

DropCommand(r) ==
  /\ \/ \E t \in DOMAIN CommandStatus : Receives(r, t) /\ status[r] # CommandStatus[t]
     \/ r = Agent /\ Receives(r, "TRAJECTORY_COMPLETED") /\ status[r] # "RUNNING"
  /\ React(r, <<>>)
  /\ UNCHANGED <<boot, resourceVars, managerVars, runVars, taskVars, boundVars>>

\* change_resource_status at the end of prepare_run, READY or, from its except clause, ERROR
PrepareContext(r) ==
  /\ Accepts(r, "PREPARE_NEW_RUN")
  /\ runCode' = [runCode EXCEPT ![r] = Head(inbox[r]).run]
  /\ \E outcome \in {"READY", "ERROR"} :
       /\ failures' = IF outcome = "ERROR" THEN failures + 1 ELSE failures
       /\ status' = [status EXCEPT ![r] = outcome]
       /\ React(r, <<ResourceStatusChanged(r, outcome)>>)
  /\ failures' <= MaxFailures
  /\ UNCHANGED <<boot, initialized, managerVars, runVars, posts>>

\* mutant: the agent of the last run is kept
AgentKeepsObservations ==
  PrepareContext(Agent) /\ UNCHANGED <<agentVars, collectorVars, generatorVars, taskVars>>

AgentPrepares ==
  /\ PrepareContext(Agent)
  /\ nRewardObservation' = 0
  /\ UNCHANGED <<agentPhase, collectorVars, generatorVars, taskVars>>

\* _clean_backend forgets the trajectories and the tasks of earlier runs; a trajectory of theirs
\* that is created later than that never gets a reward
CollectorPrepares ==
  /\ PrepareContext(Collector)
  /\ taskCompleted' = TasksToSkip /\ taskToExecute' = TasksToGenerate
  /\ late' = late + sent - Cardinality(rewarded)
  /\ sent' = 0 /\ created' = 0 /\ rewarded' = {} /\ failed' = {} /\ notified' = {}
  /\ UNCHANGED <<agentVars, collectorPhase, builderPhase, notifying, generatorVars>>

GeneratorPrepares ==
  /\ PrepareContext(Generator)
  /\ tasksScheduled' = 0
  /\ UNCHANGED <<agentVars, collectorVars, generating, taskIndex, taskVars>>

\* start_run of r, which publishes es after changing the status
StartContext(r, before, after) ==
  /\ Accepts(r, "START_RUN")
  /\ status' = [status EXCEPT ![r] = "RUNNING"]
  /\ React(r, before \o <<ResourceStatusChanged(r, "RUNNING")>> \o after)
  /\ UNCHANGED <<boot, initialized, runCode, collectorVars, agentVars, tasksScheduled, managerVars,
                 runVars, taskVars, boundVars>>

AgentStarts == StartContext(Agent, <<StatsUpdated("agent_stats")>>, <<>>) /\ UNCHANGED <<generating, taskIndex>>

CollectorStarts == StartContext(Collector, <<>>, <<>>) /\ UNCHANGED <<generating, taskIndex>>

\* schedule_bootstrapping_tasks or schedule_tasks runs inside the handler, up to its last task
GeneratorStarts ==
  LET phase == IF TasksToBootstrap > 0 THEN "BOOTSTRAP" ELSE "RUN"
      tasks == IF TasksToBootstrap > 0 THEN TasksToBootstrap ELSE TasksToGenerate
  IN  /\ StartContext(Generator, <<StatsUpdated("global_stats")>>, <<SchedulingStarted(phase, tasks)>>)
      /\ generating' = phase /\ taskIndex' = 0

\* mutant: the exception is only logged
StartFailsSilently(r) ==
  /\ Accepts(r, "START_RUN")
  /\ failures < MaxFailures
  /\ failures' = failures + 1
  /\ React(r, <<>>)
  /\ UNCHANGED <<boot, resourceVars, managerVars, runVars, taskVars, posts>>

\* an exception in start_run: the wrapper of the callback publishes ERROR and the status stays
\* READY until the echo arrives
StartFails(r) ==
  /\ Accepts(r, "START_RUN")
  /\ failures < MaxFailures
  /\ failures' = failures + 1
  /\ React(r, <<ResourceStatusChanged(r, "ERROR")>>)
  /\ UNCHANGED <<boot, resourceVars, managerVars, runVars, taskVars, posts>>

\* mutant: without a look at the status
StopInAnyStatus(r) ==
  /\ Receives(r, "RUN_COMPLETED")
  /\ status' = [status EXCEPT ![r] = "WAITING"]
  /\ React(r, <<ResourceStatusChanged(r, "WAITING")>>)
  /\ UNCHANGED <<boot, initialized, runCode, agentVars, collectorVars, generatorVars, managerVars,
                 runVars, taskVars, boundVars>>

\* stop_run_resources
StopRunResources(r) ==
  /\ Accepts(r, "RUN_COMPLETED")
  /\ status' = [status EXCEPT ![r] = "WAITING"]
  /\ React(r, <<ResourceStatusChanged(r, "WAITING")>>)
  /\ UNCHANGED <<boot, initialized, runCode, agentVars, collectorVars, generatorVars, managerVars,
                 runVars, taskVars, boundVars>>

-----------------------------------------------------------------------------
(* The agent. *)

AgentHandlesSchedulingStarted ==
  /\ Receives(Agent, "SCHEDULING_STARTED")
  /\ agentPhase' = Head(inbox[Agent]).phase
  /\ React(Agent, <<>>)
  /\ UNCHANGED <<boot, contextVars, nRewardObservation, collectorVars, generatorVars, managerVars,
                 runVars, taskVars, boundVars>>

\* the reward of the last bootstrapping task is not awaited: its trajectory has no next state yet
\* mutant: it is awaited
AllBootstrapObserved(n) == n = TasksToBootstrap

BootstrapObserved(n) == n + 1 = TasksToBootstrap

\* observe_reward, with a learning agent
ObserveReward ==
  /\ Receives(Agent, "TRAJECTORY_COMPLETED") /\ status[Agent] = "RUNNING"
  /\ nRewardObservation' = nRewardObservation + 1
  /\ React(Agent, IF agentPhase = "BOOTSTRAP" /\ BootstrapObserved(nRewardObservation')
                  THEN <<ExecutionCompleted("BOOTSTRAP")>> ELSE <<>>)
  /\ UNCHANGED <<boot, contextVars, agentPhase, collectorVars, generatorVars, managerVars, runVars,
                 taskVars, boundVars>>

AgentHandlesExecutionCompleted ==
  /\ Receives(Agent, "EXECUTION_COMPLETED")
  /\ agentPhase' = "WAIT"
  /\ React(Agent, <<StatsUpdated("execution_history_stats")>>)
  /\ UNCHANGED <<boot, contextVars, nRewardObservation, collectorVars, generatorVars, managerVars,
                 runVars, taskVars, boundVars>>

-----------------------------------------------------------------------------
(* The trajectory collector: its consumer thread, the thread that creates   *)
(* trajectories and the thread that computes rewards.                       *)

CollectorHandlesSchedulingStarted ==
  /\ Receives(Collector, "SCHEDULING_STARTED")
  /\ LET e == Head(inbox[Collector])
     IN  /\ collectorPhase' = e.phase /\ builderPhase' = e.phase
         /\ taskToExecute' = IF e.phase = "RUN" THEN e.tasks ELSE taskToExecute
         /\ taskCompleted' = IF e.phase = "RUN" THEN TasksToSkip ELSE taskCompleted
  /\ React(Collector, <<>>)
  /\ UNCHANGED <<boot, contextVars, agentVars, notifying, generatorVars, managerVars, runVars,
                 taskVars, boundVars>>

CollectorHandlesSchedulingCompleted ==
  /\ Receives(Collector, "SCHEDULING_COMPLETED")
  /\ taskToExecute' = IF collectorPhase = "RUN" THEN Head(inbox[Collector]).tasks ELSE taskToExecute
  /\ React(Collector, <<>>)
  /\ UNCHANGED <<boot, contextVars, agentVars, collectorPhase, builderPhase, taskCompleted, notifying,
                 generatorVars, managerVars, runVars, taskVars, boundVars>>

\* by the phase of the context; the phase of the trajectory builder stays RUN
CollectorHandlesExecutionCompleted ==
  /\ Receives(Collector, "EXECUTION_COMPLETED")
  /\ collectorPhase' = IF collectorPhase = "RUN" THEN "WAIT" ELSE collectorPhase
  /\ taskCompleted' = IF collectorPhase = "BOOTSTRAP" THEN TasksToSkip ELSE taskCompleted
  /\ React(Collector, <<>>)
  /\ UNCHANGED <<boot, contextVars, agentVars, builderPhase, taskToExecute, notifying, generatorVars,
                 managerVars, runVars, taskVars, boundVars>>

\* mutant: a trajectory is complete as soon as it has its next state
NotifyAgentOfState(k, made, done, bad) ==
  IF k \in 1..sent \ notified /\ k < made
  THEN notified' = notified \union {k} /\ Publish(TrajectoryCompleted)
  ELSE UNCHANGED <<notified, busVars>>

\* mutant: the agent is told when either part of a trajectory arrives
NotifyAgentOfEither(k, made, done, bad) ==
  IF k \in 1..sent /\ (k < made \/ k \in done \ bad)
  THEN notified' = notified \union {k} /\ Publish(TrajectoryCompleted)
  ELSE UNCHANGED <<notified, busVars>>

\* the trajectory of task k has its next state (k < made) and its reward: the agent is told, once
NotifyAgent(k, made, done, bad) ==
  IF k \in done \ (bad \union notified) /\ k < made
  THEN notified' = notified \union {k} /\ Publish(TrajectoryCompleted)
  ELSE UNCHANGED <<notified, busVars>>

\* create_trajectory of the next task, which gives the previous trajectory its next state
CreateTrajectory ==
  /\ created < sent
  /\ created' = created + 1
  /\ NotifyAgent(created, created', rewarded, failed)
  /\ UNCHANGED <<boot, resourceVars, managerVars, runVars, sent, rewarded, failed, late, boundVars>>

\* compute_task_reward for task k, up to are_all_task_executed
ComputeTaskReward(k, fails) ==
  /\ ~notifying /\ k \notin rewarded
  /\ SlowTasks => \A e \in Contents(inbox[Collector]) : e.type # "SCHEDULING_STARTED"
  /\ fails => TasksMayFail
  /\ rewarded' = rewarded \union {k}
  /\ failed' = IF fails THEN failed \union {k} ELSE failed
  /\ taskCompleted' = taskCompleted + 1
  /\ notifying' = TRUE
  /\ NotifyAgent(k, created, rewarded', failed')
  /\ UNCHANGED <<boot, contextVars, agentVars, collectorPhase, builderPhase, taskToExecute,
                 generatorVars, managerVars, runVars, sent, created, late, boundVars>>

\* ... for a task of an earlier run: its waiting time is gone, and then an exception ends the
\* handler before the task is counted, unless the task started, or failed, after _clean_backend
ComputeLateReward(counted) ==
  /\ late > 0 /\ ~notifying
  /\ late' = late - 1
  /\ taskCompleted' = IF counted THEN taskCompleted + 1 ELSE taskCompleted
  /\ notifying' = counted
  /\ UNCHANGED <<boot, busVars, contextVars, agentVars, collectorPhase, builderPhase, taskToExecute,
                 generatorVars, managerVars, runVars, sent, created, rewarded, failed, notified,
                 boundVars>>

\* mutant: the last task is not awaited
AllButOneExecuted == taskCompleted + 1 = taskToExecute

AllExecuted == taskCompleted = taskToExecute

AreAllTasksExecuted ==
  /\ notifying
  /\ notifying' = FALSE
  /\ IF builderPhase = "RUN" /\ AllExecuted
     THEN Publish(ExecutionCompleted("RUN"))
     ELSE UNCHANGED busVars
  /\ UNCHANGED <<boot, contextVars, agentVars, collectorPhase, builderPhase, taskToExecute,
                 taskCompleted, generatorVars, managerVars, runVars, taskVars, boundVars>>

-----------------------------------------------------------------------------
(* The task generator. *)

TasksOf(phase) == IF phase = "BOOTSTRAP" THEN TasksToBootstrap ELSE TasksToGenerate

\* one turn of the loop of schedule_bootstrapping_tasks or schedule_tasks
ScheduleTask ==
  /\ outbox[Generator] = <<>>
  /\ generating # "WAIT" /\ taskIndex < TasksOf(generating)
  /\ taskIndex' = taskIndex + 1
  /\ IF generating = "BOOTSTRAP"
     THEN sent' = sent + 1 /\ UNCHANGED tasksScheduled
     ELSE /\ tasksScheduled' = tasksScheduled + 1
          /\ sent' = IF taskIndex >= TasksToSkip THEN sent + 1 ELSE sent
  /\ UNCHANGED <<boot, busVars, contextVars, agentVars, collectorVars, generating, managerVars,
                 runVars, created, rewarded, failed, notified, late, boundVars>>

\* the loop is over, and with it the handler it ran in
CompleteScheduling ==
  /\ outbox[Generator] = <<>>
  /\ generating # "WAIT" /\ taskIndex = TasksOf(generating)
  /\ generating' = "WAIT"
  /\ Publish(SchedulingCompleted(generating,
               IF generating = "RUN" THEN tasksScheduled ELSE TasksToBootstrap))
  /\ UNCHANGED <<boot, contextVars, agentVars, collectorVars, taskIndex, tasksScheduled, managerVars,
                 runVars, taskVars, boundVars>>

GeneratorHandlesSchedulingCompleted ==
  /\ Receives(Generator, "SCHEDULING_COMPLETED")
  /\ React(Generator, <<StatsUpdated("tasks_generated")>>)
  /\ UNCHANGED <<boot, resourceVars, managerVars, runVars, taskVars, boundVars>>

\* the agent has observed the bootstrap: schedule_tasks
GeneratorHandlesExecutionCompleted ==
  /\ Receives(Generator, "EXECUTION_COMPLETED")
  /\ React(Generator, <<SchedulingStarted("RUN", TasksToGenerate)>>)
  /\ generating' = "RUN" /\ taskIndex' = 0
  /\ UNCHANGED <<boot, contextVars, agentVars, collectorVars, tasksScheduled, managerVars, runVars,
                 taskVars, boundVars>>

-----------------------------------------------------------------------------
ManagerHandlesEvent ==
  \/ ManagerHandlesResourceStatus
  \/ ManagerHandlesWaiting
  \/ ManagerHandlesReady
  \/ ManagerHandlesPrepare
  \/ ManagerHandlesStats
  \/ ManagerHandlesSchedulingStarted
  \/ ManagerHandlesExecutionCompleted
  \/ ManagerHandlesRunCompleted

AgentHandlesEvent ==
  \/ AgentPrepares
  \/ AgentStarts
  \/ AgentHandlesSchedulingStarted
  \/ ObserveReward
  \/ AgentHandlesExecutionCompleted

CollectorHandlesEvent ==
  \/ CollectorPrepares
  \/ CollectorStarts
  \/ CollectorHandlesSchedulingStarted
  \/ CollectorHandlesSchedulingCompleted
  \/ CollectorHandlesExecutionCompleted

GeneratorHandlesEvent ==
  \/ GeneratorPrepares
  \/ GeneratorStarts
  \/ GeneratorHandlesSchedulingCompleted
  \/ GeneratorHandlesExecutionCompleted

ResourceHandlesEvent(r) ==
  \/ HandleResourceStatus(r)
  \/ DropCommand(r)
  \/ StartFails(r)
  \/ StopRunResources(r)

\* a step of the consumer thread of c
ConsumerStep(c) ==
  \/ Flush(c)
  \/ c = SystemManager /\ (ManagerHandlesEvent \/ TakeRun("consumer") \/ PublishPrepare("consumer"))
  \/ c = Agent /\ AgentHandlesEvent
  \/ c = Collector /\ CollectorHandlesEvent
  \/ c = Generator /\ (GeneratorHandlesEvent \/ ScheduleTask \/ CompleteScheduling)
  \/ c \in Resources /\ ResourceHandlesEvent(c)

StartUp ==
  \/ \E c \in Components : Subscribe(c)
  \/ \E r \in Resources : ReadStatus(r) \/ Announce(r)
  \/ CreateManagers
  \/ StartManagers

CeleryStep == PublishCelery \/ \E s \in {"RUNNING", "ERROR"} : CheckCelery(s)

ControlStep ==
  \/ \E nextRun, autoRun \in BOOLEAN : ControlRun(nextRun, autoRun)
  \/ TakeRun("control")
  \/ PublishPrepare("control")

RewardStep ==
  \/ \E k \in 1..sent, fails \in BOOLEAN : ComputeTaskReward(k, fails)
  \/ \E counted \in BOOLEAN : ComputeLateReward(counted)
  \/ AreAllTasksExecuted

Next ==
  \/ StartUp
  \/ CeleryStep
  \/ ControlStep
  \/ \E c \in Components : ConsumerStep(c)
  \/ CreateTrajectory
  \/ RewardStep

\* every thread goes on, and every task that is sent is executed; nobody need send a request
Fairness ==
  /\ WF_vars(StartUp)
  /\ WF_vars(CeleryStep)
  /\ \A c \in Components : WF_vars(ConsumerStep(c))
  /\ WF_vars(TakeRun("control") \/ PublishPrepare("control"))
  /\ WF_vars(CreateTrajectory)
  /\ WF_vars(RewardStep)

Spec == Init /\ [][Next]_vars
FairSpec == Spec /\ Fairness

-----------------------------------------------------------------------------
(* Every variable holds a value the code can give it; tasks are created, rewarded and notified  *)
(* only once they are sent.                                                                     *)
BusTypeOK ==
  /\ boot \in [Components -> {"off", "subscribed", "managers", "up"} \union Status]
  /\ inbox \in [Components -> Seq(Event)]
  /\ outbox \in [Components -> Seq(Event)]

ResourceTypeOK ==
  /\ status \in [Resources -> Status] /\ initialized \in SUBSET Resources
  /\ runCode \in [Resources -> MaybeRun]
  /\ agentPhase \in RunPhase /\ nRewardObservation \in Nat
  /\ collectorPhase \in RunPhase /\ builderPhase \in RunPhase
  /\ taskToExecute \in Nat /\ taskCompleted \in Nat /\ notifying \in BOOLEAN
  /\ generating \in RunPhase /\ taskIndex \in Nat /\ tasksScheduled \in Nat

ManagerTypeOK ==
  /\ smStatus \in Status /\ systemStatus \in Status /\ celeryStatus \in Status
  /\ resourcesStatus \in [Resources -> Status]
  /\ statsGroups \in SUBSET StatsGroups /\ smRunCode \in MaybeRun /\ smPhase \in RunPhase
  /\ celeryCheck \in {"off", "checking", "RUNNING", "ERROR", "done"}

RunTypeOK ==
  /\ isFirstRun \in BOOLEAN /\ isAutoRun \in BOOLEAN
  /\ runsToExecute \in Seq(Runs) /\ executedRuns \in Seq(MaybeRun)
  /\ currentRun \in MaybeRun /\ currentRunStarted \in BOOLEAN
  /\ isCurrentExecutionCompleted \in BOOLEAN
  /\ scheduler \in [{"consumer", "control"} -> {"idle", "checked", "taken"}]

TaskTypeOK ==
  /\ sent \in Nat /\ created \in 0..sent /\ late \in Nat
  /\ rewarded \in SUBSET (1..sent) /\ failed \in SUBSET rewarded
  /\ notified \in SUBSET (rewarded \ failed)
  /\ posts \in 0..MaxPosts /\ failures \in 0..MaxFailures

TypeOK == BusTypeOK /\ ResourceTypeOK /\ ManagerTypeOK /\ RunTypeOK /\ TaskTypeOK

\* the events on their way to c, or still to be published by its handler
InFlight(c) == Contents(inbox[c]) \union Contents(outbox[c])

(* No command is lost to the status guards of the callbacks: a resource that comes to a         *)
(* PREPARE_NEW_RUN is WAITING, to a START_RUN READY, to a RUN_COMPLETED RUNNING.  Otherwise the *)
(* callback only logs a warning, and the resource stays behind the others for ever.             *)
CommandsMeetTheirStatus ==
  \A r \in Resources, t \in DOMAIN CommandStatus : Receives(r, t) => status[r] = CommandStatus[t]

(* Run manager, system_changed_status: "all the resources have prepared their configuration for *)
(* the new run, we can start it".  A resource that takes a START_RUN has prepared that run.     *)
StartedAsPrepared ==
  \A r \in Resources : Accepts(r, "START_RUN") => runCode[r] = Head(inbox[r]).run

(* The run manager neither loses a run nor executes one twice, nor out of order, whatever       *)
(* schedules it: what is executed, the current run and what is left are the generated list.     *)
RunsConserved ==
  executedRuns \o (IF currentRun = NoRun THEN <<>> ELSE <<currentRun>>) \o runsToExecute
    = [i \in 1..NumRuns |-> i]

(* An execution is announced as completed only when every task of the run has been executed     *)
(* ("{} tasks have been executed. The simulation is completed").                                *)
ExecutionCompletedSound ==
  (\E c \in Components : ExecutionCompleted("RUN") \in InFlight(c))
    => rewarded = 1..(TasksToBootstrap + TasksToGenerate - TasksToSkip)

(* Nothing of a run is left when the next one is prepared: no statistics or scheduling event of *)
(* it can be taken for one of the new run.                                                      *)
NothingLeftOfTheLastRun ==
  (\E c \in Components, run \in Runs : PrepareNewRun(run) \in InFlight(c))
    => /\ generating = "WAIT"
       /\ \A c \in Components : \A e \in InFlight(c) :
            e.type \in {"SYSTEM_STATUS_CHANGED", "RESOURCE_STATUS_CHANGED", "PREPARE_NEW_RUN",
                        "TRAJECTORY_COMPLETED"}

(* The agent observes every trajectory of its run that the collector notifies, once, and none   *)
(* of an earlier run: a trajectory created after its run has ended reaches it while it is not   *)
(* RUNNING.                                                                                     *)
TrajectoriesObserved ==
  status[Agent] = "RUNNING"
    => nRewardObservation + Cardinality({i \in DOMAIN inbox[Agent] : inbox[Agent][i] = TrajectoryCompleted})
         = Cardinality(notified)

(* "The system is in ERROR state. It is required a manual intervention": it does not leave the  *)
(* ERROR state by itself.                                                                       *)
ErrorIsFinal == [][systemStatus = "ERROR" => systemStatus' = "ERROR"]_vars

(* Every run of the list is executed, and then the resources wait for more.                     *)
AllRunsExecuted ==
  <>[](/\ executedRuns = [i \in 1..NumRuns |-> i]
       /\ \A r \in Resources : status[r] = "WAITING")

(* Whatever the order in which the components start, all come to wait for a run, and so does    *)
(* the system unless celery is unreachable: then it comes to ERROR.                             *)
StartUpCompletes ==
  <>[](/\ systemStatus = IF celeryStatus = "ERROR" THEN "ERROR" ELSE "WAITING"
       /\ \A r \in Resources : status[r] = "WAITING")

(* An exception in the preparation or the start of a run is not lost: the system comes to ERROR. *)
FailuresAreReported == failures > 0 ~> [](systemStatus = "ERROR")

=============================================================================
