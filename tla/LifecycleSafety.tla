--------------------------- MODULE LifecycleSafety ---------------------------
(***************************************************************************)
(* The safety of the run lifecycle: theorems about SystemLifecycle once it  *)
(* has started, for any number of runs and tasks, with resources that may   *)
(* fail and tasks that may fail.  Before them, TypeCorrect: its types, from *)
(* every initial state and for every configuration.                         *)
(*                                                                          *)
(* The invariant IInv reads the command in force from the state of the run  *)
(* manager (Stage) and says of every resource how far it is with it: the    *)
(* command is still in its inbox (Awaits), its report is on the way         *)
(* (Reports), the manager knows (Agreed), or it has failed (Broken).  The   *)
(* manager publishes the next command only when all of them have agreed,    *)
(* therefore no resource ever has two commands to execute.  The rest of     *)
(* IInv says, stage by stage, which events may be in which inbox and how    *)
(* the counters of a run, its tasks and its statistics go together.         *)
(*                                                                          *)
(* With the run codes (Codes) this is enough to count commands and reports: *)
(* the lifecycle implements RunProtocol (ImplementsProtocol).               *)
(***************************************************************************)
EXTENDS MCSystemLifecycle, FiniteSetTheorems, SequenceTheorems, TLAPS

USE DEF vars, busVars, contextVars, agentVars, collectorVars, generatorVars, resourceVars,
        managerVars, runVars, taskVars, boundVars

-----------------------------------------------------------------------------
(* The events the components publish are events.                                                *)

LEMMA StatusEventTypes ==
  /\ \A s \in Status : SystemStatusChanged(s) \in Event
  /\ \A n \in Components \union {Celery}, s \in Status : ResourceStatusChanged(n, s) \in Event
BY DEF Event, SystemStatusChanged, ResourceStatusChanged

LEMMA CommandEventTypes ==
  \A run \in MaybeRun :
    PrepareNewRun(run) \in Event /\ StartRun(run) \in Event /\ RunCompleted(run) \in Event
BY DEF Event, PrepareNewRun, StartRun, RunCompleted

LEMMA ExecutionEventTypes ==
  /\ \A g \in StatsGroups : StatsUpdated(g) \in Event
  /\ \A p \in RunPhase, n \in Nat : SchedulingStarted(p, n) \in Event /\ SchedulingCompleted(p, n) \in Event
  /\ TrajectoryCompleted \in Event
  /\ \A p \in RunPhase : ExecutionCompleted(p) \in Event
BY DEF Event, StatsUpdated, SchedulingStarted, SchedulingCompleted, TrajectoryCompleted, ExecutionCompleted

(* What a handler reads off an event of its type.                                               *)
LEMMA EventFields ==
  ASSUME NEW e \in Event
  PROVE  /\ e.type = "SYSTEM_STATUS_CHANGED" => e.status \in Status
         /\ e.type = "RESOURCE_STATUS_CHANGED" => e.status \in Status
         /\ e.type \in {"PREPARE_NEW_RUN", "START_RUN", "RUN_COMPLETED"} => e.run \in MaybeRun
         /\ e.type = "STATS_UPDATED" => e.group \in StatsGroups
         /\ e.type \in {"SCHEDULING_STARTED", "SCHEDULING_COMPLETED"} => e.phase \in RunPhase /\ e.tasks \in Nat
BY DEF Event

-----------------------------------------------------------------------------
(* The topic keeps inboxes and outboxes sequences of events.                                    *)

LEMMA DeliverType ==
  ASSUME NEW ib \in [Components -> Seq(Event)], NEW e \in Event
  PROVE  Deliver(ib, e) \in [Components -> Seq(Event)]
BY DEF Deliver

LEMMA PublishType ==
  ASSUME BusTypeOK, NEW e \in Event, Publish(e)
  PROVE  inbox' \in [Components -> Seq(Event)] /\ outbox' \in [Components -> Seq(Event)]
BY DeliverType DEF BusTypeOK, Publish

LEMMA ReactType ==
  ASSUME BusTypeOK, NEW c \in Components, inbox[c] # <<>>, NEW es \in Seq(Event), React(c, es)
  PROVE  inbox' \in [Components -> Seq(Event)] /\ outbox' \in [Components -> Seq(Event)]
<1> DEFINE taken == [inbox EXCEPT ![c] = Tail(@)]
<1>1. taken \in [Components -> Seq(Event)]
  BY DEF BusTypeOK
<1>2. CASE es = <<>>
  BY <1>1, <1>2 DEF React, BusTypeOK
<1>3. CASE es # <<>>
  <2>1. Head(es) \in Event /\ Tail(es) \in Seq(Event)
    BY <1>3
  <2>2. inbox' = Deliver(taken, Head(es)) /\ outbox' = [outbox EXCEPT ![c] = Tail(es)]
    BY <1>3 DEF React
  <2>3. Deliver(taken, Head(es)) \in [Components -> Seq(Event)]
    BY <1>1, <2>1, DeliverType
  <2> QED BY <2>1, <2>2, <2>3 DEF BusTypeOK
<1> QED BY <1>2, <1>3

LEMMA FlushType ==
  ASSUME TypeOK, NEW c \in Components, Flush(c)
  PROVE  TypeOK'
<1>1. Head(outbox[c]) \in Event /\ Tail(outbox[c]) \in Seq(Event)
  BY DEF TypeOK, BusTypeOK, Flush
<1>2. BusTypeOK'
  BY <1>1, DeliverType DEF TypeOK, BusTypeOK, Flush
<1> QED BY <1>2 DEF TypeOK, Flush, ResourceTypeOK, ManagerTypeOK, RunTypeOK, TaskTypeOK

LEMMA HeadType ==
  ASSUME TypeOK, NEW c \in Components, NEW t, Receives(c, t)
  PROVE  inbox[c] # <<>> /\ Head(inbox[c]) \in Event /\ Head(inbox[c]).type = t
BY DEF TypeOK, BusTypeOK, Receives

LEMMA ShortSeq ==
  /\ <<>> \in Seq(Event)
  /\ \A d \in Event : <<d>> \in Seq(Event)
OBVIOUS

-----------------------------------------------------------------------------
(* One lemma per action: first the topic, then the variables of the component.                  *)

LEMMA SubscribeType == ASSUME TypeOK, NEW c \in Components, Subscribe(c) PROVE TypeOK'
BY DEF Subscribe, TypeOK, BusTypeOK, ResourceTypeOK, ManagerTypeOK, RunTypeOK, TaskTypeOK

LEMMA ReadStatusType == ASSUME TypeOK, NEW r \in Resources, ReadStatus(r) PROVE TypeOK'
BY DEF ReadStatus, TypeOK, BusTypeOK, ResourceTypeOK, ManagerTypeOK, RunTypeOK, TaskTypeOK

LEMMA AnnounceType == ASSUME TypeOK, NEW r \in Resources, Announce(r) PROVE TypeOK'
<1>1. ResourceStatusChanged(r, boot[r]) \in Event
  BY StatusEventTypes DEF Announce, Components
<1>2. BusTypeOK'
  BY <1>1, PublishType DEF TypeOK, BusTypeOK, Announce
<1> QED BY <1>2 DEF Announce, TypeOK, ResourceTypeOK, ManagerTypeOK, RunTypeOK, TaskTypeOK

LEMMA CreateManagersType == ASSUME TypeOK, CreateManagers PROVE TypeOK'
<1>1. SystemStatusChanged(systemStatus) \in Event
  BY StatusEventTypes DEF TypeOK, ManagerTypeOK
<1>2. BusTypeOK'
  BY <1>1, PublishType DEF TypeOK, BusTypeOK, CreateManagers
<1> QED BY <1>2 DEF CreateManagers, TypeOK, ResourceTypeOK, ManagerTypeOK, RunTypeOK, TaskTypeOK

LEMMA StartManagersType == ASSUME TypeOK, StartManagers PROVE TypeOK'
<1>1. ResourceStatusChanged(SystemManager, "RUNNING") \in Event
  BY StatusEventTypes DEF Components, Status
<1>2. BusTypeOK'
  BY <1>1, PublishType DEF TypeOK, BusTypeOK, StartManagers
<1> QED BY <1>2 DEF StartManagers, TypeOK, ResourceTypeOK, ManagerTypeOK, RunTypeOK, TaskTypeOK, Status

LEMMA CheckCeleryType ==
  ASSUME TypeOK, NEW s \in {"RUNNING", "ERROR"}, CheckCelery(s) PROVE TypeOK'
BY DEF CheckCelery, TypeOK, BusTypeOK, ResourceTypeOK, ManagerTypeOK, RunTypeOK, TaskTypeOK, Status

LEMMA PublishCeleryType == ASSUME TypeOK, PublishCelery PROVE TypeOK'
<1>1. ResourceStatusChanged(Celery, celeryCheck) \in Event
  BY StatusEventTypes DEF PublishCelery, Status
<1>2. BusTypeOK'
  BY <1>1, PublishType DEF TypeOK, BusTypeOK, PublishCelery
<1> QED BY <1>2 DEF PublishCelery, TypeOK, ResourceTypeOK, ManagerTypeOK, RunTypeOK, TaskTypeOK

LEMMA SystemStatusType ==
  ASSUME TypeOK, NEW cs \in Status, NEW rs
  PROVE  CheckSystemStatus(cs, rs) \in Status
BY DEF CheckSystemStatus, SystemStatusFrom, TypeOK, ManagerTypeOK, Status

LEMMA ManagerHandlesResourceStatusType == ASSUME TypeOK, ManagerHandlesResourceStatus PROVE TypeOK'
<1> DEFINE e == Head(inbox[SystemManager])
<1>1. SystemManager \in Components
  BY DEF Components
<1>2. e \in Event /\ e.status \in Status /\ inbox[SystemManager] # <<>>
  BY <1>1, HeadType, EventFields DEF ManagerHandlesResourceStatus
<1>3. resourcesStatus' \in [Resources -> Status] /\ celeryStatus' \in Status
  BY <1>2 DEF ManagerHandlesResourceStatus, TypeOK, ManagerTypeOK
<1>4. systemStatus' \in Status
  <2>1. \/ systemStatus' = CheckSystemStatus(celeryStatus', resourcesStatus')
        \/ systemStatus' = "ERROR"
        \/ systemStatus' = systemStatus
    BY DEF ManagerHandlesResourceStatus
  <2> QED BY <2>1, <1>3, SystemStatusType DEF TypeOK, ManagerTypeOK, Status
<1>5. Answer(e) \in Seq(Event) /\ StatusEvents(systemStatus') \in Seq(Event)
  BY <1>1, <1>4, StatusEventTypes, ShortSeq DEF Answer, StatusEvents, TypeOK, ManagerTypeOK
<1>6. Answer(e) \o StatusEvents(systemStatus') \in Seq(Event)
  BY <1>5
<1>7. React(SystemManager, Answer(e) \o StatusEvents(systemStatus'))
  BY DEF ManagerHandlesResourceStatus
<1>8. BusTypeOK'
  BY <1>1, <1>2, <1>6, <1>7, ReactType DEF TypeOK, BusTypeOK, ManagerHandlesResourceStatus
<1> QED BY <1>3, <1>4, <1>8
        DEF ManagerHandlesResourceStatus, TypeOK, ResourceTypeOK, ManagerTypeOK, RunTypeOK, TaskTypeOK

LEMMA ManagerHandlesWaitingType == ASSUME TypeOK, ManagerHandlesWaiting PROVE TypeOK'
<1>1. inbox[SystemManager] # <<>> /\ SystemManager \in Components
  BY DEF ManagerHandlesWaiting, Receives, Components
<1>2. BusTypeOK'
  BY <1>1, ShortSeq, ReactType DEF TypeOK, BusTypeOK, ManagerHandlesWaiting
<1> QED BY <1>2 DEF ManagerHandlesWaiting, TypeOK, ResourceTypeOK, ManagerTypeOK, RunTypeOK, TaskTypeOK

LEMMA ControlRunType ==
  ASSUME TypeOK, NEW nextRun \in BOOLEAN, NEW autoRun \in BOOLEAN, ControlRun(nextRun, autoRun)
  PROVE  TypeOK'
BY LifecycleAssumption
   DEF ControlRun, TypeOK, BusTypeOK, ResourceTypeOK, ManagerTypeOK, RunTypeOK, TaskTypeOK

LEMMA TakeRunType ==
  ASSUME TypeOK, NEW t \in {"consumer", "control"}, TakeRun(t) PROVE TypeOK'
<1>1. RunTypeOK'
  <2>1. runsToExecute # <<>> => Head(runsToExecute) \in Runs /\ Tail(runsToExecute) \in Seq(Runs)
    BY DEF TypeOK, RunTypeOK
  <2> QED BY <2>1 DEF TakeRun, TypeOK, RunTypeOK, MaybeRun
<1> QED BY <1>1 DEF TakeRun, TypeOK, BusTypeOK, ResourceTypeOK, ManagerTypeOK, TaskTypeOK

LEMMA PublishPrepareType ==
  ASSUME TypeOK, NEW t \in {"consumer", "control"}, PublishPrepare(t) PROVE TypeOK'
<1>1. PrepareNewRun(currentRun) \in Event
  BY CommandEventTypes DEF TypeOK, RunTypeOK
<1>2. BusTypeOK'
  BY <1>1, PublishType DEF TypeOK, BusTypeOK, PublishPrepare
<1> QED BY <1>2 DEF PublishPrepare, TypeOK, ResourceTypeOK, ManagerTypeOK, RunTypeOK, TaskTypeOK

LEMMA ManagerHandlesReadyType == ASSUME TypeOK, ManagerHandlesReady PROVE TypeOK'
<1>1. inbox[SystemManager] # <<>> /\ SystemManager \in Components
  BY DEF ManagerHandlesReady, Receives, Components
<1>2. /\ StartRun(currentRun) \in Event
      /\ ResourceStatusChanged(SystemManager, "ERROR") \in Event
  BY <1>1, CommandEventTypes, StatusEventTypes DEF TypeOK, RunTypeOK, Status
<1>3. BusTypeOK'
  BY <1>1, <1>2, ShortSeq, ReactType DEF TypeOK, BusTypeOK, ManagerHandlesReady
<1> QED BY <1>3 DEF ManagerHandlesReady, TypeOK, ResourceTypeOK, ManagerTypeOK, RunTypeOK, TaskTypeOK

LEMMA ManagerHandlesPrepareType == ASSUME TypeOK, ManagerHandlesPrepare PROVE TypeOK'
<1>1. SystemManager \in Components
  BY DEF Components
<1>2. inbox[SystemManager] # <<>> /\ Head(inbox[SystemManager]).run \in MaybeRun
  BY <1>1, HeadType, EventFields DEF ManagerHandlesPrepare
<1>3. BusTypeOK'
  BY <1>1, <1>2, ShortSeq, ReactType DEF TypeOK, BusTypeOK, ManagerHandlesPrepare
<1> QED BY <1>2, <1>3
        DEF ManagerHandlesPrepare, TypeOK, ResourceTypeOK, ManagerTypeOK, RunTypeOK, TaskTypeOK

LEMMA ManagerHandlesStatsType == ASSUME TypeOK, ManagerHandlesStats PROVE TypeOK'
<1>1. SystemManager \in Components
  BY DEF Components
<1>2. inbox[SystemManager] # <<>> /\ Head(inbox[SystemManager]).group \in StatsGroups
  BY <1>1, HeadType, EventFields DEF ManagerHandlesStats
<1>3. /\ RunCompleted(smRunCode) \in Event
      /\ ResourceStatusChanged(SystemManager, "ERROR") \in Event
  BY <1>1, CommandEventTypes, StatusEventTypes DEF TypeOK, ManagerTypeOK, Status
<1>4. BusTypeOK'
  BY <1>1, <1>2, <1>3, ShortSeq, ReactType DEF TypeOK, BusTypeOK, ManagerHandlesStats
<1> QED BY <1>2, <1>4
        DEF ManagerHandlesStats, TypeOK, ResourceTypeOK, ManagerTypeOK, RunTypeOK, TaskTypeOK

LEMMA ManagerHandlesSchedulingStartedType ==
  ASSUME TypeOK, ManagerHandlesSchedulingStarted PROVE TypeOK'
<1>1. SystemManager \in Components
  BY DEF Components
<1>2. inbox[SystemManager] # <<>> /\ Head(inbox[SystemManager]).phase \in RunPhase
  BY <1>1, HeadType, EventFields DEF ManagerHandlesSchedulingStarted
<1>3. BusTypeOK'
  BY <1>1, <1>2, ShortSeq, ReactType DEF TypeOK, BusTypeOK, ManagerHandlesSchedulingStarted
<1> QED BY <1>2, <1>3
        DEF ManagerHandlesSchedulingStarted, TypeOK, ResourceTypeOK, ManagerTypeOK, RunTypeOK, TaskTypeOK

LEMMA ManagerHandlesExecutionCompletedType ==
  ASSUME TypeOK, ManagerHandlesExecutionCompleted PROVE TypeOK'
<1>1. inbox[SystemManager] # <<>> /\ SystemManager \in Components
  BY DEF ManagerHandlesExecutionCompleted, Receives, Components
<1>2. BusTypeOK'
  BY <1>1, ShortSeq, ReactType DEF TypeOK, BusTypeOK, ManagerHandlesExecutionCompleted
<1>3. ManagerTypeOK' /\ RunTypeOK'
  BY DEF ManagerHandlesExecutionCompleted, TypeOK, ManagerTypeOK, RunTypeOK, RunPhase
<1> QED BY <1>2, <1>3 DEF ManagerHandlesExecutionCompleted, TypeOK, ResourceTypeOK, TaskTypeOK

LEMMA ManagerHandlesRunCompletedType == ASSUME TypeOK, ManagerHandlesRunCompleted PROVE TypeOK'
<1>1. inbox[SystemManager] # <<>> /\ SystemManager \in Components
  BY DEF ManagerHandlesRunCompleted, Receives, Components
<1>2. BusTypeOK'
  BY <1>1, ShortSeq, ReactType DEF TypeOK, BusTypeOK, ManagerHandlesRunCompleted
<1>3. ManagerTypeOK' /\ RunTypeOK'
  BY DEF ManagerHandlesRunCompleted, TypeOK, ManagerTypeOK, RunTypeOK, MaybeRun
<1> QED BY <1>2, <1>3 DEF ManagerHandlesRunCompleted, TypeOK, ResourceTypeOK, TaskTypeOK

-----------------------------------------------------------------------------
(* The resources.                                                                               *)

LEMMA HandleResourceStatusType ==
  ASSUME TypeOK, NEW r \in Resources, HandleResourceStatus(r) PROVE TypeOK'
<1>1. r \in Components
  BY DEF Components
<1>2. inbox[r] # <<>> /\ Head(inbox[r]).status \in Status
  BY <1>1, HeadType, EventFields DEF HandleResourceStatus
<1>3. "WAITING" \in Status /\ ResourceStatusChanged(r, "WAITING") \in Event
  BY <1>1, StatusEventTypes DEF Status
<1>4. BusTypeOK'
  <2>1. \E es \in Seq(Event) : React(r, es)
    BY <1>3, ShortSeq DEF HandleResourceStatus
  <2> QED BY <2>1, <1>1, <1>2, ReactType DEF TypeOK, BusTypeOK, HandleResourceStatus
<1>5. status' \in [Resources -> Status] /\ initialized' \in SUBSET Resources
  BY <1>2, <1>3 DEF HandleResourceStatus, TypeOK, ResourceTypeOK
<1> QED BY <1>4, <1>5
        DEF HandleResourceStatus, TypeOK, ResourceTypeOK, ManagerTypeOK, RunTypeOK, TaskTypeOK

LEMMA DropCommandType == ASSUME TypeOK, NEW r \in Resources, DropCommand(r) PROVE TypeOK'
<1>1. inbox[r] # <<>> /\ r \in Components
  BY DEF DropCommand, Receives, Components
<1>2. BusTypeOK'
  BY <1>1, ShortSeq, ReactType DEF TypeOK, BusTypeOK, DropCommand
<1> QED BY <1>2 DEF DropCommand, TypeOK, ResourceTypeOK, ManagerTypeOK, RunTypeOK, TaskTypeOK

(* What prepare_run has in common for the three contexts.                                       *)
LEMMA PrepareContextType ==
  ASSUME TypeOK, NEW r \in Resources, PrepareContext(r)
  PROVE  /\ BusTypeOK' /\ ManagerTypeOK' /\ RunTypeOK'
         /\ status' \in [Resources -> Status] /\ initialized' \in SUBSET Resources
         /\ runCode' \in [Resources -> MaybeRun]
         /\ failures' \in 0..MaxFailures /\ posts' \in 0..MaxPosts
<1>1. r \in Components
  BY DEF Components
<1>2. inbox[r] # <<>> /\ Head(inbox[r]).run \in MaybeRun
  BY <1>1, HeadType, EventFields DEF PrepareContext, Accepts
<1>3. \A s \in {"READY", "ERROR"} : s \in Status /\ <<ResourceStatusChanged(r, s)>> \in Seq(Event)
  BY <1>1, StatusEventTypes, ShortSeq DEF Status
<1>4. PICK outcome \in {"READY", "ERROR"} :
        /\ failures' = IF outcome = "ERROR" THEN failures + 1 ELSE failures
        /\ status' = [status EXCEPT ![r] = outcome]
        /\ React(r, <<ResourceStatusChanged(r, outcome)>>)
  BY DEF PrepareContext
<1>5. BusTypeOK'
  BY <1>1, <1>2, <1>3, <1>4, ReactType DEF TypeOK, BusTypeOK, PrepareContext
<1>6. failures' \in 0..MaxFailures /\ posts' \in 0..MaxPosts
  BY <1>4, LifecycleAssumption DEF PrepareContext, TypeOK, TaskTypeOK
<1>7. status' \in [Resources -> Status] /\ runCode' \in [Resources -> MaybeRun]
  BY <1>2, <1>3, <1>4 DEF PrepareContext, TypeOK, ResourceTypeOK
<1> QED BY <1>5, <1>6, <1>7 DEF PrepareContext, TypeOK, ResourceTypeOK, ManagerTypeOK, RunTypeOK

LEMMA AgentPreparesType == ASSUME TypeOK, Agent \in Resources, AgentPrepares PROVE TypeOK'
BY PrepareContextType DEF AgentPrepares, TypeOK, ResourceTypeOK, TaskTypeOK

(* _clean_backend forgets as many tasks as are sent and not rewarded: never a negative number.  *)
LEMMA CollectorPreparesType == ASSUME TypeOK, Collector \in Resources, CollectorPrepares PROVE TypeOK'
<1>1. PrepareContext(Collector)
  BY DEF CollectorPrepares
<1>2. late' \in Nat
  <2>1. IsFiniteSet(1..sent) /\ Cardinality(1..sent) = sent
    BY FS_Interval DEF TypeOK, TaskTypeOK
  <2>2. IsFiniteSet(rewarded) /\ Cardinality(rewarded) <= Cardinality(1..sent)
    BY <2>1, FS_Subset DEF TypeOK, TaskTypeOK
  <2>3. Cardinality(rewarded) \in Nat
    BY <2>2, FS_CardinalityType
  <2>4. late' = late + sent - Cardinality(rewarded)
    BY DEF CollectorPrepares
  <2> QED BY <2>1, <2>2, <2>3, <2>4 DEF TypeOK, TaskTypeOK
<1>3. TaskTypeOK'
  BY <1>1, <1>2, PrepareContextType DEF CollectorPrepares, TypeOK, TaskTypeOK
<1>4. ResourceTypeOK'
  BY <1>1, PrepareContextType, LifecycleAssumption DEF CollectorPrepares, TypeOK, ResourceTypeOK
<1> QED BY <1>1, <1>3, <1>4, PrepareContextType DEF TypeOK

LEMMA GeneratorPreparesType == ASSUME TypeOK, Generator \in Resources, GeneratorPrepares PROVE TypeOK'
BY PrepareContextType DEF GeneratorPrepares, TypeOK, ResourceTypeOK, TaskTypeOK

(* What start_run has in common for the three contexts.                                         *)
LEMMA StartContextType ==
  ASSUME TypeOK, NEW r \in Resources, NEW before \in Seq(Event), NEW after \in Seq(Event),
         StartContext(r, before, after)
  PROVE  /\ BusTypeOK' /\ ManagerTypeOK' /\ RunTypeOK' /\ TaskTypeOK'
         /\ status' \in [Resources -> Status]
<1>1. r \in Components /\ inbox[r] # <<>>
  BY DEF Components, StartContext, Accepts, Receives
<1>2. "RUNNING" \in Status /\ <<ResourceStatusChanged(r, "RUNNING")>> \in Seq(Event)
  BY <1>1, StatusEventTypes, ShortSeq DEF Status
<1>3. before \o <<ResourceStatusChanged(r, "RUNNING")>> \o after \in Seq(Event)
  BY <1>2
<1>4. BusTypeOK'
  BY <1>1, <1>3, ReactType DEF TypeOK, BusTypeOK, StartContext
<1> QED BY <1>2, <1>4 DEF StartContext, TypeOK, ResourceTypeOK, ManagerTypeOK, RunTypeOK, TaskTypeOK

LEMMA AgentStartsType == ASSUME TypeOK, Agent \in Resources, AgentStarts PROVE TypeOK'
<1>1. <<StatsUpdated("agent_stats")>> \in Seq(Event) /\ <<>> \in Seq(Event)
  BY ExecutionEventTypes, ShortSeq DEF StatsGroups
<1>2. StartContext(Agent, <<StatsUpdated("agent_stats")>>, <<>>)
  BY DEF AgentStarts
<1> QED BY <1>1, <1>2, StartContextType DEF AgentStarts, StartContext, TypeOK, ResourceTypeOK

LEMMA CollectorStartsType == ASSUME TypeOK, Collector \in Resources, CollectorStarts PROVE TypeOK'
<1>1. StartContext(Collector, <<>>, <<>>) /\ <<>> \in Seq(Event)
  BY ShortSeq DEF CollectorStarts
<1> QED BY <1>1, StartContextType DEF CollectorStarts, StartContext, TypeOK, ResourceTypeOK

LEMMA GeneratorStartsType == ASSUME TypeOK, Generator \in Resources, GeneratorStarts PROVE TypeOK'
<1> DEFINE phase == IF TasksToBootstrap > 0 THEN "BOOTSTRAP" ELSE "RUN"
           tasks == IF TasksToBootstrap > 0 THEN TasksToBootstrap ELSE TasksToGenerate
<1>1. phase \in RunPhase /\ tasks \in Nat
  BY LifecycleAssumption DEF RunPhase
<1>2. <<StatsUpdated("global_stats")>> \in Seq(Event) /\ <<SchedulingStarted(phase, tasks)>> \in Seq(Event)
  BY <1>1, ExecutionEventTypes, ShortSeq DEF StatsGroups
<1>3. /\ StartContext(Generator, <<StatsUpdated("global_stats")>>, <<SchedulingStarted(phase, tasks)>>)
      /\ generating' = phase /\ taskIndex' = 0
  BY DEF GeneratorStarts
<1> QED BY <1>1, <1>2, <1>3, StartContextType DEF StartContext, TypeOK, ResourceTypeOK

LEMMA StartFailsType == ASSUME TypeOK, NEW r \in Resources, StartFails(r) PROVE TypeOK'
<1>1. r \in Components /\ inbox[r] # <<>>
  BY DEF Components, StartFails, Accepts, Receives
<1>2. <<ResourceStatusChanged(r, "ERROR")>> \in Seq(Event)
  BY <1>1, StatusEventTypes, ShortSeq DEF Status
<1>3. BusTypeOK'
  BY <1>1, <1>2, ReactType DEF TypeOK, BusTypeOK, StartFails
<1>4. failures' \in 0..MaxFailures
  BY LifecycleAssumption DEF StartFails, TypeOK, TaskTypeOK
<1> QED BY <1>3, <1>4 DEF StartFails, TypeOK, ResourceTypeOK, ManagerTypeOK, RunTypeOK, TaskTypeOK

LEMMA StopRunResourcesType == ASSUME TypeOK, NEW r \in Resources, StopRunResources(r) PROVE TypeOK'
<1>1. r \in Components /\ inbox[r] # <<>>
  BY DEF Components, StopRunResources, Accepts, Receives
<1>2. "WAITING" \in Status /\ <<ResourceStatusChanged(r, "WAITING")>> \in Seq(Event)
  BY <1>1, StatusEventTypes, ShortSeq DEF Status
<1>3. BusTypeOK'
  BY <1>1, <1>2, ReactType DEF TypeOK, BusTypeOK, StopRunResources
<1> QED BY <1>2, <1>3
        DEF StopRunResources, TypeOK, ResourceTypeOK, ManagerTypeOK, RunTypeOK, TaskTypeOK

-----------------------------------------------------------------------------
(* The execution of a run.                                                                      *)

LEMMA AgentHandlesSchedulingStartedType ==
  ASSUME TypeOK, Agent \in Components, AgentHandlesSchedulingStarted PROVE TypeOK'
<1>1. inbox[Agent] # <<>> /\ Head(inbox[Agent]).phase \in RunPhase
  BY HeadType, EventFields DEF AgentHandlesSchedulingStarted
<1>2. BusTypeOK'
  BY <1>1, ShortSeq, ReactType DEF TypeOK, BusTypeOK, AgentHandlesSchedulingStarted
<1> QED BY <1>1, <1>2
        DEF AgentHandlesSchedulingStarted, TypeOK, ResourceTypeOK, ManagerTypeOK, RunTypeOK, TaskTypeOK

LEMMA ObserveRewardType == ASSUME TypeOK, Agent \in Components, ObserveReward PROVE TypeOK'
<1>1. inbox[Agent] # <<>> /\ ExecutionCompleted("BOOTSTRAP") \in Event
  BY ExecutionEventTypes DEF ObserveReward, Receives, RunPhase
<1>2. BusTypeOK'
  BY <1>1, ShortSeq, ReactType DEF TypeOK, BusTypeOK, ObserveReward
<1> QED BY <1>2 DEF ObserveReward, TypeOK, ResourceTypeOK, ManagerTypeOK, RunTypeOK, TaskTypeOK

LEMMA AgentHandlesExecutionCompletedType ==
  ASSUME TypeOK, Agent \in Components, AgentHandlesExecutionCompleted PROVE TypeOK'
<1>1. inbox[Agent] # <<>> /\ StatsUpdated("execution_history_stats") \in Event
  BY ExecutionEventTypes DEF AgentHandlesExecutionCompleted, Receives, StatsGroups
<1>2. BusTypeOK'
  BY <1>1, ShortSeq, ReactType DEF TypeOK, BusTypeOK, AgentHandlesExecutionCompleted
<1> QED BY <1>2
        DEF AgentHandlesExecutionCompleted, TypeOK, ResourceTypeOK, ManagerTypeOK, RunTypeOK, TaskTypeOK, RunPhase

LEMMA CollectorHandlesSchedulingStartedType ==
  ASSUME TypeOK, Collector \in Components, CollectorHandlesSchedulingStarted PROVE TypeOK'
<1>1. /\ inbox[Collector] # <<>>
      /\ Head(inbox[Collector]).phase \in RunPhase /\ Head(inbox[Collector]).tasks \in Nat
  BY HeadType, EventFields DEF CollectorHandlesSchedulingStarted
<1>2. BusTypeOK'
  BY <1>1, ShortSeq, ReactType DEF TypeOK, BusTypeOK, CollectorHandlesSchedulingStarted
<1> QED BY <1>1, <1>2, LifecycleAssumption
        DEF CollectorHandlesSchedulingStarted, TypeOK, ResourceTypeOK, ManagerTypeOK, RunTypeOK, TaskTypeOK

LEMMA CollectorHandlesSchedulingCompletedType ==
  ASSUME TypeOK, Collector \in Components, CollectorHandlesSchedulingCompleted PROVE TypeOK'
<1>1. inbox[Collector] # <<>> /\ Head(inbox[Collector]).tasks \in Nat
  BY HeadType, EventFields DEF CollectorHandlesSchedulingCompleted
<1>2. BusTypeOK'
  BY <1>1, ShortSeq, ReactType DEF TypeOK, BusTypeOK, CollectorHandlesSchedulingCompleted
<1> QED BY <1>1, <1>2
        DEF CollectorHandlesSchedulingCompleted, TypeOK, ResourceTypeOK, ManagerTypeOK, RunTypeOK, TaskTypeOK

LEMMA CollectorHandlesExecutionCompletedType ==
  ASSUME TypeOK, Collector \in Components, CollectorHandlesExecutionCompleted PROVE TypeOK'
<1>1. inbox[Collector] # <<>>
  BY DEF CollectorHandlesExecutionCompleted, Receives
<1>2. BusTypeOK'
  BY <1>1, ShortSeq, ReactType DEF TypeOK, BusTypeOK, CollectorHandlesExecutionCompleted
<1> QED BY <1>2, LifecycleAssumption
        DEF CollectorHandlesExecutionCompleted, TypeOK, ResourceTypeOK, ManagerTypeOK, RunTypeOK, TaskTypeOK, RunPhase

(* A trajectory is notified only when its task has been rewarded and has not failed.            *)
LEMMA NotifyAgentType ==
  ASSUME TypeOK, NEW k, NEW made, NEW done, NEW bad, rewarded \ failed \subseteq done \ bad,
         NotifyAgent(k, made, done, bad)
  PROVE  /\ inbox' \in [Components -> Seq(Event)] /\ outbox' \in [Components -> Seq(Event)]
         /\ notified' \in SUBSET (done \ bad)
<1>1. CASE k \in done \ (bad \union notified) /\ k < made
  <2>1. notified' = notified \union {k} /\ Publish(TrajectoryCompleted)
    BY <1>1 DEF NotifyAgent
  <2> QED BY <2>1, <1>1, PublishType, ExecutionEventTypes DEF TypeOK, TaskTypeOK
<1>2. CASE ~(k \in done \ (bad \union notified) /\ k < made)
  BY <1>2 DEF NotifyAgent, TypeOK, BusTypeOK, TaskTypeOK
<1> QED BY <1>1, <1>2

LEMMA CreateTrajectoryType == ASSUME TypeOK, CreateTrajectory PROVE TypeOK'
<1>1. NotifyAgent(created, created', rewarded, failed)
  BY DEF CreateTrajectory
<1>2. BusTypeOK'
  BY <1>1, NotifyAgentType DEF CreateTrajectory, TypeOK, BusTypeOK
<1>3. notified' \in SUBSET (rewarded \ failed)
  BY <1>1, NotifyAgentType
<1>4. TaskTypeOK'
  BY <1>3 DEF CreateTrajectory, TypeOK, TaskTypeOK
<1> QED BY <1>2, <1>4 DEF CreateTrajectory, TypeOK, ResourceTypeOK, ManagerTypeOK, RunTypeOK

LEMMA ComputeTaskRewardType ==
  ASSUME TypeOK, NEW k \in 1..sent, NEW fails \in BOOLEAN, ComputeTaskReward(k, fails)
  PROVE  TypeOK'
<1>1. /\ rewarded' = rewarded \union {k} /\ k \notin rewarded
      /\ failed' = IF fails THEN failed \union {k} ELSE failed
      /\ NotifyAgent(k, created, rewarded', failed')
  BY DEF ComputeTaskReward
<1>2. rewarded \ failed \subseteq rewarded' \ failed'
  BY <1>1
<1>3. BusTypeOK'
  BY <1>1, <1>2, NotifyAgentType DEF ComputeTaskReward, TypeOK, BusTypeOK
<1>4. notified' \in SUBSET (rewarded' \ failed')
  BY <1>1, <1>2, NotifyAgentType
<1>5. TaskTypeOK'
  BY <1>1, <1>4 DEF ComputeTaskReward, TypeOK, TaskTypeOK
<1> QED BY <1>3, <1>5 DEF ComputeTaskReward, TypeOK, ResourceTypeOK, ManagerTypeOK, RunTypeOK

LEMMA ComputeLateRewardType ==
  ASSUME TypeOK, NEW counted \in BOOLEAN, ComputeLateReward(counted) PROVE TypeOK'
BY DEF ComputeLateReward, TypeOK, BusTypeOK, ResourceTypeOK, ManagerTypeOK, RunTypeOK, TaskTypeOK

LEMMA AreAllTasksExecutedType == ASSUME TypeOK, AreAllTasksExecuted PROVE TypeOK'
<1>1. ExecutionCompleted("RUN") \in Event
  BY ExecutionEventTypes DEF RunPhase
<1>2. BusTypeOK'
  BY <1>1, PublishType DEF AreAllTasksExecuted, TypeOK, BusTypeOK
<1> QED BY <1>2 DEF AreAllTasksExecuted, TypeOK, ResourceTypeOK, ManagerTypeOK, RunTypeOK, TaskTypeOK

LEMMA ScheduleTaskType == ASSUME TypeOK, ScheduleTask PROVE TypeOK'
<1>1. sent' \in Nat /\ sent' >= sent
  BY DEF ScheduleTask, TypeOK, TaskTypeOK
<1>2. TaskTypeOK'
  BY <1>1 DEF ScheduleTask, TypeOK, TaskTypeOK
<1> QED BY <1>2 DEF ScheduleTask, TypeOK, BusTypeOK, ResourceTypeOK, ManagerTypeOK, RunTypeOK

LEMMA CompleteSchedulingType == ASSUME TypeOK, CompleteScheduling PROVE TypeOK'
<1>1. SchedulingCompleted(generating, IF generating = "RUN" THEN tasksScheduled ELSE TasksToBootstrap)
        \in Event
  BY ExecutionEventTypes, LifecycleAssumption DEF TypeOK, ResourceTypeOK
<1>2. BusTypeOK'
  BY <1>1, PublishType DEF CompleteScheduling, TypeOK, BusTypeOK
<1> QED BY <1>2
        DEF CompleteScheduling, TypeOK, ResourceTypeOK, ManagerTypeOK, RunTypeOK, TaskTypeOK, RunPhase

LEMMA GeneratorHandlesSchedulingCompletedType ==
  ASSUME TypeOK, Generator \in Components, GeneratorHandlesSchedulingCompleted PROVE TypeOK'
<1>1. inbox[Generator] # <<>> /\ StatsUpdated("tasks_generated") \in Event
  BY ExecutionEventTypes DEF GeneratorHandlesSchedulingCompleted, Receives, StatsGroups
<1>2. BusTypeOK'
  BY <1>1, ShortSeq, ReactType DEF TypeOK, BusTypeOK, GeneratorHandlesSchedulingCompleted
<1> QED BY <1>2
        DEF GeneratorHandlesSchedulingCompleted, TypeOK, ResourceTypeOK, ManagerTypeOK, RunTypeOK, TaskTypeOK

LEMMA GeneratorHandlesExecutionCompletedType ==
  ASSUME TypeOK, Generator \in Components, GeneratorHandlesExecutionCompleted PROVE TypeOK'
<1>1. inbox[Generator] # <<>> /\ SchedulingStarted("RUN", TasksToGenerate) \in Event
  BY ExecutionEventTypes, LifecycleAssumption
     DEF GeneratorHandlesExecutionCompleted, Receives, RunPhase
<1>2. BusTypeOK'
  BY <1>1, ShortSeq, ReactType DEF TypeOK, BusTypeOK, GeneratorHandlesExecutionCompleted
<1> QED BY <1>2
        DEF GeneratorHandlesExecutionCompleted, TypeOK, ResourceTypeOK, ManagerTypeOK, RunTypeOK, TaskTypeOK, RunPhase

-----------------------------------------------------------------------------
LEMMA InitType == Init => TypeOK
<1> SUFFICES ASSUME Init PROVE TypeOK
  OBVIOUS
<1>1. BusTypeOK BY DEF Init, BusTypeOK
<1>2. ResourceTypeOK BY DEF Init, ResourceTypeOK, Status, RunPhase, MaybeRun
<1>3. ManagerTypeOK BY DEF Init, ManagerTypeOK, Status, RunPhase, MaybeRun
<1>4. RunTypeOK
  <2>1. [i \in 1..NumRuns |-> i] \in Seq(Runs)
    BY LifecycleAssumption DEF Runs
  <2>2. <<>> \in Seq(MaybeRun)
    OBVIOUS
  <2> QED BY <2>1, <2>2, LifecycleAssumption DEF Init, RunTypeOK, MaybeRun
<1>5. TaskTypeOK BY LifecycleAssumption DEF Init, TaskTypeOK
<1> QED BY <1>1, <1>2, <1>3, <1>4, <1>5 DEF TypeOK

LEMMA ConsumerStepType == ASSUME TypeOK, NEW c \in Components, ConsumerStep(c) PROVE TypeOK'
<1>1. CASE Flush(c)
  BY <1>1, FlushType
<1>2. CASE c = SystemManager /\ (ManagerHandlesEvent \/ TakeRun("consumer") \/ PublishPrepare("consumer"))
  BY <1>2, TakeRunType, PublishPrepareType, ManagerHandlesResourceStatusType,
     ManagerHandlesWaitingType, ManagerHandlesReadyType, ManagerHandlesPrepareType,
     ManagerHandlesStatsType, ManagerHandlesSchedulingStartedType,
     ManagerHandlesExecutionCompletedType, ManagerHandlesRunCompletedType
  DEF ManagerHandlesEvent
<1>3. CASE c = Agent /\ AgentHandlesEvent
  <2>1. Agent \in Resources /\ Agent \in Components
    BY <1>3 DEF Components, Agent, SystemManager
  <2> QED BY <1>3, <2>1, AgentPreparesType, AgentStartsType, AgentHandlesSchedulingStartedType,
             ObserveRewardType, AgentHandlesExecutionCompletedType DEF AgentHandlesEvent
<1>4. CASE c = Collector /\ CollectorHandlesEvent
  <2>1. Collector \in Resources /\ Collector \in Components
    BY <1>4 DEF Components, Collector, SystemManager
  <2> QED BY <1>4, <2>1, CollectorPreparesType, CollectorStartsType,
             CollectorHandlesSchedulingStartedType, CollectorHandlesSchedulingCompletedType,
             CollectorHandlesExecutionCompletedType DEF CollectorHandlesEvent
<1>5. CASE c = Generator /\ (GeneratorHandlesEvent \/ ScheduleTask \/ CompleteScheduling)
  <2>1. Generator \in Resources /\ Generator \in Components
    BY <1>5 DEF Components, Generator, SystemManager
  <2> QED BY <1>5, <2>1, GeneratorPreparesType, GeneratorStartsType,
             GeneratorHandlesSchedulingCompletedType, GeneratorHandlesExecutionCompletedType,
             ScheduleTaskType, CompleteSchedulingType DEF GeneratorHandlesEvent
<1>6. CASE c \in Resources /\ ResourceHandlesEvent(c)
  BY <1>6, HandleResourceStatusType, DropCommandType, StartFailsType, StopRunResourcesType
  DEF ResourceHandlesEvent
<1> QED BY <1>1, <1>2, <1>3, <1>4, <1>5, <1>6 DEF ConsumerStep

LEMMA NextType == TypeOK /\ [Next]_vars => TypeOK'
<1> SUFFICES ASSUME TypeOK, [Next]_vars PROVE TypeOK'
  OBVIOUS
<1>1. CASE StartUp
  BY <1>1, SubscribeType, ReadStatusType, AnnounceType, CreateManagersType, StartManagersType DEF StartUp
<1>2. CASE CeleryStep
  BY <1>2, CheckCeleryType, PublishCeleryType DEF CeleryStep
<1>3. CASE ControlStep
  BY <1>3, ControlRunType, TakeRunType, PublishPrepareType DEF ControlStep
<1>4. CASE \E c \in Components : ConsumerStep(c)
  BY <1>4, ConsumerStepType
<1>5. CASE CreateTrajectory
  BY <1>5, CreateTrajectoryType
<1>6. CASE RewardStep
  BY <1>6, ComputeTaskRewardType, ComputeLateRewardType, AreAllTasksExecutedType DEF RewardStep
<1>7. CASE UNCHANGED vars
  BY <1>7 DEF TypeOK, BusTypeOK, ResourceTypeOK, ManagerTypeOK, RunTypeOK, TaskTypeOK
<1> QED BY <1>1, <1>2, <1>3, <1>4, <1>5, <1>6, <1>7 DEF Next

(* Every variable keeps a value the code can give it, and no task is rewarded or notified that  *)
(* is not sent, for every list of resources, number of runs and tasks, and number of failures.  *)
THEOREM TypeCorrect == Spec => []TypeOK
BY InitType, NextType, PTL DEF Spec

-----------------------------------------------------------------------------
(* After the start: the safety of the lifecycle.                                                 *)

USE DEF Status, SystemManager, Agent, Collector, Generator, Celery

(* The runs these theorems are about: the three resources the system has; no bootstrap, which    *)
(* ends a run too early; tasks that take longer than the delivery of an event; and no two        *)
(* threads in schedule_next_run: a request to ControlRunResources comes at most once, and only   *)
(* where the consumer thread does not start the first run by itself.                             *)
UndisturbedRuns ==
  /\ Resources = {Agent, Collector, Generator}
  /\ MaxPosts = 0 \/ (MaxPosts = 1 /\ ~AutoStart)
  /\ TasksToBootstrap = 0
  /\ SlowTasks

-----------------------------------------------------------------------------
(* Vocabulary: what is in an inbox, whatever its place.                                          *)

Queue == [c \in Components |-> Contents(inbox[c])]

Has(c, t) == \E e \in Queue[c] : e.type = t
NoneOf(c, types) == \A e \in Queue[c] : e.type \notin types
OnlyOf(c, types) == \A e \in Queue[c] : e.type \in types

Stat(g) == StatsUpdated(g) \in Queue[SystemManager]
Counted(g) == g \in statsGroups \/ Stat(g)
Report(r) == \E s \in Status : ResourceStatusChanged(r, s) \in Queue[SystemManager]
Reporting(r) == outbox[r] # <<>> /\ Head(outbox[r]).type = "RESOURCE_STATUS_CHANGED"

\* the reports of r on their way to the manager, and their echoes on their way to r
ReportsOnly(r, s) ==
  \A z \in Status : ResourceStatusChanged(r, z) \in Queue[SystemManager] => z = s
EchoesOnly(r, s) == \A e \in Queue[r] : e.type = "RESOURCE_STATUS_CHANGED" => e.status = s

(* The status the last command published leads to, the one it finds, and the command.            *)
Taking == \E t \in {"consumer", "control"} : scheduler[t] = "taken"
Stage ==
  IF currentRun = NoRun \/ Has(SystemManager, "RUN_COMPLETED") \/ Taking THEN "WAITING"
  ELSE IF currentRunStarted THEN "RUNNING" ELSE "READY"

BeforeOf(s) == IF s = "WAITING" THEN "RUNNING" ELSE IF s = "READY" THEN "WAITING" ELSE "READY"
CommandOf(s) ==
  IF s = "WAITING" THEN "RUN_COMPLETED" ELSE IF s = "READY" THEN "PREPARE_NEW_RUN" ELSE "START_RUN"
Commands == {"PREPARE_NEW_RUN", "START_RUN", "RUN_COMPLETED"}

(* r has still to execute the last command.                                                      *)
Awaits(r) ==
  /\ Has(r, CommandOf(Stage)) /\ NoneOf(r, Commands \ {CommandOf(Stage)})
  /\ status[r] = BeforeOf(Stage) /\ EchoesOnly(r, BeforeOf(Stage))
  /\ resourcesStatus[r] = BeforeOf(Stage)
  /\ ~Report(r) /\ outbox[r] = <<>>

(* r has executed it, and its report is on its way.                                              *)
Reports(r) ==
  /\ NoneOf(r, Commands)
  /\ status[r] = Stage /\ EchoesOnly(r, Stage)
  /\ resourcesStatus[r] = BeforeOf(Stage)
  /\ (Report(r) /\ ~Reporting(r)) \/ (Reporting(r) /\ ~Report(r))
  /\ ReportsOnly(r, Stage)

(* r has executed it, and the manager knows.                                                     *)
Agreed(r) ==
  /\ NoneOf(r, Commands)
  /\ status[r] = Stage /\ EchoesOnly(r, Stage)
  /\ resourcesStatus[r] = Stage
  /\ ~Report(r) /\ ~Reporting(r)

(* r has failed.                                                                                 *)
Broken(r) ==
  /\ failures > 0
  /\ NoneOf(r, {"PREPARE_NEW_RUN", "START_RUN"}) /\ (Has(r, "RUN_COMPLETED") => Stage = "WAITING")
  /\ EchoesOnly(r, "ERROR")
  /\ status[r] = "ERROR" \/ (status[r] = "READY" /\ Has(r, "RESOURCE_STATUS_CHANGED"))
  /\ outbox[r] = <<>>
  /\ \/ resourcesStatus[r] = "ERROR" /\ ~Report(r)
     \/ resourcesStatus[r] = BeforeOf(Stage) /\ Stage # "WAITING" /\ Report(r) /\ ReportsOnly(r, "ERROR")

Lock(r) == Awaits(r) \/ Reports(r) \/ Agreed(r) \/ Broken(r)
Lockstep == \A r \in Resources : Lock(r)

-----------------------------------------------------------------------------
(* What may be in the inboxes and the outboxes.                                                  *)
Outboxes ==
  /\ outbox[SystemManager] = <<>> /\ outbox[Collector] = <<>>
  /\ outbox[Agent] \in {<<>>, <<ResourceStatusChanged(Agent, "RUNNING")>>}
  /\ outbox[Generator] \in {<<>>, <<SchedulingStarted("RUN", TasksToGenerate)>>,
                            <<ResourceStatusChanged(Generator, "RUNNING"),
                              SchedulingStarted("RUN", TasksToGenerate)>>}

EventOK(c, e) ==
  /\ c # SystemManager /\ e.type = "RESOURCE_STATUS_CHANGED" => e.name = c
  /\ c = SystemManager /\ e.type = "RESOURCE_STATUS_CHANGED" =>
       e.name \in Resources /\ e.status \in {"WAITING", "READY", "RUNNING", "ERROR"}
  /\ e.type \in {"PREPARE_NEW_RUN", "START_RUN"} => e.run = currentRun
  /\ e.type \in {"SCHEDULING_STARTED", "SCHEDULING_COMPLETED"} => e.phase = "RUN" /\ e.tasks = TasksToGenerate
  /\ e.type = "EXECUTION_COMPLETED" => e.phase = "RUN"
  /\ e.type = "SYSTEM_STATUS_CHANGED" => e.status \in {"WAITING", "READY"}

EventsOK == \A c \in Components : \A e \in Queue[c] : EventOK(c, e)

(* a never comes before b in the inbox of c.                                                     *)
Overtakes(c, a, b) ==
  IF c = SystemManager
  THEN \/ a.type = b.type /\ a.type \in {"PREPARE_NEW_RUN", "SCHEDULING_STARTED",
                                         "EXECUTION_COMPLETED", "RUN_COMPLETED"}
       \/ a.type = "STATS_UPDATED" /\ b = a
       \/ a.type = "RESOURCE_STATUS_CHANGED" /\ b.type = "RESOURCE_STATUS_CHANGED" /\ a.name = b.name
       \/ a.type = "RESOURCE_STATUS_CHANGED" /\ a.status = "READY" /\ b.type = "PREPARE_NEW_RUN"
       \/ a.type = "RESOURCE_STATUS_CHANGED" /\ a.status = "WAITING" /\ b.type = "RUN_COMPLETED"
       \/ a = StatsUpdated("execution_history_stats") /\ b.type = "RESOURCE_STATUS_CHANGED" /\ b.name = Agent
       \/ a.type = "SCHEDULING_STARTED" /\ b.type = "RESOURCE_STATUS_CHANGED" /\ b.name = Generator
       \/ a.type = "EXECUTION_COMPLETED" /\ b.type = "RESOURCE_STATUS_CHANGED" /\ b.name = Collector
       \/ a.type = "EXECUTION_COMPLETED" /\ b.type = "SCHEDULING_STARTED"
  ELSE \/ a.type \in Commands /\ b.type \in Commands \union {"RESOURCE_STATUS_CHANGED"}
       \/ a.type = "RUN_COMPLETED" /\ b.type \in {"SCHEDULING_STARTED", "SCHEDULING_COMPLETED", "EXECUTION_COMPLETED"}
       \/ a.type \in {"SCHEDULING_STARTED", "SCHEDULING_COMPLETED", "EXECUTION_COMPLETED"}
            /\ b.type \in {"START_RUN", "SCHEDULING_STARTED"}
       \/ a.type = b.type /\ a.type \in {"SCHEDULING_COMPLETED", "EXECUTION_COMPLETED"}

Sorted(c, q) == \A i, j \in DOMAIN q : i < j => ~Overtakes(c, q[i], q[j])
InOrder == \A c \in Components : Sorted(c, inbox[c])

-----------------------------------------------------------------------------
(* The manager.                                                                                  *)
UpAndRunning ==
  /\ boot = [c \in Components |-> "up"]
  /\ celeryStatus = "RUNNING" /\ celeryCheck = "done"
  /\ late = 0 /\ initialized = Resources /\ collectorPhase # "BOOTSTRAP"

StatusKnown ==
  /\ systemStatus \in {BeforeOf(Stage), Stage, "ERROR"}
  /\ systemStatus = Stage => \A r \in Resources : resourcesStatus[r] = Stage
  /\ systemStatus = "ERROR" <=> \E r \in Resources : resourcesStatus[r] = "ERROR"
  /\ (\A r \in Resources : resourcesStatus[r] = Stage) => systemStatus = Stage

OneScheduler ==
  posts < MaxPosts \/ scheduler["control"] # "idle"
    => isFirstRun /\ ~AutoStart /\ scheduler["consumer"] = "idle"
       /\ (scheduler["control"] # "idle" => posts = MaxPosts)

Scheduling ==
  /\ \A t \in {"consumer", "control"} : scheduler[t] # "idle" => systemStatus = "WAITING" /\ Stage = "WAITING"
  /\ \A t \in {"consumer", "control"} : scheduler[t] = "checked" => currentRun = NoRun /\ isCurrentExecutionCompleted
  /\ \A t \in {"consumer", "control"} : scheduler[t] = "taken" =>
       currentRun # NoRun /\ ~currentRunStarted /\ ~isCurrentExecutionCompleted

NumTasks == TasksToGenerate - TasksToSkip

(* Waiting for a run.                                                                            *)
Waiting ==
  Stage = "WAITING" =>
    /\ OnlyOf(SystemManager, {"SYSTEM_STATUS_CHANGED", "RESOURCE_STATUS_CHANGED", "RUN_COMPLETED"})
    /\ OnlyOf(Agent, {"RUN_COMPLETED", "RESOURCE_STATUS_CHANGED", "TRAJECTORY_COMPLETED"})
    /\ OnlyOf(Collector, {"RUN_COMPLETED", "RESOURCE_STATUS_CHANGED", "SCHEDULING_COMPLETED", "EXECUTION_COMPLETED"})
    /\ OnlyOf(Generator, {"RUN_COMPLETED", "RESOURCE_STATUS_CHANGED"})
    /\ Has(Collector, "SCHEDULING_COMPLETED") \/ Has(Collector, "EXECUTION_COMPLETED")
         => Has(Collector, "RUN_COMPLETED")
    /\ Has(Collector, "EXECUTION_COMPLETED") => rewarded = 1..NumTasks
    /\ Has(SystemManager, "RUN_COMPLETED") => currentRun # NoRun /\ isCurrentExecutionCompleted
         /\ \A r \in Resources : resourcesStatus[r] # "WAITING"
    /\ (\A t \in {"consumer", "control"} : scheduler[t] # "taken") => isCurrentExecutionCompleted
    /\ smPhase = "WAIT" /\ generating = "WAIT" /\ outbox[Agent] = <<>> /\ outbox[Generator] = <<>>
    /\ rewarded = 1..sent /\ ~notifying

(* Preparing a run.                                                                              *)
Preparing ==
  Stage = "READY" =>
    /\ OnlyOf(SystemManager, {"SYSTEM_STATUS_CHANGED", "RESOURCE_STATUS_CHANGED", "PREPARE_NEW_RUN"})
    /\ OnlyOf(Agent, {"PREPARE_NEW_RUN", "RESOURCE_STATUS_CHANGED", "TRAJECTORY_COMPLETED"})
    /\ OnlyOf(Collector, {"PREPARE_NEW_RUN", "RESOURCE_STATUS_CHANGED"})
    /\ OnlyOf(Generator, {"PREPARE_NEW_RUN", "RESOURCE_STATUS_CHANGED"})
    /\ IF Has(SystemManager, "PREPARE_NEW_RUN") THEN \A r \in Resources : resourcesStatus[r] # "READY"
       ELSE smRunCode = currentRun /\ statsGroups = {}
    /\ smPhase = "WAIT" /\ ~isCurrentExecutionCompleted
    /\ generating = "WAIT" /\ outbox[Agent] = <<>> /\ outbox[Generator] = <<>>
    /\ rewarded = 1..sent /\ ~notifying
    /\ status[Collector] = "READY" =>
         sent = 0 /\ created = 0 /\ taskCompleted = TasksToSkip /\ taskToExecute = TasksToGenerate
    /\ status[Generator] = "READY" => tasksScheduled = 0

(* Running.                                                                                      *)
Begun == status[Generator] = "RUNNING" /\ outbox[Generator] = <<>>
Over == ~notifying /\ rewarded = 1..NumTasks /\ rewarded # {}

RunningEvents ==
  Stage = "RUNNING" =>
    /\ OnlyOf(SystemManager, {"SYSTEM_STATUS_CHANGED", "RESOURCE_STATUS_CHANGED", "STATS_UPDATED",
                               "SCHEDULING_STARTED", "EXECUTION_COMPLETED"})
    /\ OnlyOf(Agent, {"START_RUN", "RESOURCE_STATUS_CHANGED", "TRAJECTORY_COMPLETED",
                       "SCHEDULING_STARTED", "EXECUTION_COMPLETED"})
    /\ OnlyOf(Collector, {"START_RUN", "RESOURCE_STATUS_CHANGED", "SCHEDULING_STARTED",
                           "SCHEDULING_COMPLETED", "EXECUTION_COMPLETED"})
    /\ OnlyOf(Generator, {"START_RUN", "RESOURCE_STATUS_CHANGED", "SCHEDULING_COMPLETED"})

RunningManager ==
  Stage = "RUNNING" =>
    /\ smRunCode = currentRun /\ smPhase \in {"WAIT", "RUN"}
    /\ Has(SystemManager, "SCHEDULING_STARTED") \/ ~Begun => smPhase = "WAIT" /\ ~isCurrentExecutionCompleted
    /\ smPhase = "RUN" => ~isCurrentExecutionCompleted
    /\ smPhase = "RUN" \/ isCurrentExecutionCompleted => ~Report(Generator)
    /\ isCurrentExecutionCompleted => ~Has(SystemManager, "EXECUTION_COMPLETED") /\ ~Report(Collector)

RunningStats ==
  Stage = "RUNNING" =>
    /\ \A g \in statsGroups : ~Stat(g)
    /\ Counted("agent_stats") => ~Has(Agent, "START_RUN")
    /\ Counted("global_stats") => ~Has(Generator, "START_RUN")
    /\ Counted("tasks_generated") => Begun /\ generating = "WAIT" /\ ~Has(Generator, "SCHEDULING_COMPLETED")
    /\ Counted("execution_history_stats") =>
         /\ Over /\ outbox[Agent] = <<>> /\ ~Has(Agent, "START_RUN")
         /\ ~Has(Agent, "EXECUTION_COMPLETED") /\ ~Has(Agent, "SCHEDULING_STARTED")
    /\ "execution_history_stats" \in statsGroups => ~Report(Agent)

RunningTasks ==
  Stage = "RUNNING" =>
    /\ outbox[Agent] # <<>> => status[Agent] = "RUNNING"
    /\ outbox[Generator] # <<>> => generating = "RUN" /\ taskIndex = 0
    /\ ~Begun =>
         /\ sent = 0 /\ ~notifying
         /\ \A t \in {"SCHEDULING_STARTED", "SCHEDULING_COMPLETED", "EXECUTION_COMPLETED"} :
              \A c \in Components : ~Has(c, t)
    /\ status[Generator] # "RUNNING" => generating = "WAIT" /\ tasksScheduled = 0
    /\ generating = "WAIT" \/ generating = "RUN"
    /\ generating = "RUN" =>
         /\ ~Has(Generator, "SCHEDULING_COMPLETED") /\ ~Has(Collector, "SCHEDULING_COMPLETED")
         /\ tasksScheduled = taskIndex /\ taskIndex <= TasksToGenerate
         /\ sent = IF taskIndex > TasksToSkip THEN taskIndex - TasksToSkip ELSE 0
    /\ sent <= NumTasks
    /\ rewarded # {} => ~Has(Collector, "SCHEDULING_STARTED") /\ ~Has(Collector, "START_RUN")
    /\ Begun /\ Has(Collector, "START_RUN") => Has(Collector, "SCHEDULING_STARTED")
    /\ taskCompleted = TasksToSkip + Cardinality(rewarded) /\ taskToExecute = TasksToGenerate
    /\ notifying => rewarded # {}
    /\ isCurrentExecutionCompleted \/ (\E c \in Components : Has(c, "EXECUTION_COMPLETED")) => Over

RunCodes ==
  \A r \in Resources :
    /\ Stage = "READY" /\ status[r] = "READY" => runCode[r] = currentRun
    /\ Stage = "RUNNING" => runCode[r] = currentRun

IInv ==
  /\ UndisturbedRuns /\ TypeOK /\ UpAndRunning /\ Outboxes /\ EventsOK /\ InOrder
  /\ Lockstep /\ StatusKnown /\ OneScheduler /\ Scheduling /\ RunCodes
  /\ Waiting /\ Preparing /\ RunningEvents /\ RunningManager /\ RunningStats /\ RunningTasks
  /\ RunsConserved

-----------------------------------------------------------------------------
(* Queues and the topic.                                                                         *)

LEMMA PairIs ==
  ASSUME NEW S, NEW a \in S, NEW b \in S PROVE <<a>> \o <<b>> = <<a, b>>
<1> DEFINE p == <<a>> \o <<b>>
           q == <<a, b>>
<1>1. p \in Seq(S) /\ Len(p) = 2 /\ p[1] = a /\ p[2] = b
  OBVIOUS
<1>2. q \in Seq(S) /\ Len(q) = 2 /\ q[1] = a /\ q[2] = b
  OBVIOUS
<1> HIDE DEF p, q
<1>3. \A i \in 1..2 : p[i] = q[i]
  <2>1. \A i \in 1..2 : i = 1 \/ i = 2
    OBVIOUS
  <2> QED BY <1>1, <1>2, <2>1
<1>4. p = q
  BY <1>1, <1>2, <1>3, SeqEqual
<1> QED BY <1>4 DEF p, q

LEMMA ContentsOf ==
  ASSUME NEW S, NEW q \in Seq(S)
  PROVE  /\ Contents(q) \subseteq S
         /\ \A x \in S : Contents(Append(q, x)) = Contents(q) \union {x}
         /\ q # <<>> => Contents(q) = {Head(q)} \union Contents(Tail(q))
<1> DEFINE n == Len(q)
<1>1. n \in Nat /\ DOMAIN q = 1..n /\ \A i \in 1..n : q[i] \in S
  OBVIOUS
<1>2. ASSUME NEW x \in S PROVE Contents(Append(q, x)) = Contents(q) \union {x}
  <2> DEFINE p == Append(q, x)
  <2>1. DOMAIN p = 1..n+1 /\ (\A i \in 1..n : p[i] = q[i]) /\ p[n+1] = x
    OBVIOUS
  <2> HIDE DEF p, n
  <2>2. ASSUME NEW y PROVE y \in Contents(p) <=> y \in Contents(q) \/ y = x
    <3>1. ASSUME y \in Contents(p) PROVE y \in Contents(q) \/ y = x
      BY <1>1, <2>1, <3>1 DEF Contents
    <3>2. ASSUME y \in Contents(q) \/ y = x PROVE y \in Contents(p)
      <4>1. PICK i \in 1..n+1 : p[i] = y
        BY <1>1, <2>1, <3>2 DEF Contents
      <4> QED BY <2>1, <4>1 DEF Contents
    <3> QED BY <3>1, <3>2
  <2> QED BY <2>2 DEF p
<1>3. ASSUME q # <<>> PROVE Contents(q) = {Head(q)} \union Contents(Tail(q))
  <2> DEFINE p == Tail(q)
  <2>1. n > 0 /\ DOMAIN p = 1..n-1 /\ (\A i \in 1..n-1 : p[i] = q[i+1]) /\ Head(q) = q[1]
    BY <1>3
  <2> HIDE DEF p, n
  <2>2. \A i \in 1..n : i = 1 \/ (i - 1 \in 1..n-1 /\ p[i-1] = q[i])
    BY <1>1, <2>1
  <2>3. ASSUME NEW y PROVE y \in Contents(q) <=> y = Head(q) \/ y \in Contents(p)
    <3>1. ASSUME y \in Contents(q) PROVE y = Head(q) \/ y \in Contents(p)
      BY <1>1, <2>1, <2>2, <3>1 DEF Contents
    <3>2. ASSUME y = Head(q) \/ y \in Contents(p) PROVE y \in Contents(q)
      <4>1. PICK i \in 1..n : q[i] = y
        BY <1>1, <2>1, <3>2 DEF Contents
      <4> QED BY <1>1, <4>1 DEF Contents
    <3> QED BY <3>1, <3>2
  <2> QED BY <2>3 DEF p
<1> QED BY <1>1, <1>2, <1>3 DEF Contents

LEMMA SortedTail ==
  ASSUME NEW S, NEW q \in Seq(S), q # <<>>, NEW c, Sorted(c, q)
  PROVE  Sorted(c, Tail(q)) /\ \A b \in Contents(Tail(q)) : ~Overtakes(c, Head(q), b)
<1> DEFINE n == Len(q)
           p == Tail(q)
<1>1. /\ n \in Nat /\ n > 0 /\ DOMAIN q = 1..n
      /\ DOMAIN p = 1..n-1 /\ (\A i \in 1..n-1 : p[i] = q[i+1]) /\ Head(q) = q[1]
  OBVIOUS
<1> HIDE DEF p, n
<1> QED BY <1>1 DEF Sorted, Contents

LEMMA SortedAppend ==
  ASSUME NEW S, NEW q \in Seq(S), NEW e \in S, NEW c, Sorted(c, q),
         \A a \in Contents(q) : ~Overtakes(c, a, e)
  PROVE  Sorted(c, Append(q, e))
<1> DEFINE n == Len(q)
           p == Append(q, e)
<1>1. /\ n \in Nat /\ DOMAIN q = 1..n
      /\ DOMAIN p = 1..n+1 /\ (\A i \in 1..n : p[i] = q[i]) /\ p[n+1] = e
  OBVIOUS
<1> HIDE DEF p, n
<1> QED BY <1>1 DEF Sorted, Contents

(* What c has left when it takes the head of its inbox, and what a publication adds.             *)
Rest(c) == Contents(Tail(inbox[c]))
Left(c, d) == IF d = c THEN Rest(c) ELSE Queue[d]
Adds(d, e) == IF Relevant(d, e) THEN {e} ELSE {}

LEMMA InboxTypes ==
  ASSUME TypeOK
  PROVE  /\ inbox \in [Components -> Seq(Event)] /\ outbox \in [Components -> Seq(Event)]
         /\ \A c \in Components : inbox[c] \in Seq(Event) /\ outbox[c] \in Seq(Event)
BY DEF TypeOK, BusTypeOK

LEMMA QueueIs ==
  /\ \A c \in Components : Queue[c] = Contents(inbox[c])
  /\ \A c \in Components : Queue'[c] = Contents(inbox'[c])
BY DEF Queue

LEMMA QueueTypes ==
  ASSUME TypeOK PROVE \A c \in Components : Queue[c] \subseteq Event
BY InboxTypes, ContentsOf, QueueIs

(* The head of an inbox, and what is behind it.                                                  *)
LEMMA HeadOf ==
  ASSUME TypeOK, InOrder, NEW c \in Components, inbox[c] # <<>>
  PROVE  /\ Head(inbox[c]) \in Event /\ Head(inbox[c]) \in Queue[c]
         /\ Queue[c] = {Head(inbox[c])} \union Rest(c)
         /\ \A b \in Rest(c) : ~Overtakes(c, Head(inbox[c]), b)
         /\ Sorted(c, Tail(inbox[c]))
<1>1. inbox[c] \in Seq(Event) /\ Sorted(c, inbox[c])
  BY InboxTypes DEF InOrder
<1>2. Contents(inbox[c]) = {Head(inbox[c])} \union Rest(c) /\ Contents(inbox[c]) \subseteq Event
  BY <1>1, ContentsOf DEF Rest
<1> QED BY <1>1, <1>2, SortedTail, QueueIs DEF Rest

LEMMA DeliverEffect ==
  ASSUME UpAndRunning, NEW ib \in [Components -> Seq(Event)], NEW e \in Event,
         \A d \in Components : Sorted(d, ib[d])
  PROVE  /\ \A d \in Components : Contents(Deliver(ib, e)[d]) = Contents(ib[d]) \union Adds(d, e)
         /\ (\A d \in Components : Relevant(d, e) => \A a \in Contents(ib[d]) : ~Overtakes(d, a, e))
              => \A d \in Components : Sorted(d, Deliver(ib, e)[d])
<1>1. \A d \in Components :
        Deliver(ib, e)[d] = IF Relevant(d, e) THEN Append(ib[d], e) ELSE ib[d]
  BY DEF Deliver, UpAndRunning, Up
<1>2. \A d \in Components : Contents(Deliver(ib, e)[d]) = Contents(ib[d]) \union Adds(d, e)
  BY <1>1, ContentsOf DEF Adds
<1>3. ASSUME \A d \in Components : Relevant(d, e) => \A a \in Contents(ib[d]) : ~Overtakes(d, a, e)
      PROVE  \A d \in Components : Sorted(d, Deliver(ib, e)[d])
  BY <1>1, <1>3, SortedAppend
<1> QED BY <1>2, <1>3

(* c takes the head of its inbox and publishes nothing.                                          *)
LEMMA TakeEffect ==
  ASSUME TypeOK, InOrder, NEW c \in Components, inbox[c] # <<>>, React(c, <<>>)
  PROVE  /\ \A d \in Components : Queue'[d] = Left(c, d)
         /\ outbox' = outbox
         /\ InOrder'
<1>1. inbox' = [inbox EXCEPT ![c] = Tail(@)] /\ outbox' = outbox
  BY DEF React
<1>2. inbox'[c] = Tail(inbox[c]) /\ \A d \in Components : d # c => inbox'[d] = inbox[d]
  BY <1>1, InboxTypes
<1>3. \A d \in Components : Queue'[d] = Left(c, d)
  BY <1>2, QueueIs DEF Left, Rest
<1>4. InOrder'
  BY <1>2, HeadOf DEF InOrder
<1> QED BY <1>1, <1>3, <1>4

(* c takes the head of its inbox and publishes.                                                  *)
LEMMA ReactEffect ==
  ASSUME TypeOK, UpAndRunning, InOrder, NEW c \in Components, inbox[c] # <<>>,
         NEW es \in Seq(Event), es # <<>>, React(c, es)
  PROVE  /\ \A d \in Components : Queue'[d] = Left(c, d) \union Adds(d, Head(es))
         /\ outbox' = [outbox EXCEPT ![c] = Tail(es)]
         /\ (\A d \in Components : Relevant(d, Head(es)) =>
               \A a \in Left(c, d) : ~Overtakes(d, a, Head(es))) => InOrder'
<1> DEFINE e == Head(es)
           taken == [inbox EXCEPT ![c] = Tail(@)]
<1>1. inbox' = Deliver(taken, e) /\ outbox' = [outbox EXCEPT ![c] = Tail(es)]
  BY DEF React
<1>2. /\ taken \in [Components -> Seq(Event)] /\ taken[c] = Tail(inbox[c])
      /\ \A d \in Components : d # c => taken[d] = inbox[d]
  BY InboxTypes
<1>3. e \in Event
  OBVIOUS
<1>4. \A d \in Components : Contents(taken[d]) = Left(c, d) /\ Sorted(d, taken[d])
  BY <1>2, HeadOf, QueueIs DEF Left, Rest, InOrder
<1> HIDE DEF e, taken
<1>5. /\ \A d \in Components : Contents(inbox'[d]) = Left(c, d) \union Adds(d, e)
      /\ (\A d \in Components : Relevant(d, e) => \A a \in Left(c, d) : ~Overtakes(d, a, e))
           => \A d \in Components : Sorted(d, inbox'[d])
  BY <1>1, <1>2, <1>3, <1>4, DeliverEffect
<1>6. (\A d \in Components : Sorted(d, inbox'[d])) => InOrder'
  BY DEF InOrder
<1> QED BY <1>1, <1>5, <1>6, QueueIs DEF e

LEMMA ReactOne ==
  ASSUME TypeOK, UpAndRunning, InOrder, NEW c \in Components, inbox[c] # <<>>, outbox[c] = <<>>,
         NEW e \in Event, React(c, <<e>>)
  PROVE  /\ \A d \in Components : Queue'[d] = Left(c, d) \union Adds(d, e)
         /\ outbox' = outbox
         /\ (\A d \in Components : Relevant(d, e) => \A a \in Left(c, d) : ~Overtakes(d, a, e)) => InOrder'
<1> DEFINE es == <<e>>
<1>1. es # <<>> /\ es \in Seq(Event) /\ Head(es) = e /\ Tail(es) = <<>> /\ React(c, es)
  OBVIOUS
<1> HIDE DEF es
<1>2. /\ \A d \in Components : Queue'[d] = Left(c, d) \union Adds(d, Head(es))
      /\ outbox' = [outbox EXCEPT ![c] = Tail(es)]
      /\ (\A d \in Components : Relevant(d, Head(es)) =>
            \A a \in Left(c, d) : ~Overtakes(d, a, Head(es))) => InOrder'
  BY <1>1, ReactEffect
<1>3. outbox' = outbox
  BY <1>1, <1>2, InboxTypes
<1> QED BY <1>1, <1>2, <1>3

(* A thread that is not inside a handler of the topic publishes.                                 *)
LEMMA PublishEffect ==
  ASSUME TypeOK, UpAndRunning, InOrder, NEW e \in Event, inbox' = Deliver(inbox, e)
  PROVE  /\ \A d \in Components : Queue'[d] = Queue[d] \union Adds(d, e)
         /\ (\A d \in Components : Relevant(d, e) => \A a \in Queue[d] : ~Overtakes(d, a, e))
              => InOrder'
<1>1. \A d \in Components : Contents(inbox[d]) = Queue[d] /\ Sorted(d, inbox[d])
  BY QueueIs DEF InOrder
<1>2. /\ \A d \in Components : Contents(inbox'[d]) = Queue[d] \union Adds(d, e)
      /\ (\A d \in Components : Relevant(d, e) => \A a \in Queue[d] : ~Overtakes(d, a, e))
           => \A d \in Components : Sorted(d, inbox'[d])
  BY <1>1, InboxTypes, DeliverEffect
<1>3. (\A d \in Components : Sorted(d, inbox'[d])) => InOrder'
  BY DEF InOrder
<1> QED BY <1>2, <1>3, QueueIs

LEMMA ComponentsAre ==
  ASSUME UndisturbedRuns
  PROVE  /\ Components = {Agent, Collector, Generator, SystemManager}
         /\ Resources = {Agent, Collector, Generator} /\ TasksToBootstrap = 0
BY DEF UndisturbedRuns, Components

-----------------------------------------------------------------------------
(* What depends on the commands and the reports only.                                            *)
SignalTypes == Commands \union {"RESOURCE_STATUS_CHANGED"}
SameSignals(c) == \A e \in Event : e.type \in SignalTypes => (e \in Queue'[c] <=> e \in Queue[c])
SameReports(r) ==
  \A s \in Status : ResourceStatusChanged(r, s) \in Queue'[SystemManager]
                      <=> ResourceStatusChanged(r, s) \in Queue[SystemManager]

LEMMA SameHas ==
  ASSUME TypeOK, TypeOK', NEW c \in Components, SameSignals(c)
  PROVE  /\ \A t \in SignalTypes : Has(c, t)' <=> Has(c, t)
         /\ \A s : EchoesOnly(c, s)' <=> EchoesOnly(c, s)
         /\ \A T \in SUBSET SignalTypes : NoneOf(c, T)' <=> NoneOf(c, T)
<1>1. Queue[c] \subseteq Event /\ Queue'[c] \subseteq Event
  BY QueueTypes, QueueIs, ContentsOf, InboxTypes DEF TypeOK, BusTypeOK
<1> QED BY <1>1 DEF SameSignals, Has, EchoesOnly, NoneOf, SignalTypes

LEMMA StageFrame ==
  ASSUME UNCHANGED <<currentRun, currentRunStarted, scheduler>>,
         Has(SystemManager, "RUN_COMPLETED")' <=> Has(SystemManager, "RUN_COMPLETED")
  PROVE  Stage' = Stage
<1>1. Taking' <=> Taking
  BY DEF Taking
<1> QED BY <1>1 DEF Stage

LEMMA StageIs == Stage \in {"WAITING", "READY", "RUNNING"}
BY DEF Stage

LEMMA LockFrame ==
  ASSUME TypeOK, TypeOK', NEW r \in Resources, Lock(r), Stage' = Stage,
         SameSignals(r), SameReports(r), status'[r] = status[r],
         resourcesStatus'[r] = resourcesStatus[r], outbox'[r] = outbox[r], failures > 0 => failures' > 0
  PROVE  Lock(r)'
<1> r \in Components BY DEF Components
<1>1. /\ \A t \in SignalTypes : Has(r, t)' <=> Has(r, t)
      /\ \A s : EchoesOnly(r, s)' <=> EchoesOnly(r, s)
      /\ \A T \in SUBSET SignalTypes : NoneOf(r, T)' <=> NoneOf(r, T)
  BY SameHas
<1>2. /\ Report(r)' <=> Report(r)
      /\ Reporting(r)' <=> Reporting(r)
      /\ \A s : ReportsOnly(r, s)' <=> ReportsOnly(r, s)
  BY DEF SameReports, Report, Reporting, ReportsOnly
<1>3. /\ {"PREPARE_NEW_RUN", "START_RUN"} \in SUBSET SignalTypes /\ Commands \in SUBSET SignalTypes
      /\ Commands \ {CommandOf(Stage)} \in SUBSET SignalTypes
      /\ CommandOf(Stage) \in SignalTypes /\ "RUN_COMPLETED" \in SignalTypes
      /\ "RESOURCE_STATUS_CHANGED" \in SignalTypes
  BY DEF SignalTypes, Commands, CommandOf
<1>4. Awaits(r) => Awaits(r)'
  BY <1>1, <1>2, <1>3 DEF Awaits
<1>5. Reports(r) => Reports(r)'
  BY <1>1, <1>2, <1>3 DEF Reports
<1>6. Agreed(r) => Agreed(r)'
  BY <1>1, <1>2, <1>3 DEF Agreed
<1>7. Broken(r) => Broken(r)'
  BY <1>1, <1>2, <1>3 DEF Broken
<1> QED BY <1>4, <1>5, <1>6, <1>7 DEF Lock

baseVars == <<boot, celeryStatus, celeryCheck, late, initialized, outbox, status, resourcesStatus,
              failures, systemStatus, runCode, posts, isFirstRun, scheduler, currentRun,
              currentRunStarted, executedRuns, runsToExecute>>

Base ==
  /\ UndisturbedRuns /\ UpAndRunning /\ Outboxes
  /\ Lockstep /\ StatusKnown /\ OneScheduler /\ RunCodes /\ RunsConserved

LEMMA BaseFrame ==
  ASSUME IInv, TypeOK', UNCHANGED baseVars, collectorPhase' # "BOOTSTRAP",
         \A c \in Components : SameSignals(c)
  PROVE  Base' /\ Stage' = Stage
<1> USE DEF baseVars
<1>1. Stage' = Stage
  BY SameHas, StageFrame DEF IInv, SignalTypes, Commands, Components
<1>2. Lockstep'
  <2> SUFFICES ASSUME NEW r \in Resources PROVE Lock(r)'
    BY DEF Lockstep
  <2>1. SameReports(r)
    BY StatusEventTypes DEF SameSignals, SameReports, SignalTypes, Components, ResourceStatusChanged
  <2> QED BY <1>1, <2>1, LockFrame DEF IInv, Lockstep, Components
<1>3. UndisturbedRuns' /\ UpAndRunning' /\ Outboxes'
  BY DEF IInv, UndisturbedRuns, UpAndRunning, Outboxes
<1>4. StatusKnown' /\ OneScheduler' /\ RunCodes' /\ RunsConserved'
  BY <1>1 DEF IInv, StatusKnown, OneScheduler, RunCodes, RunsConserved
<1> QED BY <1>1, <1>2, <1>3, <1>4 DEF Base

LEMMA QuietTake ==
  ASSUME TypeOK, InOrder, NEW c \in Components, inbox[c] # <<>>,
         Head(inbox[c]).type \notin SignalTypes, NEW e, e.type \notin SignalTypes,
         \A d \in Components : Queue'[d] = Left(c, d) \/ Queue'[d] = Left(c, d) \union Adds(d, e)
  PROVE  \A d \in Components : SameSignals(d)
BY HeadOf DEF SameSignals, Left, Adds

LEMMA QuietPublish ==
  ASSUME NEW e, e.type \notin SignalTypes,
         \A d \in Components : Queue'[d] = Queue[d] \/ Queue'[d] = Queue[d] \union Adds(d, e)
  PROVE  \A d \in Components : SameSignals(d)
BY DEF SameSignals, Adds

-----------------------------------------------------------------------------
(* The phases of a run, while the command in force stays the same.                               *)
phaseVars == <<currentRun, currentRunStarted, isCurrentExecutionCompleted, scheduler, systemStatus,
               resourcesStatus, outbox, smPhase, smRunCode, statsGroups, generating, taskIndex,
               tasksScheduled, sent, created, rewarded, notifying, taskCompleted>>

Phases ==
  /\ EventsOK /\ Scheduling /\ Waiting /\ Preparing
  /\ RunningEvents /\ RunningManager /\ RunningStats /\ RunningTasks

LEMMA InvParts ==
  /\ IInv => TypeOK /\ InOrder /\ Base /\ Phases
  /\ TypeOK /\ InOrder /\ Base /\ Phases => IInv
BY DEF IInv, Base, Phases

LEMMA InvPartsNext ==
  TypeOK' /\ InOrder' /\ Base' /\ Phases' => IInv'
BY DEF IInv, Base, Phases

(* Fewer events, the same signals: what has left an inbox is not missed.                         *)
LEMMA FewerEvents ==
  ASSUME TypeOK, TypeOK',
         \A d \in Components : SameSignals(d), \A d \in Components : Queue'[d] \subseteq Queue[d]
  PROVE  /\ \A d \in Components : \A t : Has(d, t)' => Has(d, t)
         /\ \A d \in Components : \A T : OnlyOf(d, T) => OnlyOf(d, T)'
         /\ \A g : Stat(g)' => Stat(g)
         /\ \A r \in Resources : Report(r)' <=> Report(r)
         /\ \A d \in Components, t \in SignalTypes : Has(d, t)' <=> Has(d, t)
<1>1. \A r \in Resources : Report(r)' <=> Report(r)
  BY StatusEventTypes DEF SameSignals, Report, SignalTypes, Components, ResourceStatusChanged
<1>2. \A d \in Components, t \in SignalTypes : Has(d, t)' <=> Has(d, t)
  BY SameHas
<1> QED BY <1>1, <1>2 DEF Has, OnlyOf, Stat, Components

LEMMA PhasesShrink ==
  ASSUME IInv, TypeOK', Stage' = Stage, UNCHANGED phaseVars,
         taskToExecute' \in {taskToExecute, TasksToGenerate},
         \A r \in Resources : (status'[r] = "RUNNING" <=> status[r] = "RUNNING")
                                /\ (status'[r] = "READY" => status[r] = "READY"),
         \A d \in Components : Queue'[d] \subseteq Queue[d],
         \A d \in Components : \A t \in Commands : Has(d, t)' <=> Has(d, t),
         Has(Collector, "SCHEDULING_STARTED")' <=> Has(Collector, "SCHEDULING_STARTED")
  PROVE  Phases'
<1> USE DEF phaseVars
<1>1. /\ \A d \in Components : \A t : Has(d, t)' => Has(d, t)
      /\ \A d \in Components : \A T : OnlyOf(d, T) => OnlyOf(d, T)'
      /\ \A g : Stat(g)' => Stat(g)
      /\ \A r : Report(r)' => Report(r)
  BY DEF Has, OnlyOf, Stat, Report, Components
<1>2. \A d \in Components : \A t \in {"PREPARE_NEW_RUN", "START_RUN", "RUN_COMPLETED"} :
        Has(d, t)' <=> Has(d, t)
  BY DEF Commands
<1>3. /\ Components = {Agent, Collector, Generator, SystemManager}
      /\ Resources = {Agent, Collector, Generator}
  BY ComponentsAre DEF IInv
<1>4. (Begun' <=> Begun) /\ (Over' <=> Over)
  BY <1>3 DEF Begun, Over
<1>5. EventsOK'
  BY DEF IInv, EventsOK, EventOK
<1>6. Scheduling' /\ RunningEvents'
  BY <1>1, <1>3 DEF IInv, Scheduling, RunningEvents
<1>7. Waiting' /\ Preparing'
  BY <1>1, <1>2, <1>3 DEF IInv, Waiting, Preparing
<1>8. RunningManager' /\ RunningStats'
  BY <1>1, <1>2, <1>3, <1>4 DEF IInv, RunningManager, RunningStats, Counted
<1>9. RunningTasks'
  BY <1>1, <1>2, <1>3, <1>4 DEF IInv, RunningTasks
<1> QED BY <1>5, <1>6, <1>7, <1>8, <1>9 DEF Phases

-----------------------------------------------------------------------------
(* An event that is no signal is taken, and nothing the invariant speaks of changes.             *)

LEMMA QuietTakeKeeps ==
  ASSUME IInv, TypeOK', NEW c \in Components, inbox[c] # <<>>, React(c, <<>>),
         Head(inbox[c]).type \notin SignalTypes,
         ~(c = Collector /\ Head(inbox[c]).type = "SCHEDULING_STARTED"),
         UNCHANGED baseVars, UNCHANGED phaseVars, collectorPhase' # "BOOTSTRAP",
         taskToExecute' \in {taskToExecute, TasksToGenerate}
  PROVE  IInv'
<1>1. (\A d \in Components : Queue'[d] = Left(c, d)) /\ InOrder'
  BY TakeEffect DEF IInv
<1>2. \A d \in Components : SameSignals(d)
  BY <1>1, QuietTake DEF IInv
<1>3. /\ \A d \in Components : Queue'[d] \subseteq Queue[d]
      /\ \A d \in Components : \A e \in Queue[d] :
           e.type = "SCHEDULING_STARTED" /\ d = Collector => e \in Queue'[d]
  BY <1>1, HeadOf DEF Left, IInv
<1>4. Has(Collector, "SCHEDULING_STARTED")' <=> Has(Collector, "SCHEDULING_STARTED")
  <2>1. Collector \in Components
    BY ComponentsAre DEF IInv
  <2> QED BY <2>1, <1>3 DEF Has
<1>5. Base' /\ Stage' = Stage
  BY <1>2, BaseFrame
<1>6. Phases'
  <2>1. \A d \in Components : \A t \in Commands : Has(d, t)' <=> Has(d, t)
    BY <1>2, SameHas DEF IInv, SignalTypes
  <2>2. UNCHANGED status
    BY DEF baseVars
  <2> QED BY <1>3, <1>4, <1>5, <2>1, <2>2, PhasesShrink
<1> QED BY <1>1, <1>5, <1>6, InvPartsNext

LEMMA AgentHandlesSchedulingStartedInv ==
  ASSUME IInv, TypeOK', AgentHandlesSchedulingStarted PROVE IInv'
<1>1. /\ inbox[Agent] # <<>> /\ Head(inbox[Agent]).type = "SCHEDULING_STARTED" /\ React(Agent, <<>>)
      /\ UNCHANGED baseVars /\ UNCHANGED phaseVars
      /\ collectorPhase' = collectorPhase /\ taskToExecute' = taskToExecute
  BY DEF AgentHandlesSchedulingStarted, Receives, React, baseVars, phaseVars
<1>2. collectorPhase # "BOOTSTRAP" /\ Agent \in Components
  BY ComponentsAre DEF IInv, UpAndRunning
<1> QED BY <1>1, <1>2, QuietTakeKeeps DEF SignalTypes, Commands

LEMMA ObserveRewardInv ==
  ASSUME IInv, TypeOK', ObserveReward PROVE IInv'
<1>1. ~BootstrapObserved(nRewardObservation')
  BY ComponentsAre DEF IInv, ObserveReward, BootstrapObserved, TypeOK, ResourceTypeOK
<1>2. /\ inbox[Agent] # <<>> /\ Head(inbox[Agent]).type = "TRAJECTORY_COMPLETED" /\ React(Agent, <<>>)
      /\ UNCHANGED baseVars /\ UNCHANGED phaseVars
      /\ collectorPhase' = collectorPhase /\ taskToExecute' = taskToExecute
  BY <1>1 DEF ObserveReward, Receives, React, baseVars, phaseVars
<1>3. collectorPhase # "BOOTSTRAP" /\ Agent \in Components
  BY ComponentsAre DEF IInv, UpAndRunning
<1> QED BY <1>2, <1>3, QuietTakeKeeps DEF SignalTypes, Commands

LEMMA CollectorHandlesSchedulingCompletedInv ==
  ASSUME IInv, TypeOK', CollectorHandlesSchedulingCompleted PROVE IInv'
<1> DEFINE e == Head(inbox[Collector])
<1>1. Collector \in Components
  BY ComponentsAre DEF IInv
<1>2. /\ inbox[Collector] # <<>> /\ e.type = "SCHEDULING_COMPLETED" /\ React(Collector, <<>>)
      /\ UNCHANGED baseVars /\ UNCHANGED phaseVars
      /\ collectorPhase' = collectorPhase
      /\ taskToExecute' \in {taskToExecute, e.tasks}
  BY DEF CollectorHandlesSchedulingCompleted, Receives, React, baseVars, phaseVars
<1>3. e.tasks = TasksToGenerate
  BY <1>1, <1>2, HeadOf DEF IInv, EventsOK, EventOK
<1>4. collectorPhase # "BOOTSTRAP"
  BY DEF IInv, UpAndRunning
<1> QED BY <1>1, <1>2, <1>3, <1>4, QuietTakeKeeps DEF SignalTypes, Commands

LEMMA CollectorHandlesExecutionCompletedInv ==
  ASSUME IInv, TypeOK', CollectorHandlesExecutionCompleted PROVE IInv'
<1>1. collectorPhase # "BOOTSTRAP" /\ Collector \in Components
  BY ComponentsAre DEF IInv, UpAndRunning
<1>2. /\ inbox[Collector] # <<>> /\ Head(inbox[Collector]).type = "EXECUTION_COMPLETED"
      /\ React(Collector, <<>>)
      /\ UNCHANGED baseVars /\ UNCHANGED phaseVars
      /\ collectorPhase' # "BOOTSTRAP" /\ taskToExecute' = taskToExecute
  BY <1>1 DEF CollectorHandlesExecutionCompleted, Receives, React, baseVars, phaseVars
<1> QED BY <1>1, <1>2, QuietTakeKeeps DEF SignalTypes, Commands

(* The manager is told of a status that is not in force any more.                               *)
LEMMA IgnoredStatus ==
  ASSUME IInv, TypeOK', Receives(SystemManager, "SYSTEM_STATUS_CHANGED"), React(SystemManager, <<>>),
         UNCHANGED baseVars, UNCHANGED phaseVars, UNCHANGED collectorVars
  PROVE  IInv'
<1>1. collectorPhase # "BOOTSTRAP" /\ SystemManager \in Components
  BY ComponentsAre DEF IInv, UpAndRunning
<1>2. /\ inbox[SystemManager] # <<>> /\ Head(inbox[SystemManager]).type = "SYSTEM_STATUS_CHANGED"
      /\ collectorPhase' # "BOOTSTRAP" /\ taskToExecute' = taskToExecute
  BY <1>1 DEF Receives
<1> QED BY <1>1, <1>2, QuietTakeKeeps DEF SignalTypes, Commands

(* The parts of the invariant about the stage the run is in; those about the others are void.   *)
LEMMA StageParts ==
  /\ Stage' = "WAITING" /\ EventsOK' /\ Scheduling' /\ Waiting' => Phases'
  /\ Stage' = "READY" /\ EventsOK' /\ Scheduling' /\ Preparing' => Phases'
  /\ Stage' = "RUNNING" /\ EventsOK' /\ Scheduling'
       /\ RunningEvents' /\ RunningManager' /\ RunningStats' /\ RunningTasks' => Phases'
BY DEF Phases, Waiting, Preparing, RunningEvents, RunningManager, RunningStats, RunningTasks

(* A command meets the status it is for, unless its resource has failed.                         *)
LEMMA CommandStatusIs ==
  /\ DOMAIN CommandStatus = Commands
  /\ CommandStatus["PREPARE_NEW_RUN"] = "WAITING" /\ CommandStatus["START_RUN"] = "READY"
  /\ CommandStatus["RUN_COMPLETED"] = "RUNNING"
BY DEF CommandStatus, Commands

LEMMA CommandInForce ==
  ASSUME IInv, NEW r \in Resources, NEW t \in Commands, Receives(r, t)
  PROVE  /\ r \in Components /\ inbox[r] # <<>> /\ Head(inbox[r]) \in Queue[r] /\ Head(inbox[r]).type = t
         /\ \/ Awaits(r) /\ t = CommandOf(Stage) /\ status[r] = CommandStatus[t]
            \/ Broken(r) /\ t = "RUN_COMPLETED" /\ Stage = "WAITING" /\ status[r] # CommandStatus[t]
<1>1. r \in Components /\ Lock(r)
  BY DEF IInv, Lockstep, Components
<1>2. inbox[r] # <<>> /\ Head(inbox[r]) \in Queue[r] /\ Head(inbox[r]).type = t
  BY <1>1, HeadOf DEF Receives, IInv
<1>3. Has(r, t)
  BY <1>2 DEF Has
<1>4. ~Reports(r) /\ ~Agreed(r)
  BY <1>2 DEF Reports, Agreed, NoneOf
<1>5. CASE Awaits(r)
  <2>1. t = CommandOf(Stage) /\ status[r] = BeforeOf(Stage)
    BY <1>2, <1>5 DEF Awaits, NoneOf
  <2> QED BY <1>1, <1>2, <1>5, <2>1, CommandStatusIs, StageIs DEF CommandOf, BeforeOf
<1>6. CASE Broken(r)
  <2>1. t = "RUN_COMPLETED" /\ Stage = "WAITING"
    BY <1>2, <1>3, <1>6 DEF Broken, NoneOf, Commands
  <2>2. status[r] # "RUNNING"
    BY <1>6 DEF Broken
  <2> QED BY <1>1, <1>2, <1>6, <2>1, <2>2, CommandStatusIs
<1> QED BY <1>1, <1>4, <1>5, <1>6 DEF Lock

(* The lock of the other resources.                                                              *)
LEMMA OtherLocks ==
  ASSUME IInv, TypeOK', NEW r \in Resources, Stage' = Stage, failures > 0 => failures' > 0,
         \A q \in Resources \ {r} :
           /\ SameSignals(q) /\ SameReports(q) /\ status'[q] = status[q]
           /\ resourcesStatus'[q] = resourcesStatus[q] /\ outbox'[q] = outbox[q],
         Lock(r)'
  PROVE  Lockstep'
<1>1. \A q \in Resources : Lock(q)
  BY DEF IInv, Lockstep
<1> QED BY <1>1, LockFrame DEF Lockstep, IInv

LEMMA DropCommandInv ==
  ASSUME IInv, TypeOK', NEW r \in Resources, DropCommand(r) PROVE IInv'
<1>1. CASE r = Agent /\ Receives(Agent, "TRAJECTORY_COMPLETED")
  <2>1. /\ inbox[Agent] # <<>> /\ Head(inbox[Agent]).type = "TRAJECTORY_COMPLETED" /\ React(Agent, <<>>)
        /\ UNCHANGED baseVars /\ UNCHANGED phaseVars
        /\ collectorPhase' = collectorPhase /\ taskToExecute' = taskToExecute
    BY <1>1 DEF DropCommand, Receives, React, baseVars, phaseVars
  <2>2. collectorPhase # "BOOTSTRAP" /\ Agent \in Components
    BY ComponentsAre DEF IInv, UpAndRunning
  <2> QED BY <2>1, <2>2, QuietTakeKeeps DEF SignalTypes, Commands
<1>2. CASE \E t \in DOMAIN CommandStatus : Receives(r, t) /\ status[r] # CommandStatus[t]
  <2>1. /\ r \in Components /\ inbox[r] # <<>> /\ Head(inbox[r]) \in Queue[r]
        /\ Head(inbox[r]).type = "RUN_COMPLETED" /\ Stage = "WAITING" /\ Broken(r)
    BY <1>2, CommandInForce, CommandStatusIs
  <2>2. React(r, <<>>) /\ UNCHANGED baseVars /\ UNCHANGED phaseVars /\ UNCHANGED collectorVars
    BY DEF DropCommand, React, baseVars, phaseVars
  <2>3. (\A d \in Components : Queue'[d] = Left(r, d)) /\ InOrder'
    BY <2>1, <2>2, TakeEffect DEF IInv
  <2>4. r # SystemManager /\ SystemManager \in Components
    BY ComponentsAre DEF IInv
  <2>5. Queue'[SystemManager] = Queue[SystemManager]
    BY <2>3, <2>4 DEF Left
  <2>6. Stage' = Stage
    BY <2>2, <2>5, StageFrame DEF Has, baseVars
  <2>7. /\ Queue[r] = {Head(inbox[r])} \union Queue'[r]
        /\ \A b \in Queue'[r] : ~Overtakes(r, Head(inbox[r]), b)
        /\ \A q \in Resources \ {r} : Queue'[q] = Queue[q]
    BY <2>1, <2>3, HeadOf DEF Left, IInv, Components
  <2>8. Lock(r)'
    <3>1. /\ (NoneOf(r, {"PREPARE_NEW_RUN", "START_RUN"})' /\ EchoesOnly(r, "ERROR")')
          /\ Has(r, "RESOURCE_STATUS_CHANGED")' <=> Has(r, "RESOURCE_STATUS_CHANGED")
      BY <2>1, <2>7 DEF Broken, NoneOf, EchoesOnly, Has
    <3>2. Report(r)' <=> Report(r)
      BY <2>5 DEF Report
    <3> QED BY <2>1, <2>2, <2>5, <2>6, <3>1, <3>2 DEF Broken, Lock, baseVars
  <2>9. Lockstep'
    BY <2>2, <2>5, <2>6, <2>7, <2>8, OtherLocks DEF SameSignals, SameReports, baseVars, IInv, TypeOK, TaskTypeOK
  <2>10. Base'
    BY <2>2, <2>6, <2>9
    DEF Base, baseVars, IInv, UndisturbedRuns, UpAndRunning, Outboxes, StatusKnown, OneScheduler, RunCodes, RunsConserved
  <2>11. EventsOK' /\ Scheduling'
    BY <2>2, <2>3, <2>5, <2>6, <2>7, ComponentsAre DEF IInv, EventsOK, EventOK, Scheduling, Left, baseVars, phaseVars
  <2>12. Waiting'
    <3>1. \A d \in Components : \A T : OnlyOf(d, T) => OnlyOf(d, T)'
      BY <2>5, <2>7, ComponentsAre DEF OnlyOf, IInv
    <3>2. ~(r = Collector /\ (Has(r, "SCHEDULING_COMPLETED")' \/ Has(r, "EXECUTION_COMPLETED")'))
      BY <2>1, <2>4, <2>7 DEF Has, Overtakes
    <3>3. /\ \A t : Has(SystemManager, t)' <=> Has(SystemManager, t)
          /\ r # Collector => \A t : Has(Collector, t)' <=> Has(Collector, t)
      BY <2>4, <2>5, <2>7, ComponentsAre DEF Has, IInv
    <3>4. UNCHANGED <<currentRun, isCurrentExecutionCompleted, resourcesStatus, scheduler, smPhase,
                      generating, outbox, rewarded, sent, notifying>>
      BY <2>2 DEF phaseVars
    <3>5. Waiting /\ Components = {Agent, Collector, Generator, SystemManager}
      BY ComponentsAre DEF IInv
    <3> HIDE DEF Agent, Collector, Generator, SystemManager
    <3> QED BY <2>1, <3>1, <3>2, <3>3, <3>4, <3>5 DEF Waiting
  <2> QED BY <2>1, <2>3, <2>6, <2>10, <2>11, <2>12, StageParts, InvPartsNext
<1> QED BY <1>1, <1>2 DEF DropCommand

(* ... and of all of them.                                                                       *)
LEMMA AllLocks ==
  ASSUME IInv, TypeOK', Stage' = Stage, failures > 0 => failures' > 0,
         \A q \in Resources :
           /\ SameSignals(q) /\ SameReports(q) /\ status'[q] = status[q]
           /\ resourcesStatus'[q] = resourcesStatus[q] /\ outbox'[q] = outbox[q]
  PROVE  Lockstep'
<1>1. \A q \in Resources : Lock(q)
  BY DEF IInv, Lockstep
<1> QED BY <1>1, LockFrame DEF Lockstep, IInv

LEMMA NoMail ==
  ASSUME InOrder, UNCHANGED inbox
  PROVE  /\ InOrder' /\ \A c \in Components : Queue'[c] = Queue[c] /\ SameSignals(c)
         /\ \A r \in Resources : SameReports(r) /\ (Report(r)' <=> Report(r))
         /\ \A c \in Components : \A t : Has(c, t)' <=> Has(c, t)
         /\ \A c \in Components : \A T : OnlyOf(c, T)' <=> OnlyOf(c, T)
         /\ \A g : Stat(g)' <=> Stat(g)
<1>1. \A c \in Components : Queue'[c] = Queue[c]
  BY QueueIs
<1>2. SystemManager \in Components
  BY DEF Components
<1>3. InOrder'
  BY DEF InOrder
<1> QED BY <1>1, <1>2, <1>3 DEF SameSignals, SameReports, Report, Has, OnlyOf, Stat

(* The manager has the status WAITING and the last run is over: there is none.                   *)
LEMMA NoRunWaits ==
  ASSUME IInv, systemStatus = "WAITING", isCurrentExecutionCompleted
  PROVE  Stage = "WAITING" /\ currentRun = NoRun
<1>1. Stage = "WAITING"
  BY StageIs DEF IInv, StatusKnown, BeforeOf, Preparing
<1>2. \A r \in Resources : resourcesStatus[r] = "WAITING"
  BY <1>1 DEF IInv, StatusKnown
<1>3. ~Has(SystemManager, "RUN_COMPLETED")
  BY <1>1, <1>2, ComponentsAre DEF IInv, Waiting
<1>4. ~Taking
  BY DEF Taking, IInv, Scheduling
<1> QED BY <1>1, <1>3, <1>4 DEF Stage

(* A thread is inside schedule_next_run: no other one is.                                        *)
LEMMA OneInScheduler ==
  ASSUME IInv, NEW t \in {"consumer", "control"}, scheduler[t] # "idle"
  PROVE  /\ \A u \in {"consumer", "control"} : u # t => scheduler[u] = "idle"
         /\ posts = MaxPosts
BY LifecycleAssumption DEF IInv, OneScheduler, TypeOK, TaskTypeOK

LEMMA ManagerHandlesWaitingInv ==
  ASSUME IInv, TypeOK', ManagerHandlesWaiting PROVE IInv'
<1>1. /\ scheduler["consumer"] = "idle" /\ inbox[SystemManager] # <<>>
      /\ Head(inbox[SystemManager]).type = "SYSTEM_STATUS_CHANGED" /\ React(SystemManager, <<>>)
  BY DEF ManagerHandlesWaiting, Receives, Idle
<1>2. scheduler \in [{"consumer", "control"} -> {"idle", "checked", "taken"}]
  BY DEF IInv, TypeOK, RunTypeOK
<1>3. CASE scheduler' = [scheduler EXCEPT !["consumer"] = "idle"]
  <2>1. scheduler' = scheduler
    BY <1>1, <1>2, <1>3
  <2>2. UNCHANGED baseVars /\ UNCHANGED phaseVars /\ UNCHANGED collectorVars
    BY <1>1, <2>1 DEF ManagerHandlesWaiting, React, baseVars, phaseVars
  <2> QED BY <1>1, <2>2, IgnoredStatus DEF ManagerHandlesWaiting
<1>4. CASE /\ scheduler' = [scheduler EXCEPT !["consumer"] = "checked"]
           /\ (IF isFirstRun THEN AutoStart ELSE isAutoRun) /\ MaySchedule
  <2>1. /\ Stage = "WAITING" /\ currentRun = NoRun /\ systemStatus = "WAITING"
        /\ isCurrentExecutionCompleted
    BY <1>4, NoRunWaits DEF MaySchedule
  <2>2. /\ (\A d \in Components : Queue'[d] = Left(SystemManager, d)) /\ InOrder' /\ outbox' = outbox
        /\ SystemManager \in Components
    BY <1>1, TakeEffect, ComponentsAre DEF IInv
  <2>3. \A d \in Components : SameSignals(d)
    BY <1>1, <2>2, QuietTake DEF IInv, SignalTypes, Commands
  <2>4. \A d \in Components : Queue'[d] \subseteq Queue[d]
    BY <1>1, <2>2, HeadOf DEF Left, IInv
  <2>5. /\ \A d \in Components : \A t : Has(d, t)' => Has(d, t)
        /\ \A d \in Components : \A T : OnlyOf(d, T) => OnlyOf(d, T)'
        /\ \A d \in Components : Has(d, "RUN_COMPLETED")' <=> Has(d, "RUN_COMPLETED")
    BY <2>3, <2>4, FewerEvents DEF IInv, SignalTypes, Commands
  <2>6. UNCHANGED <<currentRun, currentRunStarted, isCurrentExecutionCompleted, systemStatus,
                    resourcesStatus, smPhase, generating, rewarded, sent, notifying>>
    BY DEF ManagerHandlesWaiting
  <2>7. Stage' = "WAITING"
    BY <2>1, <2>6 DEF Stage
  <2>8. Lockstep'
    <3>1. \A q \in Resources : SameReports(q)
      BY <2>2, <2>3, StatusEventTypes
         DEF SameSignals, SameReports, SignalTypes, Components, ResourceStatusChanged
    <3> QED BY <2>1, <2>2, <2>3, <2>7, <3>1, AllLocks DEF Components, ManagerHandlesWaiting
  <2>9. OneScheduler' /\ Scheduling'
    BY <1>2, <1>4, <2>1, <2>6, <2>7
    DEF OneScheduler, Scheduling, IInv, ManagerHandlesWaiting
  <2>10. Base'
    BY <2>1, <2>2, <2>7, <2>8, <2>9
    DEF Base, IInv, ManagerHandlesWaiting, UndisturbedRuns, UpAndRunning, Outboxes, StatusKnown, RunCodes,
        RunsConserved
  <2>11. EventsOK'
    BY <2>4, <2>6 DEF IInv, EventsOK, EventOK
  <2>12. Waiting'
    BY <2>1, <2>2, <2>5, <2>6, ComponentsAre DEF IInv, Waiting
  <2> QED BY <2>2, <2>7, <2>9, <2>10, <2>11, <2>12, StageParts, InvPartsNext
<1> QED BY <1>3, <1>4 DEF ManagerHandlesWaiting

LEMMA ControlRunInv ==
  ASSUME IInv, TypeOK', NEW nextRun \in BOOLEAN, NEW autoRun \in BOOLEAN, ControlRun(nextRun, autoRun)
  PROVE  IInv'
<1>1. scheduler \in [{"consumer", "control"} -> {"idle", "checked", "taken"}]
  BY DEF IInv, TypeOK, RunTypeOK
<1>2. scheduler["control"] = "idle" /\ posts < MaxPosts /\ posts' = posts + 1 /\ UNCHANGED inbox
  BY DEF ControlRun
<1>3. isFirstRun /\ ~AutoStart /\ scheduler["consumer"] = "idle" /\ posts' = MaxPosts
  BY <1>2 DEF IInv, OneScheduler, UndisturbedRuns, TypeOK, TaskTypeOK
<1>4. /\ InOrder' /\ \A c \in Components : Queue'[c] = Queue[c] /\ SameSignals(c)
      /\ \A r \in Resources : SameReports(r) /\ (Report(r)' <=> Report(r))
      /\ \A c \in Components : \A t : Has(c, t)' <=> Has(c, t)
      /\ \A c \in Components : \A T : OnlyOf(c, T)' <=> OnlyOf(c, T)
      /\ \A g : Stat(g)' <=> Stat(g)
  BY <1>2, NoMail DEF IInv
<1>5. scheduler' = scheduler \/
        (scheduler' = [scheduler EXCEPT !["control"] = "checked"] /\ Stage = "WAITING"
          /\ currentRun = NoRun /\ systemStatus = "WAITING" /\ isCurrentExecutionCompleted)
  BY <1>1, <1>2, NoRunWaits DEF ControlRun, MaySchedule
<1>6. \A t \in {"consumer", "control"} : scheduler'[t] = "taken" <=> scheduler[t] = "taken"
  BY <1>1, <1>2, <1>5
<1>7. Stage' = Stage
  BY <1>4, <1>6 DEF ControlRun, Stage, Taking, Components
<1>8. Lockstep'
  BY <1>4, <1>7, AllLocks DEF ControlRun, Components, TypeOK, TaskTypeOK
<1>9. OneScheduler'
  BY <1>1, <1>3, <1>5 DEF OneScheduler, ControlRun
<1>10. Scheduling'
  BY <1>1, <1>5, <1>7 DEF Scheduling, ControlRun, IInv
<1>11. Base'
  BY <1>4, <1>7, <1>8, <1>9, <1>3
  DEF Base, IInv, ControlRun, UndisturbedRuns, UpAndRunning, Outboxes, StatusKnown, RunCodes, RunsConserved
<1>12. EventsOK'
  BY <1>4 DEF IInv, EventsOK, EventOK, ControlRun
<1>13. Waiting' /\ Preparing' /\ RunningEvents'
  BY <1>4, <1>6, <1>7, ComponentsAre DEF IInv, Waiting, Preparing, RunningEvents, ControlRun
<1>14. RunningManager' /\ RunningStats' /\ RunningTasks'
  BY <1>4, <1>7, ComponentsAre
  DEF IInv, RunningManager, RunningStats, RunningTasks, ControlRun, Begun, Over, Counted
<1> QED BY <1>4, <1>10, <1>11, <1>12, <1>13, <1>14, InvPartsNext DEF Phases

LEMMA TakeRunInv ==
  ASSUME IInv, TypeOK', NEW t \in {"consumer", "control"}, TakeRun(t)
  PROVE  IInv'
<1>1. scheduler \in [{"consumer", "control"} -> {"idle", "checked", "taken"}] /\ runsToExecute \in Seq(Runs)
  BY DEF IInv, TypeOK, RunTypeOK
<1>2. /\ scheduler[t] = "checked" /\ UNCHANGED inbox /\ UNCHANGED outbox
      /\ scheduler' = [scheduler EXCEPT ![t] = IF runsToExecute = <<>> THEN "idle" ELSE "taken"]
  BY DEF TakeRun
<1>3. /\ \A u \in {"consumer", "control"} : u # t => scheduler[u] = "idle"
      /\ posts = MaxPosts
  BY <1>2, OneInScheduler
<1>4. Stage = "WAITING" /\ systemStatus = "WAITING" /\ currentRun = NoRun /\ isCurrentExecutionCompleted
  BY <1>2 DEF IInv, Scheduling
<1>5. /\ InOrder' /\ \A c \in Components : Queue'[c] = Queue[c] /\ SameSignals(c)
      /\ \A r \in Resources : SameReports(r) /\ (Report(r)' <=> Report(r))
      /\ \A c \in Components : \A u : Has(c, u)' <=> Has(c, u)
      /\ \A c \in Components : \A T : OnlyOf(c, T)' <=> OnlyOf(c, T)
      /\ \A g : Stat(g)' <=> Stat(g)
  BY <1>2, NoMail DEF IInv
<1>6. runsToExecute # <<>> => currentRun' # NoRun /\ ~currentRunStarted' /\ ~isCurrentExecutionCompleted'
  <2>1. runsToExecute # <<>> => Head(runsToExecute) \in Runs
    BY <1>1
  <2>2. NoRun \notin Runs
    BY LifecycleAssumption DEF Runs, NoRun
  <2> QED BY <2>1, <2>2 DEF TakeRun
<1>7. Stage' = "WAITING" /\ (\A u \in {"consumer", "control"} : u # t => scheduler'[u] = "idle")
  <2>1. CASE runsToExecute = <<>>
    BY <1>1, <1>2, <1>3, <1>4, <2>1 DEF TakeRun, Stage
  <2>2. CASE runsToExecute # <<>>
    BY <1>1, <1>2, <1>3, <2>2 DEF Taking, Stage
  <2> QED BY <2>1, <2>2
<1>8. Lockstep'
  BY <1>4, <1>5, <1>7, AllLocks DEF TakeRun, Components
<1>9. RunsConserved'
  <2>1. CASE runsToExecute = <<>>
    BY <1>4, <2>1 DEF TakeRun, IInv, RunsConserved
  <2>2. CASE runsToExecute # <<>>
    <3> DEFINE r == Head(runsToExecute)
               rest == Tail(runsToExecute)
    <3>1. r \in MaybeRun /\ rest \in Seq(MaybeRun) /\ executedRuns \in Seq(MaybeRun)
          /\ runsToExecute = <<r>> \o rest /\ runsToExecute \in Seq(MaybeRun) /\ r # NoRun
      <4>1. r \in Runs /\ rest \in Seq(Runs) /\ runsToExecute = <<r>> \o rest
        BY <1>1, <2>2
      <4>2. r # NoRun
        BY <1>6, <2>2 DEF TakeRun
      <4>3. executedRuns \in Seq(MaybeRun) /\ Runs \subseteq MaybeRun
        BY DEF IInv, TypeOK, RunTypeOK, MaybeRun
      <4>4. runsToExecute \in Seq(MaybeRun) /\ rest \in Seq(MaybeRun)
        BY <1>1, <4>1, <4>3
      <4> QED BY <4>1, <4>2, <4>3, <4>4
    <3>2. currentRun' = r /\ runsToExecute' = rest /\ executedRuns' = executedRuns
      BY <2>2 DEF TakeRun
    <3>3. executedRuns \o <<>> \o runsToExecute = [i \in 1..NumRuns |-> i]
      BY <1>4 DEF IInv, RunsConserved
    <3> HIDE DEF r, rest
    <3>4. executedRuns \o <<>> \o runsToExecute = executedRuns \o <<r>> \o rest
      BY <3>1
    <3> QED BY <3>1, <3>2, <3>3, <3>4 DEF RunsConserved
  <2> QED BY <2>1, <2>2
<1>10. OneScheduler' /\ Scheduling'
  <2>1. OneScheduler'
    BY <1>1, <1>2, <1>3, <1>7 DEF OneScheduler, IInv, TakeRun
  <2>2. Scheduling'
    BY <1>1, <1>2, <1>3, <1>4, <1>6, <1>7 DEF Scheduling, TakeRun
  <2> QED BY <2>1, <2>2
<1>11. Base'
  BY <1>4, <1>7, <1>8, <1>9, <1>10
  DEF Base, IInv, TakeRun, UndisturbedRuns, UpAndRunning, Outboxes, StatusKnown, RunCodes
<1>12. EventsOK'
  <2>1. \A c \in Components : \A e \in Queue[c] : e.type \notin {"PREPARE_NEW_RUN", "START_RUN"}
    BY <1>4, ComponentsAre DEF IInv, Waiting, OnlyOf
  <2> QED BY <1>5, <2>1 DEF IInv, EventsOK, EventOK
<1>13. Waiting'
  <2>1. ~Has(SystemManager, "RUN_COMPLETED")
    BY <1>4, ComponentsAre DEF IInv, Waiting, StatusKnown
  <2>2. (\A u \in {"consumer", "control"} : scheduler'[u] # "taken") => isCurrentExecutionCompleted'
    BY <1>1, <1>2, <1>4 DEF TakeRun
  <2> QED BY <1>4, <1>5, <2>1, <2>2, ComponentsAre DEF IInv, Waiting, TakeRun
<1> QED BY <1>5, <1>7, <1>10, <1>11, <1>12, <1>13, StageParts, InvPartsNext

-----------------------------------------------------------------------------
(* Publications of signals.                                                                      *)

(* The manager hears of the status of a resource from that resource only.                        *)
LEMMA ReportsAre ==
  ASSUME IInv, NEW e \in Queue[SystemManager], e.type = "RESOURCE_STATUS_CHANGED"
  PROVE  /\ e.name \in Resources /\ e.status \in {"WAITING", "READY", "RUNNING", "ERROR"}
         /\ e = ResourceStatusChanged(e.name, e.status) /\ Report(e.name)
<1>1. e \in Event /\ SystemManager \in Components
  BY QueueTypes, ComponentsAre DEF IInv
<1>2. e = ResourceStatusChanged(e.name, e.status)
  BY <1>1 DEF Event, ResourceStatusChanged
<1>3. e.name \in Resources /\ e.status \in {"WAITING", "READY", "RUNNING", "ERROR"}
  BY <1>1 DEF IInv, EventsOK, EventOK
<1> QED BY <1>2, <1>3 DEF Report

(* While the manager has seen all of them wait, nothing is under way.                            *)
LEMMA AllAgreed ==
  ASSUME IInv, systemStatus = Stage
  PROVE  /\ \A r \in Resources : Agreed(r) /\ resourcesStatus[r] = Stage
         /\ \A e \in Queue[SystemManager] : e.type # "RESOURCE_STATUS_CHANGED"
         /\ \A r \in Resources : NoneOf(r, Commands)
<1>1. \A r \in Resources : resourcesStatus[r] = Stage /\ Lock(r)
  BY DEF IInv, StatusKnown, Lockstep
<1>2. \A r \in Resources : Agreed(r)
  <2>1. BeforeOf(Stage) # Stage /\ Stage # "ERROR"
    BY StageIs DEF BeforeOf
  <2> QED BY <1>1, <2>1 DEF Lock, Awaits, Reports, Broken
<1> QED BY <1>1, <1>2, ReportsAre DEF Agreed

LEMMA PublishPrepareInv ==
  ASSUME IInv, TypeOK', NEW t \in {"consumer", "control"}, PublishPrepare(t)
  PROVE  IInv'
<1> DEFINE e == PrepareNewRun(currentRun)
<1>1. scheduler \in [{"consumer", "control"} -> {"idle", "checked", "taken"}]
  BY DEF IInv, TypeOK, RunTypeOK
<1>2. /\ scheduler[t] = "taken" /\ inbox' = Deliver(inbox, e) /\ outbox' = outbox
      /\ scheduler' = [scheduler EXCEPT ![t] = "idle"] /\ isFirstRun' = FALSE
  BY DEF PublishPrepare, Publish
<1>3. /\ \A u \in {"consumer", "control"} : u # t => scheduler[u] = "idle"
      /\ posts = MaxPosts
  BY <1>2, OneInScheduler
<1>4. /\ Stage = "WAITING" /\ systemStatus = "WAITING" /\ currentRun # NoRun
      /\ ~currentRunStarted /\ ~isCurrentExecutionCompleted
  BY <1>2 DEF IInv, Scheduling
<1>5. /\ \A r \in Resources : Agreed(r) /\ resourcesStatus[r] = "WAITING"
      /\ \A a \in Queue[SystemManager] : a.type # "RESOURCE_STATUS_CHANGED"
      /\ \A r \in Resources : NoneOf(r, Commands)
  BY <1>4, AllAgreed
<1>6. ~Has(SystemManager, "RUN_COMPLETED") /\ Components = {Agent, Collector, Generator, SystemManager}
  BY <1>4, ComponentsAre DEF IInv, Waiting
<1>7. e \in Event /\ \A d \in Components : Adds(d, e) = {e}
  BY CommandEventTypes DEF IInv, TypeOK, RunTypeOK, Adds, Relevant, PrepareNewRun
<1>8. /\ e.type = "PREPARE_NEW_RUN" /\ e.run = currentRun
  BY DEF PrepareNewRun
<1> HIDE DEF e
<1>9. OnlyOf(SystemManager, {"SYSTEM_STATUS_CHANGED"})
  BY <1>4, <1>5, <1>6 DEF IInv, Waiting, OnlyOf, Has
<1>10. (\A d \in Components : Queue'[d] = Queue[d] \union {e}) /\ InOrder'
  <2>1. \A d \in Components : \A a \in Queue[d] : ~Overtakes(d, a, e)
    <3>1. \A a \in Queue[SystemManager] : ~Overtakes(SystemManager, a, e)
      BY <1>8, <1>9 DEF Overtakes, OnlyOf, StatsUpdated
    <3>2. \A r \in Resources : \A a \in Queue[r] : ~Overtakes(r, a, e)
      BY <1>5, <1>8, ComponentsAre DEF Overtakes, NoneOf, Commands, IInv
    <3> QED BY <3>1, <3>2 DEF Components
  <2>2. (\A d \in Components : Queue'[d] = Queue[d] \union Adds(d, e)) /\ InOrder'
    BY <1>2, <1>7, <2>1, PublishEffect DEF IInv
  <2> QED BY <1>7, <2>2
<1>11. \A u \in {"consumer", "control"} : scheduler'[u] = "idle"
  BY <1>1, <1>2, <1>3
<1>12. UNCHANGED <<status, resourcesStatus, failures, systemStatus, currentRun, currentRunStarted,
                   isCurrentExecutionCompleted, posts, executedRuns, runsToExecute>>
  BY DEF PublishPrepare
<1>13. Stage' = "READY"
  BY <1>4, <1>6, <1>8, <1>10, <1>11, <1>12 DEF Stage, Taking, Has
<1>14. Lockstep'
  <2> SUFFICES ASSUME NEW r \in Resources PROVE Awaits(r)'
    BY DEF Lockstep, Lock
  <2>1. r \in Components /\ SystemManager \in Components
    BY DEF Components
  <2>2. /\ Has(r, "PREPARE_NEW_RUN")' /\ NoneOf(r, Commands \ {"PREPARE_NEW_RUN"})'
        /\ EchoesOnly(r, "WAITING")'
    BY <1>4, <1>5, <1>8, <1>10, <2>1 DEF Has, NoneOf, EchoesOnly, Agreed
  <2>3. ~Report(r)'
    BY <1>5, <1>8, <1>10, <2>1 DEF Report, ResourceStatusChanged
  <2>4. outbox'[r] = <<>>
    BY <1>2, <1>4, ComponentsAre DEF IInv, Waiting, Outboxes
  <2> QED BY <1>4, <1>5, <1>12, <1>13, <2>2, <2>3, <2>4 DEF Awaits, Agreed, CommandOf, BeforeOf
<1>15. StatusKnown' /\ OneScheduler' /\ Scheduling' /\ RunsConserved'
  <2>1. StatusKnown'
    BY <1>4, <1>5, <1>12, <1>13, ComponentsAre DEF StatusKnown, BeforeOf, IInv
  <2>2. OneScheduler'
    BY <1>3, <1>11, <1>12, LifecycleAssumption DEF OneScheduler
  <2>3. Scheduling'
    BY <1>11 DEF Scheduling
  <2>4. RunsConserved'
    BY <1>12 DEF RunsConserved, IInv
  <2> QED BY <2>1, <2>2, <2>3, <2>4
<1>16. Base'
  BY <1>2, <1>5, <1>12, <1>13, <1>14, <1>15
  DEF Base, IInv, PublishPrepare, UndisturbedRuns, UpAndRunning, Outboxes, RunCodes, Agreed
<1>17. EventsOK'
  BY <1>8, <1>10, <1>12 DEF IInv, EventsOK, EventOK
<1>18. Preparing'
  <2>1. /\ OnlyOf(SystemManager, {"SYSTEM_STATUS_CHANGED", "RESOURCE_STATUS_CHANGED", "PREPARE_NEW_RUN"})'
        /\ OnlyOf(Agent, {"PREPARE_NEW_RUN", "RESOURCE_STATUS_CHANGED", "TRAJECTORY_COMPLETED"})'
        /\ OnlyOf(Collector, {"PREPARE_NEW_RUN", "RESOURCE_STATUS_CHANGED"})'
        /\ OnlyOf(Generator, {"PREPARE_NEW_RUN", "RESOURCE_STATUS_CHANGED"})'
    <3>1. NoneOf(Agent, Commands) /\ NoneOf(Collector, Commands) /\ NoneOf(Generator, Commands)
      BY <1>5, ComponentsAre DEF IInv
    <3>2. OnlyOf(Agent, {"RESOURCE_STATUS_CHANGED", "TRAJECTORY_COMPLETED"})
      BY <1>4, <3>1 DEF IInv, Waiting, OnlyOf, NoneOf, Commands
    <3>3. OnlyOf(Collector, {"RESOURCE_STATUS_CHANGED"})
      BY <1>4, <3>1 DEF IInv, Waiting, OnlyOf, NoneOf, Commands, Has
    <3>4. OnlyOf(Generator, {"RESOURCE_STATUS_CHANGED"})
      BY <1>4, <3>1 DEF IInv, Waiting, OnlyOf, NoneOf, Commands
    <3> QED BY <1>6, <1>8, <1>9, <1>10, <3>2, <3>3, <3>4 DEF OnlyOf
  <2>2. /\ Has(SystemManager, "PREPARE_NEW_RUN")' /\ \A r \in Resources : resourcesStatus'[r] # "READY"
        /\ status'[Collector] # "READY" /\ status'[Generator] # "READY"
    BY <1>4, <1>5, <1>6, <1>8, <1>10, <1>12, ComponentsAre DEF Has, Agreed, IInv
  <2>3. /\ smPhase = "WAIT" /\ generating = "WAIT" /\ outbox[Agent] = <<>> /\ outbox[Generator] = <<>>
        /\ rewarded = 1..sent /\ ~notifying
    BY <1>4 DEF IInv, Waiting
  <2>4. UNCHANGED <<outbox, smPhase, generating, rewarded, sent, notifying, isCurrentExecutionCompleted>>
    BY <1>2 DEF PublishPrepare
  <2> QED BY <1>4, <2>1, <2>2, <2>3, <2>4 DEF Preparing
<1> QED BY <1>10, <1>13, <1>15, <1>16, <1>17, <1>18, StageParts, InvPartsNext

(* The last run that is over is counted.                                                         *)
LEMMA ManagerHandlesRunCompletedInv ==
  ASSUME IInv, TypeOK', ManagerHandlesRunCompleted PROVE IInv'
<1> DEFINE e == Head(inbox[SystemManager])
<1>1. SystemManager \in Components /\ inbox[SystemManager] # <<>> /\ e.type = "RUN_COMPLETED"
      /\ React(SystemManager, <<>>)
  BY ComponentsAre DEF ManagerHandlesRunCompleted, Receives, IInv
<1>2. /\ e \in Queue[SystemManager] /\ Queue[SystemManager] = {e} \union Rest(SystemManager)
      /\ \A b \in Rest(SystemManager) : ~Overtakes(SystemManager, e, b)
  BY <1>1, HeadOf DEF IInv
<1>3. (\A d \in Components : Queue'[d] = Left(SystemManager, d)) /\ InOrder' /\ outbox' = outbox
  BY <1>1, TakeEffect DEF IInv
<1>4. Queue'[SystemManager] = Rest(SystemManager) /\ \A r \in Resources : Queue'[r] = Queue[r]
  BY <1>1, <1>3, ComponentsAre DEF Left, IInv
<1> HIDE DEF e
<1>5. Has(SystemManager, "RUN_COMPLETED") /\ ~Has(SystemManager, "RUN_COMPLETED")'
  BY <1>1, <1>2, <1>4 DEF Has, Overtakes
<1>6. Stage = "WAITING" /\ Stage' = "WAITING"
  BY <1>5 DEF Stage, ManagerHandlesRunCompleted
<1>7. currentRun # NoRun /\ isCurrentExecutionCompleted /\ currentRun' = NoRun
  BY <1>5, <1>6 DEF IInv, Waiting, ManagerHandlesRunCompleted
<1>8. /\ \A q \in Resources : SameSignals(q) /\ SameReports(q)
      /\ \A q \in Resources : \A t : Has(q, t)' <=> Has(q, t)
      /\ \A d \in Components : \A T : OnlyOf(d, T) => OnlyOf(d, T)'
  BY <1>1, <1>2, <1>4
  DEF SameSignals, SameReports, Has, OnlyOf, ResourceStatusChanged, Components
<1>9. Lockstep'
  BY <1>3, <1>6, <1>8, AllLocks DEF ManagerHandlesRunCompleted
<1>10. RunsConserved'
  <2>1. /\ executedRuns \in Seq(MaybeRun) /\ runsToExecute \in Seq(MaybeRun) /\ currentRun \in MaybeRun
    <3>1. runsToExecute \in Seq(Runs) /\ Runs \subseteq MaybeRun
      BY DEF IInv, TypeOK, RunTypeOK, MaybeRun
    <3>2. runsToExecute \in Seq(MaybeRun)
      BY <3>1
    <3> QED BY <3>2 DEF IInv, TypeOK, RunTypeOK
  <2>2. executedRuns \o <<currentRun>> \o runsToExecute = [i \in 1..NumRuns |-> i]
    BY <1>7 DEF IInv, RunsConserved
  <2>3. Append(executedRuns, currentRun) \o <<>> \o runsToExecute
          = executedRuns \o <<currentRun>> \o runsToExecute
    BY <2>1
  <2>4. UNCHANGED runsToExecute /\ executedRuns' = Append(executedRuns, currentRun)
    BY DEF ManagerHandlesRunCompleted
  <2> QED BY <1>7, <2>2, <2>3, <2>4 DEF RunsConserved
<1>11. Scheduling' /\ OneScheduler'
  BY <1>6, <1>7 DEF IInv, Scheduling, OneScheduler, ManagerHandlesRunCompleted
<1>12. Base'
  BY <1>3, <1>6, <1>9, <1>10, <1>11
  DEF Base, IInv, ManagerHandlesRunCompleted, UndisturbedRuns, UpAndRunning, Outboxes, StatusKnown, RunCodes
<1>13. EventsOK'
  <2>1. \A c \in Components : \A a \in Queue[c] : a.type \notin {"PREPARE_NEW_RUN", "START_RUN"}
    BY <1>6, ComponentsAre DEF IInv, Waiting, OnlyOf
  <2>2. \A c \in Components : Queue'[c] \subseteq Queue[c]
    BY <1>2, <1>4 DEF Components
  <2> QED BY <2>1, <2>2 DEF IInv, EventsOK, EventOK
<1>14. Waiting'
  BY <1>3, <1>5, <1>6, <1>7, <1>8, ComponentsAre DEF IInv, Waiting, ManagerHandlesRunCompleted
<1> QED BY <1>3, <1>6, <1>11, <1>12, <1>13, <1>14, StageParts, InvPartsNext

LEMMA ManagerHandlesPrepareInv ==
  ASSUME IInv, TypeOK', ManagerHandlesPrepare PROVE IInv'
<1> DEFINE e == Head(inbox[SystemManager])
<1>1. SystemManager \in Components /\ inbox[SystemManager] # <<>> /\ e.type = "PREPARE_NEW_RUN"
      /\ React(SystemManager, <<>>)
  BY ComponentsAre DEF ManagerHandlesPrepare, Receives, IInv
<1>2. /\ e \in Queue[SystemManager] /\ Queue[SystemManager] = {e} \union Rest(SystemManager)
      /\ \A b \in Rest(SystemManager) : ~Overtakes(SystemManager, e, b)
  BY <1>1, HeadOf DEF IInv
<1>3. (\A d \in Components : Queue'[d] = Left(SystemManager, d)) /\ InOrder' /\ outbox' = outbox
  BY <1>1, TakeEffect DEF IInv
<1>4. Queue'[SystemManager] = Rest(SystemManager) /\ \A r \in Resources : Queue'[r] = Queue[r]
  BY <1>1, <1>3, ComponentsAre DEF Left, IInv
<1>5. smRunCode' = currentRun /\ statsGroups' = {}
  BY <1>1, <1>2 DEF ManagerHandlesPrepare, IInv, EventsOK, EventOK
<1> HIDE DEF e
<1>6. Has(SystemManager, "PREPARE_NEW_RUN") /\ ~Has(SystemManager, "PREPARE_NEW_RUN")'
      /\ (Has(SystemManager, "RUN_COMPLETED")' <=> Has(SystemManager, "RUN_COMPLETED"))
  BY <1>1, <1>2, <1>4 DEF Has, Overtakes
<1>7. Stage = "READY" /\ Stage' = "READY"
  <2>1. Stage = "READY"
    BY <1>6, StageIs DEF IInv, Waiting, RunningEvents, OnlyOf, Has
  <2> QED BY <1>6, <2>1, StageFrame DEF ManagerHandlesPrepare
<1>8. /\ \A q \in Resources : SameSignals(q) /\ SameReports(q)
      /\ \A d \in Components : \A T : OnlyOf(d, T) => OnlyOf(d, T)'
      /\ \A d \in Components : Queue'[d] \subseteq Queue[d]
  BY <1>1, <1>2, <1>4
  DEF SameSignals, SameReports, OnlyOf, ResourceStatusChanged, Components
<1>9. Lockstep'
  BY <1>3, <1>7, <1>8, AllLocks DEF ManagerHandlesPrepare
<1>10. Base'
  BY <1>3, <1>7, <1>9
  DEF Base, IInv, ManagerHandlesPrepare, UndisturbedRuns, UpAndRunning, Outboxes, StatusKnown, RunCodes,
      OneScheduler, RunsConserved
<1>11. EventsOK' /\ Scheduling'
  BY <1>7, <1>8 DEF IInv, EventsOK, EventOK, Scheduling, ManagerHandlesPrepare
<1>12. Preparing'
  BY <1>3, <1>5, <1>6, <1>7, <1>8, ComponentsAre DEF IInv, Preparing, ManagerHandlesPrepare
<1> QED BY <1>3, <1>7, <1>10, <1>11, <1>12, StageParts, InvPartsNext

LEMMA ManagerHandlesReadyInv ==
  ASSUME IInv, TypeOK', ManagerHandlesReady PROVE IInv'
<1>1. CASE systemStatus # "READY" \/ currentRunStarted
  <2>1. React(SystemManager, <<>>) /\ UNCHANGED baseVars /\ UNCHANGED phaseVars /\ UNCHANGED collectorVars
    BY <1>1 DEF ManagerHandlesReady, React, baseVars, phaseVars
  <2> QED BY <2>1, IgnoredStatus DEF ManagerHandlesReady
<1>2. CASE systemStatus = "READY" /\ ~currentRunStarted
  <2> DEFINE e == StartRun(currentRun)
  <2>1. Stage = "READY" /\ currentRun # NoRun /\ ~Has(SystemManager, "RUN_COMPLETED") /\ ~Taking
    BY <1>2, StageIs DEF IInv, StatusKnown, BeforeOf, Stage
  <2>2. /\ \A r \in Resources : Agreed(r) /\ resourcesStatus[r] = "READY"
        /\ \A a \in Queue[SystemManager] : a.type # "RESOURCE_STATUS_CHANGED"
        /\ \A r \in Resources : NoneOf(r, Commands)
    BY <1>2, <2>1, AllAgreed
  <2>3. /\ React(SystemManager, <<e>>) /\ currentRunStarted' = TRUE /\ inbox[SystemManager] # <<>>
        /\ SystemManager \in Components
        /\ Head(inbox[SystemManager]).type = "SYSTEM_STATUS_CHANGED"
    BY <1>2, <2>1, ComponentsAre DEF ManagerHandlesReady, Receives, IInv
  <2>4. e \in Event /\ e.type = "START_RUN" /\ e.run = currentRun
    BY CommandEventTypes DEF IInv, TypeOK, RunTypeOK, StartRun
  <2>5. Adds(SystemManager, e) = {} /\ \A r \in Resources : Adds(r, e) = {e}
    BY <2>4, ComponentsAre DEF Adds, Relevant, IInv
  <2> HIDE DEF e
  <2>6. /\ Head(inbox[SystemManager]) \in Queue[SystemManager]
        /\ Queue[SystemManager] = {Head(inbox[SystemManager])} \union Rest(SystemManager)
    BY <2>3, HeadOf DEF IInv
  <2>7. /\ OnlyOf(SystemManager, {"SYSTEM_STATUS_CHANGED"})
        /\ OnlyOf(Agent, {"RESOURCE_STATUS_CHANGED", "TRAJECTORY_COMPLETED"})
        /\ OnlyOf(Collector, {"RESOURCE_STATUS_CHANGED"})
        /\ OnlyOf(Generator, {"RESOURCE_STATUS_CHANGED"})
        /\ ~Has(SystemManager, "PREPARE_NEW_RUN")
    <3>1. /\ NoneOf(Agent, Commands) /\ NoneOf(Collector, Commands) /\ NoneOf(Generator, Commands)
          /\ resourcesStatus[Agent] = "READY" /\ Agent \in Resources
      BY <2>2, ComponentsAre DEF IInv
    <3>2. ~Has(SystemManager, "PREPARE_NEW_RUN")
      BY <2>1, <3>1 DEF IInv, Preparing
    <3>3. OnlyOf(SystemManager, {"SYSTEM_STATUS_CHANGED"})
      BY <2>1, <2>2, <3>2 DEF IInv, Preparing, OnlyOf, Has
    <3>4. OnlyOf(Agent, {"RESOURCE_STATUS_CHANGED", "TRAJECTORY_COMPLETED"})
      BY <2>1, <3>1 DEF IInv, Preparing, OnlyOf, NoneOf, Commands
    <3>5. OnlyOf(Collector, {"RESOURCE_STATUS_CHANGED"}) /\ OnlyOf(Generator, {"RESOURCE_STATUS_CHANGED"})
      BY <2>1, <3>1 DEF IInv, Preparing, OnlyOf, NoneOf, Commands
    <3> QED BY <3>2, <3>3, <3>4, <3>5
  <2>8. /\ Queue'[SystemManager] = Rest(SystemManager)
        /\ \A r \in Resources : Queue'[r] = Queue[r] \union {e}
        /\ InOrder' /\ outbox' = outbox
    <3>1. outbox[SystemManager] = <<>>
      BY DEF IInv, Outboxes
    <3>2. \A r \in Resources : \A a \in Queue[r] : ~Overtakes(r, a, e)
      <4>1. \A r \in Resources : OnlyOf(r, {"RESOURCE_STATUS_CHANGED", "TRAJECTORY_COMPLETED"})
        BY <2>7, ComponentsAre DEF OnlyOf, IInv
      <4> QED BY <2>4, <4>1, ComponentsAre DEF Overtakes, OnlyOf, Commands, IInv
    <3>3. \A d \in Components : Relevant(d, e) => \A a \in Left(SystemManager, d) : ~Overtakes(d, a, e)
      BY <2>4, <2>5, <3>2, ComponentsAre DEF Left, Adds, Relevant, IInv
    <3>4. /\ \A d \in Components : Queue'[d] = Left(SystemManager, d) \union Adds(d, e)
          /\ outbox' = outbox /\ InOrder'
      BY <2>3, <2>4, <3>1, <3>3, ReactOne DEF IInv
    <3> QED BY <2>3, <2>5, <3>4, ComponentsAre DEF Left, IInv
  <2>9. UNCHANGED <<status, resourcesStatus, failures, systemStatus, currentRun, runCode, smPhase,
                    smRunCode, statsGroups, isCurrentExecutionCompleted, generating, rewarded, sent,
                    notifying, taskCompleted, taskToExecute, tasksScheduled, taskIndex, scheduler>>
    BY DEF ManagerHandlesReady
  <2>10. Stage' = "RUNNING"
    BY <2>1, <2>3, <2>6, <2>8, <2>9 DEF Stage, Taking, Has
  <2>11. Lockstep'
    <3> SUFFICES ASSUME NEW r \in Resources PROVE Awaits(r)'
      BY DEF Lockstep, Lock
    <3>1. r \in Components /\ Agreed(r)
      BY <2>2 DEF Components
    <3>2. /\ Has(r, "START_RUN")' /\ NoneOf(r, Commands \ {"START_RUN"})'
          /\ EchoesOnly(r, "READY")'
      BY <2>1, <2>4, <2>8, <3>1 DEF Has, NoneOf, EchoesOnly, Agreed
    <3>3. ~Report(r)'
      BY <2>2, <2>6, <2>8 DEF Report, ResourceStatusChanged
    <3>4. outbox'[r] = <<>>
      BY <2>1, <2>8, ComponentsAre DEF IInv, Preparing, Outboxes
    <3> QED BY <2>1, <2>2, <2>9, <2>10, <3>1, <3>2, <3>3, <3>4 DEF Awaits, Agreed, CommandOf, BeforeOf
  <2>12. StatusKnown'
    BY <1>2, <2>2, <2>9, <2>10, ComponentsAre DEF StatusKnown, BeforeOf, IInv
  <2>13. Base'
    BY <2>1, <2>2, <2>8, <2>9, <2>10, <2>11, <2>12
    DEF Base, IInv, ManagerHandlesReady, UndisturbedRuns, UpAndRunning, Outboxes, RunCodes, Agreed,
        OneScheduler, RunsConserved
  <2>14. EventsOK' /\ Scheduling'
    <3>1. EventsOK'
      BY <2>4, <2>6, <2>8, <2>9 DEF IInv, EventsOK, EventOK, Components
    <3>2. Scheduling'
      BY <2>1, <2>9 DEF IInv, Scheduling
    <3> QED BY <3>1, <3>2
  <2>15. /\ \A d \in Components :
              \A t \in {"SCHEDULING_STARTED", "SCHEDULING_COMPLETED", "EXECUTION_COMPLETED", "STATS_UPDATED"} :
                ~Has(d, t)'
         /\ \A r \in Resources : ~Report(r)'
    BY <2>2, <2>4, <2>6, <2>7, <2>8, ComponentsAre DEF OnlyOf, Has, IInv, Report, ResourceStatusChanged
  <2>16. RunningEvents'
    BY <2>4, <2>6, <2>7, <2>8, <2>10, ComponentsAre DEF RunningEvents, OnlyOf, IInv
  <2>17. /\ smRunCode = currentRun /\ statsGroups = {} /\ smPhase = "WAIT" /\ ~isCurrentExecutionCompleted
         /\ generating = "WAIT" /\ outbox[Agent] = <<>> /\ outbox[Generator] = <<>>
         /\ sent = 0 /\ rewarded = {} /\ ~notifying
         /\ taskCompleted = TasksToSkip /\ taskToExecute = TasksToGenerate /\ tasksScheduled = 0
         /\ status[Generator] = "READY"
    <3>1. status[Collector] = "READY" /\ status[Generator] = "READY"
      BY <2>1, <2>2, ComponentsAre DEF IInv, Agreed
    <3>2. rewarded = 1..sent /\ sent = 0
      BY <2>1, <3>1 DEF IInv, Preparing
    <3>3. rewarded = {}
      BY <3>2
    <3> QED BY <2>1, <2>7, <3>1, <3>2, <3>3 DEF IInv, Preparing
  <2>18. RunningManager'
    BY <2>9, <2>17 DEF RunningManager
  <2>19. RunningStats'
    <3>1. \A g : ~Counted(g)'
      BY <2>3, <2>9, <2>15, <2>17 DEF Counted, Stat, Has, StatsUpdated
    <3> QED BY <2>9, <2>17, <3>1 DEF RunningStats, Counted
  <2>20. RunningTasks'
    <3>1. Cardinality(rewarded) = 0 /\ TasksToSkip + 0 = TasksToSkip /\ 0 <= NumTasks
      BY <2>17, FS_EmptySet, LifecycleAssumption DEF NumTasks
    <3>2. ~Begun'
      BY <2>9, <2>17 DEF Begun
    <3> QED BY <2>8, <2>9, <2>15, <2>17, <3>1, <3>2, ComponentsAre DEF RunningTasks, IInv
  <2> QED BY <2>8, <2>10, <2>13, <2>14, <2>16, <2>18, <2>19, <2>20, StageParts, InvPartsNext
<1> QED BY <1>1, <1>2

(* The manager takes an event that is no signal.                                                 *)
LEMMA ManagerTakes ==
  ASSUME IInv, TypeOK', inbox[SystemManager] # <<>>, Head(inbox[SystemManager]).type \notin SignalTypes,
         React(SystemManager, <<>>)
  PROVE  /\ SystemManager \in Components /\ Head(inbox[SystemManager]) \in Queue[SystemManager]
         /\ Head(inbox[SystemManager]) \in Event
         /\ Queue[SystemManager] = {Head(inbox[SystemManager])} \union Queue'[SystemManager]
         /\ \A b \in Queue'[SystemManager] : ~Overtakes(SystemManager, Head(inbox[SystemManager]), b)
         /\ \A r \in Resources : Queue'[r] = Queue[r]
         /\ InOrder' /\ outbox' = outbox
         /\ \A d \in Components : SameSignals(d) /\ Queue'[d] \subseteq Queue[d]
         /\ \A d \in Components : \A t : Has(d, t)' => Has(d, t)
         /\ \A r \in Resources : \A t : Has(r, t)' <=> Has(r, t)
         /\ \A d \in Components : \A T : OnlyOf(d, T) => OnlyOf(d, T)'
         /\ \A r \in Resources : Report(r)' <=> Report(r)
<1>1. SystemManager \in Components /\ SystemManager \notin Resources
  BY ComponentsAre DEF IInv
<1>2. (\A d \in Components : Queue'[d] = Left(SystemManager, d)) /\ InOrder' /\ outbox' = outbox
  BY <1>1, TakeEffect DEF IInv
<1>3. /\ Head(inbox[SystemManager]) \in Queue[SystemManager] /\ Head(inbox[SystemManager]) \in Event
      /\ Queue[SystemManager] = {Head(inbox[SystemManager])} \union Rest(SystemManager)
      /\ \A b \in Rest(SystemManager) : ~Overtakes(SystemManager, Head(inbox[SystemManager]), b)
  BY <1>1, HeadOf DEF IInv
<1>4. Queue'[SystemManager] = Rest(SystemManager) /\ \A r \in Resources : Queue'[r] = Queue[r]
  BY <1>1, <1>2 DEF Left, Components
<1>5. \A d \in Components : Queue'[d] \subseteq Queue[d]
  BY <1>3, <1>4 DEF Components
<1>6. \A d \in Components : SameSignals(d)
  BY <1>1, <1>2, QuietTake DEF IInv
<1>7. /\ \A d \in Components : \A t : Has(d, t)' => Has(d, t)
      /\ \A d \in Components : \A T : OnlyOf(d, T) => OnlyOf(d, T)'
      /\ \A r \in Resources : Report(r)' <=> Report(r)
  BY <1>5, <1>6, FewerEvents DEF IInv
<1>8. \A r \in Resources : \A t : Has(r, t)' <=> Has(r, t)
  BY <1>4 DEF Has
<1> QED BY <1>1, <1>2, <1>3, <1>4, <1>5, <1>6, <1>7, <1>8

(* Such an event, other than a status of the system, reaches the manager during a run only.      *)
LEMMA RunningOnly ==
  ASSUME IInv, \/ \E t \in {"SCHEDULING_STARTED", "EXECUTION_COMPLETED", "STATS_UPDATED"} :
                    Has(SystemManager, t)
               \/ Has(Agent, "EXECUTION_COMPLETED") \/ Has(Generator, "SCHEDULING_COMPLETED")
               \/ Has(Agent, "SCHEDULING_STARTED") \/ Has(Collector, "SCHEDULING_STARTED")
               \/ generating # "WAIT" \/ outbox[Agent] # <<>> \/ outbox[Generator] # <<>> \/ notifying
  PROVE  /\ Stage = "RUNNING" /\ currentRun # NoRun /\ currentRunStarted
         /\ ~Has(SystemManager, "RUN_COMPLETED") /\ ~Taking
         /\ \A t \in {"consumer", "control"} : scheduler[t] = "idle"
<1>1. Stage = "RUNNING"
  BY StageIs DEF IInv, Waiting, Preparing, OnlyOf, Has
<1> QED BY <1>1 DEF Stage, IInv, Scheduling

LEMMA ManagerHandlesSchedulingStartedInv ==
  ASSUME IInv, TypeOK', ManagerHandlesSchedulingStarted PROVE IInv'
<1> DEFINE e == Head(inbox[SystemManager])
<1>1. /\ inbox[SystemManager] # <<>> /\ e.type = "SCHEDULING_STARTED" /\ React(SystemManager, <<>>)
      /\ smPhase' = e.phase
  BY DEF ManagerHandlesSchedulingStarted, Receives
<1>2. /\ SystemManager \in Components /\ e \in Queue[SystemManager]
      /\ \A b \in Queue'[SystemManager] : ~Overtakes(SystemManager, e, b)
      /\ InOrder' /\ outbox' = outbox
      /\ \A d \in Components : SameSignals(d) /\ Queue'[d] \subseteq Queue[d]
      /\ \A d \in Components : \A t : Has(d, t)' => Has(d, t)
      /\ \A r \in Resources : \A t : Has(r, t)' <=> Has(r, t)
      /\ \A d \in Components : \A T : OnlyOf(d, T) => OnlyOf(d, T)'
      /\ \A r \in Resources : Report(r)' <=> Report(r)
  BY <1>1, ManagerTakes DEF SignalTypes, Commands
<1>3. Has(SystemManager, "SCHEDULING_STARTED") /\ smPhase' = "RUN"
  BY <1>1, <1>2 DEF Has, IInv, EventsOK, EventOK
<1>4. ~Has(SystemManager, "SCHEDULING_STARTED")' /\ ~Report(Generator)
  <2>1. ~Has(SystemManager, "SCHEDULING_STARTED")'
    BY <1>1, <1>2 DEF Overtakes, Has
  <2>2. ~Report(Generator)'
    BY <1>1, <1>2 DEF Overtakes, Report, ResourceStatusChanged
  <2> QED BY <1>2, <2>1, <2>2, ComponentsAre DEF IInv
<1>5. UNCHANGED baseVars /\ collectorPhase' # "BOOTSTRAP"
  BY <1>2 DEF ManagerHandlesSchedulingStarted, baseVars, IInv, UpAndRunning
<1>6. Base' /\ Stage' = Stage /\ Stage = "RUNNING"
  BY <1>2, <1>3, <1>5, BaseFrame, RunningOnly
<1>7. Begun /\ ~isCurrentExecutionCompleted
  BY <1>2, <1>3, <1>6 DEF IInv, RunningTasks, RunningManager
<1>8. UNCHANGED <<currentRun, isCurrentExecutionCompleted, scheduler, systemStatus, status, outbox, smRunCode,
                  statsGroups, generating, taskIndex, tasksScheduled, sent, rewarded, notifying,
                  taskCompleted, taskToExecute>>
  BY <1>2 DEF ManagerHandlesSchedulingStarted
<1>9. (Begun' <=> Begun) /\ (Over' <=> Over)
  BY <1>8 DEF Begun, Over
<1>10. EventsOK' /\ Scheduling'
  BY <1>2, <1>6, <1>8 DEF IInv, EventsOK, EventOK, Scheduling
<1>11. RunningEvents'
  BY <1>2, <1>6, ComponentsAre DEF IInv, RunningEvents
<1>12. RunningManager'
  BY <1>2, <1>3, <1>4, <1>6, <1>7, <1>8, <1>9, ComponentsAre DEF IInv, RunningManager
<1>13. RunningStats'
  <2>1. \A g : Stat(g)' => Stat(g)
    BY <1>2 DEF Stat
  <2> QED BY <1>2, <1>6, <1>8, <1>9, <2>1, ComponentsAre DEF IInv, RunningStats, Counted
<1>14. RunningTasks'
  BY <1>2, <1>6, <1>8, <1>9, ComponentsAre DEF IInv, RunningTasks
<1> QED BY <1>2, <1>6, <1>10, <1>11, <1>12, <1>13, <1>14, StageParts, InvPartsNext

LEMMA ManagerHandlesExecutionCompletedInv ==
  ASSUME IInv, TypeOK', ManagerHandlesExecutionCompleted PROVE IInv'
<1> DEFINE e == Head(inbox[SystemManager])
<1>1. /\ inbox[SystemManager] # <<>> /\ e.type = "EXECUTION_COMPLETED" /\ React(SystemManager, <<>>)
      /\ isCurrentExecutionCompleted' = (smPhase = "RUN" \/ isCurrentExecutionCompleted)
      /\ smPhase' = IF smPhase = "RUN" THEN "WAIT" ELSE smPhase
  BY DEF ManagerHandlesExecutionCompleted, Receives
<1>2. /\ SystemManager \in Components /\ e \in Queue[SystemManager]
      /\ \A b \in Queue'[SystemManager] : ~Overtakes(SystemManager, e, b)
      /\ Queue[SystemManager] = {e} \union Queue'[SystemManager]
      /\ InOrder' /\ outbox' = outbox
      /\ \A d \in Components : SameSignals(d) /\ Queue'[d] \subseteq Queue[d]
      /\ \A d \in Components : \A t : Has(d, t)' => Has(d, t)
      /\ \A r \in Resources : \A t : Has(r, t)' <=> Has(r, t)
      /\ \A d \in Components : \A T : OnlyOf(d, T) => OnlyOf(d, T)'
      /\ \A r \in Resources : Report(r)' <=> Report(r)
  BY <1>1, ManagerTakes DEF SignalTypes, Commands
<1>3. Has(SystemManager, "EXECUTION_COMPLETED")
  BY <1>1, <1>2 DEF Has
<1>4. ~Has(SystemManager, "EXECUTION_COMPLETED")' /\ ~Report(Collector)'
      /\ ~Has(SystemManager, "SCHEDULING_STARTED")'
  BY <1>1, <1>2 DEF Overtakes, Has, Report, ResourceStatusChanged
<1>5. UNCHANGED baseVars /\ collectorPhase' # "BOOTSTRAP"
  BY <1>2 DEF ManagerHandlesExecutionCompleted, baseVars, IInv, UpAndRunning
<1>6. Base' /\ Stage' = Stage /\ Stage = "RUNNING"
  BY <1>2, <1>3, <1>5, BaseFrame, RunningOnly
<1>7. /\ Begun /\ Over /\ smPhase \in {"WAIT", "RUN"} /\ ~isCurrentExecutionCompleted
      /\ (smPhase = "RUN" => ~Report(Generator))
  BY <1>2, <1>3, <1>6 DEF IInv, RunningTasks, RunningManager
<1>8. UNCHANGED <<currentRun, scheduler, systemStatus, status, outbox, smRunCode,
                  statsGroups, generating, taskIndex, tasksScheduled, sent, rewarded, notifying,
                  taskCompleted, taskToExecute>>
  BY <1>2 DEF ManagerHandlesExecutionCompleted
<1>9. (Begun' <=> Begun) /\ (Over' <=> Over)
  BY <1>8 DEF Begun, Over
<1>10. EventsOK' /\ Scheduling'
  <2>1. EventsOK'
    BY <1>2, <1>8 DEF IInv, EventsOK, EventOK
  <2>2. Scheduling'
    BY <1>3, <1>8, RunningOnly DEF Scheduling
  <2> QED BY <2>1, <2>2
<1>11. RunningEvents'
  BY <1>2, <1>6, ComponentsAre DEF IInv, RunningEvents
<1>12. RunningManager'
  BY <1>1, <1>2, <1>4, <1>6, <1>7, <1>8, <1>9, ComponentsAre DEF IInv, RunningManager
<1>13. RunningStats'
  <2>1. \A g : Stat(g)' => Stat(g)
    BY <1>2 DEF Stat
  <2> QED BY <1>2, <1>6, <1>8, <1>9, <2>1, ComponentsAre DEF IInv, RunningStats, Counted
<1>14. RunningTasks'
  BY <1>2, <1>6, <1>7, <1>8, <1>9, ComponentsAre DEF IInv, RunningTasks
<1> QED BY <1>2, <1>6, <1>10, <1>11, <1>12, <1>13, <1>14, StageParts, InvPartsNext

(* Statistics that are not the last ones.                                                        *)
LEMMA StatsCountedInv ==
  ASSUME IInv, TypeOK', Receives(SystemManager, "STATS_UPDATED"), React(SystemManager, <<>>),
         statsGroups' = statsGroups \union {Head(inbox[SystemManager]).group},
         UNCHANGED <<boot, resourceVars, smStatus, systemStatus, celeryStatus, resourcesStatus,
                     smRunCode, smPhase, celeryCheck, runVars, taskVars, boundVars>>
  PROVE  IInv'
<1> DEFINE e == Head(inbox[SystemManager])
<1>1. inbox[SystemManager] # <<>> /\ e.type = "STATS_UPDATED"
  BY DEF Receives
<1>2. /\ SystemManager \in Components /\ e \in Queue[SystemManager] /\ e \in Event
      /\ \A b \in Queue'[SystemManager] : ~Overtakes(SystemManager, e, b)
      /\ Queue[SystemManager] = {e} \union Queue'[SystemManager]
      /\ InOrder' /\ outbox' = outbox
      /\ \A d \in Components : SameSignals(d) /\ Queue'[d] \subseteq Queue[d]
      /\ \A d \in Components : \A t : Has(d, t)' => Has(d, t)
      /\ \A r \in Resources : \A t : Has(r, t)' <=> Has(r, t)
      /\ \A d \in Components : \A T : OnlyOf(d, T) => OnlyOf(d, T)'
      /\ \A r \in Resources : Report(r)' <=> Report(r)
  BY <1>1, ManagerTakes DEF SignalTypes, Commands
<1>3. Has(SystemManager, "STATS_UPDATED")
  BY <1>1, <1>2 DEF Has
<1>g. PICK g \in StatsGroups : e = StatsUpdated(g) /\ e.group = g
  BY <1>1, <1>2 DEF Event, StatsUpdated
<1>s. statsGroups' = statsGroups \union {g}
  BY <1>g
<1> HIDE DEF e
<1>4. /\ Stat(g) /\ ~Stat(g)' /\ \A h : h # g => (Stat(h)' <=> Stat(h))
      /\ g = "execution_history_stats" => ~Report(Agent)'
  <2>1. \A h : StatsUpdated(h) = StatsUpdated(g) <=> h = g
    BY DEF StatsUpdated
  <2>2. StatsUpdated(g).type = "STATS_UPDATED"
    BY DEF StatsUpdated
  <2>3. g = "execution_history_stats" => ~Report(Agent)'
    BY <1>2, <1>g DEF Overtakes, Report, ResourceStatusChanged
  <2>4. StatsUpdated(g) \in Queue[SystemManager] /\ StatsUpdated(g) \notin Queue'[SystemManager]
    BY <1>2, <1>g, <2>2 DEF Overtakes
  <2>5. \A h : h # g => (StatsUpdated(h) \in Queue'[SystemManager] <=> StatsUpdated(h) \in Queue[SystemManager])
    BY <1>2, <1>g, <2>1
  <2> QED BY <2>3, <2>4, <2>5 DEF Stat
<1>5. UNCHANGED baseVars /\ collectorPhase' # "BOOTSTRAP"
  BY <1>2 DEF baseVars, IInv, UpAndRunning
<1>6. Base' /\ Stage' = Stage /\ Stage = "RUNNING"
  BY <1>2, <1>3, <1>5, BaseFrame, RunningOnly
<1>7. (Begun' <=> Begun) /\ (Over' <=> Over) /\ \A h : Counted(h)' <=> Counted(h)
  BY <1>2, <1>4, <1>s DEF Begun, Over, Counted
<1>8. EventsOK' /\ Scheduling'
  BY <1>2, <1>6 DEF IInv, EventsOK, EventOK, Scheduling
<1>9. RunningEvents'
  BY <1>2, <1>6, ComponentsAre DEF IInv, RunningEvents
<1>10. RunningManager'
  BY <1>2, <1>6, <1>7, ComponentsAre DEF IInv, RunningManager
<1>11. RunningStats'
  <2>2. \A h \in statsGroups' : ~Stat(h)'
    BY <1>4, <1>6, <1>s DEF IInv, RunningStats
  <2>3. "execution_history_stats" \in statsGroups' => ~Report(Agent)'
    BY <1>2, <1>4, <1>6, <1>s, ComponentsAre DEF IInv, RunningStats
  <2> QED BY <1>2, <1>6, <1>7, <2>2, <2>3, ComponentsAre DEF IInv, RunningStats
<1>12. RunningTasks'
  BY <1>2, <1>6, <1>7, ComponentsAre DEF IInv, RunningTasks
<1> QED BY <1>2, <1>6, <1>8, <1>9, <1>10, <1>11, <1>12, StageParts, InvPartsNext

(* The last statistics: the run is completed.                                                    *)
LEMMA LastStatsInv ==
  ASSUME IInv, TypeOK', ManagerHandlesStats, StatsCollected(statsGroups'), isCurrentExecutionCompleted
  PROVE  IInv'
<1> DEFINE e == Head(inbox[SystemManager])
           g == e.group
           c == RunCompleted(smRunCode)
<1>1. /\ inbox[SystemManager] # <<>> /\ e.type = "STATS_UPDATED" /\ SystemManager \in Components
      /\ statsGroups' = statsGroups \union {g} /\ statsGroups' = StatsGroups
  BY ComponentsAre DEF ManagerHandlesStats, Receives, StatsCollected, IInv
<1>2. /\ e \in Event /\ e \in Queue[SystemManager]
      /\ Queue[SystemManager] = {e} \union Rest(SystemManager)
      /\ \A b \in Rest(SystemManager) : ~Overtakes(SystemManager, e, b)
  BY <1>1, HeadOf DEF IInv
<1>3. e = StatsUpdated(g) /\ g \in StatsGroups /\ Has(SystemManager, "STATS_UPDATED")
  BY <1>1, <1>2 DEF Event, StatsUpdated, Has
<1>4. /\ Stage = "RUNNING" /\ currentRun # NoRun /\ currentRunStarted
      /\ ~Has(SystemManager, "RUN_COMPLETED") /\ ~Taking
      /\ \A t \in {"consumer", "control"} : scheduler[t] = "idle"
  BY <1>3, RunningOnly
<1>5. smRunCode # NoRun /\ smRunCode = currentRun
  BY <1>4 DEF IInv, RunningManager
<1>6. React(SystemManager, <<c>>) /\ c \in Event /\ c.type = "RUN_COMPLETED"
  <2>1. c \in Event /\ c.type = "RUN_COMPLETED"
    BY CommandEventTypes DEF IInv, TypeOK, ManagerTypeOK, RunCompleted
  <2> QED BY <1>5, <2>1 DEF ManagerHandlesStats
<1> HIDE DEF c
<1>7. \A d \in Components : Adds(d, c) = {c}
  BY <1>6 DEF Adds, Relevant
<1>8. \A h \in StatsGroups : Counted(h)
  BY <1>1, <1>2, <1>3 DEF Counted, Stat
<1>9. /\ Begun /\ generating = "WAIT" /\ ~Has(Generator, "SCHEDULING_COMPLETED")
      /\ ~Has(Agent, "START_RUN") /\ ~Has(Generator, "START_RUN")
      /\ Over /\ outbox[Agent] = <<>> /\ outbox[Generator] = <<>> /\ ~Has(Agent, "EXECUTION_COMPLETED")
      /\ ~Has(Agent, "SCHEDULING_STARTED")
  BY <1>4, <1>8 DEF IInv, RunningStats, StatsGroups, Begun
<1>10. /\ ~Has(Collector, "START_RUN") /\ ~Has(Collector, "SCHEDULING_STARTED")
       /\ ~Report(Generator) /\ ~Report(Collector)
       /\ ~Has(SystemManager, "SCHEDULING_STARTED") /\ ~Has(SystemManager, "EXECUTION_COMPLETED")
       /\ smPhase = "WAIT" /\ rewarded # {}
  BY <1>4, <1>9 DEF IInv, RunningTasks, RunningManager, Over
<1>11. ~Report(Agent)
  <2>1. CASE "execution_history_stats" \in statsGroups
    BY <1>4, <2>1 DEF IInv, RunningStats
  <2>2. CASE "execution_history_stats" \notin statsGroups
    <3>1. g = "execution_history_stats"
      BY <1>1, <2>2 DEF StatsGroups
    <3>2. \A b \in Rest(SystemManager) : ~(b.type = "RESOURCE_STATUS_CHANGED" /\ b.name = Agent)
      BY <1>2, <1>3, <3>1 DEF Overtakes
    <3> QED BY <1>1, <1>2, <3>2 DEF Report, ResourceStatusChanged
  <2> QED BY <2>1, <2>2
<1>12. \A r \in Resources : ~Report(r) /\ ~Has(r, "START_RUN") /\ outbox[r] = <<>>
  BY <1>9, <1>10, <1>11, ComponentsAre DEF IInv, Outboxes
<1>13. \A a \in Queue[SystemManager] : a.type # "RESOURCE_STATUS_CHANGED"
  BY <1>12, ReportsAre
<1>14. \A a \in Rest(SystemManager) : a.type = "SYSTEM_STATUS_CHANGED"
  <2>1. \A a \in Rest(SystemManager) : a.type # "STATS_UPDATED"
    <3> SUFFICES ASSUME NEW a \in Rest(SystemManager), a.type = "STATS_UPDATED" PROVE FALSE
      OBVIOUS
    <3>1. a \in Event /\ a \in Queue[SystemManager]
      BY <1>1, <1>2, QueueTypes DEF IInv
    <3>2. a = StatsUpdated(a.group) /\ a.group \in StatsGroups
      BY <3>1 DEF Event, StatsUpdated
    <3>3. a # e
      BY <1>1, <1>2 DEF Overtakes
    <3>4. a.group \in statsGroups
      BY <1>1, <1>3, <3>2, <3>3
    <3> QED BY <1>4, <3>1, <3>2, <3>4 DEF IInv, RunningStats, Stat
  <2>2. \A a \in Rest(SystemManager) :
          a.type \in {"SYSTEM_STATUS_CHANGED", "RESOURCE_STATUS_CHANGED", "STATS_UPDATED",
                      "SCHEDULING_STARTED", "EXECUTION_COMPLETED"}
    BY <1>2, <1>4 DEF IInv, RunningEvents, OnlyOf
  <2> QED BY <1>2, <1>10, <1>13, <2>1, <2>2 DEF Has
<1>15. \A r \in Resources : Agreed(r) \/ (Broken(r) /\ resourcesStatus[r] = "ERROR")
  <2> SUFFICES ASSUME NEW r \in Resources PROVE Agreed(r) \/ (Broken(r) /\ resourcesStatus[r] = "ERROR")
    OBVIOUS
  <2>1. ~Awaits(r)
    BY <1>4, <1>12 DEF Awaits, CommandOf
  <2>2. ~Reports(r)
    BY <1>12 DEF Reports, Reporting
  <2>3. Broken(r) => resourcesStatus[r] = "ERROR"
    BY <1>12 DEF Broken
  <2> QED BY <2>1, <2>2, <2>3 DEF IInv, Lockstep, Lock
<1>16. \A r \in Resources : NoneOf(r, Commands)
  <2>1. \A r \in Resources : Broken(r) => NoneOf(r, Commands)
    BY <1>4 DEF Broken, NoneOf, Has, Commands
  <2> QED BY <1>15, <2>1 DEF Agreed
<1>17. /\ Queue'[SystemManager] = Rest(SystemManager) \union {c}
       /\ \A r \in Resources : Queue'[r] = Queue[r] \union {c}
       /\ InOrder' /\ outbox' = outbox
  <2>1. outbox[SystemManager] = <<>>
    BY DEF IInv, Outboxes
  <2>2. \A r \in Resources : \A a \in Queue[r] : ~Overtakes(r, a, c)
    BY <1>6, <1>16, ComponentsAre DEF Overtakes, NoneOf, Commands, IInv
  <2>3. \A a \in Rest(SystemManager) : ~Overtakes(SystemManager, a, c)
    BY <1>6, <1>14 DEF Overtakes, StatsUpdated
  <2>4. \A d \in Components : Relevant(d, c) => \A a \in Left(SystemManager, d) : ~Overtakes(d, a, c)
    BY <2>2, <2>3 DEF Left, Components
  <2>5. /\ \A d \in Components : Queue'[d] = Left(SystemManager, d) \union Adds(d, c)
        /\ outbox' = outbox /\ InOrder'
    BY <1>1, <1>6, <2>1, <2>4, ReactOne DEF IInv
  <2> QED BY <1>1, <1>7, <2>5, ComponentsAre DEF Left, IInv
<1>18. UNCHANGED <<boot, resourceVars, smStatus, systemStatus, celeryStatus, resourcesStatus,
                   smRunCode, smPhase, celeryCheck, runVars, taskVars, boundVars>>
  BY DEF ManagerHandlesStats
<1>19. Has(SystemManager, "RUN_COMPLETED")' /\ Stage' = "WAITING"
  BY <1>6, <1>17 DEF Has, Stage
<1>20. Lockstep'
  <2> SUFFICES ASSUME NEW r \in Resources PROVE Lock(r)'
    BY DEF Lockstep
  <2>1. r \in Components
    BY DEF Components
  <2>2. ~Report(r)'
    <3>1. \A z : ResourceStatusChanged(r, z).type = "RESOURCE_STATUS_CHANGED"
      BY DEF ResourceStatusChanged
    <3>2. \A z : ResourceStatusChanged(r, z) # c
      BY <1>6, <3>1
    <3> QED BY <1>2, <1>12, <1>17, <3>2 DEF Report
  <2>3. CASE Agreed(r)
    <3>1. /\ Has(r, "RUN_COMPLETED")' /\ NoneOf(r, Commands \ {"RUN_COMPLETED"})'
          /\ EchoesOnly(r, "RUNNING")'
      BY <1>4, <1>6, <1>17, <2>3 DEF Has, NoneOf, EchoesOnly, Agreed
    <3>2. Awaits(r)'
      BY <1>4, <1>12, <1>17, <1>18, <1>19, <2>2, <2>3, <3>1 DEF Awaits, Agreed, CommandOf, BeforeOf
    <3> QED BY <3>2 DEF Lock
  <2>4. CASE Broken(r) /\ resourcesStatus[r] = "ERROR"
    <3>1. /\ NoneOf(r, {"PREPARE_NEW_RUN", "START_RUN"})' /\ EchoesOnly(r, "ERROR")'
          /\ (Has(r, "RESOURCE_STATUS_CHANGED")' <=> Has(r, "RESOURCE_STATUS_CHANGED"))
      BY <1>6, <1>17, <2>4 DEF Has, NoneOf, EchoesOnly, Broken
    <3>2. Broken(r)'
      BY <1>17, <1>18, <1>19, <2>2, <2>4, <3>1 DEF Broken
    <3> QED BY <3>2 DEF Lock
  <2> QED BY <1>15, <2>3, <2>4
<1>21. \A r \in Resources : resourcesStatus[r] \in {"RUNNING", "ERROR"}
  BY <1>4, <1>15 DEF Agreed
<1>22. StatusKnown'
  <2>1. systemStatus \in {"RUNNING", "ERROR"}
    BY <1>4, <1>21 DEF IInv, StatusKnown, BeforeOf
  <2> QED BY <1>18, <1>19, <1>21, <2>1, ComponentsAre DEF IInv, StatusKnown, BeforeOf
<1>23. OneScheduler' /\ Scheduling' /\ RunsConserved'
  BY <1>4, <1>18 DEF IInv, OneScheduler, Scheduling, RunsConserved
<1>24. Base'
  BY <1>17, <1>18, <1>19, <1>20, <1>22, <1>23
  DEF Base, IInv, UndisturbedRuns, UpAndRunning, Outboxes, RunCodes
<1>25. EventsOK'
  BY <1>2, <1>6, <1>17, <1>18 DEF IInv, EventsOK, EventOK, Components
<1>26. Waiting'
  <2>1. /\ OnlyOf(SystemManager, {"SYSTEM_STATUS_CHANGED", "RESOURCE_STATUS_CHANGED", "RUN_COMPLETED"})'
        /\ OnlyOf(Agent, {"RUN_COMPLETED", "RESOURCE_STATUS_CHANGED", "TRAJECTORY_COMPLETED"})'
        /\ OnlyOf(Collector, {"RUN_COMPLETED", "RESOURCE_STATUS_CHANGED", "SCHEDULING_COMPLETED", "EXECUTION_COMPLETED"})'
        /\ OnlyOf(Generator, {"RUN_COMPLETED", "RESOURCE_STATUS_CHANGED"})'
        /\ Has(Collector, "RUN_COMPLETED")'
    <3>1. OnlyOf(SystemManager, {"SYSTEM_STATUS_CHANGED", "RESOURCE_STATUS_CHANGED", "RUN_COMPLETED"})'
      BY <1>6, <1>14, <1>17 DEF OnlyOf
    <3>2. OnlyOf(Agent, {"RUN_COMPLETED", "RESOURCE_STATUS_CHANGED", "TRAJECTORY_COMPLETED"})'
      BY <1>4, <1>6, <1>9, <1>17, ComponentsAre DEF OnlyOf, Has, IInv, RunningEvents
    <3>3. /\ OnlyOf(Collector, {"RUN_COMPLETED", "RESOURCE_STATUS_CHANGED", "SCHEDULING_COMPLETED", "EXECUTION_COMPLETED"})'
          /\ Has(Collector, "RUN_COMPLETED")'
      BY <1>4, <1>6, <1>10, <1>17, ComponentsAre DEF OnlyOf, Has, IInv, RunningEvents
    <3>4. OnlyOf(Generator, {"RUN_COMPLETED", "RESOURCE_STATUS_CHANGED"})'
      BY <1>4, <1>6, <1>9, <1>17, ComponentsAre DEF OnlyOf, Has, IInv, RunningEvents
    <3> QED BY <3>1, <3>2, <3>3, <3>4
  <2>2. rewarded = 1..sent /\ ~notifying /\ rewarded = 1..NumTasks
    <3>1. rewarded = 1..NumTasks /\ ~notifying /\ rewarded # {}
      BY <1>9 DEF Over
    <3>2. sent <= NumTasks /\ rewarded \subseteq 1..sent /\ sent \in Nat /\ NumTasks \in Int
      BY <1>4, LifecycleAssumption DEF IInv, RunningTasks, TypeOK, TaskTypeOK, NumTasks
    <3>3. NumTasks \in 1..NumTasks
      BY <3>1, <3>2
    <3>4. NumTasks \in 1..sent
      BY <3>1, <3>2, <3>3
    <3>5. sent = NumTasks
      BY <3>2, <3>4
    <3> QED BY <3>1, <3>5
  <2>3. /\ generating = "WAIT" /\ outbox[Agent] = <<>> /\ outbox[Generator] = <<>> /\ smPhase = "WAIT"
    BY <1>9, <1>10
  <2>4. (1..NumTasks)' = 1..NumTasks /\ rewarded' = rewarded
    BY <1>18 DEF NumTasks
  <2> QED BY <1>4, <1>17, <1>18, <1>21, <2>1, <2>2, <2>3, <2>4 DEF Waiting
<1> QED BY <1>17, <1>19, <1>23, <1>24, <1>25, <1>26, StageParts, InvPartsNext

LEMMA ManagerHandlesStatsInv ==
  ASSUME IInv, TypeOK', ManagerHandlesStats PROVE IInv'
<1>1. CASE StatsCollected(statsGroups') /\ isCurrentExecutionCompleted
  BY <1>1, LastStatsInv
<1>2. CASE ~StatsCollected(statsGroups') \/ ~isCurrentExecutionCompleted
  <2>1. React(SystemManager, <<>>)
    BY <1>2 DEF ManagerHandlesStats
  <2> QED BY <2>1, StatsCountedInv DEF ManagerHandlesStats
<1> QED BY <1>1, <1>2

(* What the manager makes of a report: its resource agrees with it now, or is known to have      *)
(* failed.                                                                                       *)
LEMMA ReportedStatus ==
  ASSUME IInv, NEW r \in Resources, NEW s \in {"WAITING", "READY", "RUNNING", "ERROR"},
         ResourceStatusChanged(r, s) \in Queue[SystemManager]
  PROVE  /\ resourcesStatus[r] = BeforeOf(Stage) /\ s \in {Stage, "ERROR"}
         /\ (Reports(r) /\ s = Stage) \/ (Broken(r) /\ s = "ERROR" /\ Stage # "WAITING")
         /\ systemStatus # Stage
         /\ SystemStatusFrom([resourcesStatus EXCEPT ![r] = s], systemStatus)
              = IF \E q \in Resources : [resourcesStatus EXCEPT ![r] = s][q] = "ERROR" THEN "ERROR"
                ELSE IF \A q \in Resources : [resourcesStatus EXCEPT ![r] = s][q] = Stage THEN Stage
                ELSE systemStatus
<1>1. Report(r) /\ s \in Status
  BY DEF Report
<1>2. Lock(r) /\ ~Awaits(r) /\ ~Agreed(r)
  BY <1>1 DEF IInv, Lockstep, Awaits, Agreed
<1>3. /\ resourcesStatus[r] = BeforeOf(Stage)
      /\ (Reports(r) /\ s = Stage) \/ (Broken(r) /\ s = "ERROR" /\ Stage # "WAITING")
  BY <1>1, <1>2 DEF Lock, Reports, Broken, ReportsOnly
<1>4. systemStatus # Stage
  BY <1>3, StageIs DEF IInv, StatusKnown, BeforeOf
<1>5. \A q \in Resources : resourcesStatus[q] \in {BeforeOf(Stage), Stage, "ERROR"}
  BY DEF IInv, Lockstep, Lock, Awaits, Reports, Agreed, Broken
<1> DEFINE rs == [resourcesStatus EXCEPT ![r] = s]
<1>6. \A q \in Resources : rs[q] = IF q = r THEN s ELSE resourcesStatus[q]
  BY DEF IInv, TypeOK, ManagerTypeOK
<1> HIDE DEF rs
<1>7. rs[r] = s /\ \A q \in Resources : rs[q] \in {BeforeOf(Stage), Stage, "ERROR"}
  BY <1>3, <1>5, <1>6
<1>8. SystemStatusFrom(rs, systemStatus)
        = IF \E q \in Resources : rs[q] = "ERROR" THEN "ERROR"
          ELSE IF \A q \in Resources : rs[q] = Stage THEN Stage
          ELSE systemStatus
  <2>1. CASE \E q \in Resources : rs[q] = "ERROR"
    BY <2>1 DEF SystemStatusFrom
  <2>2. CASE ~\E q \in Resources : rs[q] = "ERROR"
    <3>1. s = Stage /\ \A q \in Resources : rs[q] \in {BeforeOf(Stage), Stage}
      BY <1>3, <1>7, <2>2
    <3>2. Stage # BeforeOf(Stage) /\ Stage \in {"WAITING", "READY", "RUNNING"}
          /\ BeforeOf(Stage) \in {"WAITING", "READY", "RUNNING"}
      BY StageIs DEF BeforeOf
    <3> QED BY <1>7, <2>2, <3>1, <3>2 DEF SystemStatusFrom
  <2> QED BY <2>1, <2>2
<1> QED BY <1>3, <1>4, <1>8 DEF rs

LEMMA ManagerHandlesResourceStatusInv ==
  ASSUME IInv, TypeOK', ManagerHandlesResourceStatus PROVE IInv'
<1> DEFINE e == Head(inbox[SystemManager])
<1>1. inbox[SystemManager] # <<>> /\ e.type = "RESOURCE_STATUS_CHANGED" /\ SystemManager \in Components
  BY ComponentsAre DEF ManagerHandlesResourceStatus, Receives, IInv
<1>2. /\ e \in Event /\ e \in Queue[SystemManager]
      /\ Queue[SystemManager] = {e} \union Rest(SystemManager)
      /\ \A b \in Rest(SystemManager) : ~Overtakes(SystemManager, e, b)
  BY <1>1, HeadOf DEF IInv
<1>3. PICK r \in Resources, s \in {"WAITING", "READY", "RUNNING", "ERROR"} :
        e = ResourceStatusChanged(r, s) /\ e.name = r /\ e.status = s
  BY <1>1, <1>2, ReportsAre
<1>4. /\ resourcesStatus[r] = BeforeOf(Stage) /\ s \in {Stage, "ERROR"}
      /\ (Reports(r) /\ s = Stage) \/ (Broken(r) /\ s = "ERROR" /\ Stage # "WAITING")
      /\ systemStatus # Stage
      /\ SystemStatusFrom([resourcesStatus EXCEPT ![r] = s], systemStatus)
           = IF \E q \in Resources : [resourcesStatus EXCEPT ![r] = s][q] = "ERROR" THEN "ERROR"
             ELSE IF \A q \in Resources : [resourcesStatus EXCEPT ![r] = s][q] = Stage THEN Stage
             ELSE systemStatus
  BY <1>2, <1>3, ReportedStatus
<1>5. resourcesStatus[r] # s
  BY <1>4, StageIs DEF BeforeOf
<1>6. /\ resourcesStatus' = [resourcesStatus EXCEPT ![r] = s]
      /\ celeryStatus' = celeryStatus
      /\ systemStatus' = SystemStatusFrom(resourcesStatus', systemStatus)
      /\ React(SystemManager, Answer(e) \o StatusEvents(systemStatus'))
  <2>1. boot[SystemManager] = "up" /\ celeryStatus = "RUNNING" /\ r # Celery
    BY <1>1, ComponentsAre DEF IInv, UpAndRunning
  <2> QED BY <1>3, <1>5, <2>1 DEF ManagerHandlesResourceStatus, CheckSystemStatus
<1>7. Answer(e) = <<>>
  BY <1>3 DEF Answer
<1>8. UNCHANGED <<boot, resourceVars, smStatus, statsGroups, smRunCode, smPhase, celeryCheck,
                  runVars, taskVars, boundVars>>
  BY DEF ManagerHandlesResourceStatus
<1> HIDE DEF e
<1>9. \A q \in Resources : resourcesStatus'[q] = IF q = r THEN s ELSE resourcesStatus[q]
  BY <1>6 DEF IInv, TypeOK, ManagerTypeOK
<1>10. systemStatus' = IF \E q \in Resources : resourcesStatus'[q] = "ERROR" THEN "ERROR"
                       ELSE IF \A q \in Resources : resourcesStatus'[q] = Stage THEN Stage
                       ELSE systemStatus
  BY <1>4, <1>6
<1>11. PICK m \in SUBSET [type : {"SYSTEM_STATUS_CHANGED"}, status : {"WAITING", "READY"}] :
         /\ Queue'[SystemManager] = Rest(SystemManager) \union m
         /\ \A q \in Resources : Queue'[q] = Queue[q]
         /\ InOrder' /\ outbox' = outbox
  <2> DEFINE told == [type : {"SYSTEM_STATUS_CHANGED"}, status : {"WAITING", "READY"}]
             n == SystemStatusChanged(systemStatus')
  <2>1. CASE systemStatus' = systemStatus
    <3>1. React(SystemManager, <<>>)
      BY <1>6, <1>7, <2>1 DEF StatusEvents
    <3>2. (\A d \in Components : Queue'[d] = Left(SystemManager, d)) /\ InOrder' /\ outbox' = outbox
      BY <1>1, <3>1, TakeEffect DEF IInv
    <3>3. /\ Queue'[SystemManager] = Rest(SystemManager) \union {}
          /\ \A q \in Resources : Queue'[q] = Queue[q]
      BY <1>1, <3>2, ComponentsAre DEF Left, IInv
    <3> QED BY <3>2, <3>3
  <2>2. CASE systemStatus' # systemStatus
    <3>1. n \in Event /\ n.type = "SYSTEM_STATUS_CHANGED"
      BY StatusEventTypes DEF TypeOK, ManagerTypeOK, SystemStatusChanged
    <3>2. \A q \in Resources : Adds(q, n) = {}
      BY <3>1, ComponentsAre DEF Adds, Relevant, IInv
    <3>3. Adds(SystemManager, n) \in SUBSET told
      BY DEF Adds, Relevant, SystemStatusChanged
    <3>4. \A d \in Components : \A a : ~Overtakes(d, a, n)
      BY <3>1 DEF Overtakes, StatsUpdated, Commands
    <3>5. React(SystemManager, <<n>>) /\ outbox[SystemManager] = <<>>
      BY <1>6, <1>7, <2>2, <3>1 DEF StatusEvents, IInv, Outboxes
    <3> HIDE DEF n, told
    <3>6. /\ \A d \in Components : Queue'[d] = Left(SystemManager, d) \union Adds(d, n)
          /\ outbox' = outbox /\ InOrder'
      BY <1>1, <3>1, <3>4, <3>5, ReactOne DEF IInv
    <3>7. /\ Queue'[SystemManager] = Rest(SystemManager) \union Adds(SystemManager, n)
          /\ \A q \in Resources : Queue'[q] = Queue[q]
      BY <1>1, <3>2, <3>6, ComponentsAre DEF Left, IInv
    <3> QED BY <3>3, <3>6, <3>7 DEF told
  <2> QED BY <2>1, <2>2
<1>12. \A x \in m : x.type = "SYSTEM_STATUS_CHANGED" /\ x.status \in {"WAITING", "READY"}
  OBVIOUS
<1>13. /\ \A q \in Resources : SameSignals(q)
       /\ \A q \in Resources : \A t : Has(q, t)' <=> Has(q, t)
       /\ \A t : t \notin {"RESOURCE_STATUS_CHANGED", "SYSTEM_STATUS_CHANGED"} =>
            (Has(SystemManager, t)' <=> Has(SystemManager, t))
       /\ \A q \in Resources : \A T : OnlyOf(q, T) => OnlyOf(q, T)'
       /\ \A T : "SYSTEM_STATUS_CHANGED" \in T /\ OnlyOf(SystemManager, T) => OnlyOf(SystemManager, T)'
       /\ \A g : Stat(g)' <=> Stat(g)
  BY <1>1, <1>2, <1>3, <1>11, <1>12 DEF SameSignals, Has, OnlyOf, Stat, StatsUpdated, ResourceStatusChanged
<1>14. /\ \A q \in Resources \ {r} : SameReports(q)
       /\ ~Report(r)' /\ \A q \in Resources : Report(q)' => Report(q)
  <2>1. \A q, z : ResourceStatusChanged(q, z) \in m => FALSE
    BY <1>12 DEF ResourceStatusChanged
  <2>2. \A q, z : ResourceStatusChanged(q, z) \in Queue'[SystemManager]
                     <=> ResourceStatusChanged(q, z) \in Rest(SystemManager)
    BY <1>11, <2>1
  <2>3. \A z : ResourceStatusChanged(r, z) \notin Rest(SystemManager)
    BY <1>2, <1>3 DEF Overtakes, ResourceStatusChanged
  <2>4. \A q, z : q # r => ResourceStatusChanged(q, z) # e
    BY <1>3 DEF ResourceStatusChanged
  <2> QED BY <1>2, <2>2, <2>3, <2>4 DEF SameReports, Report
<1>15. Stage' = Stage
  BY <1>8, <1>13, StageFrame
<1>16. Lockstep'
  <2>1. Lock(r)'
    <3>1. /\ NoneOf(r, Commands) => NoneOf(r, Commands)'
          /\ NoneOf(r, {"PREPARE_NEW_RUN", "START_RUN"}) => NoneOf(r, {"PREPARE_NEW_RUN", "START_RUN"})'
          /\ \A z : EchoesOnly(r, z)' <=> EchoesOnly(r, z)
      BY <1>11 DEF NoneOf, EchoesOnly
    <3>2. Reporting(r)' <=> Reporting(r)
      BY <1>11 DEF Reporting
    <3>3. Report(r)
      BY <1>2, <1>3 DEF Report, Status
    <3>4. CASE Reports(r) /\ s = Stage
      BY <1>8, <1>9, <1>14, <1>15, <3>1, <3>2, <3>3, <3>4 DEF Reports, Agreed, Lock
    <3>5. CASE Broken(r) /\ s = "ERROR"
      BY <1>8, <1>9, <1>11, <1>13, <1>14, <1>15, <3>1, <3>5 DEF Broken, Lock
    <3> QED BY <1>4, <3>4, <3>5
  <2>2. \A q \in Resources \ {r} :
           /\ SameSignals(q) /\ SameReports(q) /\ status'[q] = status[q]
           /\ resourcesStatus'[q] = resourcesStatus[q] /\ outbox'[q] = outbox[q]
    BY <1>8, <1>9, <1>11, <1>13, <1>14
  <2> QED BY <1>8, <1>15, <2>1, <2>2, OtherLocks
<1>17. StatusKnown'
  <2>1. Stage # "ERROR" /\ BeforeOf(Stage) # Stage /\ BeforeOf(Stage) # "ERROR"
    BY StageIs DEF BeforeOf
  <2>2. systemStatus' # "ERROR" => systemStatus # "ERROR"
    BY <1>4, <1>9, <1>10, <2>1 DEF IInv, StatusKnown
  <2>3. systemStatus \in {BeforeOf(Stage), "ERROR"}
    BY <1>4 DEF IInv, StatusKnown
  <2>4. systemStatus' \in {BeforeOf(Stage), Stage, "ERROR"}
    BY <1>10, <2>3
  <2>5. systemStatus' = Stage => \A q \in Resources : resourcesStatus'[q] = Stage
    BY <1>4, <1>10, <2>1
  <2>6. systemStatus' = "ERROR" <=> \E q \in Resources : resourcesStatus'[q] = "ERROR"
    <3>1. CASE systemStatus' = systemStatus /\ ~\E q \in Resources : resourcesStatus'[q] = "ERROR"
      <4>1. ~\E q \in Resources : resourcesStatus[q] = "ERROR"
        BY <1>4, <1>9, <2>1, <3>1
      <4> QED BY <3>1, <4>1 DEF IInv, StatusKnown
    <3> QED BY <1>10, <2>1, <3>1
  <2>7. (\A q \in Resources : resourcesStatus'[q] = Stage) => systemStatus' = Stage
    BY <1>10, <2>1
  <2> QED BY <1>15, <2>4, <2>5, <2>6, <2>7 DEF StatusKnown
<1>18. \A t \in {"consumer", "control"} : scheduler[t] = "idle"
  BY <1>4 DEF IInv, Scheduling
<1>19. OneScheduler' /\ Scheduling' /\ RunsConserved'
  BY <1>8, <1>18 DEF IInv, OneScheduler, Scheduling, RunsConserved
<1>20. Base'
  BY <1>6, <1>8, <1>11, <1>15, <1>16, <1>17, <1>19
  DEF Base, IInv, UndisturbedRuns, UpAndRunning, Outboxes, RunCodes
<1>21. EventsOK'
  BY <1>2, <1>8, <1>11, <1>12 DEF IInv, EventsOK, EventOK, Components
<1>22. Waiting'
  <2>1. Has(SystemManager, "RUN_COMPLETED")' => s # "WAITING"
    BY <1>1, <1>2, <1>3, <1>11, <1>12 DEF Has, Overtakes
  <2> QED BY <1>8, <1>9, <1>11, <1>13, <1>15, <2>1, ComponentsAre DEF IInv, Waiting
<1>23. Preparing'
  <2>1. Has(SystemManager, "PREPARE_NEW_RUN")' => s # "READY"
    BY <1>1, <1>2, <1>3, <1>11, <1>12 DEF Has, Overtakes
  <2> QED BY <1>8, <1>9, <1>11, <1>13, <1>15, <2>1, ComponentsAre DEF IInv, Preparing
<1>24. (Begun' <=> Begun) /\ (Over' <=> Over) /\ \A g : Counted(g)' <=> Counted(g)
  BY <1>8, <1>11, <1>13 DEF Begun, Over, Counted
<1>25. RunningEvents'
  BY <1>13, <1>15, ComponentsAre DEF IInv, RunningEvents
<1>26. RunningManager' /\ RunningStats'
  <2>1. RunningManager'
    BY <1>8, <1>13, <1>14, <1>15, <1>24, ComponentsAre DEF IInv, RunningManager
  <2>2. RunningStats'
    BY <1>8, <1>11, <1>13, <1>14, <1>15, <1>24, ComponentsAre DEF IInv, RunningStats
  <2> QED BY <2>1, <2>2
<1>27. RunningTasks'
  BY <1>8, <1>11, <1>13, <1>15, <1>24, ComponentsAre DEF IInv, RunningTasks
<1> QED BY <1>11, <1>19, <1>20, <1>21, <1>22, <1>23, <1>25, <1>26, <1>27, InvPartsNext DEF Phases

-----------------------------------------------------------------------------
(* The resources.                                                                                *)

(* The echo of a status: the resource has it already, or fails now.                              *)
LEMMA HandleResourceStatusInv ==
  ASSUME IInv, TypeOK', NEW r \in Resources, HandleResourceStatus(r) PROVE IInv'
<1> DEFINE e == Head(inbox[r])
<1>1. /\ r \in Components /\ r # SystemManager /\ inbox[r] # <<>> /\ e.type = "RESOURCE_STATUS_CHANGED"
      /\ SystemManager \in Components
  BY ComponentsAre DEF HandleResourceStatus, Receives, IInv
<1>2. e \in Queue[r] /\ Queue[r] = {e} \union Rest(r)
  BY <1>1, HeadOf DEF IInv
<1>3. e.name = r
  BY <1>1, <1>2 DEF IInv, EventsOK, EventOK
<1>4. React(r, <<>>) /\ status' = [status EXCEPT ![r] = e.status] /\ UNCHANGED initialized
  BY <1>3 DEF HandleResourceStatus
<1>5. (\A d \in Components : Queue'[d] = Left(r, d)) /\ InOrder' /\ outbox' = outbox
  BY <1>1, <1>4, TakeEffect DEF IInv
<1>6. Queue'[r] = Rest(r) /\ \A d \in Components : d # r => Queue'[d] = Queue[d]
  BY <1>1, <1>5 DEF Left
<1>7. UNCHANGED <<boot, runCode, agentVars, collectorVars, generatorVars, managerVars, runVars,
                  taskVars, boundVars>>
  BY DEF HandleResourceStatus
<1>8. \A q \in Resources : status'[q] = IF q = r THEN e.status ELSE status[q]
  BY <1>4 DEF IInv, TypeOK, ResourceTypeOK
<1>9. /\ \A d \in Components : Queue'[d] \subseteq Queue[d]
      /\ \A d \in Components : \A t : t # "RESOURCE_STATUS_CHANGED" => (Has(d, t)' <=> Has(d, t))
      /\ \A q \in Resources : SameReports(q) /\ (q # r => SameSignals(q))
  BY <1>1, <1>2, <1>6 DEF Has, SameReports, SameSignals, Components
<1>10. Stage' = Stage
  BY <1>1, <1>7, <1>9, StageFrame
<1>11. \/ ~Broken(r) /\ e.status = status[r]
       \/ Broken(r) /\ e.status = "ERROR" /\ status[r] \in {"READY", "ERROR"}
  <2>1. Lock(r)
    BY DEF IInv, Lockstep
  <2>2. CASE Broken(r)
    BY <1>1, <1>2, <2>2 DEF Broken, EchoesOnly
  <2>3. CASE ~Broken(r)
    BY <1>1, <1>2, <2>1, <2>3 DEF Lock, Awaits, Reports, Agreed, EchoesOnly
  <2> QED BY <2>2, <2>3
<1> HIDE DEF e
<1>12. Lockstep'
  <2>1. Lock(r)'
    <3>1. /\ \A z : EchoesOnly(r, z) => EchoesOnly(r, z)'
          /\ \A T : NoneOf(r, T) => NoneOf(r, T)'
          /\ \A t \in Commands : Has(r, t)' <=> Has(r, t)
      BY <1>1, <1>9 DEF EchoesOnly, NoneOf, Commands
    <3>2. /\ Report(r)' <=> Report(r)
          /\ Reporting(r)' <=> Reporting(r)
          /\ \A z : ReportsOnly(r, z)' <=> ReportsOnly(r, z)
      BY <1>1, <1>5, <1>6 DEF Report, Reporting, ReportsOnly
    <3>3. CommandOf(Stage) \in Commands /\ "RUN_COMPLETED" \in Commands
      BY DEF CommandOf, Commands
    <3>4. resourcesStatus' = resourcesStatus /\ failures' = failures /\ outbox' = outbox
      BY <1>5, <1>7
    <3>5. CASE Broken(r)
      <4>1. status'[r] = "ERROR"
        BY <1>8, <1>11, <3>5
      <4>2. NoneOf(r, {"PREPARE_NEW_RUN", "START_RUN"})' /\ EchoesOnly(r, "ERROR")'
            /\ (Has(r, "RUN_COMPLETED")' => Stage' = "WAITING")
        BY <1>10, <3>1, <3>3, <3>5 DEF Broken
      <4> QED BY <1>10, <3>2, <3>4, <3>5, <4>1, <4>2 DEF Broken, Lock
    <3>6. CASE Awaits(r) /\ ~Broken(r)
      BY <1>8, <1>10, <1>11, <3>1, <3>2, <3>3, <3>4, <3>6 DEF Awaits, Lock
    <3>7. CASE Reports(r) /\ ~Broken(r)
      BY <1>8, <1>10, <1>11, <3>1, <3>2, <3>3, <3>4, <3>7 DEF Reports, Lock
    <3>8. CASE Agreed(r) /\ ~Broken(r)
      BY <1>8, <1>10, <1>11, <3>1, <3>2, <3>3, <3>4, <3>8 DEF Agreed, Lock
    <3> QED BY <3>5, <3>6, <3>7, <3>8 DEF IInv, Lockstep, Lock
  <2>2. \A q \in Resources \ {r} :
           /\ SameSignals(q) /\ SameReports(q) /\ status'[q] = status[q]
           /\ resourcesStatus'[q] = resourcesStatus[q] /\ outbox'[q] = outbox[q]
    BY <1>5, <1>7, <1>8, <1>9
  <2> QED BY <1>7, <1>10, <2>1, <2>2, OtherLocks
<1>13. \A q \in Resources : (status'[q] = "RUNNING" <=> status[q] = "RUNNING")
                            /\ (status'[q] = "READY" => status[q] = "READY")
  BY <1>8, <1>11
<1>14. Base'
  <2>1. UndisturbedRuns' /\ UpAndRunning' /\ Outboxes' /\ StatusKnown' /\ OneScheduler' /\ RunsConserved'
    BY <1>4, <1>5, <1>7, <1>10
    DEF IInv, UndisturbedRuns, UpAndRunning, Outboxes, StatusKnown, OneScheduler, RunsConserved
  <2>2. RunCodes'
    BY <1>7, <1>10, <1>13 DEF IInv, RunCodes
  <2> QED BY <1>12, <2>1, <2>2 DEF Base
<1>15. Phases'
  <2>1. UNCHANGED phaseVars /\ UNCHANGED taskToExecute
    BY <1>5, <1>7 DEF phaseVars
  <2>2. /\ \A d \in Components : \A t \in Commands : Has(d, t)' <=> Has(d, t)
        /\ Has(Collector, "SCHEDULING_STARTED")' <=> Has(Collector, "SCHEDULING_STARTED")
    BY <1>9, ComponentsAre DEF Commands, IInv
  <2> QED BY <1>9, <1>10, <1>13, <2>1, <2>2, PhasesShrink
<1> QED BY <1>5, <1>14, <1>15, InvPartsNext

(* r answers the command it awaits with the report of s.                                         *)
LEMMA CommandAnswered ==
  ASSUME IInv, TypeOK', NEW r \in Resources, Awaits(r), inbox[r] # <<>>,
         Head(inbox[r]).type = CommandOf(Stage), NEW s \in Status,
         React(r, <<ResourceStatusChanged(r, s)>>)
  PROVE  /\ Queue'[SystemManager] = Queue[SystemManager] \union {ResourceStatusChanged(r, s)}
         /\ Queue'[r] = Rest(r) \union {ResourceStatusChanged(r, s)}
         /\ Queue[r] = {Head(inbox[r])} \union Rest(r)
         /\ \A d \in Components : d # r /\ d # SystemManager => Queue'[d] = Queue[d]
         /\ InOrder' /\ outbox' = outbox
         /\ \A b \in Rest(r) : ~Overtakes(r, Head(inbox[r]), b)
         /\ \A b \in Rest(r) : b.type \notin SignalTypes
         /\ \A q \in Resources : q # r => SameSignals(q) /\ SameReports(q)
         /\ NoneOf(r, Commands)' /\ EchoesOnly(r, s)' /\ Report(r)' /\ ReportsOnly(r, s)' /\ ~Reporting(r)'
         /\ \A t : t # "RESOURCE_STATUS_CHANGED" => (Has(SystemManager, t)' <=> Has(SystemManager, t))
         /\ \A d \in Components : d # r /\ d # SystemManager => \A t : Has(d, t)' <=> Has(d, t)
         /\ \A t : t \notin {"RESOURCE_STATUS_CHANGED", CommandOf(Stage)} => (Has(r, t)' <=> Has(r, t))
         /\ \A g : Stat(g)' <=> Stat(g)
         /\ \A q \in Resources : q # r => (Report(q)' <=> Report(q))
         /\ \A d \in Components : \A T : "RESOURCE_STATUS_CHANGED" \in T /\ OnlyOf(d, T) => OnlyOf(d, T)'
<1> DEFINE c == Head(inbox[r])
           n == ResourceStatusChanged(r, s)
<1>1. r \in Components /\ r # SystemManager /\ SystemManager \in Components
  BY ComponentsAre DEF IInv
<1>2. /\ c \in Queue[r] /\ Queue[r] = {c} \union Rest(r)
      /\ \A b \in Rest(r) : ~Overtakes(r, c, b)
  BY <1>1, HeadOf DEF IInv
<1>3. c.type \in Commands
  BY DEF CommandOf, Commands
<1>4. \A b \in Rest(r) : b.type \notin SignalTypes
  BY <1>1, <1>2, <1>3 DEF Overtakes, SignalTypes
<1>5. n \in Event /\ n.type = "RESOURCE_STATUS_CHANGED" /\ n.name = r /\ n.status = s
  BY StatusEventTypes DEF ResourceStatusChanged, Components
<1>6. Adds(r, n) = {n} /\ Adds(SystemManager, n) = {n}
      /\ \A d \in Components : d # r /\ d # SystemManager => Adds(d, n) = {}
  BY <1>1, <1>5 DEF Adds, Relevant
<1>7. ~Report(r) /\ outbox[r] = <<>>
  BY DEF Awaits
<1>8. \A z : ResourceStatusChanged(r, z) \in Queue[SystemManager] => FALSE
  <2>1. \A a \in Queue[SystemManager] : a.type = "RESOURCE_STATUS_CHANGED" => a.name # r
    BY <1>7, ReportsAre
  <2> QED BY <2>1 DEF ResourceStatusChanged
<1>9. \A a \in Queue[SystemManager] : ~Overtakes(SystemManager, a, n)
  <2>1. \A a \in Queue[SystemManager] : a.type = "RESOURCE_STATUS_CHANGED" => a.name # r
    BY <1>7, ReportsAre
  <2>2. r = Agent => ~Stat("execution_history_stats")
    <3> SUFFICES ASSUME r = Agent, Stat("execution_history_stats") PROVE FALSE
      OBVIOUS
    <3>1. Has(SystemManager, "STATS_UPDATED")
      BY DEF Stat, Has, StatsUpdated
    <3>2. Stage = "RUNNING"
      BY <3>1, RunningOnly
    <3>3. ~Has(Agent, "START_RUN")
      BY <3>2 DEF IInv, RunningStats, Counted
    <3> QED BY <1>2, <3>2, <3>3 DEF Has, CommandOf
  <2>3. r = Generator => ~Has(SystemManager, "SCHEDULING_STARTED")
    <3> SUFFICES ASSUME r = Generator, Has(SystemManager, "SCHEDULING_STARTED") PROVE FALSE
      OBVIOUS
    <3>1. Stage = "RUNNING"
      BY RunningOnly
    <3>2. Begun
      BY <1>1, <3>1 DEF IInv, RunningTasks
    <3> QED BY <3>1, <3>2 DEF Begun, Awaits, BeforeOf
  <2>4. r = Collector => ~Has(SystemManager, "EXECUTION_COMPLETED")
    <3> SUFFICES ASSUME r = Collector, Has(SystemManager, "EXECUTION_COMPLETED") PROVE FALSE
      OBVIOUS
    <3>1. Stage = "RUNNING"
      BY RunningOnly
    <3>2. Over
      BY <1>1, <3>1 DEF IInv, RunningTasks
    <3>3. ~Has(Collector, "START_RUN")
      BY <3>1, <3>2 DEF IInv, RunningTasks, Over
    <3> QED BY <1>2, <3>1, <3>3 DEF Has, CommandOf
  <2> QED BY <1>5, <2>1, <2>2, <2>3, <2>4 DEF Overtakes, Stat, Has
<1> HIDE DEF n
<1>10. \A a \in Rest(r) : ~Overtakes(r, a, n)
  BY <1>1, <1>4, <1>5 DEF Overtakes, SignalTypes, Commands
<1>11. \A d \in Components : Relevant(d, n) => \A a \in Left(r, d) : ~Overtakes(d, a, n)
  BY <1>1, <1>6, <1>9, <1>10 DEF Left, Adds
<1>12. /\ \A d \in Components : Queue'[d] = Left(r, d) \union Adds(d, n)
       /\ outbox' = outbox /\ InOrder'
  BY <1>1, <1>5, <1>7, <1>11, ReactOne DEF IInv, n
<1>13. /\ Queue'[SystemManager] = Queue[SystemManager] \union {n}
       /\ Queue'[r] = Rest(r) \union {n}
       /\ \A d \in Components : d # r /\ d # SystemManager => Queue'[d] = Queue[d]
  BY <1>1, <1>6, <1>12 DEF Left
<1>14. \A q \in Resources : q # r => SameSignals(q) /\ SameReports(q) /\ (Report(q)' <=> Report(q))
  <2>1. \A q, z : q # r => ResourceStatusChanged(q, z) # n
    BY <1>5 DEF ResourceStatusChanged
  <2>2. \A q, z : q # r => (ResourceStatusChanged(q, z) \in Queue'[SystemManager]
                              <=> ResourceStatusChanged(q, z) \in Queue[SystemManager])
    BY <1>13, <2>1
  <2>3. \A q \in Resources : q # r => SameReports(q) /\ (Report(q)' <=> Report(q))
    BY <2>2 DEF SameReports, Report
  <2>4. \A q \in Resources : q \in Components /\ q # SystemManager
    BY ComponentsAre DEF IInv
  <2>5. \A q \in Resources : q # r => SameSignals(q)
    BY <1>13, <2>4 DEF SameSignals
  <2> QED BY <2>3, <2>5
<1>15. /\ NoneOf(r, Commands)' /\ EchoesOnly(r, s)' /\ Report(r)' /\ ReportsOnly(r, s)' /\ ~Reporting(r)'
  <2>1. NoneOf(r, Commands)' /\ EchoesOnly(r, s)'
    BY <1>1, <1>4, <1>5, <1>13 DEF NoneOf, EchoesOnly, SignalTypes, Commands
  <2>2. Report(r)'
    BY <1>13 DEF Report, n
  <2>3. ReportsOnly(r, s)'
    <3>1. \A z : ResourceStatusChanged(r, z) = n => z = s
      BY <1>5 DEF ResourceStatusChanged
    <3> QED BY <1>8, <1>13, <3>1 DEF ReportsOnly
  <2> QED BY <1>7, <1>12, <2>1, <2>2, <2>3 DEF Reporting
<1>16. /\ \A t : t # "RESOURCE_STATUS_CHANGED" => (Has(SystemManager, t)' <=> Has(SystemManager, t))
       /\ \A d \in Components : d # r /\ d # SystemManager => \A t : Has(d, t)' <=> Has(d, t)
       /\ \A t : t \notin {"RESOURCE_STATUS_CHANGED", CommandOf(Stage)} => (Has(r, t)' <=> Has(r, t))
       /\ \A g : Stat(g)' <=> Stat(g)
       /\ \A d \in Components : \A T : "RESOURCE_STATUS_CHANGED" \in T /\ OnlyOf(d, T) => OnlyOf(d, T)'
  BY <1>1, <1>2, <1>5, <1>13 DEF Has, Stat, StatsUpdated, OnlyOf, Components
<1> QED BY <1>2, <1>4, <1>12, <1>13, <1>14, <1>15, <1>16 DEF n

(* The lock after the answer.                                                                    *)
LEMMA AnsweredBase ==
  ASSUME IInv, TypeOK', NEW r \in Resources, Awaits(r), inbox[r] # <<>>,
         Head(inbox[r]).type = CommandOf(Stage), NEW s \in Status,
         React(r, <<ResourceStatusChanged(r, s)>>),
         \/ s = Stage /\ status' = [status EXCEPT ![r] = s]
         \/ /\ s = "ERROR" /\ Stage # "WAITING" /\ failures' > 0
            /\ status' = [status EXCEPT ![r] = "ERROR"] \/ (UNCHANGED status /\ status[r] = "READY"),
         failures > 0 => failures' > 0,
         UNCHANGED <<boot, initialized, managerVars, runVars, posts, late, collectorPhase>>,
         \A q \in Resources : runCode'[q] = IF q = r /\ Stage = "READY" THEN currentRun ELSE runCode[q]
  PROVE  Base' /\ Stage' = Stage /\ \A q \in Resources : q # r => status'[q] = status[q]
<1>1. /\ Queue'[r] = Rest(r) \union {ResourceStatusChanged(r, s)}
      /\ InOrder' /\ outbox' = outbox
      /\ \A q \in Resources : q # r => SameSignals(q) /\ SameReports(q)
      /\ NoneOf(r, Commands)' /\ EchoesOnly(r, s)' /\ Report(r)' /\ ReportsOnly(r, s)' /\ ~Reporting(r)'
      /\ \A t : t # "RESOURCE_STATUS_CHANGED" => (Has(SystemManager, t)' <=> Has(SystemManager, t))
  BY CommandAnswered
<1>2. Stage' = Stage
  BY <1>1, StageFrame
<1>3. \A q \in Resources : q # r => status'[q] = status[q]
  BY DEF IInv, TypeOK, ResourceTypeOK
<1>4. Lock(r)'
  <2>1. CASE s = Stage /\ status' = [status EXCEPT ![r] = s]
    <3>1. status'[r] = Stage
      BY <2>1 DEF IInv, TypeOK, ResourceTypeOK
    <3>2. resourcesStatus'[r] = BeforeOf(Stage)
      BY DEF Awaits
    <3>3. Reports(r)'
      BY <1>1, <1>2, <2>1, <3>1, <3>2 DEF Reports
    <3> QED BY <3>3 DEF Lock
  <2>2. CASE /\ s = "ERROR" /\ Stage # "WAITING" /\ failures' > 0
             /\ status' = [status EXCEPT ![r] = "ERROR"] \/ (UNCHANGED status /\ status[r] = "READY")
    <3>1. status'[r] \in {"ERROR", "READY"}
      BY <2>2 DEF IInv, TypeOK, ResourceTypeOK
    <3>2. resourcesStatus'[r] = BeforeOf(Stage) /\ outbox'[r] = <<>>
      BY <1>1 DEF Awaits
    <3>3. /\ NoneOf(r, {"PREPARE_NEW_RUN", "START_RUN"})' /\ ~Has(r, "RUN_COMPLETED")'
          /\ Has(r, "RESOURCE_STATUS_CHANGED")'
      <4>1. ResourceStatusChanged(r, s) \in Queue'[r]
        BY <1>1
      <4> QED BY <1>1, <4>1 DEF NoneOf, Has, Commands, ResourceStatusChanged
    <3>4. Broken(r)'
      BY <1>1, <1>2, <2>2, <3>1, <3>2, <3>3 DEF Broken
    <3> QED BY <3>4 DEF Lock
  <2> QED BY <2>1, <2>2
<1>5. Lockstep'
  <2>1. \A q \in Resources \ {r} :
           /\ SameSignals(q) /\ SameReports(q) /\ status'[q] = status[q]
           /\ resourcesStatus'[q] = resourcesStatus[q] /\ outbox'[q] = outbox[q]
    BY <1>1, <1>3
  <2> QED BY <1>2, <1>4, <2>1, OtherLocks
<1>6. UndisturbedRuns' /\ UpAndRunning' /\ Outboxes' /\ StatusKnown' /\ OneScheduler' /\ RunsConserved'
  BY <1>1, <1>2 DEF IInv, UndisturbedRuns, UpAndRunning, Outboxes, StatusKnown, OneScheduler, RunsConserved
<1>7. RunCodes'
  BY <1>2, <1>3 DEF IInv, RunCodes
<1> QED BY <1>2, <1>3, <1>5, <1>6, <1>7 DEF Base

(* A context prepares a run.                                                                     *)
LEMMA PreparedBase ==
  ASSUME IInv, TypeOK', NEW r \in Resources, PrepareContext(r),
         UNCHANGED <<collectorPhase, late>>
  PROVE  /\ Base' /\ InOrder' /\ Stage = "READY" /\ Stage' = "READY" /\ outbox' = outbox
         /\ \A q \in Resources : q # r => status'[q] = status[q]
         /\ EventsOK' /\ Scheduling'
         /\ \A t : t # "RESOURCE_STATUS_CHANGED" => (Has(SystemManager, t)' <=> Has(SystemManager, t))
         /\ \A d \in Components : \A T : "RESOURCE_STATUS_CHANGED" \in T /\ OnlyOf(d, T) => OnlyOf(d, T)'
         /\ status[r] = "WAITING"
<1>1. Receives(r, "PREPARE_NEW_RUN") /\ status[r] = "WAITING"
  BY CommandStatusIs DEF PrepareContext, Accepts
<1>2. /\ r \in Components /\ inbox[r] # <<>> /\ Head(inbox[r]) \in Queue[r]
      /\ Head(inbox[r]).type = "PREPARE_NEW_RUN" /\ Awaits(r) /\ CommandOf(Stage) = "PREPARE_NEW_RUN"
  BY <1>1, CommandInForce, CommandStatusIs DEF Commands
<1>3. Stage = "READY"
  BY <1>2, StageIs DEF CommandOf
<1>4. Head(inbox[r]).run = currentRun
  BY <1>2 DEF IInv, EventsOK, EventOK
<1>5. PICK s \in {"READY", "ERROR"} :
        /\ failures' = IF s = "ERROR" THEN failures + 1 ELSE failures
        /\ status' = [status EXCEPT ![r] = s]
        /\ React(r, <<ResourceStatusChanged(r, s)>>)
  BY DEF PrepareContext
<1>6. s \in Status /\ failures \in Nat
  BY DEF IInv, TypeOK, TaskTypeOK
<1>7. /\ failures > 0 => failures' > 0
      /\ s = "ERROR" => failures' > 0
  BY <1>5, <1>6
<1>8. UNCHANGED <<boot, initialized, managerVars, runVars, posts, late, collectorPhase>>
  BY DEF PrepareContext
<1>9. \A q \in Resources : runCode'[q] = IF q = r /\ Stage = "READY" THEN currentRun ELSE runCode[q]
  BY <1>3, <1>4 DEF PrepareContext, IInv, TypeOK, ResourceTypeOK
<1>10. Base' /\ Stage' = Stage /\ \A q \in Resources : q # r => status'[q] = status[q]
  BY <1>2, <1>3, <1>5, <1>6, <1>7, <1>8, <1>9, AnsweredBase
<1>11. /\ Queue'[SystemManager] = Queue[SystemManager] \union {ResourceStatusChanged(r, s)}
       /\ Queue'[r] = Rest(r) \union {ResourceStatusChanged(r, s)}
       /\ Queue[r] = {Head(inbox[r])} \union Rest(r)
       /\ \A d \in Components : d # r /\ d # SystemManager => Queue'[d] = Queue[d]
       /\ InOrder' /\ outbox' = outbox
       /\ \A t : t # "RESOURCE_STATUS_CHANGED" => (Has(SystemManager, t)' <=> Has(SystemManager, t))
       /\ \A d \in Components : \A T : "RESOURCE_STATUS_CHANGED" \in T /\ OnlyOf(d, T) => OnlyOf(d, T)'
  BY <1>2, <1>5, <1>6, CommandAnswered
<1>12. EventsOK'
  <2>1. \A d \in Components : EventOK(d, ResourceStatusChanged(r, s)) \/ (d # r /\ d # SystemManager)
    BY DEF EventOK, ResourceStatusChanged
  <2> QED BY <1>2, <1>8, <1>11, <2>1 DEF IInv, EventsOK, EventOK
<1>13. Scheduling'
  BY <1>3, <1>8 DEF IInv, Scheduling
<1> QED BY <1>1, <1>3, <1>10, <1>11, <1>12, <1>13

LEMMA AgentPreparesInv ==
  ASSUME IInv, TypeOK', AgentPrepares PROVE IInv'
<1>1. Agent \in Resources /\ Resources = {Agent, Collector, Generator}
      /\ Components = {Agent, Collector, Generator, SystemManager}
  BY ComponentsAre DEF IInv
<1>2. PrepareContext(Agent) /\ UNCHANGED <<agentPhase, collectorVars, generatorVars, taskVars>>
  BY DEF AgentPrepares
<1>3. /\ Base' /\ InOrder' /\ Stage = "READY" /\ Stage' = "READY" /\ outbox' = outbox
      /\ \A q \in Resources : q # Agent => status'[q] = status[q]
      /\ EventsOK' /\ Scheduling'
      /\ \A t : t # "RESOURCE_STATUS_CHANGED" => (Has(SystemManager, t)' <=> Has(SystemManager, t))
      /\ \A d \in Components : \A T : "RESOURCE_STATUS_CHANGED" \in T /\ OnlyOf(d, T) => OnlyOf(d, T)'
  BY <1>1, <1>2, PreparedBase
<1>4. UNCHANGED <<managerVars, runVars>>
  BY DEF AgentPrepares, PrepareContext
<1>5. Preparing'
  BY <1>1, <1>2, <1>3, <1>4 DEF IInv, Preparing
<1> QED BY <1>3, <1>5, StageParts, InvPartsNext

LEMMA CollectorPreparesInv ==
  ASSUME IInv, TypeOK', CollectorPrepares PROVE IInv'
<1>1. Collector \in Resources /\ Resources = {Agent, Collector, Generator}
      /\ Components = {Agent, Collector, Generator, SystemManager}
  BY ComponentsAre DEF IInv
<1>2. /\ PrepareContext(Collector)
      /\ taskCompleted' = TasksToSkip /\ taskToExecute' = TasksToGenerate
      /\ late' = late + sent - Cardinality(rewarded)
      /\ sent' = 0 /\ created' = 0 /\ rewarded' = {}
      /\ UNCHANGED <<agentVars, collectorPhase, builderPhase, notifying, generatorVars>>
  BY DEF CollectorPrepares
<1>3. Stage = "READY"
  <2>1. Receives(Collector, "PREPARE_NEW_RUN") /\ status[Collector] = "WAITING"
    BY <1>2, CommandStatusIs DEF PrepareContext, Accepts
  <2>2. CommandOf(Stage) = "PREPARE_NEW_RUN"
    BY <1>1, <2>1, CommandInForce, CommandStatusIs DEF Commands
  <2> QED BY <2>2, StageIs DEF CommandOf
<1>4. late' = late
  <2>1. rewarded = 1..sent /\ sent \in Nat /\ late = 0
    BY <1>3 DEF IInv, Preparing, TypeOK, TaskTypeOK, UpAndRunning
  <2>2. Cardinality(1..sent) = sent
    BY <2>1, FS_Interval
  <2> QED BY <1>2, <2>1, <2>2
<1>5. /\ Base' /\ InOrder' /\ Stage' = "READY" /\ outbox' = outbox
      /\ \A q \in Resources : q # Collector => status'[q] = status[q]
      /\ EventsOK' /\ Scheduling'
      /\ \A t : t # "RESOURCE_STATUS_CHANGED" => (Has(SystemManager, t)' <=> Has(SystemManager, t))
      /\ \A d \in Components : \A T : "RESOURCE_STATUS_CHANGED" \in T /\ OnlyOf(d, T) => OnlyOf(d, T)'
  BY <1>1, <1>2, <1>4, PreparedBase
<1>6. UNCHANGED <<managerVars, runVars>>
  BY <1>2 DEF PrepareContext
<1>7. rewarded' = 1..sent'
  BY <1>2
<1>8. Preparing'
  BY <1>1, <1>2, <1>3, <1>5, <1>6, <1>7 DEF IInv, Preparing
<1> QED BY <1>5, <1>8, StageParts, InvPartsNext

LEMMA GeneratorPreparesInv ==
  ASSUME IInv, TypeOK', GeneratorPrepares PROVE IInv'
<1>1. Generator \in Resources /\ Resources = {Agent, Collector, Generator}
      /\ Components = {Agent, Collector, Generator, SystemManager}
  BY ComponentsAre DEF IInv
<1>2. /\ PrepareContext(Generator) /\ tasksScheduled' = 0
      /\ UNCHANGED <<agentVars, collectorVars, generating, taskIndex, taskVars>>
  BY DEF GeneratorPrepares
<1>3. /\ Base' /\ InOrder' /\ Stage = "READY" /\ Stage' = "READY" /\ outbox' = outbox
      /\ \A q \in Resources : q # Generator => status'[q] = status[q]
      /\ EventsOK' /\ Scheduling'
      /\ \A t : t # "RESOURCE_STATUS_CHANGED" => (Has(SystemManager, t)' <=> Has(SystemManager, t))
      /\ \A d \in Components : \A T : "RESOURCE_STATUS_CHANGED" \in T /\ OnlyOf(d, T) => OnlyOf(d, T)'
  BY <1>1, <1>2, PreparedBase
<1>4. UNCHANGED <<managerVars, runVars>>
  BY <1>2 DEF PrepareContext
<1>5. Preparing'
  BY <1>1, <1>2, <1>3, <1>4 DEF IInv, Preparing
<1> QED BY <1>3, <1>5, StageParts, InvPartsNext

LEMMA StopRunResourcesInv ==
  ASSUME IInv, TypeOK', NEW r \in Resources, StopRunResources(r) PROVE IInv'
<1>1. Receives(r, "RUN_COMPLETED") /\ status[r] = "RUNNING"
  BY CommandStatusIs DEF StopRunResources, Accepts
<1>2. /\ r \in Components /\ inbox[r] # <<>> /\ Head(inbox[r]) \in Queue[r]
      /\ Head(inbox[r]).type = "RUN_COMPLETED" /\ Awaits(r) /\ CommandOf(Stage) = "RUN_COMPLETED"
  BY <1>1, CommandInForce, CommandStatusIs DEF Commands
<1>3. Stage = "WAITING" /\ "WAITING" \in Status
  BY <1>2, StageIs DEF CommandOf
<1>4. /\ React(r, <<ResourceStatusChanged(r, "WAITING")>>) /\ status' = [status EXCEPT ![r] = "WAITING"]
      /\ UNCHANGED <<boot, initialized, runCode, agentVars, collectorVars, generatorVars, managerVars,
                     runVars, taskVars, boundVars>>
  BY DEF StopRunResources
<1>5. Base' /\ Stage' = Stage
  BY <1>2, <1>3, <1>4, AnsweredBase
<1>6. /\ Queue'[SystemManager] = Queue[SystemManager] \union {ResourceStatusChanged(r, "WAITING")}
      /\ Queue'[r] = Rest(r) \union {ResourceStatusChanged(r, "WAITING")}
      /\ Queue[r] = {Head(inbox[r])} \union Rest(r)
      /\ \A d \in Components : d # r /\ d # SystemManager => Queue'[d] = Queue[d]
      /\ InOrder' /\ outbox' = outbox
      /\ \A b \in Rest(r) : ~Overtakes(r, Head(inbox[r]), b)
      /\ \A t : t # "RESOURCE_STATUS_CHANGED" => (Has(SystemManager, t)' <=> Has(SystemManager, t))
      /\ \A d \in Components : d # r /\ d # SystemManager => \A t : Has(d, t)' <=> Has(d, t)
      /\ \A d \in Components : \A T : "RESOURCE_STATUS_CHANGED" \in T /\ OnlyOf(d, T) => OnlyOf(d, T)'
  BY <1>2, <1>3, <1>4, CommandAnswered
<1>7. EventsOK'
  <2>1. \A d \in Components : EventOK(d, ResourceStatusChanged(r, "WAITING")) \/ (d # r /\ d # SystemManager)
    BY DEF EventOK, ResourceStatusChanged
  <2> QED BY <1>2, <1>4, <1>6, <2>1 DEF IInv, EventsOK, EventOK
<1>8. Scheduling'
  BY <1>3, <1>4, <1>5 DEF IInv, Scheduling
<1>9. Waiting'
  <2>1. r # SystemManager /\ Components = {Agent, Collector, Generator, SystemManager}
    BY ComponentsAre DEF IInv
  <2>2. r = Collector => ~Has(Collector, "SCHEDULING_COMPLETED")' /\ ~Has(Collector, "EXECUTION_COMPLETED")'
    BY <1>2, <1>6, <2>1 DEF Has, Overtakes, ResourceStatusChanged
  <2> QED BY <1>3, <1>4, <1>5, <1>6, <2>1, <2>2 DEF IInv, Waiting
<1> QED BY <1>3, <1>5, <1>6, <1>7, <1>8, <1>9, StageParts, InvPartsNext

(* A resource answers START_RUN, before anything depends on its report.                          *)
LEMMA StartAnswered ==
  ASSUME IInv, TypeOK', NEW r \in Resources, Receives(r, "START_RUN"), status[r] = "READY",
         NEW s \in {"RUNNING", "ERROR"}, React(r, <<ResourceStatusChanged(r, s)>>),
         \/ s = "RUNNING" /\ r = Collector /\ status' = [status EXCEPT ![r] = s] /\ UNCHANGED failures
         \/ s = "ERROR" /\ failures' > 0 /\ UNCHANGED status,
         UNCHANGED <<boot, initialized, runCode, agentVars, collectorVars, generatorVars, managerVars,
                     runVars, taskVars, posts>>
  PROVE  IInv'
<1>1. /\ r \in Components /\ inbox[r] # <<>> /\ Head(inbox[r]) \in Queue[r]
      /\ Head(inbox[r]).type = "START_RUN" /\ Awaits(r) /\ CommandOf(Stage) = "START_RUN"
  BY CommandInForce, CommandStatusIs DEF Commands
<1>2. Stage = "RUNNING" /\ s \in Status /\ Has(r, "START_RUN")
  BY <1>1, StageIs DEF CommandOf, Has
<1>3. Base' /\ Stage' = Stage /\ \A q \in Resources : q # r => status'[q] = status[q]
  BY <1>1, <1>2, AnsweredBase
<1>4. /\ Queue'[SystemManager] = Queue[SystemManager] \union {ResourceStatusChanged(r, s)}
      /\ Queue'[r] = Rest(r) \union {ResourceStatusChanged(r, s)}
      /\ Queue[r] = {Head(inbox[r])} \union Rest(r)
      /\ \A d \in Components : d # r /\ d # SystemManager => Queue'[d] = Queue[d]
      /\ InOrder' /\ outbox' = outbox
      /\ NoneOf(r, Commands)'
      /\ \A t : t # "RESOURCE_STATUS_CHANGED" => (Has(SystemManager, t)' <=> Has(SystemManager, t))
      /\ \A d \in Components : d # r /\ d # SystemManager => \A t : Has(d, t)' <=> Has(d, t)
      /\ \A t : t \notin {"RESOURCE_STATUS_CHANGED", "START_RUN"} => (Has(r, t)' <=> Has(r, t))
      /\ \A g : Stat(g)' <=> Stat(g)
      /\ \A q \in Resources : q # r => (Report(q)' <=> Report(q))
      /\ \A d \in Components : \A T : "RESOURCE_STATUS_CHANGED" \in T /\ OnlyOf(d, T) => OnlyOf(d, T)'
  BY <1>1, <1>2, CommandAnswered
<1>5. EventsOK' /\ Scheduling'
  <2>1. \A d \in Components : EventOK(d, ResourceStatusChanged(r, s)) \/ (d # r /\ d # SystemManager)
    BY DEF EventOK, ResourceStatusChanged
  <2>2. EventsOK'
    BY <1>1, <1>4, <2>1 DEF IInv, EventsOK, EventOK
  <2>3. Scheduling'
    BY <1>2, <1>3 DEF IInv, Scheduling
  <2> QED BY <2>2, <2>3
<1>6. /\ Resources = {Agent, Collector, Generator} /\ r # SystemManager
      /\ Components = {Agent, Collector, Generator, SystemManager}
  BY ComponentsAre DEF IInv
<1>7. ~Has(r, "START_RUN")' /\ \A d \in Components : Has(d, "START_RUN")' => Has(d, "START_RUN")
  <2>1. ~Has(r, "START_RUN")'
    BY <1>4 DEF NoneOf, Has, Commands
  <2> QED BY <1>4, <1>6, <2>1
<1>8. /\ status'[Agent] = "RUNNING" <=> status[Agent] = "RUNNING"
      /\ status'[Generator] = "RUNNING" <=> status[Generator] = "RUNNING"
  BY <1>3, <1>6
<1>9. (Begun' <=> Begun) /\ (Over' <=> Over) /\ \A g : Counted(g)' <=> Counted(g)
  BY <1>4, <1>8 DEF Begun, Over, Counted
<1>10. RunningEvents'
  BY <1>2, <1>3, <1>4, <1>6 DEF IInv, RunningEvents
<1>11. r = Collector => rewarded = {} /\ ~Over
  BY <1>2 DEF IInv, RunningTasks, Over
<1>12. r = Generator => ~Begun
  BY DEF Begun
<1>13. RunningManager'
  <2>1. r = Collector => ~isCurrentExecutionCompleted
    BY <1>2, <1>11 DEF IInv, RunningTasks
  <2>2. r = Generator => smPhase = "WAIT" /\ ~isCurrentExecutionCompleted
    BY <1>2, <1>12 DEF IInv, RunningManager
  <2> QED BY <1>2, <1>3, <1>4, <1>6, <1>9, <2>1, <2>2 DEF IInv, RunningManager
<1>14. RunningStats'
  <2>1. r = Agent => "execution_history_stats" \notin statsGroups
    BY <1>2 DEF IInv, RunningStats, Counted
  <2> QED BY <1>2, <1>3, <1>4, <1>6, <1>7, <1>9, <2>1 DEF IInv, RunningStats
<1>15. RunningTasks'
  <2>1. \A t \in {"SCHEDULING_STARTED", "SCHEDULING_COMPLETED", "EXECUTION_COMPLETED"} :
          \A c \in Components : Has(c, t)' <=> Has(c, t)
    BY <1>4, <1>6
  <2> QED BY <1>2, <1>3, <1>4, <1>6, <1>7, <1>8, <1>9, <2>1 DEF IInv, RunningTasks
<1> QED BY <1>2, <1>3, <1>4, <1>5, <1>10, <1>13, <1>14, <1>15, StageParts, InvPartsNext

LEMMA CollectorStartsInv ==
  ASSUME IInv, TypeOK', CollectorStarts PROVE IInv'
<1>1. Collector \in Resources
  BY ComponentsAre DEF IInv
<1>2. Receives(Collector, "START_RUN") /\ status[Collector] = "READY"
  BY CommandStatusIs DEF CollectorStarts, StartContext, Accepts
<1>3. React(Collector, <<ResourceStatusChanged(Collector, "RUNNING")>>)
  BY DEF CollectorStarts, StartContext
<1>4. /\ status' = [status EXCEPT ![Collector] = "RUNNING"]
      /\ UNCHANGED <<boot, initialized, runCode, agentVars, collectorVars, generatorVars, managerVars,
                     runVars, taskVars, boundVars>>
  BY DEF CollectorStarts, StartContext
<1> QED BY <1>1, <1>2, <1>3, <1>4, StartAnswered

LEMMA StartFailsInv ==
  ASSUME IInv, TypeOK', NEW r \in Resources, StartFails(r) PROVE IInv'
<1>1. Receives(r, "START_RUN") /\ status[r] = "READY"
  BY CommandStatusIs DEF StartFails, Accepts
<1>2. failures' > 0
  BY DEF StartFails, IInv, TypeOK, TaskTypeOK
<1> QED BY <1>1, <1>2, StartAnswered DEF StartFails

-----------------------------------------------------------------------------
(* The tasks of the run.                                                                         *)

LEMMA TaskFrame ==
  ASSUME IInv, TypeOK', UNCHANGED busVars \/ Publish(TrajectoryCompleted), UNCHANGED baseVars,
         UNCHANGED <<collectorPhase, isCurrentExecutionCompleted, smPhase, smRunCode, statsGroups>>
  PROVE  /\ InOrder' /\ Base' /\ Stage' = Stage /\ EventsOK' /\ Scheduling'
         /\ RunningEvents' /\ RunningManager' /\ (Begun' <=> Begun)
         /\ \A c \in Components : \A t : t # "TRAJECTORY_COMPLETED" => (Has(c, t)' <=> Has(c, t))
         /\ \A c \in Components : \A T : "TRAJECTORY_COMPLETED" \in T \/ c # Agent
                                           => (OnlyOf(c, T) => OnlyOf(c, T)')
         /\ \A g : Stat(g)' <=> Stat(g)
         /\ \A r \in Resources : Report(r)' <=> Report(r)
<1> DEFINE e == TrajectoryCompleted
<1>1. /\ Components = {Agent, Collector, Generator, SystemManager}
      /\ Resources = {Agent, Collector, Generator}
  BY ComponentsAre DEF IInv
<1>2. e \in Event /\ e.type = "TRAJECTORY_COMPLETED"
  BY ExecutionEventTypes DEF TrajectoryCompleted
<1>3. Adds(Agent, e) = {e} /\ \A d \in Components : d # Agent => Adds(d, e) = {}
  BY <1>1, <1>2 DEF Adds, Relevant
<1> HIDE DEF e
<1>4. InOrder' /\ (\A d \in Components : Queue'[d] = Queue[d] \/ Queue'[d] = Queue[d] \union Adds(d, e))
  <2>1. CASE UNCHANGED busVars
    BY <2>1, NoMail DEF IInv
  <2>2. CASE Publish(e)
    <3>1. \A d \in Components : Relevant(d, e) => \A a \in Queue[d] : ~Overtakes(d, a, e)
      <4>1. \A d \in Components : Relevant(d, e) => d = Agent
        BY <1>3 DEF Adds
      <4> QED BY <1>2, <4>1 DEF Overtakes, Commands
    <3> QED BY <1>2, <2>2, <3>1, PublishEffect DEF IInv, Publish
  <2> QED BY <2>1, <2>2 DEF e
<1>5. /\ \A d \in Components : Queue[d] \subseteq Queue'[d]
      /\ \A d \in Components : \A a \in Queue'[d] : a \in Queue[d] \/ (d = Agent /\ a = e)
  BY <1>3, <1>4
<1>6. \A d \in Components : SameSignals(d)
  BY <1>2, <1>4, QuietPublish DEF SignalTypes, Commands
<1>7. Base' /\ Stage' = Stage
  BY <1>6, BaseFrame DEF IInv, UpAndRunning
<1>8. /\ \A c \in Components : \A t : t # "TRAJECTORY_COMPLETED" => (Has(c, t)' <=> Has(c, t))
      /\ \A c \in Components : \A T : "TRAJECTORY_COMPLETED" \in T \/ c # Agent
                                        => (OnlyOf(c, T) => OnlyOf(c, T)')
  BY <1>2, <1>5 DEF Has, OnlyOf
<1>9. Queue'[SystemManager] = Queue[SystemManager]
  BY <1>1, <1>5
<1>10. (\A g : Stat(g)' <=> Stat(g)) /\ (\A r \in Resources : Report(r)' <=> Report(r))
  BY <1>9 DEF Stat, Report
<1>11. Begun' <=> Begun
  BY DEF Begun, baseVars
<1>12. EventsOK' /\ Scheduling'
  <2>1. \A d \in Components : EventOK(d, e)'
    BY <1>2 DEF EventOK
  <2>2. EventsOK'
    BY <1>5, <2>1 DEF IInv, EventsOK, EventOK, baseVars
  <2>3. Scheduling'
    BY <1>7 DEF IInv, Scheduling, baseVars
  <2> QED BY <2>2, <2>3
<1>13. RunningEvents'
  BY <1>1, <1>7, <1>8 DEF IInv, RunningEvents
<1>14. RunningManager'
  BY <1>1, <1>7, <1>8, <1>10, <1>11 DEF IInv, RunningManager, baseVars
<1> QED BY <1>4, <1>7, <1>8, <1>10, <1>11, <1>12, <1>13, <1>14

LEMMA ScheduleTaskInv ==
  ASSUME IInv, TypeOK', ScheduleTask PROVE IInv'
<1>1. /\ Components = {Agent, Collector, Generator, SystemManager}
      /\ Resources = {Agent, Collector, Generator}
  BY ComponentsAre DEF IInv
<1>2. /\ UNCHANGED busVars /\ UNCHANGED baseVars
      /\ UNCHANGED <<collectorPhase, isCurrentExecutionCompleted, smPhase, smRunCode, statsGroups>>
  BY DEF ScheduleTask, baseVars
<1>3. Stage = "RUNNING"
  BY RunningOnly DEF ScheduleTask
<1>4. /\ InOrder' /\ Base' /\ Stage' = Stage /\ EventsOK' /\ Scheduling'
      /\ RunningEvents' /\ RunningManager' /\ (Begun' <=> Begun)
      /\ \A c \in Components : \A t : t # "TRAJECTORY_COMPLETED" => (Has(c, t)' <=> Has(c, t))
      /\ \A g : Stat(g)' <=> Stat(g)
      /\ \A r \in Resources : Report(r)' <=> Report(r)
  BY <1>2, TaskFrame
<1>5. generating = "RUN" /\ outbox[Generator] = <<>> /\ taskIndex < TasksToGenerate
  BY <1>3 DEF IInv, RunningTasks, ScheduleTask, TasksOf
<1>6. Begun
  BY <1>3, <1>5 DEF IInv, RunningTasks, Begun
<1>7. UNCHANGED <<generating, rewarded, notifying, outbox, status, taskCompleted, taskToExecute, statsGroups,
                  isCurrentExecutionCompleted>>
  BY DEF ScheduleTask
<1>8. Over' <=> Over
  BY <1>7 DEF Over
<1>9. RunningStats'
  BY <1>1, <1>3, <1>4, <1>7, <1>8 DEF IInv, RunningStats, Counted
<1>10. /\ taskIndex' = taskIndex + 1 /\ tasksScheduled' = tasksScheduled + 1
       /\ sent' = IF taskIndex >= TasksToSkip THEN sent + 1 ELSE sent
       /\ taskIndex \in Nat /\ sent \in Nat /\ TasksToGenerate \in Nat /\ TasksToSkip \in 0..TasksToGenerate
       /\ tasksScheduled = taskIndex
       /\ sent = IF taskIndex > TasksToSkip THEN taskIndex - TasksToSkip ELSE 0
  BY <1>3, <1>5, LifecycleAssumption DEF ScheduleTask, IInv, RunningTasks, TypeOK, TaskTypeOK, ResourceTypeOK
<1>11. /\ tasksScheduled' = taskIndex' /\ taskIndex' <= TasksToGenerate
       /\ sent' = IF taskIndex' > TasksToSkip THEN taskIndex' - TasksToSkip ELSE 0
       /\ sent' <= NumTasks
  BY <1>5, <1>10 DEF NumTasks
<1>12. RunningTasks'
  BY <1>1, <1>3, <1>4, <1>5, <1>6, <1>7, <1>8, <1>11 DEF IInv, RunningTasks
<1> QED BY <1>3, <1>4, <1>9, <1>12, StageParts, InvPartsNext

LEMMA CreateTrajectoryInv ==
  ASSUME IInv, TypeOK', CreateTrajectory PROVE IInv'
<1>1. /\ Components = {Agent, Collector, Generator, SystemManager}
      /\ Resources = {Agent, Collector, Generator}
  BY ComponentsAre DEF IInv
<1>2. /\ UNCHANGED busVars \/ Publish(TrajectoryCompleted) 
      /\ created < sent
      /\ UNCHANGED <<boot, resourceVars, managerVars, runVars, sent, rewarded, failed, late, boundVars>>
  BY DEF CreateTrajectory, NotifyAgent
<1>3. UNCHANGED baseVars
  BY <1>2 DEF baseVars, Publish
<1>4. /\ InOrder' /\ Base' /\ Stage' = Stage /\ EventsOK' /\ Scheduling'
      /\ RunningEvents' /\ RunningManager' /\ (Begun' <=> Begun)
      /\ \A c \in Components : \A t : t # "TRAJECTORY_COMPLETED" => (Has(c, t)' <=> Has(c, t))
      /\ \A c \in Components : \A T : "TRAJECTORY_COMPLETED" \in T \/ c # Agent
                                        => (OnlyOf(c, T) => OnlyOf(c, T)')
      /\ \A g : Stat(g)' <=> Stat(g)
      /\ \A r \in Resources : Report(r)' <=> Report(r)
  BY <1>2, <1>3, TaskFrame
<1>5. UNCHANGED <<outbox, status, statsGroups>> /\ (Over' <=> Over)
  BY <1>2, <1>3 DEF baseVars, Over
<1>6. sent # 0
  BY <1>2 DEF IInv, TypeOK, TaskTypeOK
<1>7. Waiting'
  BY <1>1, <1>2, <1>4, <1>5 DEF IInv, Waiting
<1>8. Preparing'
  BY <1>1, <1>2, <1>4, <1>5, <1>6 DEF IInv, Preparing
<1>9. RunningStats'
  BY <1>1, <1>2, <1>4, <1>5 DEF IInv, RunningStats, Counted
<1>10. RunningTasks'
  BY <1>1, <1>2, <1>4, <1>5 DEF IInv, RunningTasks
<1> QED BY <1>4, <1>7, <1>8, <1>9, <1>10, InvPartsNext DEF Phases

LEMMA ComputeTaskRewardInv ==
  ASSUME IInv, TypeOK', NEW k \in 1..sent, NEW fails \in BOOLEAN, ComputeTaskReward(k, fails) PROVE IInv'
<1>1. /\ Components = {Agent, Collector, Generator, SystemManager}
      /\ Resources = {Agent, Collector, Generator}
  BY ComponentsAre DEF IInv
<1>2. /\ UNCHANGED busVars \/ Publish(TrajectoryCompleted)
      /\ ~notifying /\ k \notin rewarded /\ rewarded' = rewarded \union {k}
      /\ taskCompleted' = taskCompleted + 1 /\ notifying' = TRUE
      /\ UNCHANGED <<boot, contextVars, agentVars, collectorPhase, builderPhase, taskToExecute,
                     generatorVars, managerVars, runVars, sent, created, late, boundVars>>
  BY DEF ComputeTaskReward, NotifyAgent
<1>3. UNCHANGED baseVars
  BY <1>2 DEF baseVars, Publish
<1>4. /\ InOrder' /\ Base' /\ Stage' = Stage /\ EventsOK' /\ Scheduling'
      /\ RunningEvents' /\ RunningManager' /\ (Begun' <=> Begun)
      /\ \A c \in Components : \A t : t # "TRAJECTORY_COMPLETED" => (Has(c, t)' <=> Has(c, t))
      /\ \A g : Stat(g)' <=> Stat(g)
      /\ \A r \in Resources : Report(r)' <=> Report(r)
  BY <1>2, <1>3, TaskFrame
<1>5. UNCHANGED <<outbox, status, statsGroups>>
  BY <1>2, <1>3 DEF baseVars
<1>6. Stage = "RUNNING"
  BY <1>2, StageIs DEF IInv, Waiting, Preparing
<1>7. sent \in Nat /\ k \in 1..sent /\ sent <= NumTasks /\ NumTasks \in Nat /\ sent # 0
  BY <1>6, LifecycleAssumption DEF IInv, RunningTasks, TypeOK, TaskTypeOK, NumTasks
<1>8. Begun /\ ~Over /\ k \in 1..NumTasks
  BY <1>2, <1>6, <1>7 DEF IInv, RunningTasks, Over
<1>9. /\ ~isCurrentExecutionCompleted /\ ~Counted("execution_history_stats")
      /\ \A c \in Components : ~Has(c, "EXECUTION_COMPLETED")
  BY <1>6, <1>8 DEF IInv, RunningTasks, RunningStats
<1>10. ~Has(Collector, "SCHEDULING_STARTED") /\ ~Has(Collector, "START_RUN")
  <2>1. ~Has(Collector, "SCHEDULING_STARTED")
    BY <1>1 DEF ComputeTaskReward, IInv, UndisturbedRuns, Has, Queue
  <2> QED BY <1>6, <1>8, <2>1 DEF IInv, RunningTasks
<1>11. taskCompleted' = TasksToSkip + Cardinality(rewarded')
  <2>1. IsFiniteSet(rewarded)
    <3>1. rewarded \subseteq 1..sent
      BY DEF IInv, TypeOK, TaskTypeOK
    <3>2. IsFiniteSet(1..sent)
      BY <1>7, FS_Interval
    <3> QED BY <3>1, <3>2, FS_Subset
  <2>2. Cardinality(rewarded') = Cardinality(rewarded) + 1 /\ Cardinality(rewarded) \in Nat
    BY <1>2, <2>1, FS_AddElement, FS_CardinalityType
  <2>3. taskCompleted = TasksToSkip + Cardinality(rewarded) /\ TasksToSkip \in Nat
    BY <1>6, LifecycleAssumption DEF IInv, RunningTasks
  <2> QED BY <1>2, <2>2, <2>3
<1>12. RunningStats'
  BY <1>1, <1>2, <1>4, <1>5, <1>6, <1>9 DEF IInv, RunningStats, Counted
<1>13. RunningTasks'
  <2>1. rewarded' # {}
    BY <1>2
  <2> QED BY <1>1, <1>2, <1>4, <1>5, <1>6, <1>8, <1>9, <1>10, <1>11, <2>1 DEF IInv, RunningTasks
<1> QED BY <1>4, <1>6, <1>12, <1>13, StageParts, InvPartsNext

(* An event that is no signal is published, between the events of a handler or inside one.       *)
LEMMA EventPublished ==
  ASSUME IInv, TypeOK', NEW e \in Event, e.type \notin SignalTypes, inbox' = Deliver(inbox, e),
         UNCHANGED baseVars, collectorPhase' # "BOOTSTRAP",
         \A d \in Components : Relevant(d, e) => EventOK(d, e) /\ \A a \in Queue[d] : ~Overtakes(d, a, e)
  PROVE  /\ InOrder' /\ Base' /\ Stage' = Stage /\ EventsOK' /\ (Begun' <=> Begun)
         /\ \A c \in Components : \A t : Has(c, t)' <=> Has(c, t) \/ (t = e.type /\ Relevant(c, e))
         /\ \A c \in Components : \A T : (Relevant(c, e) => e.type \in T) => (OnlyOf(c, T) => OnlyOf(c, T)')
         /\ \A g : Stat(g)' <=> Stat(g) \/ e = StatsUpdated(g)
         /\ \A r \in Resources : Report(r)' <=> Report(r)
<1>1. (\A d \in Components : Queue'[d] = Queue[d] \union Adds(d, e)) /\ InOrder'
  BY PublishEffect DEF IInv
<1>2. \A d \in Components : SameSignals(d)
  BY <1>1, QuietPublish
<1>3. Base' /\ Stage' = Stage
  BY <1>2, BaseFrame
<1>4. Begun' <=> Begun
  BY DEF Begun, baseVars
<1>5. EventsOK'
  BY <1>1 DEF IInv, EventsOK, EventOK, baseVars, Adds
<1>6. /\ \A c \in Components : \A t : Has(c, t)' <=> Has(c, t) \/ (t = e.type /\ Relevant(c, e))
      /\ \A c \in Components : \A T : (Relevant(c, e) => e.type \in T) => (OnlyOf(c, T) => OnlyOf(c, T)')
  BY <1>1 DEF Has, OnlyOf, Adds
<1>7. \A g : Stat(g)' <=> Stat(g) \/ e = StatsUpdated(g)
  <2>1. \A g : e = StatsUpdated(g) => Relevant(SystemManager, e)
    BY DEF Relevant, StatsUpdated
  <2> QED BY <1>1, <2>1, ComponentsAre DEF Stat, Adds, IInv
<1>8. \A r \in Resources : Report(r)' <=> Report(r)
  <2>1. SystemManager \in Components
    BY ComponentsAre DEF IInv
  <2> QED BY <1>2, <2>1, StatusEventTypes
         DEF SameSignals, Report, SignalTypes, Components, ResourceStatusChanged
<1> QED BY <1>1, <1>3, <1>4, <1>5, <1>6, <1>7, <1>8

(* ... by a handler, in the place of the event it takes.                                         *)
LEMMA EventAnswered ==
  ASSUME IInv, TypeOK', NEW r \in Components, NEW e \in Event, e.type \notin SignalTypes,
         inbox[r] # <<>>, Head(inbox[r]).type \notin SignalTypes, r # SystemManager,
         outbox[r] = <<>>, React(r, <<e>>) /\ e.type # Head(inbox[r]).type,
         boot' = boot, UNCHANGED <<contextVars, managerVars, runVars, late, failures, posts>>,
         collectorPhase' # "BOOTSTRAP",
         \A d \in Components : Relevant(d, e) => EventOK(d, e) /\ \A a \in Queue[d] : ~Overtakes(d, a, e)
  PROVE  /\ InOrder' /\ Base' /\ Stage' = Stage /\ EventsOK' /\ (Begun' <=> Begun) /\ outbox' = outbox
         /\ Head(inbox[r]) \in Queue[r] /\ Head(inbox[r]) \in Event
         /\ \A b \in Queue'[r] : b = e \/ ~Overtakes(r, Head(inbox[r]), b)
         /\ \A c \in Components : \A t : t # e.type => (Has(c, t)' => Has(c, t))
         /\ \A c \in Components : \A t : t # e.type /\ (c # r \/ t # Head(inbox[r]).type)
                                           => (Has(c, t)' <=> Has(c, t))
         /\ \A c \in Components : \A T : (Relevant(c, e) => e.type \in T) => (OnlyOf(c, T) => OnlyOf(c, T)')
         /\ \A g : Stat(g)' <=> Stat(g) \/ e = StatsUpdated(g)
         /\ \A q \in Resources : Report(q)' <=> Report(q)
<1> DEFINE h == Head(inbox[r])
<1>1. /\ h \in Event /\ h \in Queue[r] /\ Queue[r] = {h} \union Rest(r)
      /\ \A b \in Rest(r) : ~Overtakes(r, h, b)
  BY HeadOf DEF IInv
<1> HIDE DEF h
<1>2. \A d \in Components : Left(r, d) \subseteq Queue[d]
  BY <1>1 DEF Left
<1>3. (\A d \in Components : Queue'[d] = Left(r, d) \union Adds(d, e)) /\ outbox' = outbox /\ InOrder'
  BY <1>2, ReactOne DEF IInv
<1>4. \A d \in Components : SameSignals(d)
  BY <1>3, QuietTake DEF IInv
<1>5. UNCHANGED baseVars
  BY <1>3 DEF baseVars
<1>6. Base' /\ Stage' = Stage
  BY <1>4, <1>5, BaseFrame
<1>7. Begun' <=> Begun
  BY <1>3 DEF Begun
<1>8. EventsOK'
  BY <1>2, <1>3 DEF IInv, EventsOK, EventOK, Adds
<1>9. Queue'[r] = Rest(r) \union Adds(r, e) /\ \A d \in Components : d # r => Queue'[d] = Queue[d] \union Adds(d, e)
  BY <1>3 DEF Left
<1>10. /\ \A c \in Components : \A t : t # e.type => (Has(c, t)' => Has(c, t))
       /\ \A c \in Components : \A t : t # e.type /\ (c # r \/ t # h.type) => (Has(c, t)' <=> Has(c, t))
       /\ \A b \in Queue'[r] : b = e \/ ~Overtakes(r, h, b)
  BY <1>1, <1>9 DEF Has, Adds
<1>11. \A c \in Components : \A T : (Relevant(c, e) => e.type \in T) => (OnlyOf(c, T) => OnlyOf(c, T)')
  BY <1>2, <1>3 DEF OnlyOf, Adds
<1>12. \A g : Stat(g)' <=> Stat(g) \/ e = StatsUpdated(g)
  <2>1. \A g : e = StatsUpdated(g) => Relevant(SystemManager, e)
    BY DEF Relevant, StatsUpdated
  <2> QED BY <1>9, <2>1, ComponentsAre DEF Stat, Adds, IInv
<1>13. \A q \in Resources : Report(q)' <=> Report(q)
  <2>1. SystemManager \in Components
    BY ComponentsAre DEF IInv
  <2> QED BY <1>4, <2>1, StatusEventTypes
         DEF SameSignals, Report, SignalTypes, Components, ResourceStatusChanged
<1> QED BY <1>1, <1>3, <1>6, <1>7, <1>8, <1>10, <1>11, <1>12, <1>13 DEF h

(* The last task has been executed: as many as the run has, so all of them.                      *)
LEMMA AllTasksRewarded ==
  ASSUME IInv, Stage = "RUNNING", AllExecuted
  PROVE  rewarded = 1..NumTasks
<1>1. /\ taskCompleted = TasksToSkip + Cardinality(rewarded) /\ taskToExecute = TasksToGenerate
      /\ rewarded \subseteq 1..sent /\ sent <= NumTasks /\ sent \in Nat /\ NumTasks \in Nat
      /\ TasksToGenerate \in Nat /\ TasksToSkip \in 0..TasksToGenerate
  BY LifecycleAssumption DEF IInv, RunningTasks, TypeOK, TaskTypeOK, NumTasks
<1>2. rewarded \in SUBSET (1..NumTasks)
  BY <1>1
<1>3. IsFiniteSet(1..NumTasks) /\ Cardinality(1..NumTasks) = NumTasks
  BY <1>1, FS_Interval
<1>4. IsFiniteSet(rewarded) /\ Cardinality(rewarded) \in Nat
  BY <1>2, <1>3, FS_Subset, FS_CardinalityType
<1>5. Cardinality(rewarded) = NumTasks
  <2> DEFINE n == Cardinality(rewarded)
  <2>1. TasksToSkip + n = TasksToGenerate /\ n \in Nat
    BY <1>1, <1>4 DEF AllExecuted
  <2>2. TasksToGenerate \in Nat /\ TasksToSkip \in Nat
    BY <1>1
  <2> HIDE DEF n
  <2>3. n = TasksToGenerate - TasksToSkip
    BY <2>1, <2>2
  <2> QED BY <2>3 DEF n, NumTasks
<1> QED BY <1>2, <1>3, <1>5, FS_Subset

LEMMA AreAllTasksExecutedInv ==
  ASSUME IInv, TypeOK', AreAllTasksExecuted PROVE IInv'
<1> DEFINE e == ExecutionCompleted("RUN")
<1>1. /\ Components = {Agent, Collector, Generator, SystemManager}
      /\ Resources = {Agent, Collector, Generator}
  BY ComponentsAre DEF IInv
<1>2. /\ notifying /\ ~notifying'
      /\ UNCHANGED <<boot, contextVars, agentVars, collectorPhase, builderPhase, taskToExecute,
                     taskCompleted, generatorVars, managerVars, runVars, taskVars, boundVars>>
      /\ UNCHANGED busVars \/ (Publish(e) /\ AllExecuted)
  BY DEF AreAllTasksExecuted, IInv, TypeOK, ResourceTypeOK
<1>3. Stage = "RUNNING"
  BY <1>2, RunningOnly
<1>4. Begun /\ ~Over /\ rewarded # {}
  BY <1>2, <1>3 DEF IInv, RunningTasks, Over
<1>5. /\ ~isCurrentExecutionCompleted /\ ~Counted("execution_history_stats")
      /\ \A c \in Components : ~Has(c, "EXECUTION_COMPLETED")
  BY <1>3, <1>4 DEF IInv, RunningTasks, RunningStats
<1>6. UNCHANGED baseVars /\ collectorPhase' # "BOOTSTRAP" /\ UNCHANGED <<outbox, status>>
  BY <1>2 DEF baseVars, IInv, UpAndRunning, Publish
<1>7. CASE UNCHANGED busVars
  <2>1. /\ InOrder' /\ Base' /\ Stage' = Stage /\ EventsOK' /\ Scheduling'
        /\ RunningEvents' /\ RunningManager' /\ (Begun' <=> Begun)
        /\ \A c \in Components : \A t : t # "TRAJECTORY_COMPLETED" => (Has(c, t)' <=> Has(c, t))
        /\ \A g : Stat(g)' <=> Stat(g)
        /\ \A r \in Resources : Report(r)' <=> Report(r)
    BY <1>2, <1>6, <1>7, TaskFrame
  <2>2. RunningStats'
    BY <1>1, <1>2, <1>3, <1>5, <1>6, <2>1 DEF IInv, RunningStats, Counted
  <2>3. RunningTasks'
    BY <1>1, <1>2, <1>3, <1>4, <1>5, <1>6, <2>1 DEF IInv, RunningTasks
  <2> QED BY <1>3, <2>1, <2>2, <2>3, StageParts, InvPartsNext
<1>8. CASE Publish(e) /\ AllExecuted
  <2>1. e \in Event /\ e.type = "EXECUTION_COMPLETED" /\ e.phase = "RUN"
    BY ExecutionEventTypes DEF ExecutionCompleted, RunPhase
  <2>2. ~Relevant(Generator, e)
    BY <2>1 DEF Relevant
  <2>3. inbox' = Deliver(inbox, e)
    BY <1>8 DEF Publish
  <2> HIDE DEF e
  <2>4. \A d \in Components : EventOK(d, e) /\ \A a \in Queue[d] : ~Overtakes(d, a, e)
    <3>1. \A d \in Components : \A a \in Queue[d] : a.type \notin {"RUN_COMPLETED", "EXECUTION_COMPLETED"}
      BY <1>1, <1>3, <1>5 DEF IInv, RunningEvents, OnlyOf, Has
    <3> QED BY <2>1, <3>1 DEF Overtakes, EventOK, Commands, StatsUpdated
  <2>5. /\ InOrder' /\ Base' /\ Stage' = Stage /\ EventsOK' /\ (Begun' <=> Begun)
        /\ \A c \in Components : \A t : Has(c, t)' <=> Has(c, t) \/ (t = e.type /\ Relevant(c, e))
        /\ \A c \in Components : \A T : (Relevant(c, e) => e.type \in T) => (OnlyOf(c, T) => OnlyOf(c, T)')
        /\ \A g : Stat(g)' <=> Stat(g) \/ e = StatsUpdated(g)
        /\ \A r \in Resources : Report(r)' <=> Report(r)
    BY <1>6, <2>1, <2>3, <2>4, EventPublished DEF SignalTypes, Commands
  <2>6. \A g : Stat(g)' <=> Stat(g)
    BY <2>1, <2>5 DEF StatsUpdated
  <2>7. Over'
    BY <1>2, <1>3, <1>4, <1>8, AllTasksRewarded DEF Over, NumTasks
  <2>8. Scheduling'
    BY <1>2, <1>3, <2>5 DEF IInv, Scheduling
  <2>9. RunningEvents'
    BY <1>1, <1>3, <2>1, <2>2, <2>5 DEF IInv, RunningEvents
  <2>10. RunningManager'
    BY <1>1, <1>2, <1>3, <1>5, <2>1, <2>5 DEF IInv, RunningManager
  <2>11. RunningStats'
    BY <1>1, <1>2, <1>3, <1>5, <1>6, <2>1, <2>2, <2>5, <2>6 DEF IInv, RunningStats, Counted
  <2>12. RunningTasks'
    BY <1>1, <1>2, <1>3, <1>4, <1>6, <2>1, <2>5, <2>7 DEF IInv, RunningTasks
  <2> QED BY <1>3, <2>5, <2>8, <2>9, <2>10, <2>11, <2>12, StageParts, InvPartsNext
<1> QED BY <1>2, <1>7, <1>8

LEMMA CompleteSchedulingInv ==
  ASSUME IInv, TypeOK', CompleteScheduling PROVE IInv'
<1> DEFINE e == SchedulingCompleted("RUN", TasksToGenerate)
<1>1. /\ Components = {Agent, Collector, Generator, SystemManager}
      /\ Resources = {Agent, Collector, Generator}
  BY ComponentsAre DEF IInv
<1>2. /\ generating # "WAIT" /\ outbox[Generator] = <<>> /\ generating' = "WAIT"
      /\ taskIndex = TasksOf(generating)
      /\ Publish(SchedulingCompleted(generating, IF generating = "RUN" THEN tasksScheduled ELSE TasksToBootstrap))
      /\ UNCHANGED <<boot, contextVars, agentVars, collectorVars, taskIndex, tasksScheduled, managerVars,
                     runVars, taskVars, boundVars>>
  BY DEF CompleteScheduling
<1>3. Stage = "RUNNING"
  BY <1>2, RunningOnly
<1>4. /\ generating = "RUN" /\ tasksScheduled = taskIndex /\ sent <= NumTasks
      /\ ~Has(Generator, "SCHEDULING_COMPLETED") /\ ~Has(Collector, "SCHEDULING_COMPLETED")
  BY <1>2, <1>3 DEF IInv, RunningTasks
<1>5. Begun /\ ~Counted("tasks_generated")
  BY <1>2, <1>3, <1>4 DEF IInv, RunningTasks, RunningStats, Begun
<1>6. inbox' = Deliver(inbox, e) /\ UNCHANGED outbox
  BY <1>2, <1>4 DEF Publish, TasksOf
<1>7. e \in Event /\ e.type = "SCHEDULING_COMPLETED" /\ e.phase = "RUN" /\ e.tasks = TasksToGenerate
  BY ExecutionEventTypes, LifecycleAssumption DEF SchedulingCompleted, RunPhase
<1>8. ~Relevant(Agent, e) /\ ~Relevant(SystemManager, e)
  BY <1>7 DEF Relevant
<1> HIDE DEF e
<1>9. UNCHANGED baseVars /\ collectorPhase' # "BOOTSTRAP"
  BY <1>2, <1>6 DEF baseVars, IInv, UpAndRunning
<1>10. \A d \in Components : Relevant(d, e) => EventOK(d, e) /\ \A a \in Queue[d] : ~Overtakes(d, a, e)
  <2>1. \A d \in {Collector, Generator} : \A a \in Queue[d] : a.type \notin {"RUN_COMPLETED", "SCHEDULING_COMPLETED"}
    BY <1>1, <1>3, <1>4 DEF IInv, RunningEvents, OnlyOf, Has
  <2>2. \A d \in Components : EventOK(d, e)
    BY <1>7 DEF EventOK
  <2> QED BY <1>1, <1>7, <1>8, <2>1, <2>2 DEF Overtakes, Commands
<1>11. /\ InOrder' /\ Base' /\ Stage' = Stage /\ EventsOK' /\ (Begun' <=> Begun)
       /\ \A c \in Components : \A t : Has(c, t)' <=> Has(c, t) \/ (t = e.type /\ Relevant(c, e))
       /\ \A c \in Components : \A T : (Relevant(c, e) => e.type \in T) => (OnlyOf(c, T) => OnlyOf(c, T)')
       /\ \A g : Stat(g)' <=> Stat(g) \/ e = StatsUpdated(g)
       /\ \A r \in Resources : Report(r)' <=> Report(r)
  BY <1>6, <1>7, <1>9, <1>10, EventPublished DEF SignalTypes, Commands
<1>12. \A g : Stat(g)' <=> Stat(g)
  BY <1>7, <1>11 DEF StatsUpdated
<1>13. Over' <=> Over
  BY <1>2 DEF Over
<1>14. Scheduling'
  BY <1>2, <1>3, <1>11 DEF IInv, Scheduling
<1>15. RunningEvents'
  BY <1>1, <1>3, <1>7, <1>8, <1>11 DEF IInv, RunningEvents
<1>16. RunningManager'
  BY <1>1, <1>2, <1>3, <1>7, <1>11 DEF IInv, RunningManager
<1>17. RunningStats'
  BY <1>1, <1>2, <1>3, <1>5, <1>6, <1>7, <1>11, <1>12, <1>13 DEF IInv, RunningStats, Counted
<1>18. RunningTasks'
  BY <1>1, <1>2, <1>3, <1>4, <1>5, <1>6, <1>7, <1>11, <1>13 DEF IInv, RunningTasks
<1> QED BY <1>3, <1>11, <1>14, <1>15, <1>16, <1>17, <1>18, StageParts, InvPartsNext

LEMMA GeneratorHandlesSchedulingCompletedInv ==
  ASSUME IInv, TypeOK', GeneratorHandlesSchedulingCompleted PROVE IInv'
<1> DEFINE e == StatsUpdated("tasks_generated")
           h == Head(inbox[Generator])
<1>1. /\ Components = {Agent, Collector, Generator, SystemManager}
      /\ Resources = {Agent, Collector, Generator}
  BY ComponentsAre DEF IInv
<1>2. /\ outbox[Generator] = <<>> /\ generating = "WAIT" /\ inbox[Generator] # <<>>
      /\ h.type = "SCHEDULING_COMPLETED" /\ React(Generator, <<e>>)
      /\ UNCHANGED <<boot, resourceVars, managerVars, runVars, taskVars, boundVars>>
  BY DEF GeneratorHandlesSchedulingCompleted, Receives, Idle
<1>3. h \in Queue[Generator] /\ Has(Generator, "SCHEDULING_COMPLETED")
  BY <1>1, <1>2, HeadOf DEF IInv, Has
<1>4. Stage = "RUNNING" /\ Begun /\ ~Counted("tasks_generated")
  BY <1>1, <1>3, RunningOnly DEF IInv, RunningTasks, RunningStats
<1>5. e \in Event /\ e.type = "STATS_UPDATED" /\ e.group = "tasks_generated"
  BY ExecutionEventTypes DEF StatsUpdated, StatsGroups
<1>6. \A d \in Components : Relevant(d, e) => d = SystemManager
  BY <1>1, <1>5 DEF Relevant
<1>7. e \notin Queue[SystemManager]
  BY <1>4 DEF Counted, Stat
<1>8. (\A g : e = StatsUpdated(g) => g = "tasks_generated") /\ e = StatsUpdated("tasks_generated")
  BY <1>5 DEF StatsUpdated
<1> HIDE DEF e, h
<1>9. \A d \in Components : Relevant(d, e) => EventOK(d, e) /\ \A a \in Queue[d] : ~Overtakes(d, a, e)
  BY <1>5, <1>6, <1>7, <1>8 DEF EventOK, Overtakes, StatsUpdated
<1>10. UNCHANGED <<contextVars, managerVars, runVars, late, failures, posts>> /\ boot' = boot
       /\ collectorPhase' # "BOOTSTRAP"
  BY <1>2 DEF IInv, UpAndRunning
<1>11. /\ InOrder' /\ Base' /\ Stage' = Stage /\ EventsOK' /\ (Begun' <=> Begun) /\ outbox' = outbox
       /\ \A b \in Queue'[Generator] : b = e \/ ~Overtakes(Generator, h, b)
       /\ \A c \in Components : \A t : t # e.type => (Has(c, t)' => Has(c, t))
       /\ \A c \in Components : \A t : t # e.type /\ (c # Generator \/ t # h.type)
                                         => (Has(c, t)' <=> Has(c, t))
       /\ \A c \in Components : \A T : (Relevant(c, e) => e.type \in T) => (OnlyOf(c, T) => OnlyOf(c, T)')
       /\ \A g : Stat(g)' <=> Stat(g) \/ e = StatsUpdated(g)
       /\ \A q \in Resources : Report(q)' <=> Report(q)
  BY <1>1, <1>2, <1>5, <1>9, <1>10, EventAnswered DEF SignalTypes, Commands, e, h
<1>12. ~Has(Generator, "SCHEDULING_COMPLETED")'
  BY <1>2, <1>5, <1>11 DEF Has, Overtakes, h
<1>13. \A g : Stat(g)' <=> Stat(g) \/ g = "tasks_generated"
  BY <1>8, <1>11
<1>14. Over' <=> Over
  BY <1>2 DEF Over
<1>15. EventsOK' /\ Scheduling'
  BY <1>2, <1>4, <1>11 DEF IInv, Scheduling
<1>16. RunningEvents'
  BY <1>1, <1>4, <1>5, <1>6, <1>11 DEF IInv, RunningEvents
<1>17. RunningManager'
  BY <1>1, <1>2, <1>4, <1>5, <1>11 DEF IInv, RunningManager
<1>18. RunningStats'
  BY <1>1, <1>2, <1>4, <1>5, <1>11, <1>12, <1>13, <1>14 DEF IInv, RunningStats, Counted
<1>19. RunningTasks'
  <2>1. h.type = "SCHEDULING_COMPLETED"
    BY <1>2 DEF h
  <2> QED BY <1>1, <1>2, <1>4, <1>5, <1>11, <1>14, <2>1 DEF IInv, RunningTasks
<1> QED BY <1>4, <1>11, <1>15, <1>16, <1>17, <1>18, <1>19, StageParts, InvPartsNext

LEMMA AgentHandlesExecutionCompletedInv ==
  ASSUME IInv, TypeOK', AgentHandlesExecutionCompleted PROVE IInv'
<1> DEFINE e == StatsUpdated("execution_history_stats")
           h == Head(inbox[Agent])
<1>1. /\ Components = {Agent, Collector, Generator, SystemManager}
      /\ Resources = {Agent, Collector, Generator}
  BY ComponentsAre DEF IInv
<1>2. /\ outbox[Agent] = <<>> /\ inbox[Agent] # <<>>
      /\ h.type = "EXECUTION_COMPLETED" /\ React(Agent, <<e>>)
      /\ UNCHANGED <<boot, contextVars, nRewardObservation, collectorVars, generatorVars, managerVars,
                     runVars, taskVars, boundVars>>
  BY DEF AgentHandlesExecutionCompleted, Receives, Idle
<1>3. h \in Queue[Agent] /\ Has(Agent, "EXECUTION_COMPLETED")
  BY <1>1, <1>2, HeadOf DEF IInv, Has
<1>4. Stage = "RUNNING" /\ Over /\ Begun /\ ~Counted("execution_history_stats")
  BY <1>1, <1>3, RunningOnly DEF IInv, RunningTasks, RunningStats
<1>5. e \in Event /\ e.type = "STATS_UPDATED" /\ e.group = "execution_history_stats"
  BY ExecutionEventTypes DEF StatsUpdated, StatsGroups
<1>6. \A d \in Components : Relevant(d, e) => d = SystemManager
  BY <1>1, <1>5 DEF Relevant
<1>7. e \notin Queue[SystemManager]
  BY <1>4 DEF Counted, Stat
<1>8. (\A g : e = StatsUpdated(g) => g = "execution_history_stats") /\ e = StatsUpdated("execution_history_stats")
  BY <1>5 DEF StatsUpdated
<1> HIDE DEF e, h
<1>9. \A d \in Components : Relevant(d, e) => EventOK(d, e) /\ \A a \in Queue[d] : ~Overtakes(d, a, e)
  BY <1>5, <1>6, <1>7, <1>8 DEF EventOK, Overtakes, StatsUpdated
<1>10. UNCHANGED <<contextVars, managerVars, runVars, late, failures, posts>> /\ boot' = boot
       /\ collectorPhase' # "BOOTSTRAP"
  BY <1>2 DEF IInv, UpAndRunning
<1>11. /\ InOrder' /\ Base' /\ Stage' = Stage /\ EventsOK' /\ (Begun' <=> Begun) /\ outbox' = outbox
       /\ \A b \in Queue'[Agent] : b = e \/ ~Overtakes(Agent, h, b)
       /\ \A c \in Components : \A t : t # e.type => (Has(c, t)' => Has(c, t))
       /\ \A c \in Components : \A t : t # e.type /\ (c # Agent \/ t # h.type)
                                         => (Has(c, t)' <=> Has(c, t))
       /\ \A c \in Components : \A T : (Relevant(c, e) => e.type \in T) => (OnlyOf(c, T) => OnlyOf(c, T)')
       /\ \A g : Stat(g)' <=> Stat(g) \/ e = StatsUpdated(g)
       /\ \A q \in Resources : Report(q)' <=> Report(q)
  BY <1>1, <1>2, <1>5, <1>9, <1>10, EventAnswered DEF SignalTypes, Commands, e, h
<1>12. ~Has(Agent, "EXECUTION_COMPLETED")' /\ ~Has(Agent, "START_RUN")' /\ ~Has(Agent, "SCHEDULING_STARTED")'
  <2>1. \A b \in Queue'[Agent] : b.type \notin {"EXECUTION_COMPLETED", "START_RUN", "SCHEDULING_STARTED"}
    BY <1>2, <1>5, <1>11 DEF Overtakes, h
  <2> QED BY <2>1 DEF Has
<1>13. \A g : Stat(g)' <=> Stat(g) \/ g = "execution_history_stats"
  BY <1>8, <1>11
<1>14. Over' <=> Over
  BY <1>2 DEF Over
<1>15. EventsOK' /\ Scheduling'
  BY <1>2, <1>4, <1>11 DEF IInv, Scheduling
<1>16. RunningEvents'
  BY <1>1, <1>4, <1>5, <1>6, <1>11 DEF IInv, RunningEvents
<1>17. RunningManager'
  BY <1>1, <1>2, <1>4, <1>5, <1>11 DEF IInv, RunningManager
<1>18. RunningStats'
  BY <1>1, <1>2, <1>4, <1>5, <1>11, <1>12, <1>13, <1>14 DEF IInv, RunningStats, Counted
<1>19. RunningTasks'
  <2>1. h.type = "EXECUTION_COMPLETED"
    BY <1>2 DEF h
  <2> QED BY <1>1, <1>2, <1>4, <1>5, <1>11, <1>14, <2>1 DEF IInv, RunningTasks
<1> QED BY <1>4, <1>11, <1>15, <1>16, <1>17, <1>18, <1>19, StageParts, InvPartsNext

LEMMA CollectorHandlesSchedulingStartedInv ==
  ASSUME IInv, TypeOK', CollectorHandlesSchedulingStarted PROVE IInv'
<1> DEFINE h == Head(inbox[Collector])
<1>1. /\ Components = {Agent, Collector, Generator, SystemManager}
      /\ Resources = {Agent, Collector, Generator}
  BY ComponentsAre DEF IInv
<1>2. /\ inbox[Collector] # <<>> /\ h.type = "SCHEDULING_STARTED" /\ React(Collector, <<>>)
      /\ UNCHANGED <<boot, contextVars, agentVars, notifying, generatorVars, managerVars, runVars,
                     taskVars, boundVars>>
  BY DEF CollectorHandlesSchedulingStarted, Receives
<1>3. /\ h \in Queue[Collector] /\ Queue[Collector] = {h} \union Rest(Collector)
      /\ \A b \in Rest(Collector) : ~Overtakes(Collector, h, b)
  BY <1>1, <1>2, HeadOf DEF IInv
<1>4. Has(Collector, "SCHEDULING_STARTED") /\ h.phase = "RUN" /\ h.tasks = TasksToGenerate
  BY <1>1, <1>2, <1>3 DEF Has, IInv, EventsOK, EventOK
<1>5. collectorPhase' = "RUN" /\ taskToExecute' = TasksToGenerate /\ taskCompleted' = TasksToSkip
  BY <1>4 DEF CollectorHandlesSchedulingStarted
<1>6. Stage = "RUNNING" /\ rewarded = {}
  BY <1>4, RunningOnly DEF IInv, RunningTasks
<1> HIDE DEF h
<1>7. (\A d \in Components : Queue'[d] = Left(Collector, d)) /\ outbox' = outbox /\ InOrder'
  BY <1>1, <1>2, TakeEffect DEF IInv
<1>8. Queue'[Collector] = Rest(Collector) /\ \A d \in Components : d # Collector => Queue'[d] = Queue[d]
  BY <1>1, <1>7 DEF Left
<1>9. \A d \in Components : Queue'[d] \subseteq Queue[d]
  BY <1>3, <1>8
<1>10. \A d \in Components : SameSignals(d)
  <2>1. Head(inbox[Collector]).type \notin SignalTypes
    BY <1>2 DEF SignalTypes, Commands, h
  <2>2. TrajectoryCompleted.type \notin SignalTypes
    BY DEF TrajectoryCompleted, SignalTypes, Commands
  <2> QED BY <1>1, <1>2, <1>7, <2>1, <2>2, QuietTake DEF IInv
<1>11. UNCHANGED baseVars /\ collectorPhase' # "BOOTSTRAP"
  BY <1>2, <1>5, <1>7 DEF baseVars
<1>12. Base' /\ Stage' = Stage
  BY <1>10, <1>11, BaseFrame
<1>13. /\ \A c \in Components : \A t : Has(c, t)' => Has(c, t)
       /\ \A c \in Components : \A t : c # Collector => (Has(c, t)' <=> Has(c, t))
       /\ \A t : t # "SCHEDULING_STARTED" => (Has(Collector, t)' <=> Has(Collector, t))
       /\ \A c \in Components : \A T : OnlyOf(c, T) => OnlyOf(c, T)'
  <2>1. h.type = "SCHEDULING_STARTED"
    BY <1>2 DEF h
  <2> QED BY <1>1, <1>3, <1>8, <1>9, <2>1 DEF Has, OnlyOf
<1>14. (\A g : Stat(g)' <=> Stat(g)) /\ (\A r \in Resources : Report(r)' <=> Report(r))
  BY <1>1, <1>8 DEF Stat, Report
<1>15. ~Has(Collector, "START_RUN")'
  BY <1>2, <1>3, <1>8 DEF Has, Overtakes, h
<1>16. (Begun' <=> Begun) /\ (Over' <=> Over)
  BY <1>2, <1>7 DEF Begun, Over
<1>17. EventsOK' /\ Scheduling'
  <2>1. EventsOK'
    BY <1>2, <1>9 DEF IInv, EventsOK, EventOK
  <2> QED BY <1>2, <1>6, <1>12, <2>1 DEF IInv, Scheduling
<1>18. RunningEvents' /\ RunningManager'
  BY <1>1, <1>2, <1>6, <1>12, <1>13, <1>14, <1>16 DEF IInv, RunningEvents, RunningManager
<1>19. RunningStats'
  BY <1>1, <1>2, <1>6, <1>7, <1>12, <1>13, <1>14, <1>16 DEF IInv, RunningStats, Counted
<1>20. RunningTasks'
  <2>1. taskCompleted' = taskCompleted
    BY <1>5, <1>6, FS_EmptySet, LifecycleAssumption DEF IInv, RunningTasks
  <2> QED BY <1>1, <1>2, <1>5, <1>6, <1>7, <1>12, <1>13, <1>15, <1>16, <2>1 DEF IInv, RunningTasks
<1> QED BY <1>6, <1>7, <1>12, <1>17, <1>18, <1>19, <1>20, StageParts, InvPartsNext

-----------------------------------------------------------------------------
(* start_run of the agent and of the task generator: statistics, and then the report.            *)
LEMMA StartedWithStats ==
  ASSUME IInv, TypeOK', NEW r \in {Agent, Generator}, Receives(r, "START_RUN"), status[r] = "READY",
         NEW g, g = IF r = Agent THEN "agent_stats" ELSE "global_stats",
         NEW after, after = IF r = Agent THEN <<>> ELSE <<SchedulingStarted("RUN", TasksToGenerate)>>,
         React(r, <<StatsUpdated(g)>> \o <<ResourceStatusChanged(r, "RUNNING")>> \o after),
         status' = [status EXCEPT ![r] = "RUNNING"],
         UNCHANGED <<boot, initialized, runCode, managerVars, runVars, late, collectorPhase, boundVars>>
  PROVE  /\ InOrder' /\ Base' /\ Stage = "RUNNING" /\ Stage' = "RUNNING" /\ EventsOK' /\ Scheduling'
         /\ Has(r, "START_RUN") /\ status'[r] = "RUNNING" /\ outbox'[r] # <<>>
         /\ \A q \in Resources : q # r => status'[q] = status[q] /\ outbox'[q] = outbox[q]
         /\ ~Has(r, "START_RUN")'
         /\ \A c \in Components : \A t : t # "STATS_UPDATED" /\ (c # r \/ t # "START_RUN")
                                           => (Has(c, t)' <=> Has(c, t))
         /\ \A c \in Components : \A T : "STATS_UPDATED" \in T \/ c # SystemManager
                                           => (OnlyOf(c, T) => OnlyOf(c, T)')
         /\ ~Counted(g) /\ \A h : Stat(h)' <=> Stat(h) \/ h = g
         /\ \A q \in Resources : Report(q)' <=> Report(q)
<1> DEFINE e == StatsUpdated(g)
           n == ResourceStatusChanged(r, "RUNNING")
           es == <<e>> \o <<n>> \o after
           h == Head(inbox[r])
<1>1. /\ Components = {Agent, Collector, Generator, SystemManager}
      /\ Resources = {Agent, Collector, Generator} /\ r \in Resources /\ r \in Components
  BY ComponentsAre DEF IInv
<1>2. /\ inbox[r] # <<>> /\ h \in Queue[r] /\ h.type = "START_RUN" /\ Awaits(r)
      /\ CommandOf(Stage) = "START_RUN"
  BY <1>1, CommandInForce, CommandStatusIs DEF Commands
<1>3. Stage = "RUNNING" /\ Has(r, "START_RUN")
  BY <1>2, StageIs DEF CommandOf, Has
<1>4. ~Counted(g)
  BY <1>3 DEF IInv, RunningStats
<1>5. e \in Event /\ e.type = "STATS_UPDATED" /\ e.group = g /\ e = StatsUpdated(g)
      /\ \A k : e = StatsUpdated(k) => k = g
  BY ExecutionEventTypes DEF StatsUpdated, StatsGroups
<1>6. n \in Event /\ n.type = "RESOURCE_STATUS_CHANGED"
  BY <1>1, StatusEventTypes DEF ResourceStatusChanged
<1>7. after \in Seq(Event)
  BY ExecutionEventTypes, LifecycleAssumption DEF RunPhase
<1>8. es \in Seq(Event) /\ es # <<>> /\ Head(es) = e /\ Tail(es) # <<>> /\ Head(Tail(es)) = n
      /\ Tail(es) = <<n>> \o after
  <2> HIDE DEF e, n
  <2> QED BY <1>5, <1>6, <1>7
<1>9. React(r, es)
  OBVIOUS
<1> HIDE DEF e, n, es, h
<1>10. Queue[r] = {h} \union Rest(r) /\ \A b \in Rest(r) : ~Overtakes(r, h, b)
  BY <1>1, <1>2, HeadOf DEF IInv, h
<1>11. \A b \in Rest(r) : b.type \notin SignalTypes
  BY <1>1, <1>2, <1>10 DEF Overtakes, SignalTypes, Commands
<1>12. \A d \in Components : Relevant(d, e) <=> d = SystemManager
  BY <1>1, <1>5 DEF Relevant
<1>13. \A d \in Components : Left(r, d) \subseteq Queue[d]
  BY <1>10 DEF Left
<1>14. \A d \in Components : Relevant(d, e) => \A a \in Left(r, d) : ~Overtakes(d, a, e)
  <2>1. e \notin Queue[SystemManager]
    BY <1>4, <1>5 DEF Counted, Stat
  <2> QED BY <1>5, <1>12, <1>13, <2>1 DEF Overtakes
<1>15. /\ \A d \in Components : Queue'[d] = Left(r, d) \union Adds(d, e)
       /\ outbox' = [outbox EXCEPT ![r] = Tail(es)] /\ InOrder'
  BY <1>1, <1>2, <1>8, <1>9, <1>14, ReactEffect DEF IInv
<1>16. /\ Queue'[r] = Rest(r) /\ Queue'[SystemManager] = Queue[SystemManager] \union {e}
       /\ \A d \in Components : d # r /\ d # SystemManager => Queue'[d] = Queue[d]
  BY <1>1, <1>12, <1>15 DEF Left, Adds
<1>17. outbox'[r] = Tail(es) /\ \A q \in Resources : q # r => outbox'[q] = outbox[q] /\ status'[q] = status[q]
  BY <1>1, <1>15, InboxTypes DEF IInv, TypeOK, ResourceTypeOK
<1>18. outbox'[SystemManager] = outbox[SystemManager] /\ status'[r] = "RUNNING"
  BY <1>1, <1>15, InboxTypes DEF IInv, TypeOK, ResourceTypeOK
<1>19. \A q \in Resources : q # r => SameSignals(q)
  BY <1>1, <1>16 DEF SameSignals
<1>20. \A q, s : ResourceStatusChanged(q, s) \in Queue'[SystemManager]
                   <=> ResourceStatusChanged(q, s) \in Queue[SystemManager]
  BY <1>5, <1>16 DEF ResourceStatusChanged
<1>21. \A q \in Resources : SameReports(q) /\ (Report(q)' <=> Report(q))
  BY <1>20 DEF SameReports, Report
<1>22. \A c \in Components : \A t : t # "STATS_UPDATED" /\ (c # r \/ t # "START_RUN")
                                      => (Has(c, t)' <=> Has(c, t))
  <2>1. h.type = "START_RUN"
    BY <1>2 DEF h
  <2> QED BY <1>1, <1>5, <1>10, <1>16, <2>1 DEF Has
<1>23. Stage' = Stage
  BY <1>1, <1>22, StageFrame
<1>24. Lock(r)'
  <2>1. NoneOf(r, Commands)' /\ EchoesOnly(r, "RUNNING")'
    BY <1>11, <1>16 DEF NoneOf, EchoesOnly, SignalTypes
  <2>2. resourcesStatus'[r] = BeforeOf(Stage) /\ ~Report(r)'
    BY <1>1, <1>2, <1>21 DEF Awaits
  <2>3. Reporting(r)'
    BY <1>6, <1>8, <1>17 DEF Reporting
  <2>4. ReportsOnly(r, "RUNNING")'
    BY <2>2 DEF ReportsOnly, Report
  <2>5. Reports(r)'
    BY <1>3, <1>18, <1>23, <2>1, <2>2, <2>3, <2>4 DEF Reports
  <2> QED BY <2>5 DEF Lock
<1>25. Lockstep'
  BY <1>1, <1>17, <1>19, <1>21, <1>23, <1>24, OtherLocks
<1>26. Outboxes'
  <2>1. r = Agent => outbox'[Agent] = <<n>> /\ n = ResourceStatusChanged(Agent, "RUNNING")
    BY <1>8, <1>17 DEF n
  <2>2. r = Generator => /\ outbox'[Generator] = <<n, SchedulingStarted("RUN", TasksToGenerate)>>
                         /\ n = ResourceStatusChanged(Generator, "RUNNING")
    <3>1. \A a, b \in Event : <<a>> \o <<b>> = <<a, b>>
      BY PairIs
    <3>2. SchedulingStarted("RUN", TasksToGenerate) \in Event
      BY ExecutionEventTypes, LifecycleAssumption DEF RunPhase
    <3>3. r = Generator => n = ResourceStatusChanged(Generator, "RUNNING")
      BY DEF n
    <3> QED BY <1>6, <1>8, <1>17, <3>1, <3>2, <3>3
  <2> QED BY <1>1, <1>17, <1>18, <2>1, <2>2 DEF IInv, Outboxes
<1>27. UndisturbedRuns' /\ UpAndRunning' /\ StatusKnown' /\ OneScheduler' /\ RunCodes' /\ RunsConserved'
  BY <1>3, <1>23 DEF IInv, UndisturbedRuns, UpAndRunning, StatusKnown, OneScheduler, RunCodes, RunsConserved
<1>28. EventsOK' /\ Scheduling'
  <2>1. \A d \in Components : \A a \in Queue'[d] : a \in Queue[d] \/ a = e
    BY <1>1, <1>10, <1>16
  <2>2. \A d \in Components : EventOK(d, e)'
    BY <1>5 DEF EventOK
  <2>3. EventsOK'
    BY <2>1, <2>2 DEF IInv, EventsOK, EventOK
  <2> QED BY <1>23, <2>3 DEF IInv, Scheduling
<1>29. ~Has(r, "START_RUN")'
  BY <1>11, <1>16 DEF Has, SignalTypes, Commands
<1>30. \A c \in Components : \A T : "STATS_UPDATED" \in T \/ c # SystemManager
                                      => (OnlyOf(c, T) => OnlyOf(c, T)')
  BY <1>1, <1>5, <1>10, <1>16 DEF OnlyOf
<1>31. \A k : Stat(k)' <=> Stat(k) \/ k = g
  BY <1>5, <1>16 DEF Stat
<1>32. Base'
  BY <1>25, <1>26, <1>27 DEF Base
<1>33. outbox'[r] # <<>>
  BY <1>8, <1>17
<1> QED BY <1>3, <1>4, <1>15, <1>17, <1>18, <1>21, <1>22, <1>23, <1>28, <1>29, <1>30, <1>31, <1>32, <1>33

LEMMA AgentStartsInv ==
  ASSUME IInv, TypeOK', AgentStarts PROVE IInv'
<1> DEFINE g == "agent_stats"
           after == <<>>
<1>1. /\ Components = {Agent, Collector, Generator, SystemManager}
      /\ Resources = {Agent, Collector, Generator}
  BY ComponentsAre DEF IInv
<1>2. Receives(Agent, "START_RUN") /\ status[Agent] = "READY"
  BY CommandStatusIs DEF AgentStarts, StartContext, Accepts
<1>3. /\ React(Agent, <<StatsUpdated(g)>> \o <<ResourceStatusChanged(Agent, "RUNNING")>> \o after)
      /\ status' = [status EXCEPT ![Agent] = "RUNNING"]
      /\ UNCHANGED <<boot, initialized, runCode, collectorVars, agentVars, tasksScheduled, managerVars,
                     runVars, taskVars, boundVars, generating, taskIndex>>
  BY DEF AgentStarts, StartContext
<1>4. /\ g = IF Agent = Agent THEN "agent_stats" ELSE "global_stats"
      /\ after = IF Agent = Agent THEN <<>> ELSE <<SchedulingStarted("RUN", TasksToGenerate)>>
  OBVIOUS
<1> HIDE DEF g, after
<1>5. /\ InOrder' /\ Base' /\ Stage = "RUNNING" /\ Stage' = "RUNNING" /\ EventsOK' /\ Scheduling'
      /\ Has(Agent, "START_RUN") /\ status'[Agent] = "RUNNING"
      /\ \A q \in Resources : q # Agent => status'[q] = status[q] /\ outbox'[q] = outbox[q]
      /\ ~Has(Agent, "START_RUN")'
      /\ \A c \in Components : \A t : t # "STATS_UPDATED" /\ (c # Agent \/ t # "START_RUN")
                                        => (Has(c, t)' <=> Has(c, t))
      /\ \A c \in Components : \A T : "STATS_UPDATED" \in T \/ c # SystemManager
                                        => (OnlyOf(c, T) => OnlyOf(c, T)')
      /\ ~Counted(g) /\ \A h : Stat(h)' <=> Stat(h) \/ h = g
      /\ \A q \in Resources : Report(q)' <=> Report(q)
  BY <1>2, <1>3, <1>4, StartedWithStats
<1>6. (Begun' <=> Begun) /\ (Over' <=> Over)
  BY <1>1, <1>3, <1>5 DEF Begun, Over
<1>7. ~Counted("execution_history_stats")
  BY <1>5 DEF IInv, RunningStats
<1>8. RunningEvents'
  BY <1>1, <1>5 DEF IInv, RunningEvents
<1>9. RunningManager'
  BY <1>1, <1>3, <1>5, <1>6 DEF IInv, RunningManager
<1>10. RunningStats'
  BY <1>1, <1>3, <1>5, <1>6, <1>7 DEF IInv, RunningStats, Counted, g
<1>11. RunningTasks'
  BY <1>1, <1>3, <1>5, <1>6 DEF IInv, RunningTasks
<1> QED BY <1>5, <1>8, <1>9, <1>10, <1>11, StageParts, InvPartsNext

LEMMA GeneratorStartsInv ==
  ASSUME IInv, TypeOK', GeneratorStarts PROVE IInv'
<1> DEFINE g == "global_stats"
           after == <<SchedulingStarted("RUN", TasksToGenerate)>>
<1>1. /\ Components = {Agent, Collector, Generator, SystemManager}
      /\ Resources = {Agent, Collector, Generator} /\ TasksToBootstrap = 0
  BY ComponentsAre DEF IInv
<1>2. Receives(Generator, "START_RUN") /\ status[Generator] = "READY"
  BY CommandStatusIs DEF GeneratorStarts, StartContext, Accepts
<1>3. /\ React(Generator, <<StatsUpdated(g)>> \o <<ResourceStatusChanged(Generator, "RUNNING")>> \o after)
      /\ status' = [status EXCEPT ![Generator] = "RUNNING"] /\ generating' = "RUN" /\ taskIndex' = 0
      /\ UNCHANGED <<boot, initialized, runCode, collectorVars, agentVars, tasksScheduled, managerVars,
                     runVars, taskVars, boundVars>>
  BY <1>1 DEF GeneratorStarts, StartContext
<1>4. /\ g = IF Generator = Agent THEN "agent_stats" ELSE "global_stats"
      /\ after = IF Generator = Agent THEN <<>> ELSE <<SchedulingStarted("RUN", TasksToGenerate)>>
  OBVIOUS
<1> HIDE DEF g, after
<1>5. /\ InOrder' /\ Base' /\ Stage = "RUNNING" /\ Stage' = "RUNNING" /\ EventsOK' /\ Scheduling'
      /\ Has(Generator, "START_RUN") /\ status'[Generator] = "RUNNING" /\ outbox'[Generator] # <<>>
      /\ \A q \in Resources : q # Generator => status'[q] = status[q] /\ outbox'[q] = outbox[q]
      /\ ~Has(Generator, "START_RUN")'
      /\ \A c \in Components : \A t : t # "STATS_UPDATED" /\ (c # Generator \/ t # "START_RUN")
                                        => (Has(c, t)' <=> Has(c, t))
      /\ \A c \in Components : \A T : "STATS_UPDATED" \in T \/ c # SystemManager
                                        => (OnlyOf(c, T) => OnlyOf(c, T)')
      /\ ~Counted(g) /\ \A h : Stat(h)' <=> Stat(h) \/ h = g
      /\ \A q \in Resources : Report(q)' <=> Report(q)
  BY <1>2, <1>3, <1>4, StartedWithStats
<1>6. ~Begun /\ ~Begun'
  BY <1>2, <1>5 DEF Begun
<1>7. Over' <=> Over
  BY <1>3 DEF Over
<1>8. /\ sent = 0 /\ rewarded = {} /\ ~Over /\ tasksScheduled = 0
      /\ \A t \in {"SCHEDULING_STARTED", "SCHEDULING_COMPLETED", "EXECUTION_COMPLETED"} :
           \A c \in Components : ~Has(c, t)
  <2>1. sent = 0 /\ tasksScheduled = 0
        /\ \A t \in {"SCHEDULING_STARTED", "SCHEDULING_COMPLETED", "EXECUTION_COMPLETED"} :
             \A c \in Components : ~Has(c, t)
    BY <1>2, <1>5, <1>6 DEF IInv, RunningTasks
  <2>2. rewarded = {}
    BY <2>1 DEF IInv, TypeOK, TaskTypeOK
  <2> QED BY <2>1, <2>2 DEF Over
<1>9. ~Counted("execution_history_stats") /\ ~Counted("tasks_generated")
  BY <1>5, <1>6, <1>8 DEF IInv, RunningStats
<1>10. TasksToSkip \in Nat /\ TasksToGenerate \in Nat
  BY LifecycleAssumption
<1>11. RunningEvents'
  BY <1>1, <1>5 DEF IInv, RunningEvents
<1>12. RunningManager'
  BY <1>1, <1>3, <1>5, <1>6, <1>8 DEF IInv, RunningManager
<1>13. RunningStats'
  BY <1>1, <1>3, <1>5, <1>6, <1>9 DEF IInv, RunningStats, Counted, g
<1>14. RunningTasks'
  BY <1>1, <1>3, <1>5, <1>6, <1>7, <1>8, <1>10 DEF IInv, RunningTasks
<1> QED BY <1>5, <1>11, <1>12, <1>13, <1>14, StageParts, InvPartsNext

(* The report follows.                                                                           *)
LEMMA ReportFlushed ==
  ASSUME IInv, TypeOK', NEW r \in {Agent, Generator}, Flush(r),
         Head(outbox[r]) = ResourceStatusChanged(r, "RUNNING"),
         Tail(outbox[r]) = IF r = Agent THEN <<>> ELSE <<SchedulingStarted("RUN", TasksToGenerate)>>
  PROVE  IInv'
<1> DEFINE n == ResourceStatusChanged(r, "RUNNING")
<1>1. /\ Components = {Agent, Collector, Generator, SystemManager}
      /\ Resources = {Agent, Collector, Generator} /\ r \in Resources /\ r \in Components
  BY ComponentsAre DEF IInv
<1>2. /\ outbox[r] # <<>> /\ inbox' = Deliver(inbox, n) /\ outbox' = [outbox EXCEPT ![r] = Tail(@)]
      /\ UNCHANGED <<boot, resourceVars, managerVars, runVars, taskVars, boundVars>>
  BY DEF Flush
<1>3. n \in Event /\ n.type = "RESOURCE_STATUS_CHANGED" /\ n.name = r /\ n.status = "RUNNING"
  BY <1>1, StatusEventTypes DEF ResourceStatusChanged
<1>4. Stage = "RUNNING" /\ Reporting(r)
  BY <1>2, <1>3, RunningOnly DEF Reporting
<1>5. Reports(r) /\ ~Report(r) /\ NoneOf(r, Commands)
  BY <1>1, <1>4 DEF IInv, Lockstep, Lock, Awaits, Agreed, Broken, Reports, Reporting
<1>6. \A a \in Queue[SystemManager] : a.type = "RESOURCE_STATUS_CHANGED" => a.name # r
  BY <1>5, ReportsAre
<1>7. r = Agent => ~Counted("execution_history_stats")
  BY <1>2, <1>4 DEF IInv, RunningStats
<1>8. r = Generator => ~Begun /\ ~Has(SystemManager, "SCHEDULING_STARTED")
  BY <1>1, <1>2, <1>4 DEF IInv, RunningTasks, Begun
<1>9. /\ \A a \in Queue[SystemManager] : ~Overtakes(SystemManager, a, n)
      /\ \A a \in Queue[r] : ~Overtakes(r, a, n)
  <2>1. \A a \in Queue[SystemManager] : ~Overtakes(SystemManager, a, n)
    BY <1>1, <1>3, <1>6, <1>7, <1>8 DEF Overtakes, Has, Counted, Stat
  <2>2. \A a \in Queue[r] : ~Overtakes(r, a, n)
    BY <1>3, <1>5 DEF Overtakes, NoneOf, Commands
  <2> QED BY <2>1, <2>2
<1>10. Adds(r, n) = {n} /\ Adds(SystemManager, n) = {n}
       /\ \A d \in Components : d # r /\ d # SystemManager => Adds(d, n) = {}
  BY <1>1, <1>3 DEF Adds, Relevant
<1> HIDE DEF n
<1>11. (\A d \in Components : Queue'[d] = Queue[d] \union Adds(d, n)) /\ InOrder'
  <2>1. \A d \in Components : Relevant(d, n) => \A a \in Queue[d] : ~Overtakes(d, a, n)
    BY <1>9, <1>10 DEF Adds
  <2> QED BY <1>2, <1>3, <2>1, PublishEffect DEF IInv
<1>12. /\ Queue'[SystemManager] = Queue[SystemManager] \union {n} /\ Queue'[r] = Queue[r] \union {n}
       /\ \A d \in Components : d # r /\ d # SystemManager => Queue'[d] = Queue[d]
  BY <1>1, <1>10, <1>11
<1>13. /\ \A c \in Components : \A t : t # "RESOURCE_STATUS_CHANGED" => (Has(c, t)' <=> Has(c, t))
       /\ \A c \in Components : \A T : "RESOURCE_STATUS_CHANGED" \in T => (OnlyOf(c, T) => OnlyOf(c, T)')
       /\ \A g : Stat(g)' <=> Stat(g)
  BY <1>1, <1>3, <1>12 DEF Has, OnlyOf, Stat, StatsUpdated
<1>14. outbox'[r] = Tail(outbox[r]) /\ \A c \in Components : c # r => outbox'[c] = outbox[c]
  BY <1>1, <1>2, InboxTypes DEF IInv
<1>14a. /\ r = Generator => outbox'[r] # <<>>
        /\ outbox'[r] # <<>> => Head(outbox'[r]).type = "SCHEDULING_STARTED"
  <2> DEFINE e == SchedulingStarted("RUN", TasksToGenerate)
  <2>1. e.type = "SCHEDULING_STARTED" /\ outbox'[r] = IF r = Agent THEN <<>> ELSE <<e>>
    BY <1>14 DEF SchedulingStarted
  <2> HIDE DEF e
  <2> QED BY <2>1
<1>15. Stage' = Stage
  BY <1>1, <1>2, <1>13, StageFrame
<1>16. \A q \in Resources : q # r => SameSignals(q) /\ SameReports(q) /\ (Report(q)' <=> Report(q))
  <2>1. \A q, z : q # r => ResourceStatusChanged(q, z) # n
    BY <1>3 DEF ResourceStatusChanged
  <2> QED BY <1>1, <1>12, <2>1 DEF SameSignals, SameReports, Report
<1>17. Lock(r)'
  <2>1. NoneOf(r, Commands)' /\ EchoesOnly(r, "RUNNING")'
    BY <1>3, <1>4, <1>5, <1>12 DEF Reports, NoneOf, EchoesOnly, Commands
  <2>2. Report(r)'
    BY <1>12 DEF Report, n
  <2>3. ReportsOnly(r, "RUNNING")'
    <3>1. \A z : ResourceStatusChanged(r, z) = n => z = "RUNNING"
      BY <1>3 DEF ResourceStatusChanged
    <3> QED BY <1>4, <1>5, <1>12, <3>1 DEF ReportsOnly, Reports
  <2>4. ~Reporting(r)'
    BY <1>14, <1>14a DEF Reporting
  <2>5. status'[r] = Stage /\ resourcesStatus'[r] = BeforeOf(Stage)
    BY <1>2, <1>5 DEF Reports
  <2>6. Reports(r)'
    BY <1>4, <1>15, <2>1, <2>2, <2>3, <2>4, <2>5 DEF Reports
  <2> QED BY <2>6 DEF Lock
<1>18. Lockstep'
  <2>1. \A q \in Resources \ {r} : outbox'[q] = outbox[q] /\ SameSignals(q) /\ SameReports(q)
    BY <1>1, <1>14, <1>16
  <2> QED BY <1>1, <1>2, <1>15, <1>17, <2>1, OtherLocks
<1>19. Base'
  <2>1. Outboxes'
    BY <1>1, <1>14 DEF IInv, Outboxes
  <2> QED BY <1>2, <1>15, <1>18, <2>1
      DEF Base, IInv, UndisturbedRuns, UpAndRunning, StatusKnown, OneScheduler, RunCodes, RunsConserved
<1>20. EventsOK' /\ Scheduling'
  <2>1. \A d \in {r, SystemManager} : EventOK(d, n)'
    BY <1>1, <1>3 DEF EventOK
  <2>2. EventsOK'
    BY <1>1, <1>2, <1>12, <2>1 DEF IInv, EventsOK, EventOK
  <2> QED BY <1>2, <1>15, <2>2 DEF IInv, Scheduling
<1>21. (Begun' <=> Begun) /\ (Over' <=> Over)
  <2>1. r = Generator => outbox'[Generator] # <<>>
    BY <1>14a
  <2> QED BY <1>1, <1>2, <1>8, <1>14, <2>1 DEF Begun, Over
<1>22. RunningEvents'
  BY <1>1, <1>4, <1>13, <1>15 DEF IInv, RunningEvents
<1>23. RunningManager'
  <2>1. r = Generator => smPhase = "WAIT" /\ ~isCurrentExecutionCompleted
    BY <1>4, <1>8 DEF IInv, RunningManager
  <2>2. r # Generator => (Report(Generator)' <=> Report(Generator))
    BY <1>1, <1>16
  <2>3. Report(Collector)' <=> Report(Collector)
    BY <1>1, <1>16
  <2> QED BY <1>1, <1>2, <1>4, <1>13, <1>15, <1>21, <2>1, <2>2, <2>3 DEF IInv, RunningManager
<1>24. RunningStats'
  <2>1. r # Agent => (Report(Agent)' <=> Report(Agent)) /\ outbox'[Agent] = outbox[Agent]
    BY <1>1, <1>14, <1>16
  <2> QED BY <1>1, <1>2, <1>4, <1>7, <1>13, <1>15, <1>21, <2>1 DEF IInv, RunningStats, Counted
<1>25. RunningTasks'
  <2>1. /\ outbox'[Agent] # <<>> => outbox[Agent] # <<>>
        /\ outbox'[Generator] # <<>> => outbox[Generator] # <<>>
    BY <1>1, <1>2, <1>14
  <2> QED BY <1>1, <1>2, <1>4, <1>13, <1>15, <1>21, <2>1 DEF IInv, RunningTasks
<1> QED BY <1>4, <1>11, <1>15, <1>19, <1>20, <1>22, <1>23, <1>24, <1>25, StageParts, InvPartsNext

(* ... and the task generator announces its tasks.                                               *)
LEMMA SchedulingFlushed ==
  ASSUME IInv, TypeOK', Flush(Generator), outbox[Generator] = <<SchedulingStarted("RUN", TasksToGenerate)>>
  PROVE  IInv'
<1> DEFINE e == SchedulingStarted("RUN", TasksToGenerate)
<1>1. /\ Components = {Agent, Collector, Generator, SystemManager}
      /\ Resources = {Agent, Collector, Generator}
  BY ComponentsAre DEF IInv
<1>2. e \in Event /\ e.type = "SCHEDULING_STARTED" /\ e.phase = "RUN" /\ e.tasks = TasksToGenerate
  BY ExecutionEventTypes, LifecycleAssumption DEF SchedulingStarted, RunPhase
<1>3. /\ outbox[Generator] # <<>> /\ inbox' = Deliver(inbox, e)
      /\ outbox' = [outbox EXCEPT ![Generator] = Tail(@)]
      /\ UNCHANGED <<boot, resourceVars, managerVars, runVars, taskVars, boundVars>>
  BY <1>2 DEF Flush
<1>4. outbox'[Generator] = <<>> /\ \A c \in Components : c # Generator => outbox'[c] = outbox[c]
  BY <1>1, <1>2, <1>3, InboxTypes DEF IInv
<1>5. outbox[Generator] = <<e>>
  OBVIOUS
<1> HIDE DEF e
<1>6. Stage = "RUNNING" /\ ~Begun
  BY <1>3, RunningOnly DEF Begun
<1>7. generating = "RUN" /\ status[Generator] = "RUNNING" /\ Begun'
  BY <1>3, <1>4, <1>6 DEF IInv, RunningTasks, Begun
<1>8. /\ sent = 0 /\ ~notifying /\ rewarded = {} /\ ~Over /\ ~Over'
      /\ smPhase = "WAIT" /\ ~isCurrentExecutionCompleted
      /\ \A t \in {"SCHEDULING_STARTED", "SCHEDULING_COMPLETED", "EXECUTION_COMPLETED"} :
           \A c \in Components : ~Has(c, t)
  <2>1. /\ sent = 0 /\ ~notifying /\ smPhase = "WAIT" /\ ~isCurrentExecutionCompleted
        /\ \A t \in {"SCHEDULING_STARTED", "SCHEDULING_COMPLETED", "EXECUTION_COMPLETED"} :
             \A c \in Components : ~Has(c, t)
    BY <1>6 DEF IInv, RunningTasks, RunningManager
  <2>2. rewarded = {}
    BY <2>1 DEF IInv, TypeOK, TaskTypeOK
  <2> QED BY <1>3, <2>1, <2>2 DEF Over
<1>9. ~Counted("tasks_generated") /\ ~Counted("execution_history_stats")
  BY <1>6, <1>8 DEF IInv, RunningStats
<1>10. \A d \in Components : Relevant(d, e) <=> d # Generator
  BY <1>1, <1>2 DEF Relevant
<1>11. (\A d \in Components : Queue'[d] = Queue[d] \union Adds(d, e)) /\ InOrder'
  <2>1. \A d \in Components : \A a \in Queue[d] :
          a.type \notin {"SCHEDULING_STARTED", "SCHEDULING_COMPLETED", "EXECUTION_COMPLETED", "RUN_COMPLETED"}
    BY <1>1, <1>6, <1>8 DEF IInv, RunningEvents, OnlyOf, Has
  <2>2. \A d \in Components : Relevant(d, e) => \A a \in Queue[d] : ~Overtakes(d, a, e)
    BY <1>2, <2>1 DEF Overtakes, Commands, StatsUpdated
  <2> QED BY <1>2, <1>3, <2>2, PublishEffect DEF IInv
<1>12. e.type \notin SignalTypes
  BY <1>2 DEF SignalTypes, Commands
<1>13. \A d \in Components : SameSignals(d)
  BY <1>11, <1>12, QuietPublish
<1>14. /\ \A c \in Components : \A t : t # "SCHEDULING_STARTED" => (Has(c, t)' <=> Has(c, t))
       /\ Has(Collector, "SCHEDULING_STARTED")'
       /\ \A c \in Components : \A T : c = Generator \/ "SCHEDULING_STARTED" \in T
                                         => (OnlyOf(c, T) => OnlyOf(c, T)')
       /\ \A g : Stat(g)' <=> Stat(g)
  BY <1>1, <1>2, <1>10, <1>11 DEF Has, OnlyOf, Stat, StatsUpdated, Adds
<1>15. Stage' = Stage
  BY <1>1, <1>3, <1>14, StageFrame
<1>16. \A q \in Resources : SameReports(q) /\ (Report(q)' <=> Report(q))
  BY <1>1, <1>13, StatusEventTypes
     DEF SameSignals, SameReports, Report, SignalTypes, Components, ResourceStatusChanged
<1>17. Lock(Generator)'
  <2>1. ~Reporting(Generator) /\ ~Reporting(Generator)'
    BY <1>2, <1>4, <1>5 DEF Reporting
  <2>3. ReportsOnly(Generator, "RUNNING")' <=> ReportsOnly(Generator, "RUNNING")
    BY <1>1, <1>16 DEF SameReports, ReportsOnly
  <2>4. Reports(Generator) \/ Agreed(Generator)
    BY <1>1, <1>3 DEF IInv, Lockstep, Lock, Awaits, Broken
  <2>5. NoneOf(Generator, Commands)' <=> NoneOf(Generator, Commands)
    BY <1>1, <1>10, <1>11 DEF NoneOf, Adds
  <2>6. EchoesOnly(Generator, "RUNNING")' <=> EchoesOnly(Generator, "RUNNING")
    BY <1>1, <1>10, <1>11 DEF EchoesOnly, Adds
  <2>7. UNCHANGED <<status, resourcesStatus>> /\ (Report(Generator)' <=> Report(Generator))
    BY <1>1, <1>3, <1>16
  <2>8. Reports(Generator) => Reports(Generator)'
    BY <1>6, <1>15, <2>1, <2>3, <2>5, <2>6, <2>7 DEF Reports
  <2>9. Agreed(Generator) => Agreed(Generator)'
    BY <1>6, <1>15, <2>1, <2>5, <2>6, <2>7 DEF Agreed
  <2> QED BY <2>4, <2>8, <2>9 DEF Lock
<1>18. Lockstep'
  <2>1. \A q \in Resources \ {Generator} : outbox'[q] = outbox[q] /\ SameSignals(q) /\ SameReports(q)
    BY <1>1, <1>4, <1>13, <1>16
  <2> QED BY <1>1, <1>3, <1>15, <1>17, <2>1, OtherLocks
<1>19. Base'
  <2>1. Outboxes'
    BY <1>1, <1>4 DEF IInv, Outboxes
  <2> QED BY <1>3, <1>15, <1>18, <2>1
      DEF Base, IInv, UndisturbedRuns, UpAndRunning, StatusKnown, OneScheduler, RunCodes, RunsConserved
<1>20. EventsOK' /\ Scheduling'
  <2>1. \A d \in Components : EventOK(d, e)'
    BY <1>2 DEF EventOK
  <2>2. EventsOK'
    BY <1>3, <1>11, <2>1 DEF IInv, EventsOK, EventOK, Adds
  <2> QED BY <1>3, <1>15, <2>2 DEF IInv, Scheduling
<1>21. RunningEvents'
  BY <1>1, <1>6, <1>14, <1>15 DEF IInv, RunningEvents
<1>22. RunningManager'
  BY <1>1, <1>3, <1>6, <1>7, <1>8, <1>14, <1>15, <1>16 DEF IInv, RunningManager
<1>23. RunningStats'
  BY <1>1, <1>3, <1>4, <1>6, <1>9, <1>14, <1>15, <1>16 DEF IInv, RunningStats, Counted
<1>24. RunningTasks'
  BY <1>1, <1>3, <1>4, <1>6, <1>7, <1>8, <1>14, <1>15 DEF IInv, RunningTasks
<1> QED BY <1>6, <1>11, <1>15, <1>19, <1>20, <1>21, <1>22, <1>23, <1>24, StageParts, InvPartsNext

LEMMA FlushInv ==
  ASSUME IInv, TypeOK', NEW c \in Components, Flush(c) PROVE IInv'
<1>1. outbox[c] # <<>> /\ Components = {Agent, Collector, Generator, SystemManager}
  BY ComponentsAre DEF Flush, IInv
<1>2. CASE c = Agent
  <2>1. outbox[Agent] = <<ResourceStatusChanged(Agent, "RUNNING")>>
    BY <1>1, <1>2 DEF IInv, Outboxes
  <2>2. ResourceStatusChanged(Agent, "RUNNING") \in Event
    BY <1>1, StatusEventTypes
  <2>3. Head(outbox[Agent]) = ResourceStatusChanged(Agent, "RUNNING") /\ Tail(outbox[Agent]) = <<>>
    BY <2>1, <2>2
  <2> QED BY <1>2, <2>3, ReportFlushed
<1>3. CASE c = Generator
  <2> DEFINE n == ResourceStatusChanged(Generator, "RUNNING")
             e == SchedulingStarted("RUN", TasksToGenerate)
  <2>1. n \in Event /\ e \in Event
    BY <1>1, StatusEventTypes, ExecutionEventTypes, LifecycleAssumption DEF RunPhase
  <2>2. outbox[Generator] = <<e>> \/ outbox[Generator] = <<n, e>>
    BY <1>1, <1>3 DEF IInv, Outboxes
  <2>3. \A a, b \in Event : Head(<<a, b>>) = a /\ Tail(<<a, b>>) = <<b>>
    OBVIOUS
  <2> HIDE DEF n, e
  <2>4. outbox[Generator] = <<n, e>> => Head(outbox[Generator]) = n /\ Tail(outbox[Generator]) = <<e>>
    BY <2>1, <2>3
  <2> QED BY <1>3, <2>2, <2>4, ReportFlushed, SchedulingFlushed DEF n, e
<1> QED BY <1>1, <1>2, <1>3 DEF IInv, Outboxes

-----------------------------------------------------------------------------
(* The invariant of the system.                                                                  *)

(* Steps that are over, or never come.                                                           *)
LEMMA NoSuchStep ==
  ASSUME IInv
  PROVE  /\ ~StartUp /\ ~CeleryStep /\ ~GeneratorHandlesExecutionCompleted
         /\ \A counted \in BOOLEAN : ~ComputeLateReward(counted)
<1>1. /\ boot = [c \in Components |-> "up"] /\ celeryCheck = "done" /\ late = 0
      /\ Components = {Agent, Collector, Generator, SystemManager}
      /\ Resources = {Agent, Collector, Generator}
  BY ComponentsAre DEF IInv, UpAndRunning
<1>2. ~StartUp
  BY <1>1 DEF StartUp, Subscribe, ReadStatus, Announce, CreateManagers, StartManagers
<1>3. ~CeleryStep
  BY <1>1 DEF CeleryStep, CheckCelery, PublishCelery
<1>4. ~GeneratorHandlesExecutionCompleted
  <2> SUFFICES ASSUME GeneratorHandlesExecutionCompleted PROVE FALSE
    OBVIOUS
  <2>1. inbox[Generator] # <<>> /\ Head(inbox[Generator]).type = "EXECUTION_COMPLETED"
    BY DEF GeneratorHandlesExecutionCompleted, Receives
  <2>2. Head(inbox[Generator]) \in Queue[Generator]
    BY <1>1, <2>1, HeadOf DEF IInv
  <2> QED BY <2>1, <2>2, StageIs DEF IInv, Waiting, Preparing, RunningEvents, OnlyOf
<1>5. \A counted \in BOOLEAN : ~ComputeLateReward(counted)
  BY <1>1 DEF ComputeLateReward
<1> QED BY <1>2, <1>3, <1>4, <1>5

LEMMA StutterInv ==
  ASSUME IInv, TypeOK', UNCHANGED vars PROVE IInv'
<1>1. /\ Components = {Agent, Collector, Generator, SystemManager}
      /\ Resources = {Agent, Collector, Generator}
  BY ComponentsAre DEF IInv
<1>2. /\ UNCHANGED busVars /\ UNCHANGED baseVars
      /\ UNCHANGED <<collectorPhase, isCurrentExecutionCompleted, smPhase, smRunCode, statsGroups>>
  BY DEF baseVars
<1>3. /\ InOrder' /\ Base' /\ Stage' = Stage /\ EventsOK' /\ Scheduling'
      /\ RunningEvents' /\ RunningManager' /\ (Begun' <=> Begun)
      /\ \A g : Stat(g)' <=> Stat(g)
      /\ \A r \in Resources : Report(r)' <=> Report(r)
  BY <1>2, TaskFrame
<1>4. /\ \A c \in Components : \A t : Has(c, t)' <=> Has(c, t)
      /\ \A c \in Components : \A T : OnlyOf(c, T)' <=> OnlyOf(c, T)
  BY <1>2, NoMail DEF IInv
<1>5. Over' <=> Over
  BY DEF Over
<1>6. Waiting' /\ Preparing'
  BY <1>1, <1>3, <1>4 DEF IInv, Waiting, Preparing
<1>7. RunningStats' /\ RunningTasks'
  BY <1>1, <1>3, <1>4, <1>5 DEF IInv, RunningStats, RunningTasks, Counted
<1> QED BY <1>3, <1>6, <1>7, InvPartsNext DEF Phases

LEMMA ConsumerStepInv ==
  ASSUME IInv, TypeOK', NEW c \in Components, ConsumerStep(c) PROVE IInv'
<1>1. CASE Flush(c)
  BY <1>1, FlushInv
<1>2. CASE ManagerHandlesEvent
  BY <1>2, ManagerHandlesResourceStatusInv, ManagerHandlesWaitingInv, ManagerHandlesReadyInv,
     ManagerHandlesPrepareInv, ManagerHandlesStatsInv, ManagerHandlesSchedulingStartedInv,
     ManagerHandlesExecutionCompletedInv, ManagerHandlesRunCompletedInv
  DEF ManagerHandlesEvent
<1>3. CASE TakeRun("consumer") \/ PublishPrepare("consumer")
  BY <1>3, TakeRunInv, PublishPrepareInv
<1>4. CASE AgentHandlesEvent
  BY <1>4, AgentPreparesInv, AgentStartsInv, AgentHandlesSchedulingStartedInv, ObserveRewardInv,
     AgentHandlesExecutionCompletedInv
  DEF AgentHandlesEvent
<1>5. CASE CollectorHandlesEvent
  BY <1>5, CollectorPreparesInv, CollectorStartsInv, CollectorHandlesSchedulingStartedInv,
     CollectorHandlesSchedulingCompletedInv, CollectorHandlesExecutionCompletedInv
  DEF CollectorHandlesEvent
<1>6. CASE GeneratorHandlesEvent
  BY <1>6, GeneratorPreparesInv, GeneratorStartsInv, GeneratorHandlesSchedulingCompletedInv, NoSuchStep
  DEF GeneratorHandlesEvent
<1>7. CASE ScheduleTask \/ CompleteScheduling
  BY <1>7, ScheduleTaskInv, CompleteSchedulingInv
<1>8. CASE c \in Resources /\ ResourceHandlesEvent(c)
  BY <1>8, HandleResourceStatusInv, DropCommandInv, StartFailsInv, StopRunResourcesInv
  DEF ResourceHandlesEvent
<1> QED BY <1>1, <1>2, <1>3, <1>4, <1>5, <1>6, <1>7, <1>8 DEF ConsumerStep

LEMMA NextInv == IInv /\ [Next]_vars => IInv'
<1> SUFFICES ASSUME IInv, [Next]_vars PROVE IInv'
  OBVIOUS
<1>1. TypeOK'
  BY NextType DEF IInv
<1>2. CASE StartUp \/ CeleryStep
  BY <1>2, NoSuchStep
<1>3. CASE ControlStep
  BY <1>1, <1>3, ControlRunInv, TakeRunInv, PublishPrepareInv DEF ControlStep
<1>4. CASE \E c \in Components : ConsumerStep(c)
  BY <1>1, <1>4, ConsumerStepInv
<1>5. CASE CreateTrajectory
  BY <1>1, <1>5, CreateTrajectoryInv
<1>6. CASE RewardStep
  BY <1>1, <1>6, ComputeTaskRewardInv, NoSuchStep, AreAllTasksExecutedInv DEF RewardStep
<1>7. CASE UNCHANGED vars
  BY <1>1, <1>7, StutterInv
<1> QED BY <1>2, <1>3, <1>4, <1>5, <1>6, <1>7 DEF Next

LEMMA StartedInv == ASSUME UndisturbedRuns, Started PROVE IInv
<1>1. /\ Components = {Agent, Collector, Generator, SystemManager}
      /\ Resources = {Agent, Collector, Generator}
  BY ComponentsAre
<1>2. NoRun \notin Runs
  BY LifecycleAssumption DEF Runs, NoRun
<1> DEFINE e == SystemStatusChanged("WAITING")
<1>3. e \in Event /\ e.type = "SYSTEM_STATUS_CHANGED" /\ e.status = "WAITING"
  BY StatusEventTypes DEF SystemStatusChanged
<1>4. <<e>> \in Seq(Event) /\ Contents(<<e>>) = {e} /\ Contents(<<>>) = {}
  BY <1>3 DEF Contents
<1>5. \A c \in Components : inbox[c] = IF c = SystemManager THEN <<e>> ELSE <<>>
  BY DEF Started
<1> HIDE DEF e
<1>6. \A c \in Components : Queue[c] = IF c = SystemManager THEN {e} ELSE {}
  BY <1>4, <1>5, QueueIs
<1>7. TypeOK
  <2>1. BusTypeOK
    BY <1>4 DEF Started, BusTypeOK, e
  <2>2. RunTypeOK
    <3>1. [i \in 1..NumRuns |-> i] \in Seq(Runs)
      BY LifecycleAssumption DEF Runs
    <3>2. <<>> \in Seq(MaybeRun)
      OBVIOUS
    <3> QED BY <3>1, <3>2, LifecycleAssumption DEF Started, RunTypeOK, MaybeRun
  <2>3. ResourceTypeOK
    BY DEF Started, ResourceTypeOK, Status, RunPhase, MaybeRun
  <2>4. ManagerTypeOK
    BY DEF Started, ManagerTypeOK, Status, RunPhase, MaybeRun
  <2>5. TaskTypeOK
    BY LifecycleAssumption DEF Started, TaskTypeOK
  <2> QED BY <2>1, <2>2, <2>3, <2>4, <2>5 DEF TypeOK
<1>8. /\ \A c \in Components : \A t : t # "SYSTEM_STATUS_CHANGED" => ~Has(c, t)
      /\ \A c \in Components : \A T : "SYSTEM_STATUS_CHANGED" \in T \/ c # SystemManager => OnlyOf(c, T)
      /\ \A r : ~Report(r)
  BY <1>1, <1>3, <1>6 DEF Has, OnlyOf, Report, ResourceStatusChanged
<1>9. Stage = "WAITING"
  BY DEF Started, Stage
<1>10. InOrder
  BY <1>4, <1>5 DEF InOrder, Sorted
<1>11. UpAndRunning /\ Outboxes /\ EventsOK
  BY <1>1, <1>3, <1>6 DEF Started, UpAndRunning, Outboxes, EventsOK, EventOK
<1>12. Lockstep
  <2> SUFFICES ASSUME NEW r \in Resources PROVE Agreed(r)
    BY DEF Lockstep, Lock
  <2>1. r \in Components /\ r # SystemManager
    BY <1>1
  <2> QED BY <1>6, <1>8, <1>9, <2>1 DEF Agreed, NoneOf, EchoesOnly, Reporting, Started
<1>13. StatusKnown /\ OneScheduler /\ Scheduling
  BY <1>1, <1>9, LifecycleAssumption DEF Started, StatusKnown, OneScheduler, Scheduling, UndisturbedRuns
<1>14. RunCodes /\ RunsConserved
  <2>1. RunCodes
    BY <1>9 DEF RunCodes
  <2>2. RunsConserved
    <3> DEFINE q == [i \in 1..NumRuns |-> i]
    <3>1. q \in Seq(Nat)
      BY LifecycleAssumption
    <3> HIDE DEF q
    <3>2. <<>> \o <<>> \o q = q
      BY <3>1
    <3> QED BY <3>2 DEF Started, RunsConserved, q
  <2> QED BY <2>1, <2>2
<1>15. Waiting
  <2>1. rewarded = 1..sent /\ ~notifying
    BY DEF Started
  <2> QED BY <1>1, <1>8, <1>9, <2>1 DEF Waiting, Started
<1>16. Preparing /\ RunningEvents /\ RunningManager /\ RunningStats /\ RunningTasks
  BY <1>9 DEF Preparing, RunningEvents, RunningManager, RunningStats, RunningTasks
<1> QED BY <1>7, <1>10, <1>11, <1>12, <1>13, <1>14, <1>15, <1>16 DEF IInv

(* What a handler may still have to publish.                                                     *)
LEMMA OutboxContents ==
  ASSUME IInv, NEW c \in Components, NEW e \in Contents(outbox[c])
  PROVE  e.type \in {"RESOURCE_STATUS_CHANGED", "SCHEDULING_STARTED"}
<1>1. Components = {Agent, Collector, Generator, SystemManager}
  BY ComponentsAre DEF IInv
<1> DEFINE a == ResourceStatusChanged(Agent, "RUNNING")
           g == ResourceStatusChanged(Generator, "RUNNING")
           s == SchedulingStarted("RUN", TasksToGenerate)
<1>2. /\ a.type = "RESOURCE_STATUS_CHANGED" /\ g.type = "RESOURCE_STATUS_CHANGED"
      /\ s.type = "SCHEDULING_STARTED"
  BY DEF ResourceStatusChanged, SchedulingStarted
<1>3. outbox[c] \in {<<>>, <<a>>, <<s>>, <<g, s>>}
  BY <1>1 DEF IInv, Outboxes
<1> HIDE DEF a, g, s
<1>4. e \in {a, g, s}
  BY <1>3 DEF Contents
<1> QED BY <1>2, <1>4

(* Every reachable state satisfies the invariant.                                                *)
THEOREM LifecycleInvariant == ASSUME UndisturbedRuns PROVE StartedSpec => []IInv
BY StartedInv, NextInv, PTL DEF StartedSpec

-----------------------------------------------------------------------------
(* The runs of the list are executed, current or still to come, each once and in their order:    *)
(* schedule_next_run and run_completed lose and repeat none.                                     *)
THEOREM RunsAreConserved == ASSUME UndisturbedRuns PROVE StartedSpec => []RunsConserved
<1>1. IInv => RunsConserved
  BY DEF IInv
<1> QED BY <1>1, LifecycleInvariant, PTL

(* If nothing fails, every command finds its resource in the status it needs, so that the        *)
(* checks of prepare_run, start_run and stop_run_resources never drop one.                       *)
THEOREM CommandsMeetStatus ==
  ASSUME UndisturbedRuns, MaxFailures = 0 PROVE StartedSpec => []CommandsMeetTheirStatus
<1>1. IInv => CommandsMeetTheirStatus
  <2> SUFFICES ASSUME IInv, NEW r \in Resources, NEW t \in DOMAIN CommandStatus, Receives(r, t)
               PROVE  status[r] = CommandStatus[t]
    BY DEF CommandsMeetTheirStatus
  <2>1. failures = 0
    BY DEF IInv, TypeOK, TaskTypeOK
  <2>2. ~Broken(r)
    BY <2>1 DEF Broken
  <2> QED BY <2>2, CommandInForce, CommandStatusIs
<1> QED BY <1>1, LifecycleInvariant, PTL

(* A resource that starts a run has prepared this very run.                                      *)
THEOREM StartsThePreparedRun == ASSUME UndisturbedRuns PROVE StartedSpec => []StartedAsPrepared
<1>1. IInv => StartedAsPrepared
  <2> SUFFICES ASSUME IInv, NEW r \in Resources, Accepts(r, "START_RUN")
               PROVE  runCode[r] = Head(inbox[r]).run
    BY DEF StartedAsPrepared
  <2>1. /\ r \in Components /\ Head(inbox[r]) \in Queue[r] /\ Head(inbox[r]).type = "START_RUN"
        /\ CommandOf(Stage) = "START_RUN"
    BY CommandInForce, CommandStatusIs DEF Accepts, Commands
  <2>2. Stage = "RUNNING"
    BY <2>1, StageIs DEF CommandOf
  <2> QED BY <2>1, <2>2 DEF IInv, RunCodes, EventsOK, EventOK
<1> QED BY <1>1, LifecycleInvariant, PTL

(* Wherever EXECUTION_COMPLETED is under way, every task of the run has its reward.              *)
THEOREM CompletedWhenExecuted == ASSUME UndisturbedRuns PROVE StartedSpec => []ExecutionCompletedSound
<1>1. IInv => ExecutionCompletedSound
  <2> SUFFICES ASSUME IInv, NEW c \in Components, ExecutionCompleted("RUN") \in InFlight(c)
               PROVE  rewarded = 1..(TasksToBootstrap + TasksToGenerate - TasksToSkip)
    BY DEF ExecutionCompletedSound
  <2>1. /\ Components = {Agent, Collector, Generator, SystemManager} /\ TasksToBootstrap = 0
        /\ TasksToGenerate \in Nat /\ TasksToSkip \in Nat
    BY ComponentsAre, LifecycleAssumption DEF IInv
  <2>2. ExecutionCompleted("RUN") \notin Contents(outbox[c])
    BY OutboxContents DEF ExecutionCompleted
  <2>3. Has(c, "EXECUTION_COMPLETED")
    BY <2>2, QueueIs DEF InFlight, Has, ExecutionCompleted
  <2>4. rewarded = 1..NumTasks
    <3>1. CASE Stage = "WAITING"
      <4>1. c = Collector
        BY <2>1, <2>3, <3>1 DEF IInv, Waiting, OnlyOf, Has
      <4> QED BY <2>3, <3>1, <4>1 DEF IInv, Waiting
    <3>2. CASE Stage = "READY"
      BY <2>1, <2>3, <3>2 DEF IInv, Preparing, OnlyOf, Has
    <3>3. CASE Stage = "RUNNING"
      BY <2>3, <3>3 DEF IInv, RunningTasks, Over
    <3> QED BY <3>1, <3>2, <3>3, StageIs
  <2> QED BY <2>1, <2>4 DEF NumTasks
<1> QED BY <1>1, LifecycleInvariant, PTL

(* While a run is being prepared nothing of the last one is left in an inbox that its handlers    *)
(* could take for an event of the new one.                                                       *)
THEOREM NothingIsLeft == ASSUME UndisturbedRuns PROVE StartedSpec => []NothingLeftOfTheLastRun
<1>1. IInv => NothingLeftOfTheLastRun
  <2> SUFFICES ASSUME IInv, NEW c \in Components, NEW run \in Runs, PrepareNewRun(run) \in InFlight(c)
               PROVE  /\ generating = "WAIT"
                      /\ \A d \in Components : \A e \in InFlight(d) :
                           e.type \in {"SYSTEM_STATUS_CHANGED", "RESOURCE_STATUS_CHANGED",
                                       "PREPARE_NEW_RUN", "TRAJECTORY_COMPLETED"}
    BY DEF NothingLeftOfTheLastRun
  <2>1. Components = {Agent, Collector, Generator, SystemManager}
    BY ComponentsAre DEF IInv
  <2>2. PrepareNewRun(run) \in Queue[c] /\ PrepareNewRun(run).type = "PREPARE_NEW_RUN"
    BY OutboxContents, QueueIs DEF InFlight, PrepareNewRun
  <2>3. Stage = "READY"
    BY <2>1, <2>2, StageIs DEF IInv, Waiting, RunningEvents, OnlyOf
  <2>4. generating = "WAIT" /\ \A d \in Components : outbox[d] = <<>>
    BY <2>1, <2>3 DEF IInv, Preparing, Outboxes
  <2>5. \A d \in Components : InFlight(d) = Queue[d]
    BY <2>4, QueueIs DEF InFlight, Contents
  <2> QED BY <2>1, <2>3, <2>4, <2>5 DEF IInv, Preparing, OnlyOf
<1> QED BY <1>1, LifecycleInvariant, PTL

-----------------------------------------------------------------------------
(* A report may only add an error: its resource was in the status that the command found.        *)
LEMMA ReportKeepsError ==
  ASSUME IInv, ManagerHandlesResourceStatus, systemStatus = "ERROR" PROVE systemStatus' = "ERROR"
<1> DEFINE e == Head(inbox[SystemManager])
<1>1. inbox[SystemManager] # <<>> /\ e.type = "RESOURCE_STATUS_CHANGED" /\ SystemManager \in Components
  BY ComponentsAre DEF ManagerHandlesResourceStatus, Receives, IInv
<1>2. e \in Queue[SystemManager]
  BY <1>1, HeadOf DEF IInv
<1>3. PICK r \in Resources, s \in {"WAITING", "READY", "RUNNING", "ERROR"} :
        e = ResourceStatusChanged(r, s) /\ e.name = r /\ e.status = s
  BY <1>1, <1>2, ReportsAre
<1> HIDE DEF e
<1>4. /\ resourcesStatus[r] = BeforeOf(Stage) /\ s \in {Stage, "ERROR"}
      /\ SystemStatusFrom([resourcesStatus EXCEPT ![r] = s], systemStatus)
           = IF \E q \in Resources : [resourcesStatus EXCEPT ![r] = s][q] = "ERROR" THEN "ERROR"
             ELSE IF \A q \in Resources : [resourcesStatus EXCEPT ![r] = s][q] = Stage THEN Stage
             ELSE systemStatus
  BY <1>2, <1>3, ReportedStatus
<1> DEFINE rs == [resourcesStatus EXCEPT ![r] = s]
<1>5. resourcesStatus[r] # s /\ resourcesStatus[r] # "ERROR"
  BY <1>4, StageIs DEF BeforeOf
<1>6. systemStatus' = SystemStatusFrom(rs, systemStatus)
  <2>1. boot[SystemManager] = "up" /\ celeryStatus = "RUNNING" /\ r # Celery
    BY <1>1, ComponentsAre DEF IInv, UpAndRunning
  <2> QED BY <1>3, <1>5, <2>1 DEF e, ManagerHandlesResourceStatus, CheckSystemStatus
<1>7. \A q \in Resources : rs[q] = IF q = r THEN s ELSE resourcesStatus[q]
  BY DEF IInv, TypeOK, ManagerTypeOK
<1>8. (\E q \in Resources : rs[q] = "ERROR") => SystemStatusFrom(rs, systemStatus) = "ERROR"
  BY <1>4
<1> HIDE DEF rs
<1>9. PICK q \in Resources : resourcesStatus[q] = "ERROR"
  BY DEF IInv, StatusKnown
<1>10. rs[q] = "ERROR"
  BY <1>5, <1>7, <1>9
<1> QED BY <1>6, <1>8, <1>10

LEMMA ErrorKept == IInv /\ [Next]_vars => [systemStatus = "ERROR" => systemStatus' = "ERROR"]_vars
<1> SUFFICES ASSUME IInv, [Next]_vars, systemStatus = "ERROR" PROVE systemStatus' = "ERROR"
  OBVIOUS
<1>1. CASE UNCHANGED vars
  BY <1>1
<1>2. CASE StartUp \/ CeleryStep
  BY <1>2, NoSuchStep
<1>3. CASE ControlStep
  BY <1>3 DEF ControlStep, ControlRun, TakeRun, PublishPrepare
<1>4. CASE CreateTrajectory
  BY <1>4 DEF CreateTrajectory
<1>5. CASE RewardStep
  BY <1>5, NoSuchStep DEF RewardStep, ComputeTaskReward, AreAllTasksExecuted
<1>6. CASE \E c \in Components : ConsumerStep(c)
  <2>1. PICK c \in Components : ConsumerStep(c)
    BY <1>6
  <2>2. CASE Flush(c) \/ TakeRun("consumer") \/ PublishPrepare("consumer")
    BY <2>2 DEF Flush, TakeRun, PublishPrepare
  <2>3. CASE ManagerHandlesEvent
    <3>1. CASE ManagerHandlesResourceStatus
      BY <3>1, ReportKeepsError
    <3>2. CASE ~ManagerHandlesResourceStatus
      BY <2>3, <3>2 DEF ManagerHandlesEvent, ManagerHandlesWaiting, ManagerHandlesReady, ManagerHandlesPrepare,
         ManagerHandlesStats, ManagerHandlesSchedulingStarted, ManagerHandlesExecutionCompleted,
         ManagerHandlesRunCompleted
    <3> QED BY <3>1, <3>2
  <2>4. CASE AgentHandlesEvent
    BY <2>4 DEF AgentHandlesEvent, AgentPrepares, AgentStarts, AgentHandlesSchedulingStarted, ObserveReward,
       AgentHandlesExecutionCompleted, PrepareContext, StartContext
  <2>5. CASE CollectorHandlesEvent
    BY <2>5 DEF CollectorHandlesEvent, CollectorPrepares, CollectorStarts, CollectorHandlesSchedulingStarted,
       CollectorHandlesSchedulingCompleted, CollectorHandlesExecutionCompleted, PrepareContext, StartContext
  <2>6. CASE GeneratorHandlesEvent
    BY <2>6, NoSuchStep DEF GeneratorHandlesEvent, GeneratorPrepares, GeneratorStarts,
       GeneratorHandlesSchedulingCompleted, PrepareContext, StartContext
  <2>7. CASE ScheduleTask \/ CompleteScheduling
    BY <2>7 DEF ScheduleTask, CompleteScheduling
  <2>8. CASE c \in Resources /\ ResourceHandlesEvent(c)
    BY <2>8 DEF ResourceHandlesEvent, HandleResourceStatus, DropCommand, StartFails, StopRunResources
  <2> QED BY <2>1, <2>2, <2>3, <2>4, <2>5, <2>6, <2>7, <2>8 DEF ConsumerStep
<1> QED BY <1>1, <1>2, <1>3, <1>4, <1>5, <1>6 DEF Next

(* resource_has_changed_status never takes the system out of ERROR: the resource that failed     *)
(* stays the reason.                                                                             *)
THEOREM ErrorStays == ASSUME UndisturbedRuns PROVE StartedSpec => ErrorIsFinal
<1>1. IInv /\ [Next]_vars => [systemStatus = "ERROR" => systemStatus' = "ERROR"]_vars
  BY ErrorKept
<1> QED BY <1>1, LifecycleInvariant, PTL DEF StartedSpec, ErrorIsFinal

-----------------------------------------------------------------------------
(* The observations of the agent: a trajectory is fresh if it was announced after the command to *)
(* start, so that the agent will be RUNNING when it comes to it.                                 *)
Starting(q) == \E j \in DOMAIN q : q[j].type = "START_RUN"
Fresh(q) ==
  {i \in DOMAIN q : q[i] = TrajectoryCompleted /\ \A j \in DOMAIN q : q[j].type = "START_RUN" => j < i}

Observations ==
  /\ status[Agent] = "READY" => nRewardObservation = 0
  /\ status[Agent] = "RUNNING" \/ Starting(inbox[Agent])
       => nRewardObservation + Cardinality(Fresh(inbox[Agent])) = Cardinality(notified)

LEMMA FreshType ==
  ASSUME NEW S, NEW q \in Seq(S)
  PROVE  IsFiniteSet(Fresh(q)) /\ Cardinality(Fresh(q)) \in Nat
<1>1. Len(q) \in Nat /\ DOMAIN q = 1..Len(q)
  OBVIOUS
<1>2. Fresh(q) \in SUBSET (1..Len(q)) /\ IsFiniteSet(1..Len(q))
  BY <1>1, FS_Interval DEF Fresh
<1>3. IsFiniteSet(Fresh(q))
  BY <1>2, FS_Subset
<1> QED BY <1>3, FS_CardinalityType

LEMMA FreshAppend ==
  ASSUME NEW S, NEW q \in Seq(S), NEW e \in S
  PROVE  /\ Starting(Append(q, e)) <=> Starting(q) \/ e.type = "START_RUN"
         /\ e.type = "START_RUN" => Fresh(Append(q, e)) = {}
         /\ e = TrajectoryCompleted => Cardinality(Fresh(Append(q, e))) = Cardinality(Fresh(q)) + 1
         /\ e # TrajectoryCompleted /\ e.type # "START_RUN"
              => Cardinality(Fresh(Append(q, e))) = Cardinality(Fresh(q))
<1> DEFINE n == Len(q)
           p == Append(q, e)
<1>1. /\ n \in Nat /\ DOMAIN q = 1..n
      /\ DOMAIN p = 1..n+1 /\ (\A i \in 1..n : p[i] = q[i]) /\ p[n+1] = e
  OBVIOUS
<1>2. TrajectoryCompleted.type # "START_RUN"
  BY DEF TrajectoryCompleted
<1>3. IsFiniteSet(Fresh(q))
  BY FreshType
<1> HIDE DEF p, n
<1>4. Starting(p) <=> Starting(q) \/ e.type = "START_RUN"
  BY <1>1 DEF Starting
<1>5. ASSUME e.type = "START_RUN" PROVE Fresh(p) = {}
  <2> SUFFICES ASSUME NEW i \in Fresh(p) PROVE FALSE
    OBVIOUS
  <2>1. i \in 1..n+1 /\ n+1 < i
    BY <1>1, <1>5 DEF Fresh
  <2> QED BY <1>1, <2>1
<1>6. ASSUME e = TrajectoryCompleted PROVE Fresh(p) = Fresh(q) \union {n+1} /\ n+1 \notin Fresh(q)
  <2>1. ASSUME NEW i PROVE i \in Fresh(p) <=> i \in Fresh(q) \/ i = n+1
    BY <1>1, <1>2, <1>6 DEF Fresh
  <2> QED BY <1>1, <2>1 DEF Fresh
<1>7. ASSUME e # TrajectoryCompleted, e.type # "START_RUN" PROVE Fresh(p) = Fresh(q)
  <2>1. ASSUME NEW i PROVE i \in Fresh(p) <=> i \in Fresh(q)
    BY <1>1, <1>7 DEF Fresh
  <2> QED BY <2>1
<1>8. ASSUME e = TrajectoryCompleted PROVE Cardinality(Fresh(p)) = Cardinality(Fresh(q)) + 1
  BY <1>3, <1>6, <1>8, FS_AddElement
<1> QED BY <1>4, <1>5, <1>7, <1>8 DEF p

LEMMA FreshTail ==
  ASSUME NEW S, NEW q \in Seq(S), q # <<>>
  PROVE  /\ Starting(Tail(q)) => Starting(q)
         /\ Head(q) = TrajectoryCompleted /\ ~Starting(q)
              => Cardinality(Fresh(q)) = Cardinality(Fresh(Tail(q))) + 1
         /\ Head(q) # TrajectoryCompleted \/ Starting(q)
              => Cardinality(Fresh(Tail(q))) = Cardinality(Fresh(q))
<1> DEFINE n == Len(q)
           p == Tail(q)
<1>1. /\ n \in Nat /\ n > 0 /\ DOMAIN q = 1..n /\ p \in Seq(S)
      /\ DOMAIN p = 1..n-1 /\ (\A i \in 1..n-1 : p[i] = q[i+1]) /\ Head(q) = q[1]
  OBVIOUS
<1>2. TrajectoryCompleted.type # "START_RUN"
  BY DEF TrajectoryCompleted
<1>3. IsFiniteSet(Fresh(q)) /\ IsFiniteSet(Fresh(p))
  BY <1>1, FreshType
<1> HIDE DEF p, n
<1>4. Starting(p) => Starting(q)
  BY <1>1 DEF Starting
<1> DEFINE behind == Fresh(q) \ {1}
           f == [i \in Fresh(p) |-> i + 1]
<1>5. /\ \A i \in Fresh(p) : i \in 1..n-1 /\ i + 1 \in behind
      /\ \A i \in behind : i - 1 \in Fresh(p)
  <2>1. ASSUME NEW i \in Fresh(p) PROVE i \in 1..n-1 /\ i + 1 \in behind
    <3>1. i \in 1..n-1 /\ q[i+1] = TrajectoryCompleted /\ i + 1 \in 1..n /\ i + 1 # 1
      BY <1>1 DEF Fresh
    <3>2. ASSUME NEW j \in 1..n, q[j].type = "START_RUN" PROVE j < i + 1
      <4>1. CASE j = 1
        BY <3>1, <4>1
      <4>2. CASE j # 1
        <5>1. j - 1 \in 1..n-1 /\ (j - 1) + 1 = j
          BY <1>1, <4>2
        <5>2. p[j-1] = q[j]
          BY <1>1, <5>1
        <5>3. j - 1 < i
          BY <1>1, <3>2, <5>1, <5>2 DEF Fresh
        <5> QED BY <3>1, <5>3
      <4> QED BY <4>1, <4>2
    <3> QED BY <1>1, <3>1, <3>2 DEF Fresh
  <2>2. ASSUME NEW i \in behind PROVE i - 1 \in Fresh(p)
    <3>1. i \in 1..n /\ i # 1 /\ i - 1 \in 1..n-1 /\ (i - 1) + 1 = i /\ q[i] = TrajectoryCompleted
      BY <1>1 DEF Fresh
    <3>2. p[i-1] = TrajectoryCompleted
      BY <1>1, <3>1
    <3>3. ASSUME NEW j \in 1..n-1, p[j].type = "START_RUN" PROVE j < i - 1
      <4>1. j + 1 \in 1..n /\ q[j+1].type = "START_RUN"
        BY <1>1, <3>3
      <4>2. j + 1 < i
        BY <1>1, <4>1 DEF Fresh
      <4> QED BY <3>1, <4>2
    <3> QED BY <1>1, <3>1, <3>2, <3>3 DEF Fresh
  <2> QED BY <2>1, <2>2
<1>6. Cardinality(behind) = Cardinality(Fresh(p))
  <2>1. f \in [Fresh(p) -> behind]
    BY <1>5
  <2>2. \A i, j \in Fresh(p) : f[i] = f[j] => i = j
    BY <1>1, <1>5
  <2>3. \A i \in behind : i - 1 \in Fresh(p) /\ f[i - 1] = i
    <3> SUFFICES ASSUME NEW i \in behind PROVE i - 1 \in Fresh(p) /\ f[i - 1] = i
      OBVIOUS
    <3>1. i \in 1..n
      BY <1>1 DEF Fresh
    <3> QED BY <1>5, <3>1
  <2>4. f \in Bijection(Fresh(p), behind)
    BY <2>1, <2>2, <2>3 DEF Bijection, Injection, Surjection, IsInjective
  <2>5. ExistsBijection(Fresh(p), behind)
    BY <2>4 DEF ExistsBijection
  <2> QED BY <1>3, <2>5, FS_Bijection
<1>7. ASSUME Head(q) = TrajectoryCompleted, ~Starting(q)
      PROVE  Cardinality(Fresh(q)) = Cardinality(Fresh(p)) + 1
  <2>1. 1 \in Fresh(q)
    BY <1>1, <1>7 DEF Fresh, Starting
  <2>2. Cardinality(behind) = Cardinality(Fresh(q)) - 1 /\ Cardinality(Fresh(q)) \in Nat
    BY <1>3, <2>1, FS_RemoveElement, FS_CardinalityType
  <2> QED BY <1>6, <2>2
<1>8. ASSUME Head(q) # TrajectoryCompleted \/ Starting(q)
      PROVE  Cardinality(Fresh(p)) = Cardinality(Fresh(q))
  <2>1. 1 \notin Fresh(q)
    <3>1. CASE Head(q) # TrajectoryCompleted
      BY <1>1, <3>1 DEF Fresh
    <3>2. CASE Starting(q)
      BY <1>1, <3>2 DEF Fresh, Starting
    <3> QED BY <1>8, <3>1, <3>2
  <2>2. behind = Fresh(q)
    BY <2>1
  <2> QED BY <1>6, <2>2
<1> QED BY <1>4, <1>7, <1>8 DEF p


(* What a step does to the inbox of the agent, seen from there.                                  *)
Other(e) == e # TrajectoryCompleted /\ e.type # "START_RUN"
Calm ==
  /\ Cardinality(Fresh(inbox'[Agent])) = Cardinality(Fresh(inbox[Agent]))
  /\ Starting(inbox'[Agent]) => Starting(inbox[Agent])

LEMMA AgentInbox ==
  ASSUME IInv
  PROVE  Agent \in Components /\ Agent \in Resources /\ inbox[Agent] \in Seq(Event)
BY InboxTypes, ComponentsAre DEF IInv

LEMMA CalmKeeps ==
  ASSUME Observations, Calm, status'[Agent] = status[Agent], UNCHANGED <<nRewardObservation, notified>>
  PROVE  Observations'
BY DEF Observations, Calm

LEMMA CalmAppend ==
  ASSUME IInv, NEW e \in Event, Other(e),
         inbox'[Agent] = inbox[Agent] \/ inbox'[Agent] = Append(inbox[Agent], e)
  PROVE  Calm
<1>1. CASE inbox'[Agent] = inbox[Agent]
  BY <1>1 DEF Calm
<1>2. CASE inbox'[Agent] = Append(inbox[Agent], e)
  <2>1. /\ Cardinality(Fresh(Append(inbox[Agent], e))) = Cardinality(Fresh(inbox[Agent]))
        /\ Starting(Append(inbox[Agent], e)) => Starting(inbox[Agent])
    BY AgentInbox, FreshAppend DEF Other
  <2> QED BY <1>2, <2>1, Zenon DEF Calm
<1> QED BY <1>1, <1>2

LEMMA InboxDelivered ==
  ASSUME IInv, NEW ib \in [Components -> Seq(Event)], NEW e \in Event
  PROVE  Deliver(ib, e)[Agent] = IF Relevant(Agent, e) THEN Append(ib[Agent], e) ELSE ib[Agent]
BY ComponentsAre DEF IInv, UpAndRunning, Deliver, Up

LEMMA CalmPublish ==
  ASSUME IInv, NEW e \in Event, Other(e), inbox' = Deliver(inbox, e)
  PROVE  Calm
<1>1. inbox'[Agent] = inbox[Agent] \/ inbox'[Agent] = Append(inbox[Agent], e)
  BY InboxDelivered, InboxTypes DEF IInv
<1> QED BY <1>1, CalmAppend

LEMMA CalmReact ==
  ASSUME IInv, NEW c \in Components, c # Agent, inbox[c] # <<>>, NEW es \in Seq(Event), React(c, es),
         es = <<>> \/ Other(Head(es))
  PROVE  Calm
<1> DEFINE taken == [inbox EXCEPT ![c] = Tail(@)]
<1>1. CASE es = <<>>
  <2>1. inbox'[Agent] = inbox[Agent]
    BY <1>1, AgentInbox DEF React, IInv, TypeOK, BusTypeOK
  <2> QED BY <2>1 DEF Calm
<1>2. CASE es # <<>>
  <2> DEFINE e == Head(es)
  <2>1. taken \in [Components -> Seq(Event)] /\ taken[Agent] = inbox[Agent] /\ e \in Event /\ Other(e)
    BY <1>2, InboxTypes, AgentInbox DEF IInv
  <2>2. inbox' = Deliver(taken, e)
    BY <1>2 DEF React
  <2> HIDE DEF taken, e
  <2>3. inbox'[Agent] = inbox[Agent] \/ inbox'[Agent] = Append(inbox[Agent], e)
    BY <2>1, <2>2, InboxDelivered
  <2> QED BY <2>1, <2>3, CalmAppend
<1> QED BY <1>1, <1>2

LEMMA CalmOwnReact ==
  ASSUME IInv, inbox[Agent] # <<>>, NEW es \in Seq(Event), React(Agent, es),
         es = <<>> \/ Other(Head(es))
  PROVE  /\ Head(inbox[Agent]) # TrajectoryCompleted \/ Starting(inbox[Agent]) => Calm
         /\ Starting(inbox'[Agent]) => Starting(Tail(inbox[Agent]))
         /\ es = <<>> => inbox'[Agent] = Tail(inbox[Agent])
<1> DEFINE taken == [inbox EXCEPT ![Agent] = Tail(@)]
           q == Tail(inbox[Agent])
<1>1. taken \in [Components -> Seq(Event)] /\ taken[Agent] = q /\ q \in Seq(Event)
  BY InboxTypes, AgentInbox DEF IInv
<1>2. inbox'[Agent] = q \/ (es # <<>> /\ inbox'[Agent] = Append(q, Head(es)) /\ Head(es) \in Event)
  <2>1. CASE es = <<>>
    BY <1>1, <2>1 DEF React
  <2>2. CASE es # <<>>
    <3>1. inbox' = Deliver(taken, Head(es)) /\ Head(es) \in Event
      BY <2>2 DEF React
    <3> HIDE DEF taken, q
    <3> QED BY <1>1, <2>2, <3>1, InboxDelivered
  <2> QED BY <2>1, <2>2
<1> HIDE DEF taken, q
<1>3. /\ Starting(inbox'[Agent]) <=> Starting(q)
      /\ Cardinality(Fresh(inbox'[Agent])) = Cardinality(Fresh(q))
  <2>1. CASE inbox'[Agent] = q
    BY <2>1
  <2>2. CASE es # <<>> /\ inbox'[Agent] = Append(q, Head(es)) /\ Head(es) \in Event
    <3> DEFINE e == Head(es)
    <3>1. e \in Event /\ Other(e) /\ inbox'[Agent] = Append(q, e)
      BY <2>2
    <3> HIDE DEF e
    <3> QED BY <1>1, <3>1, FreshAppend DEF Other
  <2> QED BY <1>2, <2>1, <2>2
<1>4. es = <<>> => inbox'[Agent] = q
  BY <1>2
<1> QED BY <1>3, <1>4, AgentInbox, FreshTail DEF Calm, q


OtherEvents == {e \in Event : Other(e)}

LEMMA OtherEventsAre ==
  /\ \A s \in Status : SystemStatusChanged(s) \in OtherEvents
  /\ \A n \in Components \union {Celery}, s \in Status : ResourceStatusChanged(n, s) \in OtherEvents
  /\ \A run \in MaybeRun : PrepareNewRun(run) \in OtherEvents /\ RunCompleted(run) \in OtherEvents
  /\ \A g \in StatsGroups : StatsUpdated(g) \in OtherEvents
  /\ \A p \in RunPhase, n \in Nat :
       SchedulingStarted(p, n) \in OtherEvents /\ SchedulingCompleted(p, n) \in OtherEvents
  /\ \A p \in RunPhase : ExecutionCompleted(p) \in OtherEvents
<1>1. \A e \in Event : e.type \notin {"TRAJECTORY_COMPLETED", "START_RUN"} => e \in OtherEvents
  BY DEF OtherEvents, Other, TrajectoryCompleted
<1>2. /\ \A s \in Status : SystemStatusChanged(s) \in OtherEvents
      /\ \A n \in Components \union {Celery}, s \in Status : ResourceStatusChanged(n, s) \in OtherEvents
  <2>1. \A s : SystemStatusChanged(s).type = "SYSTEM_STATUS_CHANGED"
    BY DEF SystemStatusChanged
  <2>2. \A n, s : ResourceStatusChanged(n, s).type = "RESOURCE_STATUS_CHANGED"
    BY DEF ResourceStatusChanged
  <2> QED BY <1>1, <2>1, <2>2, StatusEventTypes
<1>3. \A run \in MaybeRun : PrepareNewRun(run) \in OtherEvents /\ RunCompleted(run) \in OtherEvents
  <2>1. \A run : PrepareNewRun(run).type = "PREPARE_NEW_RUN" /\ RunCompleted(run).type = "RUN_COMPLETED"
    BY DEF PrepareNewRun, RunCompleted
  <2> QED BY <1>1, <2>1, CommandEventTypes
<1>4. /\ \A g \in StatsGroups : StatsUpdated(g) \in OtherEvents
      /\ \A p \in RunPhase, n \in Nat :
           SchedulingStarted(p, n) \in OtherEvents /\ SchedulingCompleted(p, n) \in OtherEvents
      /\ \A p \in RunPhase : ExecutionCompleted(p) \in OtherEvents
  <2>1. /\ \A g : StatsUpdated(g).type = "STATS_UPDATED"
        /\ \A p, n : SchedulingStarted(p, n).type = "SCHEDULING_STARTED"
                       /\ SchedulingCompleted(p, n).type = "SCHEDULING_COMPLETED"
        /\ \A p : ExecutionCompleted(p).type = "EXECUTION_COMPLETED"
    BY DEF StatsUpdated, SchedulingStarted, SchedulingCompleted, ExecutionCompleted
  <2> QED BY <1>1, <2>1, ExecutionEventTypes
<1> QED BY <1>2, <1>3, <1>4

(* A turn of another consumer thread, and a publication of another thread.                       *)
LEMMA OthersObs ==
  ASSUME IInv, Observations, NEW c \in Components, c # Agent, inbox[c] # <<>>,
         NEW es \in Seq(OtherEvents), React(c, es),
         status'[Agent] = status[Agent], UNCHANGED <<nRewardObservation, notified>>
  PROVE  Observations'
<1>1. es \in Seq(Event) /\ (es = <<>> \/ Other(Head(es)))
  BY DEF OtherEvents
<1> QED BY <1>1, CalmReact, CalmKeeps

LEMMA PublishObs ==
  ASSUME IInv, Observations, NEW e \in OtherEvents, inbox' = Deliver(inbox, e),
         status'[Agent] = status[Agent], UNCHANGED <<nRewardObservation, notified>>
  PROVE  Observations'
<1>1. e \in Event /\ Other(e)
  BY DEF OtherEvents
<1> QED BY <1>1, CalmPublish, CalmKeeps

LEMMA SilentObs ==
  ASSUME Observations, UNCHANGED inbox, status'[Agent] = status[Agent],
         UNCHANGED <<nRewardObservation, notified>>
  PROVE  Observations'
BY CalmKeeps DEF Calm

LEMMA FlushObs == ASSUME IInv, Observations, NEW c \in Components, Flush(c) PROVE Observations'
<1> DEFINE e == Head(outbox[c])
<1>1. /\ outbox[c] # <<>> /\ outbox[c] \in Seq(Event) /\ inbox' = Deliver(inbox, e)
      /\ status' = status /\ UNCHANGED <<nRewardObservation, notified>>
  BY InboxTypes DEF Flush, IInv
<1>2. e \in Event /\ e \in Contents(outbox[c])
  BY <1>1, ContentsOf
<1>3. e.type \in {"RESOURCE_STATUS_CHANGED", "SCHEDULING_STARTED"}
  BY <1>2, OutboxContents
<1>4. e \in OtherEvents
  BY <1>2, <1>3 DEF OtherEvents, Other, TrajectoryCompleted
<1> HIDE DEF e
<1> QED BY <1>1, <1>4, PublishObs

-----------------------------------------------------------------------------
(* The manager.                                                                                  *)
LEMMA ManagerHandlesReadyObs ==
  ASSUME IInv, TypeOK', Observations, ManagerHandlesReady PROVE Observations'
<1>1. /\ inbox[SystemManager] # <<>> /\ SystemManager \in Components /\ SystemManager # Agent
      /\ status' = status /\ UNCHANGED <<nRewardObservation, notified>>
  BY ComponentsAre DEF ManagerHandlesReady, Receives, IInv
<1>2. CASE systemStatus # "READY" \/ currentRunStarted
  <2>1. React(SystemManager, <<>>) /\ <<>> \in Seq(OtherEvents)
    BY <1>2 DEF ManagerHandlesReady
  <2> QED BY <1>1, <2>1, OthersObs
<1>3. CASE systemStatus = "READY" /\ ~currentRunStarted
  <2> DEFINE e == StartRun(currentRun)
             taken == [inbox EXCEPT ![SystemManager] = Tail(@)]
  <2>1. Stage = "READY" /\ currentRun # NoRun /\ ~Has(SystemManager, "RUN_COMPLETED") /\ ~Taking
    BY <1>3, StageIs DEF IInv, StatusKnown, BeforeOf, Stage
  <2>2. Agreed(Agent) /\ Agreed(Collector)
    BY <1>3, <2>1, AllAgreed, ComponentsAre DEF IInv
  <2>3. status[Agent] = "READY" /\ status[Collector] = "READY"
    BY <2>1, <2>2 DEF Agreed
  <2>4. nRewardObservation = 0 /\ notified = {}
    <3>1. sent = 0
      BY <2>1, <2>3 DEF IInv, Preparing
    <3>2. notified \subseteq 1..0
      BY <3>1 DEF IInv, TypeOK, TaskTypeOK
    <3> QED BY <2>3, <3>2 DEF Observations
  <2>5. e \in Event /\ e.type = "START_RUN" /\ Relevant(Agent, e)
    BY CommandEventTypes DEF IInv, TypeOK, RunTypeOK, StartRun, Relevant
  <2>6. /\ inbox' = Deliver(taken, e) /\ taken \in [Components -> Seq(Event)]
        /\ taken[Agent] = inbox[Agent]
    BY <1>1, <1>3, <2>1, InboxTypes, AgentInbox DEF ManagerHandlesReady, React, IInv
  <2> HIDE DEF e, taken
  <2>7. inbox'[Agent] = Append(inbox[Agent], e)
    BY <2>5, <2>6, InboxDelivered
  <2>8. Fresh(Append(inbox[Agent], e)) = {}
    BY <2>5, AgentInbox, FreshAppend
  <2>9. Cardinality(Fresh(inbox'[Agent])) = 0 /\ Cardinality({}) = 0
    BY <2>7, <2>8, FS_EmptySet
  <2> QED BY <1>1, <2>3, <2>4, <2>9 DEF Observations
<1> QED BY <1>2, <1>3

LEMMA ManagerHandlesEventObs ==
  ASSUME IInv, TypeOK', Observations, ManagerHandlesEvent PROVE Observations'
<1>1. SystemManager \in Components /\ SystemManager # Agent
  BY ComponentsAre DEF IInv
<1>2. <<>> \in Seq(OtherEvents)
  OBVIOUS
<1>3. CASE ManagerHandlesResourceStatus
  <2> DEFINE e == Head(inbox[SystemManager])
  <2>1. Answer(e) \in Seq(OtherEvents)
    <3>1. ResourceStatusChanged(SystemManager, smStatus) \in OtherEvents
      BY <1>1, OtherEventsAre DEF IInv, TypeOK, ManagerTypeOK
    <3> QED BY <3>1 DEF Answer
  <2>2. StatusEvents(systemStatus') \in Seq(OtherEvents)
    <3>1. SystemStatusChanged(systemStatus') \in OtherEvents
      BY OtherEventsAre DEF TypeOK, ManagerTypeOK
    <3> QED BY <3>1 DEF StatusEvents
  <2>3. /\ React(SystemManager, Answer(e) \o StatusEvents(systemStatus')) /\ inbox[SystemManager] # <<>>
        /\ UNCHANGED <<status, nRewardObservation, notified>>
    BY <1>3 DEF ManagerHandlesResourceStatus, Receives
  <2> HIDE DEF e
  <2>4. Answer(e) \o StatusEvents(systemStatus') \in Seq(OtherEvents)
    BY <2>1, <2>2
  <2> QED BY <1>1, <2>3, <2>4, OthersObs
<1>4. CASE ManagerHandlesReady
  BY <1>4, ManagerHandlesReadyObs
<1>5. CASE ManagerHandlesStats
  <2> DEFINE es == IF ~StatsCollected(statsGroups') \/ ~isCurrentExecutionCompleted THEN <<>>
                   ELSE IF smRunCode = NoRun THEN <<ResourceStatusChanged(SystemManager, "ERROR")>>
                   ELSE <<RunCompleted(smRunCode)>>
  <2>1. RunCompleted(smRunCode) \in OtherEvents /\ ResourceStatusChanged(SystemManager, "ERROR") \in OtherEvents
    BY <1>1, OtherEventsAre DEF IInv, TypeOK, ManagerTypeOK
  <2>2. es \in Seq(OtherEvents)
    BY <2>1
  <2>3. React(SystemManager, es) /\ inbox[SystemManager] # <<>> /\ UNCHANGED <<status, nRewardObservation, notified>>
    BY <1>5 DEF ManagerHandlesStats, Receives
  <2> HIDE DEF es
  <2> QED BY <1>1, <2>2, <2>3, OthersObs
<1>6. CASE ManagerHandlesWaiting \/ ManagerHandlesPrepare \/ ManagerHandlesSchedulingStarted
             \/ ManagerHandlesExecutionCompleted \/ ManagerHandlesRunCompleted
  <2>1. /\ React(SystemManager, <<>>) /\ inbox[SystemManager] # <<>>
        /\ UNCHANGED <<status, nRewardObservation, notified>>
    BY <1>6 DEF ManagerHandlesWaiting, ManagerHandlesPrepare, ManagerHandlesSchedulingStarted,
       ManagerHandlesExecutionCompleted, ManagerHandlesRunCompleted, Receives
  <2> QED BY <1>1, <1>2, <2>1, OthersObs
<1> QED BY <1>3, <1>4, <1>5, <1>6 DEF ManagerHandlesEvent

LEMMA SchedulerObs ==
  ASSUME IInv, Observations, NEW t \in {"consumer", "control"}, TakeRun(t) \/ PublishPrepare(t)
  PROVE  Observations'
<1>1. UNCHANGED <<status, nRewardObservation, notified>>
  BY DEF TakeRun, PublishPrepare
<1>2. CASE TakeRun(t)
  BY <1>1, <1>2, SilentObs DEF TakeRun
<1>3. CASE PublishPrepare(t)
  <2>1. PrepareNewRun(currentRun) \in OtherEvents
    BY OtherEventsAre DEF IInv, TypeOK, RunTypeOK
  <2> QED BY <1>1, <1>3, <2>1, PublishObs DEF PublishPrepare, Publish
<1> QED BY <1>2, <1>3


-----------------------------------------------------------------------------
(* The resources.                                                                                *)
LEMMA StartingMeans ==
  ASSUME IInv, Starting(inbox[Agent])
  PROVE  Awaits(Agent) /\ Stage = "RUNNING" /\ status[Agent] = "READY" /\ Has(Agent, "START_RUN")
<1>1. Has(Agent, "START_RUN") /\ Lock(Agent)
  BY AgentInbox, QueueIs DEF Starting, Has, Contents, IInv, Lockstep
<1>2. Awaits(Agent)
  BY <1>1 DEF Lock, Reports, Agreed, Broken, NoneOf, Has, Commands
<1>3. CommandOf(Stage) = "START_RUN"
  BY <1>1, <1>2 DEF Awaits, NoneOf, Has, Commands
<1>4. Stage = "RUNNING"
  BY <1>3, StageIs DEF CommandOf
<1> QED BY <1>1, <1>2, <1>4 DEF Awaits, BeforeOf

(* What only another resource does.                                                              *)
LEMMA HandleResourceStatusObs ==
  ASSUME IInv, Observations, NEW r \in Resources, HandleResourceStatus(r) PROVE Observations'
<1> DEFINE e == Head(inbox[r])
<1>1. /\ r \in Components /\ r # SystemManager /\ inbox[r] # <<>> /\ e.type = "RESOURCE_STATUS_CHANGED"
      /\ UNCHANGED <<nRewardObservation, notified>> /\ <<>> \in Seq(Event) /\ <<>> \in Seq(OtherEvents)
  BY ComponentsAre DEF HandleResourceStatus, Receives, IInv
<1>2. e \in Queue[r]
  BY <1>1, HeadOf DEF IInv
<1>3. e.name = r
  BY <1>1, <1>2 DEF IInv, EventsOK, EventOK
<1>4. React(r, <<>>) /\ status' = [status EXCEPT ![r] = e.status]
  BY <1>3 DEF HandleResourceStatus
<1>5. status \in [Resources -> {"NOT_READY", "WAITING", "READY", "RUNNING", "STOPPED", "ERROR"}]
  BY DEF IInv, TypeOK, ResourceTypeOK
<1>6. CASE r # Agent
  <2>1. status'[Agent] = status[Agent]
    BY <1>4, <1>5, <1>6, AgentInbox
  <2> QED BY <1>1, <1>4, <1>6, <2>1, OthersObs
<1>7. CASE r = Agent
  <2>1. status'[Agent] = e.status
    BY <1>4, <1>5, <1>7, AgentInbox
  <2>2. e.status = status[Agent] \/ (Broken(Agent) /\ e.status = "ERROR")
    BY <1>1, <1>2, <1>7 DEF IInv, Lockstep, Lock, Awaits, Reports, Agreed, Broken, EchoesOnly
  <2>3. e # TrajectoryCompleted
    BY <1>1 DEF TrajectoryCompleted
  <2>4. Calm
    BY <1>1, <1>4, <1>7, <2>3, CalmOwnReact
  <2>5. CASE e.status = status[Agent]
    BY <1>1, <2>1, <2>4, <2>5, CalmKeeps
  <2>6. CASE Broken(Agent) /\ e.status = "ERROR"
    <3>1. ~Starting(inbox[Agent])
      BY <2>6, StartingMeans DEF Broken, NoneOf, Has
    <3> QED BY <2>1, <2>4, <2>6, <3>1 DEF Observations, Calm
  <2> QED BY <2>2, <2>5, <2>6
<1> QED BY <1>6, <1>7

LEMMA DropCommandObs ==
  ASSUME IInv, Observations, NEW r \in Resources, DropCommand(r) PROVE Observations'
<1>1. /\ r \in Components /\ inbox[r] # <<>> /\ React(r, <<>>) /\ <<>> \in Seq(Event)
      /\ <<>> \in Seq(OtherEvents) /\ UNCHANGED <<status, nRewardObservation, notified>>
  BY ComponentsAre DEF DropCommand, Receives, IInv
<1>2. CASE r # Agent
  BY <1>1, <1>2, OthersObs
<1>3. CASE r = Agent
  <2>1. /\ Head(inbox[Agent]) # TrajectoryCompleted \/ Starting(inbox[Agent]) => Calm
        /\ Starting(inbox'[Agent]) => Starting(inbox[Agent])
    BY <1>1, <1>3, CalmOwnReact, FreshTail, AgentInbox
  <2>2. CASE Head(inbox[Agent]) # TrajectoryCompleted \/ Starting(inbox[Agent])
    BY <1>1, <2>1, <2>2, CalmKeeps
  <2>3. CASE Head(inbox[Agent]) = TrajectoryCompleted /\ ~Starting(inbox[Agent])
    <3>1. status[Agent] # "RUNNING"
      BY <1>3, <2>3 DEF DropCommand, Receives, CommandStatus, TrajectoryCompleted
    <3> QED BY <1>1, <2>1, <2>3, <3>1 DEF Observations
  <2> QED BY <2>2, <2>3
<1> QED BY <1>2, <1>3

LEMMA StartFailsObs ==
  ASSUME IInv, Observations, NEW r \in Resources, StartFails(r) PROVE Observations'
<1> DEFINE es == <<ResourceStatusChanged(r, "ERROR")>>
<1>1. /\ r \in Components /\ inbox[r] # <<>> /\ Head(inbox[r]).type = "START_RUN" /\ React(r, es)
      /\ UNCHANGED <<status, nRewardObservation, notified>>
  BY ComponentsAre DEF StartFails, Accepts, Receives, IInv
<1>2. es \in Seq(OtherEvents)
  BY <1>1, OtherEventsAre
<1> HIDE DEF es
<1>3. es \in Seq(Event) /\ (es = <<>> \/ Other(Head(es)))
  BY <1>2 DEF OtherEvents
<1>4. CASE r # Agent
  BY <1>1, <1>2, <1>4, OthersObs
<1>5. CASE r = Agent
  <2>1. Head(inbox[Agent]) # TrajectoryCompleted
    BY <1>1, <1>5 DEF TrajectoryCompleted
  <2>2. Calm
    BY <1>1, <1>3, <1>5, <2>1, CalmOwnReact
  <2> QED BY <1>1, <2>2, CalmKeeps
<1> QED BY <1>4, <1>5

LEMMA StopRunResourcesObs ==
  ASSUME IInv, Observations, NEW r \in Resources, StopRunResources(r) PROVE Observations'
<1> DEFINE es == <<ResourceStatusChanged(r, "WAITING")>>
<1>1. /\ r \in Components /\ inbox[r] # <<>> /\ React(r, es) /\ status' = [status EXCEPT ![r] = "WAITING"]
      /\ UNCHANGED <<nRewardObservation, notified>>
  BY ComponentsAre DEF StopRunResources, Accepts, Receives, IInv
<1>2. es \in Seq(OtherEvents)
  BY <1>1, OtherEventsAre
<1> HIDE DEF es
<1>3. es \in Seq(Event) /\ (es = <<>> \/ Other(Head(es)))
  BY <1>2 DEF OtherEvents
<1>4. status \in [Resources -> {"NOT_READY", "WAITING", "READY", "RUNNING", "STOPPED", "ERROR"}]
  BY DEF IInv, TypeOK, ResourceTypeOK
<1>5. CASE r # Agent
  <2>1. status'[Agent] = status[Agent]
    BY <1>1, <1>4, <1>5, AgentInbox
  <2> QED BY <1>1, <1>2, <1>5, <2>1, OthersObs
<1>6. CASE r = Agent
  <2>1. status[Agent] = "RUNNING"
    BY <1>6 DEF StopRunResources, Accepts, CommandStatus
  <2>2. ~Starting(inbox[Agent])
    BY <2>1, StartingMeans
  <2>3. ~Starting(inbox'[Agent])
    BY <1>1, <1>3, <1>6, <2>2, CalmOwnReact, FreshTail, AgentInbox
  <2>4. status'[Agent] = "WAITING"
    BY <1>1, <1>4, <1>6, AgentInbox
  <2> QED BY <2>3, <2>4 DEF Observations
<1> QED BY <1>5, <1>6


LEMMA PrepareOthersObs ==
  ASSUME IInv, Observations, NEW r \in Resources, r # Agent, PrepareContext(r),
         UNCHANGED <<nRewardObservation, notified>>
  PROVE  Observations'
<1>1. r \in Components /\ inbox[r] # <<>>
  BY DEF PrepareContext, Accepts, Receives, Components
<1>2. PICK o \in {"READY", "ERROR"} :
        status' = [status EXCEPT ![r] = o] /\ React(r, <<ResourceStatusChanged(r, o)>>)
  BY DEF PrepareContext
<1> DEFINE es == <<ResourceStatusChanged(r, o)>>
<1>3. es \in Seq(OtherEvents)
  BY <1>1, OtherEventsAre
<1>4. React(r, es)
  BY <1>2
<1> HIDE DEF es
<1>5. status'[Agent] = status[Agent]
  BY <1>2, AgentInbox DEF IInv, TypeOK, ResourceTypeOK
<1> QED BY <1>1, <1>3, <1>4, <1>5, OthersObs

LEMMA CollectorPreparesObs ==
  ASSUME IInv, Observations, CollectorPrepares PROVE Observations'
<1>1. /\ Collector \in Resources /\ Collector \in Components /\ "PREPARE_NEW_RUN" \in Commands
      /\ Collector # Agent
  BY ComponentsAre DEF IInv, Commands
<1>2. Receives(Collector, "PREPARE_NEW_RUN") /\ status[Collector] = "WAITING"
  BY DEF CollectorPrepares, PrepareContext, Accepts, CommandStatus
<1>3. Stage = "READY"
  <2>1. CommandOf(Stage) = "PREPARE_NEW_RUN"
    BY <1>1, <1>2, CommandInForce, CommandStatusIs
  <2> QED BY <2>1, StageIs DEF CommandOf
<1>4. status[Agent] # "RUNNING" /\ ~Starting(inbox[Agent])
  <2>1. status[Agent] # "RUNNING"
    BY <1>3, AgentInbox DEF IInv, Lockstep, Lock, Awaits, Reports, Agreed, Broken, BeforeOf
  <2> QED BY <1>3, <2>1, StartingMeans
<1>5. PICK o \in {"READY", "ERROR"} :
        status' = [status EXCEPT ![Collector] = o] /\ React(Collector, <<ResourceStatusChanged(Collector, o)>>)
  BY DEF CollectorPrepares, PrepareContext
<1> DEFINE es == <<ResourceStatusChanged(Collector, o)>>
<1>6. es \in Seq(OtherEvents)
  BY <1>1, OtherEventsAre
<1>7. React(Collector, es) /\ inbox[Collector] # <<>>
  BY <1>2, <1>5 DEF Receives
<1> HIDE DEF es
<1>8. es \in Seq(Event) /\ (es = <<>> \/ Other(Head(es)))
  BY <1>6 DEF OtherEvents
<1>9. ~Starting(inbox'[Agent])
  BY <1>1, <1>4, <1>7, <1>8, CalmReact DEF Calm
<1>10. status'[Agent] = status[Agent] /\ nRewardObservation' = nRewardObservation
  BY <1>1, <1>5, AgentInbox DEF IInv, TypeOK, ResourceTypeOK, CollectorPrepares
<1> QED BY <1>4, <1>9, <1>10 DEF Observations

LEMMA AgentPreparesObs ==
  ASSUME IInv, Observations, AgentPrepares PROVE Observations'
<1>1. "PREPARE_NEW_RUN" \in Commands /\ Agent \in Resources /\ Agent \in Components
  BY AgentInbox DEF Commands
<1>2. Receives(Agent, "PREPARE_NEW_RUN") /\ status[Agent] = "WAITING" /\ nRewardObservation' = 0
  BY DEF AgentPrepares, PrepareContext, Accepts, CommandStatus
<1>3. PICK o \in {"READY", "ERROR"} :
        status' = [status EXCEPT ![Agent] = o] /\ React(Agent, <<ResourceStatusChanged(Agent, o)>>)
  BY DEF AgentPrepares, PrepareContext
<1> DEFINE es == <<ResourceStatusChanged(Agent, o)>>
<1>4. es \in Seq(OtherEvents)
  BY <1>1, OtherEventsAre
<1>5. React(Agent, es) /\ inbox[Agent] # <<>>
  BY <1>2, <1>3 DEF Receives
<1> HIDE DEF es
<1>6. es \in Seq(Event) /\ (es = <<>> \/ Other(Head(es)))
  BY <1>4 DEF OtherEvents
<1>7. ~Starting(inbox'[Agent])
  <2>1. ~Starting(inbox[Agent])
    BY <1>2, StartingMeans
  <2> QED BY <1>5, <1>6, <2>1, CalmOwnReact, FreshTail, AgentInbox
<1>8. status'[Agent] # "RUNNING"
  BY <1>1, <1>3 DEF IInv, TypeOK, ResourceTypeOK
<1> QED BY <1>2, <1>7, <1>8 DEF Observations

LEMMA StartOthersObs ==
  ASSUME IInv, Observations, NEW r \in Resources, r # Agent,
         NEW es \in Seq(OtherEvents), Accepts(r, "START_RUN"), React(r, es),
         status' = [status EXCEPT ![r] = "RUNNING"], UNCHANGED <<nRewardObservation, notified>>
  PROVE  Observations'
<1>1. r \in Components /\ inbox[r] # <<>>
  BY DEF Accepts, Receives, Components
<1>2. status'[Agent] = status[Agent]
  BY AgentInbox DEF IInv, TypeOK, ResourceTypeOK
<1> QED BY <1>1, <1>2, OthersObs

LEMMA CollectorStartsObs ==
  ASSUME IInv, Observations, CollectorStarts PROVE Observations'
<1> DEFINE e == ResourceStatusChanged(Collector, "RUNNING")
<1>1. /\ Collector \in Resources /\ Collector \in Components /\ Collector # Agent
      /\ e \in OtherEvents
  BY ComponentsAre, OtherEventsAre DEF IInv
<1>2. /\ Accepts(Collector, "START_RUN") /\ React(Collector, <<>> \o <<e>> \o <<>>)
      /\ status' = [status EXCEPT ![Collector] = "RUNNING"] /\ UNCHANGED <<nRewardObservation, notified>>
  BY DEF CollectorStarts, StartContext
<1> HIDE DEF e
<1>3. <<>> \o <<e>> \o <<>> \in Seq(OtherEvents)
  BY <1>1
<1> QED BY <1>1, <1>2, <1>3, StartOthersObs

LEMMA GeneratorStartsObs ==
  ASSUME IInv, Observations, GeneratorStarts PROVE Observations'
<1> DEFINE e == ResourceStatusChanged(Generator, "RUNNING")
           s == StatsUpdated("global_stats")
           g == SchedulingStarted("RUN", TasksToGenerate)
<1>1. /\ Generator \in Resources /\ Generator \in Components /\ Generator # Agent
      /\ e \in OtherEvents /\ s \in OtherEvents /\ g \in OtherEvents
  BY ComponentsAre, OtherEventsAre, LifecycleAssumption DEF IInv, RunPhase, StatsGroups
<1>2. /\ Accepts(Generator, "START_RUN") /\ React(Generator, <<s>> \o <<e>> \o <<g>>)
      /\ status' = [status EXCEPT ![Generator] = "RUNNING"] /\ UNCHANGED <<nRewardObservation, notified>>
  BY ComponentsAre DEF GeneratorStarts, StartContext, IInv
<1> HIDE DEF e, s, g
<1>3. <<s>> \o <<e>> \o <<g>> \in Seq(OtherEvents)
  BY <1>1
<1> QED BY <1>1, <1>2, <1>3, StartOthersObs

(* From now on the agent observes: what is fresh is all that was announced.                      *)
LEMMA AgentStartsObs ==
  ASSUME IInv, Observations, AgentStarts PROVE Observations'
<1> DEFINE e == ResourceStatusChanged(Agent, "RUNNING")
           s == StatsUpdated("agent_stats")
           taken == [inbox EXCEPT ![Agent] = Tail(@)]
<1>1. /\ Accepts(Agent, "START_RUN") /\ React(Agent, <<s>> \o <<e>> \o <<>>)
      /\ status' = [status EXCEPT ![Agent] = "RUNNING"] /\ UNCHANGED <<nRewardObservation, notified>>
  BY DEF AgentStarts, StartContext
<1>2. /\ inbox[Agent] # <<>> /\ Head(inbox[Agent]).type = "START_RUN" /\ status[Agent] = "READY"
      /\ inbox[Agent] \in Seq(Event) /\ Agent \in Resources
  BY <1>1, AgentInbox DEF Accepts, Receives, CommandStatus
<1>3. e \in OtherEvents /\ s \in OtherEvents /\ s \in Event /\ ~Relevant(Agent, s)
  BY OtherEventsAre, ExecutionEventTypes, AgentInbox DEF StatsGroups, Relevant, StatsUpdated
<1>4. taken \in [Components -> Seq(Event)] /\ taken[Agent] = Tail(inbox[Agent])
  BY <1>2, InboxTypes, AgentInbox DEF IInv
<1> HIDE DEF e, s
<1>5. <<s>> \o <<e>> \o <<>> # <<>> /\ Head(<<s>> \o <<e>> \o <<>>) = s
  BY <1>3
<1>6. inbox' = Deliver(taken, s)
  BY <1>1, <1>5 DEF React
<1> HIDE DEF taken
<1>7. inbox'[Agent] = Tail(inbox[Agent])
  BY <1>3, <1>4, <1>6, InboxDelivered
<1>8. Starting(inbox[Agent]) /\ Head(inbox[Agent]) # TrajectoryCompleted
  <2>1. 1 \in DOMAIN inbox[Agent] /\ inbox[Agent][1] = Head(inbox[Agent])
    BY <1>2
  <2> QED BY <1>2, <2>1 DEF Starting, TrajectoryCompleted
<1>9. nRewardObservation = 0 /\ nRewardObservation + Cardinality(Fresh(inbox[Agent])) = Cardinality(notified)
  BY <1>2, <1>8 DEF Observations
<1>10. Cardinality(Fresh(inbox'[Agent])) = Cardinality(Fresh(inbox[Agent]))
  BY <1>2, <1>7, <1>8, FreshTail
<1>11. status'[Agent] = "RUNNING"
  BY <1>1, <1>2 DEF IInv, TypeOK, ResourceTypeOK
<1> QED BY <1>1, <1>9, <1>10, <1>11 DEF Observations


LEMMA ObserveRewardObs ==
  ASSUME IInv, Observations, ObserveReward PROVE Observations'
<1>1. /\ inbox[Agent] # <<>> /\ Head(inbox[Agent]) \in Event /\ Head(inbox[Agent]).type = "TRAJECTORY_COMPLETED"
      /\ inbox[Agent] \in Seq(Event)
  BY AgentInbox DEF ObserveReward, Receives
<1>2. Head(inbox[Agent]) = TrajectoryCompleted
  BY <1>1 DEF Event, TrajectoryCompleted
<1>3. status[Agent] = "RUNNING" /\ ~Starting(inbox[Agent])
  BY StartingMeans DEF ObserveReward
<1>4. ~BootstrapObserved(nRewardObservation') /\ nRewardObservation \in Nat
  BY ComponentsAre DEF IInv, ObserveReward, BootstrapObserved, TypeOK, ResourceTypeOK
<1>5. /\ React(Agent, <<>>) /\ <<>> \in Seq(Event) /\ nRewardObservation' = nRewardObservation + 1
      /\ UNCHANGED <<status, notified>>
  BY <1>4 DEF ObserveReward
<1>6. inbox'[Agent] = Tail(inbox[Agent])
  BY <1>1, <1>5, CalmOwnReact
<1>7. Cardinality(Fresh(inbox[Agent])) = Cardinality(Fresh(inbox'[Agent])) + 1
  BY <1>1, <1>2, <1>3, <1>6, FreshTail
<1>8. Cardinality(Fresh(inbox'[Agent])) \in Nat
  <2>1. Tail(inbox[Agent]) \in Seq(Event)
    BY <1>1
  <2>2. Cardinality(Fresh(Tail(inbox[Agent]))) \in Nat
    BY <2>1, FreshType
  <2> QED BY <1>6, <2>2, Zenon
<1> QED BY <1>3, <1>4, <1>5, <1>7, <1>8 DEF Observations

LEMMA AgentHandlesPhaseObs ==
  ASSUME IInv, Observations, AgentHandlesSchedulingStarted \/ AgentHandlesExecutionCompleted
  PROVE  Observations'
<1> DEFINE s == StatsUpdated("execution_history_stats")
<1>1. /\ inbox[Agent] # <<>> /\ Head(inbox[Agent]).type \in {"SCHEDULING_STARTED", "EXECUTION_COMPLETED"}
      /\ UNCHANGED <<status, nRewardObservation, notified>>
      /\ React(Agent, <<>>) \/ React(Agent, <<s>>)
  BY DEF AgentHandlesSchedulingStarted, AgentHandlesExecutionCompleted, Receives
<1>2. s \in Event /\ Other(s)
  BY OtherEventsAre DEF StatsGroups, OtherEvents
<1>3. Head(inbox[Agent]) # TrajectoryCompleted
  BY <1>1 DEF TrajectoryCompleted
<1> HIDE DEF s
<1>4. Calm
  <2>1. CASE React(Agent, <<>>)
    <3>1. <<>> \in Seq(Event)
      OBVIOUS
    <3> QED BY <1>1, <1>3, <2>1, <3>1, CalmOwnReact
  <2>2. CASE React(Agent, <<s>>)
    <3>1. <<s>> \in Seq(Event) /\ Other(Head(<<s>>))
      BY <1>2
    <3> QED BY <1>1, <1>3, <2>2, <3>1, CalmOwnReact
  <2> QED BY <1>1, <2>1, <2>2
<1> QED BY <1>1, <1>4, CalmKeeps

LEMMA CollectorHandlesObs ==
  ASSUME IInv, Observations,
         CollectorHandlesSchedulingStarted \/ CollectorHandlesSchedulingCompleted \/ CollectorHandlesExecutionCompleted
  PROVE  Observations'
<1>1. /\ Collector \in Components /\ Collector # Agent /\ <<>> \in Seq(OtherEvents)
      /\ inbox[Collector] # <<>> /\ React(Collector, <<>>) /\ UNCHANGED <<status, nRewardObservation, notified>>
  BY ComponentsAre DEF IInv, CollectorHandlesSchedulingStarted, CollectorHandlesSchedulingCompleted,
     CollectorHandlesExecutionCompleted, Receives
<1> QED BY <1>1, OthersObs

LEMMA GeneratorHandlesObs ==
  ASSUME IInv, Observations, GeneratorHandlesSchedulingCompleted PROVE Observations'
<1> DEFINE s == StatsUpdated("tasks_generated")
<1>1. /\ Generator \in Components /\ Generator # Agent
      /\ inbox[Generator] # <<>> /\ React(Generator, <<s>>) /\ UNCHANGED <<status, nRewardObservation, notified>>
  BY ComponentsAre DEF IInv, GeneratorHandlesSchedulingCompleted, Receives
<1>2. <<s>> \in Seq(OtherEvents)
  BY OtherEventsAre DEF StatsGroups
<1> HIDE DEF s
<1> QED BY <1>1, <1>2, OthersObs

LEMMA GeneratingObs ==
  ASSUME IInv, Observations, ScheduleTask \/ CompleteScheduling PROVE Observations'
<1>1. UNCHANGED <<status, nRewardObservation, notified>>
  BY DEF ScheduleTask, CompleteScheduling
<1>2. CASE ScheduleTask
  BY <1>1, <1>2, SilentObs DEF ScheduleTask
<1>3. CASE CompleteScheduling
  <2>1. PICK n \in Nat : inbox' = Deliver(inbox, SchedulingCompleted(generating, n))
    BY <1>3, LifecycleAssumption DEF CompleteScheduling, Publish, IInv, TypeOK, ResourceTypeOK
  <2>2. SchedulingCompleted(generating, n) \in OtherEvents
    BY OtherEventsAre DEF IInv, TypeOK, ResourceTypeOK
  <2> QED BY <1>1, <2>1, <2>2, PublishObs
<1> QED BY <1>2, <1>3

-----------------------------------------------------------------------------
(* The threads of the trajectory collector.                                                      *)
LEMMA NotifyAgentObs ==
  ASSUME IInv, Observations, NEW k, NEW made, NEW done, NEW bad, NotifyAgent(k, made, done, bad),
         UNCHANGED <<status, nRewardObservation>>
  PROVE  Observations'
<1>1. CASE UNCHANGED <<notified, busVars>>
  BY <1>1, SilentObs
<1>2. CASE k \notin notified /\ notified' = notified \union {k} /\ Publish(TrajectoryCompleted)
  <2> DEFINE e == TrajectoryCompleted
  <2>1. e \in Event /\ e.type # "START_RUN" /\ Relevant(Agent, e) /\ inbox' = Deliver(inbox, e)
    BY <1>2, ExecutionEventTypes DEF TrajectoryCompleted, Relevant, Publish
  <2>2. inbox'[Agent] = Append(inbox[Agent], e)
    BY <2>1, InboxDelivered, InboxTypes DEF IInv
  <2>3. /\ Starting(Append(inbox[Agent], e)) <=> Starting(inbox[Agent])
        /\ Cardinality(Fresh(Append(inbox[Agent], e))) = Cardinality(Fresh(inbox[Agent])) + 1
        /\ Cardinality(Fresh(inbox[Agent])) \in Nat
    BY <2>1, AgentInbox, FreshAppend, FreshType
  <2>4. /\ Starting(inbox'[Agent]) <=> Starting(inbox[Agent])
        /\ Cardinality(Fresh(inbox'[Agent])) = Cardinality(Fresh(inbox[Agent])) + 1
    BY <2>2, <2>3, Zenon
  <2>5. IsFiniteSet(notified)
    <3>1. notified \in SUBSET (1..sent) /\ IsFiniteSet(1..sent)
      BY FS_Interval DEF IInv, TypeOK, TaskTypeOK
    <3> QED BY <3>1, FS_Subset
  <2>6. Cardinality(notified') = Cardinality(notified) + 1 /\ Cardinality(notified) \in Nat
    BY <1>2, <2>5, FS_AddElement, FS_CardinalityType
  <2>7. nRewardObservation \in Nat
    BY DEF IInv, TypeOK, ResourceTypeOK
  <2> QED BY <2>3, <2>4, <2>6, <2>7 DEF Observations
<1> QED BY <1>1, <1>2 DEF NotifyAgent

LEMMA RewardObs ==
  ASSUME IInv, Observations, CreateTrajectory \/ RewardStep PROVE Observations'
<1>1. CASE CreateTrajectory
  BY <1>1, NotifyAgentObs DEF CreateTrajectory
<1>2. CASE \E k \in 1..sent, fails \in BOOLEAN : ComputeTaskReward(k, fails)
  BY <1>2, NotifyAgentObs DEF ComputeTaskReward
<1>3. CASE AreAllTasksExecuted
  <2>1. UNCHANGED <<status, nRewardObservation, notified>>
    BY <1>3 DEF AreAllTasksExecuted
  <2>2. inbox' = inbox \/ inbox' = Deliver(inbox, ExecutionCompleted("RUN"))
    BY <1>3 DEF AreAllTasksExecuted, Publish
  <2>3. ExecutionCompleted("RUN") \in OtherEvents
    BY OtherEventsAre DEF RunPhase
  <2> QED BY <2>1, <2>2, <2>3, PublishObs, SilentObs
<1> QED BY <1>1, <1>2, <1>3, NoSuchStep DEF RewardStep

LEMMA ObservationsNext == IInv /\ Observations /\ [Next]_vars => Observations'
<1> SUFFICES ASSUME IInv, Observations, [Next]_vars PROVE Observations'
  OBVIOUS
<1>1. TypeOK'
  BY NextType DEF IInv
<1>2. CASE UNCHANGED vars
  BY <1>2, SilentObs
<1>3. CASE StartUp \/ CeleryStep
  BY <1>3, NoSuchStep
<1>4. CASE ControlStep
  BY <1>4, SchedulerObs, SilentObs DEF ControlStep, ControlRun
<1>5. CASE CreateTrajectory \/ RewardStep
  BY <1>5, RewardObs
<1>6. CASE \E c \in Components : ConsumerStep(c)
  <2>1. PICK c \in Components : ConsumerStep(c)
    BY <1>6
  <2>2. Agent \in Resources /\ Collector \in Resources /\ Generator \in Resources
    BY ComponentsAre DEF IInv
  <2>3. CASE Flush(c) \/ ManagerHandlesEvent \/ TakeRun("consumer") \/ PublishPrepare("consumer")
    BY <1>1, <2>3, FlushObs, ManagerHandlesEventObs, SchedulerObs
  <2>4. CASE AgentHandlesEvent
    BY <2>4, AgentPreparesObs, AgentStartsObs, ObserveRewardObs, AgentHandlesPhaseObs DEF AgentHandlesEvent
  <2>5. CASE CollectorHandlesEvent
    BY <2>5, CollectorPreparesObs, CollectorStartsObs, CollectorHandlesObs DEF CollectorHandlesEvent
  <2>6. CASE GeneratorHandlesEvent
    <3>1. CASE GeneratorPrepares
      BY <2>2, <3>1, PrepareOthersObs DEF GeneratorPrepares
    <3> QED BY <2>6, <3>1, GeneratorStartsObs, GeneratorHandlesObs, NoSuchStep DEF GeneratorHandlesEvent
  <2>7. CASE ScheduleTask \/ CompleteScheduling
    BY <2>7, GeneratingObs
  <2>8. CASE c \in Resources /\ ResourceHandlesEvent(c)
    BY <2>8, HandleResourceStatusObs, DropCommandObs, StartFailsObs, StopRunResourcesObs
    DEF ResourceHandlesEvent
  <2> QED BY <2>1, <2>3, <2>4, <2>5, <2>6, <2>7, <2>8 DEF ConsumerStep
<1> QED BY <1>2, <1>3, <1>4, <1>5, <1>6 DEF Next

(* A trajectory that is announced is observed, once, by the agent of the run it belongs to.      *)
THEOREM ObservedOnce == ASSUME UndisturbedRuns PROVE StartedSpec => []TrajectoriesObserved
<1>1. Started /\ IInv => Observations
  <2> SUFFICES ASSUME Started, IInv PROVE Observations
    OBVIOUS
  <2>1. Agent \in Components /\ Agent \in Resources
    BY AgentInbox
  <2>2. inbox[Agent] = <<>> /\ status[Agent] = "WAITING"
    BY <2>1 DEF Started
  <2>3. ~Starting(inbox[Agent])
    BY <2>2 DEF Starting
  <2> QED BY <2>2, <2>3 DEF Observations
<1>2. IInv /\ Observations => TrajectoriesObserved
  <2> SUFFICES ASSUME IInv, Observations, status[Agent] = "RUNNING" PROVE
        nRewardObservation + Cardinality({i \in DOMAIN inbox[Agent] : inbox[Agent][i] = TrajectoryCompleted})
          = Cardinality(notified)
    BY DEF TrajectoriesObserved
  <2>1. ~Starting(inbox[Agent])
    BY StartingMeans
  <2>2. Fresh(inbox[Agent]) = {i \in DOMAIN inbox[Agent] : inbox[Agent][i] = TrajectoryCompleted}
    BY <2>1 DEF Fresh, Starting
  <2> QED BY <2>2 DEF Observations
<1> QED BY <1>1, <1>2, LifecycleInvariant, ObservationsNext, PTL DEF StartedSpec

-----------------------------------------------------------------------------
(* The lifecycle implements RunProtocol.  In the states of the invariant the counters of the     *)
(* protocol are these: the runs whose completion is published and the stage of the next one      *)
(* number the commands; a resource has done what its status says in the run of its code; and     *)
(* at most one report is under way, in the inbox of the manager or still to be published.        *)
Done == Len(executedRuns) + IF Has(SystemManager, "RUN_COMPLETED") THEN 1 ELSE 0
Commanded(s) == IF s = "WAITING" THEN 0 ELSE IF s = "READY" THEN 1 ELSE 2

OnWay(r) ==
  \/ \E s \in Status \ {"ERROR"} : ResourceStatusChanged(r, s) \in Queue[SystemManager]
  \/ Reporting(r)

Codes ==
  \A r \in Resources :
    /\ Stage = "WAITING" => runCode[r] = Done
    /\ Stage = "READY" => runCode[r] = IF status[r] = "WAITING" THEN Len(executedRuns) ELSE currentRun
    /\ Stage = "WAITING" /\ LastStatus(r) = "ERROR" => currentRunStarted
    /\ status[r] # "WAITING" => runCode[r] # NoRun

LEMMA CurrentRunIs ==
  IInv => /\ currentRun # NoRun => currentRun = Len(executedRuns) + 1 /\ currentRun <= NumRuns
          /\ Len(executedRuns) \in Nat /\ NumRuns \in Nat
<1> SUFFICES ASSUME IInv PROVE /\ currentRun # NoRun => currentRun = Len(executedRuns) + 1 /\ currentRun <= NumRuns
                               /\ Len(executedRuns) \in Nat /\ NumRuns \in Nat
  OBVIOUS
<1>1. /\ executedRuns \in Seq(MaybeRun) /\ runsToExecute \in Seq(Runs) /\ currentRun \in MaybeRun
      /\ NumRuns \in Nat /\ Len(executedRuns) \in Nat
  BY LifecycleAssumption DEF IInv, TypeOK, RunTypeOK
<1>2. ASSUME currentRun # NoRun PROVE currentRun = Len(executedRuns) + 1 /\ currentRun <= NumRuns
  <2> DEFINE n == Len(executedRuns)
             p == executedRuns \o <<currentRun>>
             q == p \o runsToExecute
  <2>1. q = [i \in 1..NumRuns |-> i]
    BY <1>2 DEF IInv, RunsConserved
  <2>2. p \in Seq(MaybeRun) /\ Len(p) = n + 1 /\ p[n + 1] = currentRun
    BY <1>1
  <2>3. runsToExecute \in Seq(MaybeRun) /\ Len(runsToExecute) \in Nat
    BY <1>1 DEF MaybeRun
  <2> HIDE DEF p
  <2>4. Len(q) = n + 1 + Len(runsToExecute) /\ q[n + 1] = p[n + 1] /\ DOMAIN q = 1..Len(q)
    BY <1>1, <2>2, <2>3
  <2> HIDE DEF q, n
  <2>5. n \in Nat /\ n + 1 \in DOMAIN q
    BY <1>1, <2>3, <2>4 DEF n
  <2>6. n + 1 \in 1..NumRuns /\ q[n + 1] = n + 1
    BY <2>1, <2>5
  <2> QED BY <1>1, <2>2, <2>4, <2>6 DEF n
<1> QED BY <1>1, <1>2

LEMMA IssuedIs == IInv => Issued = 3 * Done + Commanded(Stage) /\ Done \in Nat
<1> SUFFICES ASSUME IInv PROVE Issued = 3 * Done + Commanded(Stage) /\ Done \in Nat
  OBVIOUS
<1>1. /\ scheduler \in [{"consumer", "control"} -> {"idle", "checked", "taken"}]
      /\ Len(executedRuns) \in Nat /\ SystemManager \in Components
  BY ComponentsAre, CurrentRunIs DEF IInv, TypeOK, RunTypeOK
<1>2. Taking <=> \E t \in DOMAIN scheduler : scheduler[t] = "taken"
  BY <1>1 DEF Taking
<1>3. Has(SystemManager, "RUN_COMPLETED") <=> \E e \in Contents(inbox[SystemManager]) : e.type = "RUN_COMPLETED"
  BY <1>1, QueueIs DEF Has
<1>4. Has(SystemManager, "RUN_COMPLETED") => currentRun # NoRun /\ ~Taking
  <2>1. Has(SystemManager, "RUN_COMPLETED") => Stage = "WAITING"
    BY DEF Stage
  <2>2. Has(SystemManager, "RUN_COMPLETED") => currentRun # NoRun /\ isCurrentExecutionCompleted
    BY <2>1 DEF IInv, Waiting
  <2> QED BY <2>2 DEF IInv, Scheduling, Taking
<1> DEFINE n == Len(executedRuns)
<1> HIDE DEF n
<1>5. CASE Has(SystemManager, "RUN_COMPLETED")
  <2>1. Issued = 3 * n + 3 /\ Done = n + 1 /\ Stage = "WAITING"
    BY <1>2, <1>3, <1>4, <1>5 DEF Issued, Done, Stage, n
  <2> QED BY <1>1, <2>1 DEF Commanded, n
<1>6. CASE ~Has(SystemManager, "RUN_COMPLETED")
  <2>1. Done = n
    BY <1>1, <1>6 DEF Done, n
  <2>2. CASE currentRun = NoRun \/ Taking
    <3>1. Issued = 3 * n + 0 /\ Stage = "WAITING"
      BY <1>2, <2>2 DEF Issued, Stage, n
    <3> QED BY <1>1, <2>1, <3>1 DEF Commanded, n
  <2>3. CASE currentRun # NoRun /\ ~Taking /\ currentRunStarted
    <3>1. Issued = 3 * n + 2 /\ Stage = "RUNNING"
      BY <1>2, <1>3, <1>6, <2>3 DEF Issued, Stage, n
    <3> QED BY <1>1, <2>1, <3>1 DEF Commanded, n
  <2>4. CASE currentRun # NoRun /\ ~Taking /\ ~currentRunStarted
    <3>1. Issued = 3 * n + 1 /\ Stage = "READY"
      BY <1>2, <1>3, <1>6, <2>4 DEF Issued, Stage, n
    <3> QED BY <1>1, <2>1, <3>1 DEF Commanded, n
  <2> QED BY <2>2, <2>3, <2>4
<1> QED BY <1>5, <1>6

LEMMA ReportsCount ==
  ASSUME NEW S, NEW q \in Seq(S), NEW r,
         \A i, j \in ReportsIn(r, q) : i < j => FALSE
  PROVE  Cardinality(ReportsIn(r, q)) = IF ReportsIn(r, q) = {} THEN 0 ELSE 1
<1>1. \A i \in ReportsIn(r, q) : i \in Int
  BY DEF ReportsIn
<1>2. CASE ReportsIn(r, q) = {}
  BY <1>2, FS_EmptySet
<1>3. CASE ReportsIn(r, q) # {}
  <2>1. PICK i : i \in ReportsIn(r, q)
    BY <1>3
  <2>2. ReportsIn(r, q) = {i}
    BY <1>1, <2>1
  <2> QED BY <2>1, <2>2, FS_Singleton
<1> QED BY <1>2, <1>3

LEMMA UnseenIs == IInv => \A r \in Resources : Unseen(r) = IF OnWay(r) THEN 1 ELSE 0
<1> SUFFICES ASSUME IInv, NEW r \in Resources PROVE Unseen(r) = IF OnWay(r) THEN 1 ELSE 0
  OBVIOUS
<1> DEFINE q == inbox[SystemManager]
<1>1. /\ SystemManager \in Components /\ r \in Components /\ q \in Seq(Event)
      /\ Components = {Agent, Collector, Generator, SystemManager} /\ r # SystemManager
  BY ComponentsAre, InboxTypes DEF IInv
<1>2. \A i, j \in ReportsIn(r, q) : i < j => FALSE
  <2>1. Sorted(SystemManager, q)
    BY <1>1 DEF IInv, InOrder
  <2> QED BY <2>1 DEF Sorted, Overtakes, ReportsIn
<1>3. Cardinality(ReportsIn(r, q)) = IF ReportsIn(r, q) = {} THEN 0 ELSE 1
  BY <1>1, <1>2, ReportsCount
<1>4. ReportsIn(r, q) # {} <=> \E s \in Status \ {"ERROR"} : ResourceStatusChanged(r, s) \in Queue[SystemManager]
  <2>1. ASSUME NEW i \in ReportsIn(r, q)
        PROVE  \E s \in Status \ {"ERROR"} : ResourceStatusChanged(r, s) \in Queue[SystemManager]
    <3>1. q[i] \in Queue[SystemManager] /\ q[i].type = "RESOURCE_STATUS_CHANGED" /\ q[i].name = r /\ q[i].status # "ERROR"
      BY <1>1, QueueIs DEF ReportsIn, Contents
    <3>2. q[i] = ResourceStatusChanged(r, q[i].status) /\ q[i].status \in {"WAITING", "READY", "RUNNING", "ERROR"}
      BY <3>1, ReportsAre
    <3> QED BY <3>1, <3>2
  <2>2. ASSUME NEW s \in Status \ {"ERROR"}, ResourceStatusChanged(r, s) \in Queue[SystemManager]
        PROVE  ReportsIn(r, q) # {}
    <3>1. PICK i \in DOMAIN q : q[i] = ResourceStatusChanged(r, s)
      BY <1>1, <2>2, QueueIs DEF Contents
    <3>2. i \in ReportsIn(r, q)
      BY <2>2, <3>1 DEF ReportsIn, ResourceStatusChanged
    <3> QED BY <3>2
  <2> QED BY <2>1, <2>2
<1>5. Cardinality(ReportsIn(r, outbox[r])) = IF Reporting(r) THEN 1 ELSE 0
  <2>1. outbox[r] \in Seq(Event)
    BY <1>1, InboxTypes DEF IInv
  <2>2. CASE outbox[r] = <<>>
    <3>1. ReportsIn(r, outbox[r]) = {} /\ ~Reporting(r)
      BY <2>2 DEF ReportsIn, Reporting
    <3> QED BY <3>1, FS_EmptySet
  <2>3. ASSUME Len(outbox[r]) = 1 \/ (Len(outbox[r]) = 2 /\ outbox[r][2].type = "SCHEDULING_STARTED"),
               outbox[r][1] = ResourceStatusChanged(r, "RUNNING")
        PROVE  Cardinality(ReportsIn(r, outbox[r])) = IF Reporting(r) THEN 1 ELSE 0
    <3> DEFINE z == outbox[r]
    <3>1. DOMAIN z = 1..Len(z) /\ Head(z) = z[1] /\ z # <<>>
      BY <2>1, <2>3
    <3>2. Reporting(r)
      BY <2>3, <3>1 DEF Reporting, ResourceStatusChanged
    <3>3. 1 \in ReportsIn(r, z)
      BY <2>3, <3>1 DEF ReportsIn, ResourceStatusChanged
    <3>4. \A i \in ReportsIn(r, z) : i = 1
      BY <2>3, <3>1 DEF ReportsIn
    <3>5. ReportsIn(r, outbox[r]) = {1}
      BY <3>3, <3>4
    <3> QED BY <3>2, <3>5, FS_Singleton
  <2>4. CASE outbox[r] = <<SchedulingStarted("RUN", TasksToGenerate)>>
    <3>1. ReportsIn(r, outbox[r]) = {} /\ ~Reporting(r)
      BY <2>4 DEF ReportsIn, Reporting, SchedulingStarted
    <3> QED BY <3>1, FS_EmptySet
  <2>5. CASE outbox[r] = <<ResourceStatusChanged(r, "RUNNING")>>
    <3> DEFINE n == ResourceStatusChanged(r, "RUNNING")
    <3> HIDE DEF n
    <3>1. <<n>>[1] = n /\ Len(<<n>>) = 1
      OBVIOUS
    <3> QED BY <2>1, <2>3, <2>5, <3>1 DEF n
  <2>6. CASE outbox[r] = <<ResourceStatusChanged(r, "RUNNING"), SchedulingStarted("RUN", TasksToGenerate)>>
    <3> DEFINE n == ResourceStatusChanged(r, "RUNNING")
               m == SchedulingStarted("RUN", TasksToGenerate)
    <3>1. m.type = "SCHEDULING_STARTED"
      BY DEF SchedulingStarted
    <3> HIDE DEF n, m
    <3>2. <<n, m>>[1] = n /\ <<n, m>>[2] = m /\ Len(<<n, m>>) = 2
      OBVIOUS
    <3>3. outbox[r] = <<n, m>> /\ n = ResourceStatusChanged(r, "RUNNING")
      BY <2>6 DEF n, m
    <3>4. /\ outbox[r][1] = ResourceStatusChanged(r, "RUNNING") /\ outbox[r][2].type = "SCHEDULING_STARTED"
          /\ Len(outbox[r]) = 2
      BY <3>1, <3>2, <3>3
    <3> QED BY <2>1, <2>3, <3>4
  <2>7. \/ outbox[r] = <<>> \/ outbox[r] = <<SchedulingStarted("RUN", TasksToGenerate)>>
        \/ outbox[r] = <<ResourceStatusChanged(r, "RUNNING")>>
        \/ outbox[r] = <<ResourceStatusChanged(r, "RUNNING"), SchedulingStarted("RUN", TasksToGenerate)>>
    <3>1. r = Agent \/ r = Collector \/ r = Generator
      BY <1>1
    <3> QED BY <3>1, Zenon DEF IInv, Outboxes
  <2> QED BY <2>2, <2>4, <2>5, <2>6, <2>7, Zenon
<1>6. ~(Reporting(r) /\ Report(r))
  BY DEF IInv, Lockstep, Lock, Awaits, Reports, Agreed, Broken, Reporting
<1>7. (\E s \in Status \ {"ERROR"} : ResourceStatusChanged(r, s) \in Queue[SystemManager]) => Report(r)
  BY DEF Report
<1> HIDE DEF q
<1> QED BY <1>3, <1>4, <1>5, <1>6, <1>7 DEF Unseen, OnWay, q


(* The status of a resource as the protocol sees it.                                             *)
LEMMA LastStatusIs ==
  ASSUME IInv, NEW r \in Resources
  PROVE  /\ LastStatus(r) = IF Broken(r) THEN "ERROR" ELSE status[r]
         /\ LastStatus(r) = IF ResourceStatusChanged(r, "ERROR") \in Queue[r] THEN "ERROR" ELSE status[r]
         /\ OnWay(r) <=> Reports(r)
<1>1. r \in Components /\ Lock(r) /\ Stage \in {"WAITING", "READY", "RUNNING"}
  BY StageIs DEF IInv, Lockstep, Components
<1>2. ResourceStatusChanged(r, "ERROR").type = "RESOURCE_STATUS_CHANGED"
        /\ ResourceStatusChanged(r, "ERROR").status = "ERROR"
  BY DEF ResourceStatusChanged
<1>3. LastStatus(r) = IF ResourceStatusChanged(r, "ERROR") \in Queue[r] THEN "ERROR" ELSE status[r]
  BY <1>1, QueueIs DEF LastStatus
<1>4. ASSUME Awaits(r) \/ Reports(r) \/ Agreed(r)
      PROVE  /\ ResourceStatusChanged(r, "ERROR") \notin Queue[r] /\ status[r] # "ERROR" /\ ~Broken(r)
  <2>1. EchoesOnly(r, Stage) \/ EchoesOnly(r, BeforeOf(Stage))
    BY <1>4 DEF Awaits, Reports, Agreed
  <2>2. ResourceStatusChanged(r, "ERROR") \notin Queue[r]
    BY <1>1, <1>2, <2>1 DEF EchoesOnly, BeforeOf
  <2>3. status[r] \in {Stage, BeforeOf(Stage)}
    BY <1>4 DEF Awaits, Reports, Agreed
  <2>4. status[r] # "ERROR"
    BY <1>1, <2>3 DEF BeforeOf
  <2>5. ~Broken(r)
    <3> SUFFICES ASSUME Broken(r) PROVE FALSE
      OBVIOUS
    <3>1. PICK e \in Queue[r] : e.type = "RESOURCE_STATUS_CHANGED" /\ e.status = "ERROR"
      BY <2>4 DEF Broken, Has, EchoesOnly
    <3> QED BY <1>1, <2>1, <3>1 DEF EchoesOnly, BeforeOf
  <2> QED BY <2>2, <2>4, <2>5
<1>5. ASSUME Broken(r) PROVE LastStatus(r) = "ERROR"
  <2>1. CASE status[r] = "ERROR"
    BY <1>3, <2>1
  <2>2. CASE status[r] # "ERROR"
    <3>1. PICK e \in Queue[r] : e.type = "RESOURCE_STATUS_CHANGED" /\ e.status = "ERROR"
      BY <1>5, <2>2 DEF Broken, Has, EchoesOnly
    <3>2. e \in Event /\ e.name = r
      BY <1>1, <3>1, QueueTypes, ComponentsAre DEF IInv, EventsOK, EventOK
    <3>3. e = ResourceStatusChanged(r, "ERROR")
      BY <3>1, <3>2 DEF Event, ResourceStatusChanged
    <3> QED BY <1>3, <3>1, <3>3
  <2> QED BY <2>1, <2>2
<1>6. OnWay(r) <=> Reports(r)
  <2>1. (\E s \in Status \ {"ERROR"} : ResourceStatusChanged(r, s) \in Queue[SystemManager]) => Report(r)
    BY DEF Report
  <2>2. Awaits(r) => ~OnWay(r)
    BY <2>1 DEF Awaits, OnWay, Reporting
  <2>3. Agreed(r) => ~OnWay(r)
    BY <2>1 DEF Agreed, OnWay
  <2>4. Broken(r) => ~OnWay(r)
    BY <2>1 DEF Broken, OnWay, Reporting, ReportsOnly
  <2>5. Reports(r) => OnWay(r)
    BY <1>1 DEF Reports, OnWay, Report, ReportsOnly
  <2> QED BY <1>1, <2>2, <2>3, <2>4, <2>5 DEF Lock
<1> QED BY <1>1, <1>3, <1>4, <1>5, <1>6 DEF Lock

LEMMA UnseenPrime == (IInv => \A r \in Resources : Unseen(r) = IF OnWay(r) THEN 1 ELSE 0)'
BY UnseenIs, PTL

LEMMA IssuedPrime == (IInv => Issued = 3 * Done + Commanded(Stage) /\ Done \in Nat)'
BY IssuedIs, PTL

-----------------------------------------------------------------------------
(* The protocol counts by the status of a resource, the stage and the code of its run.           *)
Echo(r) == ResourceStatusChanged(r, "ERROR")
Behind(r) == IF LastStatus(r) = Stage /\ resourcesStatus[r] # Stage THEN 1 ELSE 0

Signals(r) ==
  /\ LastStatus(r) = IF Echo(r) \in Queue[r] THEN "ERROR" ELSE status[r]
  /\ LastStatus(r) \in {Stage, BeforeOf(Stage), "ERROR"}
  /\ Broken(r) <=> LastStatus(r) = "ERROR"
  /\ Unseen(r) = Behind(r)
  /\ runCode[r] \in Nat

LEMMA SignalsAre == IInv => \A r \in Resources : Signals(r)
<1> SUFFICES ASSUME IInv, NEW r \in Resources PROVE Signals(r)
  OBVIOUS
<1>1. /\ LastStatus(r) = IF Broken(r) THEN "ERROR" ELSE status[r]
      /\ LastStatus(r) = IF Echo(r) \in Queue[r] THEN "ERROR" ELSE status[r]
      /\ OnWay(r) <=> Reports(r)
  BY LastStatusIs DEF Echo
<1>2. Lock(r) /\ Stage \in {"WAITING", "READY", "RUNNING"} /\ runCode[r] \in Nat
  BY StageIs, LifecycleAssumption DEF IInv, Lockstep, TypeOK, ResourceTypeOK, MaybeRun, Runs, NoRun
<1>3. BeforeOf(Stage) \in {"WAITING", "READY", "RUNNING"} \ {Stage}
  BY <1>2 DEF BeforeOf
<1>4. CASE Broken(r)
  <2>1. LastStatus(r) = "ERROR" /\ LastStatus(r) # Stage
    BY <1>1, <1>2, <1>4
  <2>2. ~OnWay(r)
    <3>1. ASSUME Reports(r) PROVE FALSE
      <4>1. status[r] = Stage /\ EchoesOnly(r, Stage)
        BY <3>1 DEF Reports
      <4>2. status[r] # "ERROR"
        BY <1>2, <4>1
      <4>3. PICK e \in Queue[r] : e.type = "RESOURCE_STATUS_CHANGED" /\ e.status = "ERROR"
        BY <1>4, <4>2 DEF Broken, Has, EchoesOnly
      <4> QED BY <1>2, <4>1, <4>3 DEF EchoesOnly
    <3> QED BY <1>1, <3>1
  <2> QED BY <1>1, <1>2, <1>4, <2>1, <2>2, UnseenIs DEF Signals, Behind
<1>5. CASE ~Broken(r)
  <2>1. LastStatus(r) = status[r] /\ (Awaits(r) \/ Reports(r) \/ Agreed(r))
    BY <1>1, <1>2, <1>5 DEF Lock
  <2>2. LastStatus(r) \in {Stage, BeforeOf(Stage)} /\ LastStatus(r) # "ERROR"
    BY <1>2, <1>3, <2>1 DEF Awaits, Reports, Agreed
  <2>3. OnWay(r) <=> LastStatus(r) = Stage /\ resourcesStatus[r] # Stage
    BY <1>1, <1>3, <2>1 DEF Awaits, Reports, Agreed
  <2> QED BY <1>1, <1>2, <1>5, <2>1, <2>2, <2>3, UnseenIs DEF Signals, Behind
<1> QED BY <1>4, <1>5

LEMMA SignalsNext == (IInv => \A r \in Resources : Signals(r))'
BY SignalsAre, PTL

OfThisRun(r) ==
  IF LastStatus(r) = "WAITING" THEN 3 ELSE IF LastStatus(r) = "READY" THEN 1
  ELSE IF LastStatus(r) = "RUNNING" THEN 2 ELSE IF currentRunStarted THEN 1 ELSE 0

LEMMA ExecutedIs ==
  IInv /\ Codes => \A r \in Resources : Executed(r) = 3 * (runCode[r] - 1) + OfThisRun(r)
<1> SUFFICES ASSUME IInv, Codes, NEW r \in Resources
             PROVE  Executed(r) = 3 * (runCode[r] - 1) + OfThisRun(r)
  OBVIOUS
<1>1. Signals(r) /\ LastStatus(r) \in {"WAITING", "READY", "RUNNING", "ERROR"}
  BY SignalsAre, StageIs DEF Signals, BeforeOf
<1>2. runCode[r] = NoRun => LastStatus(r) = "WAITING"
  BY <1>1 DEF Codes, Signals, Broken
<1> DEFINE s == LastStatus(r)
           n == runCode[r]
<1>3. Executed(r) = IF n = NoRun THEN 0
                    ELSE 3 * (n - 1) + (IF s = "READY" \/ (s = "ERROR" /\ currentRunStarted) THEN 1
                                        ELSE IF s = "RUNNING" THEN 2 ELSE IF s = "ERROR" THEN 0 ELSE 3)
  BY DEF Executed
<1>4. n \in Nat
  BY <1>1 DEF Signals
<1> HIDE DEF s, n
<1>5. OfThisRun(r) = IF s = "WAITING" THEN 3 ELSE IF s = "READY" THEN 1
                     ELSE IF s = "RUNNING" THEN 2 ELSE IF currentRunStarted THEN 1 ELSE 0
  BY DEF OfThisRun, s
<1>6. s \in {"WAITING", "READY", "RUNNING", "ERROR"} /\ (n = NoRun => s = "WAITING")
  BY <1>1, <1>2 DEF s, n
<1>7. CASE n = NoRun
  <2>1. Executed(r) = 0 /\ OfThisRun(r) = 3 /\ n = 0
    BY <1>3, <1>5, <1>6, <1>7 DEF NoRun
  <2> QED BY <2>1 DEF n
<1>8. CASE n # NoRun
  <2>1. Executed(r) = 3 * (n - 1) + OfThisRun(r)
    <3>1. CASE s = "READY"
      BY <1>3, <1>5, <1>8, <3>1
    <3>2. CASE s = "RUNNING"
      BY <1>3, <1>5, <1>8, <3>2
    <3>3. CASE s = "WAITING"
      BY <1>3, <1>5, <1>8, <3>3
    <3>4. CASE s = "ERROR"
      BY <1>3, <1>5, <1>8, <3>4
    <3> QED BY <1>6, <3>1, <3>2, <3>3, <3>4
  <2> QED BY <2>1 DEF n
<1> QED BY <1>7, <1>8

LEMMA ExecutedNext ==
  (IInv /\ Codes => \A r \in Resources : Executed(r) = 3 * (runCode[r] - 1) + OfThisRun(r))'
BY ExecutedIs, PTL

(* A step that says nothing to the protocol.                                                     *)
LEMMA NoCount ==
  ASSUME Issued' = Issued,
         \A r \in Resources : Executed(r)' = Executed(r) /\ Unseen(r)' = Unseen(r)
  PROVE  UNCHANGED Protocol!vars
<1>1. \A r \in Resources : Reported(r)' = Reported(r)
  BY DEF Reported
<1> QED BY <1>1 DEF Protocol!vars

LEMMA Still ==
  ASSUME IInv, IInv', Codes, Stage' = Stage, Done' = Done, UNCHANGED runCode,
         currentRun' = currentRun \/ Stage # "READY",
         \A r \in Resources :
           /\ LastStatus(r)' = LastStatus(r)
           /\ resourcesStatus'[r] = resourcesStatus[r]
           /\ status'[r] = "WAITING" <=> status[r] = "WAITING"
           /\ LastStatus(r) = "ERROR" => currentRunStarted' = currentRunStarted
  PROVE  Codes' /\ UNCHANGED Protocol!vars
<1>1. Stage \in {"READY"} => Done = Len(executedRuns) /\ Done' = Len(executedRuns')
  <2>1. Stage = "READY" => ~Has(SystemManager, "RUN_COMPLETED") /\ ~Has(SystemManager, "RUN_COMPLETED")'
    BY DEF Stage
  <2>2. Len(executedRuns) \in Nat /\ Len(executedRuns') \in Nat
    BY DEF IInv, TypeOK, RunTypeOK
  <2> QED BY <2>1, <2>2 DEF Done
<1>2. Codes'
  BY <1>1 DEF Codes
<1>3. Issued' = Issued
  BY IssuedIs, IssuedPrime
<1>4. ASSUME NEW r \in Resources PROVE Executed(r)' = Executed(r) /\ Unseen(r)' = Unseen(r)
  <2>1. OfThisRun(r)' = OfThisRun(r)
    <3>1. LastStatus(r) \in {"WAITING", "READY", "RUNNING", "ERROR"}
      BY SignalsAre, StageIs DEF Signals, BeforeOf
    <3> QED BY <3>1 DEF OfThisRun
  <2>2. Executed(r)' = Executed(r)
    BY <1>2, <2>1, ExecutedIs, ExecutedNext
  <2>3. Unseen(r) = Behind(r) /\ Unseen(r)' = Behind(r)'
    BY SignalsAre, SignalsNext DEF Signals
  <2>4. Behind(r)' = Behind(r)
    BY DEF Behind
  <2> QED BY <2>2, <2>3, <2>4
<1> QED BY <1>2, <1>3, <1>4, NoCount

Steady ==
  /\ Has(SystemManager, "RUN_COMPLETED")' <=> Has(SystemManager, "RUN_COMPLETED")
  /\ \A r \in Resources : Echo(r) \in Queue'[r] <=> Echo(r) \in Queue[r]

LEMMA Quiet ==
  ASSUME IInv, IInv', Codes, Steady, Taking' <=> Taking,
         UNCHANGED <<currentRun, currentRunStarted, executedRuns, runCode, status, resourcesStatus>>
  PROVE  Codes' /\ UNCHANGED Protocol!vars
<1>1. Stage' = Stage /\ Done' = Done
  BY DEF Stage, Done, Steady
<1>2. ASSUME NEW r \in Resources PROVE LastStatus(r)' = LastStatus(r)
  <2>1. Signals(r) /\ Signals(r)'
    BY SignalsAre, SignalsNext
  <2>2. Echo(r)' = Echo(r)
    BY DEF Echo, ResourceStatusChanged
  <2>3. LastStatus(r)' = IF Echo(r) \in Queue'[r] THEN "ERROR" ELSE status'[r]
    BY <2>1, <2>2 DEF Signals
  <2>4. LastStatus(r) = IF Echo(r) \in Queue[r] THEN "ERROR" ELSE status[r]
    BY <2>1 DEF Signals
  <2> QED BY <2>3, <2>4 DEF Steady
<1> QED BY <1>1, <1>2, Still

(* Which steps are steady: neither a failure nor a completion comes or goes.                     *)
Telling(e) == e.type = "RUN_COMPLETED" \/ (e.type = "RESOURCE_STATUS_CHANGED" /\ e.status = "ERROR")

LEMMA SteadyTake ==
  ASSUME IInv, NEW c \in Components, inbox[c] # <<>>,
         Head(inbox[c]).type = "RESOURCE_STATUS_CHANGED" => c = SystemManager,
         Head(inbox[c]).type = "RUN_COMPLETED" => c # SystemManager,
         NEW e, ~Telling(e),
         \A d \in Components : Queue'[d] = Left(c, d) \/ Queue'[d] = Left(c, d) \union Adds(d, e)
  PROVE  Steady
<1>1. /\ Components = {Agent, Collector, Generator, SystemManager}
      /\ Resources = {Agent, Collector, Generator}
      /\ Queue[c] = {Head(inbox[c])} \union Rest(c)
  BY ComponentsAre, HeadOf DEF IInv
<1>2. \A r \in Resources : Echo(r).type = "RESOURCE_STATUS_CHANGED" /\ Echo(r) # e
  BY DEF Echo, ResourceStatusChanged, Telling
<1>3. ASSUME NEW r \in Resources PROVE Echo(r) \in Queue'[r] <=> Echo(r) \in Queue[r]
  <2>1. Echo(r) \in Left(c, r) <=> Echo(r) \in Queue[r]
    BY <1>1, <1>2 DEF Left
  <2>2. r \in Components /\ Echo(r) \notin Adds(r, e)
    BY <1>1, <1>2 DEF Adds
  <2> QED BY <2>1, <2>2
<1>4. ASSUME NEW a, a.type = "RUN_COMPLETED" PROVE a \in Queue'[SystemManager] <=> a \in Queue[SystemManager]
  <2>1. a \in Left(c, SystemManager) <=> a \in Queue[SystemManager]
    BY <1>1, <1>4 DEF Left
  <2>2. SystemManager \in Components /\ a \notin Adds(SystemManager, e)
    BY <1>1, <1>4 DEF Adds, Telling
  <2> QED BY <2>1, <2>2
<1> QED BY <1>3, <1>4 DEF Steady, Has

LEMMA SteadyReact ==
  ASSUME IInv, NEW c \in Components, inbox[c] # <<>>, outbox[c] = <<>>,
         Head(inbox[c]).type = "RESOURCE_STATUS_CHANGED" => c = SystemManager,
         Head(inbox[c]).type = "RUN_COMPLETED" => c # SystemManager,
         NEW e \in Event, ~Telling(e), React(c, <<>>) \/ React(c, <<e>>)
  PROVE  Steady
<1>1. \A d \in Components : Queue'[d] = Left(c, d) \/ Queue'[d] = Left(c, d) \union Adds(d, e)
  <2>1. CASE React(c, <<>>)
    BY <2>1, TakeEffect DEF IInv
  <2>2. CASE React(c, <<e>>)
    BY <2>2, ReactOne DEF IInv
  <2> QED BY <2>1, <2>2
<1> QED BY <1>1, SteadyTake

LEMMA SteadyPublish ==
  ASSUME IInv, NEW e \in Event, ~Telling(e), inbox' = Deliver(inbox, e) PROVE Steady
<1>1. /\ \A d \in Components : Queue'[d] = Queue[d] \union Adds(d, e)
      /\ SystemManager \in Components /\ Resources \subseteq Components
  BY PublishEffect DEF IInv, Components
<1>2. \A r \in Resources : Echo(r) # e
  BY DEF Echo, ResourceStatusChanged, Telling
<1>3. ASSUME NEW a, a.type = "RUN_COMPLETED" PROVE a \in Queue'[SystemManager] <=> a \in Queue[SystemManager]
  BY <1>1, <1>3 DEF Adds, Telling
<1>4. ASSUME NEW r \in Resources PROVE Echo(r) \in Queue'[r] <=> Echo(r) \in Queue[r]
  BY <1>1, <1>2 DEF Adds
<1> QED BY <1>3, <1>4 DEF Steady, Has

LEMMA SteadyInbox == ASSUME IInv, UNCHANGED inbox PROVE Steady
<1>1. \A c \in Components : Queue'[c] = Queue[c]
  BY QueueIs
<1> QED BY <1>1 DEF Steady, Has, Components

(* The events of the tasks tell the protocol nothing.                                            *)
LEMMA TaskEvents ==
  /\ TrajectoryCompleted \in Event /\ ~Telling(TrajectoryCompleted)
  /\ \A p \in RunPhase : ExecutionCompleted(p) \in Event /\ ~Telling(ExecutionCompleted(p))
  /\ \A g \in StatsGroups : StatsUpdated(g) \in Event /\ ~Telling(StatsUpdated(g))
  /\ \A p \in RunPhase, n \in Nat :
       /\ SchedulingStarted(p, n) \in Event /\ ~Telling(SchedulingStarted(p, n))
       /\ SchedulingCompleted(p, n) \in Event /\ ~Telling(SchedulingCompleted(p, n))
  /\ \A s \in Status : SystemStatusChanged(s) \in Event /\ ~Telling(SystemStatusChanged(s))
  /\ \A run \in MaybeRun : PrepareNewRun(run) \in Event /\ ~Telling(PrepareNewRun(run))
  /\ \A run \in MaybeRun : StartRun(run) \in Event /\ ~Telling(StartRun(run))
  /\ \A r \in Resources : ResourceStatusChanged(r, "RUNNING") \in Event /\ ~Telling(ResourceStatusChanged(r, "RUNNING"))
<1>1. \A r \in Resources : r \in Components \union {Celery}
  BY DEF Components
<1> QED BY <1>1, ExecutionEventTypes, StatusEventTypes, CommandEventTypes
        DEF Telling, TrajectoryCompleted, ExecutionCompleted, StatsUpdated, SchedulingStarted,
            SchedulingCompleted, SystemStatusChanged, PrepareNewRun, StartRun, ResourceStatusChanged

Follows == Codes' /\ [Protocol!Next]_(Protocol!vars)

LEMMA QuietFollows ==
  ASSUME IInv, IInv', Codes, Steady, Taking' <=> Taking,
         UNCHANGED <<currentRun, currentRunStarted, executedRuns, runCode, status, resourcesStatus>>
  PROVE  Follows
BY Quiet DEF Follows

(* The threads of the tasks, and the requests.                                                   *)
LEMMA TaskStepFollows ==
  ASSUME IInv, IInv', Codes,
         \/ CreateTrajectory \/ ScheduleTask \/ CompleteScheduling \/ AreAllTasksExecuted
         \/ \E k \in 1..sent, fails \in BOOLEAN : ComputeTaskReward(k, fails)
  PROVE  Follows
<1>1. UNCHANGED <<currentRun, currentRunStarted, executedRuns, runCode, status, resourcesStatus, scheduler>>
  BY DEF CreateTrajectory, ScheduleTask, CompleteScheduling, AreAllTasksExecuted, ComputeTaskReward
<1>2. Taking' <=> Taking
  BY <1>1 DEF Taking
<1>3. Steady
  <2>1. CASE CreateTrajectory \/ \E k \in 1..sent, fails \in BOOLEAN : ComputeTaskReward(k, fails)
    <3>1. UNCHANGED inbox \/ inbox' = Deliver(inbox, TrajectoryCompleted)
      BY <2>1 DEF CreateTrajectory, ComputeTaskReward, NotifyAgent, Publish
    <3> QED BY <3>1, SteadyInbox, SteadyPublish, TaskEvents
  <2>2. CASE ScheduleTask
    BY <2>2, SteadyInbox DEF ScheduleTask
  <2>3. CASE CompleteScheduling
    <3> DEFINE n == IF generating = "RUN" THEN tasksScheduled ELSE TasksToBootstrap
    <3>1. inbox' = Deliver(inbox, SchedulingCompleted(generating, n))
      BY <2>3 DEF CompleteScheduling, Publish
    <3>2. generating \in RunPhase /\ n \in Nat
      BY LifecycleAssumption DEF IInv, TypeOK, ResourceTypeOK
    <3> QED BY <3>1, <3>2, SteadyPublish, TaskEvents
  <2>4. CASE AreAllTasksExecuted
    <3>1. UNCHANGED inbox \/ inbox' = Deliver(inbox, ExecutionCompleted("RUN"))
      BY <2>4 DEF AreAllTasksExecuted, Publish
    <3>2. "RUN" \in RunPhase
      BY DEF RunPhase
    <3> QED BY <3>1, <3>2, SteadyInbox, SteadyPublish, TaskEvents
  <2> QED BY <2>1, <2>2, <2>3, <2>4
<1> QED BY <1>1, <1>2, <1>3, QuietFollows

LEMMA ControlRunFollows ==
  ASSUME IInv, IInv', Codes, NEW nextRun \in BOOLEAN, NEW autoRun \in BOOLEAN, ControlRun(nextRun, autoRun)
  PROVE  Follows
<1>1. /\ UNCHANGED <<currentRun, currentRunStarted, executedRuns, runCode, status, resourcesStatus, inbox>>
      /\ scheduler["control"] = "idle"
      /\ \E s \in {"checked", "idle"} : scheduler' = [scheduler EXCEPT !["control"] = s]
  BY DEF ControlRun
<1>2. Taking' <=> Taking
  BY <1>1 DEF Taking, IInv, TypeOK, RunTypeOK
<1> QED BY <1>1, <1>2, SteadyInbox, QuietFollows

(* The handlers that only count, note a phase or leave the event alone.                          *)
LEMMA HandlerFollows ==
  ASSUME IInv, IInv', Codes,
         \/ AgentHandlesSchedulingStarted \/ ObserveReward \/ AgentHandlesExecutionCompleted
         \/ CollectorHandlesSchedulingStarted \/ CollectorHandlesSchedulingCompleted
         \/ CollectorHandlesExecutionCompleted \/ GeneratorHandlesSchedulingCompleted
  PROVE  Follows
<1> DEFINE types == {"SCHEDULING_STARTED", "TRAJECTORY_COMPLETED", "EXECUTION_COMPLETED", "SCHEDULING_COMPLETED"}
<1>1. UNCHANGED <<currentRun, currentRunStarted, executedRuns, runCode, status, resourcesStatus, scheduler>>
  BY DEF AgentHandlesSchedulingStarted, ObserveReward, AgentHandlesExecutionCompleted,
         CollectorHandlesSchedulingStarted, CollectorHandlesSchedulingCompleted,
         CollectorHandlesExecutionCompleted, GeneratorHandlesSchedulingCompleted
<1>2. Taking' <=> Taking
  BY <1>1 DEF Taking
<1>3. /\ {Agent, Collector, Generator} \subseteq Components /\ SystemManager \notin {Agent, Collector, Generator}
      /\ "BOOTSTRAP" \in RunPhase /\ {"execution_history_stats", "tasks_generated"} \subseteq StatsGroups
  BY ComponentsAre DEF IInv, RunPhase, StatsGroups
<1>4. ASSUME NEW c \in {Agent, Collector, Generator}, NEW t \in types, Receives(c, t),
             NEW e \in Event, ~Telling(e), React(c, <<>>) \/ React(c, <<e>>)
      PROVE  Steady
  BY <1>3, <1>4, SteadyReact DEF Receives, Idle
<1>5. CASE AgentHandlesSchedulingStarted \/ CollectorHandlesSchedulingStarted
           \/ CollectorHandlesSchedulingCompleted \/ CollectorHandlesExecutionCompleted
  <2>1. \E c \in {Agent, Collector, Generator}, t \in types : Receives(c, t) /\ React(c, <<>>)
    BY <1>5 DEF AgentHandlesSchedulingStarted, CollectorHandlesSchedulingStarted,
                CollectorHandlesSchedulingCompleted, CollectorHandlesExecutionCompleted
  <2>2. Steady
    BY <1>4, <2>1, TaskEvents
  <2> QED BY <1>1, <1>2, <2>2, QuietFollows
<1>6. CASE ObserveReward
  <2>1. Receives(Agent, "TRAJECTORY_COMPLETED")
        /\ (React(Agent, <<>>) \/ React(Agent, <<ExecutionCompleted("BOOTSTRAP")>>))
    BY <1>6 DEF ObserveReward
  <2>2. Steady
    BY <1>3, <1>4, <2>1, TaskEvents
  <2> QED BY <1>1, <1>2, <2>2, QuietFollows
<1>7. CASE AgentHandlesExecutionCompleted
  <2>1. Receives(Agent, "EXECUTION_COMPLETED") /\ React(Agent, <<StatsUpdated("execution_history_stats")>>)
    BY <1>7 DEF AgentHandlesExecutionCompleted
  <2>2. Steady
    BY <1>3, <1>4, <2>1, TaskEvents
  <2> QED BY <1>1, <1>2, <2>2, QuietFollows
<1>8. CASE GeneratorHandlesSchedulingCompleted
  <2>1. Receives(Generator, "SCHEDULING_COMPLETED") /\ React(Generator, <<StatsUpdated("tasks_generated")>>)
    BY <1>8 DEF GeneratorHandlesSchedulingCompleted
  <2>2. Steady
    BY <1>3, <1>4, <2>1, TaskEvents
  <2> QED BY <1>1, <1>2, <2>2, QuietFollows
<1> QED BY <1>5, <1>6, <1>7, <1>8

LEMMA DropCommandFollows ==
  ASSUME IInv, IInv', Codes, NEW r \in Resources, DropCommand(r) PROVE Follows
<1>1. /\ UNCHANGED <<currentRun, currentRunStarted, executedRuns, runCode, status, resourcesStatus, scheduler>>
      /\ React(r, <<>>)
      /\ \E t \in Commands \union {"TRAJECTORY_COMPLETED"} : Receives(r, t)
  BY DEF DropCommand, CommandStatus, Commands
<1>2. Taking' <=> Taking
  BY <1>1 DEF Taking
<1>3. r \in Components /\ r # SystemManager
  BY ComponentsAre DEF IInv
<1>4. inbox[r] # <<>> /\ outbox[r] = <<>> /\ Head(inbox[r]).type # "RESOURCE_STATUS_CHANGED"
  BY <1>1 DEF Receives, Idle, Commands
<1>5. Steady
  BY <1>1, <1>3, <1>4, SteadyReact, TaskEvents
<1> QED BY <1>1, <1>2, <1>5, QuietFollows

-----------------------------------------------------------------------------
(* The manager.  When everybody has agreed the counters of all the resources are at the last     *)
(* command, and so the next one is a step of the protocol.                                       *)
LEMMA Remainders ==
  \A k \in Int : (3 * k) % 3 = 0 /\ (3 * k + 1) % 3 = 1 /\ (3 * k + 2) % 3 = 2
OBVIOUS

LEMMA AgreedCounts ==
  ASSUME IInv, Codes, systemStatus = Stage, Stage # "RUNNING", NEW r \in Resources
  PROVE  /\ LastStatus(r) = Stage /\ resourcesStatus[r] = Stage
         /\ Executed(r) = Issued /\ Unseen(r) = 0 /\ Reported(r) = Issued
<1>1. Agreed(r) /\ resourcesStatus[r] = Stage /\ status[r] = Stage /\ Stage \in {"WAITING", "READY"}
  BY AllAgreed, StageIs DEF Agreed
<1>2. Signals(r) /\ Executed(r) = 3 * (runCode[r] - 1) + OfThisRun(r) /\ runCode[r] \in Nat
  BY SignalsAre, ExecutedIs DEF Signals
<1>3. LastStatus(r) = Stage
  <2>1. status[r] # "ERROR" /\ EchoesOnly(r, Stage)
    BY <1>1 DEF Agreed
  <2>2. Echo(r) \notin Queue[r]
    BY <1>1, <2>1 DEF Echo, EchoesOnly, ResourceStatusChanged
  <2> QED BY <1>1, <1>2, <2>2 DEF Signals
<1>4. Unseen(r) = 0
  BY <1>1, <1>2 DEF Signals, Behind
<1>5. Executed(r) = Issued /\ Issued \in Int
  <2>1. Issued = 3 * Done + Commanded(Stage) /\ Done \in Nat /\ Len(executedRuns) \in Nat
    BY IssuedIs, CurrentRunIs
  <2>2. CASE Stage = "WAITING"
    <3>1. runCode[r] = Done /\ OfThisRun(r) = 3 /\ Commanded(Stage) = 0
      BY <1>3, <2>2 DEF Codes, OfThisRun, Commanded
    <3> QED BY <1>2, <2>1, <3>1
  <2>3. CASE Stage = "READY"
    <3>1. OfThisRun(r) = 1 /\ Commanded(Stage) = 1 /\ runCode[r] = currentRun
      BY <1>1, <1>3, <2>3 DEF Codes, OfThisRun, Commanded
    <3>2. currentRun = Len(executedRuns) + 1 /\ Done = Len(executedRuns)
      BY <2>1, <2>3, CurrentRunIs DEF Stage, Done
    <3> QED BY <1>2, <2>1, <3>1, <3>2
  <2> QED BY <1>1, <2>2, <2>3
<1> QED BY <1>1, <1>3, <1>4, <1>5 DEF Reported

LEMMA NextCommand ==
  ASSUME IInv, IInv', Codes, systemStatus = Stage, Steady, UNCHANGED <<runCode, status, resourcesStatus>>,
         Done' = Done,
         \/ Stage = "WAITING" /\ Stage' = "READY" /\ Done = Len(executedRuns') /\ currentRun \in Runs
              /\ currentRun' = currentRun
         \/ Stage = "READY" /\ Stage' = "RUNNING"
  PROVE  Follows
<1>1. ASSUME NEW r \in Resources
      PROVE  /\ LastStatus(r) = Stage /\ LastStatus(r)' = Stage /\ status[r] = Stage /\ resourcesStatus[r] = Stage
             /\ Executed(r) = Issued /\ Unseen(r) = 0 /\ Reported(r) = Issued
  <2>1. /\ LastStatus(r) = Stage /\ resourcesStatus[r] = Stage
        /\ Executed(r) = Issued /\ Unseen(r) = 0 /\ Reported(r) = Issued
    BY AgreedCounts
  <2>2. Signals(r) /\ Signals(r)'
    BY SignalsAre, SignalsNext
  <2>3. Echo(r)' = Echo(r)
    BY DEF Echo, ResourceStatusChanged
  <2>4. LastStatus(r)' = IF Echo(r) \in Queue'[r] THEN "ERROR" ELSE status'[r]
    BY <2>2, <2>3 DEF Signals
  <2>5. LastStatus(r) = IF Echo(r) \in Queue[r] THEN "ERROR" ELSE status[r]
    BY <2>2 DEF Signals
  <2>6. Echo(r) \notin Queue[r] /\ status[r] = Stage
    BY <2>1, <2>5
  <2> QED BY <2>1, <2>4, <2>6 DEF Steady
<1>2. Codes'
  <2>1. CASE Stage = "WAITING"
    <3> SUFFICES ASSUME NEW r \in Resources
                 PROVE  /\ Stage' = "WAITING" => runCode'[r] = Done'
                        /\ Stage' = "READY" => runCode'[r] = IF status'[r] = "WAITING" THEN Len(executedRuns') ELSE currentRun'
                        /\ Stage' = "WAITING" /\ LastStatus(r)' = "ERROR" => currentRunStarted'
                        /\ status'[r] # "WAITING" => runCode'[r] # NoRun
      BY DEF Codes
    <3>1. runCode[r] = Done
      BY <2>1 DEF Codes
    <3> QED BY <1>1, <2>1, <3>1
  <2>2. CASE Stage = "READY"
    BY <1>1, <2>2 DEF Codes
  <2> QED BY <2>1, <2>2
<1>3. Issued = 3 * Done + Commanded(Stage) /\ Done \in Nat /\ Issued' = 3 * Done + Commanded(Stage')
  BY IssuedIs, IssuedPrime DEF Commanded
<1>4. Issued' = Issued + 1 /\ Issued \in Int
  BY <1>3 DEF Commanded
<1>5. ASSUME NEW r \in Resources PROVE Executed(r)' = Executed(r) /\ Unseen(r)' = Unseen(r)
  <2>1. Executed(r)' = 3 * (runCode'[r] - 1) + OfThisRun(r)' /\ Unseen(r)' = Behind(r)'
    BY <1>2, ExecutedNext, SignalsNext DEF Signals
  <2>2. Executed(r) = 3 * (runCode[r] - 1) + OfThisRun(r)
    BY ExecutedIs
  <2>3. OfThisRun(r)' = OfThisRun(r)
    BY <1>1 DEF OfThisRun
  <2>4. Behind(r)' = 0
    BY <1>1 DEF Behind
  <2> QED BY <1>1, <2>1, <2>2, <2>3, <2>4
<1>6. \A r \in Resources : Reported(r)' = Reported(r)
  BY <1>5 DEF Reported
<1>7. Protocol!Issue
  BY <1>4, <1>5, <1>6 DEF Protocol!Issue
<1>8. CASE Stage = "WAITING"
  <2>1. Issued = 3 * Done /\ Issued % 3 = 0
    BY <1>3, <1>8, Remainders DEF Commanded
  <2>2. Issued < 3 * NumRuns
    <3>1. currentRun # NoRun
      BY <1>8 DEF Runs, NoRun
    <3>2. currentRun = Len(executedRuns) + 1 /\ currentRun <= NumRuns /\ NumRuns \in Nat /\ Len(executedRuns) \in Nat
      BY <3>1, CurrentRunIs
    <3>3. ~Has(SystemManager, "RUN_COMPLETED")
      <4>1. Stage' = "READY" => ~Has(SystemManager, "RUN_COMPLETED")'
        BY DEF Stage
      <4> QED BY <1>8, <4>1 DEF Steady
    <3>4. Done = Len(executedRuns)
      BY <3>2, <3>3 DEF Done
    <3> QED BY <1>3, <2>1, <3>2, <3>4
  <2>3. \A r \in Resources : Protocol!View(r) = "WAITING"
    BY <1>1, <2>1 DEF Protocol!View, Protocol!StatusAfter
  <2>4. Protocol!PrepareNextRun
    BY <1>7, <2>1, <2>2, <2>3 DEF Protocol!PrepareNextRun
  <2> QED BY <1>2, <2>4 DEF Follows, Protocol!Next
<1>9. CASE Stage = "READY"
  <2>1. Issued = 3 * Done + 1 /\ Issued % 3 = 1
    BY <1>3, <1>9, Remainders DEF Commanded
  <2>2. \A r \in Resources : Protocol!View(r) = "READY"
    BY <1>1, <2>1 DEF Protocol!View, Protocol!StatusAfter
  <2>3. Protocol!StartNextRun
    BY <1>7, <2>1, <2>2 DEF Protocol!StartNextRun
  <2> QED BY <1>2, <2>3 DEF Follows, Protocol!Next
<1> QED BY <1>8, <1>9

LEMMA PublishPrepareFollows ==
  ASSUME IInv, IInv', Codes, NEW t \in {"consumer", "control"}, PublishPrepare(t) PROVE Follows
<1>1. /\ scheduler[t] = "taken" /\ scheduler' = [scheduler EXCEPT ![t] = "idle"]
      /\ inbox' = Deliver(inbox, PrepareNewRun(currentRun))
      /\ UNCHANGED <<currentRun, currentRunStarted, executedRuns, runCode, status, resourcesStatus>>
  BY DEF PublishPrepare, Publish
<1>2. /\ systemStatus = "WAITING" /\ Stage = "WAITING"
      /\ currentRun # NoRun /\ ~currentRunStarted /\ ~isCurrentExecutionCompleted
  BY <1>1 DEF IInv, Scheduling
<1>3. ~Has(SystemManager, "RUN_COMPLETED")
  BY <1>2 DEF IInv, Waiting
<1>4. \A u \in {"consumer", "control"} : scheduler'[u] = "idle"
  BY <1>1, OneInScheduler DEF IInv, TypeOK, RunTypeOK
<1>5. currentRun \in MaybeRun /\ currentRun \in Runs
  BY <1>2 DEF IInv, TypeOK, RunTypeOK, MaybeRun
<1>6. Steady
  BY <1>1, <1>5, SteadyPublish, TaskEvents
<1>7. ~Taking' /\ ~Has(SystemManager, "RUN_COMPLETED")'
  BY <1>3, <1>4, <1>6 DEF Taking, Steady
<1>8. Stage' = "READY"
  BY <1>1, <1>2, <1>7 DEF Stage
<1>9. Done' = Done /\ Done = Len(executedRuns')
  <2>1. Len(executedRuns) \in Nat
    BY CurrentRunIs
  <2> QED BY <1>1, <1>3, <1>7, <2>1 DEF Done
<1> QED BY <1>1, <1>2, <1>5, <1>6, <1>8, <1>9, NextCommand

LEMMA ManagerHandlesReadyFollows ==
  ASSUME IInv, IInv', Codes, ManagerHandlesReady PROVE Follows
<1>1. /\ UNCHANGED <<currentRun, executedRuns, runCode, status, resourcesStatus, scheduler>>
      /\ inbox[SystemManager] # <<>> /\ outbox[SystemManager] = <<>>
      /\ Head(inbox[SystemManager]).type = "SYSTEM_STATUS_CHANGED" /\ SystemManager \in Components
  BY ComponentsAre DEF ManagerHandlesReady, Receives, Idle, IInv
<1>2. Taking' <=> Taking
  BY <1>1 DEF Taking
<1>3. CASE systemStatus # "READY" \/ currentRunStarted
  <2>1. React(SystemManager, <<>>) /\ UNCHANGED currentRunStarted
    BY <1>3 DEF ManagerHandlesReady
  <2>2. Steady
    BY <1>1, <2>1, SteadyReact, TaskEvents
  <2> QED BY <1>1, <1>2, <2>1, <2>2, QuietFollows
<1>4. CASE systemStatus = "READY" /\ ~currentRunStarted
  <2>1. Stage = "READY" /\ currentRun # NoRun /\ ~Has(SystemManager, "RUN_COMPLETED") /\ ~Taking
    BY <1>4, StageIs DEF IInv, StatusKnown, BeforeOf, Stage
  <2>2. React(SystemManager, <<StartRun(currentRun)>>) /\ currentRunStarted' = TRUE
    BY <1>4, <2>1 DEF ManagerHandlesReady
  <2>3. currentRun \in MaybeRun
    BY DEF IInv, TypeOK, RunTypeOK
  <2>4. Steady
    BY <1>1, <2>2, <2>3, SteadyReact, TaskEvents
  <2>5. Stage' = "RUNNING" /\ Done' = Done
    BY <1>1, <1>2, <2>1, <2>2, <2>4 DEF Stage, Done, Steady
  <2> QED BY <1>1, <1>4, <2>1, <2>4, <2>5, NextCommand
<1> QED BY <1>3, <1>4

LEMMA TakeRunFollows ==
  ASSUME IInv, IInv', Codes, NEW t \in {"consumer", "control"}, TakeRun(t) PROVE Follows
<1>1. /\ UNCHANGED <<executedRuns, runCode, status, resourcesStatus, inbox>>
      /\ scheduler[t] = "checked" /\ scheduler \in [{"consumer", "control"} -> {"idle", "checked", "taken"}]
  BY DEF TakeRun, IInv, TypeOK, RunTypeOK
<1>2. Steady
  BY <1>1, SteadyInbox
<1>3. CASE runsToExecute = <<>>
  <2>1. scheduler' = [scheduler EXCEPT ![t] = "idle"] /\ UNCHANGED <<currentRun, currentRunStarted>>
    BY <1>3 DEF TakeRun
  <2>2. Taking' <=> Taking
    BY <1>1, <2>1 DEF Taking
  <2> QED BY <1>1, <1>2, <2>1, <2>2, QuietFollows
<1>4. CASE runsToExecute # <<>>
  <2>1. scheduler' = [scheduler EXCEPT ![t] = "taken"]
    BY <1>4 DEF TakeRun
  <2>2. systemStatus = Stage /\ Stage = "WAITING"
    BY <1>1 DEF IInv, Scheduling
  <2>3. Stage' = "WAITING" /\ Done' = Done
    <3>1. Taking'
      BY <1>1, <2>1 DEF Taking
    <3> QED BY <1>1, <1>2, <3>1 DEF Stage, Done, Steady
  <2>4. ASSUME NEW r \in Resources
        PROVE  LastStatus(r) # "ERROR" /\ LastStatus(r)' = LastStatus(r)
    <3>1. LastStatus(r) = "WAITING"
      BY <2>2, AgreedCounts
    <3>2. Signals(r) /\ Signals(r)' /\ Echo(r)' = Echo(r)
      BY SignalsAre, SignalsNext DEF Echo, ResourceStatusChanged
    <3>3. LastStatus(r)' = IF Echo(r) \in Queue'[r] THEN "ERROR" ELSE status'[r]
      BY <3>2 DEF Signals
    <3>4. LastStatus(r) = IF Echo(r) \in Queue[r] THEN "ERROR" ELSE status[r]
      BY <3>2 DEF Signals
    <3> QED BY <1>1, <1>2, <3>1, <3>3, <3>4 DEF Steady
  <2> QED BY <1>1, <2>2, <2>3, <2>4, Still DEF Follows
<1> QED BY <1>3, <1>4

(* The handlers of the manager.                                                                  *)
LEMMA ManagerQuietFollows ==
  ASSUME IInv, IInv', Codes,
         \/ ManagerHandlesWaiting \/ ManagerHandlesPrepare \/ ManagerHandlesSchedulingStarted
         \/ ManagerHandlesExecutionCompleted
  PROVE  Follows
<1>1. /\ UNCHANGED <<currentRun, currentRunStarted, executedRuns, runCode, status, resourcesStatus>>
      /\ inbox[SystemManager] # <<>> /\ outbox[SystemManager] = <<>> /\ React(SystemManager, <<>>)
      /\ Head(inbox[SystemManager]).type \notin {"RUN_COMPLETED", "RESOURCE_STATUS_CHANGED"}
      /\ scheduler["consumer"] = "idle"
      /\ \E s \in {"checked", "idle"} : scheduler' = [scheduler EXCEPT !["consumer"] = s] \/ scheduler' = scheduler
  BY DEF ManagerHandlesWaiting, ManagerHandlesPrepare, ManagerHandlesSchedulingStarted,
         ManagerHandlesExecutionCompleted, Receives, Idle
<1>2. Taking' <=> Taking
  BY <1>1 DEF Taking, IInv, TypeOK, RunTypeOK
<1>3. Steady
  BY <1>1, SteadyReact, TaskEvents, ComponentsAre DEF IInv
<1> QED BY <1>1, <1>2, <1>3, QuietFollows

(* run_completed: what was the current run is an executed one.                                   *)
LEMMA ManagerHandlesRunCompletedFollows ==
  ASSUME IInv, IInv', Codes, ManagerHandlesRunCompleted PROVE Follows
<1> DEFINE e == Head(inbox[SystemManager])
<1>1. /\ UNCHANGED <<currentRunStarted, runCode, status, resourcesStatus, scheduler>>
      /\ inbox[SystemManager] # <<>> /\ React(SystemManager, <<>>) /\ e.type = "RUN_COMPLETED"
      /\ currentRun' = NoRun /\ executedRuns' = Append(executedRuns, currentRun)
      /\ SystemManager \in Components
  BY ComponentsAre DEF ManagerHandlesRunCompleted, Receives, IInv
<1>2. /\ e \in Queue[SystemManager] /\ \A d \in Components : Queue'[d] = Left(SystemManager, d)
      /\ \A b \in Rest(SystemManager) : ~Overtakes(SystemManager, e, b)
  BY <1>1, HeadOf, TakeEffect DEF IInv
<1>3. /\ Has(SystemManager, "RUN_COMPLETED") /\ ~Has(SystemManager, "RUN_COMPLETED")'
      /\ \A r \in Resources : Queue'[r] = Queue[r]
  <2>1. Queue'[SystemManager] = Rest(SystemManager) /\ \A b \in Rest(SystemManager) : b.type # "RUN_COMPLETED"
    BY <1>1, <1>2 DEF Left, Overtakes
  <2>2. \A r \in Resources : r \in Components /\ r # SystemManager
    BY ComponentsAre DEF IInv
  <2> QED BY <1>1, <1>2, <2>1, <2>2 DEF Has, Left
<1>4. Stage = "WAITING" /\ Stage' = "WAITING"
  BY <1>1, <1>3 DEF Stage
<1>5. Done' = Done
  <2>1. executedRuns \in Seq(MaybeRun) /\ currentRun \in MaybeRun
    BY DEF IInv, TypeOK, RunTypeOK
  <2>2. Len(executedRuns') = Len(executedRuns) + 1 /\ Len(executedRuns) \in Nat
    BY <1>1, <2>1
  <2> QED BY <1>3, <2>2 DEF Done
<1>6. ASSUME NEW r \in Resources PROVE LastStatus(r)' = LastStatus(r)
  <2>1. Signals(r) /\ Signals(r)' /\ Echo(r)' = Echo(r)
    BY SignalsAre, SignalsNext DEF Echo, ResourceStatusChanged
  <2>2. LastStatus(r)' = IF Echo(r) \in Queue'[r] THEN "ERROR" ELSE status'[r]
    BY <2>1 DEF Signals
  <2>3. LastStatus(r) = IF Echo(r) \in Queue[r] THEN "ERROR" ELSE status[r]
    BY <2>1 DEF Signals
  <2> QED BY <1>1, <1>3, <2>2, <2>3
<1> QED BY <1>1, <1>4, <1>5, <1>6, Still DEF Follows

(* The last statistics: RUN_COMPLETED, whatever the statuses are.                                *)
LEMMA CompleteFollows ==
  ASSUME IInv, IInv', Codes, ManagerHandlesStats, StatsCollected(statsGroups'), isCurrentExecutionCompleted
  PROVE  Follows
<1> DEFINE e == Head(inbox[SystemManager])
           c == RunCompleted(smRunCode)
<1>1. /\ UNCHANGED <<currentRun, currentRunStarted, executedRuns, runCode, status, resourcesStatus, scheduler>>
      /\ inbox[SystemManager] # <<>> /\ outbox[SystemManager] = <<>> /\ e.type = "STATS_UPDATED"
      /\ SystemManager \in Components
  BY ComponentsAre DEF ManagerHandlesStats, Receives, Idle, IInv
<1>2. /\ e \in Queue[SystemManager] /\ Has(SystemManager, "STATS_UPDATED")
      /\ Queue[SystemManager] = {e} \union Rest(SystemManager)
  BY <1>1, HeadOf DEF IInv, Has
<1>3. /\ Stage = "RUNNING" /\ currentRun # NoRun /\ currentRunStarted
      /\ ~Has(SystemManager, "RUN_COMPLETED") /\ ~Taking
  BY <1>2, RunningOnly
<1>4. smRunCode # NoRun
  BY <1>3 DEF IInv, RunningManager
<1>5. c \in Event /\ c.type = "RUN_COMPLETED" /\ React(SystemManager, <<c>>)
  <2>1. c \in Event /\ c.type = "RUN_COMPLETED"
    BY CommandEventTypes DEF IInv, TypeOK, ManagerTypeOK, RunCompleted
  <2> QED BY <1>4, <2>1 DEF ManagerHandlesStats
<1> HIDE DEF c
<1>6. \A d \in Components : Queue'[d] = Left(SystemManager, d) \union Adds(d, c)
  BY <1>1, <1>5, ReactOne DEF IInv
<1>7. Queue'[SystemManager] = Rest(SystemManager) \union {c}
  BY <1>1, <1>5, <1>6 DEF Left, Adds, Relevant
<1>8. Has(SystemManager, "RUN_COMPLETED")' /\ Stage' = "WAITING"
  BY <1>5, <1>7 DEF Has, Stage
<1>9. Len(executedRuns) \in Nat /\ currentRun = Len(executedRuns) + 1 /\ Done = Len(executedRuns) /\ Done' = Done + 1
  BY <1>1, <1>3, <1>8, CurrentRunIs DEF Done
<1>10. ASSUME NEW r \in Resources
       PROVE  /\ LastStatus(r)' = LastStatus(r) /\ runCode[r] = currentRun
              /\ (Signals(r) /\ Signals(r)') /\ LastStatus(r) \in {"READY", "RUNNING", "ERROR"}
  <2>1. Signals(r) /\ Signals(r)' /\ Echo(r)' = Echo(r)
    BY SignalsAre, SignalsNext DEF Echo, ResourceStatusChanged
  <2>2. r \in Components /\ r # SystemManager
    BY ComponentsAre DEF IInv
  <2>3. Echo(r) \in Queue'[r] <=> Echo(r) \in Queue[r]
    <3>1. Queue'[r] = Queue[r] \union Adds(r, c)
      BY <1>6, <2>2 DEF Left
    <3>2. Echo(r) \notin Adds(r, c)
      BY <1>5 DEF Adds, Echo, ResourceStatusChanged
    <3> QED BY <3>1, <3>2
  <2>4. LastStatus(r)' = IF Echo(r) \in Queue'[r] THEN "ERROR" ELSE status'[r]
    BY <2>1 DEF Signals
  <2>5. LastStatus(r) = IF Echo(r) \in Queue[r] THEN "ERROR" ELSE status[r]
    BY <2>1 DEF Signals
  <2>6. LastStatus(r) \in {"READY", "RUNNING", "ERROR"}
    BY <1>3, <2>1 DEF Signals, BeforeOf
  <2>7. runCode[r] = currentRun
    BY <1>3 DEF IInv, RunCodes
  <2> QED BY <1>1, <2>1, <2>3, <2>4, <2>5, <2>6, <2>7
<1>11. Codes'
  <2> SUFFICES ASSUME NEW r \in Resources
               PROVE  /\ runCode'[r] = Done' /\ currentRunStarted' /\ (status'[r] # "WAITING" => runCode'[r] # NoRun)
    BY <1>8 DEF Codes
  <2> QED BY <1>1, <1>3, <1>9, <1>10
<1>12. Issued = 3 * Done + 2 /\ Issued' = 3 * Done + 3 /\ Issued' = Issued + 1 /\ Done \in Int
  BY <1>3, <1>8, <1>9, IssuedIs, IssuedPrime DEF Commanded
<1>13. ASSUME NEW r \in Resources PROVE Executed(r)' = Executed(r) /\ Unseen(r)' = Unseen(r)
  <2>1. Executed(r)' = 3 * (runCode'[r] - 1) + OfThisRun(r)' /\ Executed(r) = 3 * (runCode[r] - 1) + OfThisRun(r)
    BY <1>11, ExecutedIs, ExecutedNext
  <2>2. OfThisRun(r)' = OfThisRun(r)
    BY <1>1, <1>10 DEF OfThisRun
  <2>3. LastStatus(r) = "RUNNING" => resourcesStatus[r] = "RUNNING"
    <3> SUFFICES ASSUME LastStatus(r) = "RUNNING" PROVE resourcesStatus[r] = "RUNNING"
      OBVIOUS
    <3>1. LastStatus(r)' = "RUNNING" /\ Signals(r)'
      BY <1>10
    <3>2. ~Broken(r)' /\ status'[r] = "RUNNING"
      BY <3>1 DEF Signals
    <3>3. Lock(r)'
      BY DEF IInv, Lockstep
    <3>4. Awaits(r)'
      BY <1>8, <3>2, <3>3 DEF Lock, Reports, Agreed
    <3>5. resourcesStatus'[r] = "RUNNING"
      BY <1>8, <3>4 DEF Awaits, BeforeOf
    <3> QED BY <1>1, <3>5
  <2>4. Unseen(r) = 0
    BY <1>3, <1>10, <2>3 DEF Signals, Behind
  <2>5. Unseen(r)' = 0
    BY <1>8, <1>10 DEF Signals, Behind
  <2> QED BY <1>1, <2>1, <2>2, <2>4, <2>5
<1>14. \A r \in Resources : Reported(r)' = Reported(r)
  BY <1>13 DEF Reported
<1>15. Protocol!Issue
  BY <1>12, <1>13, <1>14 DEF Protocol!Issue
<1>16. \E r \in Resources : Executed(r) = Issued
  <2>1. Generator \in Resources /\ status[Generator] = "RUNNING"
    BY <1>3, ComponentsAre DEF IInv, RunningManager, Begun
  <2>2. ~Broken(Generator)
    BY <2>1 DEF Broken
  <2>3. LastStatus(Generator) = "RUNNING" /\ runCode[Generator] = currentRun
    BY <1>10, <2>1, <2>2 DEF Signals
  <2>4. Executed(Generator) = 3 * (currentRun - 1) + 2
    BY <2>1, <2>3, ExecutedIs DEF OfThisRun
  <2> QED BY <1>9, <1>12, <2>1, <2>4
<1>17. Issued % 3 = 2
  BY <1>12, Remainders
<1>18. Protocol!CompleteRun
  BY <1>15, <1>16, <1>17 DEF Protocol!CompleteRun
<1> QED BY <1>11, <1>18 DEF Follows, Protocol!Next

LEMMA ManagerHandlesStatsFollows ==
  ASSUME IInv, IInv', Codes, ManagerHandlesStats PROVE Follows
<1>1. CASE StatsCollected(statsGroups') /\ isCurrentExecutionCompleted
  BY <1>1, CompleteFollows
<1>2. CASE ~StatsCollected(statsGroups') \/ ~isCurrentExecutionCompleted
  <2>1. /\ UNCHANGED <<currentRun, currentRunStarted, executedRuns, runCode, status, resourcesStatus, scheduler>>
        /\ inbox[SystemManager] # <<>> /\ outbox[SystemManager] = <<>> /\ React(SystemManager, <<>>)
        /\ Head(inbox[SystemManager]).type = "STATS_UPDATED"
    BY <1>2 DEF ManagerHandlesStats, Receives, Idle
  <2>2. Taking' <=> Taking
    BY <2>1 DEF Taking
  <2>3. Steady
    BY <2>1, SteadyReact, TaskEvents, ComponentsAre DEF IInv
  <2> QED BY <2>1, <2>2, <2>3, QuietFollows
<1> QED BY <1>1, <1>2

(* A report: the manager learns it, unless it is that of a failure.                              *)
LEMMA ReportFollows ==
  ASSUME IInv, IInv', Codes, ManagerHandlesResourceStatus PROVE Follows
<1> DEFINE e == Head(inbox[SystemManager])
<1>1. /\ inbox[SystemManager] # <<>> /\ outbox[SystemManager] = <<>>
      /\ e.type = "RESOURCE_STATUS_CHANGED" /\ SystemManager \in Components
  BY ComponentsAre DEF ManagerHandlesResourceStatus, Receives, Idle, IInv
<1>2. e \in Queue[SystemManager]
  BY <1>1, HeadOf DEF IInv
<1>3. PICK r \in Resources, s \in {"WAITING", "READY", "RUNNING", "ERROR"} :
        e = ResourceStatusChanged(r, s) /\ e.name = r /\ e.status = s
  BY <1>1, <1>2, ReportsAre
<1>4. /\ resourcesStatus[r] = BeforeOf(Stage)
      /\ (Reports(r) /\ s = Stage) \/ (Broken(r) /\ s = "ERROR" /\ Stage # "WAITING")
  BY <1>2, <1>3, ReportedStatus
<1>5. resourcesStatus[r] # s /\ BeforeOf(Stage) # Stage /\ Stage # "ERROR"
  BY <1>4, StageIs DEF BeforeOf
<1>6. /\ resourcesStatus' = [resourcesStatus EXCEPT ![r] = s]
      /\ React(SystemManager, Answer(e) \o StatusEvents(systemStatus'))
      /\ UNCHANGED <<currentRun, currentRunStarted, executedRuns, runCode, status, scheduler>>
  <2>1. boot[SystemManager] = "up"
    BY <1>1 DEF IInv, UpAndRunning
  <2> QED BY <1>3, <1>5, <2>1 DEF ManagerHandlesResourceStatus
<1>7. Answer(e) = <<>>
  BY <1>3 DEF Answer
<1> HIDE DEF e
<1>8. \A q \in Resources : resourcesStatus'[q] = IF q = r THEN s ELSE resourcesStatus[q]
  BY <1>6 DEF IInv, TypeOK, ManagerTypeOK
<1>9. Steady
  <2> DEFINE n == SystemStatusChanged(systemStatus')
  <2>1. n \in Event /\ ~Telling(n)
    BY TaskEvents DEF IInv, TypeOK, ManagerTypeOK
  <2>2. StatusEvents(systemStatus') = <<>> \/ StatusEvents(systemStatus') = <<n>>
    BY DEF StatusEvents
  <2> HIDE DEF n
  <2>3. <<>> \o <<n>> = <<n>> /\ <<>> \o <<>> = <<>>
    BY <2>1
  <2>4. React(SystemManager, <<>>) \/ React(SystemManager, <<n>>)
    BY <1>6, <1>7, <2>2, <2>3
  <2> QED BY <1>1, <2>1, <2>4, SteadyReact DEF e
<1>10. Stage' = Stage /\ Done' = Done
  BY <1>6, <1>9 DEF Stage, Done, Steady, Taking
<1>11. ASSUME NEW q \in Resources
       PROVE  LastStatus(q)' = LastStatus(q) /\ Signals(q) /\ Signals(q)'
  <2>1. Signals(q) /\ Signals(q)' /\ Echo(q)' = Echo(q)
    BY SignalsAre, SignalsNext DEF Echo, ResourceStatusChanged
  <2>2. LastStatus(q)' = IF Echo(q) \in Queue'[q] THEN "ERROR" ELSE status'[q]
    BY <2>1 DEF Signals
  <2>3. LastStatus(q) = IF Echo(q) \in Queue[q] THEN "ERROR" ELSE status[q]
    BY <2>1 DEF Signals
  <2> QED BY <1>6, <1>9, <2>1, <2>2, <2>3 DEF Steady
<1>12. Codes'
  BY <1>6, <1>10, <1>11 DEF Codes
<1>13. Issued' = Issued
  BY <1>10, IssuedIs, IssuedPrime
<1>14. ASSUME NEW q \in Resources PROVE Executed(q)' = Executed(q) /\ Executed(q) \in Int
  <2>1. OfThisRun(q)' = OfThisRun(q) /\ OfThisRun(q) \in Int
    BY <1>6, <1>11 DEF OfThisRun
  <2>2. runCode[q] \in Nat
    BY <1>11 DEF Signals
  <2> QED BY <1>6, <1>12, <2>1, <2>2, ExecutedIs, ExecutedNext
<1>15. ASSUME NEW q \in Resources, q # r PROVE Unseen(q)' = Unseen(q)
  BY <1>8, <1>10, <1>11, <1>15 DEF Signals, Behind
<1>16. CASE Broken(r) /\ s = "ERROR"
  <2>1. LastStatus(r) = "ERROR"
    BY <1>11, <1>16 DEF Signals
  <2>2. Unseen(r)' = Unseen(r)
    BY <1>5, <1>10, <1>11, <2>1 DEF Signals, Behind
  <2>3. UNCHANGED Protocol!vars
    BY <1>13, <1>14, <1>15, <2>2, NoCount
  <2> QED BY <1>12, <2>3 DEF Follows
<1>17. CASE Reports(r) /\ s = Stage
  <2>1. LastStatus(r) = Stage
    <3>1. status[r] = Stage /\ ~Broken(r)
      <4>1. status[r] = Stage /\ EchoesOnly(r, Stage)
        BY <1>17 DEF Reports
      <4>2. Echo(r) \notin Queue[r]
        BY <1>5, <4>1 DEF EchoesOnly, Echo, ResourceStatusChanged
      <4>3. LastStatus(r) # "ERROR"
        BY <1>5, <1>11, <4>1, <4>2 DEF Signals
      <4> QED BY <1>11, <4>1, <4>3 DEF Signals
    <3> QED BY <1>11, <3>1 DEF Signals
  <2>2. Unseen(r) = 1 /\ Unseen(r)' = 0
    BY <1>4, <1>5, <1>8, <1>10, <1>11, <1>17, <2>1 DEF Signals, Behind
  <2>3. \A q \in Resources : Reported(q)' = IF q = r THEN Reported(q) + 1 ELSE Reported(q)
    BY <1>14, <1>15, <2>2 DEF Reported
  <2>4. Reported(r) < Executed(r)
    BY <1>14, <2>2 DEF Reported
  <2>5. Protocol!Learn(r)
    BY <1>13, <1>14, <2>3, <2>4 DEF Protocol!Learn
  <2> QED BY <1>12, <2>5 DEF Follows, Protocol!Next
<1> QED BY <1>4, <1>16, <1>17

-----------------------------------------------------------------------------
(* The resources.  One that awaits a command is one command behind.                              *)
LEMMA AwaitsCounts ==
  ASSUME IInv, Codes, NEW r \in Resources, Awaits(r)
  PROVE  /\ LastStatus(r) = BeforeOf(Stage) /\ Stage \in {"WAITING", "READY", "RUNNING"}
         /\ resourcesStatus[r] = BeforeOf(Stage) /\ Echo(r) \notin Queue[r]
         /\ Executed(r) = Issued - 1 /\ Issued \in Int /\ Unseen(r) = 0
         /\ (Stage = "READY" => currentRun # NoRun /\ currentRun = Done + 1 /\ ~currentRunStarted)
         /\ (Stage = "RUNNING" => currentRun # NoRun /\ runCode[r] = Done + 1 /\ currentRunStarted)
         /\ (Stage = "WAITING" => runCode[r] = Done)
<1>1. /\ Stage \in {"WAITING", "READY", "RUNNING"} /\ Signals(r)
      /\ Executed(r) = 3 * (runCode[r] - 1) + OfThisRun(r) /\ runCode[r] \in Nat
  BY StageIs, SignalsAre, ExecutedIs DEF Signals
<1>2. /\ status[r] = BeforeOf(Stage) /\ EchoesOnly(r, BeforeOf(Stage)) /\ resourcesStatus[r] = BeforeOf(Stage)
      /\ BeforeOf(Stage) # "ERROR" /\ BeforeOf(Stage) # Stage
  BY <1>1 DEF Awaits, BeforeOf
<1>3. Echo(r) \notin Queue[r]
  BY <1>2 DEF EchoesOnly, Echo, ResourceStatusChanged
<1>4. LastStatus(r) = BeforeOf(Stage) /\ Unseen(r) = 0
  BY <1>1, <1>2, <1>3 DEF Signals, Behind
<1>5. Issued = 3 * Done + Commanded(Stage) /\ Done \in Nat /\ Len(executedRuns) \in Nat
  BY IssuedIs, CurrentRunIs
<1>6. CASE Stage = "WAITING"
  <2>1. runCode[r] = Done /\ OfThisRun(r) = 2 /\ Commanded(Stage) = 0
    BY <1>4, <1>6 DEF Codes, OfThisRun, BeforeOf, Commanded
  <2> QED BY <1>1, <1>2, <1>3, <1>4, <1>5, <1>6, <2>1
<1>7. CASE Stage = "READY"
  <2>1. /\ currentRun # NoRun /\ ~currentRunStarted /\ Done = Len(executedRuns) /\ currentRun = Done + 1
        /\ status[r] = "WAITING"
    BY <1>2, <1>5, <1>7, CurrentRunIs DEF Stage, Done, BeforeOf
  <2>2. runCode[r] = Done /\ OfThisRun(r) = 3 /\ Commanded(Stage) = 1
    BY <1>4, <1>7, <2>1 DEF Codes, OfThisRun, BeforeOf, Commanded
  <2> QED BY <1>1, <1>2, <1>3, <1>4, <1>5, <1>7, <2>1, <2>2
<1>8. CASE Stage = "RUNNING"
  <2>1. currentRun # NoRun /\ currentRunStarted /\ Done = Len(executedRuns) /\ currentRun = Done + 1
    BY <1>5, <1>8, CurrentRunIs DEF Stage, Done
  <2>2. runCode[r] = currentRun
    BY <1>8 DEF IInv, RunCodes
  <2>3. OfThisRun(r) = 1 /\ Commanded(Stage) = 2
    BY <1>4, <1>8 DEF OfThisRun, BeforeOf, Commanded
  <2> QED BY <1>1, <1>2, <1>3, <1>4, <1>5, <1>8, <2>1, <2>2, <2>3
<1> QED BY <1>1, <1>6, <1>7, <1>8

(* What r does leaves the others alone; it comes to the status s, the one it was told or ERROR.   *)
LEMMA OthersCount ==
  ASSUME IInv, IInv', Codes, NEW r \in Resources, Awaits(r), NEW s \in {Stage, "ERROR"},
         s = "ERROR" => Stage # "WAITING", Stage' = Stage, Done' = Done,
         UNCHANGED <<resourcesStatus, currentRun, currentRunStarted, executedRuns>>,
         \A q \in Resources \ {r} :
           LastStatus(q)' = LastStatus(q) /\ runCode'[q] = runCode[q] /\ status'[q] = status[q],
         LastStatus(r)' = s, runCode'[r] = IF Stage = "READY" THEN currentRun ELSE runCode[r]
  PROVE  /\ Codes' /\ Issued' = Issued
         /\ \A q \in Resources \ {r} : Executed(q)' = Executed(q) /\ Unseen(q)' = Unseen(q)
         /\ Executed(r)' = IF s = "ERROR" THEN Executed(r) ELSE Executed(r) + 1
         /\ Unseen(r)' = IF s = "ERROR" THEN Unseen(r) ELSE Unseen(r) + 1
<1>1. /\ LastStatus(r) = BeforeOf(Stage) /\ Stage \in {"WAITING", "READY", "RUNNING"}
      /\ resourcesStatus[r] = BeforeOf(Stage)
      /\ Executed(r) = Issued - 1 /\ Issued \in Int /\ Unseen(r) = 0
      /\ (Stage = "READY" => currentRun # NoRun /\ currentRun = Done + 1 /\ ~currentRunStarted)
      /\ (Stage = "RUNNING" => currentRun # NoRun /\ runCode[r] = Done + 1 /\ currentRunStarted)
      /\ (Stage = "WAITING" => runCode[r] = Done)
  BY AwaitsCounts
<1>2. \A q \in Resources : Signals(q) /\ Signals(q)'
  BY SignalsAre, SignalsNext
<1>3. Issued' = Issued /\ Issued = 3 * Done + Commanded(Stage) /\ Done \in Nat
  BY IssuedIs, IssuedPrime
<1>4. (s # "ERROR" => status'[r] = Stage) /\ (s = "ERROR" => status'[r] \in {"ERROR", "READY"})
  <2>1. s # "ERROR" => status'[r] = s
    BY <1>2 DEF Signals
  <2>2. s = "ERROR" => Broken(r)'
    BY <1>2 DEF Signals
  <2> QED BY <2>1, <2>2 DEF Broken
<1>5. Codes'
  <2> SUFFICES ASSUME NEW q \in Resources
               PROVE  /\ Stage = "WAITING" => runCode'[q] = Done
                      /\ Stage = "READY" => runCode'[q] = IF status'[q] = "WAITING" THEN Len(executedRuns) ELSE currentRun
                      /\ Stage = "WAITING" /\ LastStatus(q)' = "ERROR" => currentRunStarted
                      /\ status'[q] # "WAITING" => runCode'[q] # NoRun
    BY DEF Codes
  <2>1. CASE q # r
    BY <2>1 DEF Codes
  <2>2. CASE q = r
    <3>1. Stage = "WAITING" => s = "WAITING" /\ runCode'[r] = Done /\ status'[r] = "WAITING"
      BY <1>1, <1>4
    <3>2. Stage = "READY" => runCode'[r] = currentRun /\ status'[r] # "WAITING" /\ currentRun # NoRun
      BY <1>1, <1>4
    <3>3. Stage = "RUNNING" => runCode'[r] # NoRun
      BY <1>1, <1>3 DEF NoRun
    <3> QED BY <1>1, <2>2, <3>1, <3>2, <3>3
  <2> QED BY <2>1, <2>2
<1>6. ASSUME NEW q \in Resources \ {r} PROVE Executed(q)' = Executed(q) /\ Unseen(q)' = Unseen(q)
  <2>1. OfThisRun(q)' = OfThisRun(q) /\ Behind(q)' = Behind(q)
    BY <1>6 DEF OfThisRun, Behind
  <2> QED BY <1>2, <1>5, <2>1, ExecutedIs, ExecutedNext DEF Signals
<1>7. Executed(r)' = 3 * (runCode'[r] - 1) + OfThisRun(r)' /\ Unseen(r)' = Behind(r)'
  BY <1>2, <1>5, ExecutedNext DEF Signals
<1>8. CASE s = "ERROR"
  <2>1. Unseen(r)' = 0
    BY <1>1, <1>7, <1>8 DEF Behind
  <2>2. Executed(r)' = Issued - 1
    <3>1. CASE Stage = "READY"
      <4>1. OfThisRun(r)' = 0 /\ runCode'[r] = Done + 1 /\ Commanded(Stage) = 1
        BY <1>1, <1>8, <3>1 DEF OfThisRun, Commanded
      <4> QED BY <1>3, <1>7, <4>1
    <3>2. CASE Stage = "RUNNING"
      <4>1. OfThisRun(r)' = 1 /\ runCode'[r] = Done + 1 /\ Commanded(Stage) = 2
        BY <1>1, <1>8, <3>2 DEF OfThisRun, Commanded
      <4> QED BY <1>3, <1>7, <4>1
    <3> QED BY <1>1, <1>8, <3>1, <3>2
  <2> QED BY <1>1, <1>3, <1>5, <1>6, <1>8, <2>1, <2>2
<1>9. CASE s # "ERROR"
  <2>1. s = Stage /\ BeforeOf(Stage) # Stage
    BY <1>1, <1>9 DEF BeforeOf
  <2>2. Unseen(r)' = 1
    BY <1>1, <1>7, <2>1 DEF Behind
  <2>3. Executed(r)' = Issued
    <3>1. CASE Stage = "WAITING"
      <4>1. OfThisRun(r)' = 3 /\ runCode'[r] = Done /\ Commanded(Stage) = 0
        BY <1>1, <2>1, <3>1 DEF OfThisRun, Commanded
      <4> QED BY <1>3, <1>7, <4>1
    <3>2. CASE Stage = "READY"
      <4>1. OfThisRun(r)' = 1 /\ runCode'[r] = Done + 1 /\ Commanded(Stage) = 1
        BY <1>1, <2>1, <3>2 DEF OfThisRun, Commanded
      <4> QED BY <1>3, <1>7, <4>1
    <3>3. CASE Stage = "RUNNING"
      <4>1. OfThisRun(r)' = 2 /\ runCode'[r] = Done + 1 /\ Commanded(Stage) = 2
        BY <1>1, <2>1, <3>3 DEF OfThisRun, Commanded
      <4> QED BY <1>3, <1>7, <4>1
    <3> QED BY <1>1, <3>1, <3>2, <3>3
  <2> QED BY <1>1, <1>3, <1>5, <1>6, <1>9, <2>2, <2>3
<1> QED BY <1>8, <1>9

LEMMA CommandFollows ==
  ASSUME IInv, IInv', Codes, NEW r \in Resources, Awaits(r), NEW s \in {Stage, "ERROR"},
         s = "ERROR" => Stage # "WAITING", Stage' = Stage, Done' = Done,
         UNCHANGED <<resourcesStatus, currentRun, currentRunStarted, executedRuns>>,
         \A q \in Resources \ {r} :
           LastStatus(q)' = LastStatus(q) /\ runCode'[q] = runCode[q] /\ status'[q] = status[q],
         LastStatus(r)' = s, runCode'[r] = IF Stage = "READY" THEN currentRun ELSE runCode[r]
  PROVE  Follows
<1>1. /\ Codes' /\ Issued' = Issued
      /\ \A q \in Resources \ {r} : Executed(q)' = Executed(q) /\ Unseen(q)' = Unseen(q)
      /\ Executed(r)' = IF s = "ERROR" THEN Executed(r) ELSE Executed(r) + 1
      /\ Unseen(r)' = IF s = "ERROR" THEN Unseen(r) ELSE Unseen(r) + 1
  BY OthersCount
<1>2. Executed(r) = Issued - 1 /\ Issued \in Int /\ Unseen(r) = 0
  BY AwaitsCounts
<1>3. CASE s = "ERROR"
  <2>1. UNCHANGED Protocol!vars
    BY <1>1, <1>3, NoCount
  <2> QED BY <1>1, <2>1 DEF Follows
<1>4. CASE s # "ERROR"
  <2>1. \A q \in Resources : Reported(q)' = Reported(q)
    BY <1>1, <1>2, <1>4 DEF Reported
  <2>2. \A q \in Resources : Executed(q)' = IF q = r THEN Executed(q) + 1 ELSE Executed(q)
    BY <1>1, <1>4
  <2>3. Executed(r) < Issued
    BY <1>2
  <2>4. Protocol!Execute(r)
    BY <1>1, <2>1, <2>2, <2>3 DEF Protocol!Execute
  <2> QED BY <1>1, <2>4 DEF Follows, Protocol!Next
<1> QED BY <1>3, <1>4

(* A command executed by a step that is steady.                                                  *)
LEMMA ExecuteFollows ==
  ASSUME IInv, IInv', Codes, NEW r \in Resources, Awaits(r), Steady,
         UNCHANGED <<resourcesStatus, runVars>>, status' = [status EXCEPT ![r] = Stage],
         runCode' = IF Stage = "READY" THEN [runCode EXCEPT ![r] = currentRun] ELSE runCode
  PROVE  Follows
<1>1. Stage' = Stage /\ Done' = Done
  BY DEF Stage, Done, Steady, Taking
<1>2. status \in [Resources -> Status] /\ runCode \in [Resources -> MaybeRun]
  BY DEF IInv, TypeOK, ResourceTypeOK
<1>3. ASSUME NEW q \in Resources
      PROVE  LastStatus(q)' = IF q = r THEN Stage ELSE LastStatus(q)
  <2>1. Signals(q) /\ Signals(q)' /\ Echo(q)' = Echo(q)
    BY SignalsAre, SignalsNext DEF Echo, ResourceStatusChanged
  <2>2. LastStatus(q)' = IF Echo(q) \in Queue'[q] THEN "ERROR" ELSE status'[q]
    BY <2>1 DEF Signals
  <2>3. LastStatus(q) = IF Echo(q) \in Queue[q] THEN "ERROR" ELSE status[q]
    BY <2>1 DEF Signals
  <2>4. Echo(r) \notin Queue[r]
    BY AwaitsCounts
  <2>5. CASE q = r
    BY <1>2, <2>2, <2>4, <2>5 DEF Steady
  <2>6. CASE q # r
    BY <1>2, <2>2, <2>3, <2>6 DEF Steady
  <2> QED BY <2>5, <2>6
<1>4. LastStatus(r)' = Stage /\ runCode'[r] = IF Stage = "READY" THEN currentRun ELSE runCode[r]
  BY <1>2, <1>3
<1>5. \A q \in Resources \ {r} :
        LastStatus(q)' = LastStatus(q) /\ runCode'[q] = runCode[q] /\ status'[q] = status[q]
  BY <1>2, <1>3
<1> QED BY <1>1, <1>4, <1>5, StageIs, CommandFollows

(* r answers a command with its new status.                                                      *)
LEMMA AnswerFollows ==
  ASSUME IInv, IInv', Codes, NEW r \in Resources, Awaits(r), inbox[r] # <<>>, outbox[r] = <<>>,
         Head(inbox[r]).type = CommandOf(Stage), NEW s \in {Stage, "ERROR"},
         s = "ERROR" => Stage # "WAITING", React(r, <<ResourceStatusChanged(r, s)>>),
         status' = [status EXCEPT ![r] = s] \/ (s = "ERROR" /\ UNCHANGED status),
         UNCHANGED <<resourcesStatus, runVars>>,
         runCode' = IF Stage = "READY" THEN [runCode EXCEPT ![r] = currentRun] ELSE runCode
  PROVE  Follows
<1>1. /\ r \in Components /\ r # SystemManager /\ Resources \subseteq Components /\ SystemManager \notin Resources
      /\ Stage \in {"WAITING", "READY", "RUNNING"} /\ s \in Status
  BY ComponentsAre, StageIs DEF IInv
<1>2. CASE s = Stage
  <2> DEFINE e == ResourceStatusChanged(r, s)
  <2>1. e \in Event /\ ~Telling(e)
    BY <1>1, <1>2, StatusEventTypes DEF Telling, ResourceStatusChanged
  <2> HIDE DEF e
  <2>2. Head(inbox[r]).type # "RESOURCE_STATUS_CHANGED"
    BY DEF CommandOf
  <2>3. Steady
    BY <1>1, <2>1, <2>2, SteadyReact DEF e
  <2>4. status' = [status EXCEPT ![r] = Stage]
    BY <1>1, <1>2
  <2> QED BY <2>3, <2>4, ExecuteFollows
<1>3. CASE s = "ERROR"
  <2>1. /\ Queue'[r] = Rest(r) \union {Echo(r)}
        /\ \A d \in Components : d # r /\ d # SystemManager => Queue'[d] = Queue[d]
        /\ Has(SystemManager, "RUN_COMPLETED")' <=> Has(SystemManager, "RUN_COMPLETED")
    <3>1. TypeOK'
      BY DEF IInv
    <3> QED BY <1>1, <1>3, <3>1, CommandAnswered DEF Echo
  <2>2. Stage' = Stage /\ Done' = Done
    BY <2>1 DEF Stage, Done, Taking
  <2>3. status \in [Resources -> Status] /\ runCode \in [Resources -> MaybeRun]
    BY DEF IInv, TypeOK, ResourceTypeOK
  <2>4. ASSUME NEW q \in Resources
        PROVE  LastStatus(q)' = IF Echo(q) \in Queue'[q] THEN "ERROR" ELSE status'[q]
    <3>1. Signals(q)' /\ Echo(q)' = Echo(q)
      BY SignalsNext DEF Echo, ResourceStatusChanged
    <3> QED BY <3>1 DEF Signals
  <2>5. LastStatus(r)' = "ERROR"
    BY <2>1, <2>4
  <2>6. ASSUME NEW q \in Resources \ {r}
        PROVE  LastStatus(q)' = LastStatus(q) /\ runCode'[q] = runCode[q] /\ status'[q] = status[q]
    <3>1. Queue'[q] = Queue[q] /\ status'[q] = status[q] /\ runCode'[q] = runCode[q]
      BY <1>1, <2>1, <2>3
    <3>2. LastStatus(q) = IF Echo(q) \in Queue[q] THEN "ERROR" ELSE status[q]
      BY SignalsAre DEF Signals
    <3> QED BY <2>4, <3>1, <3>2
  <2>7. runCode'[r] = IF Stage = "READY" THEN currentRun ELSE runCode[r]
    BY <2>3
  <2> QED BY <1>3, <2>2, <2>5, <2>6, <2>7, CommandFollows
<1> QED BY <1>2, <1>3

LEMMA AcceptedCommand ==
  ASSUME IInv, NEW r \in Resources, NEW t \in Commands, Accepts(r, t)
  PROVE  /\ Awaits(r) /\ t = CommandOf(Stage) /\ inbox[r] # <<>> /\ outbox[r] = <<>>
         /\ Head(inbox[r]).type = t /\ Head(inbox[r]) \in Queue[r] /\ r \in Components
         /\ t = "PREPARE_NEW_RUN" => Stage = "READY"
         /\ t = "START_RUN" => Stage = "RUNNING"
         /\ t = "RUN_COMPLETED" => Stage = "WAITING"
<1>1. Receives(r, t) /\ status[r] = CommandStatus[t] /\ outbox[r] = <<>>
  BY DEF Accepts, Receives, Idle
<1>2. /\ Awaits(r) /\ t = CommandOf(Stage) /\ inbox[r] # <<>>
      /\ Head(inbox[r]).type = t /\ Head(inbox[r]) \in Queue[r] /\ r \in Components
  BY <1>1, CommandInForce
<1> QED BY <1>1, <1>2, StageIs DEF CommandOf

LEMMA PrepareFollows ==
  ASSUME IInv, IInv', Codes, NEW r \in Resources, PrepareContext(r) PROVE Follows
<1>1. Accepts(r, "PREPARE_NEW_RUN") /\ "PREPARE_NEW_RUN" \in Commands
  BY DEF PrepareContext, Commands
<1>2. /\ Awaits(r) /\ "PREPARE_NEW_RUN" = CommandOf(Stage) /\ inbox[r] # <<>> /\ outbox[r] = <<>>
      /\ Head(inbox[r]).type = "PREPARE_NEW_RUN" /\ Head(inbox[r]) \in Queue[r] /\ r \in Components
      /\ Stage = "READY"
  BY <1>1, AcceptedCommand
<1>3. Head(inbox[r]).run = currentRun
  BY <1>2 DEF IInv, EventsOK, EventOK
<1>4. PICK s \in {"READY", "ERROR"} :
        status' = [status EXCEPT ![r] = s] /\ React(r, <<ResourceStatusChanged(r, s)>>)
  BY DEF PrepareContext
<1>5. runCode' = [runCode EXCEPT ![r] = currentRun] /\ UNCHANGED <<resourcesStatus, runVars>>
  BY <1>3 DEF PrepareContext
<1> QED BY <1>2, <1>4, <1>5, AnswerFollows

LEMMA StartFailsFollows ==
  ASSUME IInv, IInv', Codes, NEW r \in Resources, StartFails(r) PROVE Follows
<1>1. Accepts(r, "START_RUN") /\ "START_RUN" \in Commands
  BY DEF StartFails, Commands
<1>2. /\ Awaits(r) /\ "START_RUN" = CommandOf(Stage) /\ inbox[r] # <<>> /\ outbox[r] = <<>>
      /\ Head(inbox[r]).type = "START_RUN" /\ Stage = "RUNNING"
  BY <1>1, AcceptedCommand
<1>3. /\ React(r, <<ResourceStatusChanged(r, "ERROR")>>)
      /\ UNCHANGED <<resourcesStatus, runVars, status, runCode>>
  BY DEF StartFails
<1> QED BY <1>2, <1>3, AnswerFollows

LEMMA StopFollows ==
  ASSUME IInv, IInv', Codes, NEW r \in Resources, StopRunResources(r) PROVE Follows
<1>1. Accepts(r, "RUN_COMPLETED") /\ "RUN_COMPLETED" \in Commands
  BY DEF StopRunResources, Commands
<1>2. /\ Awaits(r) /\ "RUN_COMPLETED" = CommandOf(Stage) /\ inbox[r] # <<>> /\ outbox[r] = <<>>
      /\ Head(inbox[r]).type = "RUN_COMPLETED" /\ Stage = "WAITING"
  BY <1>1, AcceptedCommand
<1>3. /\ React(r, <<ResourceStatusChanged(r, "WAITING")>>) /\ status' = [status EXCEPT ![r] = "WAITING"]
      /\ UNCHANGED <<resourcesStatus, runVars, runCode>>
  BY DEF StopRunResources
<1> QED BY <1>2, <1>3, AnswerFollows

(* start_run of the agent and the generator publishes statistics first.                          *)
LEMMA ConcatFirst ==
  ASSUME NEW S, NEW p \in Seq(S), Len(p) = 2, NEW q \in Seq(S)
  PROVE  p \o q \in Seq(S) /\ Len(p \o q) > 0 /\ (p \o q)[1] = p[1]
<1>1. /\ p \o q \in Seq(S) /\ Len(p \o q) = Len(p) + Len(q)
      /\ \A i \in 1 .. Len(p) + Len(q) : (p \o q)[i] = IF i <= Len(p) THEN p[i] ELSE q[i - Len(p)]
  BY ConcatProperties
<1>2. Len(q) \in Nat
  BY LenProperties
<1>3. 1 \in 1 .. Len(p) + Len(q) /\ 1 <= Len(p) /\ Len(p) + Len(q) > 0
  BY <1>2
<1> QED BY <1>1, <1>3

LEMMA StartFollows ==
  ASSUME IInv, IInv', Codes, AgentStarts \/ CollectorStarts \/ GeneratorStarts PROVE Follows
<1> DEFINE report(r) == ResourceStatusChanged(r, "RUNNING")
           first(r) == IF r = Agent THEN StatsUpdated("agent_stats")
                       ELSE IF r = Collector THEN report(r) ELSE StatsUpdated("global_stats")
<1>1. /\ TasksToBootstrap = 0 /\ Resources = {Agent, Collector, Generator} /\ Resources \subseteq Components
      /\ Agent # Collector /\ Agent # Generator /\ Collector # Generator
      /\ {"agent_stats", "global_stats"} \subseteq StatsGroups /\ TasksToGenerate \in Nat /\ "RUN" \in RunPhase
  BY ComponentsAre, LifecycleAssumption DEF IInv, Components, StatsGroups, RunPhase
<1>2. PICK r \in Resources : \E after \in {<<>>, <<SchedulingStarted("RUN", TasksToGenerate)>>} :
        \/ r = Collector /\ after = <<>> /\ StartContext(r, <<>>, <<>>)
        \/ r # Collector /\ StartContext(r, <<first(r)>>, after)
  BY <1>1 DEF AgentStarts, CollectorStarts, GeneratorStarts
<1>3. /\ Accepts(r, "START_RUN") /\ "START_RUN" \in Commands /\ status' = [status EXCEPT ![r] = "RUNNING"]
      /\ UNCHANGED <<runCode, resourcesStatus, runVars>>
  BY <1>2 DEF StartContext, Commands
<1>4. /\ Awaits(r) /\ inbox[r] # <<>> /\ outbox[r] = <<>> /\ Stage = "RUNNING" /\ r \in Components
      /\ Head(inbox[r]).type = "START_RUN"
  BY <1>3, AcceptedCommand
<1>5. /\ first(r) \in Event /\ ~Telling(first(r)) /\ report(r) \in Event
      /\ SchedulingStarted("RUN", TasksToGenerate) \in Event
  BY <1>1, TaskEvents
<1>6. \A d \in Components : Queue'[d] = Left(r, d) \union Adds(d, first(r))
  <2>1. CASE r = Collector
    <3> DEFINE n == report(Collector)
    <3>1. n \in Event /\ first(r) = n /\ React(r, <<>> \o <<n>> \o <<>>)
      BY <1>1, <1>2, <1>5, <2>1 DEF StartContext
    <3> HIDE DEF n
    <3>2. <<>> \o <<n>> \o <<>> = <<n>>
      BY <3>1
    <3> QED BY <1>4, <3>1, <3>2, ReactOne DEF IInv
  <2>2. CASE r # Collector
    <3>1. PICK after \in {<<>>, <<SchedulingStarted("RUN", TasksToGenerate)>>} :
            React(r, <<first(r)>> \o <<report(r)>> \o after)
      BY <1>2, <2>2 DEF StartContext
    <3> DEFINE a == first(r)
               b == report(r)
               es == <<a>> \o <<b>> \o after
    <3>2. after \in Seq(Event) /\ a \in Event /\ b \in Event
      BY <1>5, ShortSeq
    <3> HIDE DEF a, b
    <3>3. <<a>> \in Seq(Event) /\ <<b>> \in Seq(Event) /\ Len(<<a>>) = 1 /\ Len(<<b>>) = 1 /\ <<a>>[1] = a
      BY <3>2
    <3>4. <<a>> \o <<b>> \in Seq(Event) /\ Len(<<a>> \o <<b>>) = 2 /\ (<<a>> \o <<b>>)[1] = a
      BY <3>3
    <3> DEFINE ab == <<a>> \o <<b>>
    <3> HIDE DEF ab
    <3>5. ab \o after \in Seq(Event) /\ ab \o after # <<>> /\ Head(ab \o after) = a
      <4>1. ab \in Seq(Event) /\ Len(ab) = 2 /\ ab[1] = a
        BY <3>4 DEF ab
      <4>3. ab \o after \in Seq(Event) /\ Len(ab \o after) > 0 /\ (ab \o after)[1] = a
        BY <3>2, <4>1, ConcatFirst
      <4> DEFINE z == ab \o after
      <4>4. z \in Seq(Event) /\ Len(z) > 0 /\ z[1] = a
        BY <4>3
      <4> HIDE DEF z
      <4>5. z # <<>> /\ Head(z) = a
        BY <4>4
      <4> QED BY <4>4, <4>5 DEF z
    <3>6. es \in Seq(Event) /\ es # <<>> /\ Head(es) = a /\ React(r, es)
      BY <3>1, <3>5 DEF ab, a, b
    <3> HIDE DEF es
    <3>7. \A d \in Components : Queue'[d] = Left(r, d) \union Adds(d, Head(es))
      BY <1>4, <3>6, ReactEffect DEF IInv
    <3> QED BY <3>6, <3>7 DEF a
  <2> QED BY <2>1, <2>2
<1> HIDE DEF first
<1>7. Steady
  BY <1>4, <1>5, <1>6, SteadyTake
<1> QED BY <1>3, <1>4, <1>7, ExecuteFollows

(* The echo of a status that r has published is the status it already has for the protocol.      *)
LEMMA EchoFollows ==
  ASSUME IInv, IInv', Codes, NEW r \in Resources, HandleResourceStatus(r) PROVE Follows
<1> DEFINE e == Head(inbox[r])
<1>1. /\ r \in Components /\ r # SystemManager /\ inbox[r] # <<>> /\ e.type = "RESOURCE_STATUS_CHANGED"
      /\ Resources \subseteq Components /\ SystemManager \in Components /\ SystemManager \notin Resources
  BY ComponentsAre DEF HandleResourceStatus, Receives, IInv
<1>2. e \in Queue[r] /\ Queue[r] = {e} \union Rest(r) /\ e \in Event
  BY <1>1, HeadOf DEF IInv
<1>3. e.name = r
  BY <1>1, <1>2 DEF IInv, EventsOK, EventOK
<1>4. /\ React(r, <<>>) /\ status' = [status EXCEPT ![r] = e.status]
      /\ UNCHANGED <<runCode, resourcesStatus, runVars>>
  BY <1>3 DEF HandleResourceStatus
<1>5. Queue'[r] = Rest(r) /\ \A d \in Components : d # r => Queue'[d] = Queue[d]
  BY <1>1, <1>4, TakeEffect DEF IInv, Left
<1>6. Stage' = Stage /\ Done' = Done
  BY <1>1, <1>4, <1>5 DEF Stage, Done, Has, Taking
<1>7. \A q \in Resources : status'[q] = IF q = r THEN e.status ELSE status[q]
  BY <1>4 DEF IInv, TypeOK, ResourceTypeOK
<1>8. ASSUME NEW q \in Resources
      PROVE  /\ Signals(q) /\ Signals(q)'
             /\ LastStatus(q)' = IF Echo(q) \in Queue'[q] THEN "ERROR" ELSE status'[q]
             /\ LastStatus(q) = IF Echo(q) \in Queue[q] THEN "ERROR" ELSE status[q]
  <2>1. Signals(q) /\ Signals(q)' /\ Echo(q)' = Echo(q)
    BY SignalsAre, SignalsNext DEF Echo, ResourceStatusChanged
  <2> QED BY <2>1 DEF Signals
<1>9. e = ResourceStatusChanged(r, e.status)
  BY <1>1, <1>2, <1>3 DEF Event, ResourceStatusChanged
<1>10. Stage \in {"WAITING", "READY", "RUNNING"} /\ Lock(r)
  BY StageIs DEF IInv, Lockstep
<1>11. CASE e.status = "ERROR"
  <2>1. LastStatus(r) = "ERROR"
    BY <1>2, <1>8, <1>9, <1>11 DEF Echo
  <2>2. LastStatus(r)' = "ERROR"
    BY <1>7, <1>8, <1>11
  <2>3. status[r] # "WAITING" /\ status'[r] # "WAITING"
    BY <1>7, <1>8, <1>11, <2>1 DEF Signals, Broken
  <2>4. \A q \in Resources : LastStatus(q)' = LastStatus(q) /\ (status'[q] = "WAITING" <=> status[q] = "WAITING")
    BY <1>1, <1>5, <1>7, <1>8, <2>1, <2>2, <2>3
  <2> QED BY <1>4, <1>6, <2>4, Still DEF Follows
<1>12. CASE e.status # "ERROR"
  <2>1. ~Broken(r)
    BY <1>1, <1>2, <1>12 DEF Broken, EchoesOnly
  <2>2. Awaits(r) \/ Reports(r) \/ Agreed(r)
    BY <1>10, <2>1 DEF Lock
  <2>3. e.status = status[r]
    BY <1>1, <1>2, <2>2 DEF Awaits, Reports, Agreed, EchoesOnly
  <2>4. Echo(r) \notin Queue[r] /\ Echo(r) \notin Queue'[r]
    <3>1. LastStatus(r) # "ERROR"
      BY <1>8, <2>1 DEF Signals
    <3> QED BY <1>2, <1>5, <1>8, <3>1
  <2>5. \A q \in Resources : LastStatus(q)' = LastStatus(q) /\ status'[q] = status[q]
    BY <1>1, <1>5, <1>7, <1>8, <2>3, <2>4
  <2> QED BY <1>4, <1>6, <2>5, Still DEF Follows
<1> QED BY <1>11, <1>12

LEMMA FlushFollows ==
  ASSUME IInv, IInv', Codes, NEW c \in Components, Flush(c) PROVE Follows
<1> DEFINE a == ResourceStatusChanged(Agent, "RUNNING")
           g == ResourceStatusChanged(Generator, "RUNNING")
           s == SchedulingStarted("RUN", TasksToGenerate)
<1>1. Components = {Agent, Collector, Generator, SystemManager} /\ {Agent, Generator} \subseteq Resources
  BY ComponentsAre DEF IInv
<1>2. a \in Event /\ g \in Event /\ s \in Event /\ ~Telling(a) /\ ~Telling(g) /\ ~Telling(s)
  BY <1>1, TaskEvents, LifecycleAssumption DEF RunPhase
<1>3. /\ inbox' = Deliver(inbox, Head(outbox[c])) /\ outbox[c] # <<>>
      /\ UNCHANGED <<currentRun, currentRunStarted, executedRuns, runCode, status, resourcesStatus, scheduler>>
  BY DEF Flush
<1>4. outbox[c] \in {<<a>>, <<s>>, <<g, s>>}
  BY <1>1, <1>3 DEF IInv, Outboxes
<1> HIDE DEF a, g, s
<1>5. Head(outbox[c]) \in {a, g, s}
  BY <1>2, <1>4
<1>6. Steady
  BY <1>2, <1>3, <1>5, SteadyPublish
<1>7. Taking' <=> Taking
  BY <1>3 DEF Taking
<1> QED BY <1>3, <1>6, <1>7, QuietFollows

(* Every step of the lifecycle is one of the protocol, or none.                                  *)
LEMMA ConsumerFollows ==
  ASSUME IInv, IInv', Codes, NEW c \in Components, ConsumerStep(c) PROVE Follows
<1>1. CASE Flush(c)
  BY <1>1, FlushFollows
<1>2. CASE ManagerHandlesEvent
  BY <1>2, ReportFollows, ManagerQuietFollows, ManagerHandlesReadyFollows, ManagerHandlesStatsFollows,
     ManagerHandlesRunCompletedFollows
  DEF ManagerHandlesEvent
<1>3. CASE TakeRun("consumer") \/ PublishPrepare("consumer")
  BY <1>3, TakeRunFollows, PublishPrepareFollows
<1>4. CASE AgentHandlesEvent \/ CollectorHandlesEvent \/ GeneratorHandlesEvent
  <2>1. Resources = {Agent, Collector, Generator}
    BY ComponentsAre DEF IInv
  <2>2. CASE AgentPrepares \/ CollectorPrepares \/ GeneratorPrepares
    BY <2>1, <2>2, PrepareFollows DEF AgentPrepares, CollectorPrepares, GeneratorPrepares
  <2>3. CASE AgentStarts \/ CollectorStarts \/ GeneratorStarts
    BY <2>3, StartFollows
  <2> QED BY <1>4, <2>2, <2>3, HandlerFollows, NoSuchStep
          DEF AgentHandlesEvent, CollectorHandlesEvent, GeneratorHandlesEvent
<1>5. CASE ScheduleTask \/ CompleteScheduling
  BY <1>5, TaskStepFollows
<1>6. CASE c \in Resources /\ ResourceHandlesEvent(c)
  BY <1>6, EchoFollows, DropCommandFollows, StartFailsFollows, StopFollows DEF ResourceHandlesEvent
<1> QED BY <1>1, <1>2, <1>3, <1>4, <1>5, <1>6 DEF ConsumerStep

LEMMA StutterFollows == ASSUME IInv, IInv', Codes, UNCHANGED vars PROVE Follows
<1>1. UNCHANGED <<inbox, currentRun, currentRunStarted, executedRuns, runCode, status, resourcesStatus, scheduler>>
  OBVIOUS
<1>2. Taking' <=> Taking
  BY <1>1 DEF Taking
<1> QED BY <1>1, <1>2, SteadyInbox, QuietFollows

LEMMA NextFollows == IInv /\ Codes /\ [Next]_vars => Codes' /\ [Protocol!Next]_(Protocol!vars)
<1> SUFFICES ASSUME IInv, Codes, [Next]_vars PROVE Follows
  BY DEF Follows
<1>1. IInv'
  BY NextInv
<1>2. CASE StartUp \/ CeleryStep
  BY <1>2, NoSuchStep
<1>3. CASE ControlStep
  BY <1>1, <1>3, ControlRunFollows, TakeRunFollows, PublishPrepareFollows DEF ControlStep
<1>4. CASE \E c \in Components : ConsumerStep(c)
  BY <1>1, <1>4, ConsumerFollows
<1>5. CASE CreateTrajectory
  BY <1>1, <1>5, TaskStepFollows
<1>6. CASE RewardStep
  BY <1>1, <1>6, TaskStepFollows, NoSuchStep DEF RewardStep
<1>7. CASE UNCHANGED vars
  BY <1>1, <1>7, StutterFollows
<1> QED BY <1>2, <1>3, <1>4, <1>5, <1>6, <1>7 DEF Next

LEMMA StartedFollows == ASSUME UndisturbedRuns, Started PROVE Codes /\ Protocol!Init
<1>1. IInv
  BY StartedInv
<1>2. Stage = "WAITING" /\ Done = 0
  <2>1. SystemManager \in Components
    BY DEF Components
  <2>2. ~Has(SystemManager, "RUN_COMPLETED")
    <3> DEFINE m == SystemStatusChanged("WAITING")
    <3>1. m.type = "SYSTEM_STATUS_CHANGED"
      BY DEF SystemStatusChanged
    <3> HIDE DEF m
    <3>2. inbox[SystemManager] = <<m>>
      BY <2>1 DEF Started, m
    <3>3. \A x \in Contents(<<m>>) : x = m
      BY DEF Contents
    <3> QED BY <2>1, <3>1, <3>2, <3>3, QueueIs DEF Has
  <2> QED BY <2>2 DEF Stage, Done, Started
<1>3. ASSUME NEW r \in Resources
      PROVE  LastStatus(r) = "WAITING" /\ status[r] = "WAITING" /\ runCode[r] = 0 /\ resourcesStatus[r] = "WAITING"
  <2>1. status[r] = "WAITING" /\ runCode[r] = 0 /\ resourcesStatus[r] = "WAITING" /\ failures = 0
    BY DEF Started, NoRun
  <2>2. Signals(r) /\ ~Broken(r)
    BY <1>1, <2>1, SignalsAre DEF Broken
  <2> QED BY <2>1, <2>2 DEF Signals
<1>4. Codes
  BY <1>2, <1>3 DEF Codes
<1>5. Issued = 0
  BY <1>1, <1>2, IssuedIs DEF Commanded
<1>6. ASSUME NEW r \in Resources PROVE Executed(r) = 0 /\ Reported(r) = 0
  <2>1. Executed(r) = 3 * (runCode[r] - 1) + OfThisRun(r) /\ Unseen(r) = Behind(r)
    BY <1>1, <1>4, ExecutedIs, SignalsAre DEF Signals
  <2>2. OfThisRun(r) = 3 /\ Behind(r) = 0
    BY <1>2, <1>3 DEF OfThisRun, Behind
  <2> QED BY <1>3, <2>1, <2>2 DEF Reported
<1> QED BY <1>4, <1>5, <1>6 DEF Protocol!Init

(* The lifecycle implements the protocol of the runs: the statuses alone, without the numbers of *)
(* the protocol, keep every resource in step with the commands of the run manager.               *)
THEOREM ImplementsProtocol == ASSUME UndisturbedRuns PROVE StartedSpec => ImplementsRunProtocol
<1>1. Started => Codes /\ Protocol!Init
  BY StartedFollows
<1>2. IInv /\ Codes /\ [Next]_vars => Codes' /\ [Protocol!Next]_(Protocol!vars)
  BY NextFollows
<1> QED BY <1>1, <1>2, LifecycleInvariant, PTL DEF StartedSpec, ImplementsRunProtocol, Protocol!Spec

=============================================================================
