----------------------------- MODULE Statistics -----------------------------
(***************************************************************************)
(* The statistics of the runs.  Everybody writes them to redis, under the  *)
(* code of the run it believes to be in: the consumers of the resources,   *)
(* and the pools of the agent and of the trajectory builder.  When the     *)
(* system manager has heard that all the groups are there, it loads what   *)
(* there is, saves it on disk and in the database, and ends the run; they  *)
(* are deleted when the next run is prepared.                              *)
(*                                                                         *)
(* All events go through one channel, and each component handles its own   *)
(* in the order in which they were published.  The runs follow each other  *)
(* as in RunProtocol: a command is given when all have obeyed the last.    *)
(***************************************************************************)
EXTENDS Integers, Sequences, FiniteSets, SequencesExt

CONSTANT Schedules     \* the tasks of each run; whether the pools may fall behind the consumers

ASSUME SchedulesAssumption ==
  \A s \in Schedules : s.tasks \in Seq(Nat \ {0}) /\ s.lag \in BOOLEAN

VARIABLE schedule

StatsRuns == DOMAIN schedule.tasks
RunTasks == UNION {{r} \X (1..schedule.tasks[r]) : r \in StatsRuns}
RunOf(t) == t[1]
NoCode == 0

Resources == {"agent", "collector", "generator"}
Consumers == Resources \union {"manager"}

\* what the generator knows when a run starts, and what the others add to it
Values == {"tasks_to_generate", "agent_parameters", "tasks_generated", "selected_actions",
           "assignments_history", "validation_reward", "task_succeeded", "end_execution_time", "end_time"}
\* of the lists only the length matters, but for the rewards; each time stands for its cost too
Times == <<"waiting_time", "execution_time">>
Lists == Range(Times) \union {"agent_get_action_time"}
Groups == {"global_stats", "agent_stats", "execution_history_stats", "tasks_generated"}

VARIABLES
  commanded,            \* the last run that was commanded, and the command
  inbox, code, stage,   \* of each consumer: events to handle, current_run_code, status
  groups, completed,    \* stats_groups and is_current_execution_completed of the manager
  progress,             \* of each task
  times, timed,         \* background_pool of the builder: tasks to write, and the lists written for the first
  answered,             \* tasks the agent's pool has to write
  redis, disk,          \* the statistics of each run, and what was saved of them
  due                   \* trajectories announced before the end of the execution of their run

managerVars == <<schedule, commanded, groups, completed, disk>>
poolVars == <<times, timed, answered>>
statisticsVars == <<managerVars, inbox, code, stage, progress, poolVars, redis, due>>

NoStats == [values |-> [v \in Values |-> "none"], lists |-> [l \in Lists |-> 0], rewards |-> <<>>]

StatisticsInit ==
  /\ schedule \in Schedules
  /\ commanded = <<0, "complete">> /\ groups = {} /\ completed = TRUE
  /\ disk = [r \in StatsRuns |-> {}]
  /\ inbox = [c \in Consumers |-> <<>>] /\ code = [c \in Consumers |-> NoCode]
  /\ stage = [c \in Resources |-> "WAITING"]
  /\ progress = [t \in RunTasks |-> "new"]
  /\ times = 0 /\ timed = 0 /\ answered = 0
  /\ redis = [r \in StatsRuns |-> NoStats]
  /\ due = [r \in StatsRuns |-> {}]

-----------------------------------------------------------------------------
(* StatsBackend. *)

\* save_stats_group_property, one value
SaveValue(stats, r, v) == [stats EXCEPT ![r].values[v] = "saved"]

\* save_stats_group: every property of the group, those that are not known yet included
SaveGroup(stats, r, known, unknown) ==
  [stats EXCEPT ![r].values = [v \in Values |-> IF v \in known THEN "saved"
                                               ELSE IF v \in unknown THEN "none" ELSE @[v]]]

\* save_stats_group_property, as_list
PushValues(stats, r, l, n) == [stats EXCEPT ![r].lists[l] = @ + n]
PushReward(stats, r, t) == [stats EXCEPT ![r].rewards = Append(@, t)]

DeleteStats(stats, r) == IF r = NoCode THEN stats ELSE [stats EXCEPT ![r] = NoStats]

\* load: a value or a list that is not there is none, or empty
Load(stats, r) == stats[r]

\* db_stats takes the differences of the times of the run
HasTimes(d) == \A v \in {"tasks_to_generate", "end_execution_time", "end_time"} : d.values[v] = "saved"

-----------------------------------------------------------------------------
(* Events. *)

ReceiversOf(kind) ==
  CASE kind = "stats_updated" -> {"manager"}
    [] kind = "trajectory_completed" -> {"agent"}
    [] kind = "scheduling_completed" -> {"generator"}
    [] kind = "execution_completed" -> {"manager", "agent", "collector"}
    [] OTHER -> Consumers

Publish(boxes, kind, of) ==
  [c \in Consumers |-> IF c \in ReceiversOf(kind) THEN Append(boxes[c], <<kind, of>>) ELSE boxes[c]]

Receives(c, kind) == inbox[c] # <<>> /\ Head(inbox[c])[1] = kind
Subject(c) == Head(inbox[c])[2]
Handled(c) == [inbox EXCEPT ![c] = Tail(@)]

Command(r, kind) == commanded' = <<r, kind>> /\ inbox' = Publish(inbox, kind, r)

\* schedule_next_run
PublishPrepare ==
  /\ commanded[2] = "complete" /\ commanded[1] < Len(schedule.tasks)
  /\ \A c \in Resources : stage[c] = "WAITING"
  /\ inbox["manager"] = <<>>
  /\ Command(commanded[1] + 1, "prepare_new_run")
  /\ completed' = FALSE
  /\ UNCHANGED <<schedule, groups, disk, code, stage, progress, poolVars, redis, due>>

\* start_next_run
PublishStart ==
  /\ commanded[2] = "prepare_new_run" /\ \A c \in Resources : stage[c] = "READY"
  /\ Command(commanded[1], "start_run")
  /\ UNCHANGED <<schedule, groups, completed, disk, code, stage, progress, poolVars, redis, due>>

\* mutant: the groups of the last run are not forgotten
ManagerPreparesKeeping ==
  /\ Receives("manager", "prepare_new_run")
  /\ redis' = DeleteStats(redis, code["manager"])
  /\ code' = [code EXCEPT !["manager"] = Subject("manager")]
  /\ inbox' = Handled("manager")
  /\ UNCHANGED <<schedule, commanded, groups, completed, disk, stage, progress, poolVars, due>>

\* the manager deletes the statistics of the last run and expects those of the next
ManagerPrepares ==
  /\ Receives("manager", "prepare_new_run")
  /\ redis' = DeleteStats(redis, code["manager"])
  /\ code' = [code EXCEPT !["manager"] = Subject("manager")]
  /\ groups' = {}
  /\ inbox' = Handled("manager")
  /\ UNCHANGED <<schedule, commanded, completed, disk, stage, progress, poolVars, due>>

ResourcePrepares(c) ==
  /\ Receives(c, "prepare_new_run")
  /\ code' = [code EXCEPT ![c] = Subject(c)]
  /\ stage' = [stage EXCEPT ![c] = "READY"]
  /\ inbox' = Handled(c)
  /\ UNCHANGED <<managerVars, progress, poolVars, redis, due>>

Starts(c) == Receives(c, "start_run") /\ stage' = [stage EXCEPT ![c] = "RUNNING"]

AgentStarts ==
  /\ Starts("agent")
  /\ redis' = SaveGroup(redis, code["agent"], {"agent_parameters"}, {})
  /\ inbox' = Publish(Handled("agent"), "stats_updated", "agent_stats")
  /\ UNCHANGED <<managerVars, code, progress, poolVars, due>>

\* get_global_stats, and the defaults of what others will save later
KnownAtStart == {"tasks_to_generate"}
UnknownAtStart == {"validation_reward", "task_succeeded", "end_execution_time", "end_time"}

\* start_run of the generator saves all the global statistics; it then schedules all the tasks
GeneratorStarts ==
  /\ Starts("generator")
  /\ redis' = SaveGroup(redis, code["generator"], KnownAtStart, UnknownAtStart)
  /\ inbox' = Publish(Publish(Handled("generator"), "stats_updated", "global_stats"),
                      "scheduling_completed", code["generator"])
  /\ progress' = [t \in RunTasks |-> IF RunOf(t) = code["generator"] THEN "scheduled" ELSE progress[t]]
  /\ UNCHANGED <<managerVars, code, poolVars, due>>

CollectorStarts ==
  /\ Starts("collector")
  /\ inbox' = Handled("collector")
  /\ UNCHANGED <<managerVars, code, progress, poolVars, redis, due>>

ManagerIgnores ==
  /\ Receives("manager", "start_run") \/ Receives("manager", "run_completed")
  /\ inbox' = Handled("manager")
  /\ UNCHANGED <<managerVars, code, stage, progress, poolVars, redis, due>>

GeneratorReports ==
  /\ Receives("generator", "scheduling_completed")
  /\ redis' = SaveValue(redis, code["generator"], "tasks_generated")
  /\ inbox' = Publish(Handled("generator"), "stats_updated", "tasks_generated")
  /\ UNCHANGED <<managerVars, code, stage, progress, poolVars, due>>

-----------------------------------------------------------------------------
(* The tasks of a run, in order. *)

\* the agent answers the broker; its pool writes later how long it took
GetAction(t) ==
  /\ progress[t] = "scheduled"
  /\ \A s \in RunTasks : RunOf(s) = RunOf(t) /\ s[2] < t[2] => progress[s] # "scheduled"
  /\ progress' = [progress EXCEPT ![t] = "chosen"]
  /\ answered' = answered + 1
  /\ UNCHANGED <<managerVars, inbox, code, stage, times, timed, redis, due>>

\* a thread of the agent's pool, under the code of the moment
UpdateAgentStats ==
  /\ answered > 0
  /\ redis' = PushValues(redis, code["agent"], "agent_get_action_time", 1)
  /\ answered' = answered - 1
  /\ UNCHANGED <<managerVars, inbox, code, stage, progress, times, timed, due>>

\* compute_reward, for a task that succeeded or one that failed
ComputeReward(t) ==
  /\ progress[t] = "chosen"
  /\ \/ /\ progress' = [progress EXCEPT ![t] = "rewarded"]
        /\ times' = times + 1
     \/ progress' = [progress EXCEPT ![t] = "failed"] /\ UNCHANGED times
  /\ UNCHANGED <<managerVars, inbox, code, stage, timed, answered, redis, due>>

\* _update_stats: the one thread of the builder writes list after list
UpdateStats ==
  /\ times > 0
  /\ redis' = PushValues(redis, code["collector"], Times[timed + 1], 1)
  /\ IF timed + 1 < Len(Times) THEN timed' = timed + 1 /\ UNCHANGED times
     ELSE timed' = 0 /\ times' = times - 1
  /\ UNCHANGED <<managerVars, inbox, code, stage, progress, answered, due>>

\* a trajectory is complete when it has a reward and there is a next one
NotifyAgent(t) ==
  /\ progress[t] = "rewarded" /\ RunOf(t) = code["collector"]
  /\ \E s \in RunTasks : RunOf(s) = RunOf(t) /\ s[2] = t[2] + 1 /\ progress[s] # "scheduled"
  /\ progress' = [progress EXCEPT ![t] = "announced"]
  /\ inbox' = Publish(inbox, "trajectory_completed", t)
  /\ UNCHANGED <<managerVars, code, stage, poolVars, redis, due>>

AllExecuted(r) == \A t \in RunTasks : RunOf(t) = r => progress[t] \in {"rewarded", "announced", "failed"}

\* are_all_task_executed
PublishExecutionCompleted ==
  /\ commanded[2] = "start_run" /\ AllExecuted(commanded[1])
  /\ commanded' = <<commanded[1], "execution_completed">>
  /\ inbox' = Publish(inbox, "execution_completed", commanded[1])
  /\ due' = [due EXCEPT ![commanded[1]] = {t \in RunTasks : RunOf(t) = commanded[1] /\ progress[t] = "announced"}]
  /\ UNCHANGED <<schedule, groups, completed, disk, code, stage, progress, poolVars, redis>>

\* observe_reward: a trajectory of an earlier run is no longer in redis
AgentObserves ==
  /\ Receives("agent", "trajectory_completed")
  /\ inbox' = Handled("agent")
  /\ redis' = IF stage["agent"] = "RUNNING" /\ RunOf(Subject("agent")) = code["collector"]
              THEN PushReward(redis, code["agent"], Subject("agent")) ELSE redis
  /\ UNCHANGED <<managerVars, code, stage, progress, poolVars, due>>

-----------------------------------------------------------------------------
(* The end of a run. *)

\* the actions, all the assignment entries there are, and the validation
AgentEnds ==
  /\ Receives("agent", "execution_completed")
  /\ redis' = SaveGroup(redis, code["agent"], {"selected_actions", "assignments_history", "validation_reward"}, {})
  /\ inbox' = Publish(Handled("agent"), "stats_updated", "execution_history_stats")
  /\ UNCHANGED <<managerVars, code, stage, progress, poolVars, due>>

\* nobody is told, and nobody waits for it
CollectorEnds ==
  /\ Receives("collector", "execution_completed")
  /\ redis' = SaveValue(redis, code["collector"], "task_succeeded")
  /\ inbox' = Handled("collector")
  /\ UNCHANGED <<managerVars, code, stage, progress, poolVars, due>>

ManagerEndsExecution ==
  /\ Receives("manager", "execution_completed")
  /\ completed' = TRUE
  /\ redis' = SaveValue(redis, code["manager"], "end_execution_time")
  /\ inbox' = Handled("manager")
  /\ UNCHANGED <<schedule, commanded, groups, disk, code, stage, progress, poolVars, due>>

\* all the groups are there and the execution is completed
Collected(there) == there = Groups /\ completed

\* the run is completed once the database has it, which is told apart from the file by an exception
SaveStatsOnDisk(r, stats) ==
  /\ redis' = stats
  /\ disk' = [disk EXCEPT ![r] = @ \union {Load(stats, r)}]
  /\ IF HasTimes(Load(stats, r))
     THEN commanded' = <<r, "complete">> /\ inbox' = Publish(Handled("manager"), "run_completed", r)
     ELSE UNCHANGED commanded /\ inbox' = Handled("manager")

\* handle_stats_updated_event: the time of the end is the last thing to be saved
ManagerCollects ==
  /\ Receives("manager", "stats_updated")
  /\ groups' = groups \union {Subject("manager")}
  /\ IF Collected(groups')
     THEN SaveStatsOnDisk(code["manager"], SaveValue(redis, code["manager"], "end_time"))
     ELSE inbox' = Handled("manager") /\ UNCHANGED <<commanded, disk, redis>>
  /\ UNCHANGED <<schedule, completed, code, stage, progress, poolVars, due>>

\* stop_run_resources
ResourceStops(c) ==
  /\ Receives(c, "run_completed")
  /\ stage' = [stage EXCEPT ![c] = "WAITING"]
  /\ inbox' = Handled(c)
  /\ UNCHANGED <<managerVars, code, progress, poolVars, redis, due>>

PoolStep == UpdateAgentStats \/ UpdateStats

ConsumerStep ==
  \/ PublishPrepare \/ PublishStart \/ PublishExecutionCompleted
  \/ ManagerPrepares \/ ManagerIgnores \/ ManagerEndsExecution \/ ManagerCollects
  \/ \E c \in Resources : ResourcePrepares(c) \/ ResourceStops(c)
  \/ AgentStarts \/ GeneratorStarts \/ CollectorStarts
  \/ GeneratorReports \/ AgentObserves \/ AgentEnds \/ CollectorEnds
  \/ \E t \in RunTasks : GetAction(t) \/ ComputeReward(t) \/ NotifyAgent(t)

StatisticsNext == PoolStep \/ ((schedule.lag \/ (answered = 0 /\ times = 0)) /\ ConsumerStep)

StatisticsSpec == StatisticsInit /\ [][StatisticsNext]_statisticsVars

-----------------------------------------------------------------------------
(* Properties. *)

\* Types; whoever is in a run has its code.
StatisticsTypeOK ==
  /\ groups \subseteq Groups /\ timed \in 0..Len(Times) - 1
  /\ code \in [Consumers -> StatsRuns \union {NoCode}]
  /\ stage \in [Resources -> {"WAITING", "READY", "RUNNING"}]
  /\ \A c \in Resources : stage[c] # "WAITING" => code[c] = commanded[1]

\* The statistics of a run are complete, and its own.
TrueStats(r, d) ==
  /\ \A v \in Values \ {"task_succeeded"} : d.values[v] = "saved"
  /\ due[r] \subseteq Range(d.rewards)
  /\ IsInjective(d.rewards)
  /\ \A t \in Range(d.rewards) : RunOf(t) = r
  /\ \A k, l \in Range(Times) : d.lists[k] - d.lists[l] \in -1..1

\* What is saved of a run is complete and its own: it is saved once, with every value that somebody
\* was to report; with the reward of every trajectory announced before the end of the execution, once
\* each, and of no trajectory of another run; and the lists of times, which are averaged side
\* by side, differ by what one thread was about to write.  (The tasks that have succeeded and the
\* lists the pools write are not promised: see CollectorEnds, UpdateStats.)
SavedStatsAreTrue ==
  \A r \in StatsRuns : Cardinality(disk[r]) <= 1 /\ \A d \in disk[r] : TrueStats(r, d)
=============================================================================
