# Verification of RLQ

RLQ schedules celery tasks on classes of workers with a reinforcement-learning
agent: a system manager commands runs, a task generator sends tasks, a broker asks
the agent which workers to use, a trajectory collector turns celery's events into
trajectories and rewards, and the agent learns from them. This directory holds TLA+
models of its program logic, the TLC runs that check them, and the theorems TLAPS
proves about them. `PROJECT.json` lists components, runs, mutants, the source lines
each definition stands for, findings, hazards and theorems.

## Inventory

| component | source (under `src/rlq_scheduler`) | state | operations | model |
|---|---|---|---|---|
| event bus | `common/system_events` | redis pub/sub topic, one consumer thread per component | `publish_*`, `consume`, callback wrappers | `SystemLifecycle` |
| resource context | `common/resource_context.py` | `status`, `initialized`, run config | `init`, `init_resource`, `prepare_run`, `start_run`, `change_resource_status` | `SystemLifecycle` |
| system manager | `system_manager/system_manager*.py`, `system_consumer_callbacks.py` | `resources_status`, `celery_status`, `status`, statistics groups, phase | `resource_has_changed_status`, `check_system_status`, `check_celery_status`, callbacks | `SystemLifecycle` |
| run manager | `system_manager/run_manager`, `resources/runs.py` | `runs_to_execute`, `current_run`, `executed_runs`, flags | `system_changed_status`, `schedule_next_run`, `start_next_run`, REST | `SystemLifecycle`; the list in `RunConfigs` |
| agent | `agent/agent_context.py`, `agent/agents`, `agent/resources` | agent, phase, `n_reward_observation` | `choose_action`, `observe_reward`, learning, checkpoints | lifecycle in `SystemLifecycle`, answers and observations in `TaskPath`, the agent itself in `Learning` |
| experience replay, validation reward, saving modes | `common/experience_replay`, `common/validation_reward.py`, `common/saving_modes.py` | `memory`; a record per task; checkpoints | `push`, `compute_validation_reward`, `save_model_run` | `Learning` |
| trajectory collector | `trajectory_collector` | trajectories in redis, `task_completed`, phase | celery events, `create_trajectory`, `compute_reward`, `are_all_task_executed` | `SystemLifecycle` (when), `TaskPath` (what) |
| task generator | `task_generator` | `tasks_scheduled`, phase | `schedule_bootstrapping_tasks`, `schedule_tasks` | `SystemLifecycle` |
| task broker | `tasks/task_broker.py` | none that matters | `task_broker`, `request_action` | `TaskPath` |
| trajectory store | `common/backends`, `common/trajectory.py`, `common/distributed_queue` | one redis key per property of a trajectory; redis lists | `save`, `get`, `update_property`, `push`, `subscribe` | `TaskPath` |
| celery consumer, state and reward functions | `trajectory_collector/consumer`, `common/state`, `common/reward_function.py` | load and utilization per class, waiting times, features, windows | `_on_task_*`, `update_pool_load`, `create_state`, `get_state`, `compute_reward` | order in `TaskPath`, values in `StateFeatures` |
| workers state | `trajectory_collector/workers_state_builder.py`, `system_manager/celery_monitor.py` | `pool_info`, two threads | `start`, `stop`, ping and inspect loops | `WorkersMonitor` |
| trajectory saver | `common/trajectory_saver` | two buffers, a thread pool | `push_trajectory`, `flush` | `TrajectorySaver` |
| run configuration | `common/run_config_generator.py`, `config_helper.py` | one configuration that loops change, list of runs | expansion of a search, adding and removing runs | `RunConfigs`; task counts in `SystemLifecycle` |
| statistics | `common/stats.py`, the callers in every component | one redis document per run, a file, a database document | `save_stats_group*`, `handle_stats_updated_event`, `save_stats_on_disk` | `Statistics` |
| deployer | `deployer_manager` | status, thread pool, lists of deployed resources | deploy, clean up, start | `Deployer` |
| trace dataset | `google-traces` (beside `rlq_scheduler`) | two collections of events, classes, the dataset, an exported file | six steps with thread pools, cleaner, export | `TraceDataset` |
| storage, logs, plots | | | I/O | not modelled |

**Interactions.** The task generator, agent, trajectory collector (the *resources*)
and the system manager publish on one redis channel and each reads all of it in
one consumer thread. The task generator sends tasks to celery; the broker task
asks the agent over REST which class of workers to use and sends the real task;
the trajectory collector sees the celery events of both, creates a trajectory
for the one and a reward for the other in two threads, and publishes
TRAJECTORY_COMPLETED to the agent.

**A run.** All resources WAITING -> PREPARE_NEW_RUN -> all READY -> START_RUN ->
(bootstrap, then) scheduling and execution -> EXECUTION_COMPLETED -> the four
STATS_UPDATED -> RUN_COMPLETED -> all WAITING.

**What is hard.** A command that reaches a resource in another status is dropped
with a warning and never sent again; the system status is computed from reports
still in flight; the same statuses come back every run; the end of a run is an
equality of counters written by three threads; REST threads share
`schedule_next_run` with the consumer thread; components start in any order on
a bus that keeps nothing. A trajectory is written by four threads of three
processes, one redis key at a time; celery events of two processes come in any
order; a failed request repeats the whole broker task. Pools of threads write
statistics, checkpoints, windows and copies of the load under the code, the
agent or the load of the moment in which they write. A deployment is many requests
to a cluster, any of which fails. The full list is under `hazards` in `PROJECT.json`.
**What makes it correct**: no command dropped, all resources on one run, no run
lost or repeated, the end announced only after the last task, nothing of a run
taken for the next one, failures reported, every run executed in the end; each
state followed by the next one, each reward credited to the class chosen, each
trajectory learned from once and saved once, the load of the workers right and
shown right to the agent; a search expanded to each combination once; statistics
of the run they are saved for; a deployment READY only when everything is there.

## Modules

- `SystemLifecycle`: the bus, the system manager with the run manager, and the
  lifecycle of the three resources. One action per handler. `inbox[c]` is what
  component c has still to handle. A handler does its assignments and its first
  publish in one step; what it publishes after that waits in `outbox[c]`, sent
  one by one by `Flush`, so that the publishes of two components interleave.
  Threads other than the consumers have actions of their own:
  `CheckCelery`/`PublishCelery`, `ControlRun`/`TakeRun("control")`/`PublishPrepare("control")`
  (REST), `CreateTrajectory`, and `ComputeTaskReward`/`AreAllTasksExecuted`.
- `RunProtocol`: what the lifecycle promises, for any set of resources: commands
  and reports numbered, three counters per resource.
- `SystemLifecycleRefinement`: the counters of `RunProtocol` computed from the
  statuses and queues of `SystemLifecycle`, and the property that one implements
  the other.
- `MCSystemLifecycle`: further initial states for TLC. `Started` is where a
  start-up ends. `BetweenRuns` is the end of a first run, a second one to come, and
  `SecondBootstrapDone` a state of that second run in which a task of the first is
  still executed. All are reachable from `Init`; they replace the interleavings
  before them, which other runs check.
- `TaskPath`: one run seen from its tasks. The broker's parent process
  (`FetchBrokerTask`) and its child (`TaskBroker`, `ChooseAction`,
  `AnnounceSent`, `RequestFails`, `ActionNotAvailable`), the agent's answer (`Answer`) and pool (`RunJob`), the workers
  (`ReceiveTask`, `EndTask`), the celery consumer (`Consume`, one operator per
  handler), the state thread (`TakeCreation` to `SetPrevious`), the reward thread
  (`ComputeReward` to `AreAllTaskExecuted`) and the agent's consumer
  (`ObserveReward`, `SaveHistory`). A thread is cut wherever it does one more
  write to a trajectory or reads what another writes.
- `MCTaskPath`: the lists of actions and of classes for TLC.
- `TrajectoryLife`: what the path promises of a trajectory: parts stored one by
  one, announced once and when complete, learned from once and after that.
- `Deployer`: `DMTriggerResource` (`Trigger`), the thread pool (`TakeRequest`), the ten
  steps of a deployment in their phases (`DeleteExisting`, `Apply`, `Wait`, `EndStep`), the
  clean-up kind by kind (`CleanKind`, `EndCleanUp`), a new process and what it
  finds (`Restart`). Every request to the cluster is one operator that gives its
  possible outcomes; the cluster's own steps are `ClusterStep`.
- `WorkersMonitor`: `start` and `stop` of the consumer thread (`Prepare` to `Release`) and the
  two threads of each run (`UpdateWorkerState`, `PingWorkers`), each with its sleep. `Release` asks
  nothing of the threads: `join(timeout=5)` returns either way, and one that is left over goes on
  beside those of the next run.
- `RunConfigs`: the generator of runs, one body of its innermost loop per step
  (`PrepareAgent`), the run manager's list, and the REST requests that add and remove.
- `Learning`: one agent in one run: `ChooseAction` with the candidates of every type of
  agent, the jobs it leaves to the pool (`CreateRecord`, `SaveCheckpoint`),
  `ObserveReward` with learning and replay, and `EndRun` with the validation and the model. A run
  ends whatever was observed of it; rewards may come after the end, or never.
- `TrajectorySaver`: the three savers over several runs: `Push`, the two writes of a pool
  job (`SaveBulkTrajectories`, `SaveBulkInfo`), `Flush`, `PrepareRun`; and the tasks that hand them
  their ids (`GenerateTask`, `SucceedTask`, `FailTask`, `ObserveTrajectory`). The agent observes a
  trajectory before its flush, after it, or never.
- `StateFeatures`: `UpdateWorkersState` of the consumer, the copies to redis by two
  threads (`Dump`, `Store`), a state made feature by feature (`UpdateFeature`), where the
  load is added up before its classes are updated one by one (`AddUpLoad`), the
  contexts and pushes of the agent (`Choose`), the shared pipeline (`AddCommands`,
  `Execute`, `ResetPipeline`), the reward functions (`RewardOf`).
- `Statistics`: who saves what under which code, over several runs, with the events
  in one order (`Publish`) and the pools aside (`UpdateAgentStats`, `UpdateStats`); the
  manager collects groups and saves (`ManagerCollects`, `SaveStatsOnDisk`).
- `TraceDataset`: the processes of `traces.py` (`StartProcess`, `EndStep`), each with the steps it
  does not skip; the threads of steps 2 and 3, cut at every query and every insertion
  (`TakeEvents`, `Read`, `Look`, `Insert`); the classes (`ProcessTaskClass`), the dataset
  (`ExtractDataset`, `UpdateDatasetIndex`), the count of jobs (`CountJobs`); and between the
  processes `Clean` and `Export`.
- `MCPlatform` and `MCAgents` put these together for TLC. Their parts share no variable, so
  a product of them would show nothing more: a behaviour runs one `part`. The parts
  are extended, so that a run checks the very property a theorem states:
  `RunProtocol`, `Deployer` and `WorkersMonitor` in the one, `RunConfigs`, `Learning`, `TrajectorySaver`,
  `StateFeatures`, `Statistics` and `TraceDataset` in the other; they keep their first state while another
  part runs. `MCLearning` is the instance of the finding.
- `LifecycleSafety`, `TaskPathSafety`, `PlatformProofs`, `LearningProofs`, `RunInputsProofs` (the
  configurations of the runs, and what an agent sees), `SavedProofs` (trajectories and statistics) and
  `TracesProofs`: the theorems; `Sums`: the lemmas about sums, counting, loops and smallest sets that three of them need.

The modules meet where one's action is another's assumption: `RunProtocol` is what
`Statistics` and `TrajectorySaver` take of the lifecycle (a command is given when all have
obeyed the last); the action that `TaskPath!Answer` leaves open is decided in
`Learning`; the load that is one per task in `TaskPath` has its shares, copies and
windows in `StateFeatures`; the runs that `SystemLifecycle` counts are those of
`RunConfigs`; and `TraceDataset!Export` writes what an evaluation would ask for.

Abstractions of `SystemLifecycle`:
- Tasks are numbers in the order they are sent. What a trajectory holds is left
  out; when it is complete (next state and reward) is not.
- An event is put in an inbox only if the callback of the component does
  something with it (`Relevant`).
- `start_next_run` publishes and then sets `current_run_started`; both are one
  step. The tasks to skip are summed over the rounds of a generation.
- The guard of `observe_reward` on `previous_observed_trajectory_id` is never
  true, as nothing assigns that field; it is left out.
- The workers state builder, which could publish READY on its own, is disabled in
  `config/trajectory_collector.yml` (`worker_state`), and left out.
- `late` counts tasks of earlier runs that are still executed;
  `ComputeLateReward` lets such a reward be counted or lost.

Assumptions, each a constant:
- `SlowTasks`: a task takes longer than the delivery of SCHEDULING_STARTED. Without
  it `task_completed` is reset after a reward was counted, and the run never ends.
  Every run in which tasks are executed assumes it, the two findings as well.
- `QuickAnnounce`: `Context.init` publishes the status before the consumer thread
  changes it. Without it `StartUpCompletes` fails.
- `TasksMayFail`, `CeleryMayFail`, `MaxFailures`, `MaxPosts`: what may go wrong and
  how often. `NumRuns`, `TasksToBootstrap`, `TasksToGenerate`, `TasksToSkip`: the
  configuration.

Abstractions of `TaskPath`:
- `wire[s]` holds the celery events of process s, which keep their order; events of
  two processes do not. None is lost.
- A state is the number of the reading it comes from, a reward the class of
  workers it was computed for, a task costs one unit of utilization. A property
  that is not set or null is missing; the context is written with the action.
  `reward` of a failed task is null, as in `compute_reward`.
- `waiting[k]` says whether the waiting time is unknown, started or known.
- The agent answers with an index into its own list of actions (`ActionSpace`, the classes of the run's
  configuration, and prefixed ones if external workers are enabled); the pool writes the index. The
  broker looks the label up in the list of the global configuration (`BrokerClasses`) and, if it is
  not there, takes the class at the index, or raises (`QueueOf`, `ActionNotAvailable`). An event
  carries the name of the host that sent it or of the queue; the class is cut out of the former
  (`HostName`, `WorkerClassOf`), and the reward is computed for it. That the two names of a class
  come together again is `RewardOfTheAction`. Which action the agent chooses is open. It is in training, so it has validation
  records. The run is in its RUN phase; the phases are in `SystemLifecycle`.
- A retry waits for its delay in the broker: `TaskBroker` may take it any time
  later. The agent answers 400 after four waits of three seconds; the repeated
  request then fails on its parameters (`task_broker.py:92,111`), so the retry is
  always celery's.
- Not modelled: lost redis connections, an unknown task name, events whose task name celery no
  longer knows.

Assumptions of `TaskPath`, constants as well:
- `SlowTasks`: a task takes longer than the agent's pool, the event that it was sent and
  the creation of its own trajectory (`Prepared`). The code relies on it: the
  action is written after the answer, and a reward that overtakes it leaves a
  trajectory complete that nobody announces.
- `LoadTimeouts`: whether the ten seconds of `_get_state` may run out. Without, it is
  only allowed where nothing can update the load, for the first task.
- `MaxFailures`: how many broker tasks raise, for want of a state or of a class; `MaxRetries`: celery's
  `max_retries`. `NeedState`: `agent.need_state`; false for the baselines that do not look
  at the state.

Abstractions of the other modules:
- `Deployer`: a resource is a kind and a name, a file the set of resources in it. A step
  works through its resources in the order of `sort_resources`; those of one kind in any
  order. An outcome that is not the good one costs a fault, so that `MaxFaults` bounds
  how much goes wrong and not where. `CleanedUp` asks for no fault.
- `WorkersMonitor`: a worker answers or does not; what is queued at a worker is left out. A ping or an
  inspection is without an answer only when the broker's worker is silent as well (`Answered`).
- `RunConfigs`: integers stand for floats. A parameter is one of the kinds the setters
  know; names and values are members of small sets. `places` is a history variable: which seed, entry of
  features, state and entry of agents a run was listed for. `SearchAssumption` says what the parameters of a
  search are: no value of one is listed twice, a range has a positive step, no parameter of an entry replaces another
  or the flag that the code itself sets (`load`), and one of a policy belongs to an agent that has one. The
  code asks for none of this. Types of agents, states and features may be named any number of times, as
  `generate_eval_config.py` does: runs are told apart by the entry they are for.
- `Learning`: of a network only the number of optimisation steps, of a batch only
  whether there is one. `Rewards` are negative, as `StateFeatures` shows
  (`NoRewardIsPositive`). Two assumptions on time: the record of a task is written
  before its reward is observed, and a run ends when the pool is idle. `saved` keeps, for the properties
  only, which rewards were observed by then (`seen`).
- `TrajectorySaver`: a document is the set of its parts; `hurried` marks behaviours in which a run
  is prepared while a thread still writes, where no promise can be kept, and `late` the trajectories that
  were observed after the flush. A flush that would raise is no step: the resource is in ERROR then,
  and the run is not completed.
- `StateFeatures`: a share is a pair of integers, never rounded. Three flags tell of
  races the code does not exclude: `disturbed` (the load changed while a state was made),
  `overtaken` (an older copy was stored after a newer one) and `crossed` (two threads used
  the pipeline at once). What the properties promise, they promise without them.
- `Statistics`: a value is there or not, a list has a length; the rewards are kept by
  task. `lag` says whether the pools may fall behind the consumers.
- `TraceDataset`: a collection is the bag of its documents, as every query sorts or groups
  them. A hash is the event and the number of the process, as python hashes strings
  anew in each (`PYTHONHASHSEED` is set nowhere). What makes two events of an instance
  differ is its cpus. Processes run to their end, one after the other; a download may
  fail, the database does not.

## Runs

| run | instance | checks |
|---|---|---|
| `start_up` | 2 resources, from `Init` | start-up comes to WAITING or ERROR |
| `runs` | 3 resources, 2 runs of 2 tasks, by REST | type, commands, started as prepared, conservation, end of an execution, nothing left over, observations |
| `bootstrap` | second run, bootstrap of 2, at most one late task | every run is executed, with a bootstrap and in spite of a late reward |
| `execution` | 2 runs of 1 task | every run is executed; implements `RunProtocol` |
| `failures` | 1 run, 1 failure in any resource, failing tasks | ERROR is reported and final |
| `task_path` | 3 tasks, 1 class under another label than the agent's, no timeout but the first | the run ends with its whole history; states follow each other; learned from, with a record |
| `task_retry` | 2 tasks, 2 classes, 3 actions in another order, 1 retry, 2 failures | load, reward of the action, nothing left at the end; implements `TrajectoryLife` |
| `platform` | `RunProtocol` with 3 resources and 3 runs; a deployer with a resource for every step, 2 requests, 1 fault, 1 restart; a monitor of 2 classes, 2 starts, 3 changes | one run at a time, nobody behind; READY is complete, a clean-up leaves nothing, jobs end; the pool settles, and every run of it is reported READY |
| `agents` | a search over 2 seeds, 2 entries of features, 2 agents with parameters of every kind; one of several entries for one type, as for an evaluation; 10 agents in a run of 3 tasks; 2 runs to save, of 3 and 1 tasks; 6 views of a system of 2 tasks; 3 schedules of runs; 5 files of traces, 2 threads, 2 processes | each combination once and comparable; no action forgotten, replay and target keep up, validation by step; trajectories saved once; features true; statistics complete and of one run; no event lost, and tasks exported in order |
| `bootstrap_early` | bootstrap of 2 | finding: the end is announced early |
| `control_race` | auto start and a REST request | finding: two threads in `schedule_next_run` |
| `best_checkpoint` | 2 tasks, a checkpoint for each | finding: the best checkpoint is the first |

Why these bounds: every status repeats after one run, so two runs are what a
confusion of runs needs; two tasks let the next state and the reward of a
trajectory come in either order and let a last task be distinguished from
others; a bootstrap of two is the smallest the code can end. In `TaskPath` three
tasks make a chain with a trajectory that has both a predecessor and a
successor, and let the broker hold one task back (`Prefetch` two); two classes
let a reward be credited to the wrong one, and three actions in another order have a label that is
known, and one that has neither label nor index; two failures with one retry let one
task be retried and then given up, or two be retried. In `platform` one resource of
each kind meets every branch on kinds, and the steps with a workload and a service
have a wait that may hide an earlier one; one fault is what a single ignored
result takes, and a second request or a restart meets what the first has left; two
starts let a thread of the first meet the second. In `agents` three tasks fill
a replay of two and pass a checkpoint at two; runs of three and one with batches of
two give a full batch, a rest, and a run that is only a rest; a window of one
entry is overfull with two; two runs let statistics be written under the wrong
code; two files with an event in common let two threads insert it twice, a file of one
line divides by zero, and a second process reads again what the first has saved.

Fairness (`Fairness`): each consumer thread, the start-up, the celery check,
the two threads of the trajectory builder and a REST request under way go on;
every task that is sent is executed or fails. No REST request need be made.
Celery executes tasks and the threads are blocking loops, so weak fairness of
each is what their scheduling gives. In `TaskPath` the same holds of the broker's
two processes, the pool, the workers, the celery consumer and the threads of
the builder; a request need never fail. In `Deployer` the pool's threads run (each
wait of `kube_wrapper` is bounded) and the cluster acts; in `WorkersMonitor` both threads
run, and `start` and `stop` return. `RunConfigs`, `Learning`, `TrajectorySaver`,
`StateFeatures`, `Statistics` and `TraceDataset` have safety properties only, and state no fairness.

## Findings

- *The end of a run with a bootstrap is announced early* (`bootstrap_early`). The
  agent ends the bootstrap one observation before its last trajectory, whose
  next state needs one more task; its reward is then counted as one of the run.
- *Two threads in `schedule_next_run`* (`control_race`). A REST request next to
  the consumer thread takes two runs; resources start one and prepared another.
- *The best checkpoint is the first* (`best_checkpoint`). `compute_validation_reward` looks for a
  mean above zero, and no reward is positive. In the trace the last task has, as in every run, no reward
  by the end: its interval has mean zero, the greatest, and is not taken either. With rewards that could be, the
  index would still be one into the names as the store lists them, 10000 before
  5000 (`ListCheckpoints`).

## Observations

Behaviour the runs depend on, which no line of the repository contradicts:
- The first wait of `_get_state` always runs out: nothing updates the load before the
  first task is sent. It is shorter than the agent's patience (10 s against 12 s).
- After a retry the ten seconds are needed again: the retry queues behind other
  tasks, which wait for a load that only it could change.
- A retry creates its trajectory again. The state is kept, but the trajectory may
  become its own successor, and its next state be written twice (`ChainInOrder`
  says what is left: later, not next).
- `HistoryIsComplete` does not hold for an agent that decides without the state, or
  after a retry at the end of a run: the history is saved while the state thread
  still has trajectories to announce.
- A broker task that is given up is never counted and the run does not end:
  `_on_task_failed` leaves out the broker's failures.
- Statistics: `task_succeeded` is saved by the collector after EXECUTION_COMPLETED and nobody
  waits for it, so that the saved document may lack it. The lists that pools
  write may lack entries, or get one of the run before, as the code of the run is read
  when the entry is written; a write after `delete_stats` leaves a key nobody deletes. The
  rewards are written by the consumer itself, and are complete.
- The status of the deployer is checked when a request is handled and changed by the
  thread; only the pool of one thread keeps two requests apart. Of the waits of a
  step the last result counts; waits and deletions of a clean-up are ignored. After ERROR
  only a deployment is accepted over REST. A process that restarts counts workloads
  only: it may report READY without a service.
- A worker pool that changes from class to class with the same total is not noticed
  (`_ping_workers`), therefore `PoolSettles` speaks of the total.
- An entry of `features_enabled` that leaves out a key takes it from the entry before. An entry of
  `agents` that names less than another entry of its type runs with what that one has left, within
  a seed; of two with one policy the same is true of the policy's parameters. The third search of
  the instance is of this kind: `OwnParameters` excepts the names which the entry leaves open and
  another entry of the type names, and fails without this exception. Runs that are
  skipped are listed as executed.
- A thread of the monitor that outlives `stop` changes the pool and reports READY between two runs;
  `prepare_run` therefore unsets `is_ready` again, without which the next run would never be
  reported (`ReadyIsReported`).
- The last trajectory of a run has no next state and is never observed in it, nor are those of failed
  tasks: they have no part of the agent in the database and no reward in the validation. One
  announced as the run ends is buffered after the flush (`late`): it is removed from redis
  before it can be written, and takes the batch with it, or the flush of the next run raises.
- An action whose label and index the broker does not know is noted by the agent before the broker
  raises; if the retry is faster than the pool, which `SlowTasks` excludes, the wrong index may stay in
  the trajectory.
- In evaluation DQN and LinUCB do not count rewards, so a bootstrap in evaluation never
  ends; a batch larger than the replay is never learned from. Neither the replay
  nor the table of LRU is in a checkpoint.
- `prepare_run` enables a saver again that had no database; its flush then raises, and
  the resource comes to ERROR. A batch is lost when the collector removes the
  trajectories before it is read, or put under the next run (`hurried`).
- A state made while the load changes may have shares above one (`disturbed`); a copy may be
  stored over a newer one (`overtaken`); two pushes at once may lose or double an
  entry and log a success (`crossed`). `set_run_config` resets the load and not the
  utilization. An end handled before its sending leaves the utilization too high
  (the guard of `UtilizationDrains`). Failed tasks get no reward, so the penalties of the reward
  functions are never reached.
- The dataset lacks the rows of its smallest classes, as the last thousand are never inserted
  (`AddClass`). A job is listed again by every event after its end. Two threads may save
  an event twice, and one of them then lose the rest of its file in an exception
  (`Look`); a second process saves everything again, under other hashes, which the
  cleaner takes for other events. A file of fewer than four lines is lost
  (`DividesByZero`). A task that takes no time leaves a gap in the numbers that are
  exported, which `ExportedInOrder` excepts. Every event of a job is counted as a job.

## Proofs

- `LifecycleSafety!TypeCorrect`: `TypeOK` holds in every reachable state, for
  every value of the constants that `LifecycleAssumption` allows. `TypeOK` is
  inductive as it stands; there is one lemma per handler. It says more than
  types: a trajectory is notified only if rewarded and not failed, rewarded only
  if sent.
- The rest of `LifecycleSafety`: the safety of the lifecycle once it has started (`StartedSpec`), for any
  number of runs and tasks, with resources that fail and tasks that fail. `LifecycleInvariant`
  is the inductive invariant; from it follow `RunsAreConserved` (`RunsConserved`),
  `CommandsMeetStatus` (`CommandsMeetTheirStatus`, if no resource fails: a failed one drops
  RUN_COMPLETED), `StartsThePreparedRun` (`StartedAsPrepared`), `CompletedWhenExecuted`
  (`ExecutionCompletedSound`), `NothingIsLeft` (`NothingLeftOfTheLastRun`), `ErrorStays`
  (`ErrorIsFinal`) and, with one more invariant, `ObservedOnce` (`TrajectoriesObserved`).
  They assume `UndisturbedRuns`, which says what the findings show to be necessary: the
  three resources, no bootstrap (`bootstrap_early`), no two threads in `schedule_next_run`
  (`control_race`: at most one REST request, and that one starts the first run) and slow
  tasks. The instances `runs` and, without its liveness, `execution` are of this kind.
  The invariant reads the command in force from the run manager (`Stage`). Of every
  resource it says that the command is still in its inbox (`Awaits`), that its report is on
  the way (`Reports`), that the manager knows (`Agreed`), or that it has failed (`Broken`);
  in each case it names the status, the echoes and what the manager believes (`Lockstep`).
  None of this is inductive without the order of the events in an inbox (`InOrder`: of two
  reports of a resource the first is handled before the second is sent; the statistics come
  after the reports), and without the contents of the inboxes and the counters of the run
  stage by stage (`Waiting`, `Preparing`, `RunningEvents` to `RunningTasks`): a RUN_COMPLETED
  is sent on the fourth group of statistics, and it is the last task that must stand behind
  each of them. For `TrajectoriesObserved` the announcements that come after a START_RUN are
  told from those before it (`Fresh`): the agent drops the latter and observes the former.
  `ImplementsProtocol`: under the same assumption the lifecycle implements `RunProtocol`,
  its initial state and every step (`ImplementsRunProtocol`), so that what `PlatformProofs`
  proves of the protocol is true of it. The protocol counts where the code has statuses only,
  and the proof shows that they are enough to count by. The commands published are three per
  run completed, and the stage of the next one (`IssuedIs`). A resource has executed what its
  status says of the run in its `runCode` (`ExecutedIs`), which needs an invariant of its own,
  as the code outlasts the run (`Codes`). One report at most is under way, in an outbox or in
  the inbox of the manager, and it is under way exactly while the manager believes the status
  before it (`SignalsAre`, `UnseenIs`). With this a handler that moves a resource on is
  `Execute`, one by which the manager learns a report is `Learn`, a publication of the run
  manager is the command, and the other steps change none of the counts (`NextFollows`). For the
  protocol a resource that fails executes nothing more.
- `TaskPathSafety!TypeCorrect`: `TypeOK` of `TaskPath`, for any number of tasks, retries and
  failures, and any lists of actions and of classes; inductive, with one lemma per action. It includes the bound
  of the retries and what each process may send (`EventsOf`): a class of workers is
  counted only on the events of its queue. From it `StateNeverReplaced`: the action
  property `StateIsKept`, of the five actions that write to a trajectory.
- The rest of `TaskPathSafety`: the safety of the task path, again for any number of tasks, classes,
  retries and timeouts. `TasksInvariant` is the inductive invariant; from it follow
  `ExecutionEndsOnce` (`NothingLeftToExecute`), `LoadIsAccounted` (`LoadAccounts`),
  `RewardMatchesAction` (`RewardOfTheAction`), `RecordBeforeLearning` (`LearnedHasRecord`, if
  tasks are slow), `StatesInOrder` (`ChainInOrder`), `HistorySavedComplete`
  (`HistoryIsComplete`, if tasks are slow) and `TrajectoriesLive`: the task path implements
  `TrajectoryLife`, its initial states and every step. `LearnedOnce` says what this is worth: the
  agent, which keeps no record of what it has observed, learns from a trajectory at most once,
  and only from complete ones. It is proved of the abstract life, where it needs the announcement
  in between (`LifeInv`), and holds of the task path as its steps are steps of that.
  The invariant follows a task from place to place: a task without a reward is queued, fetched
  or asked about by the broker, given up, in the queue of a worker, accepted by it, in the
  event that it ended or in the element the reward thread will read, and in one of them
  only (`Apart`, `NoRepeats`). One step moves one task, and only the reward thread takes
  one out (`Moves`), so that what holds of a task by its place needs a look at two places
  per action. On this rest the counts (`Counted`, `EndOnce`), the single worker that every
  action, event and reward of a task stands for (`OneWorker`), the agent by label or index, the broker by queue,
  the collector by host name, and that an action without a class does not last into the retry (`Available`), the jobs of the agent's pool
  (`JobsLeft`, `Quiet`), the readings the states come from (`Chain`, `Straight`), the load
  (`Sending`: what the consumer has not seen sent is still to be ended), and what is
  over when the history is saved (`Created` to `LastWord`).
- `PlatformProofs!SameRun`, `CommandsFindEverybody` and `LagIsBounded`: `OneRunAtATime`, `NobodyBehind`
  and `BoundedLag` of `RunProtocol`, for any set of resources and number of runs. None is inductive alone. The
  invariant says that the manager knows at most, and the resource has done at
  least, what keeps `issued - reported[r]` within two; of two numbers at most two
  apart the status, which is the number modulo three, tells them apart
  (`StatusTells`), so a manager that sees the status it waits for in every
  resource knows that nobody is behind (`SeenAllDoneAll`).

- `PlatformProofs!DeployerTypeCorrect`, for any manifests, faults, requests and threads.
  `Complete`: with a pool of one thread (`deployer_manager_pool_size` in the
  configuration) a deployment that has ended well has created every resource of every
  step. The invariant follows the thread: the resources of the steps before the
  present one, and those of the present one that are no longer to do, are there
  unless the step has failed already; a wait may hide an earlier wait's failure,
  but not a creation's, as only a step whose creations succeeded waits.
  `CleansUp` (`CleanedUp`): with one thread, and as long as the cluster refuses nothing, a
  clean-up leaves nothing but the namespace. Most kinds are deleted by their label, but the
  services one by one from the lists; so the invariant (`CleanSoFar`) says that every service
  that exists is in the lists, after a restart too, which finds what is created and would miss what is
  on its way out, if anything were; and that nothing is left of the kinds the thread has gone through.
- `PlatformProofs!MonitorTypeCorrect`: types of the monitor, with any threads left over. What it promises is
  liveness, and only model-checked.
- `PlatformProofs!PlatformTypeCorrect` (`TypesOK` of `MCPlatform`): the protocol, the deployer and the
  monitor together. A step of the platform is a step of one, and the others stutter (`PlatformSteps`), so
  that the three invariants together are inductive.

- `SavedProofs`, the trajectories: `SavingTypeCorrect` and `SavedOnce` (`TrajectoriesSavedOnce`), for any lengths
  of the runs, any size of the batches and any choice of the runs that save, with the pools as late
  as one likes. A saver keeps no record of what it was handed; the invariant names it (`Handed`)
  and says that an id is in the buffer or in one job (`HeldBy`), and listed with one run at most
  and then held no longer (`Listed`). Unless a run was prepared in a hurry the jobs are of the run
  whose code the saver has, but for late ids, which can no longer be read (`OnTime`); what is in the
  database is true of its run (`Truthful`); and what was handed over is lost between the
  buffer, the jobs and the documents only with a late id in its batch (`Kept`). `SavingAssumption` asks that a batch has a size and
  that the runs follow each other.

- `LearningProofs`: `TypeCorrect` and `KeepsUp` (`LearningKeepsUp`), for any number of tasks and
  actions, every type of agent, any configuration and any order of the rewards. That the replay
  keeps up (`ReplayKeepsUp`) is inductive as it stands. The target network needs the rewards since
  it could last be updated (`Since`): it is fewer optimisation steps behind than those (`Behind`),
  as a reward is one step at most. The table of LRU says how many tasks ago an action was taken
  (`InTurn`). The action that is taken is the one with the largest number; had it been taken within
  the last `NumActions - 1` tasks, so had all the others, each at a task of its own, and there are
  not that many tasks. LinUCB has attempts of the actions it has chosen and of no others
  (`Attempted`), unless it loads them. Of the pool, a choice has one job that writes its record (`Jobs`).
  `LearningAssumption` asks for actions, for frequencies that one can divide by, for a replay that
  holds something or anything, and, as the model has integers for floats, for integer rewards.
- `LearningProofs!ValidationIsByStep` (`ValidationByStep`), under the same assumption: the intervals the
  validation puts together are those of the checkpoints, and the sum of each is that of the rewards of the
  steps that led to its checkpoint and were observed by the end of the run, whichever never come or come later. `Numbered` says that the records and the checkpoints are of the steps of
  the run, whoever writes them late, so that the n-th entry is the record of the n-th task (`EntriesAre`),
  and that a checkpoint is saved, or still to be, for each step divisible by the frequency. The loop of
  `compute_validation_reward` is a recursive function; that it exists is shown by a least length at which
  it would not (`LoopExists`). What a turn keeps (`TurnBuilt`) is that the finished intervals have
  the sums of their steps, and the present one that of its steps so far; this is where `Sums` is needed,
  as an interval adds one reward to one place of a list of zeros, and the property adds over all tasks.
- `Sums`: by how much a sum over a finite set changes with one term (`SumChanges`), and a sum of nothing
  (`SumOfZeros`), proved from the definition of `SumFunction`, which takes the elements in an order
  nobody knows, by a smallest set for which it would not be so (`SmallestSet`): this needs no
  induction theorem.

- `RunInputsProofs`, the configurations: `ListTypeCorrect` (`ListTypeOK`) and `RunsAreTrue` (`RunsAreTheSearch`), for any
  searches, any template and any requests. Nothing is left of a search when its runs are listed but the
  list, and the generator itself keeps one configuration only; so the invariant keeps the story of the
  bodies of the loops that are done: where in the list the runs of each begin, and the configuration it has found (`Story`).
  That there is a story is inductive, as a body goes on from the configuration the last one has left (`StoryGoesOn`), and from
  a story everything follows. What a body finds is the template's but for what the agents set for
  themselves, and has the features of its entry if it is not the first of it (`Unmixed`, `StoryIsUnmixed`); so
  each of its runs has the type, state, features and values of its place, and what its agent is created with is its own
  but for what an entry of its type has left (`BodyRuns`).
  For this a setter must reach its place and leave the others (`SetParameterSets`, `SetParameterKeeps`),
  and each combination must set all the last one has set, whence all values are those of the last
  (`ConfiguredSets`). That the combinations are the choices of values, each once, is that of a product of lists, by the
  number of the lists (`ProductIsChoices`), and that a range lists its steps and its maximum once (`LinearIsDeclared`). Every run
  is one of one body (`StoryCovers`), and bodies are places in four nested loops, by division (`BodyIsAt`,
  `PositionIsBody`). How many runs there are is the sum over the agents for each turn of the loop over
  them (`StoryIsEven`). The bodies of the next seed are as many places ahead as a seed has, do the same with
  a configuration that is alike but for the seed, and the first one starts from the template whatever was left (`StoryRepeats`).

- `RunInputsProofs`, what an agent sees: `FeaturesTypeCorrect`, `RewardsNeverPositive` and `FeaturesTrue` (`FeaturesAreTrue`),
  for any numbers of classes and tasks, any capacities, speeds and costs, any configuration and size of
  the window. What is in use is a sum over the tasks, of which an event changes one term; that a
  sum changes by as much, in whatever order it is taken, is in `Sums`. A task gives
  back what it took as its class and worker stay; if its end is handled first it gives back nothing,
  and the property excepts that class (`FirstStays`). While no event disturbs the creation of a state,
  the classes updated so far show the load that was added up (`Filling`), so that what is shown at the end
  is the load (`CreatedShows`). A copy is as old as the number of events it remembers; as long as no
  copy is still to be made, the last one is under way or there, or it was there and an older one has
  overtaken it (`LastCopy`). That the code leaves it at that needs to know that of two copies under
  way one is as new as what is there (`Newer`). Of the windows: without a crossing one push is on its way
  at most, the pipeline holds its entry and no other, and the window is the list of the entries, trimmed, but for that one
  (`Alone`); a list that is trimmed, gets an entry and is trimmed again is the longer list, trimmed
  (`TrimmedTwice`). `FeaturesAssumption` asks that there are classes, that replicas and speeds are positive, that the configured
  features exist, with no action among those of the state, and that runtimes are not negative; a wait may be.

- `SavedProofs`, the statistics: `StatisticsTypeCorrect` and `SavedTrue` (`SavedStatsAreTrue`), for any configured
  runs and any numbers of tasks, with the pools of the agent and of the collector as late as one
  likes. What is saved is read from the store at the moment the manager has heard of the last
  group; so the invariant has to say what an announcement that is heard, or still under way,
  says of the store (`Reports`), that the manager forgets the groups of the last run before it hears of
  those of the next (`PreparesFirst`), and that it hears of each once (`ManagerKnows`). This in
  turn rests on the commands: each resource handles those of a run one by one, in the stage
  each is for, and the stage says which of them are still in its queue (`Obeys`). For the rewards
  the order in one queue is what counts: the news of a trajectory stands before the end of the
  execution in the queue of the agent, if it was announced before that, and behind the start of
  its run (`Rewards`); so a reward that is due has been added when the agent reports, and
  none of another run has. The two lists of times differ by what one thread is about to add, under the
  code that the collector has at that moment (`SideBySide`). What the queues do in a step is
  stated once for each kind of step, and the handlers are proved from that (`TookCommand`, `Gave`,
  `TookReport` and the others). `SchedulesAssumption` asks that each run has tasks.

- `TracesProofs`: `TracesTypeCorrect` and `DatasetTrue` (`DatasetIsTrue`), for any files and any number of
  threads and of processes, with any downloads that fail, steps in any order, and the cleaner and the export
  between any two processes. A thread keeps no record of what it has saved; the invariant says
  where each event of its file is: saved, still to be read, or in the batch, and of a batch, whether it was
  looked up and then found saved or new (`Reading`). What is found new by two threads is inserted twice, which
  loses nothing, as documents only go where the cleaner takes the copies of one that it keeps.
  That it keeps one of every hash needs that two documents of one hash never differ, in particular not in the mark
  of the cleaner; they do not, as it marks between the processes only, and each process has
  hashes of its own (`Stored`). When the events of step 3 are read, those that count depend on
  what step 2 has saved; insertions, in the one collection or in the other, change nothing of
  that while a file is read (`SameEvents`). A class is extracted from some order of its events by their time; every saved
  event of it is in that order, so that what the loop has noted of a job in the end is its last start
  and its last end, and by the last event of the job it has both (`NotedSoFar`, `JobsAreTasks`). The classes are
  those of the queue until they are extracted (`Extracted`). The rows are numbered by their start but for the moment
  in which there are new ones, and no export comes in between (`Rows`). The loops over lines and events and the
  orders by a key are recursive functions; that they exist is shown as for the validation, by a
  least number of turns or a smallest set without one (`LoopsExist`, `OrdersExist`). `TracesAssumption` asks
  that the bounds are numbers, that there is a class to extract, that plans are of the steps 2 to 6, and that
  the times of events are not negative.

Constants are assumed to be what the code makes of a valid configuration; every such `ASSUME`
is one TLC evaluates in a run. `Complete` and `CleansUp` assume more, a pool of one thread, and that is their
hypothesis; `UndisturbedRuns` is that of the theorems of the lifecycle.

Only model-checked: liveness, which TLAPS does not do under fairness (`RunEnds`,
`RewardsAreLearned`, `AllRunsExecuted` and the others); the start-up and
runs with a bootstrap or with competing requests, and the monitor of the workers, of which only the types
are proved; and `BestCheckpointSaved`, which the code violates.

## Not modelled

- What networks, matrices and optimisers compute: `Learning` leaves any action open that
  the policy may take.
- The evaluation mode of the task generator, which replays the exported traces; the classes
  of tasks by their cpus (`paper_classes.py`), which no step calls; notebooks and plots.
- Object storage, files, logging, tensorboard, profiling: I/O without a protocol.
- The getters of the YAML files, beyond what others read of them; averages and the
  layout of statistics.
- External workers (`is_external_worker_enabled`): no configuration has them. Features of
  type budget: `state_size` knows none of them.
- Lost connections of redis: the backends reconnect and retry inside one call. Signals and process exit
  of a resource; a resource that restarts in the middle of a run is a hazard in `PROJECT.json`
  without a property, as the system has no handler for it.

## Plan

Done: the lifecycle and its abstract protocol, the task path and the abstract
life of a trajectory, the deployer, the monitor of the workers, the list of
runs, the agent, the savers, the features, the statistics and the traces; type correctness
of the large or concurrent modules, the protocol's safety, a complete deployment and clean-up, the
safety of the task path, of the lifecycle, of the savers, of the agent's learning, of what an agent sees,
of the configurations of the runs, of the statistics and of the dataset, the refinement of both abstract specifications.

Next, in this order:
1. The evaluation mode of the task generator, which replays what `TraceDataset` writes.
2. That no run of the list is lost between its listing and its execution, also when runs are
   added after the list is exhausted (a hazard in `PROJECT.json` without a property).
