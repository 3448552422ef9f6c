------------------------------ MODULE TaskPath ------------------------------
(***************************************************************************)
(* The path of a task through RLQ, within one run: the broker task asks    *)
(* the agent for a class of workers and sends the task there; the          *)
(* trajectory collector sees the celery events of both, stores a           *)
(* trajectory for the one and a reward for the other, and announces the    *)
(* complete trajectories to the agent, which learns from them.             *)
(*                                                                         *)
(* Seven threads touch a task: the broker's parent process (fetching) and  *)
(* its child (executing), a worker, the thread pool of the agent, the      *)
(* celery consumer, the state thread and the reward thread of the          *)
(* collector, and the consumer thread of the agent.  Their common memory   *)
(* is redis, one key per property of a trajectory, and each action below   *)
(* does at most one write to a trajectory.                                 *)
(*                                                                         *)
(* The agent and the broker have each their own list of classes: the agent *)
(* chooses an index into the classes of the run's config, the broker looks *)
(* the label of that index up among the classes of the global config and,  *)
(* if it is not there, takes the class at the same index; the collector    *)
(* knows a class as the first part of a worker's host name.  A trajectory  *)
(* keeps the index, and its reward is known by the class.                  *)
(*                                                                         *)
(* A state is the number of the reading of the workers' load it comes      *)
(* from.  A retry of a broker task is celery's: the task is queued again.  *)
(***************************************************************************)
EXTENDS Integers, Sequences, FiniteSets

CONSTANTS
  NumTasks,      \* tasks of the run
  ActionSpace,   \* the agent's actions: the run config's classes of workers, maybe prefixed ones
  BrokerClasses, \* the global config's classes of workers, one queue and one worker each
  Prefetch,      \* tasks the broker's parent process holds for its child
  NeedState,     \* whether the agent decides on the state (agent.need_state)
  MaxRetries,    \* retries celery makes of a broker task
  MaxFailures,   \* bound: broker tasks that raise, for want of a state or of a class of workers
  LoadTimeouts,  \* whether the state thread may give up waiting for a new load
  TasksMayFail,  \* whether the execution of a task may fail
  SlowTasks      \* whether a task takes longer than the threads that prepare it

ASSUME TaskPathAssumption ==
  /\ NumTasks \in Nat \ {0} /\ Prefetch \in Nat \ {0}
  /\ MaxRetries \in Nat /\ MaxFailures \in Nat
  /\ {NeedState, LoadTimeouts, TasksMayFail, SlowTasks} \subseteq BOOLEAN
  /\ ActionSpace \in Seq(STRING) /\ BrokerClasses \in Seq(STRING)
  /\ BrokerClasses # <<>>
  /\ \A i \in DOMAIN BrokerClasses :
       BrokerClasses[i] \notin {"none", "idle", "request", "broker", "child"}

Workers == {BrokerClasses[i] : i \in DOMAIN BrokerClasses}
Actions == DOMAIN ActionSpace
Tasks == 1..NumTasks
NoTask == 0
NoWorker == "none"
NoAction == 0
Senders == Workers \union {"broker", "child"}
JobTypes == {"action", "record", "entry"}

Event(type, k, w) == [type |-> type, task |-> k, worker |-> w]
Job(type, k, i) == [type |-> type, task |-> k, action |-> i]

\* the names in an event, split at '@': a worker's is its class and its host, a queue's the class
HostName(w) == <<w, "host">>
QueueName(w) == <<w>>

\* get_worker_class_from_fullname
WorkerClassOf(name) == name[1]

VARIABLES
  brokerQueue, fetched, broker, retries, gaveUp,   \* celery: the broker's tasks
  failures,                                        \* broker tasks that raised so far
  workerQueue, accepted,                           \* celery: the tasks of each worker
  wire,                                            \* celery events, per process that sends
  load, utilization, loadUpdated, waiting,         \* what the celery consumer keeps
  stateQueue, rewardQueue,                         \* redis lists
  stateThread, readings, rewardThread, taskCompleted, notified, completions,  \* the builder
  store, previous,                                 \* redis: trajectories
  jobs, records, entries,                          \* the agent's pool and what it stores
  agentInbox, learned, history                     \* the agent's consumer

brokerVars == <<brokerQueue, fetched, broker, retries, gaveUp, failures>>
workerVars == <<workerQueue, accepted>>
consumerVars == <<load, utilization, loadUpdated, waiting>>
builderVars == <<stateThread, readings, rewardThread, taskCompleted, notified, completions>>
agentVars == <<agentInbox, learned, history>>
poolVars == <<jobs, records, entries>>
vars == <<brokerVars, workerVars, wire, consumerVars, stateQueue, rewardQueue, builderVars,
          store, previous, poolVars, agentVars>>

\* a property that is not set, or set to null, reads as missing; an action is its index (from one
\* here), a reward is known by the class of workers it was computed for
Missing == [state |-> 0, action |-> NoAction, next |-> 0, reward |-> NoWorker]
Idle == [task |-> NoTask, at |-> "idle"]

\* mutant: the reward is not looked at
IsCompleteUnrewarded(t) == t.state # 0 /\ t.action # NoAction /\ t.next # 0

IsComplete(t) == t.state # 0 /\ t.action # NoAction /\ t.next # 0 /\ t.reward # NoWorker

Init ==
  /\ brokerQueue = [i \in Tasks |-> i]
  /\ fetched = <<>> /\ broker = Idle /\ retries = [k \in Tasks |-> 0] /\ gaveUp = {} /\ failures = 0
  /\ workerQueue = [w \in Workers |-> <<>>] /\ accepted = [w \in Workers |-> <<>>]
  /\ wire = [s \in Senders |-> <<>>]
  /\ load = [w \in Workers |-> 0] /\ utilization = [w \in Workers |-> 0]
  /\ loadUpdated = FALSE /\ waiting = [k \in Tasks |-> "unknown"]
  /\ stateQueue = <<>> /\ rewardQueue = <<>>
  /\ stateThread = Idle /\ readings = 0 /\ rewardThread = Idle
  /\ taskCompleted = 0 /\ notified = {} /\ completions = 0
  /\ store = [k \in Tasks |-> Missing] /\ previous = NoTask
  /\ jobs = {} /\ records = {} /\ entries = [k \in Tasks |-> "none"]
  /\ agentInbox = <<>> /\ learned = [k \in Tasks |-> 0]
  /\ history = [saved |-> FALSE, rewards |-> {}]

-----------------------------------------------------------------------------
(* The task broker: a celery worker with one child process. *)

\* the parent process fetches the next message and tells so, retry or not
FetchBrokerTask ==
  /\ brokerQueue # <<>> /\ Len(fetched) < Prefetch
  /\ brokerQueue' = Tail(brokerQueue)
  /\ fetched' = Append(fetched, Head(brokerQueue))
  /\ wire' = [wire EXCEPT !["broker"] = Append(@, Event("received", Head(brokerQueue), HostName("broker")))]
  /\ UNCHANGED <<broker, retries, gaveUp, failures, workerVars, consumerVars, stateQueue, rewardQueue,
                 builderVars, store, previous, poolVars, agentVars>>

\* the child begins a task: tasks in order, a retry at any time from its delay of ten seconds on,
\* when, unless the pool is slower than that, what an earlier answer left to the pool is over
TaskBroker ==
  /\ broker = Idle
  /\ \E i \in DOMAIN fetched :
       /\ retries[fetched[i]] > 0 \/ \A j \in 1..i-1 : retries[fetched[j]] > 0
       /\ SlowTasks => \A job \in jobs : job.task # fetched[i]
       /\ broker' = [task |-> fetched[i], at |-> "request"]
       /\ fetched' = [j \in 1..Len(fetched)-1 |-> IF j < i THEN fetched[j] ELSE fetched[j+1]]
  /\ UNCHANGED <<brokerQueue, retries, gaveUp, failures, workerVars, wire, consumerVars, stateQueue,
                 rewardQueue, builderVars, store, previous, poolVars, agentVars>>

\* get_if_not_none_or_wait_update: the state is there within four waits of three seconds
HasState(k) == store[k].state # 0

\* mutant: the index first, the label if there is no class at the index
QueueByIndex(i) == IF i <= Len(BrokerClasses) THEN BrokerClasses[i] ELSE ActionSpace[i]

\* the answer names the action by its label and by its index, in the agent's list; the broker has
\* a list of its own, and knows the label, or takes the class at the index, or has neither
HasQueue(i) == ActionSpace[i] \in Workers \/ i <= Len(BrokerClasses)
QueueOf(i) == IF ActionSpace[i] \in Workers THEN ActionSpace[i] ELSE BrokerClasses[i]

\* the agent answers with an action, leaving the writes to its thread pool
Answer(i) ==
  /\ broker.at = "request"
  /\ NeedState => HasState(broker.task)
  /\ jobs' = jobs \union {Job(type, broker.task, i) : type \in JobTypes}

\* the child sends the task, under the id '<id>.exec', to the queue of the action
ChooseAction(i) ==
  /\ HasQueue(i) /\ Answer(i)
  /\ workerQueue' = [workerQueue EXCEPT ![QueueOf(i)] = Append(@, broker.task)]
  /\ broker' = [task |-> broker.task, at |-> QueueOf(i)]
  /\ UNCHANGED <<brokerQueue, fetched, retries, gaveUp, failures, accepted, wire, consumerVars,
                 stateQueue, rewardQueue, builderVars, store, previous, records, entries,
                 agentVars>>

\* celery's task-sent event follows the message; a worker may be faster
AnnounceSent ==
  /\ broker.at \in Workers
  /\ wire' = [wire EXCEPT !["child"] = Append(@, Event("sent", broker.task, QueueName(broker.at)))]
  /\ broker' = Idle
  /\ UNCHANGED <<brokerQueue, fetched, retries, gaveUp, failures, workerVars, consumerVars, stateQueue,
                 rewardQueue, builderVars, store, previous, poolVars, agentVars>>

\* mutant: one retry too many
MayRetryOnceMore(k) == retries[k] <= MaxRetries

MayRetry(k) == retries[k] < MaxRetries

\* a broker task raises: celery retries it as a whole, or gives it up
RetryOrGiveUp ==
  /\ failures < MaxFailures /\ failures' = failures + 1
  /\ IF MayRetry(broker.task)
     THEN /\ retries' = [retries EXCEPT ![broker.task] = @ + 1]
          /\ brokerQueue' = Append(brokerQueue, broker.task)
          /\ UNCHANGED gaveUp
     ELSE /\ gaveUp' = gaveUp \union {broker.task}
          /\ UNCHANGED <<retries, brokerQueue>>
  /\ broker' = Idle
  /\ UNCHANGED <<fetched, workerVars, wire, consumerVars, stateQueue, rewardQueue, builderVars,
                 store, previous, records, entries, agentVars>>

\* no state within four waits of three seconds: the agent answers 400.  The broker asks again
\* with the retry number in the place of the parameters, which raises
RequestFails ==
  /\ broker.at = "request" /\ NeedState /\ ~HasState(broker.task)
  /\ RetryOrGiveUp
  /\ UNCHANGED jobs

\* the broker has no class of workers for the action, of which the agent has taken note
ActionNotAvailable(i) == ~HasQueue(i) /\ Answer(i) /\ RetryOrGiveUp

-----------------------------------------------------------------------------
(* The thread pool of the agent: five threads, so jobs end in any order. *)

RunJob(job) ==
  /\ jobs' = jobs \ {job}
  /\ store' = IF job.type = "action" THEN [store EXCEPT ![job.task].action = job.action] ELSE store
  /\ records' = IF job.type = "record" THEN records \union {job.task} ELSE records
  /\ entries' = IF job.type = "entry" THEN [entries EXCEPT ![job.task] = "new"] ELSE entries
  /\ UNCHANGED <<brokerVars, workerVars, wire, consumerVars, stateQueue, rewardQueue, builderVars,
                 previous, agentVars>>

-----------------------------------------------------------------------------
(* A worker: it accepts the tasks of its queue and executes them one at a time. *)

ReceiveTask(w) ==
  /\ workerQueue[w] # <<>>
  /\ workerQueue' = [workerQueue EXCEPT ![w] = Tail(@)]
  /\ accepted' = [accepted EXCEPT ![w] = Append(@, Head(workerQueue[w]))]
  /\ wire' = [wire EXCEPT ![w] = Append(@, Event("received", Head(workerQueue[w]), HostName(w)))]
  /\ UNCHANGED <<brokerVars, consumerVars, stateQueue, rewardQueue, builderVars, store, previous,
                 poolVars, agentVars>>

\* what is over, if a task is slow, when its execution ends: the jobs of the pool, the event that
\* it was sent, and a creation of its trajectory that is past the wait
Prepared(k) ==
  /\ \A job \in jobs : job.task # k
  /\ broker.at \in Workers => broker.task # k
  /\ \A i \in DOMAIN wire["child"] : wire["child"][i].task # k
  /\ stateThread.at # "wait" => stateThread.task # k

EndTask(w) ==
  /\ accepted[w] # <<>>
  /\ SlowTasks => Prepared(Head(accepted[w]))
  /\ accepted' = [accepted EXCEPT ![w] = Tail(@)]
  /\ \E type \in IF TasksMayFail THEN {"succeeded", "failed"} ELSE {"succeeded"} :
       wire' = [wire EXCEPT ![w] = Append(@, Event(type, Head(accepted[w]), HostName(w)))]
  /\ UNCHANGED <<brokerVars, workerQueue, consumerVars, stateQueue, rewardQueue, builderVars,
                 store, previous, poolVars, agentVars>>

-----------------------------------------------------------------------------
(* The celery consumer of the trajectory collector: one thread, one event at a time.  Events of *)
(* one process keep their order, those of two processes do not.                                 *)

Max0(n) == IF n < 0 THEN 0 ELSE n

UpdateWorkersState(w, n) ==
  /\ load' = [load EXCEPT ![w] = @ + n]
  /\ utilization' = [utilization EXCEPT ![w] = Max0(@ + n)]
  /\ loadUpdated' = TRUE

\* a task was sent to the queue of a worker; the broker's own queue is filtered out
OnTaskSent(e) ==
  /\ e.type = "sent"
  /\ UpdateWorkersState(WorkerClassOf(e.worker), 1)
  /\ waiting' = [waiting EXCEPT ![e.task] = IF @ = "unknown" THEN "started" ELSE @]
  /\ UNCHANGED <<stateQueue, rewardQueue>>

\* the broker received a task: ask for its state.  The element holds the time of the event, so a
\* retry is never already present
OnBrokerReceived(s, e) ==
  /\ e.type = "received" /\ s = "broker"
  /\ stateQueue' = Append(stateQueue, e.task)
  /\ UNCHANGED <<consumerVars, rewardQueue>>

\* a worker received a task: it has waited since it was sent, or not at all
OnWorkerReceived(s, e) ==
  /\ e.type = "received" /\ s # "broker"
  /\ waiting' = [waiting EXCEPT ![e.task] = "waited"]
  /\ UNCHANGED <<load, utilization, loadUpdated, stateQueue, rewardQueue>>

\* mutant: a failure leaves the load as it is
OnTaskEndSucceeded(e) ==
  /\ e.type \in {"succeeded", "failed"}
  /\ IF e.type = "succeeded" THEN UpdateWorkersState(WorkerClassOf(e.worker), -1)
     ELSE UNCHANGED <<load, utilization, loadUpdated>>
  /\ rewardQueue' = Append(rewardQueue, Event(e.type, e.task, WorkerClassOf(e.worker)))
  /\ UNCHANGED <<waiting, stateQueue>>

OnTaskEnd(e) ==
  /\ e.type \in {"succeeded", "failed"}
  /\ UpdateWorkersState(WorkerClassOf(e.worker), -1)
  /\ rewardQueue' = Append(rewardQueue, Event(e.type, e.task, WorkerClassOf(e.worker)))
  /\ UNCHANGED <<waiting, stateQueue>>

Consume(s) ==
  /\ wire[s] # <<>>
  /\ wire' = [wire EXCEPT ![s] = Tail(@)]
  /\ LET e == Head(wire[s]) IN
       OnTaskSent(e) \/ OnBrokerReceived(s, e) \/ OnWorkerReceived(s, e) \/ OnTaskEnd(e)
  /\ UNCHANGED <<brokerVars, workerVars, builderVars, store, previous, poolVars, agentVars>>

-----------------------------------------------------------------------------
(* The state thread of the trajectory builder. *)

\* mutant: without a look at the trajectories notified before
NotifyAgain(k) ==
  IF IsComplete(store[k])
  THEN /\ notified' = notified \union {k}
       /\ agentInbox' = Append(agentInbox, Event("completed", k, NoWorker))
  ELSE UNCHANGED <<notified, agentInbox>>

\* TrajectoryBuilder.notify_agent_of_trajectory_completed, with its check and its lock
NotifyIfComplete(k) ==
  IF IsComplete(store[k]) /\ k \notin notified
  THEN /\ notified' = notified \union {k}
       /\ agentInbox' = Append(agentInbox, Event("completed", k, NoWorker))
  ELSE UNCHANGED <<notified, agentInbox>>

\* mutant: the event is cleared before the wait
TakeCreationAndClear ==
  /\ stateThread = Idle /\ stateQueue # <<>>
  /\ stateThread' = [task |-> Head(stateQueue), at |-> "wait"]
  /\ stateQueue' = Tail(stateQueue) /\ loadUpdated' = FALSE
  /\ UNCHANGED <<brokerVars, workerVars, wire, load, utilization, waiting, rewardQueue, readings,
                 rewardThread, taskCompleted, notified, completions, store, previous, poolVars,
                 agentVars>>

TakeCreation ==
  /\ stateThread = Idle /\ stateQueue # <<>>
  /\ stateThread' = [task |-> Head(stateQueue), at |-> "wait"]
  /\ stateQueue' = Tail(stateQueue)
  /\ UNCHANGED <<brokerVars, workerVars, wire, consumerVars, rewardQueue, readings, rewardThread,
                 taskCompleted, notified, completions, store, previous, poolVars, agentVars>>

\* nothing updates the load before the first task, so the first wait always times out
GetState ==
  /\ stateThread.at = "wait"
  /\ loadUpdated \/ LoadTimeouts \/ readings = 0
  /\ readings' = readings + 1
  /\ stateThread' = [stateThread EXCEPT !.at = "save"]
  /\ UNCHANGED <<brokerVars, workerVars, wire, consumerVars, stateQueue, rewardQueue, rewardThread,
                 taskCompleted, notified, completions, store, previous, poolVars, agentVars>>

\* mutant: set instead of setnx
SaveTrajectoryOver ==
  /\ stateThread.at = "save"
  /\ loadUpdated' = FALSE
  /\ store' = [store EXCEPT ![stateThread.task] = [Missing EXCEPT !.state = readings]]
  /\ stateThread' = [stateThread EXCEPT !.at = "next"]
  /\ UNCHANGED <<brokerVars, workerVars, wire, load, utilization, waiting, stateQueue, rewardQueue,
                 readings, rewardThread, taskCompleted, notified, completions, previous, poolVars,
                 agentVars>>

\* forget the updates of the load, also one that came after the reading; save the trajectory with
\* setnx, which keeps the state of an earlier creation and whatever others have stored
SaveTrajectory ==
  /\ stateThread.at = "save"
  /\ loadUpdated' = FALSE
  /\ store' = [store EXCEPT ![stateThread.task].state = IF @ = 0 THEN readings ELSE @]
  /\ stateThread' = [stateThread EXCEPT !.at = "next"]
  /\ UNCHANGED <<brokerVars, workerVars, wire, load, utilization, waiting, stateQueue, rewardQueue,
                 readings, rewardThread, taskCompleted, notified, completions, previous, poolVars,
                 agentVars>>

\* get_previous_trajectory: there is none before the first trajectory of a run
HasPrevious == previous # NoTask

AddNextState ==
  /\ stateThread.at = "next"
  /\ store' = IF HasPrevious THEN [store EXCEPT ![previous].next = readings] ELSE store
  /\ stateThread' = [stateThread EXCEPT !.at = "check"]
  /\ UNCHANGED <<brokerVars, workerVars, wire, consumerVars, stateQueue, rewardQueue, readings,
                 rewardThread, taskCompleted, notified, completions, previous, poolVars, agentVars>>

\* mutant: the previous trajectory is set with setnx
KeepPrevious ==
  /\ stateThread.at = "check"
  /\ IF HasPrevious THEN NotifyIfComplete(previous) ELSE UNCHANGED <<notified, agentInbox>>
  /\ previous' = IF previous = NoTask THEN stateThread.task ELSE previous
  /\ stateThread' = Idle
  /\ UNCHANGED <<brokerVars, workerVars, wire, consumerVars, stateQueue, rewardQueue, readings,
                 rewardThread, taskCompleted, completions, store, poolVars, learned, history>>

\* mutant: the completion is left to the reward thread
SetPreviousUnchecked ==
  /\ stateThread.at = "check"
  /\ previous' = stateThread.task
  /\ stateThread' = Idle
  /\ UNCHANGED <<brokerVars, workerVars, wire, consumerVars, stateQueue, rewardQueue, readings,
                 rewardThread, taskCompleted, completions, notified, store, poolVars, agentVars>>

SetPrevious ==
  /\ stateThread.at = "check"
  /\ IF HasPrevious THEN NotifyIfComplete(previous) ELSE UNCHANGED <<notified, agentInbox>>
  /\ previous' = stateThread.task
  /\ stateThread' = Idle
  /\ UNCHANGED <<brokerVars, workerVars, wire, consumerVars, stateQueue, rewardQueue, readings,
                 rewardThread, taskCompleted, completions, store, poolVars, learned, history>>

-----------------------------------------------------------------------------
(* The reward thread of the trajectory builder. *)

\* the reward needs the waiting time; without it the thread logs the exception and goes on
ComputeReward ==
  /\ rewardThread = Idle /\ rewardQueue # <<>>
  /\ rewardQueue' = Tail(rewardQueue)
  /\ LET e == Head(rewardQueue) IN
       IF e.type = "succeeded" /\ waiting[e.task] # "waited"
       THEN UNCHANGED <<rewardThread, taskCompleted>>
       ELSE /\ taskCompleted' = taskCompleted + 1
            /\ rewardThread' = [task |-> e.task, at |-> "write",
                                reward |-> IF e.type = "failed" THEN NoWorker ELSE e.worker]
  /\ UNCHANGED <<brokerVars, workerVars, wire, consumerVars, stateQueue, stateThread, readings,
                 notified, completions, store, previous, poolVars, agentVars>>

UpdateTrajectoryReward ==
  /\ rewardThread.at = "write"
  /\ store' = [store EXCEPT ![rewardThread.task].reward = rewardThread.reward]
  /\ rewardThread' = [rewardThread EXCEPT !.at = "check"]
  /\ UNCHANGED <<brokerVars, workerVars, wire, consumerVars, stateQueue, rewardQueue, stateThread,
                 readings, taskCompleted, notified, completions, previous, poolVars, agentVars>>

\* mutant: the completion is left to the state thread
CheckNothing ==
  /\ rewardThread.at = "check"
  /\ rewardThread' = [rewardThread EXCEPT !.at = "count"]
  /\ UNCHANGED <<brokerVars, workerVars, wire, consumerVars, stateQueue, rewardQueue, stateThread,
                 readings, taskCompleted, completions, store, previous, poolVars, notified, agentVars>>

CheckTrajectoryReward ==
  /\ rewardThread.at = "check"
  /\ NotifyIfComplete(rewardThread.task)
  /\ rewardThread' = [rewardThread EXCEPT !.at = "count"]
  /\ UNCHANGED <<brokerVars, workerVars, wire, consumerVars, stateQueue, rewardQueue, stateThread,
                 readings, taskCompleted, completions, store, previous, poolVars, learned, history>>

\* mutant: the last task is not awaited
AllButOneExecuted == taskCompleted + 1 = NumTasks

AllExecuted == taskCompleted = NumTasks

AreAllTaskExecuted ==
  /\ rewardThread.at = "count"
  /\ rewardThread' = Idle
  /\ IF AllExecuted
     THEN /\ completions' = completions + 1
          /\ agentInbox' = Append(agentInbox, Event("executed", NoTask, NoWorker))
     ELSE UNCHANGED <<completions, agentInbox>>
  /\ UNCHANGED <<brokerVars, workerVars, wire, consumerVars, stateQueue, rewardQueue, stateThread,
                 readings, taskCompleted, notified, store, previous, poolVars, learned, history>>

-----------------------------------------------------------------------------
(* The consumer thread of the agent. *)

\* the agent learns; then its validation record must be there, or the handler ends here
ObserveReward ==
  /\ agentInbox # <<>> /\ Head(agentInbox).type = "completed"
  /\ agentInbox' = Tail(agentInbox)
  /\ LET k == Head(agentInbox).task IN
       /\ learned' = [learned EXCEPT ![k] = @ + 1]
       /\ entries' = IF k \in records /\ entries[k] # "none"
                     THEN [entries EXCEPT ![k] = "rewarded"] ELSE entries
  /\ UNCHANGED <<brokerVars, workerVars, wire, consumerVars, stateQueue, rewardQueue, builderVars,
                 store, previous, jobs, records, history>>

\* the end of the execution: the assignment entries, as they are, become the history of the run
SaveHistory ==
  /\ agentInbox # <<>> /\ Head(agentInbox).type = "executed"
  /\ agentInbox' = Tail(agentInbox)
  /\ history' = [saved |-> TRUE, rewards |-> {k \in Tasks : entries[k] = "rewarded"}]
  /\ UNCHANGED <<brokerVars, workerVars, wire, consumerVars, stateQueue, rewardQueue, builderVars,
                 store, previous, poolVars, learned>>

-----------------------------------------------------------------------------
StateThread == TakeCreation \/ GetState \/ SaveTrajectory \/ AddNextState \/ SetPrevious
RewardThread ==
  ComputeReward \/ UpdateTrajectoryReward \/ CheckTrajectoryReward \/ AreAllTaskExecuted
AgentConsumer == ObserveReward \/ SaveHistory
Broker == TaskBroker \/ AnnounceSent \/ \E i \in Actions : ChooseAction(i)

Next ==
  \/ FetchBrokerTask \/ Broker \/ RequestFails
  \/ \E i \in Actions : ActionNotAvailable(i)
  \/ \E job \in jobs : RunJob(job)
  \/ \E w \in Workers : ReceiveTask(w) \/ EndTask(w)
  \/ \E s \in Senders : Consume(s)
  \/ StateThread \/ RewardThread \/ AgentConsumer

\* every thread and process goes on, and celery delivers and executes
Fairness ==
  /\ WF_vars(FetchBrokerTask) /\ WF_vars(Broker)
  /\ WF_vars(\E job \in jobs : RunJob(job))
  /\ \A w \in Workers : WF_vars(ReceiveTask(w)) /\ WF_vars(EndTask(w))
  /\ \A s \in Senders : WF_vars(Consume(s))
  /\ WF_vars(StateThread) /\ WF_vars(RewardThread) /\ WF_vars(AgentConsumer)

Spec == Init /\ [][Next]_vars /\ Fairness

-----------------------------------------------------------------------------
(* Properties. *)

MaybeWorker == Workers \union {NoWorker}
MaybeAction == Actions \union {NoAction}
MaybeTask == Tasks \union {NoTask}

BrokerTypeOK ==
  /\ brokerQueue \in Seq(Tasks) /\ fetched \in Seq(Tasks)
  /\ broker \in [task : MaybeTask, at : Workers \union {"idle", "request"}]
  /\ broker.at # "idle" => broker.task \in Tasks
  /\ retries \in [Tasks -> 0..MaxRetries] /\ gaveUp \subseteq Tasks /\ failures \in 0..MaxFailures

EventNames ==
  {HostName("broker")} \union {HostName(w) : w \in Workers} \union {QueueName(w) : w \in Workers}
Events ==
  [type : {"received", "sent", "succeeded", "failed"}, task : Tasks, worker : EventNames]

\* the events a process sends: the broker's parent fetches, its child sends, a worker executes
EventsOf(s) ==
  CASE s = "broker" -> [type : {"received"}, task : Tasks, worker : {HostName("broker")}]
    [] s = "child" -> [type : {"sent"}, task : Tasks, worker : {QueueName(w) : w \in Workers}]
    [] OTHER -> [type : {"received", "succeeded", "failed"}, task : Tasks, worker : {HostName(s)}]

CeleryTypeOK ==
  /\ workerQueue \in [Workers -> Seq(Tasks)] /\ accepted \in [Workers -> Seq(Tasks)]
  /\ wire \in [Senders -> Seq(Events)]
  /\ \A s \in Senders : wire[s] \in Seq(EventsOf(s))

ConsumerTypeOK ==
  /\ load \in [Workers -> Int] /\ utilization \in [Workers -> Nat] /\ loadUpdated \in BOOLEAN
  /\ waiting \in [Tasks -> {"unknown", "started", "waited"}]
  /\ stateQueue \in Seq(Tasks)
  /\ rewardQueue \in Seq([type : {"succeeded", "failed"}, task : Tasks, worker : Workers])

BuilderTypeOK ==
  /\ stateThread \in [task : MaybeTask, at : {"idle", "wait", "save", "next", "check"}]
  /\ readings \in Nat /\ taskCompleted \in Nat /\ completions \in Nat
  /\ rewardThread \in {Idle} \union [task : Tasks, at : {"write", "check", "count"}, reward : MaybeWorker]
  /\ notified \subseteq Tasks /\ previous \in MaybeTask

StoreTypeOK ==
  store \in [Tasks -> [state : Nat, action : MaybeAction, next : Nat, reward : MaybeWorker]]

AgentTypeOK ==
  /\ jobs \subseteq [type : JobTypes, task : Tasks, action : Actions]
  /\ records \subseteq Tasks /\ entries \in [Tasks -> {"none", "new", "rewarded"}]
  /\ agentInbox \in Seq([type : {"completed"}, task : Tasks, worker : {NoWorker}]
                          \union [type : {"executed"}, task : {NoTask}, worker : {NoWorker}])
  /\ learned \in [Tasks -> Nat] /\ history \in [saved : BOOLEAN, rewards : SUBSET Tasks]

\* shapes of the variables, and the bounds of the retries
TypeOK ==
  BrokerTypeOK /\ CeleryTypeOK /\ ConsumerTypeOK /\ BuilderTypeOK /\ StoreTypeOK /\ AgentTypeOK

\* the next state of a trajectory is read after its own state; it is the very next reading, the
\* state of the trajectory created next, unless a broker task was retried: a retry is created
\* again, as the successor of the trajectory before it, itself included
ChainInOrder ==
  \A k \in Tasks :
    store[k].next # 0 =>
      /\ store[k].next > store[k].state
      /\ failures = 0 => store[k].next = store[k].state + 1

Sent(w) == Cardinality({i \in DOMAIN wire["child"] : wire["child"][i].worker = QueueName(w)})
Ended(w) == Cardinality({i \in DOMAIN wire[w] : wire[w][i].type # "received"})

\* the load the consumer keeps of a worker is what is in its queue and in the worker, once the
\* events under way are counted: sends it has not seen, ends it has not seen.  The utilization,
\* cut off at zero, agrees with it if no end overtakes its send
LoadAccounts ==
  \A w \in Workers :
    /\ load[w] + Sent(w) + (IF broker.at = w THEN 1 ELSE 0)
         = Len(workerQueue[w]) + Len(accepted[w]) + Ended(w)
    /\ SlowTasks => utilization[w] = load[w]

\* the reward of a complete trajectory is computed for the class of workers its action stands for,
\* by its label or else by its index: the index was written by the agent's pool, the class comes
\* from the host name in a celery event.  An action that stands for no class, of which the agent
\* takes note before the broker raises, does not outlast the retry in a complete trajectory
RewardOfTheAction ==
  \A k \in Tasks : IsComplete(store[k]) =>
    LET i == store[k].action
        label == ActionSpace[i]
    IN  \/ store[k].reward = label
        \/ label \notin Workers /\ i \in DOMAIN BrokerClasses /\ store[k].reward = BrokerClasses[i]
        \/ ~SlowTasks /\ label \notin Workers /\ i \notin DOMAIN BrokerClasses

\* the end of the execution is announced at most once, and then no task was given up and none is
\* queued, executed or waiting for its reward, in spite of retries; a task that ends before the
\* broker's child is done with sending it leaves the child that event to send
NothingLeftToExecute ==
  /\ completions <= 1
  /\ completions = 1 =>
       /\ gaveUp = {} /\ brokerQueue = <<>> /\ fetched = <<>> /\ rewardQueue = <<>>
       /\ broker.at # "request" /\ (SlowTasks => broker = Idle)
       /\ \A w \in Workers : workerQueue[w] = <<>> /\ accepted[w] = <<>> /\ wire[w] = <<>>

\* what the agent learns from has a validation record, written by the agent's thread pool when it
\* chose the action; without it the handler raises and the agent reports ERROR
LearnedHasRecord == \A k \in Tasks : learned[k] > 0 => k \in records

\* the history saved at the end of the execution has the reward of every trajectory that has
\* one, save the last created: it is saved when the event of the end arrives, whatever the state
\* thread has still to announce.  A retry at the end of a run, or an agent that decides without the
\* state, leaves that thread behind the last reward
HistoryIsComplete ==
  history.saved /\ failures = 0 /\ NeedState =>
    \A k \in Tasks : store[k].reward # NoWorker /\ k # previous => k \in history.rewards

\* a state, once saved, stays: a retry does not replace what the agent decided on
StateIsKept ==
  [][\A k \in Tasks : store[k].state # 0 => store'[k].state = store[k].state]_vars

\* the writes of the four threads and of the agent make up what TrajectoryLife describes
StoredParts(t) ==
  (IF t.state # 0 THEN {"state"} ELSE {}) \union (IF t.action # NoAction THEN {"action"} ELSE {})
    \union (IF t.next # 0 THEN {"next"} ELSE {}) \union (IF t.reward # NoWorker THEN {"reward"} ELSE {})

Life == INSTANCE TrajectoryLife WITH
          Trajectories <- Tasks, Parts <- {"state", "action", "next", "reward"},
          parts <- [k \in Tasks |-> StoredParts(store[k])], announced <- notified,
          learned <- learned

ImplementsLife == Life!Spec

\* the run ends and its history is saved.  Without retries the state thread needs its timeout for
\* the first task only: the sending of each task lets it read the state of a later one
RunEnds == <>history.saved

\* the agent learns from every trajectory that has a reward, save the last created
RewardsAreLearned ==
  <>[](\A k \in Tasks : store[k].reward # NoWorker => learned[k] = 1 \/ k = previous)

=============================================================================
