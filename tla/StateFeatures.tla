--------------------------- MODULE StateFeatures ---------------------------
(***************************************************************************)
(* What an agent sees of the system, and how it is rewarded.  The consumer *)
(* of the collector counts the load of each class of workers and what of   *)
(* its capacity is in use, and has them copied to redis by a pool of       *)
(* threads; the thread that creates trajectories makes the state of a task *)
(* from the load, feature by feature, while the consumer goes on; the      *)
(* agent makes the contexts of a task from the copy in redis and pushes    *)
(* what it chose to the windows of the last choices; a completed task is   *)
(* given its reward.                                                       *)
(*                                                                         *)
(* Classes of tasks and workers are the indices they have in the           *)
(* configuration.  A share is a pair of its numerator and denominator.     *)
(***************************************************************************)
EXTENDS Integers, Sequences, SequencesExt, FiniteSets, FiniteSetsExt, Functions

CONSTANTS
  NumWorkerClasses, NumTaskClasses,
  NumSeen,        \* the number of tasks
  Views,          \* run configurations to look at, each with bounds on the events that are handled, the
                  \* copies that are stored, and the states and choices that are made
  WorkersOf,      \* class of workers -> replicas, speed factor and execution cost
  CapacityUsage,  \* class of tasks -> the capacity it uses of a worker
  WindowSize,     \* state_time_window
  Waits, Runtimes \* between the events of a task, by the clocks of two hosts: a wait may be negative

SeenTasks == 1..NumSeen
WorkerClasses == 1..NumWorkerClasses
TaskClasses == 1..NumTaskClasses
FeatureNames == {"task_class_type", "action", "pool_load", "resource_usage", "task_frequency"}

ASSUME FeaturesAssumption ==
  /\ NumWorkerClasses \in Nat \ {0} /\ NumTaskClasses \in Nat \ {0} /\ NumSeen \in Nat
  /\ WorkersOf \in [WorkerClasses -> [replicas : Nat \ {0}, speed : Nat \ {0}, cost : Nat]]
  /\ CapacityUsage \in [TaskClasses -> Nat]
  /\ WindowSize \in Nat \ {0} /\ Waits \subseteq Int /\ Runtimes \subseteq Nat
  /\ \A v \in Views :
       /\ v.state \in Seq(FeatureNames \ {"action"}) /\ v.state # <<>> /\ v.context \in Seq(FeatureNames)
       /\ v.states \in 0..NumSeen /\ v.choices \in 0..NumSeen
       /\ v.reward \in {"waiting-time", "execution-time", "execution-cost"}

VARIABLES
  features,                          \* the configuration of the run
  task,                              \* per task: its class, its worker and the events of it handled
  load, utilization,                 \* workers_load, workers_capacity_utilization
  values, update, total, disturbed,  \* state_features; the creation of a state: the update it has come to
  states, contexts,                  \* of each task
  queued, uploads,                   \* async_worker: copies of the load to make, and its two threads
  shared, overtaken,                 \* redis; whether what is there is older than what was there
  pushes, pipeline, window, crossed, \* entries under way, the commands of redis_pipeline, the lists
  entries,                           \* what was to be pushed, in the order of the pushes
  reward                             \* of each task, once it has one

uploadVars == <<queued, uploads, shared, overtaken>>
loadVars == <<load, utilization, uploadVars>>
stateVars == <<values, update, total, disturbed, states>>
windowVars == <<pushes, pipeline, window, crossed, entries>>
featureVars == <<features, task, loadVars, stateVars, contexts, windowVars, reward>>

-----------------------------------------------------------------------------
(* Features.                                                               *)

Dummy(f) == f \in {"task_class_type", "action"}
ClassesOf(f) == IF f \in {"task_class_type", "task_frequency"} THEN NumTaskClasses ELSE NumWorkerClasses

\* mutant: the action of an expandable pool takes no more room than another one
PossibleValuesOnce(f, c) == ClassesOf(f)

PossibleValues(f, c) == ClassesOf(f) * (IF f = "action" /\ c.expandable THEN 2 ELSE 1)

\* what config_helper tells the agents to expect
ConfiguredSize(names, c) ==
  SumFunction([i \in DOMAIN names |->
                 ClassesOf(names[i]) * (IF names[i] = "action" /\ c.expandable THEN 2 ELSE 1)])

\* a dummy feature has one slot for its value, any other one slot per class
Slots == {"task_class_type", "action"} \X {0}
         \union {"pool_load", "resource_usage"} \X WorkerClasses
         \union {"task_frequency"} \X TaskClasses

Zero == <<0, 1>>

\* set_value
SetValue(vals, f, class, value) == [vals EXCEPT ![<<f, class>>] = value]

\* a dummy feature is encoded: a one at its value among the possible ones
Encoded(value, n) == [j \in 1..n |-> IF value = <<j, 1>> THEN <<1, 1>> ELSE Zero]

\* as_array, prepare_features_vector: the blocks of the features, in the order of the configuration;
\* the code lays them one after the other
Vector(names, vals, c) ==
  [i \in DOMAIN names |->
     LET f == names[i]
     IN IF Dummy(f) THEN Encoded(vals[<<f, 0>>], PossibleValues(f, c))
        ELSE [j \in 1..ClassesOf(f) |-> vals[<<f, j>>]]]

SizeOf(vector) == SumFunction([i \in DOMAIN vector |-> Len(vector[i])])

-----------------------------------------------------------------------------
Keys == {"load", "utilization"}
Idle == [key |-> "none", of |-> [w \in WorkerClasses |-> 0], at |-> 0]
WindowKeys == {"resource_usage", "task_frequency"}
NoUpdate == [feature |-> 0, class |-> 0]
NoCommands == [k \in WindowKeys |-> <<>>]

\* prepare_run of the collector and the agent: the load is set to zero and copied, the windows removed
FeaturesInit ==
  /\ features \in Views
  /\ task \in [SeenTasks -> [class : TaskClasses, worker : WorkerClasses, handled : {<<>>}]]
  /\ load = Idle.of /\ utilization = Idle.of
  /\ values = [s \in Slots |-> Zero] /\ update = NoUpdate /\ total = 0 /\ disturbed = FALSE
  /\ states = <<>> /\ contexts = <<>>
  /\ queued = 0 /\ uploads = [t \in 1..2 |-> Idle]
  /\ shared = [key \in Keys |-> [of |-> Idle.of, at |-> 0]] /\ overtaken = [key \in Keys |-> FALSE]
  /\ pushes = {} /\ pipeline = NoCommands /\ window = [k \in WindowKeys |-> <<>>] /\ crossed = FALSE
  /\ entries = [k \in WindowKeys |-> <<>>]
  /\ reward = [k \in SeenTasks |-> {}]

\* how many events have been handled; a copy remembers how many had when it was dumped
EventsHandled == SumFunction([k \in SeenTasks |-> Len(task[k].handled)])

AtLeast0(n) == IF n < 0 THEN 0 ELSE n

\* in the mode of the google traces a faster class is used less by a task
Usage(k) ==
  LET u == CapacityUsage[task[k].class]
  IN IF features.traces THEN u \div WorkersOf[task[k].worker].speed ELSE u

\* the consumer: one more or one less task at a class; the copy is left to a pool of two threads
UpdateWorkersState(k, n) ==
  LET w == task[k].worker
  IN /\ load' = [load EXCEPT ![w] = @ + n]
     /\ utilization' = [utilization EXCEPT ![w] = AtLeast0(@ + n * Usage(k))]
     /\ queued' = queued + 1
     /\ disturbed' = TRUE

\* an event of a task is handled; its end may be handled before the sending, as its events come from
\* two hosts
OnTaskSent(k) ==
  /\ "sent" \notin ToSet(task[k].handled) /\ EventsHandled < features.events
  /\ task' = [task EXCEPT ![k].handled = Append(@, "sent")]
  /\ UpdateWorkersState(k, 1)
  /\ UNCHANGED <<features, uploads, shared, overtaken, values, update, total, states, contexts, windowVars,
                 reward>>

Waited(wait) == IF wait < 0 THEN 0 ELSE wait

\* the three reward functions
RewardOf(k, wait, runtime) ==
  CASE features.reward = "waiting-time" -> - Waited(wait)
    [] features.reward = "execution-time" -> - runtime
    [] features.reward = "execution-cost" ->
         LET w == WorkersOf[task[k].worker]
         IN - (runtime * w.cost * (IF features.market THEN w.replicas ELSE 1))

\* a failed task gets no reward
OnTaskEnd(k) ==
  /\ "ended" \notin ToSet(task[k].handled) /\ EventsHandled < features.events
  /\ task' = [task EXCEPT ![k].handled = Append(@, "ended")]
  /\ UpdateWorkersState(k, -1)
  /\ \/ reward' = reward
     \/ \E wait \in Waits, runtime \in Runtimes :
          reward' = [reward EXCEPT ![k] = {RewardOf(k, wait, runtime)}]
  /\ UNCHANGED <<features, uploads, shared, overtaken, values, update, total, states, contexts, windowVars>>

\* upload_pool_load_on_shared_memory: the load is dumped and stored, then the utilization.
Dump(t, key) ==
  /\ \/ key = "load" /\ uploads[t].key = "none" /\ queued > 0 /\ queued' = queued - 1
        /\ EventsHandled - queued < features.copies
     \/ key = "utilization" /\ uploads[t].key = "next" /\ queued' = queued
  /\ uploads' = [uploads EXCEPT ![t] =
       [key |-> key, of |-> IF key = "load" THEN load ELSE utilization, at |-> EventsHandled]]
  /\ UNCHANGED <<features, task, load, utilization, shared, overtaken, stateVars, contexts, windowVars,
                 reward>>

Store(t) ==
  LET key == uploads[t].key
  IN /\ key \in Keys
     /\ shared' = [shared EXCEPT ![key] = [of |-> uploads[t].of, at |-> uploads[t].at]]
     /\ overtaken' = [overtaken EXCEPT ![key] = uploads[t].at < shared[key].at]
     /\ uploads' = [uploads EXCEPT ![t] =
                      IF key = "load" THEN [Idle EXCEPT !.key = "next"] ELSE Idle]
  /\ UNCHANGED <<features, task, load, utilization, queued, stateVars, contexts, windowVars, reward>>

-----------------------------------------------------------------------------
(* The creation of a state.                                                *)

Share(n, sum) == IF sum > 0 THEN <<n, sum>> ELSE Zero
Frequency(key, class) ==
  <<Cardinality({i \in DOMAIN window[key] : window[key][i] = class}),
    IF window[key] = <<>> THEN 1 ELSE Len(window[key])>>

\* a message of the state queue is taken
BeginState ==
  /\ update = NoUpdate /\ Len(states) < features.states
  /\ update' = [feature |-> 1, class |-> 0]
  /\ disturbed' = FALSE
  /\ UNCHANGED <<features, task, loadVars, values, total, states, contexts, windowVars, reward>>

\* the share of the tasks, or the tasks per replica
PoolLoad(w, sum) ==
  IF features.normalized THEN <<load[w], WorkersOf[w].replicas>> ELSE Share(load[w], sum)

Updated == features.state[update.feature]

\* the load of all classes is added up, and the classes are updated one by one after that
AddUpLoad ==
  /\ update # NoUpdate /\ Updated = "pool_load" /\ update.class = 0
  /\ total' = IF features.normalized THEN total ELSE SumFunction(load)
  /\ disturbed' = FALSE
  /\ update' = [update EXCEPT !.class = 1]
  /\ UNCHANGED <<features, task, loadVars, values, states, contexts, windowVars, reward>>

UpdateFeature ==
  LET f == Updated
      w == update.class
      k == Len(states) + 1
  IN /\ update # NoUpdate /\ ~(f = "pool_load" /\ w = 0)
     /\ values' =
          CASE f = "task_class_type" -> SetValue(values, f, 0, <<task[k].class, 1>>)
            [] f = "pool_load" -> SetValue(values, f, w, PoolLoad(w, total))
            [] OTHER -> [s \in Slots |-> IF s[1] = f THEN Frequency(f, s[2]) ELSE values[s]]
     /\ \/ /\ f = "pool_load" /\ w < NumWorkerClasses
           /\ update' = [update EXCEPT !.class = w + 1] /\ states' = states
        \/ /\ f # "pool_load" \/ w = NumWorkerClasses
           /\ IF update.feature < Len(features.state)
              THEN update' = [feature |-> update.feature + 1, class |-> 0] /\ states' = states
              ELSE /\ update' = NoUpdate
                   /\ states' = Append(states, [vector |-> Vector(features.state, values', features),
                                                load |-> load, clean |-> ~disturbed])
  /\ UNCHANGED <<features, task, loadVars, total, disturbed, contexts, windowVars, reward>>

-----------------------------------------------------------------------------
(* The agent.                                                              *)

ContextValues(k, a) ==
  LET read == shared["load"].of
  IN [s \in Slots |->
        CASE s[1] = "task_class_type" -> <<task[k].class, 1>>
          [] s[1] = "action" -> <<a, 1>>
          [] s[1] = "pool_load" ->
               IF features.normalized THEN <<read[s[2]], WorkersOf[s[2]].replicas>>
               ELSE Share(read[s[2]], SumFunction(read))
          [] OTHER -> Zero]

\* a choice: the context of every action, and the entries of the windows are left to the pool
Choose ==
  LET k == Len(contexts) + 1
      keys == {f \in WindowKeys : f \in ToSet(features.state)}
  IN /\ k <= features.choices
     /\ contexts' = Append(contexts, [a \in WorkerClasses |->
                                        Vector(features.context, ContextValues(k, a), features)])
     /\ pushes' = pushes \union
          {[id |-> k, key |-> f, phase |-> "waiting",
            value |-> IF f = "resource_usage" THEN task[k].worker ELSE task[k].class] : f \in keys}
  /\ UNCHANGED <<features, task, loadVars, stateVars, pipeline, window, crossed, entries, reward>>

\* push: the two commands go to the pipeline that all threads share
AddCommands(p) ==
  /\ p.phase = "waiting"
  /\ pipeline' = [pipeline EXCEPT ![p.key] = Append(@, p.value)]
  /\ pushes' = (pushes \ {p}) \union {[p EXCEPT !.phase = "added"]}
  /\ entries' = [entries EXCEPT ![p.key] = Append(@, p.value)]
  /\ crossed' = (crossed \/ \E q \in pushes : q.phase \in {"added", "sent"})
  /\ UNCHANGED <<features, task, loadVars, stateVars, contexts, window, reward>>

\* mutant: the list is trimmed to its oldest entries
TrimmedToOldest(list) == SubSeq(list, 1, IF Len(list) < WindowSize THEN Len(list) ELSE WindowSize)

Trimmed(list) == SubSeq(list, IF Len(list) > WindowSize THEN Len(list) - WindowSize + 1 ELSE 1, Len(list))

\* execute: everything in the pipeline is sent as one transaction. A list that is trimmed after every
\* one of its entries is the list that is trimmed after the last.
Execute(p) ==
  /\ p.phase = "added"
  /\ window' = [k \in WindowKeys |-> Trimmed(window[k] \o pipeline[k])]
  /\ pushes' = (pushes \ {p}) \union {[p EXCEPT !.phase = "sent"]}
  /\ UNCHANGED <<features, task, loadVars, stateVars, contexts, pipeline, crossed, entries, reward>>

\* the pipeline is emptied once the answer has come, of what another thread has added too
ResetPipeline(p) ==
  /\ p.phase = "sent"
  /\ pipeline' = NoCommands /\ pushes' = pushes \ {p}
  /\ UNCHANGED <<features, task, loadVars, stateVars, contexts, window, crossed, entries, reward>>

FeaturesNext ==
  \/ \E k \in SeenTasks : OnTaskSent(k) \/ OnTaskEnd(k)
  \/ \E t \in 1..2 : Store(t) \/ \E key \in Keys : Dump(t, key)
  \/ BeginState \/ AddUpLoad \/ UpdateFeature
  \/ Choose
  \/ \E p \in pushes : AddCommands(p) \/ Execute(p) \/ ResetPipeline(p)

FeaturesSpec == FeaturesInit /\ [][FeaturesNext]_featureVars

-----------------------------------------------------------------------------
(* Correctness.                                                            *)

\* Every vector has the size the networks and matrices of the agents are made for (config_helper
\* counts it apart from Features), and every number in it is a share: types.
FeaturesTypeOK ==
  /\ load \in [WorkerClasses -> Int] /\ utilization \in [WorkerClasses -> Nat]
  /\ values \in [Slots -> Int \X (Nat \ {0})]
  /\ \A s \in Range(states) : SizeOf(s.vector) = ConfiguredSize(features.state, features)
  /\ \A c \in Range(contexts), a \in WorkerClasses :
       SizeOf(c[a]) = ConfiguredSize(features.context, features)
  /\ \A k \in WindowKeys : Len(window[k]) <= WindowSize

\* A state that no event has disturbed shows the load at that time: shares that add up to one, or zero
\* for every class when there is no task in the system, never what is left of an earlier state.
PoolLoadAddsUp ==
  \A s \in Range(states) : \A i \in DOMAIN features.state :
    LET shown == s.vector[i]
    IN s.clean /\ features.state[i] = "pool_load" =>
         IF features.normalized THEN \A w \in WorkerClasses : shown[w] = <<s.load[w], WorkersOf[w].replicas>>
         ELSE \/ SumFunction(s.load) <= 0 /\ Range(shown) = {Zero}
              \/ SumFunction([w \in WorkerClasses |-> shown[w][1]]) = SumFunction(s.load)
                 /\ \A w \in WorkerClasses : shown[w] = <<s.load[w], SumFunction(s.load)>>

\* What a class of workers has in use is what its tasks use that are neither waiting to be sent nor
\* over, each of which gives back what it took; unless the end of one was handled before its sending.
UtilizationDrains ==
  \A w \in WorkerClasses :
    (\A k \in SeenTasks : task[k].worker = w /\ task[k].handled # <<>> => task[k].handled[1] = "sent") =>
      utilization[w] = SumFunction([k \in SeenTasks |->
                         IF task[k].worker = w /\ task[k].handled = <<"sent">> THEN Usage(k) ELSE 0])

\* Once every copy is stored the agent reads the load and the utilization the collector has, unless an
\* older copy has been stored after a newer one by the other thread.
SharedLoadFollows ==
  queued = 0 /\ uploads[1] = Idle /\ uploads[2] = Idle =>
    /\ overtaken["load"] \/ shared["load"].of = load
    /\ overtaken["utilization"] \/ shared["utilization"].of = utilization

\* The window holds the last entries that were pushed, in their order, unless two threads of the pool
\* have used the pipeline at the same time.
WindowOfTheLast ==
  pushes = {} /\ ~crossed =>
    \A k \in WindowKeys :
      /\ IsSuffix(window[k], entries[k])
      /\ Len(window[k]) < WindowSize => window[k] = entries[k]

\* No reward is positive, whatever the clocks of the hosts: the agents multiply and compare rewards as
\* if they were all negative.
NoRewardIsPositive == \A k \in SeenTasks : \A r \in reward[k] : r <= 0

\* What an agent sees is true of the system: the shares of the load add up, what is in use drains, the
\* copy in redis follows and a window holds the last choices, unless two threads have crossed.
FeaturesAreTrue == PoolLoadAddsUp /\ UtilizationDrains /\ SharedLoadFollows /\ WindowOfTheLast
=============================================================================
