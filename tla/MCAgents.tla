------------------------------ MODULE MCAgents ------------------------------
(***************************************************************************)
(* A small instance of what a run is about: the list of the runs and their *)
(* configurations, the agent that learns in one, what it sees of the       *)
(* system, the database its trajectories go to, the statistics that are    *)
(* saved of it, and the traces it may replay.  The parts share no          *)
(* variable; a behaviour is one of one part, while the others keep the     *)
(* state they begin in.                                                    *)
(***************************************************************************)
EXTENDS RunConfigs, Learning, TrajectorySaver, StateFeatures, Statistics, TraceDataset, TLC

VARIABLE part

agentsVars == <<part, listVars, vars, savingVars, featureVars, statisticsVars, traceVars>>

-----------------------------------------------------------------------------
(* The list of runs: a search over two seeds, two entries of features and   *)
(* two agents, with a parameter of every sort; one with configured seeds;   *)
(* and one as generate_eval_config.py writes them, with an entry of each    *)
(* type for every model to load, a state twice, and an entry that does not  *)
(* name what another of its type does.                                      *)

Value(v) == "" :> v

MCGlobal == "load_model_config" :> (("load" :> FALSE) @@ ("path" :> 0)) @@ "train" :> Value(TRUE)

MCTemplate ==
  [features |-> [waiting_time |-> TRUE, expandable_pool |-> FALSE], state |-> "none", context |-> FALSE,
   type |-> "random", policy |-> "", taskSeed |-> 0, agentSeed |-> 0, global |-> MCGlobal,
   policies |-> [greedy |-> "epsilon" :> Value(1)],
   agents |-> "lin-ucb" :> ("delta" :> Value(2))
              @@ "double-dqn" :> ("gamma" :> Value(9) @@ "network_config" :> ("hidden_layers" :> 3))
              @@ "random" :> ("name" :> Value(0))]

OneOf(kind, name, param, choice, seed) ==
  [kind |-> kind, name |-> name, param |-> param, mode |-> "array", values |-> choice, seed |-> seed]
StepsOf(name, min, max, by) ==
  [kind |-> "agent", name |-> name, param |-> "", mode |-> "linear", min |-> min, max |-> max, step |-> by]
AgentEntry(type, policy, own, parameters) ==
  [type |-> type, policy |-> policy, policyParameters |-> "epsilon" :> Value(2), own |-> own,
   parameters |-> parameters]

\* the parameters generate_eval_config.py writes: the path of a model, and the seed of a baseline
NothingOwn == [name \in {} |-> Value(0)]
LoadedFrom(path, seed) == OneOf("agent_global", "path", "load_model_config", <<path>>, {seed})
Seeded(seed) == OneOf("agent_global", "random_seed", "", <<seed>>, {seed})

MCMultis ==
  {[auto |-> TRUE, n |-> 2, taskSeed |-> 0, agentSeeds |-> <<>>,
    features |-> <<[waiting_time |-> TRUE], [waiting_time |-> FALSE, expandable_pool |-> TRUE]>>,
    states |-> <<"load">>, global |-> MCGlobal,
    agents |-> <<AgentEntry("double-dqn", "greedy",
                            "gamma" :> Value(8) @@ "network_config" :> ("hidden_layers" :> 2),
                            <<OneOf("agent_parameter_param", "hidden_layers", "network_config", <<4, 5>>, {}),
                              OneOf("agent_global", "path", "load_model_config", <<1>>, {7}),
                              StepsOf("learning_rate", 1, 2, 3)>>),
                 AgentEntry("lin-ucb", "", "width" :> Value(1),
                            <<OneOf("agent", "delta", "", <<1, 3>>, {})>>)>>],
   [auto |-> FALSE, n |-> 0, taskSeed |-> 2, agentSeeds |-> <<3, 4>>,
    features |-> <<[waiting_time |-> FALSE]>>, states |-> <<"load">>, global |-> MCGlobal,
    agents |-> <<AgentEntry("random", "", "name" :> Value(1), <<>>),
                 AgentEntry("lin-ucb", "", "width" :> Value(1), <<StepsOf("delta", 1, 5, 2)>>)>>],
   [auto |-> FALSE, n |-> 1, taskSeed |-> 2, agentSeeds |-> <<3, 4>>,
    features |-> <<[waiting_time |-> FALSE], [waiting_time |-> FALSE]>>, states |-> <<"load", "load">>,
    global |-> MCGlobal,
    agents |-> <<AgentEntry("lin-ucb", "", "delta" :> Value(5), <<LoadedFrom(1, 7)>>),
                 AgentEntry("random", "", NothingOwn, <<Seeded(7)>>),
                 AgentEntry("lin-ucb", "", "delta" :> Value(5), <<LoadedFrom(2, 8)>>),
                 AgentEntry("random", "", NothingOwn, <<Seeded(8)>>),
                 AgentEntry("lin-ucb", "", "width" :> Value(1), <<>>)>>]}

ListIdle == ListInit /\ ~multi.auto /\ multi.n = 0

-----------------------------------------------------------------------------
(* The agent: every type, with and without training, a loaded model, a      *)
(* bootstrap, a bounded and an unbounded replay.                            *)

Scalar(p) == [type |-> "scalar", start |-> p, end |-> p, total |-> 1]
Decay(type, end) == [type |-> type, start |-> 100, end |-> end, total |-> 2]
AnAgent == [type |-> "random", train |-> TRUE, load |-> FALSE, bootstrap |-> 0, frequency |-> 2,
            batch |-> 1, update |-> 2, capacity |-> 2, epsilon |-> Scalar(10), multiplier |-> 1,
            limit |-> {}, saving |-> "final-model"]

MCAgentConfigs ==
  {[AnAgent EXCEPT !.bootstrap = 1],
   [AnAgent EXCEPT !.type = "lru", !.train = FALSE, !.bootstrap = 1, !.multiplier = 3],
   [AnAgent EXCEPT !.type = "e-pvm", !.saving = "disabled", !.train = FALSE],
   [AnAgent EXCEPT !.type = "lin-ucb", !.saving = "best-checkpoint"],
   [AnAgent EXCEPT !.type = "lin-ucb", !.load = TRUE],
   [AnAgent EXCEPT !.type = "lin-ucb", !.bootstrap = 2, !.train = FALSE],
   [AnAgent EXCEPT !.type = "dqn", !.epsilon = Decay("linear-decay", 0), !.multiplier = 3, !.limit = {-4}],
   [AnAgent EXCEPT !.type = "dqn", !.load = TRUE, !.train = FALSE],
   [AnAgent EXCEPT !.type = "double-dqn", !.epsilon = Decay("exp-decay", 2), !.batch = 2, !.bootstrap = 2,
                   !.capacity = -1],
   [AnAgent EXCEPT !.type = "double-dqn", !.load = TRUE]}

MCModel == [t |-> 1, attempts |-> [a \in 1..2 |-> a - 1], weights |-> 3]
MCRewards == {-2, -1}

AgentIdle == Init /\ config = [AnAgent EXCEPT !.bootstrap = 1]

-----------------------------------------------------------------------------
(* Two runs, whose trajectories are written by two and end with a batch and *)
(* a part of one.                                                           *)

MCRunEnds == <<3, 4>>

SavingIdle == SavingInit /\ enabled = [r \in Runs |-> FALSE] /\ ~connected

-----------------------------------------------------------------------------
(* What is seen: events with their copies; events while states are made;    *)
(* some of everything, with the google traces, normalised; and windows.     *)

View == [state |-> <<"task_class_type", "pool_load">>, context |-> <<"task_class_type", "pool_load", "action">>,
         expandable |-> FALSE, normalized |-> FALSE, traces |-> FALSE, reward |-> "waiting-time",
         market |-> FALSE, events |-> 0, copies |-> 0, states |-> 0, choices |-> 0]

MCViews ==
  {[View EXCEPT !.events = 2, !.copies = 2, !.choices = 1],
   [View EXCEPT !.events = 3, !.states = 2],
   [View EXCEPT !.events = 2, !.copies = 1, !.states = 1, !.choices = 1, !.expandable = TRUE,
                !.normalized = TRUE, !.traces = TRUE, !.reward = "execution-cost", !.market = TRUE],
   [View EXCEPT !.events = 3, !.traces = TRUE, !.reward = "execution-time"],
   [View EXCEPT !.state = <<"task_class_type", "task_frequency">>, !.context = <<"task_class_type", "action">>,
                !.states = 1, !.choices = 2],
   [View EXCEPT !.state = <<"task_frequency", "resource_usage">>, !.states = 1, !.choices = 1]}

MCWorkersOf == <<[replicas |-> 1, speed |-> 1, cost |-> 1], [replicas |-> 2, speed |-> 2, cost |-> 3]>>
MCUsage == <<2, 4>>
MCWaits == {-1, 2}

SeenIdle ==
  /\ FeaturesInit /\ features = [View EXCEPT !.events = 3, !.states = 2]
  /\ \A k \in SeenTasks : task[k].class = 1 /\ task[k].worker = 1

-----------------------------------------------------------------------------
(* What is saved of the runs: in one and two runs the pools fall behind the *)
(* consumers, and in a longer one they do not.                              *)

MCSchedules ==
  {[tasks |-> <<2>>, lag |-> TRUE], [tasks |-> <<1, 1>>, lag |-> TRUE], [tasks |-> <<2, 1>>, lag |-> FALSE]}

StatsIdle == StatisticsInit /\ schedule = [tasks |-> <<1, 1>>, lag |-> TRUE]

-----------------------------------------------------------------------------
(* The traces: two jobs of two names, one event of which is in two files,   *)
(* one that is updated after its end, and lines that are not accepted.      *)

CollectionLine(id, name, type, time, parent, machines, after) ==
  [id |-> id, name |-> name, type |-> type, time |-> time, parent |-> parent, machines |-> machines,
   after |-> after]
InstanceLine(id, type, isJob, cpus) == [id |-> id, type |-> type, time |-> 2, job |-> isJob, cpus |-> cpus]

MCFiles ==
  2 :> <<<<CollectionLine(1, "x", "SCHEDULE", 1, FALSE, "1", FALSE),
           CollectionLine(1, "x", "FINISH", 2, FALSE, "1", TRUE),
           CollectionLine(2, "y", "SCHEDULE", 2, FALSE, "1", FALSE),
           CollectionLine(1, "x", "UPDATE_RUNNING", 2, FALSE, "1", FALSE)>>,
         <<CollectionLine(2, "y", "SCHEDULE", 2, FALSE, "1", FALSE),
           CollectionLine(1, "x", "FINISH", 3, FALSE, "1", TRUE),
           CollectionLine(2, "y", "SUBMIT", 1, TRUE, "1", FALSE),
           CollectionLine(3, "x", "FINISH", 4, FALSE, "2", FALSE),
           CollectionLine(2, "y", "FINISH", 4, FALSE, "1", FALSE),
           CollectionLine(2, "y", "UPDATE_RUNNING", 5, FALSE, "1", FALSE)>>,
         <<CollectionLine(2, "y", "FINISH", 6, FALSE, "1", FALSE)>>>>
  @@ 3 :> <<<<InstanceLine(1, "SCHEDULE", TRUE, 1), InstanceLine(1, "SCHEDULE", TRUE, 2),
              InstanceLine(2, "SCHEDULE", FALSE, 1), InstanceLine(3, "SCHEDULE", TRUE, 1)>>,
            <<InstanceLine(1, "SCHEDULE", TRUE, 2), InstanceLine(1, "SCHEDULE", TRUE, 1),
              InstanceLine(2, "UPDATE_RUNNING", TRUE, 1), InstanceLine(2, "KILL", TRUE, 2)>>>>

MCPlans == <<{<<2, 4, 5>>, <<2>>}, {<<2, 4>>, <<3, 4, 6>>}>>

-----------------------------------------------------------------------------
AgentsInit ==
  \/ part = "list" /\ ListInit /\ AgentIdle /\ SavingIdle /\ SeenIdle /\ StatsIdle /\ TracesInit
  \/ part = "agent" /\ Init /\ ListIdle /\ SavingIdle /\ SeenIdle /\ StatsIdle /\ TracesInit
  \/ part = "saving" /\ SavingInit /\ ListIdle /\ AgentIdle /\ SeenIdle /\ StatsIdle /\ TracesInit
  \/ part = "seen" /\ FeaturesInit /\ ListIdle /\ AgentIdle /\ SavingIdle /\ StatsIdle /\ TracesInit
  \/ part = "stats" /\ StatisticsInit /\ ListIdle /\ AgentIdle /\ SavingIdle /\ SeenIdle /\ TracesInit
  \/ part = "traces" /\ TracesInit /\ ListIdle /\ AgentIdle /\ SavingIdle /\ SeenIdle /\ StatsIdle

OfList == part = "list" /\ UNCHANGED <<part, vars, savingVars, featureVars, statisticsVars, traceVars>>
OfAgent == part = "agent" /\ UNCHANGED <<part, listVars, savingVars, featureVars, statisticsVars, traceVars>>
OfSaving == part = "saving" /\ UNCHANGED <<part, listVars, vars, featureVars, statisticsVars, traceVars>>
OfSeen == part = "seen" /\ UNCHANGED <<part, listVars, vars, savingVars, statisticsVars, traceVars>>
OfStats == part = "stats" /\ UNCHANGED <<part, listVars, vars, savingVars, featureVars, traceVars>>
OfTraces == part = "traces" /\ UNCHANGED <<part, listVars, vars, savingVars, featureVars, statisticsVars>>

AgentsNext ==
  \/ OfList /\ ListNext
  \/ OfAgent /\ Next
  \/ OfSaving /\ SavingNext
  \/ OfSeen /\ FeaturesNext
  \/ OfStats /\ StatisticsNext
  \/ OfTraces /\ TracesNext

AgentsSpec == AgentsInit /\ [][AgentsNext]_agentsVars

-----------------------------------------------------------------------------
\* Every variable of the parts holds a value the code can give it; no reward is positive.
TypesOK ==
  /\ TypeOK /\ SavingTypeOK /\ StatisticsTypeOK /\ FeaturesTypeOK /\ NoRewardIsPositive
  /\ TracesTypeOK /\ ListTypeOK

=============================================================================
