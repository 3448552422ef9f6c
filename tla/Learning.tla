------------------------------ MODULE Learning ------------------------------
(***************************************************************************)
(* The agent within one run: it chooses an action per task, by the policy  *)
(* of its type, learns from the rewards in whatever order they come,       *)
(* leaves checkpoints of itself on the way and saves a model at the end.   *)
(*                                                                         *)
(* Choices are made by the thread of the REST server, one request at a     *)
(* time; records and checkpoints are written by a pool of threads; rewards *)
(* are observed by the consumer of the system's events.  The k-th choice   *)
(* is for task k.  Of the networks only the version of the weights is      *)
(* kept: the number of optimisation steps they have been through.          *)
(*                                                                         *)
(* A reward may come late, after the end of the run, or not at all: the    *)
(* last task has no next state unless its preparation is repeated, and a   *)
(* task that failed has no reward.  Which ones those are is left open.     *)
(*                                                                         *)
(* Two assumptions on timing, both of which the threads do not enforce: a  *)
(* record is written before the reward of its task is observed, and the    *)
(* run ends when no thread of the pool is busy.                            *)
(***************************************************************************)
EXTENDS Integers, Sequences, FiniteSets, SequencesExt

CONSTANTS
  NumActions,    \* available classes of workers, by their index
  NumTasks,      \* tasks an action is chosen for in the run, those of the bootstrap included
  Configs,       \* the configurations of a run and its agent to look at
  LoadedModel,   \* what a model that is loaded holds
  Rewards        \* what a trajectory may be rewarded with

ASSUME LearningAssumption ==
  /\ NumActions \in Nat \ {0} /\ NumTasks \in Nat /\ Rewards \subseteq Int
  /\ \A c \in Configs :
       /\ c.frequency \in Nat \ {0} /\ c.update \in Nat \ {0} /\ c.batch \in Nat
       /\ c.capacity \in (Nat \ {0}) \union {-1}
       /\ c.multiplier \in Int /\ c.limit \subseteq Int
  /\ LoadedModel \in [t : Nat, attempts : [1..NumActions -> Nat], weights : Nat]

Actions == 1..NumActions
Tasks == 1..NumTasks
Zeros == [a \in Actions |-> 0]
NoReward == 1    \* no reward is positive
NoRecord == [step |-> 0, reward |-> NoReward]

VARIABLES
  config,                      \* run_config, and the parameters of the agent
  t, nObs, attempts, table,    \* BaseAgent, and the table of LRUAgent
  choices,                     \* how each task got its action
  replay,                      \* ExperienceReplay.memory
  weights, target, lesson,     \* the two networks, and what was last learned from
  pool,                        \* jobs of agent_async_thread_pool
  records, observed,           \* redis: a record per task; and the rewards seen
  checkpoints, saved           \* minio: checkpoints; what the end of the run saves

agentVars == <<t, nObs, attempts, table>>
netVars == <<replay, weights, target, lesson>>
vars == <<config, agentVars, choices, netVars, pool, records, observed, checkpoints, saved>>

DQNTypes == {"dqn", "double-dqn"}

NewModel == [t |-> 0, attempts |-> Zeros, weights |-> 0]

\* the model the configuration names, if it names one
AgentModel(c) == IF c.load THEN LoadedModel ELSE NewModel

\* only these constructors load the model they are given
Loads(c) == c.load /\ c.type \in DQNTypes \union {"lin-ucb"}

\* LRUAgent is always in training
Train == config.train \/ config.type = "lru"

Init ==
  /\ config \in Configs
  /\ LET model == IF Loads(config) THEN AgentModel(config) ELSE NewModel
     IN /\ t = model.t /\ nObs = model.t /\ attempts = model.attempts
        /\ weights = model.weights /\ target = model.weights
  /\ table = Zeros /\ choices = <<>> /\ replay = <<>>
  /\ lesson = [chooser |-> 0, evaluator |-> 0]
  /\ pool = {} /\ records = [k \in Tasks |-> NoRecord] /\ observed = <<>>
  /\ checkpoints = {} /\ saved = <<>>

-----------------------------------------------------------------------------
(* Choosing an action. *)

\* a random action, whatever the policy, until enough rewards have been seen
Bootstrapping == nObs < config.bootstrap

\* epsilon in percent; an exponential decay is taken as being half way once it has begun
Epsilon(step) ==
  LET e == config.epsilon
  IN CASE e.type = "exp-decay" -> IF step = 0 THEN e.start ELSE (e.start + e.end) \div 2
       [] e.type = "linear-decay" ->
            LET rest == ((e.start - e.end) * (e.total - step)) \div e.total
            IN e.end + (IF rest > 0 THEN rest ELSE 0)
       [] OTHER -> e.start

\* the reading of the workers' utilization decides for E-PVM: the first of the cheapest
Cheapest(utilization) ==
  CHOOSE a \in Actions :
    /\ \A b \in Actions : utilization[a] <= utilization[b]
    /\ \A b \in 1..a-1 : utilization[a] < utilization[b]

Untried == {a \in Actions : attempts[a] = 0}
LongestUnused == {a \in Actions : \A b \in Actions : table[b] <= table[a]}

\* after the bootstrap the policy decides
PolicyCandidates(how) ==
  CASE how = "random" -> IF config.type = "random" THEN Actions ELSE {}
    [] how = "explored" ->
         IF config.type \in DQNTypes /\ Train /\ Epsilon(t) > 0 THEN Actions ELSE {}
    [] how = "greedy" ->
         IF config.type \in DQNTypes /\ (~Train \/ Epsilon(t) < 100) THEN Actions ELSE {}
    [] how = "untried" ->
         IF config.type = "lin-ucb" /\ Untried # {}
         THEN {CHOOSE a \in Untried : \A b \in Untried : a <= b} ELSE {}
    [] how = "confident" -> IF config.type = "lin-ucb" /\ Untried = {} THEN Actions ELSE {}

\* the actions an agent may take now, by the reason for which it takes them
Candidates(how) ==
  CASE how = "bootstrap" ->
         IF Bootstrapping /\ config.type \notin {"lru", "e-pvm"} THEN Actions ELSE {}
    [] how = "unused" -> IF config.type = "lru" THEN LongestUnused ELSE {}
    [] how = "cheapest" ->
         IF config.type = "e-pvm" THEN {Cheapest(u) : u \in [Actions -> 0..1]} ELSE {}
    [] OTHER -> IF Bootstrapping THEN {} ELSE PolicyCandidates(how)

Reasons == {"bootstrap", "unused", "cheapest", "random", "explored", "greedy", "untried", "confident"}

UnusedSince(a) == [b \in Actions |-> IF b = a THEN 0 ELSE table[b] + 1]

Checkpointed(step) == Train /\ step % config.frequency = 0

\* a request of the broker: the choice, and what is left to the pool, all with the new time step
ChooseAction ==
  /\ Len(choices) < NumTasks /\ saved = <<>>
  /\ \E how \in Reasons : \E a \in Candidates(how) :
       /\ choices' = Append(choices, [action |-> a, how |-> how])
       /\ attempts' = [attempts EXCEPT ![a] = @ + 1]
       /\ table' = IF config.type = "lru" THEN UnusedSince(a) ELSE table
  /\ t' = t + 1
  /\ pool' = pool \union {[type |-> "record", task |-> Len(choices) + 1, step |-> t + 1]}
                  \union (IF Checkpointed(t + 1)
                          THEN {[type |-> "checkpoint", task |-> 0, step |-> t + 1]} ELSE {})
  /\ UNCHANGED <<config, nObs, netVars, records, observed, checkpoints, saved>>

CreateRecord ==
  /\ \E job \in pool :
       /\ job.type = "record"
       /\ pool' = pool \ {job}
       /\ records' = [records EXCEPT ![job.task] = [step |-> job.step, reward |-> NoReward]]
  /\ UNCHANGED <<config, agentVars, choices, netVars, observed, checkpoints, saved>>

\* a checkpoint holds the agent of the moment it is written, under the step it was asked for;
\* its time step is the number of rewards it has seen: the tasks without one are to be done again
Content == [t |-> nObs, attempts |-> attempts, weights |-> weights]

SaveCheckpoint ==
  /\ \E job \in pool :
       /\ job.type = "checkpoint"
       /\ pool' = pool \ {job}
       /\ checkpoints' = checkpoints \union {[step |-> job.step, content |-> Content]}
  /\ UNCHANGED <<config, agentVars, choices, netVars, records, observed, saved>>

-----------------------------------------------------------------------------
(* Learning from a reward. *)

MultiplyReward(reward) ==
  LET value == reward * config.multiplier
  IN IF config.type = "lru" THEN reward
     ELSE IF config.limit # {} /\ \E l \in config.limit : l < value
          THEN CHOOSE l \in config.limit : TRUE ELSE value

\* mutant: the count of rewards is forgotten when the network is optimised
OptimizeUncounted ==
  IF Len(replay) < config.batch
  THEN nObs' = nObs + 1 /\ UNCHANGED <<weights, target, lesson>>
  ELSE /\ weights' = weights + 1
       /\ target' = IF nObs % config.update = 0 THEN weights + 1 ELSE target
       /\ lesson' = [chooser |-> IF config.type = "dqn" THEN target ELSE weights, evaluator |-> target]
       /\ UNCHANGED nObs

\* one step on a batch, when there is enough experience for one; the network that is learned has
\* its weights copied to the target network once in 'update' rewards
Optimize ==
  /\ nObs' = nObs + 1
  /\ IF Len(replay) < config.batch
     THEN UNCHANGED <<weights, target, lesson>>
     ELSE /\ weights' = weights + 1
          /\ target' = IF nObs % config.update = 0 THEN weights + 1 ELSE target
          /\ lesson' = [chooser |-> IF config.type = "dqn" THEN target ELSE weights,
                        evaluator |-> target]

CountReward == nObs' = nObs + 1 /\ UNCHANGED <<weights, target, lesson>>

\* LinUCB and the networks see nothing when they are evaluated, not even the count
ObserveDelayedAction ==
  CASE config.type \in DQNTypes /\ Train -> Optimize
    [] config.type \in DQNTypes \union {"lin-ucb"} /\ ~Train ->
         UNCHANGED <<nObs, weights, target, lesson>>
    [] OTHER -> CountReward

\* the index to be replaced: the agents configure none, and the default is a random one
Replaced == DOMAIN replay

\* the buffers the replay may be after an entry
Pushed(k) ==
  IF Len(replay) < config.capacity \/ config.capacity = -1
  THEN {Append(replay, k)}
  ELSE {[replay EXCEPT ![i] = k] : i \in Replaced}

PushExperience(k) == replay' \in (IF config.type \in DQNTypes THEN Pushed(k) ELSE {replay})

UpdateRecord(k, r) == records' = IF Train THEN [records EXCEPT ![k].reward = MultiplyReward(r)] ELSE records

\* observe_reward: learn first, then remember the experience, then note the reward; also after the
\* end of the run, as long as no other is prepared
ObserveReward ==
  /\ \E k \in DOMAIN choices, r \in Rewards :
       /\ k \notin Range(observed) /\ records[k] # NoRecord
       /\ ObserveDelayedAction
       /\ PushExperience(k) /\ UpdateRecord(k, r)
       /\ observed' = Append(observed, k)
  /\ UNCHANGED <<config, t, attempts, table, choices, pool, checkpoints, saved>>

-----------------------------------------------------------------------------
(* The end of the run. *)

\* mutant: the records are taken in the order in which the store lists them
RecordsListed ==
  LET written == {records[k] : k \in Tasks} \ {NoRecord}
  IN [i \in 1..Cardinality(written) |->
        CHOOSE r \in written : Cardinality({s \in written : s.step >= r.step}) = i]

RecordsInOrder ==
  LET written == {records[k] : k \in Tasks} \ {NoRecord}
  IN [i \in 1..Cardinality(written) |->
        CHOOSE r \in written : Cardinality({s \in written : s.step <= r.step}) = i]

EmptyInterval == [i \in 1..config.frequency |-> 0]

\* the intervals the rewards fall into, each up to a checkpoint, and the one with the greatest
\* mean; as they have one length their sums compare as their means do
Validation ==
  LET entries == RecordsInOrder
      Put(current, i, reward) == IF reward = NoReward THEN current ELSE [current EXCEPT ![i] = reward]
      Loop[n \in 0..Len(entries)] ==
        IF n = 0 THEN [data |-> <<>>, current |-> EmptyInterval, i |-> 1, max |-> 0, best |-> 1]
        ELSE LET before == Loop[n - 1]
                 now == Put(before.current, before.i, entries[n].reward)
             IN IF entries[n].step % config.frequency = 0
                THEN [data |-> Append(before.data, now), current |-> EmptyInterval, i |-> 1,
                      max |-> IF SumFunction(now) > before.max THEN SumFunction(now) ELSE before.max,
                      best |-> IF SumFunction(now) > before.max THEN Len(before.data) + 1
                               ELSE before.best]
                ELSE [before EXCEPT !.current = now, !.i = @ + 1]
  IN Loop[Len(entries)]

\* the number of digits of n, for the steps of a run here
Digits(n) == CHOOSE d \in 1..4 : n < 10 ^ d /\ \A e \in 1..d-1 : n >= 10 ^ e

\* the store lists names in their order as strings, 10000 before 5000
ListedBefore(m, n) ==
  LET width == Digits(m) + Digits(n)
      Padded(x) == x * 10 ^ (width - Digits(x))
  IN Padded(m) < Padded(n) \/ (Padded(m) = Padded(n) /\ m < n)

ListCheckpoints == SetToSortSeq(checkpoints, LAMBDA c, d : ListedBefore(c.step, d.step))

SaveModelRun(best) ==
  IF ~Train \/ config.saving = "disabled" THEN <<>>
  ELSE IF config.saving = "final-model" THEN <<[step |-> t, content |-> Content]>>
  ELSE IF best \in DOMAIN ListCheckpoints THEN <<ListCheckpoints[best]>>
  ELSE <<>>   \* no checkpoint yet: an IndexError

\* EXECUTION_COMPLETED: every task has ended, whatever was observed of it; 'seen' is kept for the
\* properties only
EndRun ==
  /\ Len(choices) = NumTasks /\ pool = {} /\ saved = <<>>
  /\ saved' = <<[attempts |-> attempts, seen |-> Range(observed), data |-> Validation.data, best |-> Validation.best,
                 model |-> SaveModelRun(Validation.best)]>>
  /\ UNCHANGED <<config, agentVars, choices, netVars, pool, records, observed, checkpoints>>

Next == ChooseAction \/ CreateRecord \/ SaveCheckpoint \/ ObserveReward \/ EndRun

Spec == Init /\ [][Next]_vars

-----------------------------------------------------------------------------
(* Properties. *)

\* Types; every choice has left one record to write or written, and every reward is of a choice.
TypeOK ==
  /\ config \in Configs
  /\ {t, nObs, weights, target} \subseteq Nat /\ attempts \in [Actions -> Nat]
  /\ table \in [Actions -> Nat] /\ choices \in Seq([action : Actions, how : Reasons])
  /\ Range(replay) \subseteq Range(observed) /\ Range(observed) \subseteq DOMAIN choices
  /\ \A k \in DOMAIN choices :
       records[k] = NoRecord <=> \E job \in pool : job.type = "record" /\ job.task = k
  /\ \A c \in checkpoints : c.step % config.frequency = 0 /\ c.content.t <= nObs

\* No action is forgotten.  LRU takes every action once in as many tasks as there are actions, in
\* any stretch of the run; LinUCB, outside of the bootstrap, returns to an action only when all
\* have been tried.
NoActionIsForgotten ==
  /\ config.type = "lru" =>
       \A i, j \in DOMAIN choices :
         i < j /\ j < i + NumActions => choices[i].action # choices[j].action
  /\ config.type = "lin-ucb" /\ ~Loads(config) =>
       \A i, j \in DOMAIN choices :
         i < j /\ choices[j].how # "bootstrap" /\ choices[i].action = choices[j].action
           => \A a \in Actions : \E k \in 1..j-1 : choices[k].action = a

\* The replay buffer keeps up with the rewards: it holds as many experiences as it may, each once,
\* and the last one is always among them.
ReplayKeepsUp ==
  config.type \in DQNTypes =>
    /\ Len(replay) = IF config.capacity = -1 \/ Len(observed) < config.capacity
                     THEN Len(observed) ELSE config.capacity
    /\ \A i, j \in DOMAIN replay : replay[i] = replay[j] => i = j
    /\ observed # <<>> => Last(observed) \in Range(replay)

\* The target network follows: it is never 'update' optimisation steps behind the network that is
\* learned, though steps are counted by rewards and the first rewards only fill the replay.
TargetFollows ==
  /\ target <= weights /\ weights - target < config.update
  /\ lesson.evaluator <= lesson.chooser

\* What an agent has learned and how it chooses, in whatever order the rewards come.
LearningKeepsUp == ReplayKeepsUp /\ TargetFollows /\ NoActionIsForgotten

\* the step at which the i-th interval ends, the first interval being the one the run begins in
End(i) == ((t - NumTasks) \div config.frequency + i) * config.frequency

\* The intervals of the validation are those of the checkpoints: as many of them, and each holds
\* the rewards of the steps that led to its checkpoint which were observed by the end of the run,
\* whichever are missing, whatever their order, and whatever comes after it.
ValidationByStep ==
  saved # <<>> =>
    LET data == saved[1].data
        RewardWithin(i, k) ==
          IF /\ records[k].step \in End(i) - config.frequency + 1 .. End(i)
             /\ k \in saved[1].seen /\ records[k].reward # NoReward
          THEN records[k].reward ELSE 0
    IN /\ Train => {c.step : c \in checkpoints} = {End(i) : i \in DOMAIN data}
       /\ \A i \in DOMAIN data : SumFunction(data[i]) = SumFunction([k \in Tasks |-> RewardWithin(i, k)])

\* The model that is saved as the best checkpoint is the checkpoint at the end of an interval with
\* the greatest mean reward.  This is what the saving mode is named for and what the log says
\* (saving_modes.py:55, validation_reward.py:71).
BestCheckpointSaved ==
  saved # <<>> /\ saved[1].model # <<>> /\ config.saving = "best-checkpoint" =>
    LET data == saved[1].data
    IN \E i \in DOMAIN data :
         /\ saved[1].model[1].step = End(i)
         /\ \A j \in DOMAIN data : SumFunction(data[i]) >= SumFunction(data[j])
=============================================================================
