----------------------------- MODULE RunConfigs -----------------------------
(***************************************************************************)
(* The list of runs to execute: what the run manager prepares at its start, *)
(* what REST requests add and remove, and the generator both use.  The      *)
(* generator walks through seeds, features, agents and combinations of      *)
(* parameters with one configuration that it changes on its way, and copies *)
(* it for every run.                                                        *)
(***************************************************************************)
EXTENDS Integers, Sequences, FiniteSets, Functions

CONSTANTS
  Multis,       \* multi run configurations
  Template,     \* run_config.yml
  SeedValues,   \* the range a seed is drawn from
  StartFrom,    \* system_manager.yml: runs to skip
  MaxAdds       \* bound: REST requests that add runs

\* where a parameter of the search is put: one of an agent, of its policy or of all agents, by its name,
\* or by its name in the parameter it is one of
Slot(p) ==
  CASE p.kind = "agent" -> <<"agents", p.name, "">>
    [] p.kind = "agent_parameter_param" -> <<"agents", p.param, p.name>>
    [] p.kind = "policy" -> <<"policies", p.name, "">>
    [] p.kind = "policy_param" -> <<"policies", p.param, p.name>>
    [] p.kind \in {"agent_global", "agent_global_param"} ->
         IF p.param = "" THEN <<"global", p.name, "">> ELSE <<"global", p.param, p.name>>

\* two parameters, one of which replaces the other
Clash(p, q) ==
  /\ Slot(p)[1] = Slot(q)[1] /\ Slot(p)[2] = Slot(q)[2]
  /\ Slot(p)[3] = Slot(q)[3] \/ "" \in {Slot(p)[3], Slot(q)[3]}

ValidParameter(p) ==
  /\ p.kind \in {"agent", "agent_parameter_param", "policy", "policy_param", "agent_global",
                 "agent_global_param"}
  /\ p.name # "" /\ Slot(p) # <<"global", "load_model_config", "load">>
  /\ IF p.mode = "array" THEN p.values \in Seq(Range(p.values)) /\ IsInjective(p.values)
     ELSE p.min \in Int /\ p.max \in Int /\ p.min <= p.max /\ p.step \in Nat \ {0}

ValidAgent(agent) ==
  /\ agent.type \in DOMAIN Template.agents
  /\ agent.policy # "" => agent.policy \in DOMAIN Template.policies
  /\ agent.parameters \in Seq(Range(agent.parameters))
  /\ \A p \in Range(agent.parameters) :
       ValidParameter(p) /\ (p.kind \in {"policy", "policy_param"} => agent.policy # "")
  /\ \A i, j \in DOMAIN agent.parameters : i # j => ~Clash(agent.parameters[i], agent.parameters[j])

\* a search may name a state, an entry of features or a type of agent any number of times
ValidSearch(m) ==
  /\ m.auto \in BOOLEAN /\ m.n \in Nat /\ m.agentSeeds \in Seq(Range(m.agentSeeds))
  /\ m.states \in Seq(Range(m.states)) /\ m.features \in Seq(Range(m.features))
  /\ m.agents \in Seq(Range(m.agents)) /\ \A agent \in Range(m.agents) : ValidAgent(agent)

ASSUME SearchAssumption ==
  /\ {"features", "state", "context", "type", "policy", "taskSeed", "agentSeed", "global", "policies",
      "agents"} \subseteq DOMAIN Template
  /\ Template.type \in DOMAIN Template.agents
  /\ \A m \in Multis : ValidSearch(m)
  /\ StartFrom \in Nat /\ MaxAdds \in Nat

VARIABLES
  multi,        \* the configuration of the run manager
  started,
  toExecute,    \* runs_config_to_execute
  executed,     \* executed_runs: how many
  job,          \* what is generated: for whom, from what, and the bodies of the loops done
  runConfig,    \* run_config, which the loops change
  runs,         \* runs_config
  places,       \* history: the body of the loops that has made each of them
  adds

listVars == <<multi, started, toExecute, executed, job, runConfig, runs, places, adds>>

-----------------------------------------------------------------------------
(* Combinations.  A parameter of the search has a kind (its type), a name,  *)
(* the parameter it is a parameter of ("" for none), and values.            *)

\* from min to max by steps, and max
Linear(p) ==
  LET count == IF p.min > p.max THEN 0 ELSE (p.max - p.min) \div p.step + 1
      steps == [i \in 1..count |-> p.min + (i - 1) * p.step]
  IN IF p.min + count * p.step = p.max + p.step THEN steps ELSE Append(steps, p.max)

Possibilities(p) ==
  LET values == IF p.mode = "array" THEN p.values ELSE Linear(p)
  IN [i \in DOMAIN values |->
        [kind |-> p.kind, name |-> p.name, param |-> p.param, value |-> values[i],
         seed |-> IF p.mode = "array" THEN p.seed ELSE {}]]

\* itertools.product: each tuple of the lists before goes on with every element of the next one
Longer(tuples, list) ==
  LET width == Len(list)
  IN [k \in 1..(Len(tuples) * width) |->
        Append(tuples[((k - 1) \div width) + 1], list[((k - 1) % width) + 1])]
Product(lists) ==
  LET Tuples[n \in 0..Len(lists)] == IF n = 0 THEN << <<>> >> ELSE Longer(Tuples[n - 1], lists[n])
  IN Tuples[Len(lists)]

GenerateCombinations(parameters) ==
  Product([i \in DOMAIN parameters |-> Possibilities(parameters[i])])

-----------------------------------------------------------------------------
(* One run configuration.  Parameters of an agent, a policy or of all agents *)
(* are functions from a name to what it holds: a function from "" to the     *)
(* value, or from the names of its own parameters to theirs.                 *)

Plain(v) == [name \in {""} |-> v]
Put(params, name, held) == [n \in DOMAIN params \union {name} |-> IF n = name THEN held ELSE params[n]]
PutIn(params, name, key, v) == Put(params, name, Put(params[name], key, v))
Over(first, params) ==
  [n \in DOMAIN first \union DOMAIN params |-> IF n \in DOMAIN first THEN first[n] ELSE params[n]]

\* the setters of the kinds of parameters; one of another kind sets nothing
SetParameter(c, p) ==
  CASE p.kind = "agent" ->
         [c EXCEPT !.agents[c.type] = Put(@, p.name, Plain(p.value))]
    [] p.kind = "agent_parameter_param" ->
         [c EXCEPT !.agents[c.type] = PutIn(@, p.param, p.name, p.value)]
    [] p.kind = "policy" ->
         [c EXCEPT !.policies[c.policy] = Put(@, p.name, Plain(p.value))]
    [] p.kind = "policy_param" ->
         [c EXCEPT !.policies[c.policy] = PutIn(@, p.param, p.name, p.value)]
    [] p.kind \in {"agent_global", "agent_global_param"} ->
         [c EXCEPT
            !.global = LET set == IF p.param # "" THEN PutIn(@, p.param, p.name, p.value)
                                  ELSE Put(@, p.name, Plain(p.value))
                       IN IF p.param = "load_model_config" THEN PutIn(set, p.param, "load", TRUE) ELSE set,
            !.agentSeed = IF p.seed # {} THEN CHOOSE s \in p.seed : TRUE
                          ELSE IF Slot(p)[2] = "random_seed" THEN p.value ELSE @]
    [] OTHER -> c

\* every parameter of a combination is set, one over the other
SetParameters(c, combination) ==
  LET Set[n \in 0..Len(combination)] == IF n = 0 THEN c ELSE SetParameter(Set[n - 1], combination[n])
  IN Set[Len(combination)]

\* the configurations of the combinations, each set over the one before
Configured(c, combinations) ==
  LET Config[n \in 0..Len(combinations)] ==
        IF n = 0 THEN c ELSE SetParameters(Config[n - 1], combinations[n])
  IN Config

PoliciesOf(policies, agent) ==
  IF agent.policy = "" THEN policies
  ELSE [policies EXCEPT ![agent.policy] = Over(agent.policyParameters, @)]

\* mutant: the parameters of all agents are copied once, not for every agent
AgentOfKept(c, m, seed, agent) ==
  [c EXCEPT !.global = Over(@, m.global), !.agentSeed = seed,
                 !.type = agent.type, !.policy = agent.policy,
                 !.context = (agent.type = "lin-ucb"),
                 !.policies = PoliciesOf(@, agent),
                 !.agents[agent.type] = Over(agent.own, @)]

\* the configuration of an agent before any combination: the parameters of all agents are copied
\* afresh, those of its policy and its own are put over what is there
AgentOf(c, m, seed, agent) ==
  [c EXCEPT !.global = m.global, !.agentSeed = seed,
                 !.type = agent.type, !.policy = agent.policy,
                 !.context = (agent.type = "lin-ucb"),
                 !.policies = PoliciesOf(@, agent),
                 !.agents[agent.type] = Over(agent.own, @)]

\* The configuration at the body for an agent: the loop over the agents sets nothing but what is the
\* agent's, those around it what they loop over when they go on.  What an entry of features_enabled
\* does not name stays as the entry before it has left it.
Features(c, entry) == [c EXCEPT !.features = Over(entry, @)]

ConfigAt(c, m, seeds, at) ==
  LET seeded == IF at.features = 1 /\ at.state = 1 /\ at.agent = 1
                THEN [Template EXCEPT !.taskSeed = seeds.taskGenerator] ELSE c
      featured == IF at.state = 1 /\ at.agent = 1 THEN Features(seeded, m.features[at.features]) ELSE seeded
  IN AgentOf([featured EXCEPT !.state = m.states[at.state]], m, seeds.agent[at.seed], m.agents[at.agent])

\* the loops over seeds, features, states and agents, each in the one before: how many bodies there are
\* for a seed, and where the one after n others is
BodiesPerSeed(m) == Len(m.features) * (Len(m.states) * Len(m.agents))
Body(m, n) ==
  LET turn == n \div Len(m.agents)
      entry == turn \div Len(m.states)
  IN [seed |-> (entry \div Len(m.features)) + 1, features |-> (entry % Len(m.features)) + 1,
      state |-> (turn % Len(m.states)) + 1, agent |-> (n % Len(m.agents)) + 1]

\* prepare_runs_random_seeds: none, drawn without repetition, or configured
RandomSeeds(m) ==
  IF ~m.auto THEN {[taskGenerator |-> m.taskSeed, agent |-> m.agentSeeds]}
  ELSE IF m.n = 0 THEN {[taskGenerator |-> 0, agent |-> <<>>]}
  ELSE {[taskGenerator |-> s[1], agent |-> Tail(s)] :
          s \in {t \in [1..(m.n + 1) -> SeedValues] : IsInjective(t)}}

\* RunConfigHelper.agent_config: what the agent of a run is created with
AgentConfig(r) == Over(r.agents[r.type], r.global)

-----------------------------------------------------------------------------
NoJob == [by |-> "nobody"]

ListInit == /\ multi \in Multis /\ started = FALSE
            /\ toExecute = <<>> /\ executed = 0
            /\ job = NoJob /\ runConfig = Template /\ runs = <<>> /\ places = <<>> /\ adds = 0

\* prepare_runs_config begins
Generate(by, m) ==
  /\ job = NoJob
  /\ \E seeds \in RandomSeeds(m) : job' = [by |-> by, multi |-> m, seeds |-> seeds, done |-> 0]

\* RunManager.start
Start == /\ ~started /\ started' = TRUE
         /\ Generate("manager", multi)
         /\ UNCHANGED <<multi, toExecute, executed, runConfig, runs, places, adds>>

Generating == job # NoJob /\ job.done < Len(job.seeds.agent) * BodiesPerSeed(job.multi)
Generated == job # NoJob /\ job.done >= Len(job.seeds.agent) * BodiesPerSeed(job.multi)

\* the body of the loop over the agents: every combination is set, one over the other, and the
\* configuration copied each time
PrepareAgent ==
  /\ Generating
  /\ LET at == Body(job.multi, job.done)
         combinations == GenerateCombinations(job.multi.agents[at.agent].parameters)
         c == Configured(ConfigAt(runConfig, job.multi, job.seeds, at), combinations)
     IN /\ runConfig' = c[Len(combinations)]
        /\ runs' = runs \o [i \in 1..Len(combinations) |-> c[i]]
        /\ places' = places \o [i \in 1..Len(combinations) |-> at]
  /\ job' = [job EXCEPT !.done = @ + 1]
  /\ UNCHANGED <<multi, started, toExecute, executed, adds>>

\* what is generated at the start is executed, but for the runs to skip, which are listed as executed;
\* what is generated for a request is added
EndGeneration ==
  /\ Generated /\ job' = NoJob
  /\ IF job.by = "request" THEN toExecute' = toExecute \o runs /\ UNCHANGED executed
     ELSE LET skipped == IF Len(runs) < StartFrom THEN Len(runs) ELSE StartFrom
          IN /\ toExecute' = SubSeq(runs, skipped + 1, Len(runs))
             /\ executed' = executed + skipped
  /\ runConfig' = Template /\ runs' = <<>> /\ places' = <<>>
  /\ UNCHANGED <<multi, started, adds>>

\* the REST resources serve when the initial runs are there
Serving == started /\ (job = NoJob \/ job.by = "request")

\* RunsResource.post: the runs of a multi run configuration, or a single one
AddRuns ==
  /\ Serving /\ adds < MaxAdds /\ adds' = adds + 1
  /\ \/ (\E m \in Multis : Generate("request", m)) /\ UNCHANGED toExecute
     \/ toExecute' = Append(toExecute, Template) /\ UNCHANGED job
  /\ UNCHANGED <<multi, started, executed, runConfig, runs, places>>

RemoveRuns == /\ Serving /\ toExecute' = <<>>
              /\ UNCHANGED <<multi, started, executed, job, runConfig, runs, places, adds>>

\* schedule_next_run takes the first run, and the run that is completed is listed
ExecuteRun ==
  /\ Serving /\ toExecute # <<>>
  /\ executed' = executed + 1 /\ toExecute' = Tail(toExecute)
  /\ UNCHANGED <<multi, started, job, runConfig, runs, places, adds>>

ListNext == Start \/ PrepareAgent \/ EndGeneration \/ AddRuns \/ RemoveRuns \/ ExecuteRun
ListSpec == ListInit /\ [][ListNext]_listVars

-----------------------------------------------------------------------------
(* Properties.                                                              *)

\* A run configuration has the template's parts, and the list only configurations
\* (RunManager.__init__, RunConfig).
ListTypeOK ==
  /\ multi \in Multis /\ started \in BOOLEAN /\ adds \in 0..MaxAdds
  /\ executed \in Nat
  /\ \A r \in Range(toExecute \o runs) \union {runConfig} :
        DOMAIN r = DOMAIN Template /\ r.type \in DOMAIN Template.agents

\* what a search parameter may be, from its definition, and where a run has it
Declared(p) == IF p.mode = "array" THEN Range(p.values)
               ELSE {v \in p.min..p.max : (v - p.min) % p.step = 0} \union {p.max}
Part(r, area) == CASE area = "agents" -> r.agents[r.type]
                    [] area = "policies" -> r.policies[r.policy]
                    [] area = "global" -> r.global
Held(r, p) == Part(r, Slot(p)[1])[Slot(p)[2]][Slot(p)[3]]

\* the choices of values for the parameters of an agent, and the runs for one of them that a body has
\* made: with the agent, the state and the features of the body, and the values
Picks(agent) == {v \in [DOMAIN agent.parameters -> UNION {Declared(p) : p \in Range(agent.parameters)}] :
                     \A i \in DOMAIN agent.parameters : v[i] \in Declared(agent.parameters[i])}
RunsOf(m, at, v) ==
  LET agent == m.agents[at.agent]
      features == m.features[at.features]
  IN {i \in DOMAIN runs :
        /\ places[i] = at
        /\ runs[i].type = agent.type /\ runs[i].policy = agent.policy /\ runs[i].state = m.states[at.state]
        /\ \A flag \in DOMAIN features : runs[i].features[flag] = features[flag]
        /\ \A j \in DOMAIN agent.parameters : Held(runs[i], agent.parameters[j]) = v[j]}
Seeds(m) == IF m.auto THEN m.n ELSE Len(m.agentSeeds)
Places(m) == [seed : 1..Seeds(m), features : DOMAIN m.features, state : DOMAIN m.states,
              agent : DOMAIN m.agents]

\* Every seed, entry of features, state, entry of agents and choice of values for the parameters of the
\* agent has exactly one run, the maximum of a linear parameter included, and there is no other run;
\* two entries of one type have theirs each (generate_combinations, __generate_linear_combinations,
\* _prepare_agent_config).
EveryCombinationOnce ==
  Generated =>
    LET m == job.multi
    IN /\ \A at \in Places(m) : \A v \in Picks(m.agents[at.agent]) : Cardinality(RunsOf(m, at, v)) = 1
       /\ Len(runs) = Seeds(m) * Len(m.features) * Len(m.states)
                        * Cardinality(UNION {{a} \X Picks(m.agents[a]) : a \in DOMAIN m.agents})

\* The runs of one seed are those of any other, in the same order, but for the seed: what the shared
\* configuration keeps from the last run of a seed does not reach the first of the next one
\* (prepare_runs_config copies the template).
SameForEverySeed ==
  Generated /\ Seeds(job.multi) > 0 =>
    LET count == Len(runs) \div Seeds(job.multi)
    IN \A i \in 1..(Len(runs) - count) :
         [runs[i] EXCEPT !.agentSeed = 0] = [runs[i + count] EXCEPT !.agentSeed = 0]

\* what the parameters of an entry are put at in an area, and what the entries of a type change of the
\* parameters the agents of that type share
NamesIn(agent, area) ==
  {Slot(p)[2] : p \in {q \in Range(agent.parameters) : Slot(q)[1] = area}}
Changed(agent) == DOMAIN agent.own \union NamesIn(agent, "agents")
ChangedOf(m, type) == UNION {Changed(agent) : agent \in {e \in Range(m.agents) : e.type = type}}

\* The agent of a run is created with what the template and the configuration of all agents say, over
\* which go the parameters of its entry and of its combination.  Nothing comes from an agent of another
\* type, and nothing of the global parameters from another entry.  What an entry does not name of the
\* agent's parameters may be what another entry of its type has left there: within a seed the code does
\* not take it back (_prepare_agent_global_config, agent_config).
OwnParameters ==
  Generated =>
    \A i \in DOMAIN runs :
      LET m == job.multi
          agent == m.agents[places[i].agent]
          own == Over(agent.own, Over(Template.agents[agent.type], m.global))
      IN \A name \in DOMAIN AgentConfig(runs[i]) :
           \/ name \in NamesIn(agent, "agents") \union NamesIn(agent, "global")
           \/ name \in DOMAIN own /\ AgentConfig(runs[i])[name] = own[name]
           \/ name \in ChangedOf(m, agent.type) \ Changed(agent)

\* Every seed, entry of features, state, entry of agents and combination of parameters has exactly one
\* run (generate_combinations, _prepare_agent_config); and the runs can be compared: those of two seeds
\* differ in nothing else, and none has a parameter of an agent of another type, or one that neither its
\* entry nor another of its type names (prepare_runs_config, _prepare_agent_global_config).
RunsAreTheSearch == EveryCombinationOnce /\ SameForEverySeed /\ OwnParameters
=============================================================================
