----------------------------- MODULE MCPlatform -----------------------------
(***************************************************************************)
(* A small instance of what carries the runs: the protocol of the run      *)
(* lifecycle by itself, the deployer and the monitor of the workers.  They *)
(* share no variable; a behaviour is one of one of them, 'part', in which  *)
(* the others keep the state they begin in.                                *)
(***************************************************************************)
EXTENDS RunProtocol, Deployer, WorkersMonitor

VARIABLE part

\* one resource of each kind, and two for the steps that have a workload and a service
MCFiles ==
  [namespace |-> {<<"Namespace", "rlq">>},
   config_maps_to_load |-> {<<"ConfigMap", "minio">>},
   config_maps_to_create |-> {<<"ConfigMap", "global">>},
   docker_registry |-> {<<"Secret", "docker">>},
   minio |-> {<<"Secret", "minio">>},
   mongo |-> {<<"Secret", "mongo">>},
   redis_queue |-> {<<"Deployment", "redis">>, <<"Service", "redis">>},
   redis_shared_memory |-> {<<"Deployment", "shared-memory">>},
   rlq_resources |-> {<<"Deployment", "agent">>, <<"Service", "agent">>},
   system_manager |-> {<<"Deployment", "system-manager">>, <<"Service", "system-manager">>}]

MCReplicas == [c \in {"cpu", "gpu"} |-> 1]

platformVars == <<part, vars, deployerVars, monitorVars>>

PlatformInit ==
  /\ part \in {"protocol", "deployer", "monitor"}
  /\ Init /\ DeployerInit /\ MonitorInit

OfProtocol == part = "protocol" /\ UNCHANGED <<part, deployerVars, monitorVars>>
OfDeployer == part = "deployer" /\ UNCHANGED <<part, vars, monitorVars>>
OfMonitor == part = "monitor" /\ UNCHANGED <<part, vars, deployerVars>>

PlatformNext ==
  \/ OfProtocol /\ Next
  \/ OfDeployer /\ DeployerNext
  \/ OfMonitor /\ MonitorNext

\* the fairness of the deployer and of the monitor
PlatformFairness ==
  /\ WF_platformVars(OfDeployer /\ PoolThread(1))
  /\ WF_platformVars(OfDeployer /\ ClusterStep)
  /\ WF_platformVars(OfMonitor /\ Start)
  /\ WF_platformVars(OfMonitor /\ Release)
  /\ \A r \in 1..2 : /\ WF_platformVars(OfMonitor /\ Updater(r))
                    /\ WF_platformVars(OfMonitor /\ Pinger(r))

PlatformSpec == PlatformInit /\ [][PlatformNext]_platformVars /\ PlatformFairness

-----------------------------------------------------------------------------
\* Every variable of the parts holds a value the code can give it.
TypesOK == TypeOK /\ DeployerTypeOK /\ MonitorTypeOK

=============================================================================
