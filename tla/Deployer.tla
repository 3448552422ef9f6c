------------------------------ MODULE Deployer ------------------------------
(***************************************************************************)
(* The deployer manager: the REST resource and the script that ask for a    *)
(* deployment or a clean-up, the thread pool that executes what is asked,   *)
(* the ten steps of a deployment, and the requests of kube_wrapper to the   *)
(* cluster, each of which may fail or time out.  The process may die at any *)
(* point; the one that replaces it finds out from the cluster what is there. *)
(***************************************************************************)
EXTENDS Integers, Sequences, SequencesExt, FiniteSets

CONSTANTS
  Files,        \* step -> the resources in its files, as pairs of a kind and a name
  WorkerClasses,
  PoolSize,     \* threads that execute requests
  MaxRequests,  \* bound: requests over REST
  MaxFaults,    \* bound: requests to the cluster that fail or time out
  MaxRestarts   \* bound: processes started after the first one

VARIABLES
  status,       \* DeploymentStatus
  deployed,     \* kubernetes_deployed_resources, as one set
  pool,         \* requests that no thread has taken
  thread,       \* what each thread of the pool executes
  scriptMode,   \* the process is deploy.py
  cluster,      \* external: resource -> "absent", "terminating", "created" or "running"
  requests, faults, restarts

deployerVars == <<status, deployed, pool, thread, scriptMode, cluster, requests, faults, restarts>>

-----------------------------------------------------------------------------
\* the members of KubeResource that a mapper exists for, in their order
Kinds == <<"Namespace", "ConfigMap", "Secret", "Deployment", "StatefulSet", "DaemonSet", "Service",
           "PersistentVolumeClaim", "ServiceAccount">>
\* those the deployer keeps a list of, in the order of the lists
CleanOrder == <<"Deployment", "StatefulSet", "DaemonSet", "ConfigMap", "Secret", "Service",
                "PersistentVolumeClaim">>
\* mutant: no kind is deleted by its label
NoneByLabel == {}

\* those whose mapper has a delete_many
DeletedByLabel == ToSet(Kinds) \ {"Namespace", "Service"}

Steps == <<"namespace", "config_maps_to_load", "config_maps_to_create", "docker_registry", "minio",
           "mongo", "redis_queue", "redis_shared_memory", "rlq_resources", "system_manager">>
\* the steps that end in _create_kubernetes_resources; the others only apply what they load
Workloads == {"redis_queue", "redis_shared_memory", "rlq_resources", "system_manager"}

\* The files of the steps hold resources of the kinds that the deployer keeps lists of, and
\* namespaces; a namespace is not created together with workloads, where it would be deleted first.
ASSUME FilesAssumption ==
  /\ Files = [s \in ToSet(Steps) |-> Files[s]]
  /\ \A s \in ToSet(Steps) : \A r \in Files[s] : r[1] \in ToSet(CleanOrder) \union {"Namespace"}
  /\ \A s \in Workloads : \A r \in Files[s] : r[1] # "Namespace"

ASSUME BoundsAssumption == MaxRequests \in Nat /\ MaxFaults \in Nat /\ MaxRestarts \in Nat

\* one stateful set and one service for every class of workers, from the template
WorkerDeployments == UNION {{<<"StatefulSet", c>>, <<"Service", c>>} : c \in WorkerClasses}

Manifest == [Files EXCEPT !["rlq_resources"] = @ \union WorkerDeployments]
Resource == UNION {Manifest[s] : s \in ToSet(Steps)}
Runs(r) == r[1] \in {"Deployment", "StatefulSet"}
KindIndex(r) == CHOOSE i \in DOMAIN Kinds : Kinds[i] = r[1]

\* sort_resources: of what is left to do, a resource of the first kind
First(S) == CHOOSE r \in S : \A q \in S : KindIndex(r) <= KindIndex(q)

\* what a thread does: nothing, a phase of a step of the deployment, or the clean-up of a kind
Idle == [job |-> "none"]
Deploying(n, phase, todo, result) ==
  [job |-> "deploy", step |-> n, phase |-> phase, todo |-> todo, result |-> result]
Cleaning(kinds) == [job |-> "cleanup", todo |-> kinds]

\* the first phase of the n-th step: what exists is deleted before the workloads are created
BeginStep(n) == Deploying(n, IF Steps[n] \in Workloads THEN "delete" ELSE "apply",
                          Manifest[Steps[n]], "success")

DeployerInit ==
  /\ status = "NOT_INITIALIZED" /\ deployed = {}
  /\ pool = <<>> /\ thread = [t \in 1..PoolSize |-> Idle] /\ scriptMode = FALSE
  /\ cluster = [r \in Resource |-> "absent"]
  /\ requests = 0 /\ faults = 0 /\ restarts = 0

-----------------------------------------------------------------------------
(* Requests to the cluster.  An outcome is what becomes of the resource,    *)
(* the MethodResult, and the faults it takes.                                *)

Outcome(c, result, f) == [cluster |-> c, result |-> result, faults |-> f]
Possible(O) == {o \in O : faults + o.faults <= MaxFaults}

Exists(r) == cluster[r] # "absent"

\* the resource is gone in time, or the wait has a result like any other
DeletionAwaited == {Outcome("absent", "success", 0), Outcome("terminating", "failure", 1)}

\* what does not exist is awaited too; a request may fail before anything is deleted
DeleteResource(r) ==
  Possible(IF Exists(r) THEN DeletionAwaited \union {Outcome(cluster[r], "failure", 1)}
           ELSE {Outcome("absent", "success", 0)})

\* a resource that is there is deleted and created again, unless it is not to be replaced; one that
\* is still on its way out makes the creation fail
ApplyResource(r, replace) ==
  Possible(CASE cluster[r] = "absent" ->
                  {Outcome("created", "success", 0), Outcome("absent", "failure", 1)}
             [] cluster[r] # "absent" /\ ~replace ->
                  {Outcome(cluster[r], "success", 0), Outcome(cluster[r], "failure", 1)}
             [] cluster[r] = "terminating" /\ replace ->
                  {Outcome("created", "success", 0), Outcome("terminating", "failure", 0)}
             [] OTHER ->
                  {Outcome("created", "success", 0), Outcome("terminating", "failure", 1),
                   Outcome("absent", "failure", 1), Outcome(cluster[r], "failure", 1)})

\* wait_for_resource_running returns at the first look that finds the resource ready, or in the end
WaitRunning(r) ==
  Possible((IF cluster[r] = "running" THEN {Outcome("running", "success", 0)} ELSE {})
             \union {Outcome(cluster[r], "failure", 1)})

\* delete_many_resources removes what has the label, whether it is in the list or not
DeleteMany(kind, gone) ==
  cluster' = [r \in Resource |-> IF r[1] = kind /\ r \in gone THEN "absent" ELSE cluster[r]]

\* list_many_resources: of the workloads only those that run
Listed(kind) == {r \in Resource : /\ r[1] = kind
                                  /\ cluster[r] = IF Runs(r) THEN "running" ELSE "created"}

\* the cluster's own steps
ClusterStep ==
  /\ \E r \in Resource :
        \/ cluster[r] = "created" /\ Runs(r) /\ cluster' = [cluster EXCEPT ![r] = "running"]
        \/ cluster[r] = "terminating" /\ cluster' = [cluster EXCEPT ![r] = "absent"]
  /\ UNCHANGED <<status, deployed, pool, thread, scriptMode, requests, faults, restarts>>

-----------------------------------------------------------------------------
(* Requests to the deployer, and its start.                                 *)

\* DMTriggerResource.post looks at the status; the thread that takes the request changes it
Trigger(action) ==
  /\ ~scriptMode /\ requests < MaxRequests
  /\ \/ action = "deploy" /\ status \notin {"CLEANING", "DEPLOYING"}
     \/ action = "cleanup" /\ status = "READY"
  /\ pool' = Append(pool, action) /\ requests' = requests + 1
  /\ UNCHANGED <<status, deployed, thread, scriptMode, cluster, faults, restarts>>

\* _check_system_status of a new process: READY when as many workloads run as are configured.  The
\* process is a server, or the script with the action it is called for, which looks at no status.
CheckSystemStatus(unlisted) ==
  LET found == UNION {Listed(k) : k \in ToSet(CleanOrder) \ unlisted}
  IN /\ deployed' = found
     /\ status' = IF Cardinality({r \in found : Runs(r)}) = Cardinality({r \in Resource : Runs(r)})
                  THEN "READY" ELSE "NOT_INITIALIZED"

Restart ==
  /\ restarts < MaxRestarts
  /\ \E unlisted \in {{}} \union {{k} : k \in ToSet(CleanOrder)} :
        /\ faults + Cardinality(unlisted) <= MaxFaults
        /\ faults' = faults + Cardinality(unlisted)
        /\ CheckSystemStatus(unlisted)
  /\ \E action \in {"none", "deploy", "cleanup"} :
        /\ scriptMode' = (action # "none")
        /\ pool' = IF action = "none" THEN <<>> ELSE <<action>>
  /\ thread' = [t \in 1..PoolSize |-> Idle]
  /\ restarts' = restarts + 1
  /\ UNCHANGED <<cluster, requests>>

TakeRequest(t) ==
  /\ thread[t] = Idle /\ pool # <<>>
  /\ pool' = Tail(pool)
  /\ \/ Head(pool) = "deploy" /\ status' = "DEPLOYING" /\ thread' = [thread EXCEPT ![t] = BeginStep(1)]
     \/ /\ Head(pool) = "cleanup"
        /\ IF deployed # {}
           THEN status' = "CLEANING" /\ thread' = [thread EXCEPT ![t] = Cleaning(CleanOrder)]
           ELSE status' = "ERROR" /\ UNCHANGED thread  \* 'No deployed resources'
  /\ UNCHANGED <<deployed, scriptMode, cluster, requests, faults, restarts>>

-----------------------------------------------------------------------------
(* A deployment.                                                            *)

At(t, phase) == thread[t].job = "deploy" /\ thread[t].phase = phase
Current(t) == First(thread[t].todo)
Rest(t) == [thread[t] EXCEPT !.todo = @ \ {Current(t)}]
Move(t, th) == thread' = [thread EXCEPT ![t] = th]

\* mutant: what has become of the creations is not looked at
AfterApplyUnchecked(th) ==
  [th EXCEPT !.result = "success", !.phase = IF Steps[th.step] \in Workloads THEN "wait" ELSE "end",
             !.todo = {r \in Manifest[Steps[th.step]] : Runs(r)}]

\* handle_async_requests has failed when one of the creations has; only then are the workloads waited for
AfterApply(th) ==
  IF th.result = "success" /\ Steps[th.step] \in Workloads
  THEN [th EXCEPT !.phase = "wait", !.todo = {r \in Manifest[Steps[th.step]] : Runs(r)}]
  ELSE [th EXCEPT !.phase = "end"]

DeleteExisting(t) ==
  /\ At(t, "delete")
  /\ IF thread[t].todo = {}
     THEN /\ Move(t, [thread[t] EXCEPT !.phase = "apply", !.todo = Manifest[Steps[thread[t].step]]])
          /\ UNCHANGED <<cluster, faults>>
     ELSE \E o \in DeleteResource(Current(t)) :  \* whatever the result is
            /\ cluster' = [cluster EXCEPT ![Current(t)] = o.cluster]
            /\ faults' = faults + o.faults
            /\ Move(t, Rest(t))
  /\ UNCHANGED <<status, deployed, pool, scriptMode, requests, restarts>>

\* mutant: the namespace is listed too, though no clean-up handles it
RecordedWithNamespace(r) == deployed \union {r}

\* a resource is put into the list of its kind, if there is one
Recorded(r) == IF r[1] \in ToSet(CleanOrder) THEN deployed \union {r} ELSE deployed

\* every resource is recorded, and applied
Apply(t) ==
  /\ At(t, "apply")
  /\ IF thread[t].todo = {}
     THEN Move(t, AfterApply(thread[t])) /\ UNCHANGED <<deployed, cluster, faults>>
     ELSE /\ deployed' = Recorded(Current(t))
          /\ \E o \in ApplyResource(Current(t), Current(t)[1] # "Namespace") :
                /\ cluster' = [cluster EXCEPT ![Current(t)] = o.cluster]
                /\ faults' = faults + o.faults
                /\ Move(t, [Rest(t) EXCEPT !.result = IF o.result = "success" THEN @ ELSE "failure"])
  /\ UNCHANGED <<status, pool, scriptMode, requests, restarts>>

\* each wait replaces the result of the one before it
Wait(t) ==
  /\ At(t, "wait")
  /\ IF thread[t].todo = {}
     THEN Move(t, [thread[t] EXCEPT !.phase = "end"]) /\ UNCHANGED faults
     ELSE \E o \in WaitRunning(Current(t)) :
            /\ faults' = faults + o.faults
            /\ Move(t, [Rest(t) EXCEPT !.result = o.result])
  /\ UNCHANGED <<status, deployed, pool, scriptMode, cluster, requests, restarts>>

\* mutant: the step that fails ends the deployment, and its status is forgotten
EndStepSilently(t) ==
  /\ At(t, "end")
  /\ IF thread[t].result = "success" /\ thread[t].step < Len(Steps)
     THEN Move(t, BeginStep(thread[t].step + 1)) /\ UNCHANGED status
     ELSE Move(t, Idle) /\ status' = IF thread[t].result = "success" THEN "READY" ELSE status
  /\ UNCHANGED <<deployed, pool, scriptMode, cluster, requests, faults, restarts>>

\* _verify_step raises for a step that has failed, and the deployment ends in ERROR
EndStep(t) ==
  /\ At(t, "end")
  /\ IF thread[t].result = "success" /\ thread[t].step < Len(Steps)
     THEN Move(t, BeginStep(thread[t].step + 1)) /\ UNCHANGED status
     ELSE Move(t, Idle) /\ status' = IF thread[t].result = "success" THEN "READY" ELSE "ERROR"
  /\ UNCHANGED <<deployed, pool, scriptMode, cluster, requests, faults, restarts>>

-----------------------------------------------------------------------------
(* A clean-up: kind after kind, by label or, the services, one by one; what  *)
(* the requests return and whether the resources disappear in time changes   *)
(* nothing.                                                                 *)

CleanKind(t) ==
  /\ thread[t].job = "cleanup" /\ thread[t].todo # <<>>
  /\ LET kind == Head(thread[t].todo)
         asked == IF kind \in DeletedByLabel THEN {r \in Resource : r[1] = kind}
                  ELSE {r \in deployed : r[1] = kind}
     IN \/ DeleteMany(kind, asked) /\ UNCHANGED faults
        \/ /\ faults < MaxFaults /\ faults' = faults + 1
           /\ \E gone \in SUBSET asked : gone # asked /\ DeleteMany(kind, gone)
  /\ Move(t, [thread[t] EXCEPT !.todo = Tail(@)])
  /\ UNCHANGED <<status, deployed, pool, scriptMode, requests, restarts>>

EndCleanUp(t) ==
  /\ thread[t] = Cleaning(<<>>)
  /\ deployed' = {} /\ status' = "NOT_INITIALIZED" /\ Move(t, Idle)
  /\ UNCHANGED <<pool, scriptMode, cluster, requests, faults, restarts>>

-----------------------------------------------------------------------------
PoolThread(t) == \/ TakeRequest(t) \/ DeleteExisting(t) \/ Apply(t) \/ Wait(t) \/ EndStep(t)
                 \/ CleanKind(t) \/ EndCleanUp(t)

DeployerNext ==
  \/ \E action \in {"deploy", "cleanup"} : Trigger(action)
  \/ Restart
  \/ ClusterStep
  \/ \E t \in 1..PoolSize : PoolThread(t)

\* the threads of the pool run, their waits are bounded, and a cluster gets its workloads to run
DeployerFairness == /\ \A t \in 1..PoolSize : WF_deployerVars(PoolThread(t))
                    /\ WF_deployerVars(ClusterStep)

DeployerSpec == DeployerInit /\ [][DeployerNext]_deployerVars /\ DeployerFairness

-----------------------------------------------------------------------------
(* Properties.                                                              *)

\* Every variable holds a value the code can give it: the lists only what a step creates, a thread
\* the rest of a step or of a clean-up (kubernetes_deployed_resources, StepResult).
DeployerTypeOK ==
  /\ status \in {"NOT_INITIALIZED", "DEPLOYING", "READY", "CLEANING", "ERROR"}
  /\ deployed \in SUBSET {r \in Resource : r[1] \in ToSet(CleanOrder)}
  /\ pool \in Seq({"deploy", "cleanup"})
  /\ \A t \in 1..PoolSize :
        \/ thread[t] = Idle
        \/ thread[t].job = "cleanup" /\ ToSet(thread[t].todo) \subseteq ToSet(CleanOrder)
        \/ thread[t].job = "deploy" /\ thread[t].todo \subseteq Manifest[Steps[thread[t].step]]
  /\ cluster \in [Resource -> {"absent", "terminating", "created", "running"}]
  /\ requests \in 0..MaxRequests /\ faults \in 0..MaxFaults /\ restarts \in 0..MaxRestarts

\* A deployment that ends in READY has created everything that any of its ten steps has to create,
\* and has put it into the lists, whatever failed and was ignored on the way: of all the requests of
\* a step, over all steps, none that matters is lost (_execute_deployment_steps, _verify_step).
DeployedIsComplete ==
  [][status = "DEPLOYING" /\ status' = "READY" /\ restarts' = restarts =>
       \A r \in Resource : /\ cluster[r] \in {"created", "running"}
                           /\ r[1] # "Namespace" => r \in deployed]_deployerVars

\* A clean-up removes all that any deployment has left, one that failed or that ended with its
\* process included, as long as the cluster refuses no request; the namespace stays
\* (_clean_up_system_step, with the lists that _check_system_status finds).
CleanedUp ==
  [][status = "CLEANING" /\ status' = "NOT_INITIALIZED" /\ restarts' = restarts /\ faults = 0 =>
       \A r \in Resource : r[1] # "Namespace" => cluster'[r] = "absent"]_deployerVars

\* A deployment or a clean-up that has begun comes to an end, in a status that allows another one
\* (deploy, clean_up: every wait is bounded, every exception sets a status).
JobsEnd == (status \in {"DEPLOYING", "CLEANING"}) ~> (status \notin {"DEPLOYING", "CLEANING"})

=============================================================================
