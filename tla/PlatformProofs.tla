--------------------------- MODULE PlatformProofs ---------------------------
(***************************************************************************)
(* The protocol of the run lifecycle: types, and that no two resources     *)
(* work on different runs, for every set of resources and every number of  *)
(* runs. The deployer: types for any files, classes of workers and bounds, *)
(* and, as long as one thread executes the requests, that a deployment     *)
(* which ends in READY is complete and that a clean-up leaves nothing. The *)
(* monitor of the workers: types, for any classes of workers and bounds.   *)
(* The three do not act on each other: each has its own invariant, and a   *)
(* behaviour of the platform is one of each.                               *)
(***************************************************************************)
EXTENDS MCPlatform, FiniteSetTheorems, TLAPS

-----------------------------------------------------------------------------
(* The protocol.                                                           *)

(* BoundedLag is not inductive: PREPARE_NEW_RUN is published only by status, and a resource     *)
(* whose last report is three commands old looks as one that has none outstanding.  So the      *)
(* invariant says by how much a report may be late, by the command that was published last:     *)
(* one command after PREPARE_NEW_RUN or START_RUN, which wait for everybody, and two after      *)
(* RUN_COMPLETED, which does not.                                                               *)
Late(n) == IF n % 3 = 0 THEN 2 ELSE 1

LagInv ==
  \A r \in Resources :
    /\ reported[r] <= executed[r] /\ executed[r] <= issued
    /\ issued - reported[r] <= Late(issued)

ProtocolInv == TypeOK /\ LagInv /\ RunsBounded

-----------------------------------------------------------------------------
(* A status seen from at most two commands behind determines the number of the report.          *)
LEMMA StatusTells ==
  ASSUME NEW n \in Nat, NEW m \in Nat, m <= n, n - m <= 2, StatusAfter(m) = StatusAfter(n)
  PROVE  m = n
BY DEF StatusAfter

(* In the states of ProtocolInv a command that waits for a status waits for everybody: when all the    *)
(* resources are seen in the status the issued commands lead to, all have executed them.        *)
LEMMA SeenAllDoneAll ==
  ASSUME ProtocolInv, \A r \in Resources : View(r) = StatusAfter(issued)
  PROVE  \A r \in Resources : reported[r] = issued /\ executed[r] = issued
<1> TAKE r \in Resources
<1>1. /\ issued \in Nat /\ executed[r] \in Nat /\ reported[r] \in Nat
      /\ reported[r] <= executed[r] /\ executed[r] <= issued /\ issued - reported[r] <= 2
  BY DEF ProtocolInv, TypeOK, LagInv, Late
<1>2. StatusAfter(reported[r]) = StatusAfter(issued)
  BY DEF View
<1>3. reported[r] = issued
  BY <1>1, <1>2, StatusTells
<1> QED BY <1>1, <1>3

(* The guards of the two commands that wait for a status.                                       *)
LEMMA PrepareSees ==
  ASSUME PrepareNextRun PROVE \A r \in Resources : View(r) = StatusAfter(issued)
BY DEF PrepareNextRun, StatusAfter

LEMMA StartSees ==
  ASSUME StartNextRun PROVE \A r \in Resources : View(r) = StatusAfter(issued)
<1>1. issued % 3 = 1 /\ \A r \in Resources : View(r) = "READY"
  BY DEF StartNextRun
<1>2. ~(issued % 3 = 0)
  BY <1>1
<1>3. StatusAfter(issued) = "READY"
  BY <1>1, <1>2 DEF StatusAfter
<1> QED BY <1>1, <1>3

LEMMA ProtocolInitInv == Init => ProtocolInv
BY ProtocolAssumption DEF Init, ProtocolInv, TypeOK, LagInv, Late, RunsBounded

(* Publishing a command when nobody is behind keeps the lag within one command.                 *)
LEMMA IssueToAll ==
  ASSUME ProtocolInv, Issue, issued < 3 * NumRuns, issued % 3 # 2,
         \A r \in Resources : reported[r] = issued /\ executed[r] = issued
  PROVE  ProtocolInv'
<1>1. TypeOK' BY DEF ProtocolInv, TypeOK, Issue
<1>2. LagInv' BY DEF ProtocolInv, TypeOK, Issue, LagInv, Late
<1>3. RunsBounded' BY ProtocolAssumption DEF ProtocolInv, TypeOK, RunsBounded, Issue
<1> QED BY <1>1, <1>2, <1>3 DEF ProtocolInv

LEMMA ProtocolNextInv == ProtocolInv /\ [Next]_vars => ProtocolInv'
<1> SUFFICES ASSUME ProtocolInv, [Next]_vars PROVE ProtocolInv'
  OBVIOUS
<1>1. CASE PrepareNextRun
  <2>1. \A r \in Resources : View(r) = StatusAfter(issued)
    BY <1>1, PrepareSees
  <2>2. issued % 3 # 2
    BY <1>1 DEF PrepareNextRun
  <2> QED BY <1>1, <2>1, <2>2, SeenAllDoneAll, IssueToAll DEF PrepareNextRun
<1>2. CASE StartNextRun
  <2>1. \A r \in Resources : View(r) = StatusAfter(issued)
    BY <1>2, StartSees
  <2>2. issued % 3 # 2 /\ issued < 3 * NumRuns
    BY <1>2, ProtocolAssumption DEF StartNextRun, ProtocolInv, TypeOK, RunsBounded
  <2> QED BY <1>2, <2>1, <2>2, SeenAllDoneAll, IssueToAll DEF StartNextRun
<1>3. CASE CompleteRun
  <2>1. TypeOK' BY <1>3 DEF ProtocolInv, TypeOK, CompleteRun, Issue
  <2>2. LagInv' BY <1>3 DEF ProtocolInv, TypeOK, CompleteRun, Issue, LagInv, Late
  <2>3. RunsBounded'
    BY <1>3, ProtocolAssumption DEF ProtocolInv, TypeOK, CompleteRun, Issue, RunsBounded
  <2> QED BY <2>1, <2>2, <2>3 DEF ProtocolInv
<1>4. ASSUME NEW r \in Resources, Execute(r) PROVE ProtocolInv'
  <2>1. TypeOK' BY <1>4 DEF ProtocolInv, TypeOK, Execute
  <2>2. LagInv' BY <1>4 DEF ProtocolInv, TypeOK, Execute, LagInv
  <2>3. RunsBounded' BY <1>4 DEF ProtocolInv, Execute, RunsBounded
  <2> QED BY <2>1, <2>2, <2>3 DEF ProtocolInv
<1>5. ASSUME NEW r \in Resources, Learn(r) PROVE ProtocolInv'
  <2>1. TypeOK' BY <1>5 DEF ProtocolInv, TypeOK, Learn
  <2>2. LagInv' BY <1>5 DEF ProtocolInv, TypeOK, Learn, LagInv, Late
  <2>3. RunsBounded' BY <1>5 DEF ProtocolInv, Learn, RunsBounded
  <2> QED BY <2>1, <2>2, <2>3 DEF ProtocolInv
<1>6. CASE UNCHANGED vars
  BY <1>6 DEF ProtocolInv, TypeOK, LagInv, Late, RunsBounded, vars
<1> QED BY <1>1, <1>2, <1>3, <1>4, <1>5, <1>6 DEF Next

(* The invariant, from which the other theorems follow.                                         *)
THEOREM ProtocolInvariant == Spec => []ProtocolInv
BY ProtocolInitInv, ProtocolNextInv, PTL DEF Spec

(* The counters stay counters.                                                                  *)
THEOREM ProtocolTypeCorrect == Spec => []TypeOK
<1>1. ProtocolInv => TypeOK BY DEF ProtocolInv
<1> QED BY <1>1, ProtocolInvariant, PTL

(* However many resources there are, none is more than two commands behind what is published,   *)
(* nor is the system manager's knowledge of it.                                                 *)
THEOREM LagIsBounded == Spec => []BoundedLag
<1>1. ProtocolInv => BoundedLag
  <2> SUFFICES ASSUME ProtocolInv, NEW r \in Resources
               PROVE  /\ reported[r] <= executed[r] /\ executed[r] <= issued
                      /\ issued - reported[r] <= 2
    BY DEF BoundedLag
  <2> QED BY DEF ProtocolInv, TypeOK, LagInv, Late
<1> QED BY <1>1, ProtocolInvariant, PTL

(* Two resources that are not WAITING work on the same run, for every set of resources.         *)
THEOREM SameRun == Spec => []OneRunAtATime
<1>1. ProtocolInv => OneRunAtATime
  <2> SUFFICES ASSUME ProtocolInv, NEW r \in Resources, NEW q \in Resources,
                      StatusAfter(executed[r]) # "WAITING", StatusAfter(executed[q]) # "WAITING"
               PROVE  RunAfter(executed[r]) = RunAfter(executed[q])
    BY DEF OneRunAtATime
  <2>1. /\ issued \in Nat /\ executed[r] \in Nat /\ executed[q] \in Nat
        /\ executed[r] <= issued /\ issued - executed[r] <= Late(issued)
        /\ executed[q] <= issued /\ issued - executed[q] <= Late(issued)
    BY DEF ProtocolInv, TypeOK, LagInv, Late
  <2>2. executed[r] % 3 # 0 /\ executed[q] % 3 # 0
    BY DEF StatusAfter
  <2> QED BY <2>1, <2>2 DEF RunAfter, Late
<1> QED BY <1>1, ProtocolInvariant, PTL

(* PREPARE_NEW_RUN and START_RUN find every resource in the status for them: what the system    *)
(* manager knows by status alone is enough.                                                     *)
THEOREM CommandsFindEverybody == Spec => NobodyBehind
<1>1. ProtocolInv /\ [Next]_vars => [PrepareNextRun \/ StartNextRun
                                => \A r \in Resources : executed[r] = issued]_vars
  <2> SUFFICES ASSUME ProtocolInv, PrepareNextRun \/ StartNextRun
               PROVE  \A r \in Resources : executed[r] = issued
    OBVIOUS
  <2> QED BY PrepareSees, StartSees, SeenAllDoneAll
<1> QED BY <1>1, ProtocolInvariant, PTL DEF Spec, NobodyBehind

(* No more runs begin than the list holds.                                                      *)
THEOREM NoExtraRun == Spec => []RunsBounded
<1>1. ProtocolInv => RunsBounded BY DEF ProtocolInv
<1> QED BY <1>1, ProtocolInvariant, PTL

-----------------------------------------------------------------------------
(* The deployer.                                                           *)

-----------------------------------------------------------------------------
(* The constants.                                                          *)

LEMMA StepFacts ==
  /\ Len(Steps) = 10
  /\ \A n \in 1..10 : Steps[n] \in ToSet(Steps)
  /\ \A s \in ToSet(Steps) : \E n \in 1..10 : Steps[n] = s
  /\ "rlq_resources" \in ToSet(Steps)
<1>1. Len(Steps) = 10 /\ DOMAIN Steps = 1..10
  BY DEF Steps
<1>2. Steps[9] = "rlq_resources"
  BY DEF Steps
<1> QED BY <1>1, <1>2 DEF ToSet

LEMMA KindFacts ==
  /\ "Namespace" \notin ToSet(CleanOrder)
  /\ "StatefulSet" \in ToSet(CleanOrder) /\ "Service" \in ToSet(CleanOrder)
<1>1. DOMAIN CleanOrder = 1..7
  BY DEF CleanOrder
<1>2. \A i \in 1..7 : CleanOrder[i] # "Namespace"
  BY DEF CleanOrder
<1>3. CleanOrder[2] = "StatefulSet" /\ CleanOrder[6] = "Service"
  BY DEF CleanOrder
<1> QED BY <1>1, <1>2, <1>3 DEF ToSet

LEMMA ManifestFacts ==
  /\ \A s \in ToSet(Steps) : Manifest[s] \subseteq Resource
  /\ \A r \in Resource : \E n \in 1..10 : r \in Manifest[Steps[n]]
  /\ \A r \in Resource : r[1] \in ToSet(CleanOrder) \union {"Namespace"}
  /\ \A s \in Workloads : \A r \in Manifest[s] : r[1] # "Namespace"
<1>1. \A s \in ToSet(Steps) : Manifest[s] = IF s = "rlq_resources" THEN Files[s] \union WorkerDeployments
                                            ELSE Files[s]
  BY StepFacts, FilesAssumption DEF Manifest
<1>2. \A r \in WorkerDeployments : r[1] \in {"StatefulSet", "Service"}
  BY DEF WorkerDeployments
<1>3. Workloads \subseteq ToSet(Steps)
  <2>1. Steps[7] = "redis_queue" /\ Steps[8] = "redis_shared_memory" /\ Steps[9] = "rlq_resources"
        /\ Steps[10] = "system_manager"
    BY DEF Steps
  <2> QED BY <2>1, StepFacts DEF Workloads
<1>4. \A s \in ToSet(Steps) : Manifest[s] \subseteq Resource
  BY DEF Resource
<1>5. ASSUME NEW r \in Resource PROVE \E n \in 1..10 : r \in Manifest[Steps[n]]
  <2>1. PICK s \in ToSet(Steps) : r \in Manifest[s]
    BY DEF Resource
  <2> QED BY <2>1, StepFacts
<1>6. ASSUME NEW r \in Resource PROVE r[1] \in ToSet(CleanOrder) \union {"Namespace"}
  <2>1. PICK s \in ToSet(Steps) : r \in Manifest[s]
    BY DEF Resource
  <2>2. r \in Files[s] \/ r \in WorkerDeployments
    BY <1>1, <2>1
  <2> QED BY <1>2, <2>2, KindFacts, FilesAssumption
<1>7. ASSUME NEW s \in Workloads, NEW r \in Manifest[s] PROVE r[1] # "Namespace"
  <2>1. r \in Files[s] \/ r \in WorkerDeployments
    BY <1>1, <1>3
  <2> QED BY <1>2, <2>1, FilesAssumption
<1> QED BY <1>4, <1>5, <1>6, <1>7

\* what a step has left to do has a first resource
LEMMA LeastIndex ==
  ASSUME NEW T \in SUBSET (1..9), T # {}
  PROVE  \E m \in T : \A k \in T : m <= k
<1> SUFFICES ASSUME \A m \in T : \E k \in T : k < m PROVE FALSE
  OBVIOUS
<1>1. \A m \in T : m \in 1..9
  OBVIOUS
<1>2. 1 \notin T
  BY <1>1
<1>3. 2 \notin T
  BY <1>1, <1>2
<1>4. 3 \notin T
  BY <1>1, <1>2, <1>3
<1>5. 4 \notin T
  BY <1>1, <1>2, <1>3, <1>4
<1>6. 5 \notin T
  BY <1>1, <1>2, <1>3, <1>4, <1>5
<1>7. 6 \notin T
  BY <1>1, <1>2, <1>3, <1>4, <1>5, <1>6
<1>8. 7 \notin T
  BY <1>1, <1>2, <1>3, <1>4, <1>5, <1>6, <1>7
<1>9. 8 \notin T
  BY <1>1, <1>2, <1>3, <1>4, <1>5, <1>6, <1>7, <1>8
<1>10. 9 \notin T
  BY <1>1, <1>2, <1>3, <1>4, <1>5, <1>6, <1>7, <1>8, <1>9
<1>11. \A m \in 1..9 : m \notin T
  BY <1>2, <1>3, <1>4, <1>5, <1>6, <1>7, <1>8, <1>9, <1>10
<1> QED BY <1>1, <1>11

LEMMA FirstFact ==
  ASSUME NEW S \in SUBSET Resource, S # {}
  PROVE  First(S) \in S
<1>1. \A r \in S : KindIndex(r) \in 1..9
  <2> SUFFICES ASSUME NEW r \in S PROVE KindIndex(r) \in 1..9
    OBVIOUS
  <2>1. DOMAIN Kinds = 1..9 /\ DOMAIN CleanOrder = 1..7
    BY DEF Kinds, CleanOrder
  <2>2. \A i \in 1..7 : \E j \in 1..9 : Kinds[j] = CleanOrder[i]
    BY DEF Kinds, CleanOrder
  <2>3. Kinds[1] = "Namespace"
    BY DEF Kinds
  <2>4. \E j \in 1..9 : Kinds[j] = r[1]
    BY <2>1, <2>2, <2>3, ManifestFacts DEF ToSet
  <2> QED BY <2>1, <2>4 DEF KindIndex
<1> DEFINE T == {KindIndex(r) : r \in S}
<1>2. PICK m \in T : \A k \in T : m <= k
  <2>1. T \in SUBSET (1..9) /\ T # {}
    BY <1>1
  <2> HIDE DEF T
  <2> QED BY <2>1, LeastIndex
<1>3. \E r \in S : \A q \in S : KindIndex(r) <= KindIndex(q)
  BY <1>2
<1> QED BY <1>3 DEF First
-----------------------------------------------------------------------------
(* The inductive invariant.                                                *)

Results == {"success", "failure"}
CleanThreads == [job : {"cleanup"}, todo : Seq(ToSet(CleanOrder))]
DeployThreads == [job : {"deploy"}, step : 1..10, phase : {"delete", "apply", "wait", "end"},
                  todo : SUBSET Resource, result : Results]

\* a thread deletes and waits for workloads only, and does what its step has left to do
Shape(th) ==
  \/ th = Idle
  \/ th \in CleanThreads
  \/ /\ th \in DeployThreads
     /\ th.todo \subseteq Manifest[Steps[th.step]]
     /\ th.phase = "delete" => Steps[th.step] \in Workloads

\* a namespace is never on its way out
NamespacesStay == \A r \in Resource : r[1] = "Namespace" => cluster[r] # "terminating"

\* in a cluster c and with lists d: what is there
There(r, c, d) == c[r] \in {"created", "running"} /\ (r[1] # "Namespace" => r \in d)
AllThere(S, c, d) == \A r \in S : There(r, c, d)

\* the steps before the one a thread is at are done, but for what this one creates anew
Earlier(n, c, d) == \A m \in 1..(n - 1) : AllThere(Manifest[Steps[m]] \ Manifest[Steps[n]], c, d)

\* of this one what the thread has gone through is there, unless something has failed
Here(th, c, d) ==
  /\ th.phase = "apply" /\ th.result = "success" => AllThere(Manifest[Steps[th.step]] \ th.todo, c, d)
  /\ th.phase = "wait" => AllThere(Manifest[Steps[th.step]], c, d)
  /\ th.phase = "end" /\ th.result = "success" => AllThere(Manifest[Steps[th.step]], c, d)

DoneSoFar(th, c, d) == th \in DeployThreads => Earlier(th.step, c, d) /\ Here(th, c, d)

Shapes == \A t \in 1..PoolSize : Shape(thread[t])
ThreadFun == DOMAIN thread = 1..PoolSize /\ thread = [t \in 1..PoolSize |-> thread[t]]
DataOK ==
  /\ status \in {"NOT_INITIALIZED", "DEPLOYING", "READY", "CLEANING", "ERROR"}
  /\ deployed \in SUBSET {r \in Resource : r[1] \in ToSet(CleanOrder)}
  /\ pool \in Seq({"deploy", "cleanup"})
  /\ cluster \in [Resource -> {"absent", "terminating", "created", "running"}]
  /\ requests \in 0..MaxRequests /\ faults \in 0..MaxFaults /\ restarts \in 0..MaxRestarts

DeployerInv == DataOK /\ ThreadFun /\ Shapes /\ NamespacesStay /\ (PoolSize = 1 => DoneSoFar(thread[1], cluster, deployed))

LEMMA InvType == DeployerInv => DeployerTypeOK
<1> SUFFICES ASSUME DeployerInv PROVE DeployerTypeOK
  OBVIOUS
<1>1. ASSUME NEW t \in 1..PoolSize
      PROVE  \/ thread[t] = Idle
             \/ thread[t].job = "cleanup" /\ ToSet(thread[t].todo) \subseteq ToSet(CleanOrder)
             \/ thread[t].job = "deploy" /\ thread[t].todo \subseteq Manifest[Steps[thread[t].step]]
  <2>1. Shape(thread[t])
    BY DEF DeployerInv, Shapes
  <2>2. CASE thread[t] \in CleanThreads
    <3>1. thread[t].todo \in Seq(ToSet(CleanOrder)) /\ thread[t].job = "cleanup"
      BY <2>2 DEF CleanThreads
    <3>2. ASSUME NEW S, NEW q \in Seq(S) PROVE ToSet(q) \subseteq S
      BY DEF ToSet
    <3> QED BY <3>1, <3>2
  <2>3. CASE thread[t] \in DeployThreads
    BY <2>1, <2>3 DEF Shape, DeployThreads, CleanThreads, Idle
  <2> QED BY <2>1, <2>2, <2>3 DEF Shape
<1> QED BY <1>1 DEF DeployerInv, DataOK, DeployerTypeOK

-----------------------------------------------------------------------------
(* What becomes of the parts of the invariant.                             *)

LEMMA MoveFacts ==
  ASSUME ThreadFun, Shapes, NEW t \in 1..PoolSize, NEW th, Shape(th), Move(t, th)
  PROVE  ThreadFun' /\ Shapes' /\ thread'[t] = th
BY DEF ThreadFun, Shapes, Move

LEMMA ThreadFrame == ThreadFun /\ Shapes /\ UNCHANGED thread => ThreadFun' /\ Shapes'
BY DEF ThreadFun, Shapes

LEMMA OneThread == ASSUME PoolSize = 1, NEW t \in 1..PoolSize PROVE t = 1
OBVIOUS

LEMMA NotDeploying ==
  ASSUME NEW th, th = Idle \/ th \in CleanThreads, NEW c, NEW d
  PROVE  DoneSoFar(th, c, d)
BY DEF DoneSoFar, DeployThreads, CleanThreads, Idle

\* what is there stays, where nothing changes or something comes to run
LEMMA EarlierKept ==
  ASSUME NEW n \in 1..10, NEW c, NEW d, NEW c2, NEW d2, Earlier(n, c, d), d \subseteq d2,
         \A q \in Resource \ Manifest[Steps[n]] :
           c[q] \in {"created", "running"} => c2[q] \in {"created", "running"}
  PROVE  Earlier(n, c2, d2)
<1> SUFFICES ASSUME NEW m \in 1..(n - 1), NEW r \in Manifest[Steps[m]] \ Manifest[Steps[n]]
             PROVE  There(r, c2, d2)
  BY DEF Earlier, AllThere
<1>1. m \in 1..10 /\ r \in Resource
  BY ManifestFacts, StepFacts
<1>2. There(r, c, d)
  BY DEF Earlier, AllThere
<1> QED BY <1>1, <1>2 DEF There

LEMMA TriggerInv == ASSUME DeployerInv, NEW action \in {"deploy", "cleanup"}, Trigger(action)
                    PROVE DeployerInv'
<1>1. DataOK'
  BY BoundsAssumption DEF DeployerInv, DataOK, Trigger
<1>2. ThreadFun' /\ Shapes'
  BY ThreadFrame DEF DeployerInv, Trigger
<1>3. NamespacesStay'
  BY DEF DeployerInv, NamespacesStay, Trigger
<1>4. ASSUME PoolSize = 1 PROVE DoneSoFar(thread'[1], cluster', deployed')
  BY <1>4 DEF DeployerInv, Trigger
<1> QED BY <1>1, <1>2, <1>3, <1>4 DEF DeployerInv

LEMMA ClusterStepInv == ASSUME DeployerInv, ClusterStep PROVE DeployerInv'
<1>1. PICK r \in Resource :
        \/ cluster[r] = "created" /\ Runs(r) /\ cluster' = [cluster EXCEPT ![r] = "running"]
        \/ cluster[r] = "terminating" /\ cluster' = [cluster EXCEPT ![r] = "absent"]
  BY DEF ClusterStep
<1>2. DataOK'
  BY <1>1 DEF DeployerInv, DataOK, ClusterStep
<1>3. ThreadFun' /\ Shapes'
  BY ThreadFrame DEF DeployerInv, ClusterStep
<1>4. NamespacesStay'
  BY <1>1 DEF DeployerInv, DataOK, NamespacesStay
<1>5. \A q \in Resource : cluster[q] \in {"created", "running"} => cluster'[q] \in {"created", "running"}
  BY <1>1 DEF DeployerInv, DataOK
<1>7. ASSUME PoolSize = 1 PROVE DoneSoFar(thread'[1], cluster', deployed')
  <2> SUFFICES ASSUME thread[1] \in DeployThreads
               PROVE  Earlier(thread[1].step, cluster', deployed) /\ Here(thread[1], cluster', deployed)
    BY DEF DoneSoFar, ClusterStep
  <2>1. thread[1].step \in 1..10
    BY DEF DeployThreads
  <2>2. Earlier(thread[1].step, cluster, deployed) /\ Here(thread[1], cluster, deployed)
    BY <1>7 DEF DeployerInv, DoneSoFar
  <2>3. Manifest[Steps[thread[1].step]] \subseteq Resource
    BY <2>1, ManifestFacts, StepFacts
  <2>4. Earlier(thread[1].step, cluster', deployed)
    BY <1>5, <2>1, <2>2, EarlierKept
  <2>5. Here(thread[1], cluster', deployed)
    BY <1>5, <2>2, <2>3 DEF Here, AllThere, There
  <2> QED BY <2>4, <2>5
<1> QED BY <1>2, <1>3, <1>4, <1>7 DEF DeployerInv

LEMMA RestartInv == ASSUME DeployerInv, Restart PROVE DeployerInv'
<1>1. PICK unlisted \in {{}} \union {{k} : k \in ToSet(CleanOrder)} :
        /\ faults + Cardinality(unlisted) <= MaxFaults
        /\ faults' = faults + Cardinality(unlisted)
        /\ CheckSystemStatus(unlisted)
  BY DEF Restart
<1>2. Cardinality(unlisted) \in Nat
  <2>1. CASE unlisted = {}
    BY <2>1, FS_EmptySet
  <2>2. CASE \E k : unlisted = {k}
    BY <2>2, FS_Singleton
  <2> QED BY <2>1, <2>2
<1>3. deployed' \in SUBSET {r \in Resource : r[1] \in ToSet(CleanOrder)}
  BY <1>1 DEF CheckSystemStatus, Listed
<1>4. status' \in {"READY", "NOT_INITIALIZED"}
  BY <1>1 DEF CheckSystemStatus
<1>5. pool' \in Seq({"deploy", "cleanup"})
  <2>1. PICK action \in {"none", "deploy", "cleanup"} :
          pool' = IF action = "none" THEN <<>> ELSE <<action>>
    BY DEF Restart
  <2>2. ASSUME NEW S, NEW x \in S PROVE <<>> \in Seq(S) /\ <<x>> \in Seq(S)
    OBVIOUS
  <2>3. CASE action = "none"
    BY <2>1, <2>2, <2>3
  <2>4. CASE action \in {"deploy", "cleanup"}
    <3>1. pool' = <<action>>
      BY <2>1, <2>4
    <3> QED BY <2>2, <2>4, <3>1
  <2> QED BY <2>3, <2>4
<1>6. faults' \in 0..MaxFaults
  BY <1>1, <1>2, BoundsAssumption DEF DeployerInv, DataOK
<1>7. restarts' \in 0..MaxRestarts
  BY BoundsAssumption DEF DeployerInv, DataOK, Restart
<1>8. DataOK'
  BY <1>3, <1>4, <1>5, <1>6, <1>7 DEF DeployerInv, DataOK, Restart
<1>9. ThreadFun' /\ Shapes'
  BY DEF Restart, ThreadFun, Shapes, Shape
<1>10. NamespacesStay'
  BY DEF DeployerInv, NamespacesStay, Restart
<1>11. ASSUME PoolSize = 1 PROVE DoneSoFar(thread'[1], cluster', deployed')
  <2>1. thread'[1] = Idle
    BY <1>11 DEF Restart
  <2> QED BY <2>1, NotDeploying
<1> QED BY <1>8, <1>9, <1>10, <1>11 DEF DeployerInv

\* the first phase of a step, when all the steps before it are done
LEMMA BeginFacts ==
  ASSUME NEW n \in 1..10
  PROVE  /\ Shape(BeginStep(n))
         /\ \A c, d : (\A m \in 1..10 : m < n => AllThere(Manifest[Steps[m]], c, d))
                        => DoneSoFar(BeginStep(n), c, d)
<1> DEFINE phase == IF Steps[n] \in Workloads THEN "delete" ELSE "apply"
           th == Deploying(n, phase, Manifest[Steps[n]], "success")
<1>1. BeginStep(n) = th
  BY DEF BeginStep
<1>2. Manifest[Steps[n]] \subseteq Resource
  BY ManifestFacts, StepFacts
<1>3. th \in DeployThreads
  BY <1>2 DEF Deploying, DeployThreads, Results
<1>4. /\ th.step = n /\ th.phase = phase /\ th.todo = Manifest[Steps[n]]
  BY DEF Deploying
<1>5. Shape(th)
  BY <1>3, <1>4 DEF Shape
<1>6. ASSUME NEW c, NEW d, \A m \in 1..10 : m < n => AllThere(Manifest[Steps[m]], c, d)
      PROVE  DoneSoFar(th, c, d)
  <2>1. phase \in {"delete", "apply"} /\ phase # "wait" /\ phase # "end"
    OBVIOUS
  <2> HIDE DEF phase, th
  <2>2. Manifest[Steps[n]] \ th.todo = {}
    BY <1>4
  <2> QED BY <1>4, <1>6, <2>1, <2>2 DEF DoneSoFar, Earlier, Here, AllThere
<1> QED BY <1>1, <1>5, <1>6

LEMMA TakeRequestInv ==
  ASSUME DeployerInv, NEW t \in 1..PoolSize, TakeRequest(t) PROVE DeployerInv'
<1>1. pool' \in Seq({"deploy", "cleanup"}) /\ status' \in {"DEPLOYING", "CLEANING", "ERROR"}
  BY DEF DeployerInv, DataOK, TakeRequest
<1>2. DataOK'
  BY <1>1 DEF DeployerInv, DataOK, TakeRequest
<1>3. NamespacesStay'
  BY DEF DeployerInv, NamespacesStay, TakeRequest
<1>4. CASE Move(t, BeginStep(1))
  <2>1. Shape(BeginStep(1)) /\ DoneSoFar(BeginStep(1), cluster', deployed')
    BY BeginFacts
  <2>2. ThreadFun' /\ Shapes' /\ thread'[t] = BeginStep(1)
    BY <1>4, <2>1, MoveFacts DEF DeployerInv
  <2>3. ASSUME PoolSize = 1 PROVE DoneSoFar(thread'[1], cluster', deployed')
    BY <2>1, <2>2, <2>3, OneThread
  <2> QED BY <1>2, <1>3, <2>2, <2>3 DEF DeployerInv
<1>5. CASE Move(t, Cleaning(CleanOrder))
  <2>1. CleanOrder \in Seq(ToSet(CleanOrder))
    <3>1. DOMAIN CleanOrder = 1..7 /\ CleanOrder = [i \in 1..7 |-> CleanOrder[i]]
      BY DEF CleanOrder
    <3>2. \A i \in 1..7 : CleanOrder[i] \in ToSet(CleanOrder)
      BY <3>1 DEF ToSet
    <3> HIDE DEF CleanOrder
    <3> QED BY <3>1, <3>2
  <2>2. Cleaning(CleanOrder) \in CleanThreads
    BY <2>1 DEF Cleaning, CleanThreads
  <2>3. ThreadFun' /\ Shapes' /\ thread'[t] = Cleaning(CleanOrder)
    BY <1>5, <2>2, MoveFacts DEF DeployerInv, Shape
  <2>4. ASSUME PoolSize = 1 PROVE DoneSoFar(thread'[1], cluster', deployed')
    BY <2>2, <2>3, <2>4, OneThread, NotDeploying
  <2> QED BY <1>2, <1>3, <2>3, <2>4 DEF DeployerInv
<1>6. CASE UNCHANGED thread
  <2>1. ThreadFun' /\ Shapes'
    BY <1>6, ThreadFrame DEF DeployerInv
  <2>2. ASSUME PoolSize = 1 PROVE DoneSoFar(thread'[1], cluster', deployed')
    BY <1>6, <2>2 DEF DeployerInv, TakeRequest
  <2> QED BY <1>2, <1>3, <2>1, <2>2 DEF DeployerInv
<1> QED BY <1>4, <1>5, <1>6 DEF TakeRequest, Move

-----------------------------------------------------------------------------
(* A deployment.                                                           *)

USE DEF Outcome, Possible

LEMMA DeleteOutcome ==
  ASSUME DataOK, NEW r \in Resource, NEW o \in DeleteResource(r)
  PROVE  /\ o.cluster \in {"absent", "terminating", "created", "running"}
         /\ o.faults \in 0..1 /\ faults + o.faults <= MaxFaults
BY DEF DataOK, DeleteResource, DeletionAwaited

\* a creation that is a success has created the resource; a namespace is only created
LEMMA ApplyOutcome ==
  ASSUME DataOK, NEW r \in Resource, NEW replace \in BOOLEAN, NEW o \in ApplyResource(r, replace),
         ~replace => cluster[r] # "terminating"
  PROVE  /\ o.cluster \in {"absent", "terminating", "created", "running"}
         /\ o.faults \in 0..1 /\ faults + o.faults <= MaxFaults
         /\ o.result \in Results
         /\ o.result = "success" => o.cluster \in {"created", "running"}
         /\ ~replace => o.cluster # "terminating"
<1>1. cluster[r] \in {"absent", "terminating", "created", "running"}
  BY DEF DataOK
<1>2. faults + o.faults <= MaxFaults
  BY DEF ApplyResource
<1>3. o \in {Outcome("created", "success", 0), Outcome("absent", "failure", 1), Outcome("terminating", "failure", 0),
            Outcome("terminating", "failure", 1), Outcome(cluster[r], "failure", 1), Outcome(cluster[r], "success", 0)}
  BY DEF ApplyResource
<1>4. o.result = "success" /\ o = Outcome(cluster[r], "success", 0) => cluster[r] \notin {"absent", "terminating"}
  <2>1. CASE cluster[r] = "absent"
    <3>1. o \in {Outcome("created", "success", 0), Outcome("absent", "failure", 1)}
      BY <2>1 DEF ApplyResource
    <3> QED BY <2>1, <3>1
  <2>2. CASE cluster[r] # "absent" /\ replace
    <3>1. o \in {Outcome("created", "success", 0), Outcome("absent", "failure", 1), Outcome("terminating", "failure", 0),
                 Outcome("terminating", "failure", 1), Outcome(cluster[r], "failure", 1)}
      BY <2>2 DEF ApplyResource
    <3>2. o.result = "success" => o.cluster = "created"
      BY <3>1
    <3> QED BY <3>2
  <2>3. CASE cluster[r] # "absent" /\ ~replace
    BY <2>3
  <2> QED BY <2>1, <2>2, <2>3
<1>5. ~replace => o.cluster # "terminating"
  BY DEF ApplyResource
<1>6. o.cluster \in {"absent", "terminating", "created", "running"}
  BY <1>1, <1>3
<1>7. o.faults \in 0..1
  BY <1>3
<1>8. o.result \in Results
  BY <1>3 DEF Results
<1>9. ASSUME o.result = "success" PROVE o.cluster \in {"created", "running"}
  <2>1. o = Outcome("created", "success", 0) \/ o = Outcome(cluster[r], "success", 0)
    BY <1>3, <1>9
  <2>2. CASE o = Outcome(cluster[r], "success", 0)
    <3>1. cluster[r] \notin {"absent", "terminating"}
      BY <1>4, <1>9, <2>2
    <3> QED BY <1>1, <2>2, <3>1
  <2> QED BY <2>1, <2>2
<1> QED BY <1>2, <1>5, <1>6, <1>7, <1>8, <1>9

\* one resource changes, and the faults are counted
LEMMA ClusterFacts ==
  ASSUME DataOK, NEW r \in Resource,
         NEW c \in {"absent", "terminating", "created", "running"}, NEW f \in 0..1, faults + f <= MaxFaults,
         cluster' = [cluster EXCEPT ![r] = c], faults' = faults + f
  PROVE  /\ cluster' \in [Resource -> {"absent", "terminating", "created", "running"}]
         /\ faults' \in 0..MaxFaults
         /\ cluster'[r] = c
         /\ \A q \in Resource : q # r => cluster'[q] = cluster[q]
BY BoundsAssumption DEF DataOK

\* a thread at a phase of a deployment
LEMMA AtFacts ==
  ASSUME DeployerInv, NEW t \in 1..PoolSize, NEW phase, At(t, phase)
  PROVE  /\ thread[t] \in DeployThreads
         /\ thread[t].phase = phase
         /\ thread[t].todo \subseteq Manifest[Steps[thread[t].step]]
         /\ phase = "delete" => Steps[thread[t].step] \in Workloads
         /\ Manifest[Steps[thread[t].step]] \subseteq Resource
         /\ thread[t].todo # {} => Current(t) \in thread[t].todo /\ Current(t) \in Resource
<1>1. Shape(thread[t]) /\ thread[t].job = "deploy" /\ thread[t].phase = phase
  BY DEF DeployerInv, Shapes, At
<1>2. thread[t] \in DeployThreads /\ thread[t].todo \subseteq Manifest[Steps[thread[t].step]]
      /\ (thread[t].phase = "delete" => Steps[thread[t].step] \in Workloads)
  BY <1>1 DEF Shape, Idle, CleanThreads
<1>3. thread[t].step \in 1..10 /\ thread[t].todo \subseteq Resource
  BY <1>2 DEF DeployThreads
<1>4. Manifest[Steps[thread[t].step]] \subseteq Resource
  BY <1>3, ManifestFacts, StepFacts
<1>5. thread[t].todo # {} => Current(t) \in thread[t].todo
  BY <1>3, FirstFact DEF Current
<1> QED BY <1>1, <1>2, <1>3, <1>4, <1>5

\* a thread goes on to a phase of its step
Becomes(th, phase, todo, result) == [th EXCEPT !.phase = phase, !.todo = todo, !.result = result]

LEMMA BecomesFacts ==
  ASSUME NEW th \in DeployThreads, NEW phase \in {"delete", "apply", "wait", "end"},
         NEW result \in Results, NEW todo \in SUBSET Manifest[Steps[th.step]],
         phase = "delete" => Steps[th.step] \in Workloads
  PROVE  LET new == Becomes(th, phase, todo, result)
         IN /\ Shape(new) /\ new \in DeployThreads
            /\ new.step = th.step /\ new.phase = phase /\ new.todo = todo /\ new.result = result
<1> DEFINE new == Becomes(th, phase, todo, result)
<1>1. th.step \in 1..10 /\ Manifest[Steps[th.step]] \subseteq Resource
  BY ManifestFacts, StepFacts DEF DeployThreads
<1>2. new \in DeployThreads
  BY <1>1 DEF DeployThreads, Becomes
<1>3. new.step = th.step /\ new.phase = phase /\ new.todo = todo /\ new.result = result
  BY DEF DeployThreads, Becomes
<1> QED BY <1>2, <1>3 DEF Shape

\* the ways it goes on, as the code writes them
LEMMA BecomesCases ==
  ASSUME NEW th \in DeployThreads, NEW phase, NEW todo
  PROVE  /\ [th EXCEPT !.phase = phase, !.todo = todo] = Becomes(th, phase, todo, th.result)
         /\ [th EXCEPT !.phase = phase] = Becomes(th, phase, th.todo, th.result)
         /\ [th EXCEPT !.todo = todo] = Becomes(th, th.phase, todo, th.result)
BY DEF DeployThreads, Becomes

LEMMA DeleteExistingInv ==
  ASSUME DeployerInv, NEW t \in 1..PoolSize, DeleteExisting(t) PROVE DeployerInv'
<1> DEFINE th == thread[t]
           M == Manifest[Steps[th.step]]
<1>1. /\ th \in DeployThreads /\ th.phase = "delete" /\ Shape(th) /\ DataOK
      /\ Steps[th.step] \in Workloads /\ M \subseteq Resource
      /\ th.todo # {} => Current(t) \in th.todo /\ Current(t) \in Resource
      /\ th.todo \subseteq M /\ th.result \in Results /\ th.step \in 1..10
  BY AtFacts DEF DeleteExisting, DeployerInv, Shapes, DeployThreads
<1>2. CASE th.todo = {}
  <2> DEFINE new == Becomes(th, "apply", M, th.result)
  <2>1. Shape(new) /\ new \in DeployThreads /\ new.step = th.step /\ new.phase = "apply" /\ new.todo = M
    BY <1>1, BecomesFacts
  <2>2. new = [th EXCEPT !.phase = "apply", !.todo = M]
    BY <1>1, BecomesCases
  <2>3. Move(t, new) /\ UNCHANGED <<status, deployed, pool, requests, restarts, cluster, faults>>
    BY <1>2, <2>2 DEF DeleteExisting
  <2> HIDE DEF new
  <2>4. ThreadFun' /\ Shapes' /\ thread'[t] = new
    BY <2>1, <2>3, MoveFacts DEF DeployerInv
  <2>5. DataOK' /\ NamespacesStay'
    BY <2>3 DEF DeployerInv, DataOK, NamespacesStay
  <2>6. ASSUME PoolSize = 1 PROVE DoneSoFar(thread'[1], cluster', deployed')
    <3>1. Earlier(th.step, cluster, deployed) /\ thread'[1] = new
      BY <1>1, <2>4, <2>6, OneThread DEF DeployerInv, DoneSoFar
    <3>2. Here(new, cluster, deployed)
      BY <2>1 DEF Here, AllThere
    <3> QED BY <2>1, <2>3, <3>1, <3>2 DEF DoneSoFar
  <2> QED BY <2>4, <2>5, <2>6 DEF DeployerInv
<1>3. CASE th.todo # {}
  <2> DEFINE r == Current(t)
             new == Rest(t)
  <2>1. PICK o \in DeleteResource(r) :
          cluster' = [cluster EXCEPT ![r] = o.cluster] /\ faults' = faults + o.faults
    BY <1>3 DEF DeleteExisting
  <2>2. r \in M /\ r \in Resource /\ r[1] # "Namespace"
    BY <1>1, <1>3, ManifestFacts
  <2>3. Move(t, new) /\ UNCHANGED <<status, deployed, pool, requests, restarts>>
    BY <1>3 DEF DeleteExisting
  <2>4. /\ new \in DeployThreads /\ new.phase = "delete" /\ new.step = th.step
        /\ new.todo = th.todo \ {r}
    BY <1>1 DEF Rest, DeployThreads
  <2>5. Shape(new)
    BY <1>1, <2>4 DEF Shape
  <2> HIDE DEF r, new
  <2>6. /\ cluster' \in [Resource -> {"absent", "terminating", "created", "running"}]
        /\ faults' \in 0..MaxFaults /\ \A q \in Resource : q # r => cluster'[q] = cluster[q]
    <3>1. /\ o.cluster \in {"absent", "terminating", "created", "running"}
          /\ o.faults \in 0..1 /\ faults + o.faults <= MaxFaults
      BY <1>1, <2>1, <2>2, DeleteOutcome
    <3> QED BY <1>1, <2>1, <2>2, <3>1, ClusterFacts
  <2>7. DataOK'
    BY <1>1, <2>3, <2>6 DEF DataOK
  <2>8. NamespacesStay'
    BY <2>2, <2>6 DEF DeployerInv, NamespacesStay
  <2>9. ThreadFun' /\ Shapes' /\ thread'[t] = new
    BY <2>3, <2>5, MoveFacts DEF DeployerInv
  <2>10. ASSUME PoolSize = 1 PROVE DoneSoFar(thread'[1], cluster', deployed')
    <3>1. Earlier(th.step, cluster, deployed) /\ thread'[1] = new
      BY <1>1, <2>9, <2>10, OneThread DEF DeployerInv, DoneSoFar
    <3>2. Earlier(th.step, cluster', deployed')
      BY <1>1, <2>2, <2>3, <2>6, <3>1, EarlierKept
    <3> QED BY <2>3, <2>4, <3>1, <3>2 DEF DoneSoFar, Here
  <2> QED BY <2>7, <2>8, <2>9, <2>10 DEF DeployerInv
<1> QED BY <1>2, <1>3

\* all the steps up to the n-th are done when the earlier ones and this one are
LEMMA UpTo ==
  ASSUME NEW n \in 1..10, NEW c, NEW d, Earlier(n, c, d), AllThere(Manifest[Steps[n]], c, d)
  PROVE  \A m \in 1..n : AllThere(Manifest[Steps[m]], c, d)
<1> SUFFICES ASSUME NEW m \in 1..n, NEW r \in Manifest[Steps[m]] PROVE There(r, c, d)
  BY DEF AllThere
<1>1. CASE r \in Manifest[Steps[n]]
  BY <1>1 DEF AllThere
<1>2. CASE r \notin Manifest[Steps[n]]
  <2>1. m \in 1..(n - 1)
    BY <1>2
  <2> QED BY <1>2, <2>1 DEF Earlier, AllThere
<1> QED BY <1>1, <1>2

\* the phase after the creations: they are all there when none has failed
LEMMA AfterApplyFacts ==
  ASSUME NEW th \in DeployThreads, th.todo = {}, th.phase = "apply", NEW c, NEW d,
         Here(th, c, d), Earlier(th.step, c, d)
  PROVE  Shape(AfterApply(th)) /\ DoneSoFar(AfterApply(th), c, d)
<1> DEFINE M == Manifest[Steps[th.step]]
           runs == {r \in M : Runs(r)}
<1>1. CASE th.result = "success" /\ Steps[th.step] \in Workloads
  <2> DEFINE new == Becomes(th, "wait", runs, th.result)
  <2>1. AfterApply(th) = new
    BY <1>1, BecomesCases DEF AfterApply
  <2>2. runs \in SUBSET M /\ th.result \in Results
    BY DEF DeployThreads
  <2>3. Shape(new) /\ new.step = th.step /\ new.phase = "wait"
    <3> HIDE DEF runs
    <3> QED BY <2>2, BecomesFacts
  <2>4. M \ th.todo = M
    OBVIOUS
  <2>5. AllThere(M, c, d)
    BY <1>1, <2>4 DEF Here
  <2> HIDE DEF new
  <2> QED BY <2>1, <2>3, <2>5 DEF DoneSoFar, Here
<1>2. CASE ~(th.result = "success" /\ Steps[th.step] \in Workloads)
  <2> DEFINE new == Becomes(th, "end", {}, th.result)
  <2>1. AfterApply(th) = new
    BY <1>2, BecomesCases DEF AfterApply
  <2>2. th.result \in Results
    BY DEF DeployThreads
  <2>3. Shape(new) /\ new.step = th.step /\ new.phase = "end" /\ new.result = th.result
    BY <2>2, BecomesFacts
  <2>4. M \ th.todo = M
    OBVIOUS
  <2>5. th.result = "success" => AllThere(M, c, d)
    BY <2>4 DEF Here
  <2> HIDE DEF new
  <2> QED BY <2>1, <2>3, <2>5 DEF DoneSoFar, Here
<1> QED BY <1>1, <1>2

\* a resource that is recorded is in the lists, which lose nothing
LEMMA RecordedFacts ==
  ASSUME NEW r \in Resource, deployed \in SUBSET {q \in Resource : q[1] \in ToSet(CleanOrder)}
  PROVE  /\ Recorded(r) \in SUBSET {q \in Resource : q[1] \in ToSet(CleanOrder)}
         /\ deployed \subseteq Recorded(r)
         /\ r[1] # "Namespace" => r \in Recorded(r)
BY ManifestFacts DEF Recorded

\* what a failed creation does to the result of the step
LEMMA ResultKept ==
  ASSUME NEW th \in DeployThreads, NEW todo, NEW o
  PROVE  [[th EXCEPT !.todo = todo] EXCEPT !.result = IF o.result = "success" THEN @ ELSE "failure"]
         = Becomes(th, th.phase, todo, IF o.result = "success" THEN th.result ELSE "failure")
<1>1. CASE o.result = "success"
  BY <1>1 DEF DeployThreads, Becomes
<1>2. CASE o.result # "success"
  BY <1>2 DEF DeployThreads, Becomes
<1> QED BY <1>1, <1>2

LEMMA ApplyInv ==
  ASSUME DeployerInv, NEW t \in 1..PoolSize, Apply(t) PROVE DeployerInv'
<1> DEFINE th == thread[t]
           M == Manifest[Steps[th.step]]
<1>1. /\ th \in DeployThreads /\ th.phase = "apply" /\ DataOK
      /\ M \subseteq Resource
      /\ th.todo # {} => Current(t) \in th.todo /\ Current(t) \in Resource
      /\ th.todo \subseteq M /\ th.result \in Results /\ th.step \in 1..10
  BY AtFacts DEF Apply, DeployerInv, DeployThreads
<1>2. PoolSize = 1 => Earlier(th.step, cluster, deployed) /\ Here(th, cluster, deployed)
  BY <1>1, OneThread DEF DeployerInv, DoneSoFar
<1>3. CASE th.todo = {}
  <2>1. Move(t, AfterApply(th))
        /\ UNCHANGED <<status, deployed, pool, requests, restarts, cluster, faults>>
    BY <1>3 DEF Apply
  <2>2. Shape(AfterApply(th))
    <3>1. th.phase # "wait" /\ th.phase # "end"
      BY <1>1
    <3>2. AfterApply(th) = Becomes(th, "wait", {r \in M : Runs(r)}, th.result)
          \/ AfterApply(th) = Becomes(th, "end", {}, th.result)
      BY <1>1, <1>3, BecomesCases DEF AfterApply
    <3>3. {r \in M : Runs(r)} \in SUBSET M /\ {} \in SUBSET M
      OBVIOUS
    <3>4. Shape(Becomes(th, "wait", {r \in M : Runs(r)}, th.result))
      BY <1>1, <3>3, BecomesFacts
    <3>5. Shape(Becomes(th, "end", {}, th.result))
      BY <1>1, <3>3, BecomesFacts
    <3> QED BY <3>2, <3>4, <3>5
  <2>3. ThreadFun' /\ Shapes' /\ thread'[t] = AfterApply(th)
    BY <2>1, <2>2, MoveFacts DEF DeployerInv
  <2>4. DataOK' /\ NamespacesStay'
    BY <2>1 DEF DeployerInv, DataOK, NamespacesStay
  <2>5. ASSUME PoolSize = 1 PROVE DoneSoFar(thread'[1], cluster', deployed')
    <3>1. DoneSoFar(AfterApply(th), cluster, deployed)
      BY <1>1, <1>2, <1>3, <2>5, AfterApplyFacts
    <3>2. t = 1
      BY <2>5, OneThread
    <3> QED BY <2>1, <2>3, <3>1, <3>2
  <2> QED BY <2>3, <2>4, <2>5 DEF DeployerInv
<1>4. CASE th.todo # {}
  <2> DEFINE r == Current(t)
             todo == th.todo \ {r}
  <2>1. r \in th.todo /\ r \in M /\ r \in Resource
    BY <1>1, <1>4
  <2>2. PICK o \in ApplyResource(r, r[1] # "Namespace") :
          /\ cluster' = [cluster EXCEPT ![r] = o.cluster]
          /\ faults' = faults + o.faults
          /\ Move(t, [Rest(t) EXCEPT !.result = IF o.result = "success" THEN @ ELSE "failure"])
    BY <1>4 DEF Apply
  <2>3. /\ deployed' = Recorded(r) /\ UNCHANGED <<status, pool, requests, restarts>>
    BY <1>4 DEF Apply
  <2>4. /\ o.cluster \in {"absent", "terminating", "created", "running"}
        /\ o.faults \in 0..1 /\ faults + o.faults <= MaxFaults
        /\ o.result = "success" => o.cluster \in {"created", "running"}
        /\ r[1] = "Namespace" => o.cluster # "terminating"
    <3>1. (r[1] # "Namespace") \in BOOLEAN
      OBVIOUS
    <3>2. ~(r[1] # "Namespace") => cluster[r] # "terminating"
      BY <2>1 DEF DeployerInv, NamespacesStay
    <3> HIDE DEF r
    <3> QED BY <1>1, <2>1, <2>2, <3>1, <3>2, ApplyOutcome
  <2> DEFINE result == IF o.result = "success" THEN th.result ELSE "failure"
             new == Becomes(th, "apply", todo, result)
  <2>5. Move(t, new)
    <3>1. Rest(t) = [th EXCEPT !.todo = todo]
      BY DEF Rest
    <3>2. [Rest(t) EXCEPT !.result = IF o.result = "success" THEN @ ELSE "failure"] = new
      <4>1. [[th EXCEPT !.todo = todo] EXCEPT !.result = IF o.result = "success" THEN @ ELSE "failure"]
            = Becomes(th, th.phase, todo, IF o.result = "success" THEN th.result ELSE "failure")
        <5> HIDE DEF todo, th
        <5> QED BY <1>1, ResultKept
      <4>2. new = Becomes(th, th.phase, todo, IF o.result = "success" THEN th.result ELSE "failure")
        BY <1>1
      <4>3. [Rest(t) EXCEPT !.result = IF o.result = "success" THEN @ ELSE "failure"]
            = [[th EXCEPT !.todo = todo] EXCEPT !.result = IF o.result = "success" THEN @ ELSE "failure"]
        <5> HIDE DEF todo, th
        <5> QED BY <3>1
      <4> QED BY <4>1, <4>2, <4>3
    <3> QED BY <2>2, <3>2
  <2>6. /\ Shape(new) /\ new \in DeployThreads /\ new.step = th.step /\ new.phase = "apply"
        /\ new.todo = todo /\ new.result = result
    <3>1. todo \in SUBSET M /\ result \in Results
      BY <1>1 DEF Results
    <3> HIDE DEF todo, result
    <3> QED BY <1>1, <3>1, BecomesFacts
  <2>7. result = "success" => th.result = "success" /\ o.result = "success"
    OBVIOUS
  <2> HIDE DEF new, result, r
  <2>8. /\ cluster' \in [Resource -> {"absent", "terminating", "created", "running"}]
        /\ faults' \in 0..MaxFaults /\ cluster'[r] = o.cluster
        /\ \A q \in Resource : q # r => cluster'[q] = cluster[q]
    BY <1>1, <2>1, <2>2, <2>4, ClusterFacts
  <2>9. /\ deployed' \in SUBSET {q \in Resource : q[1] \in ToSet(CleanOrder)}
        /\ deployed \subseteq deployed'
        /\ r[1] # "Namespace" => r \in deployed'
    BY <1>1, <2>1, <2>3, RecordedFacts DEF DataOK
  <2>10. DataOK'
    BY <1>1, <2>3, <2>8, <2>9 DEF DataOK
  <2>11. NamespacesStay'
    BY <2>4, <2>8 DEF DeployerInv, NamespacesStay
  <2>12. ThreadFun' /\ Shapes' /\ thread'[t] = new
    BY <2>5, <2>6, MoveFacts DEF DeployerInv
  <2>13. ASSUME PoolSize = 1 PROVE DoneSoFar(thread'[1], cluster', deployed')
    <3>1. thread'[1] = new
      BY <2>12, <2>13, OneThread
    <3>2. Earlier(th.step, cluster', deployed')
      BY <1>1, <1>2, <2>1, <2>8, <2>9, <2>13, EarlierKept
    <3>3. ASSUME result = "success", NEW q \in M \ todo PROVE There(q, cluster', deployed')
      <4>1. CASE q = r
        BY <2>4, <2>7, <2>8, <2>9, <3>3, <4>1 DEF There
      <4>2. CASE q # r
        <5>1. There(q, cluster, deployed)
          BY <1>1, <1>2, <2>7, <2>13, <3>3, <4>2 DEF Here, AllThere
        <5> QED BY <1>1, <2>8, <2>9, <3>3, <4>2, <5>1 DEF There
      <4> QED BY <4>1, <4>2
    <3>4. Here(new, cluster', deployed')
      <4> HIDE DEF todo
      <4> QED BY <2>6, <3>3 DEF Here, AllThere
    <3> QED BY <2>6, <3>1, <3>2, <3>4 DEF DoneSoFar
  <2> QED BY <2>10, <2>11, <2>12, <2>13 DEF DeployerInv
<1> QED BY <1>3, <1>4

\* each wait replaces the result
LEMMA ResultReplaced ==
  ASSUME NEW th \in DeployThreads, NEW todo, NEW result
  PROVE  [[th EXCEPT !.todo = todo] EXCEPT !.result = result] = Becomes(th, th.phase, todo, result)
BY DEF DeployThreads, Becomes

LEMMA WaitInv ==
  ASSUME DeployerInv, NEW t \in 1..PoolSize, Wait(t) PROVE DeployerInv'
<1> DEFINE th == thread[t]
           M == Manifest[Steps[th.step]]
<1>1. /\ th \in DeployThreads /\ th.phase = "wait" /\ DataOK
      /\ th.todo # {} => Current(t) \in th.todo /\ Current(t) \in Resource
      /\ th.todo \subseteq M /\ th.result \in Results /\ th.step \in 1..10
  BY AtFacts DEF Wait, DeployerInv, DeployThreads
<1>2. PoolSize = 1 => Earlier(th.step, cluster, deployed) /\ AllThere(M, cluster, deployed)
  BY <1>1, OneThread DEF DeployerInv, DoneSoFar, Here
<1>3. ASSUME NEW phase \in {"wait", "end"}, NEW todo \in SUBSET M, NEW result \in Results,
             Move(t, Becomes(th, phase, todo, result)), faults' \in 0..MaxFaults,
             UNCHANGED <<status, deployed, pool, cluster, requests, restarts>>
      PROVE  DeployerInv'
  <2> DEFINE new == Becomes(th, phase, todo, result)
  <2>1. /\ Shape(new) /\ new \in DeployThreads /\ new.step = th.step /\ new.phase = phase
    BY <1>1, BecomesFacts
  <2>2. Move(t, new)
    BY <1>3
  <2> HIDE DEF new
  <2>3. ThreadFun' /\ Shapes' /\ thread'[t] = new
    BY <2>1, <2>2, MoveFacts DEF DeployerInv
  <2>4. DataOK' /\ NamespacesStay'
    BY <1>3 DEF DeployerInv, DataOK, NamespacesStay
  <2>5. ASSUME PoolSize = 1 PROVE DoneSoFar(thread'[1], cluster', deployed')
    <3>1. thread'[1] = new
      BY <2>3, <2>5, OneThread
    <3>2. cluster' = cluster /\ deployed' = deployed
      BY <1>3
    <3> QED BY <1>2, <1>3, <2>1, <2>5, <3>1, <3>2 DEF DoneSoFar, Here
  <2> QED BY <2>3, <2>4, <2>5 DEF DeployerInv
<1>4. UNCHANGED <<status, deployed, pool, cluster, requests, restarts>>
  BY DEF Wait
<1>5. CASE th.todo = {}
  <2>1. Move(t, [th EXCEPT !.phase = "end"]) /\ UNCHANGED faults
    BY <1>5 DEF Wait
  <2>2. [th EXCEPT !.phase = "end"] = Becomes(th, "end", th.todo, th.result)
    BY <1>1, BecomesCases
  <2>3. Move(t, Becomes(th, "end", th.todo, th.result))
    BY <2>1, <2>2
  <2>4. faults' \in 0..MaxFaults
    BY <1>1, <2>1 DEF DataOK
  <2> QED BY <1>1, <1>3, <1>4, <2>3, <2>4
<1>6. CASE th.todo # {}
  <2>1. PICK o \in WaitRunning(Current(t)) :
          faults' = faults + o.faults /\ Move(t, [Rest(t) EXCEPT !.result = o.result])
    BY <1>6 DEF Wait
  <2>2. o.result \in Results /\ o.faults \in 0..1 /\ faults + o.faults <= MaxFaults
    BY <1>1, <2>1 DEF WaitRunning, DataOK, Results
  <2> DEFINE todo == th.todo \ {Current(t)}
  <2>3. [Rest(t) EXCEPT !.result = o.result] = Becomes(th, "wait", todo, o.result)
    <3>1. Rest(t) = [th EXCEPT !.todo = todo]
      BY DEF Rest
    <3>2. [[th EXCEPT !.todo = todo] EXCEPT !.result = o.result] = Becomes(th, th.phase, todo, o.result)
      <4> HIDE DEF todo, th
      <4> QED BY <1>1, ResultReplaced
    <3> QED BY <1>1, <3>1, <3>2
  <2>4. Move(t, Becomes(th, "wait", todo, o.result))
    BY <2>1, <2>3
  <2>5. faults' \in 0..MaxFaults
    BY <1>1, <2>1, <2>2, BoundsAssumption DEF DataOK
  <2>6. todo \in SUBSET M
    BY <1>1
  <2> HIDE DEF todo
  <2> QED BY <1>3, <1>4, <2>2, <2>4, <2>5, <2>6
<1> QED BY <1>5, <1>6

\* the deployment that ends in READY has done all its steps
LEMMA EndStepFacts ==
  ASSUME DeployerInv, NEW t \in 1..PoolSize, EndStep(t), PoolSize = 1, thread[t].result = "success"
  PROVE  \A m \in 1..thread[t].step : AllThere(Manifest[Steps[m]], cluster, deployed)
<1>1. thread[t] \in DeployThreads /\ thread[t].phase = "end"
  BY AtFacts DEF EndStep
<1>2. thread[t].step \in 1..10
  BY <1>1 DEF DeployThreads
<1>3. Earlier(thread[t].step, cluster, deployed)
      /\ AllThere(Manifest[Steps[thread[t].step]], cluster, deployed)
  BY <1>1, OneThread DEF DeployerInv, DoneSoFar, Here
<1> QED BY <1>2, <1>3, UpTo

LEMMA EndStepInv ==
  ASSUME DeployerInv, NEW t \in 1..PoolSize, EndStep(t) PROVE DeployerInv'
<1> DEFINE n == thread[t].step
<1>1. thread[t] \in DeployThreads /\ n \in 1..10
  BY AtFacts DEF EndStep, DeployThreads
<1>2. DataOK' /\ NamespacesStay'
  BY DEF DeployerInv, DataOK, NamespacesStay, EndStep
<1>3. cluster' = cluster /\ deployed' = deployed
  BY DEF EndStep
<1>4. CASE thread[t].result = "success" /\ n < Len(Steps)
  <2>1. n + 1 \in 1..10 /\ n + 1 - 1 = n
    BY <1>1, <1>4, StepFacts
  <2>2. Shape(BeginStep(n + 1)) /\ Move(t, BeginStep(n + 1))
    BY <1>4, <2>1, BeginFacts DEF EndStep
  <2>3. ThreadFun' /\ Shapes' /\ thread'[t] = BeginStep(n + 1)
    BY <2>2, MoveFacts DEF DeployerInv
  <2>4. ASSUME PoolSize = 1 PROVE DoneSoFar(thread'[1], cluster', deployed')
    <3>1. \A m \in 1..10 : m < n + 1 => AllThere(Manifest[Steps[m]], cluster, deployed)
      <4>1. \A m \in 1..n : AllThere(Manifest[Steps[m]], cluster, deployed)
        BY <1>4, <2>4, EndStepFacts
      <4>2. ASSUME NEW m \in 1..10, m < n + 1 PROVE m \in 1..n
        BY <1>1, <4>2
      <4> QED BY <4>1, <4>2
    <3>2. DoneSoFar(BeginStep(n + 1), cluster, deployed)
      <4> HIDE DEF n
      <4> QED BY <2>1, <3>1, BeginFacts
    <3>3. t = 1
      BY <2>4, OneThread
    <3> QED BY <1>3, <2>3, <3>2, <3>3
  <2> QED BY <1>2, <2>3, <2>4 DEF DeployerInv
<1>5. CASE Move(t, Idle)
  <2>1. ThreadFun' /\ Shapes' /\ thread'[t] = Idle
    BY <1>5, MoveFacts DEF DeployerInv, Shape
  <2>2. ASSUME PoolSize = 1 PROVE DoneSoFar(thread'[1], cluster', deployed')
    BY <2>1, <2>2, OneThread, NotDeploying
  <2> QED BY <1>2, <2>1, <2>2 DEF DeployerInv
<1> QED BY <1>4, <1>5 DEF EndStep

-----------------------------------------------------------------------------
(* A clean-up.                                                             *)

LEMMA CleanKindInv ==
  ASSUME DeployerInv, NEW t \in 1..PoolSize, CleanKind(t) PROVE DeployerInv'
<1>1. thread[t] \in CleanThreads
  BY DEF DeployerInv, Shapes, Shape, CleanKind, Idle, DeployThreads
<1> DEFINE new == [thread[t] EXCEPT !.todo = Tail(@)]
<1>2. new \in CleanThreads
  <2>1. thread[t].todo \in Seq(ToSet(CleanOrder)) /\ thread[t].todo # <<>>
    BY <1>1 DEF CleanThreads, CleanKind
  <2>2. Tail(thread[t].todo) \in Seq(ToSet(CleanOrder))
    BY <2>1
  <2> QED BY <1>1, <2>2 DEF CleanThreads
<1>3. Move(t, new) /\ UNCHANGED <<status, deployed, pool, requests, restarts>>
  BY DEF CleanKind
<1> HIDE DEF new
<1>4. ThreadFun' /\ Shapes' /\ thread'[t] = new
  BY <1>2, <1>3, MoveFacts DEF DeployerInv, Shape
<1>5. PICK kind, gone : DeleteMany(kind, gone)
  BY DEF CleanKind
<1>6. /\ cluster' \in [Resource -> {"absent", "terminating", "created", "running"}]
      /\ NamespacesStay'
  BY <1>5 DEF DeployerInv, DataOK, DeleteMany, NamespacesStay
<1>7. faults' \in 0..MaxFaults
  BY BoundsAssumption DEF DeployerInv, DataOK, CleanKind
<1>8. DataOK'
  BY <1>3, <1>6, <1>7 DEF DeployerInv, DataOK
<1>9. ASSUME PoolSize = 1 PROVE DoneSoFar(thread'[1], cluster', deployed')
  BY <1>2, <1>4, <1>9, OneThread, NotDeploying
<1> QED BY <1>4, <1>6, <1>8, <1>9 DEF DeployerInv

LEMMA EndCleanUpInv == ASSUME DeployerInv, NEW t \in 1..PoolSize, EndCleanUp(t) PROVE DeployerInv'
<1>1. Move(t, Idle) /\ status' = "NOT_INITIALIZED" /\ deployed' = {}
      /\ UNCHANGED <<pool, cluster, requests, faults, restarts>>
  BY DEF EndCleanUp
<1>2. ThreadFun' /\ Shapes' /\ thread'[t] = Idle
  BY <1>1, MoveFacts DEF DeployerInv, Shape
<1>3. DataOK' /\ NamespacesStay'
  BY <1>1 DEF DeployerInv, DataOK, NamespacesStay
<1>4. ASSUME PoolSize = 1 PROVE DoneSoFar(thread'[1], cluster', deployed')
  BY <1>2, <1>4, OneThread, NotDeploying
<1> QED BY <1>2, <1>3, <1>4 DEF DeployerInv

-----------------------------------------------------------------------------
(* The theorems.                                                           *)

LEMMA DeployerInitInv == ASSUME DeployerInit PROVE DeployerInv
<1>1. ThreadFun /\ Shapes
  BY DEF DeployerInit, ThreadFun, Shapes, Shape
<1>2. DataOK /\ NamespacesStay
  BY BoundsAssumption DEF DeployerInit, DataOK, NamespacesStay
<1>3. ASSUME PoolSize = 1 PROVE DoneSoFar(thread[1], cluster, deployed)
  <2>1. thread[1] = Idle
    BY <1>3 DEF DeployerInit
  <2> QED BY <2>1, NotDeploying
<1> QED BY <1>1, <1>2, <1>3 DEF DeployerInv

LEMMA DeployerStutterInv == ASSUME DeployerInv, UNCHANGED deployerVars PROVE DeployerInv'
<1>1. ThreadFun' /\ Shapes'
  BY ThreadFrame DEF DeployerInv, deployerVars
<1>2. DataOK' /\ NamespacesStay'
  BY DEF DeployerInv, DataOK, NamespacesStay, deployerVars
<1>3. ASSUME PoolSize = 1 PROVE DoneSoFar(thread'[1], cluster', deployed')
  BY <1>3 DEF DeployerInv, deployerVars
<1> QED BY <1>1, <1>2, <1>3 DEF DeployerInv

LEMMA DeployerNextInv == ASSUME DeployerInv, [DeployerNext]_deployerVars PROVE DeployerInv'
<1>1. ASSUME NEW action \in {"deploy", "cleanup"}, Trigger(action) PROVE DeployerInv'
  BY <1>1, TriggerInv
<1>2. CASE Restart
  BY <1>2, RestartInv
<1>3. CASE ClusterStep
  BY <1>3, ClusterStepInv
<1>4. ASSUME NEW t \in 1..PoolSize, PoolThread(t) PROVE DeployerInv'
  BY <1>4, TakeRequestInv, DeleteExistingInv, ApplyInv, WaitInv, EndStepInv, CleanKindInv, EndCleanUpInv
     DEF PoolThread
<1>5. CASE UNCHANGED deployerVars
  BY <1>5, DeployerStutterInv
<1> QED BY <1>1, <1>2, <1>3, <1>4, <1>5 DEF DeployerNext

LEMMA DeployerInvariant == DeployerSpec => []DeployerInv
<1>1. DeployerInit => DeployerInv
  BY DeployerInitInv
<1>2. DeployerInv /\ [DeployerNext]_deployerVars => DeployerInv'
  BY DeployerNextInv
<1> QED BY <1>1, <1>2, PTL DEF DeployerSpec

\* Whatever the files, the classes of workers, the size of the pool and the bounds are, the deployer
\* keeps lists of what its steps create, and its threads are at a step (DeployerManager).
THEOREM DeployerTypeCorrect == DeployerSpec => []DeployerTypeOK
<1>1. DeployerSpec => []DeployerInv
  BY DeployerInvariant
<1>2. DeployerInv => DeployerTypeOK
  BY InvType
<1> QED BY <1>1, <1>2, PTL

\* one step of a deployment ends it in READY only when everything is there
LEMMA CompleteStep ==
  ASSUME DeployerInv, PoolSize = 1, [DeployerNext]_deployerVars,
         status = "DEPLOYING", status' = "READY", restarts' = restarts, NEW r \in Resource
  PROVE  cluster[r] \in {"created", "running"} /\ (r[1] # "Namespace" => r \in deployed)
<1>1. ~Restart
  BY DEF Restart, DeployerInv, DataOK
<1>2. \E t \in 1..PoolSize : EndStep(t)
  <2>1. ~ClusterStep /\ \A action : ~Trigger(action)
    BY DEF ClusterStep, Trigger
  <2>2. \A t : ~TakeRequest(t) /\ ~DeleteExisting(t) /\ ~Apply(t) /\ ~Wait(t) /\ ~CleanKind(t) /\ ~EndCleanUp(t)
    BY DEF TakeRequest, DeleteExisting, Apply, Wait, CleanKind, EndCleanUp
  <2>3. ~UNCHANGED deployerVars
    BY DEF deployerVars
  <2> QED BY <1>1, <2>1, <2>2, <2>3 DEF DeployerNext, PoolThread
<1>3. PICK t \in 1..PoolSize : EndStep(t)
  BY <1>2
<1>4. thread[t] \in DeployThreads /\ thread[t].step \in 1..10
  BY <1>3, AtFacts DEF EndStep, DeployThreads
<1>5. thread[t].result = "success" /\ thread[t].step = 10
  BY <1>3, <1>4, StepFacts DEF EndStep
<1>6. \A m \in 1..10 : AllThere(Manifest[Steps[m]], cluster, deployed)
  BY <1>3, <1>5, EndStepFacts
<1>7. PICK m \in 1..10 : r \in Manifest[Steps[m]]
  BY ManifestFacts
<1> QED BY <1>6, <1>7 DEF AllThere, There

\* With the pool of one thread that the configuration asks for, whatever fails and is ignored, times
\* out or is asked for meanwhile: a deployment that ends in READY has created all that its ten steps
\* create, and has put it into the lists (_execute_deployment_steps, _verify_step).
THEOREM Complete ==
  ASSUME PoolSize = 1 PROVE DeployerSpec => DeployedIsComplete
<1>1. DeployerSpec => []DeployerInv
  BY DeployerInvariant
<1>2. DeployerInv /\ [DeployerNext]_deployerVars =>
        [status = "DEPLOYING" /\ status' = "READY" /\ restarts' = restarts =>
           \A r \in Resource : /\ cluster[r] \in {"created", "running"}
                               /\ r[1] # "Namespace" => r \in deployed]_deployerVars
  BY CompleteStep
<1> QED BY <1>1, <1>2, PTL DEF DeployerSpec, DeployedIsComplete

-----------------------------------------------------------------------------
(* A clean-up.                                                             *)

\* As long as the cluster has refused nothing, nothing is on its way out, the services that exist are
\* those in the lists, which is how a clean-up finds them, and a clean-up has left nothing of the kinds
\* it has gone through.
CleanSoFar ==
  faults = 0 =>
    /\ \A r \in Resource : cluster[r] # "terminating"
    /\ \A r \in Resource : r[1] = "Service" /\ cluster[r] # "absent"
                            => r \in deployed /\ cluster[r] = "created"
    /\ thread[1] \in CleanThreads =>
         \A r \in Resource : r[1] # "Namespace" /\ r[1] \notin ToSet(thread[1].todo) => cluster[r] = "absent"

LEMMA ServiceFacts ==
  /\ "Service" \in ToSet(CleanOrder) /\ "Service" \notin DeletedByLabel
  /\ \A k \in ToSet(CleanOrder) : k # "Service" => k \in DeletedByLabel
  /\ \A r \in Resource : r[1] = "Service" => ~Runs(r)
<1>1. DOMAIN CleanOrder = 1..7 /\ DOMAIN Kinds = 1..9
  BY DEF CleanOrder, Kinds
<1>2. ToSet(CleanOrder) = {"Deployment", "StatefulSet", "DaemonSet", "ConfigMap", "Secret", "Service",
                           "PersistentVolumeClaim"}
  BY <1>1 DEF ToSet, CleanOrder
<1>3. {"Deployment", "StatefulSet", "DaemonSet", "ConfigMap", "Secret", "PersistentVolumeClaim"}
        \subseteq ToSet(Kinds)
  BY <1>1 DEF ToSet, Kinds
<1> QED BY <1>2, <1>3 DEF DeletedByLabel, Runs

LEMMA TailKinds ==
  ASSUME NEW S, NEW q \in Seq(S), q # <<>>
  PROVE  Head(q) \in S /\ \A k \in ToSet(q) : k = Head(q) \/ k \in ToSet(Tail(q))
<1>1. /\ Len(q) \in Nat \ {0} /\ DOMAIN q = 1..Len(q) /\ Head(q) = q[1] /\ q[1] \in S
      /\ DOMAIN Tail(q) = 1..Len(q) - 1 /\ \A i \in 1..Len(q) - 1 : Tail(q)[i] = q[i + 1]
  OBVIOUS
<1>2. ASSUME NEW i \in 1..Len(q), i # 1 PROVE q[i] \in ToSet(Tail(q))
  <2>1. i - 1 \in 1..Len(q) - 1 /\ Tail(q)[i - 1] = q[i]
    BY <1>1, <1>2
  <2> QED BY <1>1, <2>1 DEF ToSet
<1> QED BY <1>1, <1>2 DEF ToSet

LEMMA MovedTo ==
  ASSUME ThreadFun, PoolSize = 1, NEW th, Move(1, th) PROVE thread'[1] = th
BY DEF ThreadFun, Move

LEMMA JobsStay ==
  ASSUME NEW th \in DeployThreads, NEW phase, NEW todo, NEW result
  PROVE  /\ th.job = "deploy" /\ [th EXCEPT !.todo = todo].job = "deploy"
         /\ [th EXCEPT !.phase = phase].job = "deploy"
         /\ [th EXCEPT !.phase = phase, !.todo = todo].job = "deploy"
         /\ [[th EXCEPT !.todo = todo] EXCEPT !.result = result].job = "deploy"
BY DEF DeployThreads

LEMMA NoKinds == ToSet(<<>>) = {}
BY DEF ToSet

LEMMA CleanInit == ASSUME DeployerInit, PoolSize = 1 PROVE CleanSoFar
BY DEF DeployerInit, CleanSoFar, CleanThreads, Idle

\* the steps that leave the lists and the faults alone, and put nothing into the cluster
LEMMA CleanFrame ==
  ASSUME CleanSoFar, UNCHANGED <<cluster, deployed, faults>>,
         thread'[1] = thread[1] \/ thread'[1] \notin CleanThreads
  PROVE  CleanSoFar'
BY DEF CleanSoFar

LEMMA CleanStep ==
  ASSUME DeployerInv, DeployerInv', PoolSize = 1, CleanSoFar, [DeployerNext]_deployerVars
  PROVE  CleanSoFar'
<1>1. /\ cluster \in [Resource -> {"absent", "terminating", "created", "running"}] /\ faults \in Nat
      /\ faults' \in Nat /\ thread = [t \in 1..1 |-> thread[t]] /\ Shape(thread[1]) /\ ThreadFun
  BY DEF DeployerInv, DataOK, ThreadFun, Shapes
<1>2. CASE \E action \in {"deploy", "cleanup"} : Trigger(action)
  BY <1>2, CleanFrame DEF Trigger
<1>3. CASE Restart
  <2> SUFFICES ASSUME faults' = 0 PROVE CleanSoFar'
    BY DEF CleanSoFar
  <2>1. PICK unlisted \in {{}} \union {{k} : k \in ToSet(CleanOrder)} :
          /\ faults' = faults + Cardinality(unlisted)
          /\ CheckSystemStatus(unlisted)
    BY <1>3 DEF Restart
  <2>2. unlisted = {} /\ faults = 0
    <3>1. ASSUME NEW k, unlisted = {k} PROVE FALSE
      <4>1. Cardinality(unlisted) = 1
        BY <3>1, FS_Singleton
      <4> QED BY <1>1, <2>1, <4>1
    <3>2. CASE unlisted = {}
      <4>1. Cardinality(unlisted) = 0
        BY <3>2, FS_EmptySet
      <4> QED BY <1>1, <2>1, <3>2, <4>1
    <3> QED BY <3>1, <3>2
  <2>3. ASSUME NEW r \in Resource, r[1] = "Service", cluster[r] # "absent"
        PROVE  cluster[r] = "created" /\ r \in deployed'
    <3>1. cluster[r] = "created" /\ r \in Listed("Service")
      BY <2>2, <2>3, ServiceFacts DEF CleanSoFar, Listed
    <3> QED BY <2>1, <2>2, <3>1, ServiceFacts DEF CheckSystemStatus
  <2>4. thread'[1] \notin CleanThreads /\ cluster' = cluster
    BY <1>3 DEF Restart, CleanThreads, Idle
  <2> QED BY <2>2, <2>3, <2>4 DEF CleanSoFar
<1>4. CASE ClusterStep
  <2> SUFFICES ASSUME faults = 0 PROVE CleanSoFar'
    BY <1>4 DEF CleanSoFar, ClusterStep
  <2>1. PICK r \in Resource : cluster[r] = "created" /\ Runs(r) /\ cluster' = [cluster EXCEPT ![r] = "running"]
    BY <1>4 DEF ClusterStep, CleanSoFar
  <2> QED BY <1>1, <1>4, <2>1, ServiceFacts DEF ClusterStep, CleanSoFar
<1>5. ASSUME NEW t \in 1..PoolSize, PoolThread(t) PROVE CleanSoFar'
  <2>1. t = 1
    BY OneThread
  <2>2. CASE TakeRequest(1)
    <3>1. CASE thread' = [thread EXCEPT ![1] = Cleaning(CleanOrder)]
      <4>1. thread'[1].todo = CleanOrder
        BY <1>1, <3>1 DEF Cleaning
      <4>2. \A r \in Resource : r[1] # "Namespace" => r[1] \in ToSet(CleanOrder)
        BY ManifestFacts
      <4> QED BY <2>2, <4>1, <4>2 DEF TakeRequest, CleanSoFar
    <3>2. CASE thread' = [thread EXCEPT ![1] = BeginStep(1)]
      <4>1. thread'[1] \notin CleanThreads
        BY <1>1, <3>2 DEF BeginStep, Deploying, CleanThreads
      <4> QED BY <2>2, <4>1, CleanFrame DEF TakeRequest
    <3>3. CASE UNCHANGED thread
      BY <2>2, <3>3, CleanFrame DEF TakeRequest
    <3> QED BY <2>2, <3>1, <3>2, <3>3 DEF TakeRequest
  <2>3. ASSUME thread[1].job = "deploy", thread'[1].job = thread[1].job \/ thread'[1] = Idle
        PROVE  thread'[1] \notin CleanThreads
    BY <2>3 DEF CleanThreads, Idle
  <2>4. CASE DeleteExisting(1)
    <3>0. thread[1] \in DeployThreads
      BY <2>1, <2>4, AtFacts DEF DeleteExisting
    <3>1. thread[1].job = "deploy" /\ thread'[1].job = thread[1].job
      <4> DEFINE new == [thread[1] EXCEPT !.phase = "apply", !.todo = Manifest[Steps[thread[1].step]]]
      <4>1. Move(1, new) \/ Move(1, Rest(1))
        BY <2>4 DEF DeleteExisting
      <4>2. new.job = "deploy" /\ Rest(1).job = "deploy"
        BY <3>0 DEF Rest, DeployThreads
      <4> HIDE DEF new
      <4>3. ThreadFun /\ thread[1].job = "deploy"
        BY <1>1, <3>0 DEF DeployThreads
      <4> QED BY <4>1, <4>2, <4>3, MovedTo
    <3>2. CASE UNCHANGED <<cluster, faults>>
      BY <2>3, <2>4, <3>1, <3>2, CleanFrame DEF DeleteExisting
    <3>3. CASE thread[1].todo # {}
      <4>1. Current(1) \in Resource
        BY <2>1, <2>4, <3>3, AtFacts DEF DeleteExisting
      <4>2. PICK o \in DeleteResource(Current(1)) :
              cluster' = [cluster EXCEPT ![Current(1)] = o.cluster] /\ faults' = faults + o.faults
        BY <2>4, <3>3 DEF DeleteExisting
      <4>3. o.faults \in Nat /\ (o.faults = 0 => o.cluster = "absent")
        BY <4>2 DEF DeleteResource, DeletionAwaited
      <4> QED BY <1>1, <2>3, <2>4, <3>1, <4>1, <4>2, <4>3 DEF DeleteExisting, CleanSoFar
    <3> QED BY <2>4, <3>2, <3>3 DEF DeleteExisting
  <2>5. CASE Apply(1)
    <3>0. thread[1] \in DeployThreads
      BY <2>1, <2>5, AtFacts DEF Apply
    <3>1. thread[1].job = "deploy" /\ thread'[1].job = thread[1].job
      <4>1. Move(1, AfterApply(thread[1])) \/ \E result : Move(1, [Rest(1) EXCEPT !.result = result])
        BY <2>5 DEF Apply
      <4>2. AfterApply(thread[1]).job = "deploy" /\ \A result : [Rest(1) EXCEPT !.result = result].job = "deploy"
        BY <3>0, JobsStay DEF Rest, AfterApply
      <4>3. ThreadFun /\ thread[1].job = "deploy"
        BY <1>1, <3>0 DEF DeployThreads
      <4> QED BY <4>1, <4>2, <4>3, MovedTo
    <3>2. CASE UNCHANGED <<deployed, cluster, faults>>
      BY <2>3, <2>5, <3>1, <3>2, CleanFrame DEF Apply
    <3>3. CASE thread[1].todo # {}
      <4>1. Current(1) \in Resource
        BY <2>1, <2>5, <3>3, AtFacts DEF Apply
      <4>2. PICK o \in ApplyResource(Current(1), Current(1)[1] # "Namespace") :
              cluster' = [cluster EXCEPT ![Current(1)] = o.cluster] /\ faults' = faults + o.faults
        BY <2>5, <3>3 DEF Apply
      <4>3. deployed' = Recorded(Current(1)) /\ deployed \subseteq deployed'
            /\ (Current(1)[1] = "Service" => Current(1) \in deployed')
        BY <2>5, <3>3, ServiceFacts DEF Apply, Recorded
      <4>4. /\ o.faults \in Nat
            /\ o.faults = 0 /\ cluster[Current(1)] # "terminating" /\ Current(1)[1] # "Namespace"
                 => o.cluster \in {"created", "absent"}
            /\ o.faults = 0 /\ cluster[Current(1)] # "terminating" => o.cluster # "terminating"
        BY <1>1, <4>1, <4>2 DEF ApplyResource
      <4> QED BY <1>1, <2>3, <2>5, <3>1, <4>1, <4>2, <4>3, <4>4 DEF CleanSoFar
    <3> QED BY <2>5, <3>2, <3>3 DEF Apply
  <2>6. CASE Wait(1)
    <3>0. thread[1] \in DeployThreads
      BY <2>1, <2>6, AtFacts DEF Wait
    <3>1. thread[1].job = "deploy" /\ thread'[1].job = thread[1].job
      <4> DEFINE new == [thread[1] EXCEPT !.phase = "end"]
      <4>1. Move(1, new) \/ \E result : Move(1, [Rest(1) EXCEPT !.result = result])
        BY <2>6 DEF Wait
      <4>2. new.job = "deploy" /\ \A result : [Rest(1) EXCEPT !.result = result].job = "deploy"
        BY <3>0 DEF Rest, DeployThreads
      <4> HIDE DEF new
      <4>3. ThreadFun /\ thread[1].job = "deploy"
        BY <1>1, <3>0 DEF DeployThreads
      <4> QED BY <4>1, <4>2, <4>3, MovedTo
    <3>2. thread'[1] \notin CleanThreads
      BY <2>3, <3>1
    <3>3. faults' = 0 => faults = 0
      <4>1. CASE thread[1].todo = {}
        BY <2>6, <4>1 DEF Wait
      <4>2. CASE thread[1].todo # {}
        <5>1. PICK o \in WaitRunning(Current(1)) : faults' = faults + o.faults
          BY <2>6, <4>2 DEF Wait
        <5>2. o.faults \in {0, 1}
          BY <5>1 DEF WaitRunning
        <5> QED BY <1>1, <5>1, <5>2
      <4> QED BY <4>1, <4>2
    <3> QED BY <2>6, <3>2, <3>3 DEF Wait, CleanSoFar
  <2>7. CASE EndStep(1)
    <3>1. thread[1].job = "deploy" /\ (thread'[1].job = thread[1].job \/ thread'[1] = Idle)
      BY <1>1, <2>7 DEF EndStep, At, Move, BeginStep, Deploying
    <3> QED BY <2>3, <2>7, <3>1, CleanFrame DEF EndStep
  <2>8. CASE CleanKind(1)
    <3> SUFFICES ASSUME faults' = 0 PROVE CleanSoFar'
      BY DEF CleanSoFar
    <3> DEFINE kind == Head(thread[1].todo)
               asked == IF kind \in DeletedByLabel THEN {r \in Resource : r[1] = kind}
                        ELSE {r \in deployed : r[1] = kind}
    <3>1. thread[1] \in CleanThreads
      BY <1>1, <2>8 DEF CleanKind, Shape, DeployThreads, Idle
    <3>2. thread[1].todo \in Seq(ToSet(CleanOrder)) /\ thread[1].todo # <<>>
      BY <2>8, <3>1 DEF CleanKind, CleanThreads
    <3>3. kind \in ToSet(CleanOrder) /\ \A k \in ToSet(thread[1].todo) : k = kind \/ k \in ToSet(Tail(thread[1].todo))
      BY <3>2, TailKinds
    <3>4. faults = 0 /\ DeleteMany(kind, asked) /\ deployed' = deployed
      BY <1>1, <2>8 DEF CleanKind
    <3>5. thread'[1].todo = Tail(thread[1].todo)
      <4>1. thread'[1] = [thread[1] EXCEPT !.todo = Tail(@)]
        BY <1>1, <2>8, MovedTo DEF CleanKind
      <4> QED BY <3>1, <4>1 DEF CleanThreads
    <3>6. \A r \in Resource : r[1] = kind => cluster'[r] = "absent"
      <4>1. CASE kind \in DeletedByLabel
        BY <3>4, <4>1 DEF DeleteMany
      <4>2. CASE kind \notin DeletedByLabel
        <5>1. kind = "Service"
          BY <3>3, <4>2, ServiceFacts
        <5> HIDE DEF kind
        <5> QED BY <3>4, <4>2, <5>1 DEF DeleteMany, CleanSoFar
      <4> QED BY <4>1, <4>2
    <3>7. \A r \in Resource : cluster'[r] \in {cluster[r], "absent"}
      BY <3>4 DEF DeleteMany
    <3> HIDE DEF kind, asked
    <3> QED BY <3>1, <3>3, <3>4, <3>5, <3>6, <3>7 DEF CleanSoFar
  <2>9. CASE EndCleanUp(1)
    <3>1. thread[1] = Cleaning(<<>>) /\ thread'[1] = Idle /\ faults' = faults /\ cluster' = cluster
      BY <1>1, <2>9 DEF EndCleanUp, Move
    <3>2. thread[1] \in CleanThreads /\ ToSet(thread[1].todo) = {}
      BY <1>1, <3>1, NoKinds DEF Shape, DeployThreads, Idle, Cleaning
    <3>3. thread'[1] \notin CleanThreads
      BY <3>1 DEF Idle, CleanThreads
    <3>4. \A r \in Resource : r[1] = "Service" => r[1] # "Namespace"
      OBVIOUS
    <3> QED BY <3>1, <3>2, <3>3, <3>4 DEF CleanSoFar
  <2> QED BY <1>5, <2>1, <2>2, <2>4, <2>5, <2>6, <2>7, <2>8, <2>9 DEF PoolThread
<1>6. CASE UNCHANGED deployerVars
  BY <1>6, CleanFrame DEF deployerVars
<1> QED BY <1>2, <1>3, <1>4, <1>5, <1>6 DEF DeployerNext

LEMMA CleanedStep ==
  ASSUME DeployerInv, PoolSize = 1, CleanSoFar, [DeployerNext]_deployerVars,
         status = "CLEANING", status' = "NOT_INITIALIZED", restarts' = restarts, faults = 0,
         NEW r \in Resource, r[1] # "Namespace"
  PROVE  cluster'[r] = "absent"
<1>1. restarts \in Nat /\ Shape(thread[1])
  BY DEF DeployerInv, DataOK, Shapes
<1>2. EndCleanUp(1)
  <2>1. ~Restart
    BY <1>1 DEF Restart
  <2>2. PICK t \in 1..PoolSize : PoolThread(t)
    BY <2>1 DEF DeployerNext, deployerVars, Trigger, ClusterStep
  <2>3. t = 1
    BY OneThread
  <2> QED BY <2>2, <2>3 DEF PoolThread, TakeRequest, DeleteExisting, Apply, Wait, EndStep, CleanKind
<1>3. thread[1] \in CleanThreads /\ ToSet(thread[1].todo) = {}
  BY <1>1, <1>2, NoKinds DEF EndCleanUp, Shape, DeployThreads, Idle, Cleaning
<1> QED BY <1>2, <1>3 DEF EndCleanUp, CleanSoFar

(* A clean-up leaves nothing but the namespace, if the cluster has refused no request and one thread
   executes them, whether the deployment before it has ended well, has failed or has ended with its
   process (_clean_up_system_step). *)
THEOREM CleansUp ==
  ASSUME PoolSize = 1 PROVE DeployerSpec => CleanedUp
<1>1. DeployerSpec => []DeployerInv
  BY DeployerInvariant
<1>2. DeployerInit => CleanSoFar
  BY CleanInit
<1>3. DeployerInv /\ DeployerInv' /\ CleanSoFar /\ [DeployerNext]_deployerVars => CleanSoFar'
  BY CleanStep
<1>4. DeployerInv /\ CleanSoFar /\ [DeployerNext]_deployerVars =>
        [status = "CLEANING" /\ status' = "NOT_INITIALIZED" /\ restarts' = restarts /\ faults = 0 =>
           \A r \in Resource : r[1] # "Namespace" => cluster'[r] = "absent"]_deployerVars
  BY CleanedStep
<1> QED BY <1>1, <1>2, <1>3, <1>4, PTL DEF DeployerSpec, CleanedUp

-----------------------------------------------------------------------------
(* The monitor of the workers.                                             *)

ThreadStates == {"none", "working", "sleeping", "ended"}
PoolInfos == [Classes -> Nat]

-----------------------------------------------------------------------------
(* What is computed from the pool information has its type.                *)

LEMMA AddType == ASSUME NEW p \in PoolInfos, NEW n \in [Classes -> Nat] PROVE Add(p, n) \in PoolInfos
BY DEF Add, PoolInfos

LEMMA EnvStatusType ==
  ASSUME MonitorTypeOK, NEW answers \in 1..2, EnvStatus(answers)
  PROVE  poolInfo' \in PoolInfos /\ poolInfoNext' \in PoolInfos
<1>1. poolInfo \in PoolInfos /\ alive \in [Classes -> Nat]
  BY DEF MonitorTypeOK, PoolInfos
<1>2. Add(poolInfo, alive) \in PoolInfos
  BY <1>1, AddType
<1>3. Add(Add(poolInfo, alive), alive) \in PoolInfos
  BY <1>1, <1>2, AddType
<1> QED BY <1>2, <1>3 DEF EnvStatus

\* the parts of the type invariant, one by one
LEMMA TypeParts ==
  MonitorTypeOK <=>
    /\ alive \in [Classes -> Nat] /\ broker \in BOOLEAN /\ changes \in 0..MaxChanges
    /\ main \in {"stopped", "starting", "running", "joining", "failed"} /\ starts \in 0..MaxStarts
    /\ stopEvent \in BOOLEAN /\ isReady \in BOOLEAN /\ isRunning \in BOOLEAN
    /\ poolInfo \in PoolInfos /\ poolInfoNext \in PoolInfos /\ builderPool \in PoolInfos
    /\ updater \in [1..MaxStarts -> ThreadStates] /\ pinger \in [1..MaxStarts -> ThreadStates]
    /\ readySent \in BOOLEAN
BY DEF MonitorTypeOK, PoolInfos, ThreadStates

-----------------------------------------------------------------------------
(* One lemma for each action.                                              *)

LEMMA MonitorInitType == ASSUME MonitorInit PROVE MonitorTypeOK
<1>1. NoWorkers \in PoolInfos
  BY DEF NoWorkers, PoolInfos
<1>2. alive \in [Classes -> Nat]
  <2>1. PICK m : alive \in [Classes -> 0..m]
    BY DEF MonitorInit
  <2> QED BY <2>1
<1>3. updater \in [1..MaxStarts -> ThreadStates] /\ pinger \in [1..MaxStarts -> ThreadStates]
  BY DEF MonitorInit, ThreadStates
<1>4. poolInfo \in PoolInfos /\ poolInfoNext \in PoolInfos /\ builderPool \in PoolInfos
  BY <1>1 DEF MonitorInit
<1>5. /\ changes = 0 /\ starts = 0 /\ readySent = FALSE /\ main = "stopped" /\ broker \in BOOLEAN
      /\ stopEvent = FALSE /\ isReady = FALSE /\ isRunning = FALSE
  BY DEF MonitorInit
<1>6. changes \in 0..MaxChanges /\ starts \in 0..MaxStarts
  BY <1>5, MonitorAssumption
<1>7. stopEvent \in BOOLEAN /\ isReady \in BOOLEAN /\ isRunning \in BOOLEAN /\ readySent \in BOOLEAN
  BY <1>5
<1> QED BY <1>2, <1>3, <1>4, <1>5, <1>6, <1>7, TypeParts

LEMMA WorkersChangeType == ASSUME MonitorTypeOK, WorkersChange PROVE MonitorTypeOK'
<1>1. alive' \in [Classes -> Nat]
  BY TypeParts DEF WorkersChange
<1>0. broker' \in BOOLEAN
  BY TypeParts DEF WorkersChange
<1>2. changes' \in 0..MaxChanges
  BY TypeParts, MonitorAssumption DEF WorkersChange
<1> QED BY <1>0, <1>1, <1>2, TypeParts DEF WorkersChange, threadVars, MonitorTypeOK

LEMMA PrepareType == ASSUME MonitorTypeOK, Prepare PROVE MonitorTypeOK'
<1>1. starts' \in 0..MaxStarts
  BY TypeParts, MonitorAssumption DEF Prepare
<1> QED BY <1>1, TypeParts DEF Prepare, MonitorTypeOK, poolVars

LEMMA StartType == ASSUME MonitorTypeOK, Start PROVE MonitorTypeOK'
<1>1. CASE ~Answered
  BY <1>1 DEF Start, MonitorTypeOK, poolVars
<1>2. CASE Answered
  <2>1. poolInfo' \in PoolInfos /\ poolInfoNext' \in PoolInfos
    BY <1>2, EnvStatusType DEF Start
  <2>2. /\ updater' = [updater EXCEPT ![starts] = "working"]
        /\ pinger' = [pinger EXCEPT ![starts] = "working"]
        /\ isRunning' = TRUE /\ main' = "running"
    BY <1>2 DEF Start
  <2>3. updater' \in [1..MaxStarts -> ThreadStates] /\ pinger' \in [1..MaxStarts -> ThreadStates]
    BY <2>2, TypeParts DEF ThreadStates
  <2> QED BY <2>1, <2>2, <2>3, TypeParts DEF Start, MonitorTypeOK, PoolInfos, ThreadStates, poolVars
<1> QED BY <1>1, <1>2

LEMMA StopType == ASSUME MonitorTypeOK, Stop \/ Release PROVE MonitorTypeOK'
BY DEF Stop, Release, MonitorTypeOK, poolVars

LEMMA UpdateWorkerStateType ==
  ASSUME MonitorTypeOK, NEW r \in 1..MaxStarts, UpdateWorkerState(r) PROVE MonitorTypeOK'
<1>1. updater' \in [1..MaxStarts -> ThreadStates]
  BY TypeParts DEF UpdateWorkerState, ThreadStates
<1>2. poolInfo' \in PoolInfos /\ builderPool' \in PoolInfos
  BY TypeParts DEF UpdateWorkerState
<1>3. isReady' \in BOOLEAN /\ readySent' \in BOOLEAN
  BY TypeParts DEF UpdateWorkerState
<1> QED BY <1>1, <1>2, <1>3, TypeParts DEF MonitorTypeOK, UpdateWorkerState, PoolInfos, ThreadStates, poolVars

LEMMA PingWorkersType ==
  ASSUME MonitorTypeOK, NEW r \in 1..MaxStarts, PingWorkers(r) PROVE MonitorTypeOK'
<1>1. pinger' \in [1..MaxStarts -> ThreadStates]
  BY TypeParts DEF PingWorkers, ThreadStates
<1>2. poolInfoNext' \in PoolInfos
  BY TypeParts DEF PingWorkers, PoolInfos
<1> QED BY <1>1, <1>2, TypeParts DEF MonitorTypeOK, PingWorkers, PoolInfos, ThreadStates, poolVars

LEMMA WakeType ==
  ASSUME MonitorTypeOK, NEW r \in 1..MaxStarts, WakeUpdater(r) \/ WakePinger(r) PROVE MonitorTypeOK'
<1>1. updater' \in [1..MaxStarts -> ThreadStates] /\ pinger' \in [1..MaxStarts -> ThreadStates]
  BY TypeParts DEF WakeUpdater, WakePinger, WakeUp, ThreadStates
<1> QED BY <1>1, TypeParts DEF MonitorTypeOK, WakeUpdater, WakePinger, threadVars, poolVars, ThreadStates

-----------------------------------------------------------------------------
(* The theorems.                                                           *)

LEMMA MonitorNextType == ASSUME MonitorTypeOK, [MonitorNext]_monitorVars PROVE MonitorTypeOK'
<1>1. CASE UNCHANGED monitorVars
  BY <1>1 DEF MonitorTypeOK, monitorVars, threadVars, poolVars
<1>2. CASE MonitorNext
  BY <1>2, WorkersChangeType, PrepareType, StartType, StopType, UpdateWorkerStateType, PingWorkersType,
     WakeType DEF MonitorNext, Updater, Pinger
<1> QED BY <1>1, <1>2

\* Whatever the classes of workers and the bounds are, the monitor's variables hold what the code
\* can give them, whichever threads of earlier runs are still there (WorkersStateBuilder).
THEOREM MonitorTypeCorrect == MonitorSpec => []MonitorTypeOK
<1>1. MonitorInit => MonitorTypeOK
  BY MonitorInitType
<1>2. MonitorTypeOK /\ [MonitorNext]_monitorVars => MonitorTypeOK'
  BY MonitorNextType
<1> QED BY <1>1, <1>2, PTL DEF MonitorSpec

-----------------------------------------------------------------------------
(* The three of them.                                                      *)

PlatformInv == ProtocolInv /\ DeployerInv /\ MonitorTypeOK

(* A step of one is a step of it, and the others stutter.                  *)
LEMMA PlatformSteps ==
  ASSUME [PlatformNext]_platformVars
  PROVE  [Next]_vars /\ [DeployerNext]_deployerVars /\ [MonitorNext]_monitorVars
BY DEF PlatformNext, OfProtocol, OfDeployer, OfMonitor, platformVars

LEMMA PlatformInvariant == PlatformSpec => []PlatformInv
<1>1. PlatformInit => PlatformInv
  BY ProtocolInitInv, DeployerInitInv, MonitorInitType DEF PlatformInit, PlatformInv
<1>2. PlatformInv /\ [PlatformNext]_platformVars => PlatformInv'
  BY PlatformSteps, ProtocolNextInv, DeployerNextInv, MonitorNextType DEF PlatformInv
<1> QED BY <1>1, <1>2, PTL DEF PlatformSpec

(* Whatever the resources, the files, the classes of workers and the bounds are, every variable of the *)
(* protocol, the deployer and the monitor holds a value the code can give it.                          *)
THEOREM PlatformTypeCorrect == PlatformSpec => []TypesOK
<1>1. PlatformInv => TypesOK
  BY InvType DEF PlatformInv, TypesOK, ProtocolInv
<1> QED BY <1>1, PlatformInvariant, PTL
=============================================================================
