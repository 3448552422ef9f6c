--------------------------- MODULE WorkersMonitor ---------------------------
(***************************************************************************)
(* The monitor of the worker pool in the trajectory collector: start and    *)
(* stop, called by the consumer thread when a run is prepared and completed, *)
(* and the two threads, one that follows the load of the workers and one    *)
(* that pings them.  Both may outlive their run, as stop waits for a bounded *)
(* time and then forgets them.  One round of a thread is one step; how many *)
(* workers of a class are busy and what is queued at them is left out.      *)
(***************************************************************************)
EXTENDS Integers, FiniteSets, FiniteSetsExt, Functions

CONSTANTS
  Replicas,    \* class of workers -> configured number of workers
  MaxStarts,   \* bound: runs
  MaxChanges   \* bound: workers that come or go, the broker's own included

ASSUME MonitorAssumption == MaxStarts \in Nat /\ MaxChanges \in Nat

VARIABLES
  alive,        \* external: class -> workers that answer
  broker,       \* external: whether the worker of the task broker answers
  changes,
  main,         \* the consumer thread: "stopped", "starting", "running", "joining", "failed"
  starts,
  stopEvent, isReady, isRunning,
  poolInfo, poolInfoNext,  \* class -> workers
  builderPool,  \* what the state builder was last given
  updater, pinger,  \* run -> its thread: "none", "working", "sleeping" or "ended"
  readySent      \* history: READY was reported since the run was prepared

poolVars == <<alive, broker, changes>>
threadVars == <<stopEvent, isReady, isRunning, poolInfo, poolInfoNext, builderPool, readySent>>
monitorVars == <<poolVars, main, starts, updater, pinger, threadVars>>

-----------------------------------------------------------------------------
Classes == DOMAIN Replicas
Total(f) == FoldFunction(+, 0, f)

NoWorkers == [c \in Classes |-> 0]

\* celery is RUNNING when the broker and every class answer with exactly the workers they are
\* configured for
CeleryStatus(b, n) == IF b /\ \A c \in Classes : Replicas[c] - n[c] = 0 THEN "RUNNING" ELSE "NOT_READY"

\* a ping or an inspection has an answer from whoever is there
Answered == broker \/ Total(alive) > 0

MonitorInit ==
  \* no run is prepared before the system manager has found celery RUNNING
  /\ broker \in BOOLEAN
  /\ alive \in {n \in [Classes -> 0..Max({Replicas[c] : c \in Classes})] : CeleryStatus(broker, n) = "RUNNING"}
  /\ changes = 0
  /\ main = "stopped" /\ starts = 0
  /\ stopEvent = FALSE /\ isReady = FALSE /\ isRunning = FALSE
  /\ poolInfo = NoWorkers /\ poolInfoNext = NoWorkers /\ builderPool = NoWorkers
  /\ updater = [r \in 1..MaxStarts |-> "none"] /\ pinger = [r \in 1..MaxStarts |-> "none"]
  /\ readySent = FALSE

\* workers come and go, and so does the broker's
WorkersChange ==
  /\ changes < MaxChanges /\ changes' = changes + 1
  /\ \/ \E c \in Classes, d \in {-1, 1} :
           /\ alive[c] + d \in 0..Replicas[c]
           /\ alive' = [alive EXCEPT ![c] = @ + d] /\ UNCHANGED broker
     \/ broker' = ~broker /\ UNCHANGED alive
  /\ UNCHANGED <<main, starts, updater, pinger, threadVars>>

-----------------------------------------------------------------------------
(* The consumer thread.                                                     *)

\* mutant: READY is taken to be unset since the stop
PrepareReady ==
  /\ main = "stopped" /\ starts < MaxStarts
  /\ ~isRunning /\ main' = "starting" /\ starts' = starts + 1 /\ readySent' = FALSE
  /\ UNCHANGED <<poolVars, stopEvent, isReady, isRunning, poolInfo, poolInfoNext, builderPool, updater, pinger>>

\* prepare_run of the context, and the beginning of start
Prepare ==
  /\ main = "stopped" /\ starts < MaxStarts
  /\ isReady' = FALSE /\ readySent' = FALSE
  /\ ~isRunning /\ main' = "starting" /\ starts' = starts + 1
  /\ UNCHANGED <<poolVars, stopEvent, isRunning, poolInfo, poolInfoNext, builderPool, updater, pinger>>

\* the workers that answer are added to those known from the run before
Add(pool, n) == [c \in Classes |-> pool[c] + n[c]]

\* env_status.  When the queues do not match the answer the status is taken again, and then once more
\* from the first answer; a ping without an answer is repeated too, but its caller goes on with what
\* it has and raises.
EnvStatus(answers) ==
  LET once == Add(poolInfo, alive)
      pool == IF answers = 2 THEN Add(once, alive) ELSE once
  IN poolInfo' = pool /\ poolInfoNext' = pool

Start ==
  /\ main = "starting"
  /\ IF ~Answered
     THEN main' = "failed" /\ UNCHANGED <<isRunning, poolInfo, poolInfoNext, updater, pinger>>
     ELSE /\ \E answers \in 1..2 : EnvStatus(answers)
          /\ updater' = [updater EXCEPT ![starts] = "working"]
          /\ pinger' = [pinger EXCEPT ![starts] = "working"]
          /\ isRunning' = TRUE /\ main' = "running"
  /\ UNCHANGED <<poolVars, starts, stopEvent, isReady, builderPool, readySent>>

Stop ==
  /\ main = "running"
  /\ stopEvent' = TRUE /\ main' = "joining"
  /\ UNCHANGED <<poolVars, starts, isReady, isRunning, poolInfo, poolInfoNext, builderPool, updater,
                 pinger, readySent>>

\* Each thread is joined for five seconds, and then forgotten whether it has ended or not: one that
\* is in a ping or an inspection, or that sleeps for as long (workers_ping_interval), looks at the
\* stop event when it is clear again.
Release ==
  /\ main = "joining"
  /\ isReady' = FALSE /\ isRunning' = FALSE /\ stopEvent' = FALSE /\ main' = "stopped"
  /\ UNCHANGED <<poolVars, starts, poolInfo, poolInfoNext, builderPool, updater, pinger, readySent>>

-----------------------------------------------------------------------------
(* The threads.  Each looks at the stop event when it has slept.            *)

WakeUp(thread, r) ==
  thread[r] = "sleeping" /\ thread' = [thread EXCEPT ![r] = IF stopEvent THEN "ended" ELSE "working"]

\* _update_worker_state; when nobody answers the inspection the thread ends.  The broker's worker
\* alone is an answer, which says nothing of the classes.
UpdateWorkerState(r) ==
  /\ updater[r] = "working"
  /\ poolInfo' = poolInfoNext
  /\ IF ~Answered
     THEN updater' = [updater EXCEPT ![r] = "ended"] /\ UNCHANGED <<builderPool, isReady, readySent>>
     ELSE /\ builderPool' = poolInfo'
          /\ isReady' = TRUE /\ readySent' = (readySent \/ ~isReady)
          /\ updater' = [updater EXCEPT ![r] = "sleeping"]
  /\ UNCHANGED <<poolVars, main, starts, stopEvent, isRunning, poolInfoNext, pinger>>

\* mutant: what the ping finds is used only when there are more workers
PingForMore(r) ==
  /\ pinger[r] = "working" /\ Answered
  /\ poolInfoNext' = IF Total(alive) > Total(poolInfoNext) THEN alive ELSE poolInfoNext
  /\ pinger' = [pinger EXCEPT ![r] = "sleeping"]
  /\ UNCHANGED <<poolVars, main, starts, stopEvent, isReady, isRunning, poolInfo, builderPool,
                 updater, readySent>>

\* _ping_workers: only another number of workers replaces what is known
PingWorkers(r) ==
  /\ pinger[r] = "working"
  /\ IF ~Answered
     THEN pinger' = [pinger EXCEPT ![r] = "ended"] /\ UNCHANGED poolInfoNext
     ELSE /\ poolInfoNext' = IF Total(alive) = Total(poolInfoNext) THEN poolInfoNext ELSE alive
          /\ pinger' = [pinger EXCEPT ![r] = "sleeping"]
  /\ UNCHANGED <<poolVars, main, starts, stopEvent, isReady, isRunning, poolInfo, builderPool,
                 updater, readySent>>

WakeUpdater(r) == WakeUp(updater, r) /\ UNCHANGED <<poolVars, main, starts, pinger, threadVars>>
WakePinger(r) == WakeUp(pinger, r) /\ UNCHANGED <<poolVars, main, starts, updater, threadVars>>

Updater(r) == UpdateWorkerState(r) \/ WakeUpdater(r)
Pinger(r) == PingWorkers(r) \/ WakePinger(r)

MonitorNext ==
  \/ WorkersChange \/ Prepare \/ Start \/ Stop \/ Release
  \/ \E r \in 1..MaxStarts : Updater(r) \/ Pinger(r)

\* the threads run, and start and stop come to their end; nobody has to stop a run
MonitorFairness ==
  /\ WF_monitorVars(Start) /\ WF_monitorVars(Release)
  /\ \A r \in 1..MaxStarts : WF_monitorVars(Updater(r)) /\ WF_monitorVars(Pinger(r))

MonitorSpec == MonitorInit /\ [][MonitorNext]_monitorVars /\ MonitorFairness

-----------------------------------------------------------------------------
(* Properties.                                                              *)

\* Every variable holds a value the code can give it (WorkersStateBuilder.__init__).
MonitorTypeOK ==
  /\ alive \in [Classes -> Nat] /\ broker \in BOOLEAN /\ changes \in 0..MaxChanges
  /\ main \in {"stopped", "starting", "running", "joining", "failed"} /\ starts \in 0..MaxStarts
  /\ {stopEvent, isReady, isRunning, readySent} \subseteq BOOLEAN
  /\ {poolInfo, poolInfoNext, builderPool} \subseteq [Classes -> Nat]
  /\ \A f \in {updater, pinger} : f \in [1..MaxStarts -> {"none", "working", "sleeping", "ended"}]

\* Whatever workers come and go, whatever an earlier run has left in pool_info (its workers are
\* counted twice at the next start) and whichever of its threads are still there: as long as both
\* threads of the run live, the state builder comes to know the number of workers there are.
PoolSettles ==
  <>[](main = "running" /\ updater[starts] # "ended" /\ pinger[starts] # "ended" =>
         Total(builderPool) = Total(alive))

\* Every run that is started is reported READY, unless it is stopped or its updating thread ends
\* before: also when a thread that outlived an earlier run has set is_ready between the two, which
\* prepare_run therefore has to unset again (_update_state_builder_pool_info, prepare_run).
ReadyIsReported ==
  main = "running" ~> readySent \/ main # "running" \/ updater[starts] = "ended"

=============================================================================
