-------------------------- MODULE TrajectorySaver --------------------------
(***************************************************************************)
(* How the trajectories of the runs get into the database.  The agent      *)
(* saves the trajectories it has learned from, the trajectory collector    *)
(* what their execution has cost and the task generator what their task    *)
(* was; each has a Saver with a buffer and two threads, and they write     *)
(* their part of the same documents, in any order.                         *)
(*                                                                         *)
(* A trajectory is read from redis, and the code of its run from the       *)
(* saver, only when its batch is written.  Both change when the next run   *)
(* is prepared: 'hurried' tells of a run that was prepared while a thread  *)
(* had still something to write.  A run may end before the agent has       *)
(* observed all its trajectories, or any: the last one and those of failed *)
(* tasks are never complete, and one that is announced as the run ends is  *)
(* observed, and buffered, after the flush; such ids are 'late'.  Left out *)
(* is the run that bootstraps and ends a task early (SystemLifecycle).     *)
(***************************************************************************)
EXTENDS Integers, Sequences, FiniteSets, SequencesExt

CONSTANTS
  RunEnds,         \* the number of the last task of each run
  SaveInterval     \* saver_save_interval: the size of a batch

ASSUME SavingAssumption ==
  /\ RunEnds \in Seq(Nat) /\ RunEnds # <<>>
  /\ \A q, r \in DOMAIN RunEnds : q <= r => RunEnds[q] <= RunEnds[r]
  /\ SaveInterval \in Nat \ {0}

Runs == DOMAIN RunEnds
Savers == {"agent", "collector", "generator"}
TasksOf(r) == (IF r = 1 THEN 1 ELSE RunEnds[r - 1] + 1) .. RunEnds[r]
Ids == 1..RunEnds[Len(RunEnds)]
NoRun == 0

VARIABLES
  enabled, connected,       \* is_trajectory_saving_enabled; whether there is a database
  run, ready,               \* the run, and the resources that are prepared for it
  generated, succeeded, failed,               \* the tasks
  stored, learned, late,                      \* the trajectories in redis, observed, and too late
  disabled, runCode, buffer, jobs, flushed,   \* of each Saver
  hurried,
  documents, runsInfo       \* the collections of the database

tasksVars == <<generated, succeeded, failed>>
saverVars == <<disabled, runCode, buffer, jobs, flushed>>
dbVars == <<documents, runsInfo>>
savingVars == <<enabled, connected, run, ready, tasksVars, stored, learned, late, saverVars, hurried, dbVars>>

\* Saver.init: without a database the saver begins disabled
SavingInit ==
  /\ enabled \in [Runs -> BOOLEAN] /\ connected \in BOOLEAN
  /\ run = 1 /\ ready = {} /\ generated = {} /\ succeeded = {} /\ failed = {}
  /\ stored = {} /\ learned = {} /\ late = {}
  /\ disabled = [s \in Savers |-> ~connected]
  /\ runCode = [s \in Savers |-> NoRun] /\ buffer = [s \in Savers |-> <<>>]
  /\ jobs = [s \in Savers |-> {}] /\ flushed = {} /\ hurried = FALSE
  /\ documents = [k \in Ids |-> [run |-> NoRun, parts |-> {}]]
  /\ runsInfo = [r \in Runs |-> [exists |-> FALSE, trajectories |-> <<>>]]

\* prepare_run: a disabled saver is enabled again, if it was for want of a database too; the agent
\* and the generator write what they know of the run, the collector removes the old trajectories
PrepareRun(s) ==
  /\ s \notin ready /\ flushed = {}
  /\ ready' = ready \union {s}
  /\ disabled' = [disabled EXCEPT ![s] = ~enabled[run]]
  /\ runCode' = IF enabled[run] THEN [runCode EXCEPT ![s] = run] ELSE runCode
  /\ stored' = IF s = "collector" THEN {} ELSE stored
  /\ runsInfo' = IF s # "collector" /\ enabled[run] /\ connected
                 THEN [runsInfo EXCEPT ![run].exists = TRUE] ELSE runsInfo
  /\ hurried' = (hurried \/ \E p \in Savers : jobs[p] # {})
  /\ UNCHANGED <<enabled, connected, run, tasksVars, learned, late, buffer, jobs, flushed, documents>>

\* mutant: the buffer is handed over and kept
PushKeeping(s, k) ==
  /\ UNCHANGED <<disabled, runCode, flushed>>
  /\ LET longer == Append(buffer[s], k)
     IN /\ buffer' = IF disabled[s] THEN buffer ELSE [buffer EXCEPT ![s] = longer]
        /\ jobs' = IF disabled[s] \/ Len(longer) # SaveInterval THEN jobs
                   ELSE [jobs EXCEPT ![s] = @ \union {[ids |-> longer, at |-> "documents"]}]

\* push_trajectory, push_trajectory_extra: a full buffer becomes a job of the pool
Push(s, k) ==
  /\ UNCHANGED <<disabled, runCode, flushed>>
  /\ LET longer == Append(buffer[s], k)
     IN IF disabled[s] THEN UNCHANGED <<buffer, jobs>>
        ELSE IF Len(longer) = SaveInterval
        THEN /\ buffer' = [buffer EXCEPT ![s] = <<>>]
             /\ jobs' = [jobs EXCEPT ![s] = @ \union {[ids |-> longer, at |-> "documents"]}]
        ELSE buffer' = [buffer EXCEPT ![s] = longer] /\ UNCHANGED jobs

Running == ready = Savers /\ flushed = {}

\* the tasks are known in the order in which they are generated
GenerateTask(k) ==
  /\ Running /\ k \in TasksOf(run) \ generated /\ \A j \in 1..k-1 : j \in generated
  /\ generated' = generated \union {k}
  /\ Push("generator", k)
  /\ UNCHANGED <<enabled, connected, run, ready, succeeded, failed, stored, learned, late, hurried, dbVars>>

InExecution(k) == Running /\ k \in TasksOf(run) /\ k \in generated \ (succeeded \union failed)

\* a task has succeeded: its cost is known, and then its reward
SucceedTask(k) ==
  /\ InExecution(k)
  /\ succeeded' = succeeded \union {k} /\ stored' = stored \union {k}
  /\ Push("collector", k)
  /\ UNCHANGED <<enabled, connected, run, ready, generated, failed, learned, late, hurried, dbVars>>

\* a task has failed: it has no cost, and no reward, and its trajectory is never complete
FailTask(k) ==
  /\ InExecution(k)
  /\ failed' = failed \union {k}
  /\ UNCHANGED <<enabled, connected, run, ready, generated, succeeded, stored, learned, late, saverVars,
                 hurried, dbVars>>

\* the agent is told of a complete trajectory, sooner or later or never, and learns from it for as long
\* as its run is not completed: after the end of the execution too, when its buffer is flushed
ObserveTrajectory(k) ==
  /\ ready = Savers /\ k \in stored \ learned
  /\ learned' = learned \union {k}
  /\ late' = IF "agent" \in flushed THEN late \union {k} ELSE late
  /\ Push("agent", k)
  /\ UNCHANGED <<enabled, connected, run, ready, tasksVars, stored, hurried, dbVars>>

-----------------------------------------------------------------------------
(* The database. *)

\* bulk_update with upsert: a part of each document, whichever of its parts exist
SaveParts(s, ids) ==
  documents' = [k \in Ids |->
    IF k \notin Range(ids) THEN documents[k]
    ELSE [run |-> IF s = "agent" THEN runCode[s] ELSE documents[k].run,
          parts |-> documents[k].parts \union {s}]]

\* $push of the ids, to the document of the run if there is one
PushToRunsInfo(s, ids) ==
  runsInfo' = IF runCode[s] # NoRun /\ runsInfo[runCode[s]].exists
              THEN [runsInfo EXCEPT ![runCode[s]].trajectories = @ \o ids] ELSE runsInfo

Readable(s, ids) == connected /\ (s = "agent" => Range(ids) \subseteq stored)

\* a thread of the pool writes the documents of its batch; an exception, for a trajectory that is
\* gone or a database that is not there, loses the batch and is only logged
SaveBulkTrajectories(s, job) ==
  /\ job \in jobs[s] /\ job.at = "documents"
  /\ IF disabled[s] \/ ~Readable(s, job.ids)
     THEN jobs' = [jobs EXCEPT ![s] = @ \ {job}] /\ UNCHANGED documents
     ELSE /\ SaveParts(s, job.ids)
          /\ jobs' = [jobs EXCEPT ![s] = (@ \ {job}) \union
                       (IF s = "agent" THEN {[job EXCEPT !.at = "info"]} ELSE {})]
  /\ UNCHANGED <<enabled, connected, run, ready, tasksVars, stored, learned, late, disabled, runCode,
                 buffer, flushed, hurried, runsInfo>>

\* then the ids, under the code that the saver has by now
SaveBulkInfo(s, job) ==
  /\ job \in jobs[s] /\ job.at = "info"
  /\ PushToRunsInfo(s, job.ids)
  /\ jobs' = [jobs EXCEPT ![s] = @ \ {job}]
  /\ UNCHANGED <<enabled, connected, run, ready, tasksVars, stored, learned, late, disabled, runCode,
                 buffer, flushed, hurried, documents>>

\* all tasks are counted, the failed ones too, and the execution is at its end: the consumer writes what
\* is left in the buffer, itself and without waiting for the pool; this raises, and the resource is in
\* error and the run never completed, without a database or if the buffer has a trajectory that is gone
Flush(s) ==
  /\ ready = Savers /\ s \notin flushed /\ TasksOf(run) \subseteq succeeded \union failed
  /\ IF disabled[s] \/ buffer[s] = <<>> THEN UNCHANGED <<buffer, dbVars>>
     ELSE /\ Readable(s, buffer[s])
          /\ SaveParts(s, buffer[s])
          /\ IF s = "agent" THEN PushToRunsInfo(s, buffer[s]) ELSE UNCHANGED runsInfo
          /\ buffer' = [buffer EXCEPT ![s] = <<>>]
  /\ flushed' = flushed \union {s}
  /\ UNCHANGED <<enabled, connected, run, ready, tasksVars, stored, learned, late, disabled, runCode,
                 jobs, hurried>>

\* the system manager goes on to the next run when all have stopped; no buffer is emptied
NextRun ==
  /\ flushed = Savers /\ run < Len(RunEnds)
  /\ run' = run + 1 /\ ready' = {} /\ flushed' = {}
  /\ UNCHANGED <<enabled, connected, tasksVars, stored, learned, late, disabled, runCode, buffer, jobs,
                 hurried, dbVars>>

SavingNext ==
  \/ \E s \in Savers : PrepareRun(s) \/ Flush(s)
  \/ \E k \in Ids : GenerateTask(k) \/ SucceedTask(k) \/ FailTask(k) \/ ObserveTrajectory(k)
  \/ \E s \in Savers : \E job \in jobs[s] : SaveBulkTrajectories(s, job) \/ SaveBulkInfo(s, job)
  \/ NextRun

SavingSpec == SavingInit /\ [][SavingNext]_savingVars

-----------------------------------------------------------------------------
(* Properties. *)

\* Types; a buffer is never as long as a batch, and nothing is to be written twice by one saver.
SavingTypeOK ==
  /\ run \in Runs /\ ready \subseteq Savers /\ flushed \subseteq ready
  /\ disabled \in [Savers -> BOOLEAN] /\ runCode \in [Savers -> Runs \union {NoRun}]
  /\ \A s \in Savers :
       /\ Len(buffer[s]) < SaveInterval
       /\ \A job \in jobs[s] : Range(job.ids) \intersect Range(buffer[s]) = {}

Done(r) == r < run \/ (r = run /\ flushed = Savers)

LateBefore(r) == {k \in late : \E q \in Runs : q < r /\ k \in TasksOf(q)}
ListedWith(r) == Range(runsInfo[r].trajectories)

\* What there is of the document of a task of a run
DocumentOf(r, k) ==
  [run |-> IF k \in ListedWith(r) THEN r ELSE NoRun,
   parts |-> {"generator"} \union (IF k \in succeeded THEN {"collector"} ELSE {})
                          \union (IF k \in ListedWith(r) THEN {"agent"} ELSE {})]

\* Trajectories are saved once and under their own run, and nothing is saved in part.  No id is listed
\* twice in the runs.  Unless a run was prepared in a hurry, a run lists only trajectories of its own
\* that the agent has learned from; and when a run that saves its trajectories is done and nothing is
\* left to write, each of its tasks has a document, with what the task was, what it has cost if it has
\* succeeded, and the trajectory and the code of the run if it is listed.  All are listed that the
\* agent has learned from before its flush, if no trajectory of an earlier run came after it: such an id
\* stays in the buffer, and a batch it gets into is lost.
TrajectoriesSavedOnce ==
  /\ \A q, r \in Runs : \A i \in DOMAIN runsInfo[q].trajectories, j \in DOMAIN runsInfo[r].trajectories :
       runsInfo[q].trajectories[i] = runsInfo[r].trajectories[j] => q = r /\ i = j
  /\ ~hurried => \A r \in Runs : ListedWith(r) \subseteq TasksOf(r) \intersect learned
  /\ \A r \in Runs :
       ~hurried /\ Done(r) /\ enabled[r] /\ connected /\ (\A s \in Savers : jobs[s] = {}) =>
         /\ \A k \in TasksOf(r) : documents[k] = DocumentOf(r, k)
         /\ LateBefore(r) = {} => (learned \ late) \intersect TasksOf(r) \subseteq ListedWith(r)
=============================================================================
