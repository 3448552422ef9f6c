----------------------------- MODULE RunProtocol -----------------------------
(***************************************************************************)
(* What the run lifecycle promises, for any set of resources.              *)
(*                                                                         *)
(* A run is three commands, which the system manager publishes once for    *)
(* all the resources: PREPARE_NEW_RUN, START_RUN and RUN_COMPLETED.  A      *)
(* resource that executes one moves to the next status of                   *)
(*     WAITING -> READY -> RUNNING -> WAITING                               *)
(* and reports it.  Commands and reports are numbered from the first run    *)
(* on, so that three counters tell where everybody is: how many commands    *)
(* are issued, how many each resource has executed, and how many of its     *)
(* reports the system manager has seen.                                     *)
(*                                                                         *)
(* The system manager, however, sees statuses and no numbers, and a status  *)
(* comes back every third command.  That it never confuses one run with     *)
(* another is what this specification states and PlatformProofs proves.     *)
(***************************************************************************)
EXTENDS Integers

CONSTANTS
  Resources,  \* the resources the system manager waits for
  NumRuns     \* length of the list of runs

ASSUME ProtocolAssumption == Resources # {} /\ NumRuns \in Nat

VARIABLES
  issued,     \* commands published
  executed,   \* by each resource: commands executed
  reported    \* by each resource: statuses the system manager has seen

vars == <<issued, executed, reported>>

\* the status of a resource after n commands
StatusAfter(n) == IF n % 3 = 0 THEN "WAITING" ELSE IF n % 3 = 1 THEN "READY" ELSE "RUNNING"

\* the run a resource works on, or has last worked on, after n commands
RunAfter(n) == (n + 2) \div 3

\* the status of r as the system manager knows it
View(r) == StatusAfter(reported[r])

Init ==
  /\ issued = 0
  /\ executed = [r \in Resources |-> 0]
  /\ reported = [r \in Resources |-> 0]

Issue == issued' = issued + 1 /\ UNCHANGED <<executed, reported>>

\* mutant: the next run is prepared without waiting for the resources
PrepareUnseen == issued % 3 = 0 /\ issued < 3 * NumRuns /\ Issue

\* mutant: some resource is ready
StartWithSome == issued % 3 = 1 /\ (\E r \in Resources : View(r) = "READY") /\ Issue

\* PREPARE_NEW_RUN: there is a run left and every resource is known to be WAITING
PrepareNextRun ==
  /\ issued % 3 = 0 /\ issued < 3 * NumRuns
  /\ \A r \in Resources : View(r) = "WAITING"
  /\ Issue

\* START_RUN: every resource is known to be READY
StartNextRun ==
  /\ issued % 3 = 1
  /\ \A r \in Resources : View(r) = "READY"
  /\ Issue

\* RUN_COMPLETED: from the statistics, without a look at the statuses; some resource has started
CompleteRun ==
  /\ issued % 3 = 2
  /\ \E r \in Resources : executed[r] = issued
  /\ Issue

Execute(r) ==
  /\ executed[r] < issued
  /\ executed' = [executed EXCEPT ![r] = @ + 1]
  /\ UNCHANGED <<issued, reported>>

Learn(r) ==
  /\ reported[r] < executed[r]
  /\ reported' = [reported EXCEPT ![r] = @ + 1]
  /\ UNCHANGED <<issued, executed>>

Next ==
  \/ PrepareNextRun
  \/ StartNextRun
  \/ CompleteRun
  \/ \E r \in Resources : Execute(r) \/ Learn(r)

Spec == Init /\ [][Next]_vars

-----------------------------------------------------------------------------
\* The counters are counters.
TypeOK ==
  /\ issued \in Nat
  /\ executed \in [Resources -> Nat]
  /\ reported \in [Resources -> Nat]

(* Resources that are READY or RUNNING work on the same run: prepare_run of one run and the    *)
(* execution of another never overlap.                                                         *)
OneRunAtATime ==
  \A r, q \in Resources :
    StatusAfter(executed[r]) # "WAITING" /\ StatusAfter(executed[q]) # "WAITING"
      => RunAfter(executed[r]) = RunAfter(executed[q])

(* A command that waits for everybody reaches everybody in the status for it: when the system  *)
(* manager publishes PREPARE_NEW_RUN or START_RUN, every resource has executed every command   *)
(* before it, so that no callback drops one of them.                                           *)
NobodyBehind ==
  [][PrepareNextRun \/ StartNextRun => \A r \in Resources : executed[r] = issued]_vars

(* No resource is more than two commands behind, and the system manager never knows less than  *)
(* that about it: the statuses it sees tell the runs apart.                                    *)
BoundedLag ==
  \A r \in Resources :
    /\ reported[r] <= executed[r] /\ executed[r] <= issued
    /\ issued - reported[r] <= 2

\* All the runs that begin belong to the list.
RunsBounded == issued <= 3 * NumRuns

=============================================================================
