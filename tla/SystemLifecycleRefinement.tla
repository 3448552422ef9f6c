---------------------- MODULE SystemLifecycleRefinement ----------------------
(***************************************************************************)
(* SystemLifecycle implements RunProtocol: every behaviour of the callbacks *)
(* and of the run manager, with the statuses and commands read as the       *)
(* numbers of RunProtocol, is a behaviour of the protocol, of which         *)
(* PlatformProofs proves that no resource is left behind.  A resource       *)
(* that fails is, for the protocol, one that executes nothing more.         *)
(***************************************************************************)
EXTENDS SystemLifecycle, SequencesExt

\* the status of r; an exception in start_run is one before its echo sets the status
LastStatus(r) ==
  IF ResourceStatusChanged(r, "ERROR") \in Contents(inbox[r]) THEN "ERROR" ELSE status[r]

\* commands r has executed: all those of the runs before its run code, and some of that run
Executed(r) ==
  LET s == LastStatus(r)
      ofThisRun == IF s = "READY" \/ (s = "ERROR" /\ currentRunStarted) THEN 1
                   ELSE IF s = "RUNNING" THEN 2
                   ELSE IF s = "ERROR" THEN 0
                   ELSE 3
  IN  IF runCode[r] = NoRun THEN 0 ELSE 3 * (runCode[r] - 1) + ofThisRun

\* reports of r the system manager has still to see, but for that of a failure
ReportsIn(r, queue) ==
  {i \in DOMAIN queue : /\ queue[i].type = "RESOURCE_STATUS_CHANGED"
                        /\ queue[i].name = r /\ queue[i].status # "ERROR"}
Unseen(r) == Cardinality(ReportsIn(r, inbox[SystemManager])) + Cardinality(ReportsIn(r, outbox[r]))

Reported(r) == Executed(r) - Unseen(r)

\* commands published: those of the executed runs, and some of the current one
Issued ==
  3 * Len(executedRuns)
    + IF currentRun = NoRun \/ \E t \in DOMAIN scheduler : scheduler[t] = "taken" THEN 0
      ELSE IF \E e \in Contents(inbox[SystemManager]) : e.type = "RUN_COMPLETED" THEN 3
      ELSE IF currentRunStarted THEN 2
      ELSE 1

Protocol == INSTANCE RunProtocol WITH
  issued <- Issued,
  executed <- [r \in Resources |-> Executed(r)],
  reported <- [r \in Resources |-> Reported(r)]

\* The lifecycle is a protocol run: commands find every resource in the status for them.
ImplementsRunProtocol == Protocol!Spec

=============================================================================
