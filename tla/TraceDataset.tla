---------------------------- MODULE TraceDataset ----------------------------
(***************************************************************************)
(* The preparation of the google traces: processes of traces.py, each of   *)
(* which does some of the steps, with a pool of threads in a step; the     *)
(* cleaner and the export, which are run by hand between them.  The files  *)
(* of events go to two collections of a database, from these come the      *)
(* classes of tasks, the dataset, and the tasks of an evaluation.          *)
(*                                                                         *)
(* Memory is requested like cpus, and left out.                            *)
(***************************************************************************)
EXTENDS Integers, Sequences, SequencesExt, FiniteSets, FiniteSetsExt, Functions, TLC

CONSTANTS
  Files,          \* step 2 and 3 -> its files, each the lines of events
  MaxPerMachine,  \* the machines a job may have per task, or "any"
  Plans,          \* process -> the steps that it may be started for; as many processes (bound)
  Threads,
  BatchSize,      \* of instance events: more are saved
  RowBatch,       \* of rows of the dataset: more are inserted
  NumClasses,     \* classes of tasks to extract
  MaxFaults       \* bound: downloads that fail

Lines(s) == UNION {Range(file) : file \in Range(Files[s])}

ASSUME TracesAssumption ==
  /\ {BatchSize, RowBatch, MaxFaults} \subseteq Nat /\ NumClasses \in Nat \ {0}
  /\ Plans \in Seq(SUBSET Seq(2..6))
  /\ \A s \in {2, 3} : Files[s] \in Seq(Seq(Lines(s))) /\ \A line \in Lines(s) : line.time \in Nat

VARIABLES
  process,     \* how many there have been
  step, steps, \* of the process: the step it does and those to do
  queue,       \* what no thread of the pool has taken
  thread,
  collections, \* the collections of steps 2 and 3: the bag of the documents of each
  expected,    \* what the files that were read to their end have to leave there
  tidy,        \* collections that were cleaned after the last insertion
  classes,     \* a bag, too
  dataset, jobTypes, exported,
  faults

dataVars == <<collections, expected, tidy>>
resultVars == <<classes, dataset, jobTypes, exported>>
traceVars == <<process, step, steps, queue, thread, dataVars, resultVars, faults>>

None == -1
Free == [phase |-> "idle"]
NoJobs == [isolated |-> 0, no_relationship |-> 0, children |-> 0, sequential |-> 0]

TracesInit ==
  /\ process = 0 /\ step = 0 /\ steps = <<>> /\ queue = <<>>
  /\ thread = [t \in Threads |-> Free]
  /\ collections = [s \in {2, 3} |-> EmptyBag] /\ expected = [s \in {2, 3} |-> {}] /\ tidy = {}
  /\ classes = EmptyBag /\ dataset = <<>> /\ jobTypes = NoJobs /\ exported = <<>>
  /\ faults = 0

-----------------------------------------------------------------------------
(* Events.                                                                 *)

AcceptedTypes == {"SCHEDULE", "FINISH", "UPDATE_RUNNING"}

Documents(s) == BagToSet(collections[s])
Copies(bag) == UNION {{x} \X (1..bag[x]) : x \in BagToSet(bag)}

\* get_collection_events_unique_ids
CollectionIds == {d.event.id : d \in Documents(2)}

\* append: the line is an event to be saved
Accepted(s, line) ==
  /\ line.type \in AcceptedTypes
  /\ IF s = 2 THEN ~line.parent /\ MaxPerMachine \in {"any", line.machines}
     ELSE line.job /\ line.id \in CollectionIds

\* what is saved of it, by which its hash is made; that is another one in every process, as python
\* gives a string another hash in every process
Event(s, line) ==
  IF s = 2 THEN [name |-> line.name, id |-> line.id, type |-> line.type, time |-> line.time,
                    machines |-> line.machines]
  ELSE [id |-> line.id, type |-> line.type, time |-> line.time, cpus |-> line.cpus]
Hash(event) == <<event, process>>

EventsIn(s, file) ==
  LET lines == Files[s][file]
      Loop[n \in 0..Len(lines)] ==
        IF n = 0 THEN <<>>
        ELSE IF Accepted(s, lines[n]) THEN Append(Loop[n - 1], Event(s, lines[n])) ELSE Loop[n - 1]
  IN Loop[Len(lines)]

\* a line is counted modulo a quarter of the lines, which is zero for a file of fewer than four
DividesByZero(lines) == Len(lines) \in 1..3

-----------------------------------------------------------------------------
(* Processes, steps and their pools.                                       *)

AllFree == \A t \in Threads : thread[t] = Free
InProcess == step # 0

\* get_unique_collections, in any order
Names == {d.event.name : d \in Documents(2)}

\* what there is to do in a step, in the order in which it is given to the pool
Work(s) ==
  CASE s = 4 -> SetToSeqs(Names)
    [] s = 5 -> {<<"extract", "index">>}
    [] s = 6 -> {[i \in DOMAIN Files[2] |-> i]}
    [] OTHER -> {[i \in DOMAIN Files[s] |-> i]}

BeginStep(todo) ==
  IF todo = <<>> THEN step' = 0 /\ steps' = <<>> /\ queue' = <<>> /\ UNCHANGED jobTypes
  ELSE /\ step' = Head(todo) /\ steps' = Tail(todo) /\ queue' \in Work(Head(todo))
       /\ jobTypes' = IF Head(todo) = 6 THEN NoJobs ELSE jobTypes

StartProcess ==
  /\ ~InProcess /\ process < Len(Plans) /\ process' = process + 1
  /\ \E plan \in Plans[process + 1] : BeginStep(plan)
  /\ UNCHANGED <<thread, dataVars, classes, dataset, exported, faults>>

\* the pool is closed and joined
EndStep ==
  /\ InProcess /\ queue = <<>> /\ AllFree
  /\ BeginStep(steps)
  /\ UNCHANGED <<process, thread, dataVars, classes, dataset, exported, faults>>

\* a thread has taken what was first in the queue, if its download does not fail; an exception of
\* the thread is logged
TakeFile(t, begun) ==
  /\ thread[t] = Free /\ queue # <<>> /\ queue' = Tail(queue)
  /\ \/ thread' = [thread EXCEPT ![t] = begun] /\ UNCHANGED faults
     \/ faults < MaxFaults /\ faults' = faults + 1 /\ UNCHANGED thread
  /\ UNCHANGED <<process, step, steps>>

-----------------------------------------------------------------------------
(* Steps 2 and 3: the events of a file are saved, those of step 2 all at    *)
(* once, those of step 3 in batches and at the end.                         *)

TakeEvents(t) ==
  /\ step \in {2, 3} /\ queue # <<>>
  /\ LET file == Head(queue)
         begun == [phase |-> "read", file |-> file, rest |-> EventsIn(step, file), batch |-> <<>>,
                   last |-> FALSE, at |-> 1, found |-> <<>>]
     IN TakeFile(t, IF DividesByZero(Files[step][file]) THEN Free ELSE begun)
  /\ UNCHANGED <<dataVars, resultVars>>

Goes(t, th) == thread' = [thread EXCEPT ![t] = th]
WorkVars == <<process, step, steps, queue, resultVars, faults>>
ReadToEnd(file) == expected' = [expected EXCEPT ![step] = @ \union Range(EventsIn(step, file))]

\* the lines up to the next save; a batch that has had nothing new is kept, and saved with every line
Read(t) ==
  LET th == thread[t]
      few == BatchSize + 1 - Len(th.batch)
      n == IF step = 2 THEN Len(th.rest) ELSE Min({Len(th.rest), Max({few, 1})})
      longer == th.batch \o SubSeq(th.rest, 1, n)
      left == SubSeq(th.rest, n + 1, Len(th.rest))
      last == step = 2 \/ Len(longer) <= BatchSize \/ th.rest = <<>>
  IN /\ th.phase = "read"
     /\ IF longer = <<>> THEN ReadToEnd(th.file) /\ Goes(t, Free)
        ELSE /\ UNCHANGED expected
             /\ Goes(t, [th EXCEPT !.rest = left, !.batch = longer, !.last = last, !.phase = "look",
                                   !.at = 1, !.found = <<>>])
     /\ UNCHANGED <<collections, tidy, WorkVars>>

\* the batch is saved: on with the file, whose end may have come
Saved(t, th) ==
  IF th.last THEN Goes(t, Free) /\ ReadToEnd(th.file)
  ELSE Goes(t, [th EXCEPT !.phase = "read"]) /\ UNCHANGED expected

\* get_documents_to_insert: one query for each event.  In step 3 it is called twice, and what is
\* found the second time is inserted; to insert nothing raises.
Look(t) ==
  LET th == thread[t]
      event == th.batch[th.at]
      new == Hash(event) \notin {d.hash : d \in Documents(step)}
      next == [th EXCEPT !.at = @ + 1, !.found = IF new THEN Append(@, event) ELSE @]
  IN /\ th.phase \in {"look", "again"}
     /\ CASE th.at < Len(th.batch) -> Goes(t, next) /\ UNCHANGED expected
          [] th.at = Len(th.batch) /\ next.found = <<>> ->
               IF th.phase = "look" THEN Saved(t, next) ELSE Goes(t, Free) /\ UNCHANGED expected
          [] OTHER ->
               /\ UNCHANGED expected
               /\ Goes(t, IF step = 3 /\ th.phase = "look"
                          THEN [next EXCEPT !.phase = "again", !.at = 1, !.found = <<>>]
                          ELSE [next EXCEPT !.phase = "insert"])
     /\ UNCHANGED <<collections, tidy, WorkVars>>

\* bulk_save inserts one document after the other
Insert(t) ==
  LET th == thread[t]
      event == Head(th.found)
      next == [th EXCEPT !.found = Tail(@)]
  IN /\ th.phase = "insert"
     /\ collections' = [collections EXCEPT ![step] =
                        @ (+) SetToBag({[event |-> event, hash |-> Hash(event), cleaned |-> FALSE]})]
     /\ tidy' = tidy \ {step}
     /\ IF next.found # <<>> THEN Goes(t, next) /\ UNCHANGED expected
        ELSE Saved(t, [next EXCEPT !.batch = <<>>])
     /\ UNCHANGED WorkVars

-----------------------------------------------------------------------------
(* Step 4: the classes of tasks.                                           *)

\* the orders of S by a key: what comes last has the greatest one
OrdersBy(S, key) ==
  LET Orders[T \in SUBSET S] ==
        IF T = {} THEN {<<>>}
        ELSE UNION {{Append(order, x) : order \in Orders[T \ {x}]} :
                      x \in {y \in T : \A z \in T : key[z] <= key[y]}}
  IN Orders[S]

\* the events of a job give its start and its end; with every event after which it has both, the job
\* is listed
ListJob(acc, e) ==
  LET known == e.id \in DOMAIN acc.jobs
      before == IF known THEN acc.jobs[e.id] ELSE [start |-> None, end |-> None]
      job == [start |-> IF e.type = "SCHEDULE" THEN e.time ELSE before.start,
              end |-> IF e.type = "FINISH" THEN e.time ELSE before.end]
      completed == job.start # None /\ job.end # None
  IN [jobs |-> [id \in DOMAIN acc.jobs \union {e.id} |-> IF id = e.id THEN job ELSE acc.jobs[id]],
      ids |-> IF known /\ completed THEN Append(acc.ids, e.id) ELSE acc.ids]

\* get_job_resources
Cpus(id) ==
  LET of == {d.event.cpus : d \in {x \in Documents(3) : x.event.id = id}}
  IN IF of = {} THEN <<None, None>> ELSE <<Min(of), Max(of)>>

\* a job that is listed is one object, and has in the end what its last event has given it
ListedTasks(order) ==
  LET Loop[n \in 0..Len(order)] ==
        IF n = 0 THEN [jobs |-> <<>>, ids |-> <<>>] ELSE ListJob(Loop[n - 1], order[n][1].event)
      all == Loop[Len(order)]
  IN [i \in DOMAIN all.ids |->
        [id |-> all.ids[i], start |-> all.jobs[all.ids[i]].start, end |-> all.jobs[all.ids[i]].end,
         cpus |-> Cpus(all.ids[i])]]

\* process_task_class: a thread reads the events of a name by their time, those of one time in any order
ProcessTaskClass(t) ==
  LET name == Head(queue)
      of == {doc \in Copies(collections[2]) : doc[1].event.name = name}
  IN /\ step = 4 /\ thread[t] = Free /\ queue # <<>> /\ queue' = Tail(queue)
     /\ \E order \in OrdersBy(of, [doc \in of |-> doc[1].event.time]) :
          LET tasks == ListedTasks(order)
          IN classes' = IF tasks = <<>> THEN classes
                        ELSE classes (+) SetToBag({[name |-> name, tasks |-> tasks]})
     /\ UNCHANGED <<process, step, steps, thread, dataVars, dataset, jobTypes, exported, faults>>

-----------------------------------------------------------------------------
(* Step 5: the dataset.                                                    *)

\* the rows of the greatest class, then of the next; all that are left over have the last class.
\* Rows are inserted when there are more than a batch of them: the last ones are not.
RowsOf(tasks, class) ==
  [i \in DOMAIN tasks |-> [class |-> class, start |-> tasks[i].start, end |-> tasks[i].end,
                           cpus |-> tasks[i].cpus, index |-> 0]]
AddClass(acc, tasks) ==
  LET rows == acc.rows \o RowsOf(tasks, acc.counter)
      full == Len(rows) > RowBatch
  IN [counter |-> IF acc.counter + 1 <= NumClasses THEN acc.counter + 1 ELSE acc.counter,
      rows |-> IF full THEN <<>> ELSE rows,
      inserted |-> IF full THEN acc.inserted \o rows ELSE acc.inserted]

Inserted(order) ==
  LET Loop[n \in 0..Len(order)] ==
        IF n = 0 THEN [counter |-> 1, rows |-> <<>>, inserted |-> <<>>]
        ELSE AddClass(Loop[n - 1], order[n][1].tasks)
  IN Loop[Len(order)].inserted

ExtractDataset ==
  /\ step = 5 /\ queue # <<>> /\ Head(queue) = "extract" /\ queue' = Tail(queue)
  /\ \E order \in OrdersBy(Copies(classes), [class \in Copies(classes) |-> - Len(class[1].tasks)]) :
       dataset' = dataset \o Inserted(order)
  /\ UNCHANGED <<process, step, steps, thread, dataVars, classes, jobTypes, exported, faults>>

\* mutant: the rows are numbered as they were inserted
RankedAsInserted == {[i \in DOMAIN dataset |-> i]}

\* the rows by their start
Ranked == OrdersBy(DOMAIN dataset, [i \in DOMAIN dataset |-> dataset[i].start])

UpdateDatasetIndex ==
  /\ step = 5 /\ queue # <<>> /\ Head(queue) = "index" /\ queue' = Tail(queue)
  /\ \E order \in Ranked :
       dataset' = [n \in DOMAIN order |-> [dataset[order[n]] EXCEPT !.index = n - 1]]
  /\ UNCHANGED <<process, step, steps, thread, dataVars, classes, jobTypes, exported, faults>>

-----------------------------------------------------------------------------
(* Step 6: the sorts of jobs are counted, by all their events, finished or  *)
(* not; a file is added when it is counted, under a lock.                   *)

Isolated(line) == ~line.parent /\ line.machines = "1" /\ ~line.after
Unrelated(line) == ~Isolated(line) /\ ~line.parent /\ ~line.after

CountJobs(t) ==
  LET lines == Files[2][Head(queue)]
      Count(P(_)) == Cardinality({i \in DOMAIN lines : P(lines[i])})
  IN /\ step = 6 /\ queue # <<>> /\ TakeFile(t, Free)
     /\ jobTypes' = IF DividesByZero(lines) \/ faults' # faults THEN jobTypes
                    ELSE [isolated |-> jobTypes.isolated + Count(Isolated),
                          no_relationship |-> jobTypes.no_relationship + Count(Unrelated),
                          children |-> jobTypes.children + Count(LAMBDA l : l.parent),
                          sequential |-> jobTypes.sequential + Count(LAMBDA l : l.after)]
     /\ UNCHANGED <<dataVars, classes, dataset, exported>>

-----------------------------------------------------------------------------
(* The scripts between the processes.                                      *)

\* clean_duplicates: of the documents that are not marked, one of those with one hash, which are the
\* same, is kept and marked; what has no duplicate is not marked
Clean(s) ==
  LET docs == collections[s]
      Duplicated(d) == ~d.cleaned /\ docs[d] > 1
      kept == {[d EXCEPT !.cleaned = @ \/ Duplicated(d)] : d \in DOMAIN docs}
  IN /\ ~InProcess /\ docs # EmptyBag /\ s \notin tidy
     /\ collections' = [collections EXCEPT ![s] = SetToBag(kept)]
     /\ tidy' = tidy \union {s}
     /\ UNCHANGED <<process, step, steps, queue, thread, expected, resultVars, faults>>

\* export_dataset: the tasks by their index, without those that take no time, each with the time to
\* the one after it
Export ==
  LET rows == {r \in Range(dataset) : r.end - r.start > 1}
      indexes == {r.index : r \in rows}
      Row(n) == CHOOSE r \in rows : r.index = n
      NextStart(n) == LET later == {m \in indexes : m > n}
                      IN IF later = {} THEN 0 ELSE Row(Min(later)).start - Row(n).start
  IN /\ ~InProcess /\ dataset # <<>>
     /\ exported' = [n \in indexes |-> [class |-> Row(n).class, duration |-> Row(n).end - Row(n).start,
                                       next |-> NextStart(n)]]
     /\ UNCHANGED <<process, step, steps, queue, thread, dataVars, classes, dataset, jobTypes, faults>>

TracesNext ==
  \/ StartProcess \/ EndStep
  \/ \E t \in Threads : \/ TakeEvents(t) \/ Read(t) \/ Look(t) \/ Insert(t)
                        \/ ProcessTaskClass(t) \/ CountJobs(t)
  \/ ExtractDataset \/ UpdateDatasetIndex
  \/ \E s \in {2, 3} : Clean(s)
  \/ Export

TracesSpec == TracesInit /\ [][TracesNext]_traceVars

-----------------------------------------------------------------------------
(* Properties.                                                             *)

Events(s) == {d.event : d \in Documents(s)}

\* Every variable holds a value that the code can give it.
TracesTypeOK ==
  /\ process \in 0..Len(Plans) /\ step \in {0, 2, 3, 4, 5, 6} /\ faults \in 0..MaxFaults
  /\ \A t \in Threads : thread[t] = Free \/ thread[t].phase \in {"read", "look", "again", "insert"}
  /\ DOMAIN collections = {2, 3} /\ DOMAIN expected = {2, 3} /\ tidy \subseteq {2, 3}
  /\ \A s \in {2, 3} : \A d \in Documents(s) : d.cleaned \in BOOLEAN
  /\ \A r \in Range(dataset) : r.class \in 1..NumClasses /\ r.index \in 0..Len(dataset) - 1
  /\ \A sort \in DOMAIN jobTypes : jobTypes[sort] \in Nat

\* However the threads interleave their queries and insertions, and whatever the cleaner removes,
\* the events of a file that was read to its end are in the collection (save, clean_duplicates).
EventsKept == \A s \in {2, 3} : expected[s] \subseteq Events(s)

\* The cleaner leaves no two documents of one hash, marked before or now (clean_duplicates).
CleanedOnce ==
  \A s \in tidy : \A c, d \in Copies(collections[s]) : c[1].hash = d[1].hash => c = d

\* the last time at which a job, of the event d, was scheduled or finished
Latest(d, type) == Max({x.time : x \in {y \in Events(2) : y.name = d.name /\ y.id = d.id /\ y.type = type}})
JobListed(d) ==
  \E c \in BagToSet(classes) : c.name = d.name /\ \E task \in Range(c.tasks) :
     task.id = d.id /\ task.start = Latest(d, "SCHEDULE") /\ task.end = Latest(d, "FINISH")

\* When the classes have been extracted, every job of which a start and an end are known is a task of
\* its class, from its last start to its last end (process_task_class).
JobsListed ==
  (step = 4 /\ queue = <<>>) => \A d, e \in Events(2) :
    (d.type = "SCHEDULE" /\ e.type = "FINISH" /\ d.id = e.id /\ d.name = e.name) => JobListed(d)

\* A dataset in which every task takes its time is exported under the numbers from 0 on, by which the
\* generator asks for its tasks, and each is followed by one that does not start before it
\* (update_tasks_dataset_index, export_dataset).
ExportedInOrder ==
  (\A r \in Range(dataset) : r.end - r.start > 1) =>
    /\ DOMAIN exported = 0..Cardinality(DOMAIN exported) - 1
    /\ \A n \in DOMAIN exported : exported[n].next >= 0

\* Nothing that was read of the traces is lost between the threads and the cleaner, every job becomes a
\* task, and what is exported is what the generator can ask for, unless it has a task that takes no time.
DatasetIsTrue == EventsKept /\ CleanedOnce /\ JobsListed /\ ExportedInOrder
=============================================================================
