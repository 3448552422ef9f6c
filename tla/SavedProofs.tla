----------------------------- MODULE SavedProofs -----------------------------
(***************************************************************************)
(* What is saved of a run: its statistics, and its trajectories.  The two  *)
(* have a model each and nothing in common but that both are written by    *)
(* threads which the next run may overtake.                                *)
(*                                                                         *)
(* The statistics that are saved of a run are those of that run and are    *)
(* complete, for any configured runs, any numbers of tasks and any bound.  *)
(* They are saved when the manager completes a run, from what the agent,   *)
(* the generator and the collector have put in the store; the manager      *)
(* knows of them only what their events say. The invariant follows these   *)
(* events in the queues:                                                   *)
(*   Obeys          a resource handles the commands of a run one by one;   *)
(*   PreparesFirst  the manager clears what it knew of the last run before *)
(*                  it hears of the next one;                              *)
(*   ManagerKnows   it is told of a group of values once, and a run is     *)
(*                  complete only when all groups are known;               *)
(*   Reports        what a group announces is in the store by then;        *)
(*   Rewards        a reward the agent has not added is in its queue       *)
(*                  before the end of the execution, so it is added before *)
(*                  the agent reports;                                     *)
(*   SideBySide     the two lists of times grow side by side;              *)
(*   Filed          what is saved is what the property says.               *)
(* Events are compared only through Note, what the queues of the consumers *)
(* do in a step is stated once per kind of step (TookCommand, Gave, ...).  *)
(*                                                                         *)
(* Every trajectory is saved once, for any lengths of the runs, any size   *)
(* of the batches, and with the pools of the savers as late as one likes.  *)
(* A saver keeps no record of what it has been handed.  The invariant      *)
(* names that (Handed), and says that each of these ids is in one place    *)
(* only: in the buffer, in a job of the pool, or in the database (Held,    *)
(* Listed).  If no run is prepared while a job is left, the jobs are of    *)
(* the run whose code the saver has, but for ids that came too late, which *)
(* cannot be read any more (OnTime); so what is in the database is true of *)
(* its run (Truthful), and what is lost is late or was in a batch with an  *)
(* id that was (Kept).                                                     *)
(***************************************************************************)
EXTENDS Statistics, TrajectorySaver, SequenceTheorems, FiniteSetTheorems, TLAPS

(* An event, and whether one is in a queue, and before another. *)
Note(kind, of) == <<kind, of>>
In(box, e) == \E i \in DOMAIN box : box[i] = e
Precedes(box, e, f) == \E i, j \in DOMAIN box : i < j /\ box[i] = e /\ box[j] = f
Distinct(box) == \A i, j \in DOMAIN box : box[i] = box[j] => i = j

Commands == {"prepare_new_run", "start_run", "scheduling_completed", "execution_completed", "run_completed"}
Event == (Commands \X StatsRuns) \union ({"stats_updated"} \X Groups)
           \union ({"trajectory_completed"} \X RunTasks)
Document == [values : [Values -> {"none", "saved"}], lists : [Lists -> Nat], rewards : Seq(RunTasks)]

(* The run in force, and what was commanded last. *)
Run == commanded[1]
Phase == commanded[2]
(* A command of the run is still to be handled; so is the news that a trajectory is complete. *)
Waits(c, kind) == In(inbox[c], Note(kind, Run))

Types ==
  /\ schedule \in Schedules
  /\ commanded \in (0..Len(schedule.tasks)) \X
                   {"prepare_new_run", "start_run", "execution_completed", "complete"}
  /\ (Run = 0 => Phase = "complete")
  /\ inbox \in [Consumers -> Seq(Event)]
  /\ code \in [Consumers -> 0..Run]
  /\ stage \in [Resources -> {"WAITING", "READY", "RUNNING"}]
  /\ groups \subseteq Groups /\ completed \in BOOLEAN
  /\ progress \in [RunTasks -> {"new", "scheduled", "chosen", "rewarded", "failed", "announced"}]
  /\ times \in Nat /\ timed \in 0..1 /\ answered \in Nat
  /\ redis \in [StatsRuns -> Document]
  /\ disk \in [StatsRuns -> SUBSET Document]
  /\ due \in [StatsRuns -> SUBSET RunTasks]

Delivered ==
  \A c \in Consumers :
    /\ Distinct(inbox[c])
    /\ \A e \in Event : In(inbox[c], e) =>
         /\ c \in ReceiversOf(e[1])
         /\ e[1] \in Commands => e[2] = Run
         /\ e[1] = "trajectory_completed" => progress[e[2]] = "announced"

(* A resource follows the commands one by one. *)
Follows(c) ==
  /\ Waits(c, "prepare_new_run") <=> Phase = "prepare_new_run" /\ stage[c] = "WAITING"
  /\ Waits(c, "start_run") <=> Phase # "prepare_new_run" /\ stage[c] = "READY"
  /\ Waits(c, "run_completed") <=> Phase = "complete" /\ stage[c] # "WAITING"
  /\ stage[c] = "WAITING" => /\ Phase \in {"prepare_new_run", "complete"}
                             /\ ~Waits(c, "execution_completed")
  /\ stage[c] = "RUNNING" => Phase # "prepare_new_run"
  /\ Waits(c, "run_completed") => \A kind \in {"start_run", "execution_completed"} :
       Waits(c, kind) => Precedes(inbox[c], Note(kind, Run), Note("run_completed", Run))
  /\ Phase # "prepare_new_run" \/ stage[c] # "WAITING" => code[c] = Run
InPhase(c) ==
  /\ Waits(c, "execution_completed") => Phase \in {"execution_completed", "complete"}
  /\ Waits(c, "start_run") => Phase # "prepare_new_run"
  /\ Waits(c, "run_completed") => Phase = "complete"
Obeys ==
  /\ \A c \in Resources : Follows(c)
  /\ \A c \in Consumers : InPhase(c)
  /\ stage["agent"] = "READY" => Phase # "complete"
  /\ stage["generator"] = "READY" => Phase \notin {"execution_completed", "complete"}
  /\ Waits("generator", "scheduling_completed") => stage["generator"] = "RUNNING"

Scheduled ==
  \A t \in RunTasks : progress[t] # "new" =>
    RunOf(t) < Run \/ (RunOf(t) = Run /\ (stage["generator"] = "RUNNING" \/ Phase = "complete"))

Known == IF Waits("manager", "prepare_new_run") THEN {} ELSE groups
OnTheWay(g) == In(inbox["manager"], Note("stats_updated", g))
Reported(g) == OnTheWay(g) \/ g \in Known
Saved(v) == redis[Run].values[v] = "saved"

(* The manager prepares first, and then it has the code of the run. *)
PreparesFirst ==
  /\ Waits("manager", "prepare_new_run") <=> code["manager"] # Run
  /\ \A e \in Event : Waits("manager", "prepare_new_run") /\ In(inbox["manager"], e)
       => e = Note("prepare_new_run", Run) \/ Precedes(inbox["manager"], Note("prepare_new_run", Run), e)
ManagerKnows ==
  /\ \A g \in Groups : OnTheWay(g) => g \notin Known
  /\ Run # 0 /\ completed => /\ ~Waits("manager", "prepare_new_run") /\ Saved("end_execution_time")
                             /\ Phase \in {"execution_completed", "complete"}
  /\ Run # 0 /\ Phase = "complete" => Known = Groups

Announced == {t \in RunTasks : RunOf(t) = Run /\ progress[t] = "announced"}
ToObserve(t) == In(inbox["agent"], Note("trajectory_completed", t))

Reports ==
  /\ \A g \in Groups : Reported(g) => Run # 0 /\ Phase # "prepare_new_run"
  /\ Reported("agent_stats") => stage["agent"] # "READY" /\ Saved("agent_parameters")
  /\ Reported("global_stats") => stage["generator"] # "READY" /\ Saved("tasks_to_generate")
  /\ Reported("tasks_generated") =>
       /\ stage["generator"] # "READY" /\ ~Waits("generator", "scheduling_completed")
       /\ Saved("tasks_generated")
  /\ Reported("execution_history_stats") =>
       /\ Phase \in {"execution_completed", "complete"} /\ ~Waits("agent", "execution_completed")
       /\ \A v \in {"selected_actions", "assignments_history", "validation_reward"} : Saved(v)
       /\ due[Run] \subseteq Range(redis[Run].rewards)

Rewards ==
  /\ \A q \in StatsRuns : q > Run => redis[q].rewards = <<>>
  /\ \A t \in RunTasks : RunOf(t) = Run /\ ToObserve(t) /\ Waits("agent", "start_run")
       => Precedes(inbox["agent"], Note("start_run", Run), Note("trajectory_completed", t))
  /\ Run # 0 =>
       /\ \A t \in Range(redis[Run].rewards) : t \in Announced /\ ~ToObserve(t)
       /\ IsInjective(redis[Run].rewards)
  /\ Phase = "start_run" => \A t \in Announced : ToObserve(t) \/ t \in Range(redis[Run].rewards)
  /\ Phase = "execution_completed" => \A t \in due[Run] :
       /\ RunOf(t) = Run
       /\ t \in Range(redis[Run].rewards)
            \/ Precedes(inbox["agent"], Note("trajectory_completed", t), Note("execution_completed", Run))

Gap(q) == redis[q].lists["waiting_time"] - redis[q].lists["execution_time"]
SideBySide ==
  \A q \in StatsRuns :
    /\ Gap(q) \in -1..1
    /\ q = code["collector"] => Gap(q) \in {timed - 1, timed}
    /\ q > code["collector"] => Gap(q) = 0

Filed ==
  /\ \A q \in StatsRuns : q > Run \/ (q = Run /\ Phase # "complete") => disk[q] = {}
  /\ SavedStatsAreTrue

StatisticsInvariant ==
  /\ Types /\ Delivered /\ Obeys /\ Scheduled /\ PreparesFirst /\ ManagerKnows /\ Reports /\ Rewards /\ SideBySide /\ Filed

-----------------------------------------------------------------------------
(* Queues whose elements are distinct, after an element is added or taken. *)

LEMMA AppendIn ==
  ASSUME NEW S, NEW box \in Seq(S), NEW x \in S
  PROVE  /\ Append(box, x) \in Seq(S)
         /\ \A e : In(Append(box, x), e) <=> In(box, e) \/ e = x
         /\ \A e, f : Precedes(Append(box, x), e, f) <=> Precedes(box, e, f) \/ (In(box, e) /\ f = x)
         /\ Distinct(box) /\ ~In(box, x) => Distinct(Append(box, x))
<1> DEFINE new == Append(box, x)
<1>1. /\ new \in Seq(S) /\ Len(new) = Len(box) + 1 /\ Len(box) \in Nat
      /\ DOMAIN box = 1..Len(box) /\ DOMAIN new = 1..Len(box) + 1
      /\ \A i \in DOMAIN box : new[i] = box[i]
      /\ new[Len(box) + 1] = x
  BY AppendProperties, LenProperties
<1> HIDE DEF new
<1>2. \A e : In(new, e) <=> In(box, e) \/ e = x
  BY <1>1 DEF In
<1>3. \A e, f : Precedes(new, e, f) <=> Precedes(box, e, f) \/ (In(box, e) /\ f = x)
  BY <1>1 DEF In, Precedes
<1>4. Distinct(box) /\ ~In(box, x) => Distinct(new)
  BY <1>1 DEF In, Distinct
<1> QED
  BY <1>1, <1>2, <1>3, <1>4 DEF new

LEMMA TailIn ==
  ASSUME NEW S, NEW box \in Seq(S), box # <<>>, Distinct(box)
  PROVE  /\ Tail(box) \in Seq(S) /\ Head(box) \in S /\ Distinct(Tail(box))
         /\ In(box, Head(box))
         /\ \A e : In(Tail(box), e) <=> In(box, e) /\ e # Head(box)
         /\ \A e, f : Precedes(Tail(box), e, f) <=> Precedes(box, e, f) /\ e # Head(box)
         /\ \A e : ~Precedes(box, e, Head(box))
<1> DEFINE new == Tail(box)
<1>1. /\ new \in Seq(S) /\ Head(box) \in S /\ Len(box) \in Nat \ {0} /\ Len(new) = Len(box) - 1
      /\ DOMAIN box = 1..Len(box) /\ DOMAIN new = 1..Len(box) - 1
      /\ \A i \in DOMAIN new : new[i] = box[i + 1]
      /\ Head(box) = box[1]
  BY HeadTailProperties, LenProperties, EmptySeq
<1> HIDE DEF new
<1>2. \A i \in DOMAIN box : i # 1 => i - 1 \in DOMAIN new /\ new[i - 1] = box[i]
  BY <1>1
<1>3. \A e : In(new, e) <=> In(box, e) /\ e # Head(box)
  <2> TAKE e
  <2>1. In(new, e) => In(box, e) /\ e # Head(box)
    BY <1>1 DEF In, Distinct
  <2>2. In(box, e) /\ e # Head(box) => In(new, e)
    BY <1>1, <1>2 DEF In
  <2> QED
    BY <2>1, <2>2
<1>4. \A e, f : Precedes(new, e, f) <=> Precedes(box, e, f) /\ e # Head(box)
  <2> TAKE e, f
  <2>1. Precedes(new, e, f) => Precedes(box, e, f) /\ e # Head(box)
    <3> SUFFICES ASSUME NEW i \in DOMAIN new, NEW j \in DOMAIN new, i < j, new[i] = e, new[j] = f
                 PROVE  Precedes(box, e, f) /\ e # Head(box)
      BY DEF Precedes
    <3>1. /\ i + 1 \in DOMAIN box /\ j + 1 \in DOMAIN box /\ i + 1 < j + 1
          /\ box[i + 1] = e /\ box[j + 1] = f /\ i + 1 # 1 /\ 1 \in DOMAIN box
      BY <1>1
    <3> QED
      BY <3>1, <1>1 DEF Precedes, Distinct
  <2>2. Precedes(box, e, f) /\ e # Head(box) => Precedes(new, e, f)
    <3> SUFFICES ASSUME NEW i \in DOMAIN box, NEW j \in DOMAIN box, i < j, box[i] = e, box[j] = f,
                        e # Head(box)
                 PROVE  Precedes(new, e, f)
      BY DEF Precedes
    <3>1. i # 1 /\ j # 1 /\ i - 1 < j - 1
      BY <1>1
    <3> QED
      BY <3>1, <1>2 DEF Precedes
  <2> QED
    BY <2>1, <2>2
<1>5. \A e : ~Precedes(box, e, Head(box))
  BY <1>1 DEF Precedes, Distinct
<1>6. Distinct(new) /\ In(box, Head(box))
  BY <1>1 DEF Distinct, In
<1> QED
  BY <1>1, <1>3, <1>4, <1>5, <1>6 DEF new

(* An event is published to those that receive it. *)
Grown(old, new, x) ==
  /\ new \in Seq(Event) /\ Distinct(new)
  /\ \A e : In(new, e) <=> In(old, e) \/ e = x
  /\ \A e, f : Precedes(old, e, f) => Precedes(new, e, f)
  /\ \A e : In(old, e) => Precedes(new, e, x)

LEMMA Published ==
  ASSUME NEW boxes \in [Consumers -> Seq(Event)], NEW kind, NEW of, Note(kind, of) \in Event,
         \A c \in Consumers : Distinct(boxes[c]) /\ (c \in ReceiversOf(kind) => ~In(boxes[c], Note(kind, of)))
  PROVE  LET new == Publish(boxes, kind, of) IN
         /\ new \in [Consumers -> Seq(Event)]
         /\ \A c \in Consumers : IF c \in ReceiversOf(kind) THEN Grown(boxes[c], new[c], Note(kind, of))
                                 ELSE new[c] = boxes[c]
<1> DEFINE new == Publish(boxes, kind, of)
<1> DEFINE x == Note(kind, of)
<1>1. new = [c \in Consumers |-> IF c \in ReceiversOf(kind) THEN Append(boxes[c], x) ELSE boxes[c]]
  BY DEF Publish, Note
<1>2. x \in Event /\ \A c \in Consumers : Distinct(boxes[c]) /\ (c \in ReceiversOf(kind) => ~In(boxes[c], x))
  OBVIOUS
<1> HIDE DEF new, x
<1>3. ASSUME NEW c \in Consumers, c \in ReceiversOf(kind)
      PROVE  Grown(boxes[c], new[c], x)
  <2>1. boxes[c] \in Seq(Event) /\ new[c] = Append(boxes[c], x) /\ Distinct(boxes[c]) /\ ~In(boxes[c], x)
    BY <1>1, <1>2, <1>3
  <2> QED
    BY <1>2, <2>1, AppendIn DEF Grown
<1>4. \A c \in Consumers : new[c] \in Seq(Event)
  BY <1>1, <1>3 DEF Grown
<1> QED
  BY <1>1, <1>3, <1>4 DEF new, x, Note

(* A consumer takes the first event of its own. *)
LEMMA Taken ==
  ASSUME Types, Delivered, NEW c \in Consumers, inbox[c] # <<>>
  PROVE  LET new == Handled(c) IN
         /\ new \in [Consumers -> Seq(Event)]
         /\ Head(inbox[c]) \in Event /\ In(inbox[c], Head(inbox[c]))
         /\ \A e : ~Precedes(inbox[c], e, Head(inbox[c]))
         /\ \A d \in Consumers :
              /\ Distinct(new[d])
              /\ \A e : In(new[d], e) <=> In(inbox[d], e) /\ ~(d = c /\ e = Head(inbox[c]))
              /\ \A e, f : Precedes(new[d], e, f)
                            <=> Precedes(inbox[d], e, f) /\ ~(d = c /\ e = Head(inbox[c]))
<1>1. inbox \in [Consumers -> Seq(Event)] /\ \A d \in Consumers : Distinct(inbox[d])
  BY DEF Types, Delivered
<1>2. inbox[c] \in Seq(Event)
  BY <1>1
<1>3. /\ Tail(inbox[c]) \in Seq(Event) /\ Head(inbox[c]) \in Event /\ Distinct(Tail(inbox[c]))
      /\ In(inbox[c], Head(inbox[c]))
      /\ \A e : In(Tail(inbox[c]), e) <=> In(inbox[c], e) /\ e # Head(inbox[c])
      /\ \A e, f : Precedes(Tail(inbox[c]), e, f) <=> Precedes(inbox[c], e, f) /\ e # Head(inbox[c])
      /\ \A e : ~Precedes(inbox[c], e, Head(inbox[c]))
  BY <1>1, <1>2, TailIn
<1>4. Handled(c) = [d \in Consumers |-> IF d = c THEN Tail(inbox[c]) ELSE inbox[d]]
  BY <1>1 DEF Handled
<1> QED
  BY <1>1, <1>3, <1>4

-----------------------------------------------------------------------------
(* The runs, the tasks, and the events there may be. *)

LEMMA Basics ==
  ASSUME Types
  PROVE  /\ Len(schedule.tasks) \in Nat /\ StatsRuns = 1..Len(schedule.tasks)
         /\ Run \in 0..Len(schedule.tasks) /\ Run \in Nat /\ commanded = <<Run, Phase>>
         /\ Phase \in {"prepare_new_run", "start_run", "execution_completed", "complete"}
         /\ (Run # 0 <=> Run \in StatsRuns)
         /\ \A t \in RunTasks : RunOf(t) \in StatsRuns
         /\ \A r \in StatsRuns : \E t \in RunTasks : RunOf(t) = r
<1>1. schedule.tasks \in Seq(Nat \ {0})
  BY SchedulesAssumption DEF Types
<1>2. /\ Len(schedule.tasks) \in Nat /\ DOMAIN schedule.tasks = 1..Len(schedule.tasks)
      /\ \A r \in StatsRuns : schedule.tasks[r] \in Nat \ {0}
  BY <1>1, LenProperties DEF StatsRuns
<1>3. /\ Run \in 0..Len(schedule.tasks) /\ commanded = <<Run, Phase>>
      /\ Phase \in {"prepare_new_run", "start_run", "execution_completed", "complete"}
  BY DEF Types, Run, Phase
<1>4. \A t \in RunTasks : RunOf(t) \in StatsRuns
  BY DEF RunTasks, RunOf
<1>5. ASSUME NEW r \in StatsRuns PROVE \E t \in RunTasks : RunOf(t) = r
  <2>1. <<r, 1>> \in {r} \X (1..schedule.tasks[r]) /\ RunOf(<<r, 1>>) = r
    BY <1>2 DEF RunOf
  <2>2. <<r, 1>> \in RunTasks
    BY <2>1 DEF RunTasks
  <2> QED
    BY <2>1, <2>2
<1> QED
  BY <1>2, <1>3, <1>4, <1>5 DEF StatsRuns

LEMMA NotesDiffer ==
  \A kind, other, of, it : Note(kind, of) = Note(other, it) <=> kind = other /\ of = it
BY DEF Note

LEMMA EventFacts ==
  /\ \A kind \in Commands, r \in StatsRuns : Note(kind, r) \in Event
  /\ \A g \in Groups : Note("stats_updated", g) \in Event
  /\ \A t \in RunTasks : Note("trajectory_completed", t) \in Event
  /\ \A e \in Event :
       /\ e = <<e[1], e[2]>>
       /\ e[1] \in Commands => e[2] \in StatsRuns
       /\ e[1] = "stats_updated" => e[2] \in Groups
       /\ e[1] = "trajectory_completed" => e[2] \in RunTasks
       /\ e[1] \in Commands \union {"stats_updated", "trajectory_completed"}
BY DEF Event, Commands, Note

(* The next event of a consumer, by its kind. *)
LEMMA HeadIs ==
  ASSUME Types, Delivered, NEW c \in Consumers, NEW kind, Receives(c, kind)
  PROVE  /\ inbox[c] # <<>> /\ Head(inbox[c]) = Note(kind, Subject(c)) /\ Note(kind, Subject(c)) \in Event
         /\ In(inbox[c], Note(kind, Subject(c))) /\ c \in ReceiversOf(kind)
         /\ kind \in Commands => Subject(c) = Run /\ Run \in StatsRuns /\ Waits(c, kind)
         /\ kind = "stats_updated" => Subject(c) \in Groups /\ OnTheWay(Subject(c))
         /\ kind = "trajectory_completed" => Subject(c) \in RunTasks /\ ToObserve(Subject(c))
<1> DEFINE e == Head(inbox[c])
<1>1. inbox[c] # <<>> /\ e[1] = kind /\ e[2] = Subject(c)
  BY DEF Receives, Subject
<1>2. e \in Event /\ In(inbox[c], e)
  BY <1>1, Taken
<1> HIDE DEF e
<1>3. /\ e = Note(kind, Subject(c)) /\ c \in ReceiversOf(kind)
      /\ kind \in Commands => Subject(c) = Run /\ Run \in StatsRuns
      /\ kind = "stats_updated" => Subject(c) \in Groups
      /\ kind = "trajectory_completed" => Subject(c) \in RunTasks
  BY <1>1, <1>2, EventFacts DEF Delivered, Note
<1>4. kind = "stats_updated" => c = "manager"
  BY <1>3 DEF ReceiversOf
<1>5. kind = "trajectory_completed" => c = "agent"
  BY <1>3 DEF ReceiversOf
<1> QED
  BY <1>1, <1>2, <1>3, <1>4, <1>5 DEF e, Waits, OnTheWay, ToObserve

-----------------------------------------------------------------------------
(* The agent is told only of trajectories that were announced. *)
LEMMA TrajectoriesOnTheWay ==
  ASSUME Delivered, NEW t \in RunTasks, ToObserve(t)
  PROVE  progress[t] = "announced"
<1>1. Note("trajectory_completed", t) \in Event /\ "agent" \in Consumers
  BY EventFacts DEF Consumers, Resources
<1> QED
  BY <1>1 DEF Delivered, ToObserve, Note

(* Only the generator is told that all is scheduled. *)
LEMMA ReachesTheGenerator ==
  ASSUME Types, Delivered, NEW d \in Consumers, d # "generator"
  PROVE  ~Waits(d, "scheduling_completed")
<1> SUFFICES ASSUME Waits(d, "scheduling_completed")
             PROVE  FALSE
  OBVIOUS
<1>1. inbox[d] \in Seq(Event) /\ In(inbox[d], Note("scheduling_completed", Run))
  BY DEF Types, Waits
<1>2. Note("scheduling_completed", Run) \in Event
  BY <1>1, LenProperties DEF In
<1>3. d \in ReceiversOf(Note("scheduling_completed", Run)[1])
  BY <1>1, <1>2 DEF Delivered
<1> QED
  BY <1>3 DEF ReceiversOf, Note

-----------------------------------------------------------------------------
(* What is written to redis. *)

LEMMA ListNames ==
  /\ "waiting_time" \in Lists /\ "execution_time" \in Lists /\ "agent_get_action_time" \in Lists
  /\ Range(Times) = {"waiting_time", "execution_time"}
<1>1. DOMAIN Times = {1, 2}
  BY DEF Times
<1> QED
  BY <1>1 DEF Lists, Times, Range

LEMMA GroupSaved ==
  ASSUME redis \in [StatsRuns -> Document], NEW r \in StatsRuns, NEW known, NEW unknown
  PROVE  LET new == SaveGroup(redis, r, known, unknown) IN
         /\ new \in [StatsRuns -> Document]
         /\ \A q \in StatsRuns : /\ new[q].lists = redis[q].lists /\ new[q].rewards = redis[q].rewards
                                 /\ q # r => new[q] = redis[q]
         /\ \A v \in Values : new[r].values[v] = IF v \in known THEN "saved"
                                                 ELSE IF v \in unknown THEN "none" ELSE redis[r].values[v]
BY DEF SaveGroup, Document

LEMMA ValueSaved ==
  ASSUME redis \in [StatsRuns -> Document], NEW r \in StatsRuns, NEW v \in Values
  PROVE  LET new == SaveValue(redis, r, v) IN
         /\ new \in [StatsRuns -> Document]
         /\ \A q \in StatsRuns : /\ new[q].lists = redis[q].lists /\ new[q].rewards = redis[q].rewards
                                 /\ q # r => new[q] = redis[q]
         /\ \A w \in Values : new[r].values[w] = IF w = v THEN "saved" ELSE redis[r].values[w]
BY DEF SaveValue, Document

LEMMA ListPushed ==
  ASSUME redis \in [StatsRuns -> Document], NEW r, NEW l \in Lists
  PROVE  LET new == PushValues(redis, r, l, 1) IN
         /\ new \in [StatsRuns -> Document]
         /\ \A q \in StatsRuns :
              /\ new[q].values = redis[q].values /\ new[q].rewards = redis[q].rewards
              /\ \A k \in Lists : new[q].lists[k] =
                   IF q = r /\ k = l THEN redis[q].lists[k] + 1 ELSE redis[q].lists[k]
<1> DEFINE new == PushValues(redis, r, l, 1)
<1>1. ASSUME NEW q \in StatsRuns
      PROVE  new[q] = IF q = r THEN [redis[r] EXCEPT !.lists = [k \in Lists |->
                                                    IF k = l THEN redis[r].lists[k] + 1 ELSE redis[r].lists[k]]] ELSE redis[q]
  BY DEF PushValues, Document
<1>3. new = [q \in StatsRuns |-> new[q]]
  BY DEF PushValues
<1> HIDE DEF new
<1>2. ASSUME NEW q \in StatsRuns
      PROVE  /\ new[q] \in Document
             /\ new[q].values = redis[q].values /\ new[q].rewards = redis[q].rewards
             /\ \A k \in Lists : new[q].lists[k] =
                  IF q = r /\ k = l THEN redis[q].lists[k] + 1 ELSE redis[q].lists[k]
  <2>1. /\ redis[q] = [values |-> redis[q].values, lists |-> redis[q].lists, rewards |-> redis[q].rewards]
        /\ redis[q].values \in [Values -> {"none", "saved"}] /\ redis[q].lists \in [Lists -> Nat]
        /\ redis[q].rewards \in Seq(RunTasks)
    BY DEF Document
  <2>2. CASE q = r
    <3> DEFINE longer == [k \in Lists |-> IF k = l THEN redis[r].lists[k] + 1 ELSE redis[r].lists[k]]
    <3>1. longer \in [Lists -> Nat]
      BY <2>1, <2>2
    <3>2. new[q] = [values |-> redis[q].values, lists |-> longer, rewards |-> redis[q].rewards]
      BY <1>1, <2>1, <2>2
    <3> QED
      BY <2>1, <2>2, <3>1, <3>2 DEF Document
  <2>3. CASE q # r
    BY <1>1, <2>1, <2>3 DEF Document
  <2> QED
    BY <2>2, <2>3
<1> QED
  BY <1>2, <1>3 DEF new

LEMMA RewardPushed ==
  ASSUME redis \in [StatsRuns -> Document], NEW r \in StatsRuns, NEW t \in RunTasks
  PROVE  LET new == PushReward(redis, r, t) IN
         /\ new \in [StatsRuns -> Document]
         /\ \A q \in StatsRuns : /\ new[q].lists = redis[q].lists /\ new[q].values = redis[q].values
                                 /\ q # r => new[q] = redis[q]
         /\ new[r].rewards = Append(redis[r].rewards, t)
<1> DEFINE new == PushReward(redis, r, t)
<1>1. redis[r] \in Document /\ redis[r].rewards \in Seq(RunTasks)
  BY DEF Document
<1>2. Append(redis[r].rewards, t) \in Seq(RunTasks)
  BY <1>1, AppendProperties
<1>3. new = [q \in StatsRuns |-> IF q = r THEN [redis[r] EXCEPT !.rewards = Append(redis[r].rewards, t)]
                                 ELSE redis[q]]
  BY DEF PushReward
<1>4. new[r] \in Document
  BY <1>1, <1>2, <1>3 DEF Document
<1> HIDE DEF new
<1>5. new \in [StatsRuns -> Document]
  BY <1>3, <1>4
<1>6. \A q \in StatsRuns : q # r => new[q] = redis[q]
  BY <1>3
<1>7. new[r].lists = redis[r].lists /\ new[r].values = redis[r].values
      /\ new[r].rewards = Append(redis[r].rewards, t)
  BY <1>1, <1>3 DEF Document
<1> QED
  BY <1>5, <1>6, <1>7 DEF new

LEMMA RangeOfAppend ==
  ASSUME NEW S, NEW q \in Seq(S), NEW x \in S
  PROVE  /\ Append(q, x) \in Seq(S) /\ Len(Append(q, x)) = Len(q) + 1
         /\ Range(Append(q, x)) = Range(q) \union {x}
         /\ IsInjective(q) /\ x \notin Range(q) => IsInjective(Append(q, x))
<1>1. /\ Append(q, x) \in Seq(S) /\ Len(Append(q, x)) = Len(q) + 1 /\ Len(q) \in Nat
      /\ DOMAIN q = 1..Len(q) /\ DOMAIN Append(q, x) = 1..Len(q) + 1
      /\ Append(q, x)[Len(q) + 1] = x
      /\ \A i \in 1..Len(q) : Append(q, x)[i] = q[i]
  BY AppendProperties, LenProperties
<1>2. Range(Append(q, x)) = Range(q) \union {x}
  BY <1>1 DEF Range
<1>3. ASSUME IsInjective(q), x \notin Range(q) PROVE IsInjective(Append(q, x))
  BY <1>1, <1>3 DEF Range, IsInjective
<1> QED BY <1>1, <1>2, <1>3

LEMMA StatsDeleted ==
  ASSUME redis \in [StatsRuns -> Document], NEW r, 0 \notin StatsRuns
  PROVE  LET new == DeleteStats(redis, r) IN
         /\ new \in [StatsRuns -> Document]
         /\ \A q \in StatsRuns : new[q] = IF q = r THEN NoStats ELSE redis[q]
<1>1. NoStats \in Document
  BY EmptySeq DEF NoStats, Document
<1> QED
  BY <1>1 DEF DeleteStats, NoCode

-----------------------------------------------------------------------------
(* What a step does to what the consumers have still to handle. *)

(* A run is in force whose tasks keep what they are announced for. *)
SameRun ==
  /\ schedule' = schedule /\ Run' = Run
  /\ \A t \in RunTasks : progress[t] = "announced" => progress'[t] = "announced"

LEMMA SameEvents ==
  ASSUME SameRun
  PROVE  StatsRuns' = StatsRuns /\ RunTasks' = RunTasks /\ Event' = Event
BY DEF SameRun, StatsRuns, RunTasks, Event

(* A consumer handles a command. *)
TookCommand(c, kind) ==
  /\ Run \in StatsRuns /\ Waits(c, kind) /\ c \in ReceiversOf(kind) /\ Subject(c) = Run
  /\ inbox' \in [Consumers -> Seq(Event)] /\ Delivered'
  /\ \A d \in Consumers, k \in Commands : Waits(d, k)' <=> Waits(d, k) /\ ~(d = c /\ k = kind)
  /\ \A g \in Groups : OnTheWay(g)' <=> OnTheWay(g)
  /\ \A t \in RunTasks : ToObserve(t)' <=> ToObserve(t)
  /\ \A d \in Consumers : \A e, f :
       Precedes(inbox'[d], e, f) <=> Precedes(inbox[d], e, f) /\ ~(d = c /\ e = Note(kind, Run))
  /\ \A d \in Consumers : \A e : In(inbox'[d], e) => In(inbox[d], e)
  /\ \A e : ~Precedes(inbox[c], e, Note(kind, Run))

LEMMA Takes ==
  ASSUME Types, Delivered, SameRun, NEW c \in Consumers, NEW kind \in Commands, Receives(c, kind),
         inbox' = Handled(c)
  PROVE  TookCommand(c, kind)
<1>1. /\ Run \in StatsRuns /\ Waits(c, kind) /\ c \in ReceiversOf(kind) /\ Subject(c) = Run
      /\ inbox[c] # <<>> /\ Head(inbox[c]) = Note(kind, Run)
  BY HeadIs
<1> DEFINE x == Note(kind, Run)
<1>x. Head(inbox[c]) = x
  BY <1>1
<1> HIDE DEF x
<1>2. /\ inbox' \in [Consumers -> Seq(Event)]
      /\ \A e : ~Precedes(inbox[c], e, x)
      /\ \A d \in Consumers :
           /\ Distinct(inbox'[d])
           /\ \A e : In(inbox'[d], e) <=> In(inbox[d], e) /\ ~(d = c /\ e = x)
           /\ \A e, f : Precedes(inbox'[d], e, f)
                         <=> Precedes(inbox[d], e, f) /\ ~(d = c /\ e = x)
  BY <1>1, <1>x, Taken
<1>3. Run' = Run /\ Event' = Event
  BY SameEvents DEF SameRun
<1>4. \A d \in Consumers, k \in Commands : Waits(d, k)' <=> Waits(d, k) /\ ~(d = c /\ k = kind)
  BY <1>2, <1>3 DEF Waits, x, Note
<1>5. \A g \in Groups : OnTheWay(g)' <=> OnTheWay(g)
  BY <1>2 DEF OnTheWay, Consumers, Commands, x, Note
<1>6. \A t \in RunTasks : ToObserve(t)' <=> ToObserve(t)
  BY <1>2 DEF ToObserve, Consumers, Resources, Commands, x, Note
<1>7. Delivered'
  BY <1>2, <1>3, EventFacts DEF Delivered, SameRun, x, Note
<1> QED
  BY <1>1, <1>2, <1>4, <1>5, <1>6, <1>7 DEF TookCommand, x, Note

(* A resource handles a command, and reports a group of statistics. *)
TookAndReported(c, kind, new) ==
  /\ Run \in StatsRuns /\ Waits(c, kind) /\ c \in ReceiversOf(kind)
  /\ inbox' \in [Consumers -> Seq(Event)] /\ Delivered'
  /\ \A d \in Consumers, k \in Commands : Waits(d, k)' <=> Waits(d, k) /\ ~(d = c /\ k = kind)
  /\ \A g \in Groups : OnTheWay(g)' <=> OnTheWay(g) \/ g = new
  /\ \A t \in RunTasks : ToObserve(t)' <=> ToObserve(t)
  /\ \A d \in Consumers : \A e, f :
       Precedes(inbox[d], e, f) /\ ~(d = c /\ e = Note(kind, Run)) => Precedes(inbox'[d], e, f)
  /\ \A k : Waits("manager", k) => Precedes(inbox'["manager"], Note(k, Run), Note("stats_updated", new))
  /\ \A e : In(inbox'["manager"], e) <=> In(inbox["manager"], e) \/ e = Note("stats_updated", new)
  /\ \A e : ~Precedes(inbox[c], e, Note(kind, Run))

LEMMA TakesAndReports ==
  ASSUME Types, Delivered, SameRun, NEW c \in Resources, NEW kind \in Commands, Receives(c, kind),
         NEW new \in Groups, ~OnTheWay(new), inbox' = Publish(Handled(c), "stats_updated", new)
  PROVE  TookAndReported(c, kind, new)
<1> DEFINE boxes == Handled(c)
<1>1. /\ Run \in StatsRuns /\ Waits(c, kind) /\ c \in ReceiversOf(kind)
      /\ inbox[c] # <<>> /\ Head(inbox[c]) = Note(kind, Run) /\ c \in Consumers /\ c # "manager"
  BY HeadIs DEF Consumers, Resources
<1> DEFINE x == Note(kind, Run)
<1> DEFINE y == Note("stats_updated", new)
<1>x. Head(inbox[c]) = x
  BY <1>1
<1> HIDE DEF x, y, boxes
<1>2. /\ boxes \in [Consumers -> Seq(Event)]
      /\ \A e : ~Precedes(inbox[c], e, x)
      /\ \A d \in Consumers :
           /\ Distinct(boxes[d])
           /\ \A e : In(boxes[d], e) <=> In(inbox[d], e) /\ ~(d = c /\ e = x)
           /\ \A e, f : Precedes(boxes[d], e, f)
                         <=> Precedes(inbox[d], e, f) /\ ~(d = c /\ e = x)
  BY <1>1, <1>x, Taken DEF boxes
<1>3. y \in Event /\ ReceiversOf("stats_updated") = {"manager"}
  BY EventFacts DEF ReceiversOf, y, Note
<1>4. \A d \in ReceiversOf("stats_updated") \intersect Consumers : ~In(boxes[d], y)
  BY <1>2, <1>3 DEF OnTheWay, y, Note
<1>5. /\ inbox' \in [Consumers -> Seq(Event)]
      /\ \A d \in Consumers :
           /\ Distinct(inbox'[d])
           /\ \A e : In(inbox'[d], e) <=> In(boxes[d], e) \/ (d = "manager" /\ e = y)
           /\ \A e, f : Precedes(boxes[d], e, f) => Precedes(inbox'[d], e, f)
           /\ \A e : d = "manager" /\ In(boxes[d], e) => Precedes(inbox'[d], e, y)
  <2>1. Note("stats_updated", new) = y
    BY DEF y, Note
  <2>2. /\ inbox' \in [Consumers -> Seq(Event)]
        /\ \A d \in Consumers : IF d \in ReceiversOf("stats_updated") THEN Grown(boxes[d], inbox'[d], y)
                                ELSE inbox'[d] = boxes[d]
    BY <1>2, <1>3, <1>4, <2>1, Published DEF boxes
  <2>3. \A d \in Consumers : IF d = "manager" THEN Grown(boxes[d], inbox'[d], y) ELSE inbox'[d] = boxes[d]
    BY <1>3, <2>2
  <2> QED
    BY <1>2, <2>2, <2>3 DEF Grown
<1>6. /\ inbox' \in [Consumers -> Seq(Event)]
      /\ \A d \in Consumers :
           /\ Distinct(inbox'[d])
           /\ \A e : In(inbox'[d], e)
                      <=> (In(inbox[d], e) /\ ~(d = c /\ e = x)) \/ (d = "manager" /\ e = y)
           /\ \A e, f : Precedes(inbox[d], e, f) /\ ~(d = c /\ e = x)
                         => Precedes(inbox'[d], e, f)
  BY <1>2, <1>5
<1>7. \A e : In(inbox["manager"], e) => Precedes(inbox'["manager"], e, y)
  BY <1>1, <1>2, <1>5 DEF Consumers
<1>8. Run' = Run /\ Event' = Event
  BY SameEvents DEF SameRun
<1>9. \A d \in Consumers, k \in Commands : Waits(d, k)' <=> Waits(d, k) /\ ~(d = c /\ k = kind)
  BY <1>6, <1>8 DEF Waits, Commands, x, y, Note
<1>10. \A g \in Groups : OnTheWay(g)' <=> OnTheWay(g) \/ g = new
  BY <1>1, <1>6 DEF OnTheWay, Consumers, x, y, Note
<1>11. \A t \in RunTasks : ToObserve(t)' <=> ToObserve(t)
  BY <1>6 DEF ToObserve, Consumers, Resources, Commands, x, y, Note
<1>12. Delivered'
  BY <1>3, <1>6, <1>8, EventFacts DEF Delivered, SameRun, Commands, x, y, Note
<1>13. \A e : In(inbox'["manager"], e) <=> In(inbox["manager"], e) \/ e = y
  BY <1>1, <1>6 DEF Consumers
<1>14. \A k : Waits("manager", k) => Precedes(inbox'["manager"], Note(k, Run), y)
  BY <1>7 DEF Waits
<1> QED
  BY <1>1, <1>2, <1>6, <1>9, <1>10, <1>11, <1>12, <1>13, <1>14 DEF TookAndReported, x, y

(* A command is given. *)
Gave(kind) ==
  /\ inbox' \in [Consumers -> Seq(Event)] /\ Delivered'
  /\ \A d \in Consumers, k \in Commands :
       Waits(d, k)' <=> Waits(d, k) \/ (d \in ReceiversOf(kind) /\ k = kind)
  /\ \A g \in Groups : OnTheWay(g)' <=> OnTheWay(g)
  /\ \A t \in RunTasks : ToObserve(t)' <=> ToObserve(t)
  /\ \A d \in Consumers :
       /\ \A e, f : Precedes(inbox[d], e, f) => Precedes(inbox'[d], e, f)
       /\ \A e : In(inbox'[d], e) <=> In(inbox[d], e) \/ (d \in ReceiversOf(kind) /\ e = Note(kind, Run))
       /\ \A k : d \in ReceiversOf(kind) /\ Waits(d, k) => Precedes(inbox'[d], Note(k, Run), Note(kind, Run))
  /\ \A t \in RunTasks : "agent" \in ReceiversOf(kind) /\ ToObserve(t)
       => Precedes(inbox'["agent"], Note("trajectory_completed", t), Note(kind, Run))

LEMMA Gives ==
  ASSUME Types, Delivered, SameRun, NEW kind \in Commands, Run \in StatsRuns,
         \A c \in Consumers : ~Waits(c, kind), inbox' = Publish(inbox, kind, Run)
  PROVE  Gave(kind)
<1> DEFINE x == Note(kind, Run)
<1>1. /\ inbox \in [Consumers -> Seq(Event)] /\ \A c \in Consumers : Distinct(inbox[c])
      /\ x \in Event
      /\ \A c \in Consumers : c \in ReceiversOf(kind) => ~In(inbox[c], x)
  BY EventFacts DEF Types, Delivered, Waits
<1>y. Note(kind, Run) = x
  OBVIOUS
<1> HIDE DEF x
<1>x. /\ inbox' \in [Consumers -> Seq(Event)]
      /\ \A d \in Consumers : IF d \in ReceiversOf(kind) THEN Grown(inbox[d], inbox'[d], x)
                              ELSE inbox'[d] = inbox[d]
  <2>1. \A c \in Consumers : Distinct(inbox[c]) /\ (c \in ReceiversOf(kind) => ~In(inbox[c], Note(kind, Run)))
    BY <1>1, <1>y
  <2>2. Note(kind, Run) \in Event
    BY <1>1, <1>y
  <2> QED
    BY <1>1, <1>y, <2>1, <2>2, Published
<1>2. /\ inbox' \in [Consumers -> Seq(Event)]
      /\ \A d \in Consumers :
           /\ Distinct(inbox'[d])
           /\ \A e : In(inbox'[d], e) <=> In(inbox[d], e) \/ (d \in ReceiversOf(kind) /\ e = x)
           /\ \A e, f : Precedes(inbox[d], e, f) => Precedes(inbox'[d], e, f)
           /\ \A e : d \in ReceiversOf(kind) /\ In(inbox[d], e) => Precedes(inbox'[d], e, x)
  BY <1>1, <1>x DEF Grown
<1>3. Run' = Run /\ Event' = Event
  BY SameEvents DEF SameRun
<1>4. \A d \in Consumers, k \in Commands :
        Waits(d, k)' <=> Waits(d, k) \/ (d \in ReceiversOf(kind) /\ k = kind)
  BY <1>2, <1>3 DEF Waits, x, Note
<1>5. \A g \in Groups : OnTheWay(g)' <=> OnTheWay(g)
  BY <1>2 DEF OnTheWay, Consumers, Commands, x, Note
<1>6. \A t \in RunTasks : ToObserve(t)' <=> ToObserve(t)
  BY <1>2 DEF ToObserve, Consumers, Resources, Commands, x, Note
<1>7. Delivered'
  BY <1>2, <1>3, EventFacts DEF Delivered, SameRun, Commands, x, Note
<1>8. /\ \A d \in Consumers : \A k : d \in ReceiversOf(kind) /\ Waits(d, k) => Precedes(inbox'[d], Note(k, Run), x)
      /\ \A t \in RunTasks : "agent" \in ReceiversOf(kind) /\ ToObserve(t)
           => Precedes(inbox'["agent"], Note("trajectory_completed", t), x)
  BY <1>2 DEF Waits, ToObserve, Consumers, Resources
<1> QED
  BY <1>2, <1>4, <1>5, <1>6, <1>7, <1>8 DEF Gave, x

(* What a step within a run leaves as it is. *)
Settled ==
  /\ StatsRuns' = StatsRuns /\ RunTasks' = RunTasks /\ Event' = Event /\ Document' = Document
  /\ Run' = Run /\ Run \in Nat /\ (Run # 0 <=> Run \in StatsRuns) /\ 0 \notin StatsRuns
  /\ Phase # "complete" => Run \in StatsRuns
  /\ StatsRuns \subseteq Nat
  /\ stage \in [Resources -> {"WAITING", "READY", "RUNNING"}]
  /\ code \in [Consumers -> 0..Run] /\ groups \subseteq Groups /\ timed \in 0..1
  /\ redis \in [StatsRuns -> Document] /\ due \in [StatsRuns -> SUBSET RunTasks]
  /\ progress \in [RunTasks -> {"new", "scheduled", "chosen", "rewarded", "failed", "announced"}]

LEMMA Still ==
  ASSUME Types, SameRun
  PROVE  Settled
<1>1. StatsRuns' = StatsRuns /\ RunTasks' = RunTasks /\ Event' = Event /\ Run' = Run
  BY SameEvents DEF SameRun
<1>2. Document' = Document
  BY <1>1 DEF Document
<1>3. /\ Run \in Nat /\ (Run # 0 <=> Run \in StatsRuns)
      /\ Len(schedule.tasks) \in Nat /\ StatsRuns = 1..Len(schedule.tasks)
  BY Basics
<1>4. 0 \notin StatsRuns /\ StatsRuns \subseteq Nat
  BY <1>3
<1> QED
  BY <1>1, <1>2, <1>3, <1>4 DEF Types, Settled

(* A step that handles nothing and publishes nothing. *)
QueuesRest ==
  /\ inbox' \in [Consumers -> Seq(Event)] /\ Delivered'
  /\ \A d \in Consumers : \A k : Waits(d, k)' <=> Waits(d, k)
  /\ \A g : OnTheWay(g)' <=> OnTheWay(g)
  /\ \A t : ToObserve(t)' <=> ToObserve(t)
  /\ inbox' = inbox

LEMMA Rests ==
  ASSUME Types, Delivered, SameRun, inbox' = inbox
  PROVE  QueuesRest
<1>1. Run' = Run /\ Event' = Event
  BY SameEvents DEF SameRun
<1>2. inbox' \in [Consumers -> Seq(Event)]
  BY <1>1 DEF Types
<1>3. /\ \A d \in Consumers : \A k : Waits(d, k)' <=> Waits(d, k)
      /\ \A g : OnTheWay(g)' <=> OnTheWay(g)
      /\ \A t : ToObserve(t)' <=> ToObserve(t)
  BY <1>1 DEF Waits, OnTheWay, ToObserve
<1>4. Delivered'
  BY <1>1, EventFacts DEF Delivered, SameRun
<1> QED
  BY <1>2, <1>3, <1>4 DEF QueuesRest

(* The agent hears of a trajectory. *)
TookTrajectory(t) ==
  /\ t \in RunTasks /\ ToObserve(t) /\ progress[t] = "announced"
  /\ inbox' \in [Consumers -> Seq(Event)] /\ Delivered'
  /\ \A d \in Consumers, k \in Commands : Waits(d, k)' <=> Waits(d, k)
  /\ \A g \in Groups : OnTheWay(g)' <=> OnTheWay(g)
  /\ \A u \in RunTasks : ToObserve(u)' <=> ToObserve(u) /\ u # t
  /\ \A d \in Consumers : \A e, f :
       Precedes(inbox'[d], e, f) <=> Precedes(inbox[d], e, f) /\ ~(d = "agent" /\ e = Note("trajectory_completed", t))
  /\ \A d \in Consumers : \A e : In(inbox'[d], e) => In(inbox[d], e)
  /\ \A e : ~Precedes(inbox["agent"], e, Note("trajectory_completed", t))

LEMMA TakesTrajectory ==
  ASSUME Types, Delivered, SameRun, Receives("agent", "trajectory_completed"), inbox' = Handled("agent")
  PROVE  TookTrajectory(Subject("agent"))
<1> DEFINE t == Subject("agent")
<1> DEFINE x == Note("trajectory_completed", t)
<1>1. /\ t \in RunTasks /\ ToObserve(t) /\ "agent" \in Consumers
      /\ inbox["agent"] # <<>> /\ Head(inbox["agent"]) = x /\ x \in Event
  BY HeadIs DEF Consumers, Resources
<1> HIDE DEF t, x
<1>2. /\ inbox' \in [Consumers -> Seq(Event)]
      /\ \A e : ~Precedes(inbox["agent"], e, x)
      /\ \A d \in Consumers :
           /\ Distinct(inbox'[d])
           /\ \A e : In(inbox'[d], e) <=> In(inbox[d], e) /\ ~(d = "agent" /\ e = x)
           /\ \A e, f : Precedes(inbox'[d], e, f)
                         <=> Precedes(inbox[d], e, f) /\ ~(d = "agent" /\ e = x)
  BY <1>1, Taken
<1>3. Run' = Run /\ Event' = Event
  BY SameEvents DEF SameRun
<1>4. \A d \in Consumers, k \in Commands : Waits(d, k)' <=> Waits(d, k)
  BY <1>2, <1>3 DEF Waits, Commands, x, Note
<1>5. \A g \in Groups : OnTheWay(g)' <=> OnTheWay(g)
  BY <1>2 DEF OnTheWay, Consumers
<1>6. \A u \in RunTasks : ToObserve(u)' <=> ToObserve(u) /\ u # t
  BY SMTT(30), <1>1, <1>2, NotesDiffer DEF ToObserve, x
<1>7. Delivered'
  BY <1>2, <1>3, EventFacts DEF Delivered, SameRun
<1>8. progress[t] = "announced"
  BY <1>1, <1>1 DEF Delivered, ToObserve, x, Note
<1> QED
  BY <1>1, <1>2, <1>4, <1>5, <1>6, <1>7, <1>8 DEF TookTrajectory, t, x

(* The agent is told of a trajectory. *)
ToldOfTrajectory(t) ==
  /\ inbox' \in [Consumers -> Seq(Event)] /\ Delivered'
  /\ \A d \in Consumers, k \in Commands : Waits(d, k)' <=> Waits(d, k)
  /\ \A g \in Groups : OnTheWay(g)' <=> OnTheWay(g)
  /\ \A u \in RunTasks : ToObserve(u)' <=> ToObserve(u) \/ u = t
  /\ \A d \in Consumers : \A e, f : Precedes(inbox[d], e, f) => Precedes(inbox'[d], e, f)
  /\ inbox'["manager"] = inbox["manager"]
  /\ \A k : Waits("agent", k) => Precedes(inbox'["agent"], Note(k, Run), Note("trajectory_completed", t))

LEMMA TellsOfTrajectory ==
  ASSUME Types, Delivered, SameRun, NEW t \in RunTasks, progress[t] # "announced", progress'[t] = "announced",
         inbox' = Publish(inbox, "trajectory_completed", t)
  PROVE  ToldOfTrajectory(t)
<1> DEFINE x == Note("trajectory_completed", t)
<1>1. /\ inbox \in [Consumers -> Seq(Event)] /\ \A c \in Consumers : Distinct(inbox[c])
      /\ x \in Event /\ ReceiversOf("trajectory_completed") = {"agent"}
  BY EventFacts DEF Types, Delivered, ReceiversOf
<1>2. \A c \in Consumers : ~In(inbox[c], x)
  BY <1>1 DEF Delivered, Note
<1>3. Note("trajectory_completed", t) = x
  OBVIOUS
<1> HIDE DEF x
<1>4. /\ inbox' \in [Consumers -> Seq(Event)]
      /\ \A d \in Consumers : IF d \in ReceiversOf("trajectory_completed") THEN Grown(inbox[d], inbox'[d], x)
                              ELSE inbox'[d] = inbox[d]
  BY <1>1, <1>2, <1>3, Published
<1>5. /\ Grown(inbox["agent"], inbox'["agent"], x)
      /\ \A d \in Consumers : d # "agent" => inbox'[d] = inbox[d]
  BY <1>1, <1>4 DEF Consumers, Resources
<1>6. \A d \in Consumers :
        /\ Distinct(inbox'[d])
        /\ \A e : In(inbox'[d], e) <=> In(inbox[d], e) \/ (d = "agent" /\ e = x)
        /\ \A e, f : Precedes(inbox[d], e, f) => Precedes(inbox'[d], e, f)
  BY <1>1, <1>5 DEF Grown
<1>7. Run' = Run /\ Event' = Event
  BY SameEvents DEF SameRun
<1>8. \A d \in Consumers, k \in Commands : Waits(d, k)' <=> Waits(d, k)
  BY <1>6, <1>7, NotesDiffer DEF Waits, Commands, x
<1>9. inbox'["manager"] = inbox["manager"] /\ \A g \in Groups : OnTheWay(g)' <=> OnTheWay(g)
  BY <1>5 DEF OnTheWay, Consumers, Resources
<1>10. \A u \in RunTasks : ToObserve(u)' <=> ToObserve(u) \/ u = t
  BY <1>6, NotesDiffer DEF ToObserve, Consumers, Resources, x
<1>11. \A k : Waits("agent", k) => Precedes(inbox'["agent"], Note(k, Run), x)
  BY <1>5 DEF Waits, Grown
<1>12. x[1] = "trajectory_completed" /\ x[2] = t /\ "trajectory_completed" \notin Commands
  BY DEF x, Note, Commands
<1>13. Delivered'
  BY <1>1, <1>6, <1>7, <1>12, EventFacts DEF Delivered, SameRun
<1> QED
  BY <1>4, <1>6, <1>8, <1>9, <1>10, <1>11, <1>13 DEF ToldOfTrajectory, x

(* A step that observes no trajectory, completes none and announces none. *)
LEMMA RewardsKept ==
  ASSUME SameRun, Settled, Rewards, Phase' = Phase, due' = due, Announced' = Announced,
         \A q \in StatsRuns : q >= Run => redis'[q].rewards = redis[q].rewards,
         \A t \in RunTasks : ToObserve(t)' <=> ToObserve(t),
         Waits("agent", "start_run")' => Waits("agent", "start_run"),
         \A t \in RunTasks :
           /\ Precedes(inbox["agent"], Note("start_run", Run), Note("trajectory_completed", t))
                /\ Waits("agent", "start_run")'
                => Precedes(inbox'["agent"], Note("start_run", Run), Note("trajectory_completed", t))
           /\ Precedes(inbox["agent"], Note("trajectory_completed", t), Note("execution_completed", Run))
                => Precedes(inbox'["agent"], Note("trajectory_completed", t), Note("execution_completed", Run))
  PROVE  Rewards'
<1>1. Announced \subseteq RunTasks /\ (Phase = "execution_completed" => due[Run] \subseteq RunTasks)
  BY DEF Announced, Settled
<1>2. /\ Run' = Run /\ StatsRuns' = StatsRuns /\ RunTasks' = RunTasks /\ Run \in Nat /\ StatsRuns \subseteq Nat
      /\ (Run # 0 <=> Run \in StatsRuns) /\ (Phase # "complete" => Run \in StatsRuns)
  BY DEF Settled
<1>3. ASSUME NEW q \in StatsRuns, q > Run
      PROVE  redis'[q].rewards = <<>>
  <2>1. q >= Run /\ redis[q].rewards = <<>>
    BY <1>2, <1>3 DEF Rewards
  <2> QED
    BY <2>1
<1>4. ASSUME NEW t \in RunTasks, RunOf(t) = Run, ToObserve(t)', Waits("agent", "start_run")'
      PROVE  Precedes(inbox'["agent"], Note("start_run", Run), Note("trajectory_completed", t))
  BY <1>4 DEF Rewards
<1>5. ASSUME Run # 0
      PROVE  /\ \A t \in Range(redis'[Run].rewards) : t \in Announced /\ ~ToObserve(t)'
             /\ IsInjective(redis'[Run].rewards)
  BY <1>1, <1>2, <1>5 DEF Rewards
<1>6. ASSUME Phase = "start_run"
      PROVE  \A t \in Announced : ToObserve(t)' \/ t \in Range(redis'[Run].rewards)
  BY <1>1, <1>2, <1>6 DEF Rewards
<1>7. ASSUME Phase = "execution_completed", NEW t \in due[Run]
      PROVE  /\ RunOf(t) = Run
             /\ \/ t \in Range(redis'[Run].rewards)
                \/ Precedes(inbox'["agent"], Note("trajectory_completed", t), Note("execution_completed", Run))
  BY <1>1, <1>2, <1>7 DEF Rewards
<1> QED
  BY <1>2, <1>3, <1>4, <1>5, <1>6, <1>7 DEF Rewards

(* The manager takes the report of a group; it may complete the run then. *)
TookReport(g) ==
  /\ inbox' \in [Consumers -> Seq(Event)] /\ Delivered'
  /\ \A d \in Consumers, k \in Commands : Waits(d, k)' <=> Waits(d, k)
  /\ \A h \in Groups : OnTheWay(h)' <=> OnTheWay(h) /\ h # g
  /\ \A t \in RunTasks : ToObserve(t)' <=> ToObserve(t)
  /\ \A d \in Resources : inbox'[d] = inbox[d]

TookReportAndCompleted(g) ==
  /\ inbox' \in [Consumers -> Seq(Event)] /\ Delivered'
  /\ \A d \in Consumers, k \in Commands : Waits(d, k)' <=> Waits(d, k) \/ k = "run_completed"
  /\ \A h \in Groups : OnTheWay(h)' <=> OnTheWay(h) /\ h # g
  /\ \A t \in RunTasks : ToObserve(t)' <=> ToObserve(t)
  /\ \A d \in Resources :
       /\ \A e, f : Precedes(inbox[d], e, f) => Precedes(inbox'[d], e, f)
       /\ \A k : Waits(d, k) => Precedes(inbox'[d], Note(k, Run), Note("run_completed", Run))

LEMMA ManagerTakes ==
  ASSUME Types, Delivered, Receives("manager", "stats_updated")
  PROVE  LET boxes == Handled("manager")
             x == Note("stats_updated", Subject("manager")) IN
         /\ boxes \in [Consumers -> Seq(Event)]
         /\ \A e : ~Precedes(inbox["manager"], e, x)
         /\ \A d \in Consumers :
              /\ Distinct(boxes[d])
              /\ \A e : In(boxes[d], e) <=> In(inbox[d], e) /\ ~(d = "manager" /\ e = x)
         /\ \A d \in Resources : boxes[d] = inbox[d]
<1> DEFINE boxes == Handled("manager")
<1> DEFINE x == Note("stats_updated", Subject("manager"))
<1>1. inbox["manager"] # <<>> /\ Head(inbox["manager"]) = x /\ "manager" \in Consumers
  BY HeadIs DEF Consumers
<1>2. \A d \in Resources : boxes[d] = inbox[d]
  BY DEF Handled, Resources, Consumers, Types
<1> HIDE DEF x, boxes
<1>3. /\ boxes \in [Consumers -> Seq(Event)]
      /\ \A e : ~Precedes(inbox["manager"], e, x)
      /\ \A d \in Consumers :
           /\ Distinct(boxes[d])
           /\ \A e : In(boxes[d], e) <=> In(inbox[d], e) /\ ~(d = "manager" /\ e = x)
  BY <1>1, Taken DEF boxes
<1> QED
  BY <1>2, <1>3 DEF x, boxes

LEMMA TakesReport ==
  ASSUME Types, Delivered, SameRun, Receives("manager", "stats_updated"), inbox' = Handled("manager")
  PROVE  TookReport(Subject("manager"))
<1> DEFINE x == Note("stats_updated", Subject("manager"))
<1>1. /\ inbox' \in [Consumers -> Seq(Event)]
      /\ \A d \in Consumers :
           /\ Distinct(inbox'[d])
           /\ \A e : In(inbox'[d], e) <=> In(inbox[d], e) /\ ~(d = "manager" /\ e = x)
      /\ \A d \in Resources : inbox'[d] = inbox[d]
  BY ManagerTakes
<1>2. Run' = Run /\ Event' = Event
  BY SameEvents DEF SameRun
<1>3. \A k \in Commands : Note(k, Run) # x
  BY NotesDiffer DEF Commands
<1>4. \A h \in Groups : Note("stats_updated", h) = x <=> h = Subject("manager")
  BY NotesDiffer
<1> HIDE DEF x
<1>5. \A d \in Consumers, k \in Commands : Waits(d, k)' <=> Waits(d, k)
  BY <1>1, <1>2, <1>3 DEF Waits
<1>6. \A h \in Groups : OnTheWay(h)' <=> OnTheWay(h) /\ h # Subject("manager")
  BY <1>1, <1>4 DEF OnTheWay, Consumers
<1>7. \A t \in RunTasks : ToObserve(t)' <=> ToObserve(t)
  BY <1>1 DEF ToObserve, Resources
<1>8. Delivered'
  BY <1>1, <1>2, EventFacts DEF Delivered, SameRun
<1> QED
  BY <1>1, <1>5, <1>6, <1>7, <1>8 DEF TookReport

LEMMA TakesReportAndCompletes ==
  ASSUME Types, Delivered, SameRun, Receives("manager", "stats_updated"), Run \in StatsRuns,
         \A c \in Consumers : ~Waits(c, "run_completed"),
         inbox' = Publish(Handled("manager"), "run_completed", Run)
  PROVE  TookReportAndCompleted(Subject("manager"))
<1> DEFINE boxes == Handled("manager")
<1> DEFINE x == Note("stats_updated", Subject("manager"))
<1> DEFINE y == Note("run_completed", Run)
<1>1. /\ boxes \in [Consumers -> Seq(Event)]
      /\ \A d \in Consumers :
           /\ Distinct(boxes[d])
           /\ \A e : In(boxes[d], e) <=> In(inbox[d], e) /\ ~(d = "manager" /\ e = x)
      /\ \A d \in Resources : boxes[d] = inbox[d]
  BY ManagerTakes
<1>2. y \in Event /\ ReceiversOf("run_completed") = Consumers
  BY EventFacts DEF ReceiversOf, Commands
<1>3. /\ \A k \in Commands : Note(k, Run) # x /\ (Note(k, Run) = y <=> k = "run_completed")
      /\ \A h \in Groups : Note("stats_updated", h) # y /\ (Note("stats_updated", h) = x <=> h = Subject("manager"))
      /\ \A t \in RunTasks : Note("trajectory_completed", t) # y
  BY NotesDiffer DEF Commands
<1>4. \A c \in Consumers : ~In(inbox[c], y)
  BY DEF Waits
<1>5. y[1] = "run_completed" /\ y[2] = Run /\ Note("run_completed", Run) = y
  BY DEF Note
<1>6. inbox' = Publish(boxes, "run_completed", Run)
  OBVIOUS
<1> HIDE DEF x, y, boxes
<1>7. /\ inbox' \in [Consumers -> Seq(Event)]
      /\ \A d \in Consumers : Grown(boxes[d], inbox'[d], y)
  <2>1. \A c \in Consumers : Distinct(boxes[c]) /\ ~In(boxes[c], y)
    BY <1>1, <1>4
  <2> QED
    BY <1>1, <1>2, <1>5, <1>6, <2>1, Published
<1>8. \A d \in Consumers :
        /\ Distinct(inbox'[d])
        /\ \A e : In(inbox'[d], e) <=> (In(inbox[d], e) /\ ~(d = "manager" /\ e = x)) \/ e = y
  BY <1>1, <1>7 DEF Grown
<1>9. Run' = Run /\ Event' = Event
  BY SameEvents DEF SameRun
<1>10. \A d \in Consumers, k \in Commands : Waits(d, k)' <=> Waits(d, k) \/ k = "run_completed"
  BY <1>3, <1>8, <1>9 DEF Waits
<1>11. \A h \in Groups : OnTheWay(h)' <=> OnTheWay(h) /\ h # Subject("manager")
  BY <1>3, <1>8 DEF OnTheWay, Consumers
<1>12. \A t \in RunTasks : ToObserve(t)' <=> ToObserve(t)
  BY <1>3, <1>8 DEF ToObserve, Consumers, Resources
<1>13. ASSUME NEW d \in Resources
       PROVE  /\ \A e, f : Precedes(inbox[d], e, f) => Precedes(inbox'[d], e, f)
              /\ \A k : Waits(d, k) => Precedes(inbox'[d], Note(k, Run), y)
  BY <1>1, <1>7 DEF Grown, Waits, Consumers
<1>14. Delivered'
  <2> SUFFICES ASSUME NEW c \in Consumers, NEW e \in Event, In(inbox'[c], e)
               PROVE  /\ c \in ReceiversOf(e[1])
                      /\ e[1] \in Commands => e[2] = Run
                      /\ e[1] = "trajectory_completed" => progress'[e[2]] = "announced"
    BY <1>8, <1>9 DEF Delivered
  <2>1. CASE e = y
    BY <1>2, <1>5, <2>1
  <2>2. CASE e # y
    BY <1>8, <2>2, EventFacts DEF Delivered, SameRun
  <2> QED
    BY <2>1, <2>2
<1> QED
  BY <1>7, <1>10, <1>11, <1>12, <1>13, <1>14 DEF TookReportAndCompleted, y

(* The generator starts, reports, and tells itself that all is scheduled. *)
TookStartAndScheduled ==
  /\ inbox' \in [Consumers -> Seq(Event)] /\ Delivered'
  /\ \A d \in Consumers, k \in Commands :
       Waits(d, k)' <=> \/ Waits(d, k) /\ ~(d = "generator" /\ k = "start_run")
                        \/ d = "generator" /\ k = "scheduling_completed"
  /\ \A g \in Groups : OnTheWay(g)' <=> OnTheWay(g) \/ g = "global_stats"
  /\ \A t \in RunTasks : ToObserve(t)' <=> ToObserve(t)
  /\ \A d \in Consumers : \A e, f :
       Precedes(inbox[d], e, f) /\ ~(d = "generator" /\ e = Note("start_run", Run)) => Precedes(inbox'[d], e, f)
  /\ \A k : Waits("manager", k) => Precedes(inbox'["manager"], Note(k, Run), Note("stats_updated", "global_stats"))
  /\ \A e : In(inbox'["manager"], e) <=> In(inbox["manager"], e) \/ e = Note("stats_updated", "global_stats")

LEMMA TakesStartAndSchedules ==
  ASSUME Types, Delivered, SameRun, Receives("generator", "start_run"), ~OnTheWay("global_stats"),
         ~Waits("generator", "scheduling_completed"),
         inbox' = Publish(Publish(Handled("generator"), "stats_updated", "global_stats"), "scheduling_completed", Run)
  PROVE  TookStartAndScheduled
<1> DEFINE boxes == Handled("generator")
<1> DEFINE more == Publish(boxes, "stats_updated", "global_stats")
<1> DEFINE x == Note("start_run", Run)
<1> DEFINE y == Note("stats_updated", "global_stats")
<1> DEFINE z == Note("scheduling_completed", Run)
<1>1. /\ Run \in StatsRuns /\ inbox["generator"] # <<>> /\ Head(inbox["generator"]) = x
      /\ "generator" \in Consumers /\ "manager" \in Consumers /\ "global_stats" \in Groups
  BY HeadIs DEF Consumers, Resources, Commands, Groups
<1>2. /\ y \in Event /\ ReceiversOf("stats_updated") = {"manager"}
      /\ z \in Event /\ ReceiversOf("scheduling_completed") = {"generator"}
  BY <1>1, EventFacts DEF ReceiversOf, Commands
<1>3. /\ \A k \in Commands : Note(k, Run) # y /\ (Note(k, Run) = x <=> k = "start_run")
                             /\ (Note(k, Run) = z <=> k = "scheduling_completed")
      /\ \A g \in Groups : (Note("stats_updated", g) = y <=> g = "global_stats") /\ Note("stats_updated", g) # z
      /\ \A t \in RunTasks : Note("trajectory_completed", t) \notin {x, y, z}
  BY NotesDiffer DEF Commands
<1>4. /\ y[1] = "stats_updated" /\ Note("stats_updated", "global_stats") = y
      /\ z[1] = "scheduling_completed" /\ z[2] = Run /\ Note("scheduling_completed", Run) = z
  BY DEF Note
<1>5. ~In(inbox["manager"], y) /\ ~In(inbox["generator"], z)
  BY DEF OnTheWay, Waits
<1>6. inbox' = Publish(more, "scheduling_completed", Run) /\ more = Publish(boxes, "stats_updated", "global_stats")
  OBVIOUS
<1>b. boxes = Handled("generator")
  OBVIOUS
<1> HIDE DEF x, y, z, boxes, more
<1>7. /\ boxes \in [Consumers -> Seq(Event)]
      /\ \A d \in Consumers :
           /\ Distinct(boxes[d])
           /\ \A e : In(boxes[d], e) <=> In(inbox[d], e) /\ ~(d = "generator" /\ e = x)
           /\ \A e, f : Precedes(boxes[d], e, f)
                         <=> Precedes(inbox[d], e, f) /\ ~(d = "generator" /\ e = x)
  BY <1>1, <1>b, Taken
<1>8. /\ more \in [Consumers -> Seq(Event)]
      /\ \A d \in Consumers : IF d = "manager" THEN Grown(boxes[d], more[d], y) ELSE more[d] = boxes[d]
  <2>1. \A c \in Consumers : Distinct(boxes[c]) /\ (c \in ReceiversOf("stats_updated") => ~In(boxes[c], y))
    BY <1>2, <1>5, <1>7
  <2>2. \A d \in Consumers : IF d \in ReceiversOf("stats_updated") THEN Grown(boxes[d], more[d], y)
                             ELSE more[d] = boxes[d]
    BY <1>2, <1>4, <1>6, <1>7, <2>1, Published
  <2>3. more \in [Consumers -> Seq(Event)]
    BY <1>2, <1>4, <1>6, <1>7, <2>1, Published
  <2> QED
    BY <1>2, <2>2, <2>3
<1>9. /\ inbox' \in [Consumers -> Seq(Event)]
      /\ \A d \in Consumers : IF d = "generator" THEN Grown(more[d], inbox'[d], z) ELSE inbox'[d] = more[d]
  <2>1. \A c \in Consumers : Distinct(more[c]) /\ (c \in ReceiversOf("scheduling_completed") => ~In(more[c], z))
    BY <1>1, <1>2, <1>5, <1>7, <1>8 DEF Grown
  <2>2. \A d \in Consumers : IF d \in ReceiversOf("scheduling_completed") THEN Grown(more[d], inbox'[d], z)
                             ELSE inbox'[d] = more[d]
    BY SMTT(30), <1>2, <1>4, <1>6, <1>8, <2>1, Published
  <2>3. inbox' \in [Consumers -> Seq(Event)]
    BY <1>2, <1>4, <1>6, <1>8, <2>1, Published
  <2> QED
    BY <1>2, <2>2, <2>3
<1>10. \A d \in Consumers :
        /\ Distinct(inbox'[d])
        /\ \A e : In(inbox'[d], e) <=> \/ In(inbox[d], e) /\ ~(d = "generator" /\ e = x)
                                       \/ d = "manager" /\ e = y
                                       \/ d = "generator" /\ e = z
        /\ \A e, f : Precedes(inbox[d], e, f) /\ ~(d = "generator" /\ e = x) => Precedes(inbox'[d], e, f)
  BY <1>7, <1>8, <1>9 DEF Grown
<1>11. \A e : In(inbox["manager"], e) => Precedes(inbox'["manager"], e, y)
  BY <1>1, <1>7, <1>8, <1>9 DEF Grown
<1>12. Run' = Run /\ Event' = Event
  BY SameEvents DEF SameRun
<1>13. \A d \in Consumers, k \in Commands :
         Waits(d, k)' <=> \/ Waits(d, k) /\ ~(d = "generator" /\ k = "start_run")
                          \/ d = "generator" /\ k = "scheduling_completed"
  BY <1>3, <1>10, <1>12 DEF Waits
<1>14. \A g \in Groups : OnTheWay(g)' <=> OnTheWay(g) \/ g = "global_stats"
  BY <1>1, <1>3, <1>10 DEF OnTheWay
<1>15. \A t \in RunTasks : ToObserve(t)' <=> ToObserve(t)
  BY <1>3, <1>10 DEF ToObserve, Consumers, Resources
<1>16. \A k : Waits("manager", k) => Precedes(inbox'["manager"], Note(k, Run), y)
  BY <1>11 DEF Waits
<1>17. Delivered'
  <2>1. ASSUME NEW d \in Consumers, NEW e \in Event, In(inbox'[d], e)
        PROVE  /\ d \in ReceiversOf(e[1])
               /\ e[1] \in Commands => e[2] = Run
               /\ e[1] = "trajectory_completed" => progress'[e[2]] = "announced"
    <3>1. CASE In(inbox[d], e)
      BY <2>1, <3>1, EventFacts DEF Delivered, SameRun
    <3>2. CASE (d = "manager" /\ e = y) \/ (d = "generator" /\ e = z)
      BY <1>2, <1>4, <3>2 DEF Commands
    <3> QED
      BY <1>10, <2>1, <3>1, <3>2
  <2> QED
    BY <1>10, <1>12, <2>1 DEF Delivered
<1> QED
  BY <1>1, <1>9, <1>10, <1>13, <1>14, <1>15, <1>16, <1>17 DEF TookStartAndScheduled, x, y

(* The next run is prepared when all that was commanded is done. *)
GaveNextRun ==
  /\ inbox' \in [Consumers -> Seq(Event)] /\ Delivered'
  /\ \A d \in Consumers, k \in Commands : Waits(d, k)' <=> k = "prepare_new_run"
  /\ \A t \in RunTasks : ToObserve(t)' <=> ToObserve(t)
  /\ \A e : In(inbox'["manager"], e) <=> e = Note("prepare_new_run", Run')

LEMMA GivesNextRun ==
  ASSUME Types, Delivered, StatsRuns' = StatsRuns, RunTasks' = RunTasks, progress' = progress, Run' \in StatsRuns,
         \A d \in Resources, k \in Commands : ~Waits(d, k), inbox["manager"] = <<>>,
         inbox' = Publish(inbox, "prepare_new_run", Run')
  PROVE  GaveNextRun
<1> DEFINE next == Run'
<1> DEFINE x == Note("prepare_new_run", next)
<1>1. \A d \in Consumers : \A e \in Event : In(inbox[d], e) => e[1] \notin Commands
  <2> SUFFICES ASSUME NEW d \in Consumers, NEW e \in Event, In(inbox[d], e), e[1] \in Commands
               PROVE  FALSE
    OBVIOUS
  <2>1. d # "manager"
    BY EmptySeq DEF In
  <2>2. e = Note(e[1], Run)
    BY EventFacts DEF Delivered, Note
  <2> QED
    BY <2>1, <2>2 DEF Waits, Consumers
<1>2. /\ x \in Event /\ ReceiversOf("prepare_new_run") = Consumers /\ x[1] = "prepare_new_run" /\ x[2] = next
      /\ Note("prepare_new_run", next) = x /\ "prepare_new_run" \in Commands
      /\ inbox' = Publish(inbox, "prepare_new_run", next) /\ next \in StatsRuns
  BY EventFacts DEF ReceiversOf, Commands, Note
<1>3. /\ \A k \in Commands : Note(k, next) \in Event /\ Note(k, next)[1] = k
                             /\ (Note(k, next) = x <=> k = "prepare_new_run")
      /\ \A t \in RunTasks : Note("trajectory_completed", t) # x
  BY <1>2, NotesDiffer, EventFacts DEF Note, Commands
<1>4. Event' = Event /\ Run' = next
  BY DEF Event
<1> HIDE DEF next, x
<1>5. /\ inbox' \in [Consumers -> Seq(Event)]
      /\ \A d \in Consumers : Grown(inbox[d], inbox'[d], x)
  <2>1. inbox \in [Consumers -> Seq(Event)] /\ \A c \in Consumers : Distinct(inbox[c]) /\ ~In(inbox[c], x)
    BY <1>1, <1>2 DEF Types, Delivered
  <2> QED
    BY <1>2, <2>1, Published
<1>6. \A d \in Consumers :
        /\ Distinct(inbox'[d])
        /\ \A e : In(inbox'[d], e) <=> In(inbox[d], e) \/ e = x
  BY <1>5 DEF Grown
<1>7. \A d \in Consumers, k \in Commands : Waits(d, k)' <=> k = "prepare_new_run"
  BY <1>1, <1>3, <1>4, <1>6 DEF Waits
<1>8. \A t \in RunTasks : ToObserve(t)' <=> ToObserve(t)
  BY <1>3, <1>6 DEF ToObserve, Consumers, Resources
<1>9. \A e : In(inbox'["manager"], e) <=> e = x
  <2>1. \A e : ~In(inbox["manager"], e)
    BY EmptySeq DEF In
  <2> QED
    BY <1>6, <2>1 DEF Consumers
<1>10. Delivered'
  BY <1>1, <1>2, <1>4, <1>6, EventFacts DEF Delivered
<1> QED
  BY <1>4, <1>5, <1>7, <1>8, <1>9, <1>10 DEF GaveNextRun, x

(* A resource prepares: it has the code of the run, and no other command to handle. *)
LEMMA ResourcePreparesKeeps ==
  ASSUME StatisticsInvariant, NEW c \in Resources, ResourcePrepares(c)
  PROVE  StatisticsInvariant'
<1>1. /\ Types /\ Delivered /\ Obeys /\ Scheduled /\ PreparesFirst /\ ManagerKnows
      /\ Reports /\ Rewards /\ SideBySide /\ Filed
  BY DEF StatisticsInvariant
<1>2. /\ SameRun /\ Phase' = Phase /\ commanded' = commanded
      /\ UNCHANGED <<progress, times, timed, answered, redis, due, groups, completed, disk>>
  BY DEF ResourcePrepares, managerVars, poolVars, SameRun, Run, Phase
<1>3. Settled
  BY <1>1, <1>2, Still
<1>4. TookCommand(c, "prepare_new_run")
  BY <1>1, <1>2, Takes DEF Consumers, Resources, Commands, ResourcePrepares
<1>5. /\ Phase = "prepare_new_run" /\ stage[c] = "WAITING" /\ c # "manager" /\ c \in Consumers
      /\ stage' = [stage EXCEPT ![c] = "READY"] /\ code' = [code EXCEPT ![c] = Run]
  BY <1>1, <1>4 DEF Obeys, Follows, Consumers, Resources, ResourcePrepares, TookCommand
<1>i. inbox' \in [Consumers -> Seq(Event)]
  BY <1>4 DEF TookCommand
<1>s. /\ stage' \in [Resources -> {"WAITING", "READY", "RUNNING"}]
      /\ code' \in [Consumers -> 0..Run]
  BY <1>1, <1>2, <1>3, <1>5 DEF Settled, Consumers, Resources, ResourcePrepares
<1>10. Types'
  BY <1>1, <1>2, <1>3, <1>5, <1>i, <1>s DEF Types, SameRun, Settled, ResourcePrepares
<1>11a. ASSUME NEW d \in Resources PROVE Follows(d)'
  BY <1>1, <1>2, <1>3, <1>4, <1>5, NotesDiffer DEF Obeys, Follows, Consumers, Resources, Commands,
     Settled, TookCommand, ResourcePrepares
<1>11b. ASSUME NEW d \in Consumers PROVE InPhase(d)'
  BY <1>1, <1>2, <1>3, <1>4, <1>5, NotesDiffer DEF Obeys, InPhase, Consumers, Resources, Commands,
     Settled, TookCommand, ResourcePrepares
<1>11. Obeys'
  BY <1>1, <1>2, <1>3, <1>4, <1>5, <1>11a, <1>11b, NotesDiffer DEF Obeys, Consumers, Resources,
     Commands, Settled, TookCommand, ResourcePrepares
<1>12. Scheduled'
  BY <1>1, <1>2, <1>3, <1>4, <1>5, NotesDiffer DEF Scheduled, Settled, TookCommand, ResourcePrepares
<1>13. PreparesFirst'
  BY <1>1, <1>2, <1>3, <1>4, <1>5, NotesDiffer DEF PreparesFirst, Commands, Consumers, Resources,
     Settled, TookCommand, ResourcePrepares
<1>k. Known' = Known
  BY <1>1, <1>2, <1>3, <1>4, <1>5, NotesDiffer DEF Known, Commands, Consumers, Settled, TookCommand,
     ResourcePrepares
<1>14. ManagerKnows'
  BY <1>1, <1>2, <1>3, <1>4, <1>5, <1>k, NotesDiffer DEF ManagerKnows, Reported, Saved, Groups,
     Commands, Consumers, Values, Settled, TookCommand, ResourcePrepares
<1>r. \A g \in Groups : Reported(g)' <=> Reported(g)
  BY <1>4, <1>k DEF Reported, TookCommand
<1>15. Reports'
  BY <1>1, <1>2, <1>3, <1>4, <1>5, <1>r, NotesDiffer DEF Reports, Saved, Groups, Commands, Consumers,
     Resources, Values, Settled, TookCommand, ResourcePrepares
<1>w. /\ \A q \in StatsRuns : q >= Run => redis'[q].rewards = redis[q].rewards
      /\ Announced' = Announced /\ Announced \subseteq RunTasks
  BY <1>2, <1>3, <1>5 DEF Announced, Settled
<1>16. Rewards'
  BY <1>1, <1>2, <1>3, <1>4, <1>w, NotesDiffer, RewardsKept DEF Commands, Consumers, Resources,
     TookCommand
<1>g. \A q \in StatsRuns : Gap(q)' = Gap(q)
  BY <1>2, <1>3, <1>4, <1>5 DEF Gap, Settled
<1>17. SideBySide'
  BY <1>1, <1>2, <1>5, <1>3, <1>g DEF SideBySide, Settled, Consumers, Resources, ResourcePrepares
<1>18. Filed'
  BY <1>1, <1>2, <1>3 DEF Filed, SavedStatsAreTrue, TrueStats, Settled
<1> QED
  BY <1>4, <1>10, <1>11, <1>12, <1>13, <1>14, <1>15, <1>16, <1>17, <1>18 DEF StatisticsInvariant,
     TookCommand

(* A resource stops: what the run had for it was handled before. *)
LEMMA ResourceStopsKeeps ==
  ASSUME StatisticsInvariant, NEW c \in Resources, ResourceStops(c)
  PROVE  StatisticsInvariant'
<1>1. /\ Types /\ Delivered /\ Obeys /\ Scheduled /\ PreparesFirst /\ ManagerKnows
      /\ Reports /\ Rewards /\ SideBySide /\ Filed
  BY DEF StatisticsInvariant
<1>2. /\ SameRun /\ Phase' = Phase /\ commanded' = commanded
      /\ UNCHANGED <<code, progress, times, timed, answered, redis, due, groups, completed, disk>>
  BY DEF ResourceStops, managerVars, poolVars, SameRun, Run, Phase
<1>3. Settled
  BY <1>1, <1>2, Still
<1>4. TookCommand(c, "run_completed")
  BY <1>1, <1>2, Takes DEF Consumers, Resources, Commands, ResourceStops
<1>5. /\ Phase = "complete" /\ stage[c] # "WAITING" /\ c # "manager" /\ c \in Consumers
      /\ ~Waits(c, "start_run") /\ ~Waits(c, "execution_completed") /\ stage' = [stage EXCEPT ![c] = "WAITING"]
  BY <1>1, <1>4 DEF Obeys, Follows, Consumers, Resources, ResourceStops, TookCommand
<1>6. ~Waits("generator", "scheduling_completed")
  BY <1>1, <1>3, <1>4, <1>5 DEF ManagerKnows, Reports, Reported, Groups, Settled, TookCommand
<1>i. inbox' \in [Consumers -> Seq(Event)]
  BY <1>4 DEF TookCommand
<1>s. /\ stage' \in [Resources -> {"WAITING", "READY", "RUNNING"}]
      /\ code' \in [Consumers -> 0..Run]
  BY <1>1, <1>2, <1>3, <1>5, <1>6 DEF Settled, Consumers, Resources, ResourceStops
<1>10. Types'
  BY <1>1, <1>2, <1>3, <1>5, <1>6, <1>i, <1>s DEF Types, SameRun, Settled, ResourceStops
<1>11a. ASSUME NEW d \in Resources PROVE Follows(d)'
  BY <1>1, <1>2, <1>3, <1>4, <1>5, <1>6, NotesDiffer DEF Obeys, Follows, Consumers, Resources,
     Commands, Settled, TookCommand, ResourceStops
<1>11b. ASSUME NEW d \in Consumers PROVE InPhase(d)'
  BY <1>1, <1>2, <1>3, <1>4, <1>5, <1>6, NotesDiffer DEF Obeys, InPhase, Consumers, Resources,
     Commands, Settled, TookCommand, ResourceStops
<1>11. Obeys'
  BY <1>1, <1>2, <1>3, <1>4, <1>5, <1>6, <1>11a, <1>11b, NotesDiffer DEF Obeys, Consumers, Resources,
     Commands, Settled, TookCommand, ResourceStops
<1>12. Scheduled'
  BY <1>1, <1>2, <1>3, <1>4, <1>5, <1>6, NotesDiffer DEF Scheduled, Settled, TookCommand, ResourceStops
<1>13. PreparesFirst'
  BY <1>1, <1>2, <1>3, <1>4, <1>5, <1>6, NotesDiffer DEF PreparesFirst, Commands, Consumers,
     Resources, Settled, TookCommand, ResourceStops
<1>k. Known' = Known
  BY <1>1, <1>2, <1>3, <1>4, <1>5, <1>6, NotesDiffer DEF Known, Commands, Consumers, Settled,
     TookCommand, ResourceStops
<1>14. ManagerKnows'
  BY <1>1, <1>2, <1>3, <1>4, <1>5, <1>6, <1>k, NotesDiffer DEF ManagerKnows, Reported, Saved, Groups,
     Commands, Consumers, Values, Settled, TookCommand, ResourceStops
<1>r. \A g \in Groups : Reported(g)' <=> Reported(g)
  BY <1>4, <1>k DEF Reported, TookCommand
<1>15. Reports'
  BY <1>1, <1>2, <1>3, <1>4, <1>5, <1>6, <1>r, NotesDiffer DEF Reports, Saved, Groups, Commands,
     Consumers, Resources, Values, Settled, TookCommand, ResourceStops
<1>w. /\ \A q \in StatsRuns : q >= Run => redis'[q].rewards = redis[q].rewards
      /\ Announced' = Announced /\ Announced \subseteq RunTasks
  BY <1>2, <1>3, <1>5, <1>6 DEF Announced, Settled
<1>16. Rewards'
  BY <1>1, <1>2, <1>3, <1>4, <1>w, NotesDiffer, RewardsKept DEF Commands, Consumers, Resources,
     TookCommand
<1>g. \A q \in StatsRuns : Gap(q)' = Gap(q)
  BY <1>2, <1>3, <1>4, <1>5, <1>6 DEF Gap, Settled
<1>17. SideBySide'
  BY <1>1, <1>2, <1>3, <1>g DEF SideBySide, Settled, Consumers
<1>18. Filed'
  BY <1>1, <1>2, <1>3 DEF Filed, SavedStatsAreTrue, TrueStats, Settled
<1> QED
  BY <1>4, <1>10, <1>11, <1>12, <1>13, <1>14, <1>15, <1>16, <1>17, <1>18 DEF StatisticsInvariant,
     TookCommand

(* The collector starts. *)
LEMMA CollectorStartsKeeps ==
  ASSUME StatisticsInvariant, CollectorStarts
  PROVE  StatisticsInvariant'
<1>1. /\ Types /\ Delivered /\ Obeys /\ Scheduled /\ PreparesFirst /\ ManagerKnows
      /\ Reports /\ Rewards /\ SideBySide /\ Filed
  BY DEF StatisticsInvariant
<1>2. /\ SameRun /\ Phase' = Phase /\ commanded' = commanded
      /\ UNCHANGED <<code, progress, times, timed, answered, redis, due, groups, completed, disk>>
  BY DEF CollectorStarts, Starts, managerVars, poolVars, SameRun, Run, Phase
<1>3. Settled
  BY <1>1, <1>2, Still
<1>4. TookCommand("collector", "start_run")
  BY <1>1, <1>2, Takes DEF Consumers, Resources, Commands, CollectorStarts, Starts
<1>5. /\ Phase # "prepare_new_run" /\ stage["collector"] = "READY"
      /\ stage' = [stage EXCEPT !["collector"] = "RUNNING"]
  BY <1>1, <1>4 DEF Obeys, Follows, Consumers, Resources, CollectorStarts, Starts, TookCommand
<1>i. inbox' \in [Consumers -> Seq(Event)]
  BY <1>4 DEF TookCommand
<1>s. /\ stage' \in [Resources -> {"WAITING", "READY", "RUNNING"}]
      /\ code' \in [Consumers -> 0..Run]
  BY <1>1, <1>2, <1>3, <1>5 DEF Settled, Consumers, Resources, CollectorStarts, Starts
<1>10. Types'
  BY <1>1, <1>2, <1>3, <1>5, <1>i, <1>s DEF Types, SameRun, Settled, CollectorStarts, Starts
<1>11a. ASSUME NEW d \in Resources PROVE Follows(d)'
  BY <1>1, <1>2, <1>3, <1>4, <1>5, NotesDiffer DEF Obeys, Follows, Consumers, Resources, Commands,
     Settled, TookCommand, CollectorStarts, Starts
<1>11b. ASSUME NEW d \in Consumers PROVE InPhase(d)'
  BY <1>1, <1>2, <1>3, <1>4, <1>5, NotesDiffer DEF Obeys, InPhase, Consumers, Resources, Commands,
     Settled, TookCommand, CollectorStarts, Starts
<1>11. Obeys'
  BY <1>1, <1>2, <1>3, <1>4, <1>5, <1>11a, <1>11b, NotesDiffer DEF Obeys, Consumers, Resources,
     Commands, Settled, TookCommand, CollectorStarts, Starts
<1>12. Scheduled'
  BY <1>1, <1>2, <1>3, <1>4, <1>5, NotesDiffer DEF Scheduled, Settled, TookCommand, CollectorStarts,
     Starts
<1>13. PreparesFirst'
  BY <1>1, <1>2, <1>3, <1>4, <1>5, NotesDiffer DEF PreparesFirst, Commands, Consumers, Resources,
     Settled, TookCommand, CollectorStarts, Starts
<1>k. Known' = Known
  BY <1>1, <1>2, <1>3, <1>4, <1>5, NotesDiffer DEF Known, Commands, Consumers, Settled, TookCommand,
     CollectorStarts, Starts
<1>14. ManagerKnows'
  BY <1>1, <1>2, <1>3, <1>4, <1>5, <1>k, NotesDiffer DEF ManagerKnows, Reported, Saved, Groups,
     Commands, Consumers, Values, Settled, TookCommand, CollectorStarts, Starts
<1>r. \A g \in Groups : Reported(g)' <=> Reported(g)
  BY <1>4, <1>k DEF Reported, TookCommand
<1>15. Reports'
  BY <1>1, <1>2, <1>3, <1>4, <1>5, <1>r, NotesDiffer DEF Reports, Saved, Groups, Commands, Consumers,
     Resources, Values, Settled, TookCommand, CollectorStarts, Starts
<1>w. /\ \A q \in StatsRuns : q >= Run => redis'[q].rewards = redis[q].rewards
      /\ Announced' = Announced /\ Announced \subseteq RunTasks
  BY <1>2, <1>3, <1>5 DEF Announced, Settled
<1>16. Rewards'
  BY <1>1, <1>2, <1>3, <1>4, <1>w, NotesDiffer, RewardsKept DEF Commands, Consumers, Resources,
     TookCommand
<1>g. \A q \in StatsRuns : Gap(q)' = Gap(q)
  BY <1>2, <1>3, <1>4, <1>5 DEF Gap, Settled
<1>17. SideBySide'
  BY <1>1, <1>2, <1>3, <1>g DEF SideBySide, Settled, Consumers
<1>18. Filed'
  BY <1>1, <1>2, <1>3 DEF Filed, SavedStatsAreTrue, TrueStats, Settled
<1> QED
  BY <1>4, <1>10, <1>11, <1>12, <1>13, <1>14, <1>15, <1>16, <1>17, <1>18 DEF StatisticsInvariant,
     TookCommand

(* The manager has nothing to do at the start and at the end of a run. *)
LEMMA ManagerIgnoresKeeps ==
  ASSUME StatisticsInvariant, ManagerIgnores
  PROVE  StatisticsInvariant'
<1>1. /\ Types /\ Delivered /\ Obeys /\ Scheduled /\ PreparesFirst /\ ManagerKnows
      /\ Reports /\ Rewards /\ SideBySide /\ Filed
  BY DEF StatisticsInvariant
<1>2. /\ SameRun /\ Phase' = Phase /\ commanded' = commanded
      /\ UNCHANGED <<code, stage, progress, times, timed, answered, redis, due, groups, completed, disk>>
  BY DEF ManagerIgnores, managerVars, poolVars, SameRun, Run, Phase
<1>3. Settled
  BY <1>1, <1>2, Still
<1>4. PICK kind \in {"start_run", "run_completed"} : TookCommand("manager", kind)
  BY <1>1, <1>2, Takes DEF ManagerIgnores, Consumers, Commands
<1>i. inbox' \in [Consumers -> Seq(Event)]
  BY <1>4 DEF TookCommand
<1>s. /\ stage' \in [Resources -> {"WAITING", "READY", "RUNNING"}]
      /\ code' \in [Consumers -> 0..Run]
  BY <1>1, <1>2, <1>3 DEF Settled, Consumers, Resources, ManagerIgnores
<1>10. Types'
  BY <1>1, <1>2, <1>3, <1>i, <1>s DEF Types, SameRun, Settled, ManagerIgnores
<1>11a. ASSUME NEW d \in Resources PROVE Follows(d)'
  BY <1>1, <1>2, <1>3, <1>4, NotesDiffer DEF Obeys, Follows, Consumers, Resources, Commands, Settled,
     TookCommand, ManagerIgnores
<1>11b. ASSUME NEW d \in Consumers PROVE InPhase(d)'
  BY <1>1, <1>2, <1>3, <1>4, NotesDiffer DEF Obeys, InPhase, Consumers, Resources, Commands, Settled,
     TookCommand, ManagerIgnores
<1>11. Obeys'
  BY <1>1, <1>2, <1>3, <1>4, <1>11a, <1>11b, NotesDiffer DEF Obeys, Consumers, Resources, Commands,
     Settled, TookCommand, ManagerIgnores
<1>12. Scheduled'
  BY <1>1, <1>2, <1>3, <1>4, NotesDiffer DEF Scheduled, Settled, TookCommand, ManagerIgnores
<1>13. PreparesFirst'
  BY <1>1, <1>2, <1>3, <1>4, NotesDiffer DEF PreparesFirst, Commands, Consumers, Resources, Settled,
     TookCommand, ManagerIgnores
<1>k. Known' = Known
  BY <1>1, <1>2, <1>3, <1>4, NotesDiffer DEF Known, Commands, Consumers, Settled, TookCommand,
     ManagerIgnores
<1>14. ManagerKnows'
  BY <1>1, <1>2, <1>3, <1>4, <1>k, NotesDiffer DEF ManagerKnows, Reported, Saved, Groups, Commands,
     Consumers, Values, Settled, TookCommand, ManagerIgnores
<1>r. \A g \in Groups : Reported(g)' <=> Reported(g)
  BY <1>4, <1>k DEF Reported, TookCommand
<1>15. Reports'
  BY <1>1, <1>2, <1>3, <1>4, <1>r, NotesDiffer DEF Reports, Saved, Groups, Commands, Consumers,
     Resources, Values, Settled, TookCommand, ManagerIgnores
<1>w. /\ \A q \in StatsRuns : q >= Run => redis'[q].rewards = redis[q].rewards
      /\ Announced' = Announced /\ Announced \subseteq RunTasks
  BY <1>2, <1>3 DEF Announced, Settled
<1>16. Rewards'
  BY <1>1, <1>2, <1>3, <1>4, <1>w, NotesDiffer, RewardsKept DEF Commands, Consumers, Resources,
     TookCommand
<1>g. \A q \in StatsRuns : Gap(q)' = Gap(q)
  BY <1>2, <1>3, <1>4 DEF Gap, Settled
<1>17. SideBySide'
  BY <1>1, <1>2, <1>3, <1>g DEF SideBySide, Settled, Consumers
<1>18. Filed'
  BY <1>1, <1>2, <1>3 DEF Filed, SavedStatsAreTrue, TrueStats, Settled
<1> QED
  BY <1>4, <1>10, <1>11, <1>12, <1>13, <1>14, <1>15, <1>16, <1>17, <1>18 DEF StatisticsInvariant,
     TookCommand

(* The manager prepares: it knows of no group, and deletes the statistics of another run. *)
LEMMA ManagerPreparesKeeps ==
  ASSUME StatisticsInvariant, ManagerPrepares
  PROVE  StatisticsInvariant'
<1>1. /\ Types /\ Delivered /\ Obeys /\ Scheduled /\ PreparesFirst /\ ManagerKnows
      /\ Reports /\ Rewards /\ SideBySide /\ Filed
  BY DEF StatisticsInvariant
<1>2. /\ SameRun /\ Phase' = Phase /\ commanded' = commanded
      /\ UNCHANGED <<stage, progress, times, timed, answered, due, completed, disk>>
  BY DEF ManagerPrepares, managerVars, poolVars, SameRun, Run, Phase
<1>3. Settled
  BY <1>1, <1>2, Still
<1>4. TookCommand("manager", "prepare_new_run")
  BY <1>1, <1>2, Takes DEF Consumers, Resources, Commands, ManagerPrepares
<1>5. /\ redis' \in [StatsRuns -> Document]
      /\ \A q \in StatsRuns : redis'[q] = IF q = code["manager"] THEN NoStats ELSE redis[q]
  BY <1>3, StatsDeleted DEF ManagerPrepares, Settled
<1>6. /\ code["manager"] # Run /\ groups' = {} /\ code' = [code EXCEPT !["manager"] = Run]
      /\ code["manager"] \in 0..Run /\ Run \in Nat
  BY <1>1, <1>3, <1>4 DEF PreparesFirst, ManagerPrepares, Consumers, Settled, TookCommand
<1>7. redis'[Run] = redis[Run] /\ \A q \in StatsRuns : q > Run => redis'[q] = redis[q]
  BY <1>3, <1>4, <1>5, <1>6 DEF Settled, TookCommand
<1>8. \A q \in StatsRuns : Gap(q)' = Gap(q) \/ Gap(q)' = 0
  BY <1>3, <1>5, ListNames DEF Gap, NoStats, Settled
<1>i. inbox' \in [Consumers -> Seq(Event)]
  BY <1>4 DEF TookCommand
<1>s. /\ stage' \in [Resources -> {"WAITING", "READY", "RUNNING"}]
      /\ code' \in [Consumers -> 0..Run]
  BY <1>1, <1>2, <1>3, <1>5, <1>6, <1>7, <1>8 DEF Settled, Consumers, Resources, ManagerPrepares
<1>10. Types'
  BY <1>1, <1>2, <1>3, <1>5, <1>6, <1>7, <1>8, <1>i, <1>s DEF Types, SameRun, Settled, ManagerPrepares
<1>11a. ASSUME NEW d \in Resources PROVE Follows(d)'
  BY <1>1, <1>2, <1>3, <1>4, <1>5, <1>6, <1>7, <1>8, NotesDiffer DEF Obeys, Follows, Consumers,
     Resources, Commands, Settled, TookCommand, ManagerPrepares
<1>11b. ASSUME NEW d \in Consumers PROVE InPhase(d)'
  BY <1>1, <1>2, <1>3, <1>4, <1>5, <1>6, <1>7, <1>8, NotesDiffer DEF Obeys, InPhase, Consumers,
     Resources, Commands, Settled, TookCommand, ManagerPrepares
<1>11. Obeys'
  BY <1>1, <1>2, <1>3, <1>4, <1>5, <1>6, <1>7, <1>8, <1>11a, <1>11b, NotesDiffer DEF Obeys, Consumers,
     Resources, Commands, Settled, TookCommand, ManagerPrepares
<1>12. Scheduled'
  BY <1>1, <1>2, <1>3, <1>4, <1>5, <1>6, <1>7, <1>8, NotesDiffer DEF Scheduled, Settled, TookCommand,
     ManagerPrepares
<1>13. PreparesFirst'
  BY <1>1, <1>2, <1>3, <1>4, <1>5, <1>6, <1>7, <1>8, NotesDiffer DEF PreparesFirst, Commands,
     Consumers, Resources, Settled, TookCommand, ManagerPrepares
<1>14. ManagerKnows'
  BY <1>1, <1>2, <1>3, <1>4, <1>5, <1>6, <1>7, <1>8, NotesDiffer DEF ManagerKnows, Known, Saved,
     Groups, Commands, Consumers, Values, Settled, TookCommand, ManagerPrepares
<1>15. Reports'
  BY <1>1, <1>2, <1>3, <1>4, <1>5, <1>6, <1>7, <1>8, NotesDiffer DEF Reports, Reported, Known, Saved,
     Groups, Commands, Consumers, Resources, Values, Settled, TookCommand, ManagerPrepares
<1>w. /\ \A q \in StatsRuns : q >= Run => redis'[q].rewards = redis[q].rewards
      /\ Announced' = Announced /\ Announced \subseteq RunTasks
  BY <1>2, <1>3, <1>5, <1>6, <1>7, <1>8 DEF Announced, Settled
<1>16. Rewards'
  BY <1>1, <1>2, <1>3, <1>4, <1>w, NotesDiffer, RewardsKept DEF Commands, Consumers, Resources,
     TookCommand
<1>17. SideBySide'
  BY <1>1, <1>2, <1>3, <1>6, <1>8 DEF SideBySide, Consumers, Resources, Settled
<1>18. Filed'
  BY <1>1, <1>2, <1>3 DEF Filed, SavedStatsAreTrue, TrueStats, Settled
<1> QED
  BY <1>4, <1>10, <1>11, <1>12, <1>13, <1>14, <1>15, <1>16, <1>17, <1>18 DEF StatisticsInvariant,
     TookCommand

(* The collector ends a run: it saves a value that is not waited for. *)
LEMMA CollectorEndsKeeps ==
  ASSUME StatisticsInvariant, CollectorEnds
  PROVE  StatisticsInvariant'
<1>1. /\ Types /\ Delivered /\ Obeys /\ Scheduled /\ PreparesFirst /\ ManagerKnows
      /\ Reports /\ Rewards /\ SideBySide /\ Filed
  BY DEF StatisticsInvariant
<1>2. /\ SameRun /\ Phase' = Phase /\ commanded' = commanded
      /\ UNCHANGED <<code, stage, progress, times, timed, answered, due, groups, completed, disk>>
  BY DEF CollectorEnds, managerVars, poolVars, SameRun, Run, Phase
<1>3. Settled
  BY <1>1, <1>2, Still
<1>4. TookCommand("collector", "execution_completed")
  BY <1>1, <1>2, Takes DEF Consumers, Resources, Commands, CollectorEnds
<1>5. code["collector"] = Run
  BY <1>1, <1>4 DEF Obeys, Follows, InPhase, Resources, Consumers, TookCommand
<1>6. /\ redis' \in [StatsRuns -> Document]
      /\ \A q \in StatsRuns : /\ redis'[q].lists = redis[q].lists /\ redis'[q].rewards = redis[q].rewards
                              /\ q # Run => redis'[q] = redis[q]
      /\ \A v \in Values : redis[Run].values[v] = "saved" => redis'[Run].values[v] = "saved"
  BY <1>3, <1>4, <1>5, ValueSaved DEF CollectorEnds, Values, Settled, TookCommand
<1>i. inbox' \in [Consumers -> Seq(Event)]
  BY <1>4 DEF TookCommand
<1>s. /\ stage' \in [Resources -> {"WAITING", "READY", "RUNNING"}]
      /\ code' \in [Consumers -> 0..Run]
  BY <1>1, <1>2, <1>3, <1>5, <1>6 DEF Settled, Consumers, Resources, CollectorEnds
<1>10. Types'
  BY <1>1, <1>2, <1>3, <1>5, <1>6, <1>i, <1>s DEF Types, SameRun, Settled, CollectorEnds
<1>11a. ASSUME NEW d \in Resources PROVE Follows(d)'
  BY <1>1, <1>2, <1>3, <1>4, <1>5, <1>6, NotesDiffer DEF Obeys, Follows, Consumers, Resources,
     Commands, Settled, TookCommand, CollectorEnds
<1>11b. ASSUME NEW d \in Consumers PROVE InPhase(d)'
  BY <1>1, <1>2, <1>3, <1>4, <1>5, <1>6, NotesDiffer DEF Obeys, InPhase, Consumers, Resources,
     Commands, Settled, TookCommand, CollectorEnds
<1>11. Obeys'
  BY <1>1, <1>2, <1>3, <1>4, <1>5, <1>6, <1>11a, <1>11b, NotesDiffer DEF Obeys, Consumers, Resources,
     Commands, Settled, TookCommand, CollectorEnds
<1>12. Scheduled'
  BY <1>1, <1>2, <1>3, <1>4, <1>5, <1>6, NotesDiffer DEF Scheduled, Settled, TookCommand, CollectorEnds
<1>13. PreparesFirst'
  BY <1>1, <1>2, <1>3, <1>4, <1>5, <1>6, NotesDiffer DEF PreparesFirst, Commands, Consumers,
     Resources, Settled, TookCommand, CollectorEnds
<1>k. Known' = Known
  BY <1>1, <1>2, <1>3, <1>4, <1>5, <1>6, NotesDiffer DEF Known, Commands, Consumers, Settled,
     TookCommand, CollectorEnds
<1>14. ManagerKnows'
  BY <1>1, <1>2, <1>3, <1>4, <1>5, <1>6, <1>k, NotesDiffer DEF ManagerKnows, Reported, Saved, Groups,
     Commands, Consumers, Values, Settled, TookCommand, CollectorEnds
<1>r. \A g \in Groups : Reported(g)' <=> Reported(g)
  BY <1>4, <1>k DEF Reported, TookCommand
<1>15. Reports'
  BY <1>1, <1>2, <1>3, <1>4, <1>5, <1>6, <1>r, NotesDiffer DEF Reports, Saved, Groups, Commands,
     Consumers, Resources, Values, Settled, TookCommand, CollectorEnds
<1>w. /\ \A q \in StatsRuns : q >= Run => redis'[q].rewards = redis[q].rewards
      /\ Announced' = Announced /\ Announced \subseteq RunTasks
  BY <1>2, <1>3, <1>5, <1>6 DEF Announced, Settled
<1>16. Rewards'
  BY <1>1, <1>2, <1>3, <1>4, <1>w, NotesDiffer, RewardsKept DEF Commands, Consumers, Resources,
     TookCommand
<1>g. \A q \in StatsRuns : Gap(q)' = Gap(q)
  BY <1>2, <1>3, <1>4, <1>5, <1>6 DEF Gap, Settled
<1>17. SideBySide'
  BY <1>1, <1>2, <1>3, <1>g DEF SideBySide, Settled, Consumers
<1>18. Filed'
  BY <1>1, <1>2, <1>3 DEF Filed, SavedStatsAreTrue, TrueStats, Settled
<1> QED
  BY <1>4, <1>10, <1>11, <1>12, <1>13, <1>14, <1>15, <1>16, <1>17, <1>18 DEF StatisticsInvariant,
     TookCommand

(* The manager hears that the execution is completed, in the run that it has prepared. *)
LEMMA ManagerEndsExecutionKeeps ==
  ASSUME StatisticsInvariant, ManagerEndsExecution
  PROVE  StatisticsInvariant'
<1>1. /\ Types /\ Delivered /\ Obeys /\ Scheduled /\ PreparesFirst /\ ManagerKnows
      /\ Reports /\ Rewards /\ SideBySide /\ Filed
  BY DEF StatisticsInvariant
<1>2. /\ SameRun /\ Phase' = Phase /\ commanded' = commanded
      /\ UNCHANGED <<code, stage, progress, times, timed, answered, due, groups, disk>>
  BY DEF ManagerEndsExecution, managerVars, poolVars, SameRun, Run, Phase
<1>3. Settled
  BY <1>1, <1>2, Still
<1>4. TookCommand("manager", "execution_completed")
  BY <1>1, <1>2, Takes DEF Consumers, Resources, Commands, ManagerEndsExecution
<1>5. /\ ~Waits("manager", "prepare_new_run") /\ code["manager"] = Run /\ completed' = TRUE
      /\ Phase \in {"execution_completed", "complete"}
  BY <1>1, <1>3, <1>4, EventFacts DEF Obeys, InPhase, Consumers, PreparesFirst, ManagerEndsExecution,
     Waits, Commands, Settled, TookCommand
<1>6. /\ redis' \in [StatsRuns -> Document]
      /\ \A q \in StatsRuns : /\ redis'[q].lists = redis[q].lists /\ redis'[q].rewards = redis[q].rewards
                              /\ q # Run => redis'[q] = redis[q]
      /\ \A v \in Values : redis[Run].values[v] = "saved" => redis'[Run].values[v] = "saved"
      /\ Saved("end_execution_time")'
  BY <1>3, <1>4, <1>5, ValueSaved DEF ManagerEndsExecution, Values, Saved, Settled, TookCommand
<1>i. inbox' \in [Consumers -> Seq(Event)]
  BY <1>4 DEF TookCommand
<1>s. /\ stage' \in [Resources -> {"WAITING", "READY", "RUNNING"}]
      /\ code' \in [Consumers -> 0..Run]
  BY <1>1, <1>2, <1>3, <1>5, <1>6 DEF Settled, Consumers, Resources, ManagerEndsExecution
<1>10. Types'
  BY <1>1, <1>2, <1>3, <1>5, <1>6, <1>i, <1>s DEF Types, SameRun, Settled, ManagerEndsExecution
<1>11a. ASSUME NEW d \in Resources PROVE Follows(d)'
  BY <1>1, <1>2, <1>3, <1>4, <1>5, <1>6, NotesDiffer DEF Obeys, Follows, Consumers, Resources,
     Commands, Settled, TookCommand, ManagerEndsExecution
<1>11b. ASSUME NEW d \in Consumers PROVE InPhase(d)'
  BY <1>1, <1>2, <1>3, <1>4, <1>5, <1>6, NotesDiffer DEF Obeys, InPhase, Consumers, Resources,
     Commands, Settled, TookCommand, ManagerEndsExecution
<1>11. Obeys'
  BY <1>1, <1>2, <1>3, <1>4, <1>5, <1>6, <1>11a, <1>11b, NotesDiffer DEF Obeys, Consumers, Resources,
     Commands, Settled, TookCommand, ManagerEndsExecution
<1>12. Scheduled'
  BY <1>1, <1>2, <1>3, <1>4, <1>5, <1>6, NotesDiffer DEF Scheduled, Settled, TookCommand,
     ManagerEndsExecution
<1>13. PreparesFirst'
  BY <1>1, <1>2, <1>3, <1>4, <1>5, <1>6, NotesDiffer DEF PreparesFirst, Commands, Consumers,
     Resources, Settled, TookCommand, ManagerEndsExecution
<1>k. Known' = Known
  BY <1>1, <1>2, <1>3, <1>4, <1>5, <1>6, NotesDiffer DEF Known, Commands, Consumers, Settled,
     TookCommand, ManagerEndsExecution
<1>14. ManagerKnows'
  BY <1>1, <1>2, <1>3, <1>4, <1>5, <1>6, <1>k, NotesDiffer DEF ManagerKnows, Reported, Saved, Groups,
     Commands, Consumers, Values, Settled, TookCommand, ManagerEndsExecution
<1>r. \A g \in Groups : Reported(g)' <=> Reported(g)
  BY <1>4, <1>k DEF Reported, TookCommand
<1>15. Reports'
  BY <1>1, <1>2, <1>3, <1>4, <1>5, <1>6, <1>r, NotesDiffer DEF Reports, Saved, Groups, Commands,
     Consumers, Resources, Values, Settled, TookCommand, ManagerEndsExecution
<1>w. /\ \A q \in StatsRuns : q >= Run => redis'[q].rewards = redis[q].rewards
      /\ Announced' = Announced /\ Announced \subseteq RunTasks
  BY <1>2, <1>3, <1>5, <1>6 DEF Announced, Settled
<1>16. Rewards'
  BY <1>1, <1>2, <1>3, <1>4, <1>w, NotesDiffer, RewardsKept DEF Commands, Consumers, Resources,
     TookCommand
<1>g. \A q \in StatsRuns : Gap(q)' = Gap(q)
  BY <1>2, <1>3, <1>4, <1>5, <1>6 DEF Gap, Settled
<1>17. SideBySide'
  BY <1>1, <1>2, <1>3, <1>g DEF SideBySide, Settled, Consumers
<1>18. Filed'
  BY <1>1, <1>2, <1>3 DEF Filed, SavedStatsAreTrue, TrueStats, Settled
<1> QED
  BY <1>4, <1>10, <1>11, <1>12, <1>13, <1>14, <1>15, <1>16, <1>17, <1>18 DEF StatisticsInvariant,
     TookCommand

(* The agent starts, saves its parameters and reports them. *)
LEMMA AgentStartsKeeps ==
  ASSUME StatisticsInvariant, AgentStarts
  PROVE  StatisticsInvariant'
<1>1. /\ Types /\ Delivered /\ Obeys /\ Scheduled /\ PreparesFirst /\ ManagerKnows
      /\ Reports /\ Rewards /\ SideBySide /\ Filed
  BY DEF StatisticsInvariant
<1>2. /\ SameRun /\ Phase' = Phase /\ commanded' = commanded
      /\ UNCHANGED <<code, progress, times, timed, answered, due, groups, completed, disk>>
  BY DEF AgentStarts, Starts, managerVars, poolVars, SameRun, Run, Phase
<1>3. Settled
  BY <1>1, <1>2, Still
<1>4. /\ stage["agent"] = "READY" /\ code["agent"] = Run /\ Phase # "prepare_new_run" /\ ~Reported("agent_stats")
      /\ stage' = [stage EXCEPT !["agent"] = "RUNNING"]
  <2>1. Waits("agent", "start_run")
    BY <1>1, HeadIs DEF AgentStarts, Starts, Commands, Consumers, Resources
  <2> QED
    BY <1>1, <2>1 DEF Obeys, Follows, Reports, Groups, Resources, AgentStarts, Starts
<1>5. TookAndReported("agent", "start_run", "agent_stats")
  BY <1>1, <1>2, <1>4, TakesAndReports DEF Resources, Commands, Groups, Reported, AgentStarts, Starts
<1>6. /\ redis' \in [StatsRuns -> Document]
      /\ \A q \in StatsRuns : /\ redis'[q].lists = redis[q].lists /\ redis'[q].rewards = redis[q].rewards
                              /\ q # Run => redis'[q] = redis[q]
      /\ \A v \in Values : redis[Run].values[v] = "saved" => redis'[Run].values[v] = "saved"
      /\ Saved("agent_parameters")'
  BY <1>3, <1>4, <1>5, GroupSaved DEF AgentStarts, Values, Saved, Settled, TookAndReported
<1>i. inbox' \in [Consumers -> Seq(Event)]
  BY <1>5 DEF TookAndReported
<1>s. /\ stage' \in [Resources -> {"WAITING", "READY", "RUNNING"}]
      /\ code' \in [Consumers -> 0..Run]
  BY <1>1, <1>2, <1>3, <1>4, <1>6 DEF Settled, Consumers, Resources, AgentStarts, Starts
<1>10. Types'
  BY <1>1, <1>2, <1>3, <1>4, <1>6, <1>i, <1>s DEF Types, SameRun, Settled, AgentStarts, Starts
<1>11a. ASSUME NEW d \in Resources PROVE Follows(d)'
  BY <1>1, <1>2, <1>3, <1>4, <1>5, <1>6, NotesDiffer DEF Obeys, Follows, Consumers, Resources,
     Commands, Settled, TookAndReported, AgentStarts, Starts
<1>11b. ASSUME NEW d \in Consumers PROVE InPhase(d)'
  BY <1>1, <1>2, <1>3, <1>4, <1>5, <1>6, NotesDiffer DEF Obeys, InPhase, Consumers, Resources,
     Commands, Settled, TookAndReported, AgentStarts, Starts
<1>11. Obeys'
  BY <1>1, <1>2, <1>3, <1>4, <1>5, <1>6, <1>11a, <1>11b, NotesDiffer DEF Obeys, Consumers, Resources,
     Commands, Settled, TookAndReported, AgentStarts, Starts
<1>12. Scheduled'
  BY <1>1, <1>2, <1>3, <1>4, <1>5, <1>6, NotesDiffer DEF Scheduled, Settled, TookAndReported,
     AgentStarts, Starts
<1>13. PreparesFirst'
  BY <1>1, <1>2, <1>3, <1>4, <1>5, <1>6, NotesDiffer DEF PreparesFirst, Commands, Consumers,
     Resources, Settled, TookAndReported, AgentStarts, Starts
<1>k. Known' = Known
  BY <1>1, <1>2, <1>3, <1>4, <1>5, <1>6, NotesDiffer DEF Known, Commands, Consumers, Settled,
     TookAndReported, AgentStarts, Starts
<1>14. ManagerKnows'
  BY <1>1, <1>2, <1>3, <1>4, <1>5, <1>6, <1>k, NotesDiffer DEF ManagerKnows, Reported, Saved, Groups,
     Commands, Consumers, Values, Settled, TookAndReported, AgentStarts, Starts
<1>r. \A g \in Groups : Reported(g)' <=> Reported(g) \/ g = "agent_stats"
  BY <1>5, <1>k DEF Reported, TookAndReported
<1>15. Reports'
  BY <1>1, <1>2, <1>3, <1>4, <1>5, <1>6, <1>r, NotesDiffer DEF Reports, Saved, Groups, Commands,
     Consumers, Resources, Values, Settled, TookAndReported, AgentStarts, Starts
<1>w. /\ \A q \in StatsRuns : q >= Run => redis'[q].rewards = redis[q].rewards
      /\ Announced' = Announced /\ Announced \subseteq RunTasks
  BY <1>2, <1>3, <1>4, <1>6 DEF Announced, Settled
<1>16. Rewards'
  BY <1>1, <1>2, <1>3, <1>5, <1>w, NotesDiffer, RewardsKept DEF Commands, Consumers, Resources,
     TookAndReported
<1>g. \A q \in StatsRuns : Gap(q)' = Gap(q)
  BY <1>2, <1>3, <1>4, <1>5, <1>6 DEF Gap, Settled
<1>17. SideBySide'
  BY <1>1, <1>2, <1>3, <1>g DEF SideBySide, Settled, Consumers
<1>18. Filed'
  BY <1>1, <1>2, <1>3 DEF Filed, SavedStatsAreTrue, TrueStats, Settled
<1> QED
  BY <1>5, <1>10, <1>11, <1>12, <1>13, <1>14, <1>15, <1>16, <1>17, <1>18 DEF StatisticsInvariant,
     TookAndReported

(* The generator has scheduled all the tasks, and reports them. *)
LEMMA GeneratorReportsKeeps ==
  ASSUME StatisticsInvariant, GeneratorReports
  PROVE  StatisticsInvariant'
<1>1. /\ Types /\ Delivered /\ Obeys /\ Scheduled /\ PreparesFirst /\ ManagerKnows
      /\ Reports /\ Rewards /\ SideBySide /\ Filed
  BY DEF StatisticsInvariant
<1>2. /\ SameRun /\ Phase' = Phase /\ commanded' = commanded
      /\ UNCHANGED <<code, stage, progress, times, timed, answered, due, groups, completed, disk>>
  BY DEF GeneratorReports, managerVars, poolVars, SameRun, Run, Phase
<1>3. Settled
  BY <1>1, <1>2, Still
<1>4. /\ Waits("generator", "scheduling_completed") /\ code["generator"] = Run /\ ~Reported("tasks_generated")
      /\ stage["generator"] = "RUNNING" /\ Phase # "prepare_new_run"
  <2>1. Waits("generator", "scheduling_completed")
    BY <1>1, HeadIs DEF GeneratorReports, Commands, Consumers, Resources
  <2> QED
    BY <1>1, <2>1 DEF Obeys, Follows, Reports, Groups, Resources
<1>5. TookAndReported("generator", "scheduling_completed", "tasks_generated")
  BY <1>1, <1>2, <1>4, TakesAndReports DEF Resources, Commands, Groups, Reported, GeneratorReports
<1>6. /\ redis' \in [StatsRuns -> Document]
      /\ \A q \in StatsRuns : /\ redis'[q].lists = redis[q].lists /\ redis'[q].rewards = redis[q].rewards
                              /\ q # Run => redis'[q] = redis[q]
      /\ \A v \in Values : redis[Run].values[v] = "saved" => redis'[Run].values[v] = "saved"
      /\ Saved("tasks_generated")'
  BY <1>3, <1>4, <1>5, ValueSaved DEF GeneratorReports, Values, Saved, Settled, TookAndReported
<1>i. inbox' \in [Consumers -> Seq(Event)]
  BY <1>5 DEF TookAndReported
<1>s. /\ stage' \in [Resources -> {"WAITING", "READY", "RUNNING"}]
      /\ code' \in [Consumers -> 0..Run]
  BY <1>1, <1>2, <1>3, <1>4, <1>6 DEF Settled, Consumers, Resources, GeneratorReports
<1>10. Types'
  BY <1>1, <1>2, <1>3, <1>4, <1>6, <1>i, <1>s DEF Types, SameRun, Settled, GeneratorReports
<1>11a. ASSUME NEW d \in Resources PROVE Follows(d)'
  BY SMTT(30), <1>1, <1>2, <1>3, <1>4, <1>5, <1>6, NotesDiffer DEF Obeys, Follows, Consumers,
     Resources, Commands, Settled, TookAndReported, GeneratorReports
<1>11b. ASSUME NEW d \in Consumers PROVE InPhase(d)'
  BY <1>1, <1>2, <1>3, <1>4, <1>5, <1>6, NotesDiffer DEF Obeys, InPhase, Consumers, Resources,
     Commands, Settled, TookAndReported, GeneratorReports
<1>11. Obeys'
  BY <1>1, <1>2, <1>3, <1>4, <1>5, <1>6, <1>11a, <1>11b, NotesDiffer DEF Obeys, Consumers, Resources,
     Commands, Settled, TookAndReported, GeneratorReports
<1>12. Scheduled'
  BY <1>1, <1>2, <1>3, <1>4, <1>5, <1>6, NotesDiffer DEF Scheduled, Settled, TookAndReported,
     GeneratorReports
<1>13. PreparesFirst'
  BY <1>1, <1>2, <1>3, <1>4, <1>5, <1>6, NotesDiffer DEF PreparesFirst, Commands, Consumers,
     Resources, Settled, TookAndReported, GeneratorReports
<1>k. Known' = Known
  BY <1>1, <1>2, <1>3, <1>4, <1>5, <1>6, NotesDiffer DEF Known, Commands, Consumers, Settled,
     TookAndReported, GeneratorReports
<1>14. ManagerKnows'
  BY <1>1, <1>2, <1>3, <1>4, <1>5, <1>6, <1>k, NotesDiffer DEF ManagerKnows, Reported, Saved, Groups,
     Commands, Consumers, Values, Settled, TookAndReported, GeneratorReports
<1>r. \A g \in Groups : Reported(g)' <=> Reported(g) \/ g = "tasks_generated"
  BY <1>5, <1>k DEF Reported, TookAndReported
<1>15. Reports'
  BY <1>1, <1>2, <1>3, <1>4, <1>5, <1>6, <1>r, NotesDiffer DEF Reports, Saved, Groups, Commands,
     Consumers, Resources, Values, Settled, TookAndReported, GeneratorReports
<1>w. /\ \A q \in StatsRuns : q >= Run => redis'[q].rewards = redis[q].rewards
      /\ Announced' = Announced /\ Announced \subseteq RunTasks
  BY <1>2, <1>3, <1>4, <1>6 DEF Announced, Settled
<1>16. Rewards'
  BY <1>1, <1>2, <1>3, <1>5, <1>w, NotesDiffer, RewardsKept DEF Commands, Consumers, Resources,
     TookAndReported
<1>g. \A q \in StatsRuns : Gap(q)' = Gap(q)
  BY <1>2, <1>3, <1>4, <1>5, <1>6 DEF Gap, Settled
<1>17. SideBySide'
  BY <1>1, <1>2, <1>3, <1>g DEF SideBySide, Settled, Consumers
<1>18. Filed'
  BY <1>1, <1>2, <1>3 DEF Filed, SavedStatsAreTrue, TrueStats, Settled
<1> QED
  BY <1>5, <1>10, <1>11, <1>12, <1>13, <1>14, <1>15, <1>16, <1>17, <1>18 DEF StatisticsInvariant,
     TookAndReported

(* The agent hears that the execution is completed after it has heard of all the trajectories of the run that were announced before. *)
LEMMA AgentEndsKeeps ==
  ASSUME StatisticsInvariant, AgentEnds
  PROVE  StatisticsInvariant'
<1>1. /\ Types /\ Delivered /\ Obeys /\ Scheduled /\ PreparesFirst /\ ManagerKnows
      /\ Reports /\ Rewards /\ SideBySide /\ Filed
  BY DEF StatisticsInvariant
<1>2. /\ SameRun /\ Phase' = Phase /\ commanded' = commanded
      /\ UNCHANGED <<code, stage, progress, times, timed, answered, due, groups, completed, disk>>
  BY DEF AgentEnds, managerVars, poolVars, SameRun, Run, Phase
<1>3. Settled
  BY <1>1, <1>2, Still
<1>4. /\ Phase = "execution_completed" /\ code["agent"] = Run /\ ~Reported("execution_history_stats")
  <2>1. Waits("agent", "execution_completed") /\ Run # 0
    BY <1>1, <1>3, HeadIs DEF AgentEnds, Commands, Consumers, Resources, Settled
  <2>2. Phase \in {"execution_completed", "complete"} /\ code["agent"] = Run
    BY <1>1, <2>1 DEF Obeys, Follows, InPhase, Resources, Consumers
  <2>3. ~Reported("execution_history_stats")
    BY <1>1, <2>1 DEF Reports
  <2> QED
    BY <1>1, <2>1, <2>2, <2>3 DEF ManagerKnows, Reported, Groups
<1>5. TookAndReported("agent", "execution_completed", "execution_history_stats")
  BY <1>1, <1>2, <1>4, TakesAndReports DEF Resources, Commands, Groups, Reported, AgentEnds
<1>6. /\ redis' \in [StatsRuns -> Document]
      /\ \A q \in StatsRuns : /\ redis'[q].lists = redis[q].lists /\ redis'[q].rewards = redis[q].rewards
                              /\ q # Run => redis'[q] = redis[q]
      /\ \A v \in Values : redis[Run].values[v] = "saved" => redis'[Run].values[v] = "saved"
      /\ Saved("selected_actions")' /\ Saved("assignments_history")' /\ Saved("validation_reward")'
  BY <1>3, <1>4, <1>5, GroupSaved DEF AgentEnds, Values, Saved, Settled, TookAndReported
<1>7. due[Run] \subseteq Range(redis[Run].rewards)
  BY <1>1, <1>4, <1>5 DEF Rewards, TookAndReported
<1>i. inbox' \in [Consumers -> Seq(Event)]
  BY <1>5 DEF TookAndReported
<1>s. /\ stage' \in [Resources -> {"WAITING", "READY", "RUNNING"}]
      /\ code' \in [Consumers -> 0..Run]
  BY <1>1, <1>2, <1>3, <1>4, <1>6, <1>7 DEF Settled, Consumers, Resources, AgentEnds
<1>10. Types'
  BY <1>1, <1>2, <1>3, <1>4, <1>6, <1>7, <1>i, <1>s DEF Types, SameRun, Settled, AgentEnds
<1>11a. ASSUME NEW d \in Resources PROVE Follows(d)'
  BY <1>1, <1>2, <1>3, <1>4, <1>5, <1>6, <1>7, NotesDiffer DEF Obeys, Follows, Consumers, Resources,
     Commands, Settled, TookAndReported, AgentEnds
<1>11b. ASSUME NEW d \in Consumers PROVE InPhase(d)'
  BY <1>1, <1>2, <1>3, <1>4, <1>5, <1>6, <1>7, NotesDiffer DEF Obeys, InPhase, Consumers, Resources,
     Commands, Settled, TookAndReported, AgentEnds
<1>11. Obeys'
  BY <1>1, <1>2, <1>3, <1>4, <1>5, <1>6, <1>7, <1>11a, <1>11b, NotesDiffer DEF Obeys, Consumers,
     Resources, Commands, Settled, TookAndReported, AgentEnds
<1>12. Scheduled'
  BY <1>1, <1>2, <1>3, <1>4, <1>5, <1>6, <1>7, NotesDiffer DEF Scheduled, Settled, TookAndReported,
     AgentEnds
<1>13. PreparesFirst'
  BY <1>1, <1>2, <1>3, <1>4, <1>5, <1>6, <1>7, NotesDiffer DEF PreparesFirst, Commands, Consumers,
     Resources, Settled, TookAndReported, AgentEnds
<1>k. Known' = Known
  BY <1>1, <1>2, <1>3, <1>4, <1>5, <1>6, <1>7, NotesDiffer DEF Known, Commands, Consumers, Settled,
     TookAndReported, AgentEnds
<1>14. ManagerKnows'
  BY <1>1, <1>2, <1>3, <1>4, <1>5, <1>6, <1>7, <1>k, NotesDiffer DEF ManagerKnows, Reported, Saved,
     Groups, Commands, Consumers, Values, Settled, TookAndReported, AgentEnds
<1>r. \A g \in Groups : Reported(g)' <=> Reported(g) \/ g = "execution_history_stats"
  BY <1>5, <1>k DEF Reported, TookAndReported
<1>15. Reports'
  BY <1>1, <1>2, <1>3, <1>4, <1>5, <1>6, <1>7, <1>r, NotesDiffer DEF Reports, Saved, Groups, Commands,
     Consumers, Resources, Values, Settled, TookAndReported, AgentEnds
<1>w. /\ \A q \in StatsRuns : q >= Run => redis'[q].rewards = redis[q].rewards
      /\ Announced' = Announced /\ Announced \subseteq RunTasks
  BY <1>2, <1>3, <1>4, <1>6, <1>7 DEF Announced, Settled
<1>16. Rewards'
  BY <1>1, <1>2, <1>3, <1>5, <1>w, NotesDiffer, RewardsKept DEF Commands, Consumers, Resources,
     TookAndReported
<1>g. \A q \in StatsRuns : Gap(q)' = Gap(q)
  BY <1>2, <1>3, <1>4, <1>5, <1>6, <1>7 DEF Gap, Settled
<1>17. SideBySide'
  BY <1>1, <1>2, <1>3, <1>g DEF SideBySide, Settled, Consumers
<1>18. Filed'
  BY <1>1, <1>2, <1>3 DEF Filed, SavedStatsAreTrue, TrueStats, Settled
<1> QED
  BY <1>5, <1>10, <1>11, <1>12, <1>13, <1>14, <1>15, <1>16, <1>17, <1>18 DEF StatisticsInvariant,
     TookAndReported

(* The agent answers the broker. *)
LEMMA GetActionKeeps ==
  ASSUME StatisticsInvariant, NEW t \in RunTasks, GetAction(t)
  PROVE  StatisticsInvariant'
<1>1. /\ Types /\ Delivered /\ Obeys /\ Scheduled /\ PreparesFirst /\ ManagerKnows
      /\ Reports /\ Rewards /\ SideBySide /\ Filed
  BY DEF StatisticsInvariant
<1>2. /\ SameRun /\ Phase' = Phase /\ commanded' = commanded
      /\ UNCHANGED <<inbox, code, stage, times, timed, redis, due, groups, completed, disk>>
  BY DEF GetAction, managerVars, poolVars, SameRun, Run, Phase
<1>3. Settled
  BY <1>1, <1>2, Still
<1>4. QueuesRest
  BY <1>1, <1>2, Rests
<1>5. progress' = [progress EXCEPT ![t] = "chosen"] /\ progress[t] = "scheduled" /\ answered' = answered + 1
  BY DEF GetAction
<1>i. inbox' \in [Consumers -> Seq(Event)]
  BY <1>4 DEF QueuesRest
<1>s. /\ stage' \in [Resources -> {"WAITING", "READY", "RUNNING"}]
      /\ code' \in [Consumers -> 0..Run]
  BY <1>1, <1>2, <1>3, <1>5 DEF Settled, Consumers, Resources, GetAction
<1>10. Types'
  BY <1>1, <1>2, <1>3, <1>5, <1>i, <1>s DEF Types, SameRun, Settled, GetAction
<1>11a. ASSUME NEW d \in Resources PROVE Follows(d)'
  BY <1>1, <1>2, <1>3, <1>4, <1>5, NotesDiffer DEF Obeys, Follows, Consumers, Resources, Commands,
     Settled, QueuesRest, GetAction
<1>11b. ASSUME NEW d \in Consumers PROVE InPhase(d)'
  BY <1>1, <1>2, <1>3, <1>4, <1>5, NotesDiffer DEF Obeys, InPhase, Consumers, Resources, Commands,
     Settled, QueuesRest, GetAction
<1>11. Obeys'
  BY <1>1, <1>2, <1>3, <1>4, <1>5, <1>11a, <1>11b, NotesDiffer DEF Obeys, Consumers, Resources,
     Commands, Settled, QueuesRest, GetAction
<1>12. Scheduled'
  BY <1>1, <1>2, <1>3, <1>4, <1>5, NotesDiffer DEF Scheduled, Settled, QueuesRest, GetAction
<1>13. PreparesFirst'
  BY <1>1, <1>2, <1>3, <1>4, <1>5, NotesDiffer DEF PreparesFirst, Commands, Consumers, Resources,
     Settled, QueuesRest, GetAction
<1>k. Known' = Known
  BY <1>1, <1>2, <1>3, <1>4, <1>5, NotesDiffer DEF Known, Commands, Consumers, Settled, QueuesRest,
     GetAction
<1>14. ManagerKnows'
  BY <1>1, <1>2, <1>3, <1>4, <1>5, <1>k, NotesDiffer DEF ManagerKnows, Reported, Saved, Groups,
     Commands, Consumers, Values, Settled, QueuesRest, GetAction
<1>r. \A g \in Groups : Reported(g)' <=> Reported(g)
  BY <1>4, <1>k DEF Reported, QueuesRest
<1>15. Reports'
  BY <1>1, <1>2, <1>3, <1>4, <1>5, <1>r, NotesDiffer DEF Reports, Saved, Groups, Commands, Consumers,
     Resources, Values, Settled, QueuesRest, GetAction
<1>w. /\ \A q \in StatsRuns : q >= Run => redis'[q].rewards = redis[q].rewards
      /\ Announced' = Announced /\ Announced \subseteq RunTasks
  BY <1>2, <1>3, <1>5 DEF Announced, Settled
<1>16. Rewards'
  BY <1>1, <1>2, <1>3, <1>4, <1>w, NotesDiffer, RewardsKept DEF Commands, Consumers, Resources,
     QueuesRest
<1>g. \A q \in StatsRuns : Gap(q)' = Gap(q)
  BY <1>2, <1>3, <1>4, <1>5 DEF Gap, Settled
<1>17. SideBySide'
  BY <1>1, <1>2, <1>3, <1>g DEF SideBySide, Settled, Consumers
<1>18. Filed'
  BY <1>1, <1>2, <1>3 DEF Filed, SavedStatsAreTrue, TrueStats, Settled
<1> QED
  BY <1>4, <1>10, <1>11, <1>12, <1>13, <1>14, <1>15, <1>16, <1>17, <1>18 DEF StatisticsInvariant,
     QueuesRest

(* A task succeeds or fails. *)
LEMMA ComputeRewardKeeps ==
  ASSUME StatisticsInvariant, NEW t \in RunTasks, ComputeReward(t)
  PROVE  StatisticsInvariant'
<1>1. /\ Types /\ Delivered /\ Obeys /\ Scheduled /\ PreparesFirst /\ ManagerKnows
      /\ Reports /\ Rewards /\ SideBySide /\ Filed
  BY DEF StatisticsInvariant
<1>2. /\ SameRun /\ Phase' = Phase /\ commanded' = commanded
      /\ UNCHANGED <<inbox, code, stage, timed, answered, redis, due, groups, completed, disk>>
  <2>1. \A u \in RunTasks : progress[u] = "announced" => progress'[u] = "announced"
    BY <1>1 DEF Types, ComputeReward
  <2> QED
    BY <2>1 DEF ComputeReward, managerVars, poolVars, SameRun, Run, Phase
<1>3. Settled
  BY <1>1, <1>2, Still
<1>4. QueuesRest
  BY <1>1, <1>2, Rests
<1>5. PICK outcome \in {"rewarded", "failed"} : progress' = [progress EXCEPT ![t] = outcome]
  BY DEF ComputeReward
<1>6. progress[t] = "chosen" /\ times' \in {times, times + 1}
  BY DEF ComputeReward
<1>i. inbox' \in [Consumers -> Seq(Event)]
  BY <1>4 DEF QueuesRest
<1>s. /\ stage' \in [Resources -> {"WAITING", "READY", "RUNNING"}]
      /\ code' \in [Consumers -> 0..Run]
  BY <1>1, <1>2, <1>3, <1>5, <1>6 DEF Settled, Consumers, Resources, ComputeReward
<1>10. Types'
  BY <1>1, <1>2, <1>3, <1>5, <1>6, <1>i, <1>s DEF Types, SameRun, Settled, ComputeReward
<1>11a. ASSUME NEW d \in Resources PROVE Follows(d)'
  BY <1>1, <1>2, <1>3, <1>4, <1>5, <1>6, NotesDiffer DEF Obeys, Follows, Consumers, Resources,
     Commands, Settled, QueuesRest, ComputeReward
<1>11b. ASSUME NEW d \in Consumers PROVE InPhase(d)'
  BY <1>1, <1>2, <1>3, <1>4, <1>5, <1>6, NotesDiffer DEF Obeys, InPhase, Consumers, Resources,
     Commands, Settled, QueuesRest, ComputeReward
<1>11. Obeys'
  BY <1>1, <1>2, <1>3, <1>4, <1>5, <1>6, <1>11a, <1>11b, NotesDiffer DEF Obeys, Consumers, Resources,
     Commands, Settled, QueuesRest, ComputeReward
<1>12. Scheduled'
  BY <1>1, <1>2, <1>3, <1>4, <1>5, <1>6, NotesDiffer DEF Scheduled, Settled, QueuesRest, ComputeReward
<1>13. PreparesFirst'
  BY <1>1, <1>2, <1>3, <1>4, <1>5, <1>6, NotesDiffer DEF PreparesFirst, Commands, Consumers,
     Resources, Settled, QueuesRest, ComputeReward
<1>k. Known' = Known
  BY <1>1, <1>2, <1>3, <1>4, <1>5, <1>6, NotesDiffer DEF Known, Commands, Consumers, Settled,
     QueuesRest, ComputeReward
<1>14. ManagerKnows'
  BY <1>1, <1>2, <1>3, <1>4, <1>5, <1>6, <1>k, NotesDiffer DEF ManagerKnows, Reported, Saved, Groups,
     Commands, Consumers, Values, Settled, QueuesRest, ComputeReward
<1>r. \A g \in Groups : Reported(g)' <=> Reported(g)
  BY <1>4, <1>k DEF Reported, QueuesRest
<1>15. Reports'
  BY <1>1, <1>2, <1>3, <1>4, <1>5, <1>6, <1>r, NotesDiffer DEF Reports, Saved, Groups, Commands,
     Consumers, Resources, Values, Settled, QueuesRest, ComputeReward
<1>w. /\ \A q \in StatsRuns : q >= Run => redis'[q].rewards = redis[q].rewards
      /\ Announced' = Announced /\ Announced \subseteq RunTasks
  BY <1>2, <1>3, <1>5, <1>6 DEF Announced, Settled
<1>16. Rewards'
  BY <1>1, <1>2, <1>3, <1>4, <1>w, NotesDiffer, RewardsKept DEF Commands, Consumers, Resources,
     QueuesRest
<1>g. \A q \in StatsRuns : Gap(q)' = Gap(q)
  BY <1>2, <1>3, <1>4, <1>5, <1>6 DEF Gap, Settled
<1>17. SideBySide'
  BY <1>1, <1>2, <1>3, <1>g DEF SideBySide, Settled, Consumers
<1>18. Filed'
  BY <1>1, <1>2, <1>3 DEF Filed, SavedStatsAreTrue, TrueStats, Settled
<1> QED
  BY <1>4, <1>10, <1>11, <1>12, <1>13, <1>14, <1>15, <1>16, <1>17, <1>18 DEF StatisticsInvariant,
     QueuesRest

(* The pool of the agent adds to a list that nobody waits for. *)
LEMMA UpdateAgentStatsKeeps ==
  ASSUME StatisticsInvariant, UpdateAgentStats
  PROVE  StatisticsInvariant'
<1>1. /\ Types /\ Delivered /\ Obeys /\ Scheduled /\ PreparesFirst /\ ManagerKnows
      /\ Reports /\ Rewards /\ SideBySide /\ Filed
  BY DEF StatisticsInvariant
<1>2. /\ SameRun /\ Phase' = Phase /\ commanded' = commanded
      /\ UNCHANGED <<inbox, code, stage, progress, times, timed, due, groups, completed, disk>>
  BY DEF UpdateAgentStats, managerVars, poolVars, SameRun, Run, Phase
<1>3. Settled
  BY <1>1, <1>2, Still
<1>4. QueuesRest
  BY <1>1, <1>2, Rests
<1>5. /\ redis' \in [StatsRuns -> Document]
      /\ \A q \in StatsRuns :
           /\ redis'[q].values = redis[q].values /\ redis'[q].rewards = redis[q].rewards
           /\ \A k \in {"waiting_time", "execution_time"} : redis'[q].lists[k] = redis[q].lists[k]
  <2> DEFINE c == code["agent"]
             n == "agent_get_action_time"
  <2>1. redis \in [StatsRuns -> Document] /\ n \in Lists /\ redis' = PushValues(redis, c, n, 1)
    BY <1>3, ListNames DEF UpdateAgentStats, Settled
  <2> HIDE DEF c
  <2>2. /\ redis' \in [StatsRuns -> Document]
        /\ \A q \in StatsRuns :
             /\ redis'[q].values = redis[q].values /\ redis'[q].rewards = redis[q].rewards
             /\ \A k \in Lists : k # n => redis'[q].lists[k] = redis[q].lists[k]
    BY <2>1, ListPushed
  <2> QED BY <2>2, ListNames
<1>6. answered \in Nat /\ answered > 0 /\ answered' = answered - 1
  BY <1>1 DEF Types, UpdateAgentStats
<1>i. inbox' \in [Consumers -> Seq(Event)]
  BY <1>4 DEF QueuesRest
<1>s. /\ stage' \in [Resources -> {"WAITING", "READY", "RUNNING"}]
      /\ code' \in [Consumers -> 0..Run]
  BY <1>1, <1>2, <1>3, <1>5, <1>6 DEF Settled, Consumers, Resources, UpdateAgentStats
<1>10. Types'
  BY <1>1, <1>2, <1>3, <1>5, <1>6, <1>i, <1>s DEF Types, SameRun, Settled, UpdateAgentStats
<1>11a. ASSUME NEW d \in Resources PROVE Follows(d)'
  BY <1>1, <1>2, <1>3, <1>4, <1>5, <1>6, NotesDiffer DEF Obeys, Follows, Consumers, Resources,
     Commands, Settled, QueuesRest, UpdateAgentStats
<1>11b. ASSUME NEW d \in Consumers PROVE InPhase(d)'
  BY <1>1, <1>2, <1>3, <1>4, <1>5, <1>6, NotesDiffer DEF Obeys, InPhase, Consumers, Resources,
     Commands, Settled, QueuesRest, UpdateAgentStats
<1>11. Obeys'
  BY <1>1, <1>2, <1>3, <1>4, <1>5, <1>6, <1>11a, <1>11b, NotesDiffer DEF Obeys, Consumers, Resources,
     Commands, Settled, QueuesRest, UpdateAgentStats
<1>12. Scheduled'
  BY <1>1, <1>2, <1>3, <1>4, <1>5, <1>6, NotesDiffer DEF Scheduled, Settled, QueuesRest,
     UpdateAgentStats
<1>13. PreparesFirst'
  BY <1>1, <1>2, <1>3, <1>4, <1>5, <1>6, NotesDiffer DEF PreparesFirst, Commands, Consumers,
     Resources, Settled, QueuesRest, UpdateAgentStats
<1>k. Known' = Known
  BY <1>1, <1>2, <1>3, <1>4, <1>5, <1>6, NotesDiffer DEF Known, Commands, Consumers, Settled,
     QueuesRest, UpdateAgentStats
<1>14. ManagerKnows'
  BY <1>1, <1>2, <1>3, <1>4, <1>5, <1>6, <1>k, NotesDiffer DEF ManagerKnows, Reported, Saved, Groups,
     Commands, Consumers, Values, Settled, QueuesRest, UpdateAgentStats
<1>r. \A g \in Groups : Reported(g)' <=> Reported(g)
  BY <1>4, <1>k DEF Reported, QueuesRest
<1>15. Reports'
  BY <1>1, <1>2, <1>3, <1>4, <1>5, <1>6, <1>r, NotesDiffer DEF Reports, Saved, Groups, Commands,
     Consumers, Resources, Values, Settled, QueuesRest, UpdateAgentStats
<1>w. /\ \A q \in StatsRuns : q >= Run => redis'[q].rewards = redis[q].rewards
      /\ Announced' = Announced /\ Announced \subseteq RunTasks
  BY <1>2, <1>3, <1>5, <1>6 DEF Announced, Settled
<1>16. Rewards'
  BY <1>1, <1>2, <1>3, <1>4, <1>w, NotesDiffer, RewardsKept DEF Commands, Consumers, Resources,
     QueuesRest
<1>g. \A q \in StatsRuns : Gap(q)' = Gap(q)
  BY <1>2, <1>3, <1>4, <1>5, <1>6 DEF Gap, Settled
<1>17. SideBySide'
  BY <1>1, <1>2, <1>3, <1>g DEF SideBySide, Settled, Consumers
<1>18. Filed'
  BY <1>1, <1>2, <1>3 DEF Filed, SavedStatsAreTrue, TrueStats, Settled
<1> QED
  BY <1>4, <1>10, <1>11, <1>12, <1>13, <1>14, <1>15, <1>16, <1>17, <1>18 DEF StatisticsInvariant,
     QueuesRest

(* The thread of the builder adds to a list, and then to the other. *)
LEMMA UpdateStatsKeeps ==
  ASSUME StatisticsInvariant, UpdateStats
  PROVE  StatisticsInvariant'
<1>1. /\ Types /\ Delivered /\ Obeys /\ Scheduled /\ PreparesFirst /\ ManagerKnows
      /\ Reports /\ Rewards /\ SideBySide /\ Filed
  BY DEF StatisticsInvariant
<1>2. /\ SameRun /\ Phase' = Phase /\ commanded' = commanded
      /\ UNCHANGED <<inbox, code, stage, progress, answered, due, groups, completed, disk>>
  BY DEF UpdateStats, managerVars, poolVars, SameRun, Run, Phase
<1>3. Settled
  BY <1>1, <1>2, Still
<1>4. QueuesRest
  BY <1>1, <1>2, Rests
<1>5. /\ redis' \in [StatsRuns -> Document]
      /\ \A q \in StatsRuns :
           /\ redis'[q].values = redis[q].values /\ redis'[q].rewards = redis[q].rewards
           /\ \A k \in {"waiting_time", "execution_time"} : redis'[q].lists[k] =
                IF q = code["collector"] /\ k = Times[timed + 1] THEN redis[q].lists[k] + 1 ELSE redis[q].lists[k]
  <2>1. Times[timed + 1] \in Lists /\ redis' = PushValues(redis, code["collector"], Times[timed + 1], 1)
    BY <1>3, ListNames DEF UpdateStats, Settled, Times
  <2> QED
    BY <1>3, <2>1, ListPushed, ListNames DEF Settled
<1>6. times \in Nat /\ times' \in {times, times - 1} /\ times' \in Nat
  BY <1>1 DEF Types, UpdateStats
<1>7. \/ timed = 0 /\ timed' = 1 /\ \A q \in StatsRuns : Gap(q)' = IF q = code["collector"] THEN Gap(q) + 1 ELSE Gap(q)
      \/ timed = 1 /\ timed' = 0 /\ \A q \in StatsRuns : Gap(q)' = IF q = code["collector"] THEN Gap(q) - 1 ELSE Gap(q)
  <2>1. \A q \in StatsRuns : redis[q].lists["waiting_time"] \in Nat /\ redis[q].lists["execution_time"] \in Nat
    <3> SUFFICES ASSUME NEW q \in StatsRuns
                 PROVE  redis[q].lists["waiting_time"] \in Nat /\ redis[q].lists["execution_time"] \in Nat
      OBVIOUS
    <3>1. redis[q] \in Document
      BY <1>3 DEF Settled
    <3> QED
      BY <3>1, ListNames DEF Document
  <2>2. CASE timed = 0
    BY <1>3, <1>5, <2>1, <2>2 DEF Gap, Times, UpdateStats, Settled
  <2>3. CASE timed = 1
    BY <1>3, <1>5, <2>1, <2>3 DEF Gap, Times, UpdateStats, Settled
  <2> QED
    BY <1>3, <2>2, <2>3 DEF Settled
<1>i. inbox' \in [Consumers -> Seq(Event)]
  BY <1>4 DEF QueuesRest
<1>s. /\ stage' \in [Resources -> {"WAITING", "READY", "RUNNING"}]
      /\ code' \in [Consumers -> 0..Run]
  BY <1>1, <1>2, <1>3, <1>5, <1>6, <1>7 DEF Settled, Consumers, Resources, UpdateStats
<1>10. Types'
  BY <1>1, <1>2, <1>3, <1>5, <1>6, <1>7, <1>i, <1>s DEF Types, SameRun, Settled, UpdateStats
<1>11a. ASSUME NEW d \in Resources PROVE Follows(d)'
  BY <1>1, <1>2, <1>3, <1>4, <1>5, <1>6, <1>7, NotesDiffer DEF Obeys, Follows, Consumers, Resources,
     Commands, Settled, QueuesRest, UpdateStats
<1>11b. ASSUME NEW d \in Consumers PROVE InPhase(d)'
  BY <1>1, <1>2, <1>3, <1>4, <1>5, <1>6, <1>7, NotesDiffer DEF Obeys, InPhase, Consumers, Resources,
     Commands, Settled, QueuesRest, UpdateStats
<1>11. Obeys'
  BY <1>1, <1>2, <1>3, <1>4, <1>5, <1>6, <1>7, <1>11a, <1>11b, NotesDiffer DEF Obeys, Consumers,
     Resources, Commands, Settled, QueuesRest, UpdateStats
<1>12. Scheduled'
  BY <1>1, <1>2, <1>3, <1>4, <1>5, <1>6, <1>7, NotesDiffer DEF Scheduled, Settled, QueuesRest,
     UpdateStats
<1>13. PreparesFirst'
  BY <1>1, <1>2, <1>3, <1>4, <1>5, <1>6, <1>7, NotesDiffer DEF PreparesFirst, Commands, Consumers,
     Resources, Settled, QueuesRest, UpdateStats
<1>k. Known' = Known
  BY <1>1, <1>2, <1>3, <1>4, <1>5, <1>6, <1>7, NotesDiffer DEF Known, Commands, Consumers, Settled,
     QueuesRest, UpdateStats
<1>14. ManagerKnows'
  BY <1>1, <1>2, <1>3, <1>4, <1>5, <1>6, <1>7, <1>k, NotesDiffer DEF ManagerKnows, Reported, Saved,
     Groups, Commands, Consumers, Values, Settled, QueuesRest, UpdateStats
<1>r. \A g \in Groups : Reported(g)' <=> Reported(g)
  BY <1>4, <1>k DEF Reported, QueuesRest
<1>15. Reports'
  BY <1>1, <1>2, <1>3, <1>4, <1>5, <1>6, <1>7, <1>r, NotesDiffer DEF Reports, Saved, Groups, Commands,
     Consumers, Resources, Values, Settled, QueuesRest, UpdateStats
<1>w. /\ \A q \in StatsRuns : q >= Run => redis'[q].rewards = redis[q].rewards
      /\ Announced' = Announced /\ Announced \subseteq RunTasks
  BY <1>2, <1>3, <1>5, <1>6, <1>7 DEF Announced, Settled
<1>16. Rewards'
  BY <1>1, <1>2, <1>3, <1>4, <1>w, NotesDiffer, RewardsKept DEF Commands, Consumers, Resources,
     QueuesRest
<1>17. SideBySide'
  BY <1>1, <1>2, <1>3, <1>7 DEF SideBySide, Settled
<1>18. Filed'
  BY <1>1, <1>2, <1>3 DEF Filed, SavedStatsAreTrue, TrueStats, Settled
<1> QED
  BY <1>4, <1>10, <1>11, <1>12, <1>13, <1>14, <1>15, <1>16, <1>17, <1>18 DEF StatisticsInvariant,
     QueuesRest

(* The agent observes a reward of the run, once; what it passes over is announced for a run that is over. *)
LEMMA AgentObservesKeeps ==
  ASSUME StatisticsInvariant, AgentObserves
  PROVE  StatisticsInvariant'
<1>1. /\ Types /\ Delivered /\ Obeys /\ Scheduled /\ PreparesFirst /\ ManagerKnows
      /\ Reports /\ Rewards /\ SideBySide /\ Filed
  BY DEF StatisticsInvariant
<1>2. /\ SameRun /\ Phase' = Phase /\ commanded' = commanded
      /\ UNCHANGED <<code, stage, progress, times, timed, answered, due, groups, completed, disk>>
  BY DEF AgentObserves, managerVars, poolVars, SameRun, Run, Phase
<1>3. Settled
  BY <1>1, <1>2, Still
<1>4. PICK task \in RunTasks : task = Subject("agent") /\ TookTrajectory(task)
  <2>1. TookTrajectory(Subject("agent"))
    BY <1>1, <1>2, TakesTrajectory DEF AgentObserves
  <2> QED
    BY <2>1 DEF TookTrajectory
<1>5. Phase # "prepare_new_run" /\ stage["agent"] # "WAITING" => code["collector"] = Run /\ code["agent"] = Run
  BY <1>1 DEF Obeys, Follows, Resources
<1>6. \/ redis' = redis
      \/ redis' = PushReward(redis, Run, task) /\ RunOf(task) = Run /\ Run \in StatsRuns
  <2>1. CASE stage["agent"] = "RUNNING" /\ RunOf(task) = code["collector"]
    <3>1. Phase # "prepare_new_run"
      BY <1>1, <2>1 DEF Obeys, Follows, Resources
    <3>2. RunOf(task) \in StatsRuns
      BY <1>1, <1>4, Basics DEF TookTrajectory
    <3> QED
      BY <1>4, <1>5, <2>1, <3>1, <3>2 DEF AgentObserves
  <2> QED
    BY <1>4, <2>1 DEF AgentObserves
<1>7. RunOf(task) = Run /\ Phase \in {"start_run", "execution_completed"} => redis' = PushReward(redis, Run, task)
  <2> SUFFICES ASSUME RunOf(task) = Run, Phase \in {"start_run", "execution_completed"}
               PROVE  redis' = PushReward(redis, Run, task)
    OBVIOUS
  <2>1. stage["agent"] = "RUNNING"
    <3>1. stage["agent"] \in {"WAITING", "READY", "RUNNING"}
      BY <1>3 DEF Settled, Resources
    <3>2. stage["agent"] # "WAITING" /\ (stage["agent"] = "READY" => Waits("agent", "start_run"))
      BY <1>1 DEF Obeys, Follows, Resources
    <3>3. ~Waits("agent", "start_run")
      BY <1>1, <1>4 DEF Rewards, TookTrajectory
    <3> QED
      BY <3>1, <3>2, <3>3
  <2> QED
    BY <1>4, <1>5, <2>1 DEF AgentObserves
<1>8. /\ redis' \in [StatsRuns -> Document]
      /\ \A q \in StatsRuns : redis'[q].values = redis[q].values /\ redis'[q].lists = redis[q].lists
      /\ \A q \in StatsRuns : q # Run \/ RunOf(task) # Run => redis'[q].rewards = redis[q].rewards
      /\ Run \in StatsRuns =>
           \/ redis'[Run].rewards = redis[Run].rewards
           \/ redis'[Run].rewards = Append(redis[Run].rewards, task) /\ RunOf(task) = Run
      /\ RunOf(task) = Run /\ Phase \in {"start_run", "execution_completed"}
           => redis'[Run].rewards = Append(redis[Run].rewards, task)
  <2>1. task \in RunTasks
    BY <1>4 DEF TookTrajectory
  <2>2. CASE redis' = redis
    <3>1. ~(RunOf(task) = Run /\ Phase \in {"start_run", "execution_completed"})
      <4> SUFFICES ASSUME RunOf(task) = Run /\ Phase \in {"start_run", "execution_completed"} PROVE FALSE
        OBVIOUS
      <4>1. Run \in StatsRuns /\ redis[Run].rewards \in Seq(RunTasks) /\ redis[Run].rewards = Append(redis[Run].rewards, task)
        <5>1. Run \in StatsRuns /\ redis[Run] \in Document
          BY <1>3 DEF Settled
        <5> QED
          BY <1>3, <1>7, <2>1, <2>2, <5>1, RewardPushed DEF Settled, Document
      <4> QED
        BY <2>1, <4>1, AppendProperties, LenProperties
    <3>2. redis \in [StatsRuns -> Document]
      BY <1>3 DEF Settled
    <3> QED
      BY <2>2, <3>1, <3>2
  <2>3. CASE redis' = PushReward(redis, Run, task) /\ RunOf(task) = Run /\ Run \in StatsRuns
    <3>1. redis \in [StatsRuns -> Document]
      BY <1>3 DEF Settled
    <3>2. /\ redis' \in [StatsRuns -> Document]
          /\ \A q \in StatsRuns : /\ redis'[q].lists = redis[q].lists /\ redis'[q].values = redis[q].values
                                  /\ q # Run => redis'[q] = redis[q]
          /\ redis'[Run].rewards = Append(redis[Run].rewards, task)
      BY <2>1, <2>3, <3>1, RewardPushed
    <3> QED
      BY <2>3, <3>2
  <2> QED
    BY <1>6, <2>2, <2>3
<1>9. Run \in StatsRuns =>
        /\ redis[Run].rewards \in Seq(RunTasks)
        /\ Range(redis[Run].rewards) \subseteq Range(redis'[Run].rewards)
        /\ Range(redis'[Run].rewards) \subseteq Range(redis[Run].rewards) \union {task}
        /\ RunOf(task) # Run => Range(redis'[Run].rewards) = Range(redis[Run].rewards)
        /\ RunOf(task) = Run /\ Phase \in {"start_run", "execution_completed"} => task \in Range(redis'[Run].rewards)
        /\ IsInjective(redis[Run].rewards) /\ task \notin Range(redis[Run].rewards) => IsInjective(redis'[Run].rewards)
  <2> SUFFICES ASSUME Run \in StatsRuns
               PROVE  /\ redis[Run].rewards \in Seq(RunTasks)
                      /\ Range(redis[Run].rewards) \subseteq Range(redis'[Run].rewards)
                      /\ Range(redis'[Run].rewards) \subseteq Range(redis[Run].rewards) \union {task}
                      /\ RunOf(task) # Run => Range(redis'[Run].rewards) = Range(redis[Run].rewards)
                      /\ RunOf(task) = Run /\ Phase \in {"start_run", "execution_completed"}
                           => task \in Range(redis'[Run].rewards)
                      /\ IsInjective(redis[Run].rewards) /\ task \notin Range(redis[Run].rewards)
                           => IsInjective(redis'[Run].rewards)
    OBVIOUS
  <2>1. redis[Run] \in Document
    BY <1>3 DEF Settled
  <2>2. redis[Run].rewards \in Seq(RunTasks) /\ task \in RunTasks
    BY <1>4, <2>1 DEF Document, TookTrajectory
  <2>3. /\ Range(Append(redis[Run].rewards, task)) = Range(redis[Run].rewards) \union {task}
        /\ IsInjective(redis[Run].rewards) /\ task \notin Range(redis[Run].rewards)
             => IsInjective(Append(redis[Run].rewards, task))
    BY <2>2, RangeOfAppend
  <2> QED
    BY <1>8, <2>2, <2>3
<1>i. inbox' \in [Consumers -> Seq(Event)]
  BY <1>4 DEF TookTrajectory
<1>s. /\ stage' \in [Resources -> {"WAITING", "READY", "RUNNING"}]
      /\ code' \in [Consumers -> 0..Run]
  BY <1>1, <1>2, <1>3, <1>8 DEF Settled, Consumers, Resources, AgentObserves
<1>10. Types'
  BY <1>1, <1>2, <1>3, <1>8, <1>i, <1>s DEF Types, SameRun, Settled, AgentObserves
<1>11a. ASSUME NEW d \in Resources PROVE Follows(d)'
  BY <1>1, <1>2, <1>3, <1>4, <1>8, NotesDiffer DEF Obeys, Follows, Consumers, Resources, Commands,
     Settled, TookTrajectory, AgentObserves
<1>11b. ASSUME NEW d \in Consumers PROVE InPhase(d)'
  BY <1>1, <1>2, <1>3, <1>4, <1>8, NotesDiffer DEF Obeys, InPhase, Consumers, Resources, Commands,
     Settled, TookTrajectory, AgentObserves
<1>11. Obeys'
  BY <1>1, <1>2, <1>3, <1>4, <1>8, <1>11a, <1>11b, NotesDiffer DEF Obeys, Consumers, Resources,
     Commands, Settled, TookTrajectory, AgentObserves
<1>12. Scheduled'
  BY <1>1, <1>2, <1>3, <1>4, <1>8, NotesDiffer DEF Scheduled, Settled, TookTrajectory, AgentObserves
<1>13. PreparesFirst'
  BY <1>1, <1>2, <1>3, <1>4, <1>8, NotesDiffer DEF PreparesFirst, Commands, Consumers, Resources,
     Settled, TookTrajectory, AgentObserves
<1>k. Known' = Known
  BY <1>1, <1>2, <1>3, <1>4, <1>8, NotesDiffer DEF Known, Commands, Consumers, Settled,
     TookTrajectory, AgentObserves
<1>14. ManagerKnows'
  BY <1>1, <1>2, <1>3, <1>4, <1>8, <1>k, NotesDiffer DEF ManagerKnows, Reported, Saved, Groups,
     Commands, Consumers, Values, Settled, TookTrajectory, AgentObserves
<1>r. \A g \in Groups : Reported(g)' <=> Reported(g)
  BY <1>4, <1>k DEF Reported, TookTrajectory
<1>15. Reports'
  BY <1>1, <1>2, <1>3, <1>4, <1>8, <1>9, <1>r, NotesDiffer DEF Reports, Saved, Groups, Commands,
     Consumers, Resources, Values, Settled, TookTrajectory
<1>v. /\ Announced' = Announced /\ Announced \subseteq RunTasks
      /\ TookTrajectory(task)
  BY <1>2, <1>3, <1>4 DEF Announced, Settled
<1>16. Rewards'
  <2>1. ASSUME NEW q \in StatsRuns, q > Run PROVE redis'[q].rewards = <<>>
    <3>1. q # Run /\ redis[q].rewards = <<>>
      BY <1>1, <1>3, <2>1 DEF Rewards, Settled
    <3> QED
      BY <1>8, <3>1
  <2>2. ASSUME NEW t \in RunTasks, RunOf(t) = Run, ToObserve(t)', Waits("agent", "start_run")'
        PROVE  Precedes(inbox'["agent"], Note("start_run", Run), Note("trajectory_completed", t))
    BY <1>1, <1>v, <2>2, NotesDiffer DEF Rewards, TookTrajectory, Consumers, Resources, Commands
  <2>3. ASSUME Run # 0
        PROVE  /\ \A t \in Range(redis'[Run].rewards) : t \in Announced /\ ~ToObserve(t)'
               /\ IsInjective(redis'[Run].rewards)
    <3>1. /\ Run \in StatsRuns /\ IsInjective(redis[Run].rewards)
          /\ \A t \in Range(redis[Run].rewards) : t \in Announced /\ ~ToObserve(t)
      BY <1>1, <1>3, <2>3 DEF Rewards, Settled
    <3>2. ToObserve(task) /\ ~ToObserve(task)' /\ (RunOf(task) = Run => task \in Announced)
          /\ \A t \in Announced : ToObserve(t)' => ToObserve(t)
      BY <1>v DEF TookTrajectory, Announced
    <3> QED
      BY <1>9, <3>1, <3>2
  <2>4. ASSUME Phase = "start_run"
        PROVE  \A t \in Announced : ToObserve(t)' \/ t \in Range(redis'[Run].rewards)
    <3>1. Run \in StatsRuns /\ \A t \in Announced : RunOf(t) = Run /\ t \in RunTasks
      BY <1>3, <2>4 DEF Settled, Announced
    <3> QED
      BY <1>1, <1>9, <1>v, <2>4, <3>1 DEF Rewards, TookTrajectory
  <2>5. ASSUME Phase = "execution_completed", NEW t \in due[Run]
        PROVE  /\ RunOf(t) = Run
               /\ \/ t \in Range(redis'[Run].rewards)
                  \/ Precedes(inbox'["agent"], Note("trajectory_completed", t), Note("execution_completed", Run))
    <3>1. Run \in StatsRuns /\ t \in RunTasks /\ RunOf(t) = Run
      BY <1>1, <1>3, <2>5 DEF Settled, Rewards
    <3>2. CASE t = task
      BY <1>1, <1>9, <2>5, <3>1, <3>2 DEF Rewards, TookTrajectory
    <3>3. CASE t # task
      BY <1>1, <1>9, <1>v, <2>5, <3>1, <3>3, NotesDiffer DEF Rewards, TookTrajectory, Consumers,
         Resources
    <3> QED
      BY <3>2, <3>3
  <2> QED
    BY <1>2, <1>3, <1>v, <2>1, <2>2, <2>3, <2>4, <2>5 DEF Rewards, Settled
<1>g. \A q \in StatsRuns : Gap(q)' = Gap(q)
  BY <1>2, <1>3, <1>4, <1>8 DEF Gap, Settled
<1>17. SideBySide'
  BY <1>1, <1>2, <1>3, <1>g DEF SideBySide, Settled, Consumers
<1>18. Filed'
  BY <1>1, <1>2, <1>3 DEF Filed, SavedStatsAreTrue, TrueStats, Settled
<1> QED
  BY <1>4, <1>10, <1>11, <1>12, <1>13, <1>14, <1>15, <1>16, <1>17, <1>18 DEF StatisticsInvariant,
     TookTrajectory

(* A trajectory is announced to the agent, behind what the agent has still to hear of the run. *)
LEMMA NotifyAgentKeeps ==
  ASSUME StatisticsInvariant, NEW t \in RunTasks, NotifyAgent(t)
  PROVE  StatisticsInvariant'
<1>1. /\ Types /\ Delivered /\ Obeys /\ Scheduled /\ PreparesFirst /\ ManagerKnows
      /\ Reports /\ Rewards /\ SideBySide /\ Filed
  BY DEF StatisticsInvariant
<1>2. /\ SameRun /\ Phase' = Phase /\ commanded' = commanded
      /\ UNCHANGED <<code, stage, redis, times, timed, answered, due, groups, completed, disk>>
  <2>1. \A u \in RunTasks : progress[u] = "announced" => progress'[u] = "announced"
    BY <1>1 DEF Types, NotifyAgent
  <2> QED
    BY <2>1 DEF NotifyAgent, managerVars, poolVars, SameRun, Run, Phase
<1>3. Settled
  BY <1>1, <1>2, Still
<1>4. ToldOfTrajectory(t)
  <2>1. progress[t] # "announced" /\ progress'[t] = "announced"
    BY <1>3 DEF NotifyAgent, Settled
  <2> QED
    BY <1>1, <1>2, <2>1, TellsOfTrajectory DEF NotifyAgent
<1>5. progress' = [progress EXCEPT ![t] = "announced"] /\ progress[t] = "rewarded"
  BY DEF NotifyAgent
<1>i. inbox' \in [Consumers -> Seq(Event)]
  BY <1>4 DEF ToldOfTrajectory
<1>s. /\ stage' \in [Resources -> {"WAITING", "READY", "RUNNING"}]
      /\ code' \in [Consumers -> 0..Run]
  BY <1>1, <1>2, <1>3, <1>5 DEF Settled, Consumers, Resources, NotifyAgent
<1>10. Types'
  BY <1>1, <1>2, <1>3, <1>5, <1>i, <1>s DEF Types, SameRun, Settled, NotifyAgent
<1>11a. ASSUME NEW d \in Resources PROVE Follows(d)'
  BY <1>1, <1>2, <1>3, <1>4, <1>5, NotesDiffer DEF Obeys, Follows, Consumers, Resources, Commands,
     Settled, ToldOfTrajectory, NotifyAgent
<1>11b. ASSUME NEW d \in Consumers PROVE InPhase(d)'
  BY <1>1, <1>2, <1>3, <1>4, <1>5, NotesDiffer DEF Obeys, InPhase, Consumers, Resources, Commands,
     Settled, ToldOfTrajectory, NotifyAgent
<1>11. Obeys'
  BY <1>1, <1>2, <1>3, <1>4, <1>5, <1>11a, <1>11b, NotesDiffer DEF Obeys, Consumers, Resources,
     Commands, Settled, ToldOfTrajectory, NotifyAgent
<1>12. Scheduled'
  BY <1>1, <1>2, <1>3, <1>4, <1>5, NotesDiffer DEF Scheduled, Settled, ToldOfTrajectory, NotifyAgent
<1>13. PreparesFirst'
  BY <1>1, <1>2, <1>3, <1>4, <1>5, NotesDiffer DEF PreparesFirst, Commands, Consumers, Resources,
     Settled, ToldOfTrajectory, NotifyAgent
<1>k. Known' = Known
  BY <1>1, <1>2, <1>3, <1>4, <1>5, NotesDiffer DEF Known, Commands, Consumers, Settled,
     ToldOfTrajectory, NotifyAgent
<1>14. ManagerKnows'
  BY <1>1, <1>2, <1>3, <1>4, <1>5, <1>k, NotesDiffer DEF ManagerKnows, Reported, Saved, Groups,
     Commands, Consumers, Values, Settled, ToldOfTrajectory, NotifyAgent
<1>r. \A g \in Groups : Reported(g)' <=> Reported(g)
  BY <1>4, <1>k DEF Reported, ToldOfTrajectory
<1>15. Reports'
  BY <1>1, <1>2, <1>3, <1>4, <1>5, <1>r, NotesDiffer DEF Reports, Saved, Groups, Commands, Consumers,
     Resources, Values, Settled, ToldOfTrajectory, NotifyAgent
<1>w. /\ Announced \subseteq RunTasks /\ Announced \subseteq Announced'
      /\ Announced' \subseteq Announced \union {t} /\ t \notin Announced
      /\ \A u \in Announced' : u \in RunTasks /\ RunOf(u) = Run
  BY <1>3, <1>5 DEF Announced, Settled
<1>16. Rewards'
  <2>1. \A q \in StatsRuns : q > Run => redis'[q].rewards = <<>>
    BY <1>1, <1>2 DEF Rewards
  <2>2. ASSUME NEW u \in RunTasks, RunOf(u) = Run, ToObserve(u)', Waits("agent", "start_run")'
        PROVE  Precedes(inbox'["agent"], Note("start_run", Run), Note("trajectory_completed", u))
    BY <1>1, <1>4, <2>2 DEF Rewards, ToldOfTrajectory, Consumers, Resources, Commands
  <2>3. ASSUME Run # 0
        PROVE  /\ \A u \in Range(redis'[Run].rewards) : u \in Announced' /\ ~ToObserve(u)'
               /\ IsInjective(redis'[Run].rewards)
    BY <1>1, <1>2, <1>4, <1>w, <2>3 DEF Rewards, ToldOfTrajectory
  <2>4. ASSUME Phase = "start_run"
        PROVE  \A u \in Announced' : ToObserve(u)' \/ u \in Range(redis'[Run].rewards)
    BY <1>1, <1>2, <1>4, <1>w, <2>4 DEF Rewards, ToldOfTrajectory
  <2>5. ASSUME Phase = "execution_completed", NEW u \in due[Run]
        PROVE  /\ RunOf(u) = Run
               /\ \/ u \in Range(redis'[Run].rewards)
                  \/ Precedes(inbox'["agent"], Note("trajectory_completed", u), Note("execution_completed", Run))
    BY <1>1, <1>2, <1>4, <2>5 DEF Rewards, ToldOfTrajectory, Consumers, Resources
  <2> QED
    BY <1>2, <1>3, <2>1, <2>2, <2>3, <2>4, <2>5 DEF Rewards, Settled
<1>g. \A q \in StatsRuns : Gap(q)' = Gap(q)
  BY <1>2, <1>3, <1>4, <1>5 DEF Gap, Settled
<1>17. SideBySide'
  BY <1>1, <1>2, <1>3, <1>g DEF SideBySide, Settled, Consumers
<1>18. Filed'
  <2>1. \A q \in StatsRuns' : q > Run' \/ (q = Run' /\ Phase' # "complete") => disk'[q] = {}
    BY <1>1, <1>2, <1>3 DEF Filed, Settled
  <2>2. SavedStatsAreTrue'
    BY <1>1, <1>2, <1>3 DEF Filed, SavedStatsAreTrue, TrueStats, Settled
  <2> QED BY <2>1, <2>2 DEF Filed
<1> QED
  BY <1>4, <1>10, <1>11, <1>12, <1>13, <1>14, <1>15, <1>16, <1>17, <1>18 DEF StatisticsInvariant,
     ToldOfTrajectory

(* The generator starts: no task of the run was scheduled before, and all of them are now. *)
LEMMA GeneratorStartsKeeps ==
  ASSUME StatisticsInvariant, GeneratorStarts
  PROVE  StatisticsInvariant'
<1>1. /\ Types /\ Delivered /\ Obeys /\ Scheduled /\ PreparesFirst /\ ManagerKnows
      /\ Reports /\ Rewards /\ SideBySide /\ Filed
  BY DEF StatisticsInvariant
<1>2. /\ SameRun /\ Phase' = Phase /\ commanded' = commanded
      /\ UNCHANGED <<code, times, timed, answered, due, groups, completed, disk>>
  <2>1. Waits("generator", "start_run")
    BY <1>1, HeadIs DEF GeneratorStarts, Starts, Commands, Consumers, Resources
  <2>2. stage["generator"] = "READY" /\ code["generator"] = Run /\ Phase # "complete"
    BY <1>1, <2>1 DEF Obeys, Follows, Resources
  <2>3. /\ \A t \in RunTasks : RunOf(t) = Run => progress[t] = "new"
        /\ \A t \in RunTasks : RunOf(t) # Run => progress'[t] = progress[t]
    BY <1>1, <2>2, Basics DEF Scheduled, GeneratorStarts
  <2> QED
    BY <2>3 DEF GeneratorStarts, Starts, managerVars, poolVars, SameRun, Run, Phase
<1>3. Settled
  BY <1>1, <1>2, Still
<1>4. TookStartAndScheduled
  <2>1. Waits("generator", "start_run")
    BY <1>1, HeadIs DEF GeneratorStarts, Starts, Commands, Consumers, Resources
  <2>2. stage["generator"] = "READY" /\ code["generator"] = Run
    BY <1>1, <2>1 DEF Obeys, Follows, Resources
  <2>3. ~OnTheWay("global_stats") /\ ~Waits("generator", "scheduling_completed")
    BY <1>1, <2>2 DEF Obeys, Reports, Reported, Groups
  <2> QED
    BY <1>1, <1>2, <2>2, <2>3, TakesStartAndSchedules DEF GeneratorStarts, Starts
<1>5. /\ stage["generator"] = "READY" /\ code["generator"] = Run /\ Phase = "start_run"
      /\ ~Reported("global_stats") /\ ~Reported("tasks_generated") /\ Run \in StatsRuns
      /\ \A t \in RunTasks : RunOf(t) = Run => progress[t] = "new"
  <2>1. Waits("generator", "start_run") /\ Run \in StatsRuns
    BY <1>1, HeadIs DEF GeneratorStarts, Starts, Commands, Consumers, Resources
  <2>2. stage["generator"] = "READY" /\ code["generator"] = Run /\ Phase # "prepare_new_run"
    BY <1>1, <2>1 DEF Obeys, Follows, Resources
  <2>3. Phase \notin {"execution_completed", "complete"}
    BY <1>1, <2>2 DEF Obeys
  <2>4. Phase \in {"prepare_new_run", "start_run", "execution_completed", "complete"}
    BY <1>1, Basics
  <2>5. ~Reported("global_stats") /\ ~Reported("tasks_generated")
    BY <1>1, <2>2 DEF Reports
  <2>6. \A t \in RunTasks : RunOf(t) = Run => progress[t] = "new"
    BY <1>1, <1>3, <2>2, <2>3 DEF Scheduled, Settled
  <2> QED
    BY <2>1, <2>2, <2>3, <2>4, <2>5, <2>6
<1>6. /\ stage' = [stage EXCEPT !["generator"] = "RUNNING"]
      /\ progress' = [t \in RunTasks |-> IF RunOf(t) = Run THEN "scheduled" ELSE progress[t]]
  BY <1>5 DEF GeneratorStarts, Starts
<1>7. /\ redis' \in [StatsRuns -> Document]
      /\ \A q \in StatsRuns : /\ redis'[q].lists = redis[q].lists /\ redis'[q].rewards = redis[q].rewards
                              /\ q # Run => redis'[q] = redis[q]
      /\ redis'[Run].values["agent_parameters"] = redis[Run].values["agent_parameters"]
      /\ Saved("tasks_to_generate")'
  BY <1>3, <1>5, GroupSaved DEF GeneratorStarts, KnownAtStart, UnknownAtStart, Values, Saved, Settled
<1>i. inbox' \in [Consumers -> Seq(Event)]
  BY <1>4 DEF TookStartAndScheduled
<1>s. /\ stage' \in [Resources -> {"WAITING", "READY", "RUNNING"}]
      /\ code' \in [Consumers -> 0..Run]
  BY <1>1, <1>2, <1>3, <1>5, <1>6, <1>7 DEF Settled, Consumers, Resources, GeneratorStarts, Starts
<1>10. Types'
  BY <1>1, <1>2, <1>3, <1>5, <1>6, <1>7, <1>i, <1>s DEF Types, SameRun, Settled, GeneratorStarts, Starts
<1>11a. ASSUME NEW d \in Resources PROVE Follows(d)'
  BY <1>1, <1>2, <1>3, <1>4, <1>5, <1>6, <1>7, NotesDiffer DEF Obeys, Follows, Consumers, Resources,
     Commands, Settled, TookStartAndScheduled, GeneratorStarts, Starts
<1>11b. ASSUME NEW d \in Consumers PROVE InPhase(d)'
  BY <1>1, <1>2, <1>3, <1>4, <1>5, <1>6, <1>7, NotesDiffer DEF Obeys, InPhase, Consumers, Resources,
     Commands, Settled, TookStartAndScheduled, GeneratorStarts, Starts
<1>11. Obeys'
  BY <1>1, <1>2, <1>3, <1>4, <1>5, <1>6, <1>7, <1>11a, <1>11b, NotesDiffer DEF Obeys, Consumers,
     Resources, Commands, Settled, TookStartAndScheduled, GeneratorStarts, Starts
<1>12. Scheduled'
  BY <1>1, <1>2, <1>3, <1>6 DEF Scheduled, Resources, Settled
<1>13. PreparesFirst'
  BY <1>1, <1>2, <1>3, <1>4, <1>5, <1>6, <1>7, NotesDiffer DEF PreparesFirst, Commands, Consumers,
     Resources, Settled, TookStartAndScheduled, GeneratorStarts, Starts
<1>k. Known' = Known
  BY <1>1, <1>2, <1>3, <1>4, <1>5, <1>6, <1>7, NotesDiffer DEF Known, Commands, Consumers, Settled,
     TookStartAndScheduled, GeneratorStarts, Starts
<1>14. ManagerKnows'
  BY <1>1, <1>2, <1>3, <1>4, <1>5, <1>6, <1>7, <1>k, NotesDiffer DEF ManagerKnows, Reported, Saved,
     Groups, Commands, Consumers, Values, Settled, TookStartAndScheduled, GeneratorStarts, Starts
<1>r. \A g \in Groups : Reported(g)' <=> Reported(g) \/ g = "global_stats"
  BY <1>4, <1>k DEF Reported, TookStartAndScheduled
<1>15. Reports'
  BY <1>1, <1>2, <1>3, <1>4, <1>5, <1>6, <1>7, <1>r, NotesDiffer DEF Reports, Saved, Groups, Commands,
     Consumers, Resources, Values, Settled, TookStartAndScheduled, GeneratorStarts, Starts
<1>w. /\ \A q \in StatsRuns : q >= Run => redis'[q].rewards = redis[q].rewards
      /\ Announced' = Announced /\ Announced \subseteq RunTasks
  BY <1>2, <1>3, <1>5, <1>6, <1>7 DEF Announced, Settled
<1>16. Rewards'
  BY <1>1, <1>2, <1>3, <1>4, <1>w, NotesDiffer, RewardsKept DEF Commands, Consumers, Resources,
     TookStartAndScheduled
<1>g. \A q \in StatsRuns : Gap(q)' = Gap(q)
  BY <1>2, <1>3, <1>4, <1>5, <1>6, <1>7 DEF Gap, Settled
<1>17. SideBySide'
  BY <1>1, <1>2, <1>3, <1>g DEF SideBySide, Settled, Consumers
<1>18. Filed'
  BY <1>1, <1>2, <1>3 DEF Filed, SavedStatsAreTrue, TrueStats, Settled
<1> QED
  BY <1>4, <1>10, <1>11, <1>12, <1>13, <1>14, <1>15, <1>16, <1>17, <1>18 DEF StatisticsInvariant,
     TookStartAndScheduled

(* All are ready: the run starts, none of whose tasks was scheduled. *)
LEMMA PublishStartKeeps ==
  ASSUME StatisticsInvariant, PublishStart
  PROVE  StatisticsInvariant'
<1>1. /\ Types /\ Delivered /\ Obeys /\ Scheduled /\ PreparesFirst /\ ManagerKnows
      /\ Reports /\ Rewards /\ SideBySide /\ Filed
  BY DEF StatisticsInvariant
<1>2. /\ SameRun /\ Phase = "prepare_new_run" /\ Phase' = "start_run"
      /\ UNCHANGED <<code, stage, progress, redis, due, times, timed, answered, groups, completed, disk>>
  BY <1>1, Basics DEF PublishStart, Command, managerVars, poolVars, SameRun, Run, Phase
<1>3. Settled
  BY <1>1, <1>2, Still
<1>4. Gave("start_run")
  <2>1. Run \in StatsRuns /\ \A c \in Consumers : ~Waits(c, "start_run")
    BY <1>1, <1>2, <1>3 DEF Obeys, InPhase, Settled
  <2> QED
    BY <1>1, <1>2, <2>1, Gives DEF PublishStart, Command, Commands, Run
<1>5. /\ Run \in StatsRuns /\ \A c \in Resources : stage[c] = "READY"
      /\ ReceiversOf("start_run") = Consumers
  BY <1>2, <1>3 DEF PublishStart, Settled, ReceiversOf
<1>6. Announced = {} /\ Announced' = {} /\ \A t \in RunTasks : RunOf(t) = Run => progress[t] = "new"
  BY <1>1, <1>2, <1>3, <1>5 DEF Scheduled, Announced, Resources, Settled
<1>t. /\ inbox' \in [Consumers -> Seq(Event)] /\ commanded' = <<Run, "start_run">>
      /\ Run \in 0..Len(schedule.tasks) /\ schedule' = schedule
  BY <1>1, <1>2, <1>4, Basics DEF Gave, PublishStart, Command, Run, SameRun
<1>10. Types'
  BY <1>1, <1>2, <1>3, <1>5, <1>t DEF Types, Settled
<1>11a. ASSUME NEW d \in Resources PROVE Follows(d)'
  BY <1>1, <1>2, <1>3, <1>4, <1>5, <1>6, NotesDiffer DEF Obeys, Follows, Consumers, Resources,
     Commands, Settled, Gave, PublishStart
<1>11b. ASSUME NEW d \in Consumers PROVE InPhase(d)'
  BY <1>1, <1>2, <1>3, <1>4, <1>5, <1>6, NotesDiffer DEF Obeys, InPhase, Consumers, Resources,
     Commands, Settled, Gave, PublishStart
<1>11. Obeys'
  BY <1>1, <1>2, <1>3, <1>4, <1>5, <1>6, <1>11a, <1>11b, NotesDiffer DEF Obeys, Consumers, Resources,
     Commands, Settled, Gave, PublishStart
<1>12. Scheduled'
  BY <1>1, <1>2, <1>3, <1>4, <1>5, <1>6, NotesDiffer DEF Scheduled, Settled, Gave, PublishStart
<1>13. PreparesFirst'
  BY <1>1, <1>2, <1>3, <1>4, <1>5, <1>6, NotesDiffer DEF PreparesFirst, Commands, Consumers,
     Resources, Settled, Gave, PublishStart
<1>k. Known' = Known
  BY <1>1, <1>2, <1>3, <1>4, <1>5, <1>6, NotesDiffer DEF Known, Commands, Consumers, Settled, Gave,
     PublishStart
<1>14. ManagerKnows'
  BY <1>1, <1>2, <1>3, <1>4, <1>5, <1>6, <1>k, NotesDiffer DEF ManagerKnows, Reported, Saved, Groups,
     Commands, Consumers, Values, Settled, Gave, PublishStart
<1>r. \A g \in Groups : Reported(g)' <=> Reported(g)
  BY <1>4, <1>k DEF Reported, Gave
<1>15. Reports'
  BY <1>1, <1>2, <1>3, <1>4, <1>5, <1>6, <1>r, NotesDiffer DEF Reports, Saved, Groups, Commands,
     Consumers, Resources, Values, Settled, Gave, PublishStart
<1>16. Rewards'
  <2>1. \A t \in RunTasks : ToObserve(t)' => RunOf(t) # Run
    BY <1>1, <1>4, <1>6, TrajectoriesOnTheWay DEF Gave
  <2>2. Range(redis[Run].rewards) = {} /\ IsInjective(redis[Run].rewards)
    <3>1. Run # 0
      BY <1>3, <1>5 DEF Settled
    <3>2. (\A t \in Range(redis[Run].rewards) : t \in Announced) /\ IsInjective(redis[Run].rewards)
      BY <1>1, <3>1 DEF Rewards
    <3> QED
      BY <1>6, <3>2
  <2> QED
    BY <1>1, <1>2, <1>3, <1>6, <2>1, <2>2 DEF Rewards, Settled
<1>g. \A q \in StatsRuns : Gap(q)' = Gap(q)
  BY <1>2, <1>3, <1>4, <1>5, <1>6 DEF Gap, Settled
<1>17. SideBySide'
  BY <1>1, <1>2, <1>3, <1>g DEF SideBySide, Settled, Consumers
<1>18. Filed'
  BY <1>1, <1>2, <1>3 DEF Filed, SavedStatsAreTrue, TrueStats, Settled
<1> QED
  BY <1>4, <1>10, <1>11, <1>12, <1>13, <1>14, <1>15, <1>16, <1>17, <1>18 DEF StatisticsInvariant, Gave

(* All the tasks of the run are executed: of those that were announced, the agent has observed the reward or hears of them first. *)
LEMMA PublishExecutionCompletedKeeps ==
  ASSUME StatisticsInvariant, PublishExecutionCompleted
  PROVE  StatisticsInvariant'
<1>1. /\ Types /\ Delivered /\ Obeys /\ Scheduled /\ PreparesFirst /\ ManagerKnows
      /\ Reports /\ Rewards /\ SideBySide /\ Filed
  BY DEF StatisticsInvariant
<1>2. /\ SameRun /\ Phase = "start_run" /\ Phase' = "execution_completed"
      /\ UNCHANGED <<code, stage, progress, redis, times, timed, answered, groups, completed, disk>>
  BY <1>1, Basics DEF PublishExecutionCompleted, managerVars, poolVars, SameRun, Run, Phase
<1>3. Settled
  BY <1>1, <1>2, Still
<1>4. Gave("execution_completed")
  <2>1. Run \in StatsRuns /\ \A c \in Consumers : ~Waits(c, "execution_completed")
    BY <1>1, <1>2, <1>3 DEF Obeys, InPhase, Settled
  <2> QED
    BY <1>1, <1>2, <2>1, Gives DEF PublishExecutionCompleted, Commands, Run
<1>5. /\ Run \in StatsRuns /\ stage["generator"] = "RUNNING" /\ \A c \in Resources : stage[c] # "WAITING"
      /\ ReceiversOf("execution_completed") = {"manager", "agent", "collector"}
  <2>1. Run \in StatsRuns /\ ReceiversOf("execution_completed") = {"manager", "agent", "collector"}
    BY <1>2, <1>3 DEF Settled, ReceiversOf
  <2>2. PICK t \in RunTasks : RunOf(t) = Run
    BY <1>1, <2>1, Basics
  <2>3. progress[t] \in {"rewarded", "announced", "failed"}
    BY <2>2 DEF PublishExecutionCompleted, AllExecuted, Run
  <2>4. stage["generator"] = "RUNNING"
    BY <1>1, <1>2, <1>3, <2>2, <2>3 DEF Scheduled, Settled
  <2> QED
    BY <1>1, <1>2, <2>1, <2>4 DEF Obeys, Follows
<1>6. Announced' = Announced /\ Announced \subseteq RunTasks /\ due' = [due EXCEPT ![Run] = Announced]
  BY <1>2, <1>3 DEF Announced, Settled, PublishExecutionCompleted, Run
<1>t. /\ inbox' \in [Consumers -> Seq(Event)] /\ commanded' = <<Run, "execution_completed">>
      /\ Run \in 0..Len(schedule.tasks) /\ schedule' = schedule /\ due' \in [StatsRuns -> SUBSET RunTasks]
  BY <1>1, <1>2, <1>3, <1>4, <1>6, Basics DEF Gave, PublishExecutionCompleted, Run, SameRun, Settled
<1>10. Types'
  BY <1>1, <1>2, <1>3, <1>5, <1>t DEF Types, Settled
<1>11a. ASSUME NEW d \in Resources PROVE Follows(d)'
  BY <1>1, <1>2, <1>3, <1>4, <1>5, <1>6, NotesDiffer DEF Obeys, Follows, Consumers, Resources,
     Commands, Settled, Gave, PublishExecutionCompleted
<1>11b. ASSUME NEW d \in Consumers PROVE InPhase(d)'
  BY <1>1, <1>2, <1>3, <1>4, <1>5, <1>6, NotesDiffer DEF Obeys, InPhase, Consumers, Resources,
     Commands, Settled, Gave, PublishExecutionCompleted
<1>11. Obeys'
  BY <1>1, <1>2, <1>3, <1>4, <1>5, <1>6, <1>11a, <1>11b, NotesDiffer DEF Obeys, Consumers, Resources,
     Commands, Settled, Gave, PublishExecutionCompleted
<1>12. Scheduled'
  BY <1>1, <1>2, <1>3, <1>4, <1>5, <1>6, NotesDiffer DEF Scheduled, Settled, Gave,
     PublishExecutionCompleted
<1>13. PreparesFirst'
  BY <1>1, <1>2, <1>3, <1>4, <1>5, <1>6, NotesDiffer DEF PreparesFirst, Commands, Consumers,
     Resources, Settled, Gave, PublishExecutionCompleted
<1>k. Known' = Known
  BY <1>1, <1>2, <1>3, <1>4, <1>5, <1>6, NotesDiffer DEF Known, Commands, Consumers, Settled, Gave,
     PublishExecutionCompleted
<1>14. ManagerKnows'
  BY <1>1, <1>2, <1>3, <1>4, <1>5, <1>6, <1>k, NotesDiffer DEF ManagerKnows, Reported, Saved, Groups,
     Commands, Consumers, Values, Settled, Gave, PublishExecutionCompleted
<1>r. \A g \in Groups : Reported(g)' <=> Reported(g)
  BY <1>4, <1>k DEF Reported, Gave
<1>15. Reports'
  BY <1>1, <1>2, <1>3, <1>4, <1>5, <1>6, <1>r, NotesDiffer DEF Reports, Saved, Groups, Commands,
     Consumers, Resources, Values, Settled, Gave, PublishExecutionCompleted
<1>16. Rewards'
  <2>1. \A t \in RunTasks : Waits("agent", "start_run") /\ RunOf(t) = Run /\ ToObserve(t)
          => Precedes(inbox'["agent"], Note("start_run", Run), Note("trajectory_completed", t))
    BY <1>1, <1>4 DEF Rewards, Gave, Consumers, Resources
  <2>2. \A t \in Announced : \/ t \in Range(redis[Run].rewards)
                            \/ Precedes(inbox'["agent"], Note("trajectory_completed", t), Note("execution_completed", Run))
    BY <1>1, <1>2, <1>4, <1>5, <1>6 DEF Rewards, Gave
  <2>3. due'[Run] = Announced /\ \A t \in Announced : RunOf(t) = Run
    BY <1>3, <1>5, <1>6 DEF Settled, Announced
  <2>4. /\ \A t \in RunTasks : ToObserve(t)' <=> ToObserve(t)
        /\ Waits("agent", "start_run")' <=> Waits("agent", "start_run")
    BY <1>4 DEF Gave, Consumers, Resources, Commands
  <2> QED
    BY <1>1, <1>2, <1>3, <1>5, <1>6, <2>1, <2>2, <2>3, <2>4 DEF Rewards, Settled
<1>g. \A q \in StatsRuns : Gap(q)' = Gap(q)
  BY <1>2, <1>3, <1>4, <1>5, <1>6 DEF Gap, Settled
<1>17. SideBySide'
  BY <1>1, <1>2, <1>3, <1>g DEF SideBySide, Settled, Consumers
<1>18. Filed'
  <2>1. disk[Run] = {} /\ \A q \in StatsRuns : q # Run => due'[q] = due[q]
    BY <1>1, <1>2, <1>3, <1>5, <1>6 DEF Filed, Settled
  <2> QED
    <3>1. ASSUME NEW r \in StatsRuns
          PROVE  Cardinality(disk[r]) <= 1 /\ \A d \in disk[r] : TrueStats(r, d)'
      BY <1>1, <2>1 DEF Filed, SavedStatsAreTrue, TrueStats
    <3>2. SavedStatsAreTrue'
      BY <1>2, <1>3, <3>1 DEF SavedStatsAreTrue, Settled
    <3> QED
      BY <1>1, <1>2, <1>3, <2>1, <3>2 DEF Filed, Settled
<1> QED
  BY <1>4, <1>10, <1>11, <1>12, <1>13, <1>14, <1>15, <1>16, <1>17, <1>18 DEF StatisticsInvariant, Gave

(* The next run is prepared: nothing of it is there yet. *)
LEMMA PublishPrepareKeeps ==
  ASSUME StatisticsInvariant, PublishPrepare
  PROVE  StatisticsInvariant'
<1>1. /\ Types /\ Delivered /\ Obeys /\ Scheduled /\ PreparesFirst /\ ManagerKnows
      /\ Reports /\ Rewards /\ SideBySide /\ Filed
  BY DEF StatisticsInvariant
<1>2. /\ Run' = Run + 1 /\ Phase = "complete" /\ Phase' = "prepare_new_run" /\ commanded' = <<Run + 1, "prepare_new_run">>
      /\ inbox' = Publish(inbox, "prepare_new_run", Run + 1) /\ inbox["manager"] = <<>> /\ completed' = FALSE
      /\ Run < Len(schedule.tasks) /\ \A c \in Resources : stage[c] = "WAITING"
  BY DEF PublishPrepare, Command, Run, Phase
<1>3. UNCHANGED <<schedule, code, stage, progress, redis, due, times, timed, answered, groups, disk>>
  BY DEF PublishPrepare, poolVars
<1>4. /\ StatsRuns' = StatsRuns /\ RunTasks' = RunTasks
      /\ Run \in Nat /\ Run' \in StatsRuns /\ 0 \notin StatsRuns /\ StatsRuns \subseteq Nat
      /\ (Run # 0 <=> Run \in StatsRuns) /\ \A t \in RunTasks : RunOf(t) \in StatsRuns
  <2>1. StatsRuns' = StatsRuns /\ RunTasks' = RunTasks
    BY <1>3 DEF StatsRuns, RunTasks
  <2> QED
    BY <1>1, <1>2, <2>1, Basics
<1>5. Event' = Event /\ Document' = Document
  BY <1>4 DEF Event, Document
<1>6. GaveNextRun
  <2>1. ASSUME NEW d \in Resources, NEW k \in Commands
        PROVE  ~Waits(d, k)
    <3>1. d \in Consumers /\ k \in {"prepare_new_run", "start_run", "execution_completed", "run_completed", "scheduling_completed"}
      BY DEF Consumers, Commands
    <3>2. k # "scheduling_completed" => ~Waits(d, k)
      BY <1>1, <1>2, <3>1 DEF Obeys, Follows
    <3>3. ~Waits(d, "scheduling_completed")
      <4>1. d # "generator" => ~Waits(d, "scheduling_completed")
        BY <1>1, <3>1, ReachesTheGenerator
      <4> QED
        BY <1>1, <1>2, <4>1 DEF Obeys, Resources
    <3> QED
      BY <3>2, <3>3
  <2> QED
    BY <1>1, <1>2, <1>3, <1>4, <2>1, GivesNextRun
<1>7. /\ code \in [Consumers -> 0..Run] /\ redis \in [StatsRuns -> Document]
      /\ stage \in [Resources -> {"WAITING", "READY", "RUNNING"}]
      /\ progress \in [RunTasks -> {"new", "scheduled", "chosen", "rewarded", "failed", "announced"}]
  BY <1>1 DEF Types
<1>8. ASSUME NEW t \in RunTasks, progress[t] # "new"
      PROVE  RunOf(t) < Run'
  <2>1. RunOf(t) \in Nat
    BY <1>4
  <2>2. RunOf(t) < Run \/ RunOf(t) = Run
    BY <1>1, <1>8 DEF Scheduled
  <2> QED
    BY <1>2, <1>4, <2>1, <2>2
<1>10. Types'
  <2>1. /\ inbox' \in [Consumers -> Seq(Event)] /\ commanded' = <<Run', "prepare_new_run">>
        /\ Run' \in 0..Len(schedule.tasks) /\ Run' # 0 /\ Phase' = "prepare_new_run"
        /\ code' \in [Consumers -> 0..Run']
        /\ Run' = commanded'[1] /\ Phase' = commanded'[2]
    <3>1. \A c \in Consumers : code[c] \in 0..Run'
      BY <1>2, <1>4, <1>7
    <3>2. Len(schedule.tasks) \in Nat /\ StatsRuns = 1..Len(schedule.tasks)
      BY <1>1, Basics
    <3> QED
      BY <1>2, <1>3, <1>4, <1>6, <1>7, <3>1, <3>2 DEF GaveNextRun, Run, Phase
  <2>2. commanded' \in (0..Len(schedule.tasks)) \X {"prepare_new_run", "start_run", "execution_completed", "complete"}
    BY <2>1
  <2> QED
    BY <1>1, <1>2, <1>3, <1>4, <1>5, <2>1, <2>2 DEF Types
<1>11. Obeys'
  <2>1. ASSUME NEW d \in Resources PROVE Follows(d)'
    BY <1>2, <1>3, <1>6 DEF Follows, GaveNextRun, Consumers, Commands
  <2>2. ASSUME NEW d \in Consumers PROVE InPhase(d)'
    BY <1>6 DEF InPhase, GaveNextRun, Commands
  <2> QED
    BY <1>2, <1>3, <1>6, <2>1, <2>2 DEF Obeys, GaveNextRun, Resources, Consumers, Commands
<1>12. Scheduled'
  BY <1>3, <1>4, <1>8 DEF Scheduled
<1>13. PreparesFirst'
  <2>1. Waits("manager", "prepare_new_run")' /\ code'["manager"] # Run'
    BY <1>2, <1>3, <1>4, <1>6, <1>7 DEF GaveNextRun, Consumers, Commands
  <2> QED
    BY <1>6, <2>1 DEF PreparesFirst, GaveNextRun
<1>14. \A g \in Groups : ~OnTheWay(g)' /\ ~Reported(g)'
  <2>1. \A g \in Groups : ~OnTheWay(g)'
    BY <1>6, NotesDiffer DEF OnTheWay, GaveNextRun
  <2>2. Known' = {}
    BY <1>6 DEF Known, GaveNextRun, Consumers, Commands
  <2> QED
    BY <2>1, <2>2 DEF Reported
<1>15. ManagerKnows'
  BY <1>2, <1>14 DEF ManagerKnows
<1>16. Reports'
  BY <1>14 DEF Reports, Groups
<1>17. Rewards'
  <2>1. \A q \in StatsRuns : q >= Run' => redis[q].rewards = <<>>
    BY <1>1, <1>2, <1>4 DEF Rewards
  <2>2. \A t \in RunTasks : RunOf(t) = Run' => ~ToObserve(t)'
    <3>1. ASSUME NEW t \in RunTasks, RunOf(t) = Run', ToObserve(t) PROVE FALSE
      BY <1>1, <1>2, <1>4, <1>8, <3>1, TrajectoriesOnTheWay
    <3> QED
      BY <1>6, <3>1 DEF GaveNextRun
  <2>3. Range(redis'[Run'].rewards) = {} /\ IsInjective(redis'[Run'].rewards)
    <3>1. redis'[Run'].rewards = <<>>
      BY <1>2, <1>3, <1>4, <2>1
    <3> QED
      BY <3>1, EmptySeq DEF Range, IsInjective
  <2> QED
    BY <1>2, <1>3, <1>4, <2>1, <2>2, <2>3 DEF Rewards
<1>18. SideBySide'
  BY <1>1, <1>3, <1>4 DEF SideBySide, Gap
<1>19. Filed'
  <2>1. SavedStatsAreTrue'
    BY <1>1, <1>3, <1>4 DEF Filed, SavedStatsAreTrue, TrueStats
  <2> QED
    BY <1>1, <1>2, <1>3, <1>4, <2>1 DEF Filed
<1> QED
  BY <1>6, <1>10, <1>11, <1>12, <1>13, <1>15, <1>16, <1>17, <1>18, <1>19 DEF StatisticsInvariant,
     GaveNextRun

(* The manager hears of a group after it has prepared, once, and before the run is complete. *)
LEMMA ReportHeard ==
  ASSUME StatisticsInvariant, ManagerCollects
  PROVE  /\ Subject("manager") \in Groups /\ OnTheWay(Subject("manager"))
         /\ Run \in StatsRuns /\ Run # 0 /\ Phase # "complete" /\ Phase # "prepare_new_run"
         /\ ~Waits("manager", "prepare_new_run") /\ code["manager"] = Run
         /\ Known = groups /\ Subject("manager") \notin groups
         /\ groups' = groups \union {Subject("manager")}
<1>1. /\ Types /\ Delivered /\ Obeys /\ Scheduled /\ PreparesFirst /\ ManagerKnows
      /\ Reports /\ Rewards /\ SideBySide /\ Filed
  BY DEF StatisticsInvariant
<1> DEFINE g == Subject("manager")
<1>2. /\ Receives("manager", "stats_updated") /\ g \in Groups /\ OnTheWay(g) /\ In(inbox["manager"], Note("stats_updated", g))
      /\ Note("stats_updated", g) \in Event
  BY <1>1, HeadIs DEF ManagerCollects, Consumers
<1>3. ~Waits("manager", "prepare_new_run")
  <2>1. ~Precedes(inbox["manager"], Note("prepare_new_run", Run), Note("stats_updated", g))
    BY <1>1, <1>2, ManagerTakes
  <2>2. Note("stats_updated", g) # Note("prepare_new_run", Run)
    BY NotesDiffer
  <2> QED
    BY <1>1, <1>2, <2>1, <2>2 DEF PreparesFirst
<1>4. code["manager"] = Run /\ Known = groups /\ g \notin groups
  BY <1>1, <1>2, <1>3 DEF PreparesFirst, ManagerKnows, Known
<1>5. Run # 0 /\ Run \in StatsRuns /\ Phase # "prepare_new_run"
  BY <1>1, <1>2, Basics DEF Reports, Reported
<1>6. Phase # "complete"
  BY <1>1, <1>2, <1>4, <1>5 DEF ManagerKnows
<1> QED
  BY <1>2, <1>3, <1>4, <1>5, <1>6 DEF ManagerCollects

(* The manager hears of a group, and some are still missing. *)
LEMMA ManagerCollectsKeeps ==
  ASSUME StatisticsInvariant, ~Collected(groups'), ManagerCollects
  PROVE  StatisticsInvariant'
<1>1. /\ Types /\ Delivered /\ Obeys /\ Scheduled /\ PreparesFirst /\ ManagerKnows
      /\ Reports /\ Rewards /\ SideBySide /\ Filed
  BY DEF StatisticsInvariant
<1>2. /\ SameRun /\ Phase' = Phase /\ commanded' = commanded
      /\ UNCHANGED <<completed, code, stage, progress, redis, due, times, timed, answered, disk>>
  BY DEF ManagerCollects, managerVars, poolVars, SameRun, Run, Phase
<1>3. Settled
  BY <1>1, <1>2, Still
<1>4. PICK g \in Groups : g = Subject("manager") /\ TookReport(g)
  <2>1. inbox' = Handled("manager") /\ Receives("manager", "stats_updated")
    BY DEF ManagerCollects
  <2> QED
    BY <1>1, <1>2, <2>1, TakesReport, ReportHeard
<1>5. /\ Run \in StatsRuns /\ Run # 0 /\ Phase # "complete" /\ Phase # "prepare_new_run"
      /\ ~Waits("manager", "prepare_new_run") /\ code["manager"] = Run /\ OnTheWay(g)
      /\ Known = groups /\ groups' = groups \union {g} /\ g \notin groups
  BY <1>4, ReportHeard
<1>6. Known' = Known \union {g} /\ \A h \in Groups : Reported(h)' <=> Reported(h)
  <2>1. Known' = Known \union {g}
    BY <1>4, <1>5 DEF Known, TookReport, Consumers, Commands
  <2> QED
    BY <1>4, <1>5, <2>1 DEF Reported, TookReport
<1>i. inbox' \in [Consumers -> Seq(Event)]
  BY <1>4 DEF TookReport
<1>s. /\ stage' \in [Resources -> {"WAITING", "READY", "RUNNING"}]
      /\ code' \in [Consumers -> 0..Run]
  BY <1>1, <1>2, <1>3, <1>5, <1>6 DEF Settled, Consumers, Resources, ManagerCollects
<1>10. Types'
  BY <1>1, <1>2, <1>3, <1>5, <1>6, <1>i, <1>s DEF Types, SameRun, Settled, ManagerCollects
<1>11a. ASSUME NEW d \in Resources PROVE Follows(d)'
  BY <1>1, <1>2, <1>3, <1>4, <1>5, <1>6, NotesDiffer DEF Obeys, Follows, Consumers, Resources,
     Commands, Settled, TookReport, ManagerCollects
<1>11b. ASSUME NEW d \in Consumers PROVE InPhase(d)'
  BY <1>1, <1>2, <1>3, <1>4, <1>5, <1>6, NotesDiffer DEF Obeys, InPhase, Consumers, Resources,
     Commands, Settled, TookReport, ManagerCollects
<1>11. Obeys'
  BY <1>1, <1>2, <1>3, <1>4, <1>5, <1>6, <1>11a, <1>11b, NotesDiffer DEF Obeys, Consumers, Resources,
     Commands, Settled, TookReport, ManagerCollects
<1>12. Scheduled'
  BY <1>1, <1>2, <1>3, <1>4, <1>5, <1>6, NotesDiffer DEF Scheduled, Settled, TookReport, ManagerCollects
<1>13. PreparesFirst'
  BY <1>1, <1>2, <1>3, <1>4, <1>5 DEF PreparesFirst, Consumers, Commands, Settled, TookReport
<1>14. ManagerKnows'
  BY <1>1, <1>2, <1>3, <1>4, <1>5, <1>6 DEF ManagerKnows, Saved, Consumers, Commands, Settled,
     TookReport
<1>15. Reports'
  BY <1>1, <1>2, <1>3, <1>4, <1>6 DEF Reports, Saved, Groups, Commands, Consumers, Resources, Settled,
     TookReport
<1>w. /\ \A q \in StatsRuns : q >= Run => redis'[q].rewards = redis[q].rewards
      /\ Announced' = Announced /\ Announced \subseteq RunTasks
  BY <1>2, <1>3, <1>5, <1>6 DEF Announced, Settled
<1>16. Rewards'
  BY <1>1, <1>2, <1>3, <1>4, <1>w, NotesDiffer, RewardsKept DEF Commands, Consumers, Resources,
     TookReport
<1>g. \A q \in StatsRuns : Gap(q)' = Gap(q)
  BY <1>2, <1>3, <1>4, <1>5, <1>6 DEF Gap, Settled
<1>17. SideBySide'
  BY <1>1, <1>2, <1>3, <1>g DEF SideBySide, Settled, Consumers
<1>18. Filed'
  BY <1>1, <1>2, <1>3 DEF Filed, SavedStatsAreTrue, TrueStats, Settled
<1> QED
  BY <1>4, <1>10, <1>11, <1>12, <1>13, <1>14, <1>15, <1>16, <1>17, <1>18 DEF StatisticsInvariant,
     TookReport

(* The manager has heard of all the groups: what it saves of the run is true, and the run is complete. *)
LEMMA ManagerCompletesKeeps ==
  ASSUME StatisticsInvariant, Collected(groups'), ManagerCollects
  PROVE  StatisticsInvariant'
<1>1. /\ Types /\ Delivered /\ Obeys /\ Scheduled /\ PreparesFirst /\ ManagerKnows
      /\ Reports /\ Rewards /\ SideBySide /\ Filed
  BY DEF StatisticsInvariant
<1>b. /\ Subject("manager") \in Groups /\ OnTheWay(Subject("manager"))
      /\ Run \in StatsRuns /\ Run # 0 /\ Phase # "complete" /\ Phase # "prepare_new_run"
      /\ ~Waits("manager", "prepare_new_run") /\ code["manager"] = Run /\ Known = groups
      /\ groups' = groups \union {Subject("manager")} /\ groups' = Groups /\ completed
      /\ \A h \in Groups : Reported(h)
  BY ReportHeard DEF Collected, Reported
<1>c. /\ redis' \in [StatsRuns -> Document]
      /\ \A q \in StatsRuns : /\ redis'[q].lists = redis[q].lists /\ redis'[q].rewards = redis[q].rewards
                              /\ q # Run => redis'[q] = redis[q]
      /\ \A v \in Values : redis[Run].values[v] = "saved" => redis'[Run].values[v] = "saved"
      /\ redis'[Run].values["end_time"] = "saved"
      /\ disk' = [disk EXCEPT ![Run] = disk[Run] \union {redis'[Run]}]
      /\ commanded' = <<Run, "complete">>
      /\ inbox' = Publish(Handled("manager"), "run_completed", Run)
  <2>1. redis \in [StatsRuns -> Document] /\ redis' = SaveValue(redis, Run, "end_time")
    BY <1>1, <1>b DEF Types, ManagerCollects, SaveStatsOnDisk, Collected
  <2>2. /\ redis' \in [StatsRuns -> Document]
        /\ \A q \in StatsRuns : /\ redis'[q].lists = redis[q].lists /\ redis'[q].rewards = redis[q].rewards
                                /\ q # Run => redis'[q] = redis[q]
        /\ \A v \in Values : redis'[Run].values[v] = IF v = "end_time" THEN "saved" ELSE redis[Run].values[v]
    BY <1>b, <2>1, ValueSaved DEF Values
  <2>3. redis[Run].values["tasks_to_generate"] = "saved" /\ redis[Run].values["end_execution_time"] = "saved"
    BY <1>1, <1>b DEF Reports, ManagerKnows, Saved, Groups
  <2>4. HasTimes(redis'[Run])
    BY <2>2, <2>3 DEF HasTimes, Values
  <2>5. SaveStatsOnDisk(Run, redis')
    BY <1>b, <2>1 DEF ManagerCollects, Collected
  <2> QED
    BY <2>2, <2>4, <2>5 DEF SaveStatsOnDisk, Load, Values
<1>2. /\ SameRun /\ Phase = "execution_completed" /\ Phase' = "complete"
      /\ UNCHANGED <<completed, code, stage, progress, due, times, timed, answered>>
  <2>1. Phase = "execution_completed" /\ commanded' = <<Run, "complete">>
    BY <1>1, <1>b, <1>c DEF ManagerKnows
  <2> QED
    BY <2>1 DEF ManagerCollects, poolVars, SameRun, Run, Phase
<1>3. Settled
  BY <1>1, <1>2, Still
<1>4. PICK g \in Groups : g = Subject("manager") /\ TookReportAndCompleted(g)
  <2>1. inbox' = Publish(Handled("manager"), "run_completed", Run) /\ Receives("manager", "stats_updated")
    BY <1>c DEF ManagerCollects
  <2>2. \A c \in Consumers : ~Waits(c, "run_completed")
    BY <1>1, <1>2 DEF Obeys, InPhase
  <2> QED
    BY <1>1, <1>2, <1>b, <2>1, <2>2, TakesReportAndCompletes
<1>5. /\ Run \in StatsRuns /\ Run # 0 /\ ~Waits("manager", "prepare_new_run") /\ code["manager"] = Run
      /\ Known' = Groups /\ \A h \in Groups : ~OnTheWay(h)' /\ Reported(h)
      /\ stage["agent"] # "READY" /\ stage["generator"] # "READY" /\ \A c \in Resources : stage[c] # "WAITING"
  <2>1. \A c \in Resources : stage[c] # "WAITING"
    BY <1>1, <1>2 DEF Obeys, Follows
  <2>2. Known' = Groups
    BY <1>4, <1>b, <1>c DEF Known, TookReportAndCompleted, Consumers, Commands
  <2>3. \A h \in Groups : ~OnTheWay(h)'
    BY <1>1, <1>4, <1>b, <1>c DEF ManagerKnows, TookReportAndCompleted
  <2> QED
    BY <1>1, <1>b, <1>c, <2>1, <2>2, <2>3 DEF Reports, Groups
<1>t. /\ inbox' \in [Consumers -> Seq(Event)] /\ commanded' = <<Run, "complete">>
      /\ Run \in 0..Len(schedule.tasks) /\ schedule' = schedule /\ groups' \subseteq Groups
      /\ disk' \in [StatsRuns -> SUBSET Document] /\ redis' \in [StatsRuns -> Document]
  <2>1. disk \in [StatsRuns -> SUBSET Document] /\ redis' \in [StatsRuns -> Document]
    BY <1>1, <1>c DEF Types
  <2>2. disk' \in [StatsRuns -> SUBSET Document]
    BY <1>5, <1>c, <2>1
  <2> QED
    BY <1>1, <1>2, <1>4, <1>b, <1>c, <2>1, <2>2, Basics DEF TookReportAndCompleted, SameRun
<1>10. Types'
  BY <1>1, <1>2, <1>3, <1>5, <1>t DEF Types, Settled
<1>11a. ASSUME NEW d \in Resources PROVE Follows(d)'
  BY <1>1, <1>b, <1>c, <1>2, <1>3, <1>4, <1>5, NotesDiffer DEF Obeys, Follows, Consumers, Resources,
     Commands, Settled, TookReportAndCompleted, ManagerCollects
<1>11b. ASSUME NEW d \in Consumers PROVE InPhase(d)'
  BY <1>1, <1>b, <1>c, <1>2, <1>3, <1>4, <1>5, NotesDiffer DEF Obeys, InPhase, Consumers, Resources,
     Commands, Settled, TookReportAndCompleted, ManagerCollects
<1>11. Obeys'
  BY <1>1, <1>b, <1>c, <1>2, <1>3, <1>4, <1>5, <1>11a, <1>11b, NotesDiffer DEF Obeys, Consumers,
     Resources, Commands, Settled, TookReportAndCompleted, ManagerCollects
<1>12. Scheduled'
  BY <1>1, <1>b, <1>c, <1>2, <1>3, <1>4, <1>5, NotesDiffer DEF Scheduled, Settled,
     TookReportAndCompleted, ManagerCollects
<1>13. PreparesFirst'
  BY <1>2, <1>3, <1>4, <1>5 DEF PreparesFirst, Consumers, Commands, Settled, TookReportAndCompleted
<1>14. ManagerKnows'
  <2>1. Saved("end_execution_time")'
    BY <1>1, <1>2, <1>b, <1>c DEF ManagerKnows, Saved, Values, SameRun
  <2> QED
    BY <1>2, <1>3, <1>4, <1>5, <2>1 DEF ManagerKnows, Consumers, Commands, TookReportAndCompleted
<1>r. \A h \in Groups : Reported(h)
  BY <1>5
<1>15. Reports'
  <2>1. \A v \in Values : Saved(v) => Saved(v)'
    BY <1>2, <1>c DEF Saved, SameRun
  <2>2. due'[Run] \subseteq Range(redis'[Run].rewards)
    BY <1>1, <1>2, <1>3, <1>5, <1>c DEF Reports, Groups, Settled
  <2>3. ~Waits("generator", "scheduling_completed")' /\ ~Waits("agent", "execution_completed")'
    BY <1>1, <1>4, <1>5 DEF Reports, Groups, TookReportAndCompleted, Consumers, Resources, Commands
  <2> QED
    BY <1>1, <1>2, <1>3, <1>5, <2>1, <2>2, <2>3 DEF Reports, Groups, Values, Settled
<1>16. Rewards'
  <2>1. /\ \A t \in RunTasks : ToObserve(t)' <=> ToObserve(t)
        /\ Waits("agent", "start_run")' <=> Waits("agent", "start_run")
        /\ \A e, f : Precedes(inbox["agent"], e, f) => Precedes(inbox'["agent"], e, f)
    BY <1>4 DEF TookReportAndCompleted, Consumers, Resources, Commands
  <2>2. Announced' = Announced /\ Announced \subseteq RunTasks
    BY <1>2, <1>3 DEF Announced, Settled
  <2>3. \A q \in StatsRuns : redis'[q].rewards = redis[q].rewards
    BY <1>c
  <2>4. /\ \A t \in Range(redis[Run].rewards) : t \in Announced /\ ~ToObserve(t)
        /\ IsInjective(redis[Run].rewards)
    BY <1>1, <1>5 DEF Rewards
  <2> QED
    BY <1>1, <1>2, <1>3, <1>5, <2>1, <2>2, <2>3, <2>4 DEF Rewards, Settled
<1>g. \A q \in StatsRuns : Gap(q)' = Gap(q)
  BY <1>c DEF Gap
<1>17. SideBySide'
  BY <1>1, <1>2, <1>3, <1>g DEF SideBySide, Settled
<1>18. Filed'
  <2> DEFINE d == redis'[Run]
  <2>1. d = redis'[Run] /\ disk[Run] = {}
    BY <1>1, <1>2, <1>5 DEF Filed
  <2>2. disk'[Run] = {d} /\ \A q \in StatsRuns : q # Run => disk'[q] = disk[q]
    BY <1>1, <1>5, <1>c, <2>1 DEF Types
  <2>3. TrueStats(Run, d)
    <3>1. \A v \in Values \ {"task_succeeded"} : d.values[v] = "saved"
      <4>1. /\ Saved("agent_parameters") /\ Saved("tasks_to_generate") /\ Saved("tasks_generated")
            /\ \A v \in {"selected_actions", "assignments_history", "validation_reward"} : Saved(v)
        BY <1>1, <1>5 DEF Reports, Groups
      <4>2. Saved("end_execution_time")
        BY <1>1, <1>b DEF ManagerKnows
      <4> QED
        BY <1>c, <4>1, <4>2 DEF Saved, Values
    <3>2. d.rewards = redis[Run].rewards /\ d.lists = redis[Run].lists
      BY <1>5, <1>c
    <3>3. /\ due[Run] \subseteq Range(d.rewards) /\ IsInjective(d.rewards)
          /\ \A t \in Range(d.rewards) : RunOf(t) = Run
      BY <1>1, <1>5, <3>2 DEF Reports, Rewards, Announced, Groups
    <3>4. \A k, l \in Range(Times) : d.lists[k] - d.lists[l] \in -1..1
      <4>1. Gap(Run) \in -1..1 /\ redis[Run] \in Document
        BY <1>1, <1>3, <1>5 DEF SideBySide, Settled
      <4>2. redis[Run].lists["waiting_time"] \in Nat /\ redis[Run].lists["execution_time"] \in Nat
        BY <4>1, ListNames DEF Document
      <4> QED
        BY <3>2, <4>1, <4>2, ListNames DEF Gap
    <3> QED
      BY <3>1, <3>3, <3>4 DEF TrueStats
  <2> HIDE DEF d
  <2>4. ASSUME NEW r \in StatsRuns
        PROVE  Cardinality(disk'[r]) <= 1 /\ \A x \in disk'[r] : TrueStats(r, x)'
    <3>1. \A x : TrueStats(r, x)' <=> TrueStats(r, x)
      BY <1>2 DEF TrueStats
    <3>2. CASE r = Run
      <4>1. Cardinality({d}) = 1
        BY FS_Singleton
      <4> QED
        BY <2>2, <2>3, <3>1, <3>2, <4>1
    <3>3. CASE r # Run
      BY <1>1, <2>2, <3>1, <3>3 DEF Filed, SavedStatsAreTrue
    <3> QED
      BY <3>2, <3>3
  <2>5. SavedStatsAreTrue'
    BY <1>3, <2>4 DEF SavedStatsAreTrue, Settled
  <2>6. \A q \in StatsRuns : q > Run => disk'[q] = {}
    BY <1>1, <1>3, <2>2 DEF Filed, Settled
  <2> QED
    BY <1>2, <1>3, <2>5, <2>6 DEF Filed, Settled
<1> QED
  BY <1>4, <1>10, <1>11, <1>12, <1>13, <1>14, <1>15, <1>16, <1>17, <1>18 DEF StatisticsInvariant,
     TookReportAndCompleted

-----------------------------------------------------------------------------
(* The invariant. *)

LEMMA InitHolds ==
  ASSUME StatisticsInit
  PROVE  StatisticsInvariant
<1>1. /\ Run = 0 /\ Phase = "complete" /\ code = [c \in Consumers |-> 0] /\ schedule \in Schedules
      /\ stage = [c \in Resources |-> "WAITING"] /\ inbox = [c \in Consumers |-> <<>>]
      /\ progress = [t \in RunTasks |-> "new"] /\ groups = {} /\ completed = TRUE
      /\ redis = [r \in StatsRuns |-> NoStats] /\ disk = [r \in StatsRuns |-> {}]
  BY DEF StatisticsInit, Run, Phase, NoCode
<1>2. /\ Len(schedule.tasks) \in Nat /\ StatsRuns = 1..Len(schedule.tasks)
  <2>1. schedule.tasks \in Seq(Nat \ {0})
    BY <1>1, SchedulesAssumption
  <2> QED
    BY <2>1, LenProperties DEF StatsRuns
<1>3. \A c \in Consumers : \A e : ~In(inbox[c], e)
  BY <1>1, EmptySeq DEF In
<1>4. NoStats \in Document
  BY EmptySeq DEF NoStats, Document
<1>5. Types
  BY <1>1, <1>2, <1>4, EmptySeq DEF Types, StatisticsInit
<1>6. Delivered
  BY <1>1, <1>3, EmptySeq DEF Delivered, Distinct
<1>7. /\ \A c \in Consumers : \A k : ~Waits(c, k)
      /\ \A g : ~OnTheWay(g) /\ \A t : ~ToObserve(t)
  BY <1>3 DEF Waits, OnTheWay, ToObserve, Consumers, Resources
<1>8. Obeys
  BY <1>1, <1>7 DEF Obeys, Follows, InPhase, Consumers, Resources
<1>9. Scheduled /\ PreparesFirst
  BY <1>1, <1>3, <1>7 DEF Scheduled, PreparesFirst, Consumers
<1>10. ManagerKnows /\ Reports
  BY <1>1, <1>7 DEF ManagerKnows, Reports, Reported, Known, Consumers, Groups
<1>11. Rewards
  BY <1>1, <1>2, <1>7 DEF Rewards, NoStats
<1>12. SideBySide
  <2>1. \A q \in StatsRuns : Gap(q) = 0
    BY <1>1, ListNames DEF Gap, NoStats
  <2> QED
    BY <1>1, <2>1 DEF SideBySide, StatisticsInit, Consumers, Resources
<1>13. Filed
  <2>1. Cardinality({}) = 0
    BY FS_EmptySet
  <2> QED
    BY <1>1, <2>1 DEF Filed, SavedStatsAreTrue
<1> QED
  BY <1>5, <1>6, <1>8, <1>9, <1>10, <1>11, <1>12, <1>13 DEF StatisticsInvariant

LEMMA StutterHolds ==
  ASSUME StatisticsInvariant, UNCHANGED statisticsVars
  PROVE  StatisticsInvariant'
<1>1. /\ Types /\ Delivered /\ Obeys /\ Scheduled /\ PreparesFirst /\ ManagerKnows
      /\ Reports /\ Rewards /\ SideBySide /\ Filed
  BY DEF StatisticsInvariant
<1>2. /\ SameRun /\ Phase' = Phase /\ commanded' = commanded
      /\ UNCHANGED <<inbox, code, stage, progress, times, timed, answered, redis, due, groups, completed, disk>>
  BY DEF statisticsVars, managerVars, poolVars, SameRun, Run, Phase
<1>3. Settled
  BY <1>1, <1>2, Still
<1>4. QueuesRest
  BY <1>1, <1>2, Rests
<1>5. Types'
  BY <1>1, <1>2, <1>3 DEF Types, SameRun, Settled
<1>6. Obeys' /\ Scheduled' /\ PreparesFirst'
  BY <1>1, <1>2, <1>3, <1>4 DEF Obeys, Follows, InPhase, Scheduled, PreparesFirst, Settled,
     QueuesRest, Consumers, Resources
<1>7. \A g \in Groups : Known' = Known /\ (Reported(g)' <=> Reported(g))
  BY <1>2, <1>4 DEF Known, Reported, QueuesRest, Consumers
<1>8. ManagerKnows' /\ Reports'
  BY <1>1, <1>2, <1>3, <1>4, <1>7 DEF ManagerKnows, Reports, Saved, Settled, QueuesRest, Consumers,
     Resources, Groups
<1>9. Rewards'
  BY <1>1, <1>2, <1>3, <1>4, RewardsKept DEF Announced, Settled, QueuesRest, Consumers, Resources
<1>10. SideBySide' /\ Filed'
  BY <1>1, <1>2, <1>3 DEF SideBySide, Gap, Filed, SavedStatsAreTrue, TrueStats, Settled
<1> QED
  BY <1>4, <1>5, <1>6, <1>8, <1>9, <1>10 DEF StatisticsInvariant, QueuesRest

(* Every step keeps it. *)
LEMMA NextHolds ==
  ASSUME StatisticsInvariant, [StatisticsNext]_statisticsVars
  PROVE  StatisticsInvariant'
<1>1. CASE PublishPrepare \/ PublishStart \/ PublishExecutionCompleted
  BY <1>1, PublishPrepareKeeps, PublishStartKeeps, PublishExecutionCompletedKeeps
<1>2. CASE ManagerPrepares \/ ManagerIgnores \/ ManagerEndsExecution \/ ManagerCollects
  BY <1>2, ManagerPreparesKeeps, ManagerIgnoresKeeps, ManagerEndsExecutionKeeps, ManagerCollectsKeeps,
     ManagerCompletesKeeps
<1>3. CASE \E c \in Resources : ResourcePrepares(c) \/ ResourceStops(c)
  BY <1>3, ResourcePreparesKeeps, ResourceStopsKeeps
<1>4. CASE AgentStarts \/ GeneratorStarts \/ CollectorStarts
  BY <1>4, AgentStartsKeeps, GeneratorStartsKeeps, CollectorStartsKeeps
<1>5. CASE GeneratorReports \/ AgentObserves \/ AgentEnds \/ CollectorEnds
  BY <1>5, GeneratorReportsKeeps, AgentObservesKeeps, AgentEndsKeeps, CollectorEndsKeeps
<1>6. CASE \E t \in RunTasks : GetAction(t) \/ ComputeReward(t) \/ NotifyAgent(t)
  BY <1>6, GetActionKeeps, ComputeRewardKeeps, NotifyAgentKeeps
<1>7. CASE UpdateAgentStats \/ UpdateStats
  BY <1>7, UpdateAgentStatsKeeps, UpdateStatsKeeps
<1>8. CASE UNCHANGED statisticsVars
  BY <1>8, StutterHolds
<1> QED
  BY <1>1, <1>2, <1>3, <1>4, <1>5, <1>6, <1>7, <1>8 DEF StatisticsNext, ConsumerStep, PoolStep

(* The invariant holds in every state: the events that are under way, the stages of the resources and the
   store agree with the run in force, and so does what is saved. *)
THEOREM StatisticsSound == StatisticsSpec => []StatisticsInvariant
<1>1. StatisticsInit => StatisticsInvariant
  BY InitHolds
<1>2. StatisticsInvariant /\ [StatisticsNext]_statisticsVars => StatisticsInvariant'
  BY NextHolds
<1> QED
  BY <1>1, <1>2, PTL DEF StatisticsSpec

(* Every variable keeps its type, and a resource that is in a run holds the code of the run the manager
   commanded last (the code is set by the handler of PREPARE_NEW_RUN alone). *)
THEOREM StatisticsTypeCorrect == StatisticsSpec => []StatisticsTypeOK
<1>1. StatisticsInvariant => StatisticsTypeOK
  <2> SUFFICES ASSUME StatisticsInvariant PROVE StatisticsTypeOK
    OBVIOUS
  <2>1. Types /\ Obeys
    BY DEF StatisticsInvariant
  <2>2. 0..Run \subseteq StatsRuns \union {NoCode}
    BY <2>1, Basics DEF NoCode
  <2>3. \A c \in Resources : stage[c] # "WAITING" => code[c] = commanded[1]
    BY <2>1 DEF Obeys, Follows, Run
  <2>4. timed \in 0..Len(Times) - 1
    BY <2>1 DEF Types, Times
  <2> QED
    BY <2>1, <2>2, <2>3, <2>4 DEF Types, StatisticsTypeOK
<1> QED
  BY <1>1, StatisticsSound, PTL

(* What save_run_data writes is complete and of its own run: every value that somebody was to report is there, the
   rewards are those of the tasks that were due, each once, the list of the waiting times and that of the
   execution times differ by one at most, and a run is saved once, whatever the queues and the pools of the
   agent and of the collector have still to do. *)
THEOREM SavedTrue == StatisticsSpec => []SavedStatsAreTrue
<1>1. StatisticsInvariant => SavedStatsAreTrue
  BY DEF StatisticsInvariant, Filed
<1> QED
  BY <1>1, StatisticsSound, PTL

-----------------------------------------------------------------------------
(* The trajectories. *)

Job == [ids : Seq(Ids), at : {"documents", "info"}]

(* SaverTypes, and what a state of a run implies for the others. *)
SaverTypes ==
  /\ enabled \in [Runs -> BOOLEAN] /\ connected \in BOOLEAN /\ hurried \in BOOLEAN
  /\ run \in Runs /\ ready \subseteq Savers /\ flushed \subseteq Savers
  /\ generated \subseteq Ids
  /\ disabled \in [Savers -> BOOLEAN] /\ runCode \in [Savers -> Runs \union {NoRun}]
  /\ buffer \in [Savers -> Seq(Ids)] /\ jobs \in [Savers -> SUBSET Job]
  /\ documents \in [Ids -> [run : Runs \union {NoRun}, parts : SUBSET Savers]]
  /\ runsInfo \in [Runs -> [exists : BOOLEAN, trajectories : Seq(Ids)]]

Ended == succeeded \union failed

(* The tasks follow the runs: those of a run are generated when all are ready, and all have ended *)
(* before a saver flushes its buffer; redis has the trajectories of one run.                     *)
Progress ==
  /\ stored \subseteq succeeded /\ Ended \subseteq generated /\ learned \subseteq succeeded /\ late \subseteq learned
  /\ \A r \in Runs : r < run => TasksOf(r) \subseteq Ended
  /\ \A r \in Runs : TasksOf(r) \intersect generated # {} => r < run \/ (r = run /\ ready = Savers)
  /\ "collector" \in ready => stored \subseteq TasksOf(run)
  /\ "collector" \notin ready => stored = {} \/ (run # 1 /\ stored \subseteq TasksOf(run - 1))
  /\ ready = Savers => succeeded \intersect TasksOf(run) \subseteq stored
  /\ flushed # {} => ready = Savers /\ TasksOf(run) \subseteq Ended

(* A saver is as its run wants it, from the preparation of that run to that of the next; what is *)
(* in a buffer at other times, and what is of another run, came too late.                        *)
Prepared ==
  /\ \A s \in ready : disabled[s] = ~enabled[run] /\ (enabled[run] => runCode[s] = run)
  /\ ready = {} /\ run # 1 =>
       \A s \in Savers : disabled[s] = ~enabled[run - 1] /\ (enabled[run - 1] => runCode[s] = run - 1)
  /\ \A s \in Savers : \A k \in Range(buffer[s]) :
       \/ ready = Savers /\ enabled[run] /\ k \in TasksOf(run) /\ (s \in flushed => s = "agent" /\ k \in late)
       \/ s = "agent" /\ k \in LateBefore(run)
  /\ connected => \A r \in Runs : enabled[r] /\ (r < run \/ (r = run /\ "agent" \in ready)) => runsInfo[r].exists

(* The ids a saver has been handed so far. *)
Handed(s) == IF s = "agent" THEN learned ELSE IF s = "generator" THEN generated ELSE succeeded

(* An id handed to a saver is in its buffer or in a job at most once. *)
HeldBy(s) ==
  /\ Len(buffer[s]) < SaveInterval
  /\ IsInjective(buffer[s]) /\ Range(buffer[s]) \subseteq Handed(s)
  /\ \A job \in jobs[s] : /\ IsInjective(job.ids) /\ Range(job.ids) \subseteq Handed(s)
                          /\ Range(job.ids) \intersect Range(buffer[s]) = {}
                          /\ job.at = "info" => s = "agent"
  /\ \A job, other \in jobs[s] : Range(job.ids) \intersect Range(other.ids) # {} => job = other
Held == \A s \in Savers : HeldBy(s)

(* What is listed with a run is listed once and is no longer held. *)
Listed ==
  /\ \A r \in Runs : /\ IsInjective(runsInfo[r].trajectories)
                     /\ ListedWith(r) \subseteq learned
                     /\ ListedWith(r) \intersect Range(buffer["agent"]) = {}
  /\ \A r \in Runs, job \in jobs["agent"] : ListedWith(r) \intersect Range(job.ids) = {}
  /\ \A q, r \in Runs : ListedWith(q) \intersect ListedWith(r) # {} => q = r

(* The run of the last preparation. *)
Latest == IF ready = {} THEN run - 1 ELSE run

(* A job is of the run of the last preparation, but for ids that came too late: of the agent's    *)
(* batches only those without any are written.                                                   *)
OnTime ==
  /\ \A s \in Savers : \A job \in jobs[s] :
       /\ ready = {} \/ ready = Savers
       /\ Latest \in Runs /\ enabled[Latest]
       /\ \A k \in Range(job.ids) :
            \/ k \in TasksOf(Latest) /\ (s = "agent" => k \in stored)
            \/ s = "agent" /\ job.at = "documents" /\ k \in LateBefore(Latest)
  /\ \A r \in Runs : ListedWith(r) \subseteq TasksOf(r)

InJob(s, k, step) == \E job \in jobs[s] : job.at = step /\ k \in Range(job.ids)

(* What is in the database is what was handed over, of the right run, and listed with it. *)
Truthful ==
  \A k \in Ids :
    /\ documents[k].parts \subseteq {s \in Savers : k \in Handed(s)}
    /\ "agent" \notin documents[k].parts => documents[k].run = NoRun
    /\ \A r \in Runs : k \in TasksOf(r) =>
         /\ "agent" \in documents[k].parts => documents[k].run = r
         /\ "agent" \in documents[k].parts <=> InJob("agent", k, "info") \/ k \in ListedWith(r)

(* An id is handed over in time if it is not late, nor in the buffer with one that is. *)
InTime(s, k, r) == s = "agent" => k \notin late /\ LateBefore(r) = {}

Kept ==
  \A s \in Savers, r \in Runs : \A k \in TasksOf(r) :
    enabled[r] /\ k \in Handed(s) /\ InTime(s, k, r) =>
      k \in Range(buffer[s]) \/ InJob(s, k, "documents") \/ s \in documents[k].parts

SavingInv ==
  /\ SaverTypes /\ Progress /\ Prepared /\ Held /\ Listed
  /\ ~hurried => OnTime
  /\ ~hurried /\ connected => Truthful /\ Kept

-----------------------------------------------------------------------------
(* Sequences and the numbers of the tasks. *)

LEMMA RangeOfConcat ==
  ASSUME NEW S, NEW p \in Seq(S), NEW q \in Seq(S)
  PROVE  /\ p \o q \in Seq(S)
         /\ Range(p \o q) = Range(p) \union Range(q)
         /\ IsInjective(p) /\ IsInjective(q) /\ Range(p) \intersect Range(q) = {} => IsInjective(p \o q)
<1> DEFINE c == p \o q
           m == Len(p)
           n == Len(q)
<1>1. c \in Seq(S) /\ m \in Nat /\ n \in Nat /\ DOMAIN p = 1..m /\ DOMAIN q = 1..n /\ DOMAIN c = 1..m + n
  BY ConcatProperties, LenProperties
<1>2. \A i \in 1..m + n : c[i] = IF i <= m THEN p[i] ELSE q[i - m]
  BY ConcatProperties
<1> HIDE DEF c, m, n
<1>3. /\ \A i \in 1..m : i \in 1..m + n /\ c[i] = p[i]
      /\ \A i \in 1..n : m + i \in 1..m + n /\ c[m + i] = q[i]
      /\ \A i \in 1..m + n : i \in 1..m \/ (i - m \in 1..n /\ c[i] = q[i - m])
  <2>1. \A i \in 1..m : i \in 1..m + n /\ c[i] = p[i]
    BY <1>1, <1>2
  <2>2. ASSUME NEW i \in 1..n PROVE m + i \in 1..m + n /\ c[m + i] = q[i]
    <3>1. m + i \in 1..m + n /\ ~(m + i <= m) /\ (m + i) - m = i
      BY <1>1
    <3> QED BY <1>2, <3>1
  <2>3. \A i \in 1..m + n : i \in 1..m \/ (i - m \in 1..n /\ c[i] = q[i - m])
    BY <1>1, <1>2
  <2> QED BY <2>1, <2>2, <2>3
<1>4. Range(c) = Range(p) \union Range(q)
  <2>1. Range(c) \subseteq Range(p) \union Range(q)
    BY <1>1, <1>3 DEF Range
  <2>2. Range(p) \subseteq Range(c) /\ Range(q) \subseteq Range(c)
    <3>1. \A i \in DOMAIN p : i \in DOMAIN c /\ c[i] = p[i]
      BY <1>1, <1>3
    <3>2. \A i \in DOMAIN q : m + i \in DOMAIN c /\ c[m + i] = q[i]
      BY <1>1, <1>3
    <3>3. Range(p) \subseteq Range(c)
      BY <3>1 DEF Range
    <3>4. Range(q) \subseteq Range(c)
      BY <3>2 DEF Range
    <3> QED BY <3>3, <3>4
  <2> QED BY <2>1, <2>2
<1>5. ASSUME IsInjective(p), IsInjective(q), Range(p) \intersect Range(q) = {} PROVE IsInjective(c)
  <2> SUFFICES ASSUME NEW i \in 1..m + n, NEW j \in 1..m + n, c[i] = c[j] PROVE i = j
    BY <1>1 DEF IsInjective
  <2>1. CASE i \in 1..m /\ j \in 1..m
    BY <1>1, <1>3, <1>5, <2>1 DEF IsInjective
  <2>2. CASE i \in 1..m /\ j \notin 1..m
    BY <1>1, <1>3, <1>5, <2>2 DEF Range
  <2>3. CASE i \notin 1..m /\ j \in 1..m
    BY <1>1, <1>3, <1>5, <2>3 DEF Range
  <2>4. CASE i \notin 1..m /\ j \notin 1..m
    <3>1. /\ i - m \in DOMAIN q /\ j - m \in DOMAIN q /\ c[i] = q[i - m] /\ c[j] = q[j - m]
          /\ i \in Int /\ j \in Int /\ m \in Int
      BY <1>1, <1>3, <2>4
    <3>2. i - m = j - m
      BY <1>5, <3>1 DEF IsInjective
    <3> QED BY <3>1, <3>2
  <2> QED BY <2>1, <2>2, <2>3, <2>4
<1> QED BY <1>1, <1>4, <1>5 DEF c

LEMMA NoIds == Range(<<>>) = {} /\ IsInjective(<<>>) /\ Len(<<>>) = 0 /\ \A S : <<>> \in Seq(S)
BY DEF Range, IsInjective

LEMMA SomeIds == ASSUME NEW S, NEW q \in Seq(S) PROVE (q = <<>> <=> Range(q) = {}) /\ Range(q) \subseteq S
<1>1. Len(q) \in Nat /\ q \in [1..Len(q) -> S] /\ DOMAIN q = 1..Len(q) /\ (q = <<>> <=> Len(q) = 0)
  BY LenProperties, EmptySeq
<1>2. Range(q) \subseteq S
  BY <1>1 DEF Range
<1>3. q # <<>> => q[1] \in Range(q)
  BY <1>1 DEF Range
<1>4. q = <<>> => Range(q) = {}
  BY NoIds
<1> QED BY <1>2, <1>3, <1>4

LEMMA TasksAre ==
         /\ Runs = 1..Len(RunEnds) /\ Len(RunEnds) \in Nat \ {0} /\ NoRun \notin Runs
         /\ \A r \in Runs : TasksOf(r) \subseteq Ids
         /\ \A q, r \in Runs : TasksOf(q) \intersect TasksOf(r) # {} => q = r
         /\ Ids \subseteq Nat
<1> DEFINE n == Len(RunEnds)
<1>1. n \in Nat /\ n # 0 /\ Runs = 1..n /\ RunEnds \in [1..n -> Nat]
  BY LenProperties, EmptySeq, SavingAssumption DEF Runs
<1>2. \A q, r \in 1..n : q <= r => RunEnds[q] <= RunEnds[r]
  BY <1>1, SavingAssumption
<1> HIDE DEF n
<1>3. \A r \in 1..n : RunEnds[r] \in Nat /\ RunEnds[r] <= RunEnds[n] /\ (r # 1 => r - 1 \in 1..n)
  BY <1>1, <1>2
<1>4. ASSUME NEW r \in 1..n PROVE TasksOf(r) \subseteq Ids
  BY <1>1, <1>3 DEF TasksOf, Ids, n
<1>5. ASSUME NEW q \in 1..n, NEW r \in 1..n, q < r PROVE TasksOf(q) \intersect TasksOf(r) = {}
  <2>1. r # 1 /\ r - 1 \in 1..n /\ q <= r - 1
    BY <1>1, <1>5
  <2>2. RunEnds[q] <= RunEnds[r - 1] /\ RunEnds[q] \in Nat /\ RunEnds[r - 1] \in Nat
    BY <1>2, <1>3, <2>1
  <2> QED BY <1>1, <1>3, <2>1, <2>2 DEF TasksOf
<1>6. ASSUME NEW q \in 1..n, NEW r \in 1..n, TasksOf(q) \intersect TasksOf(r) # {} PROVE q = r
  BY <1>1, <1>5, <1>6
<1> QED BY <1>1, <1>4, <1>6, SavingAssumption DEF n, NoRun, Ids

LEMMA SaversAre == Savers = {"agent", "collector", "generator"}
BY DEF Savers

-----------------------------------------------------------------------------
(* The initial states and the steps. *)

LEMMA SavingInitInv == ASSUME SavingInit PROVE SavingInv
<1>1. 1 \in Runs /\ NoRun \notin Runs
  BY TasksAre
<1>2. Range(<<>>) = {} /\ IsInjective(<<>>) /\ Len(<<>>) = 0 /\ <<>> \in Seq(Ids)
  BY NoIds
<1>3. SaverTypes
  BY <1>1, <1>2 DEF SavingInit, SaverTypes
<1>4. Progress
  <2>1. \A r \in Runs : ~(r < 1)
    BY TasksAre
  <2> QED BY <2>1 DEF SavingInit, Progress, Ended, Savers
<1>5. Prepared
  <2>1. \A r \in Runs : ~(r < 1)
    BY TasksAre
  <2> QED BY <1>2, <2>1 DEF SavingInit, Prepared
<1>6. Held
  BY <1>2, SavingAssumption DEF SavingInit, Held, HeldBy
<1>7. Listed /\ OnTime
  BY <1>2 DEF SavingInit, Listed, ListedWith, OnTime, Savers
<1>8. Truthful
  BY <1>2, SaversAre DEF SavingInit, Truthful, InJob, ListedWith
<1>9. Kept
  BY DEF SavingInit, Kept, Handed
<1> QED BY <1>3, <1>4, <1>5, <1>6, <1>7, <1>8, <1>9 DEF SavingInv

LEMMA PrepareRunInv == ASSUME SavingInv, NEW s \in Savers, PrepareRun(s) PROVE SavingInv'
<1>1. /\ s \notin ready /\ flushed = {} /\ ready' = ready \union {s} /\ ready # Savers
      /\ UNCHANGED <<enabled, connected, run, generated, succeeded, failed, learned, late, buffer, jobs, flushed, documents>>
      /\ \A r \in Runs : runsInfo'[r].trajectories = runsInfo[r].trajectories
      /\ run \in Runs /\ stored' \subseteq stored /\ SaverTypes /\ Progress /\ Prepared
  BY DEF SavingInv, SaverTypes, PrepareRun, tasksVars
<1>2. \A r : LateBefore(r)' = LateBefore(r)
  BY <1>1 DEF LateBefore
<1>3. SaverTypes'
  <2>1. runsInfo' \in [Runs -> [exists : BOOLEAN, trajectories : Seq(Ids)]]
    BY DEF SavingInv, SaverTypes, PrepareRun
  <2>2. disabled' \in [Savers -> BOOLEAN] /\ runCode' \in [Savers -> Runs \union {NoRun}]
    BY DEF SavingInv, SaverTypes, PrepareRun
  <2>3. hurried' \in BOOLEAN
    BY DEF PrepareRun
  <2> QED BY <1>1, <2>1, <2>2, <2>3 DEF SaverTypes
<1>4. Progress'
  <2>1. TasksOf(run) \intersect succeeded = {}
    BY <1>1, TasksAre DEF Progress, Ended
  <2>2. IF s = "collector" THEN stored' = {} ELSE stored' = stored
    BY DEF PrepareRun
  <2>3. \A r \in Runs : TasksOf(r) \intersect generated # {} => r < run
    BY <1>1, TasksAre DEF Progress
  <2> QED BY <1>1, <2>1, <2>2, <2>3 DEF Progress, Ended
<1>5. Prepared'
  <2>1. disabled'[s] = ~enabled[run] /\ (enabled[run] => runCode'[s] = run)
    BY <1>1 DEF PrepareRun, SaverTypes
  <2>2. \A p \in ready : disabled'[p] = disabled[p] /\ runCode'[p] = runCode[p]
    BY <1>1 DEF PrepareRun, SaverTypes
  <2>3. \A r \in Runs : runsInfo[r].exists => runsInfo'[r].exists
    BY <1>1 DEF PrepareRun, SaverTypes
  <2>4. s = "agent" /\ enabled[run] /\ connected => runsInfo'[run].exists
    BY <1>1 DEF PrepareRun, SaverTypes
  <2>5. \A p \in ready' : disabled'[p] = ~enabled'[run'] /\ (enabled'[run'] => runCode'[p] = run')
    BY <1>1, <2>1, <2>2 DEF Prepared
  <2>6. connected' => \A r \in Runs : enabled'[r] /\ (r < run' \/ (r = run' /\ "agent" \in ready'))
          => runsInfo'[r].exists
    BY <1>1, <2>3, <2>4 DEF Prepared
  <2>7. \A p \in Savers : \A k \in Range(buffer'[p]) : p = "agent" /\ k \in LateBefore(run)'
    BY <1>1, <1>2 DEF Prepared
  <2> QED BY <1>1, <2>5, <2>6, <2>7 DEF Prepared
<1>6. \A p : Handed(p)' = Handed(p)
  BY <1>1 DEF Handed
<1>7. Held'
  BY <1>1, <1>6 DEF SavingInv, Held, HeldBy
<1>8. Listed' /\ \A r \in Runs : ListedWith(r)' = ListedWith(r)
  BY <1>1 DEF SavingInv, Listed, ListedWith
<1>9. ASSUME ~hurried' PROVE ~hurried /\ \A p \in Savers : jobs[p] = {} /\ jobs'[p] = {}
  BY <1>1, <1>9 DEF PrepareRun
<1>10. ~hurried' => OnTime'
  BY <1>1, <1>8, <1>9 DEF SavingInv, OnTime
<1>11. ~hurried' /\ connected' => Truthful' /\ Kept'
  <2> SUFFICES ASSUME ~hurried', connected' PROVE Truthful' /\ Kept'
    OBVIOUS
  <2>1. Truthful /\ Kept
    BY <1>1, <1>9 DEF SavingInv
  <2>2. Truthful'
    BY <1>1, <1>6, <1>8, <2>1 DEF Truthful, InJob
  <2>3. Kept'
    BY <1>1, <1>2, <1>6, <2>1 DEF Kept, InJob, InTime
  <2> QED BY <2>2, <2>3
<1> QED BY <1>3, <1>4, <1>5, <1>7, <1>8, <1>10, <1>11 DEF SavingInv

LEMMA NextRunInv == ASSUME SavingInv, NextRun PROVE SavingInv'
<1>1. /\ flushed = Savers /\ run' = run + 1 /\ ready' = {} /\ flushed' = {} /\ ready = Savers
      /\ UNCHANGED <<enabled, connected, generated, succeeded, failed, stored, learned, late, disabled, runCode,
                     buffer, jobs, hurried, documents, runsInfo>>
      /\ run \in Runs /\ run + 1 \in Runs /\ run + 1 # 1 /\ (run + 1) - 1 = run
      /\ TasksOf(run) \subseteq Ended /\ SaverTypes /\ Progress /\ Prepared
  <2>1. run \in Runs /\ run < Len(RunEnds) /\ flushed = Savers /\ "agent" \in flushed /\ SaverTypes /\ Progress /\ Prepared
    BY SaversAre DEF SavingInv, SaverTypes, NextRun
  <2>2. run + 1 \in Runs /\ run + 1 # 1 /\ (run + 1) - 1 = run
    BY <2>1, TasksAre
  <2> QED BY <2>1, <2>2 DEF NextRun, Progress, tasksVars, dbVars
<1>2. \A r \in Runs : r < run + 1 <=> r < run \/ r = run
  BY <1>1, TasksAre
<1>3. \A r : LateBefore(r)' = LateBefore(r)
  BY <1>1 DEF LateBefore
<1>4. SaverTypes'
  BY <1>1 DEF SaverTypes
<1>5. Progress'
  <2>1. \A r \in Runs : TasksOf(r) \intersect generated # {} => r < run + 1
    BY <1>1, <1>2 DEF Progress
  <2>2. stored \subseteq TasksOf(run)
    BY <1>1, SaversAre DEF Progress
  <2>3. {} # Savers
    BY SaversAre
  <2> QED BY <1>1, <1>2, <2>1, <2>2, <2>3 DEF Progress, Ended
<1>6. Prepared'
  <2>1. \A s \in Savers : disabled[s] = ~enabled[run] /\ (enabled[run] => runCode[s] = run)
    BY <1>1 DEF Prepared
  <2>2. connected => \A r \in Runs : enabled[r] /\ r < run + 1 => runsInfo[r].exists
    BY <1>1, <1>2, SaversAre DEF Prepared
  <2>3. ~(run + 1 < run + 1)
    BY <1>1, TasksAre
  <2>4. \A s \in Savers : \A k \in Range(buffer[s]) : s = "agent" /\ k \in LateBefore(run + 1)
    BY <1>1, <1>2 DEF Prepared, LateBefore
  <2> QED BY <1>1, <1>3, <2>1, <2>2, <2>3, <2>4 DEF Prepared
<1>7. Held'
  BY <1>1 DEF SavingInv, Held, HeldBy, Handed
<1>8. Listed'
  BY <1>1 DEF SavingInv, Listed, ListedWith
<1>9. ~hurried' => OnTime'
  <2>1. Latest = run /\ Latest' = run
    BY <1>1, SaversAre DEF Latest
  <2> QED BY <1>1, <1>3, <2>1 DEF SavingInv, OnTime, ListedWith
<1>10. ~hurried' /\ connected' => Truthful' /\ Kept'
  BY <1>1, <1>3 DEF SavingInv, Truthful, Kept, InJob, InTime, Handed, ListedWith
<1> QED BY <1>4, <1>5, <1>6, <1>7, <1>8, <1>9, <1>10 DEF SavingInv

(* What push_trajectory does to the buffer and the jobs of its saver. *)
LEMMA PushIs ==
  ASSUME SaverTypes, Held, NEW s \in Savers, NEW k \in Ids, Push(s, k)
  PROVE  /\ UNCHANGED <<disabled, runCode, flushed>>
         /\ buffer' \in [Savers -> Seq(Ids)] /\ jobs' \in [Savers -> SUBSET Job]
         /\ \A p \in Savers \ {s} : buffer'[p] = buffer[p] /\ jobs'[p] = jobs[p]
         /\ \/ disabled[s] /\ buffer'[s] = buffer[s] /\ jobs'[s] = jobs[s]
            \/ /\ ~disabled[s] /\ Len(buffer[s]) + 1 < SaveInterval
               /\ buffer'[s] = Append(buffer[s], k) /\ jobs'[s] = jobs[s]
            \/ /\ ~disabled[s] /\ buffer'[s] = <<>>
               /\ jobs'[s] = jobs[s] \union {[ids |-> Append(buffer[s], k), at |-> "documents"]}
<1> DEFINE longer == Append(buffer[s], k)
<1>1. longer \in Seq(Ids) /\ Len(longer) = Len(buffer[s]) + 1 /\ Len(buffer[s]) \in Nat /\ Len(buffer[s]) < SaveInterval
      /\ SaveInterval \in Nat /\ buffer[s] \in Seq(Ids) /\ <<>> \in Seq(Ids)
  BY RangeOfAppend, LenProperties, NoIds, SavingAssumption DEF SaverTypes, Held, HeldBy
<1>2. \/ disabled[s] /\ UNCHANGED <<buffer, jobs>>
      \/ /\ ~disabled[s] /\ Len(longer) # SaveInterval
         /\ buffer' = [buffer EXCEPT ![s] = longer] /\ UNCHANGED jobs
      \/ /\ ~disabled[s] /\ buffer' = [buffer EXCEPT ![s] = <<>>]
         /\ jobs' = [jobs EXCEPT ![s] = @ \union {[ids |-> longer, at |-> "documents"]}]
  BY DEF Push
<1>3. [ids |-> longer, at |-> "documents"] \in Job
  BY <1>1 DEF Job
<1>4. buffer \in [Savers -> Seq(Ids)] /\ jobs \in [Savers -> SUBSET Job] /\ UNCHANGED <<disabled, runCode, flushed>>
  BY DEF SaverTypes, Push
<1> HIDE DEF longer
<1>5. CASE disabled[s] /\ UNCHANGED <<buffer, jobs>>
  BY <1>4, <1>5
<1>6. CASE /\ ~disabled[s] /\ Len(longer) # SaveInterval
           /\ buffer' = [buffer EXCEPT ![s] = longer] /\ UNCHANGED jobs
  <2>1. Len(buffer[s]) + 1 < SaveInterval
    BY <1>1, <1>6
  <2> QED BY <1>1, <1>4, <1>6, <2>1 DEF longer
<1>7. CASE /\ ~disabled[s] /\ buffer' = [buffer EXCEPT ![s] = <<>>]
           /\ jobs' = [jobs EXCEPT ![s] = @ \union {[ids |-> longer, at |-> "documents"]}]
  BY <1>1, <1>3, <1>4, <1>7 DEF longer
<1> QED BY <1>2, <1>5, <1>6, <1>7
(* A task is known to one more saver; an agent that has flushed its buffer notes that it is late. *)
LEMMA HandedInv ==
  ASSUME SavingInv, ready = Savers, NEW s \in Savers, NEW k \in TasksOf(run), k \notin Handed(s), Push(s, k),
         UNCHANGED <<enabled, connected, run, ready, hurried, documents, runsInfo>>,
         generated' \subseteq Ids, Progress', learned \subseteq learned', late \subseteq late', stored \subseteq stored',
         s = "agent" => k \in stored, s \in flushed => s = "agent" /\ k \in late',
         \A p \in Savers : Handed(p)' = IF p = s THEN Handed(p) \union {k} ELSE Handed(p)
  PROVE  SavingInv'
<1> DEFINE longer == Append(buffer[s], k)
           new == [ids |-> longer, at |-> "documents"]
<1>1. SaverTypes /\ Prepared /\ Held /\ Listed /\ run \in Runs /\ k \in Ids
  BY TasksAre DEF SavingInv, SaverTypes
<1>2. /\ UNCHANGED <<disabled, runCode, flushed>>
      /\ buffer' \in [Savers -> Seq(Ids)] /\ jobs' \in [Savers -> SUBSET Job]
      /\ \A p \in Savers \ {s} : buffer'[p] = buffer[p] /\ jobs'[p] = jobs[p]
      /\ \/ disabled[s] /\ buffer'[s] = buffer[s] /\ jobs'[s] = jobs[s]
         \/ ~disabled[s] /\ Len(buffer[s]) + 1 < SaveInterval /\ buffer'[s] = longer /\ jobs'[s] = jobs[s]
         \/ ~disabled[s] /\ buffer'[s] = <<>> /\ jobs'[s] = jobs[s] \union {new}
  BY <1>1, PushIs
<1>3. HeldBy(s) /\ k \notin Range(buffer[s]) /\ Range(<<>>) = {} /\ IsInjective(<<>>) /\ Len(<<>>) = 0
  BY <1>1, NoIds DEF Held, HeldBy
<1>4. /\ Range(longer) = Range(buffer[s]) \union {k} /\ IsInjective(longer) /\ Len(longer) = Len(buffer[s]) + 1
      /\ new.ids = longer /\ new.at = "documents"
  BY <1>1, <1>3, RangeOfAppend DEF SaverTypes, HeldBy
<1> HIDE DEF longer, new
<1>5. disabled[s] = ~enabled[run]
  BY <1>1 DEF Prepared
<1>6. \A r : LateBefore(r) \subseteq LateBefore(r)'
  BY DEF LateBefore
<1>7. SaverTypes'
  BY <1>1, <1>2 DEF SaverTypes
<1>8. Prepared'
  <2> DEFINE P(p, l) == \/ enabled[run] /\ l \in TasksOf(run) /\ (p \in flushed => p = "agent" /\ l \in late')
                        \/ p = "agent" /\ l \in LateBefore(run)'
  <2>1. \A p \in Savers : \A l \in Range(buffer[p]) : P(p, l)
    BY <1>1, <1>6 DEF Prepared
  <2>2. ~disabled[s] => P(s, k)
    BY <1>5
  <2> HIDE DEF P
  <2>3. \A l \in Range(buffer'[s]) : P(s, l)
    BY <1>2, <1>3, <1>4, <2>1, <2>2
  <2>4. \A p \in Savers : \A l \in Range(buffer'[p]) : P(p, l)
    BY <1>2, <2>1, <2>3
  <2>5. {} # Savers
    BY SaversAre
  <2> QED BY <1>1, <1>2, <2>4, <2>5 DEF Prepared, P
<1>9. Held'
  <2>1. HeldBy(s)'
    <3>1. Handed(s)' = Handed(s) \union {k}
      OBVIOUS
    <3>2. Len(buffer'[s]) < SaveInterval /\ IsInjective(buffer'[s]) /\ Range(buffer'[s]) \subseteq Range(buffer[s]) \union {k}
      BY <1>2, <1>3, <1>4, SavingAssumption DEF HeldBy
    <3>3. \A job \in jobs[s] : k \notin Range(job.ids) /\ Range(job.ids) \intersect Range(buffer'[s]) = {}
      BY <1>3, <3>2 DEF HeldBy
    <3>4. CASE jobs'[s] = jobs[s]
      BY <1>3, <3>1, <3>2, <3>3, <3>4 DEF HeldBy
    <3>5. CASE buffer'[s] = <<>> /\ jobs'[s] = jobs[s] \union {new}
      <4>1. \A job \in jobs[s] : Range(job.ids) \intersect Range(new.ids) = {}
        BY <1>3, <1>4, <3>3 DEF HeldBy
      <4>2. IsInjective(new.ids) /\ Range(new.ids) \subseteq Handed(s)' /\ Range(new.ids) \intersect Range(buffer'[s]) = {}
        BY <1>3, <1>4, <3>1, <3>5 DEF HeldBy
      <4>3. \A job \in jobs'[s] : /\ IsInjective(job.ids) /\ Range(job.ids) \subseteq Handed(s)'
                                  /\ Range(job.ids) \intersect Range(buffer'[s]) = {}
                                  /\ job.at = "info" => s = "agent"
        BY <1>3, <1>4, <3>1, <3>3, <3>5, <4>2 DEF HeldBy
      <4>4. \A job, other \in jobs'[s] : Range(job.ids) \intersect Range(other.ids) # {} => job = other
        BY <1>3, <3>5, <4>1 DEF HeldBy
      <4> QED BY <3>1, <3>2, <1>3, <4>3, <4>4 DEF HeldBy
    <3> QED BY <1>2, <3>4, <3>5
  <2>2. ASSUME NEW p \in Savers \ {s} PROVE HeldBy(p)'
    <3>1. Handed(p)' = Handed(p) /\ buffer'[p] = buffer[p] /\ jobs'[p] = jobs[p] /\ HeldBy(p)
      BY <1>1, <1>2 DEF Held
    <3> QED BY <3>1 DEF HeldBy
  <2> QED BY <2>1, <2>2 DEF Held
<1>10. \A r : ListedWith(r)' = ListedWith(r)
  BY DEF ListedWith
<1>11. Listed'
  <2>1. CASE s # "agent"
    BY <1>1, <1>2, <1>10, <2>1, SaversAre DEF Listed
  <2>2. CASE s = "agent"
    <3>1. \A r \in Runs : k \notin ListedWith(r)
      BY <1>1, <2>2 DEF Listed, Handed
    <3>2. \A r \in Runs : ListedWith(r) \intersect Range(longer) = {}
      BY <1>1, <1>4, <2>2, <3>1 DEF Listed
    <3>3. \A r \in Runs : ListedWith(r) \intersect Range(buffer'["agent"]) = {}
      BY <1>1, <1>2, <1>3, <2>2, <3>2 DEF Listed
    <3>4. \A r \in Runs, job \in jobs'["agent"] : ListedWith(r) \intersect Range(job.ids) = {}
      BY <1>1, <1>2, <1>4, <2>2, <3>2 DEF Listed
    <3> QED BY <1>1, <1>10, <3>3, <3>4 DEF Listed
  <2> QED BY <2>1, <2>2
<1>12. ~hurried' => OnTime'
  <2> SUFFICES ASSUME ~hurried' PROVE OnTime'
    OBVIOUS
  <2> DEFINE P(p, job) ==
        \A l \in Range(job.ids) : \/ l \in TasksOf(run) /\ (p = "agent" => l \in stored')
                                  \/ p = "agent" /\ job.at = "documents" /\ l \in LateBefore(run)'
  <2>1. OnTime /\ Latest = run /\ Latest' = run /\ run' = run
    BY SaversAre DEF SavingInv, Latest
  <2>2. ~disabled[s] => P(s, new)
    <3>1. \A l \in Range(buffer[s]) : l \in TasksOf(run) \/ (s = "agent" /\ l \in LateBefore(run)')
      BY <1>1, <1>6 DEF Prepared
    <3>2. s = "agent" => Range(buffer[s]) \intersect TasksOf(run) \subseteq stored
      BY <1>3 DEF HeldBy, Handed, Progress, SavingInv
    <3> QED BY <1>4, <3>1, <3>2
  <2>3. \A p \in Savers : \A job \in jobs[p] : enabled[run] /\ P(p, job)
    BY <1>6, <2>1 DEF OnTime
  <2> HIDE DEF P
  <2>4. \A p \in Savers : \A job \in jobs'[p] : enabled[run] /\ P(p, job)
    BY <1>1, <1>2, <1>5, <2>2, <2>3 DEF SaverTypes
  <2>5. \A r \in Runs : ListedWith(r)' \subseteq TasksOf(r)
    BY <1>10, <2>1 DEF OnTime
  <2> QED BY <1>1, <2>1, <2>4, <2>5 DEF OnTime, P
<1>13. \A p \in Savers : \A l : InJob(p, l, "info")' <=> InJob(p, l, "info")
  BY <1>2, <1>4 DEF InJob
<1>14. ~hurried' /\ connected' => Truthful'
  <2> SUFFICES ASSUME ~hurried', connected' PROVE Truthful'
    OBVIOUS
  <2>1. Truthful /\ \A p \in Savers : Handed(p) \subseteq Handed(p)'
    BY DEF SavingInv
  <2> QED BY <1>10, <1>13, <2>1, SaversAre DEF Truthful
<1>15. ~hurried' /\ connected' => Kept'
  <2> SUFFICES ASSUME ~hurried', connected', NEW p \in Savers, NEW r \in Runs, NEW l \in TasksOf(r),
                      enabled[r], l \in Handed(p)', InTime(p, l, r)'
               PROVE  l \in Range(buffer'[p]) \/ InJob(p, l, "documents")' \/ p \in documents'[l].parts
    BY DEF Kept
  <2>1. Kept /\ jobs[p] \subseteq jobs'[p] /\ InTime(p, l, r)
    BY <1>2, <1>6 DEF SavingInv, InTime
  <2>2. InJob(p, l, "documents") => InJob(p, l, "documents")'
    BY <2>1 DEF InJob
  <2>3. new \in jobs'[s] /\ l \in Range(longer) => InJob(s, l, "documents")'
    BY <1>4 DEF InJob
  <2>4. CASE l \in Handed(p)
    <3>1. CASE l \notin Range(buffer[p])
      BY <2>1, <2>2, <2>4, <3>1 DEF Kept
    <3>2. CASE l \in Range(buffer[p])
      BY <1>2, <1>4, <2>3, <3>2
    <3> QED BY <3>1, <3>2
  <2>5. CASE l \notin Handed(p)
    <3>1. p = s /\ l = k
      BY <2>5
    <3>2. r = run
      BY <1>1, <3>1, TasksAre
    <3>3. ~disabled[s]
      BY <1>5, <3>2
    <3> QED BY <1>2, <1>4, <2>3, <3>1, <3>3
  <2> QED BY <2>4, <2>5
<1> QED BY <1>7, <1>8, <1>9, <1>11, <1>12, <1>14, <1>15 DEF SavingInv

LEMMA GenerateTaskInv == ASSUME SavingInv, NEW k \in Ids, GenerateTask(k) PROVE SavingInv'
<1>1. /\ ready = Savers /\ flushed = {} /\ k \in TasksOf(run) /\ k \notin generated
      /\ generated' = generated \union {k} /\ Push("generator", k)
      /\ UNCHANGED <<enabled, connected, run, ready, succeeded, failed, stored, learned, late, hurried, documents, runsInfo>>
      /\ UNCHANGED flushed /\ SaverTypes /\ Progress /\ run \in Runs /\ "generator" \in Savers
  BY SaversAre DEF GenerateTask, SavingInv, SaverTypes, dbVars, Push, Running
<1>2. Progress'
  <2>1. \A r \in Runs : TasksOf(r) \intersect generated' # {} => r < run \/ r = run
    <3> SUFFICES ASSUME NEW r \in Runs, TasksOf(r) \intersect generated' # {} PROVE r < run \/ r = run
      OBVIOUS
    <3>1. CASE k \in TasksOf(r)
      BY <1>1, <3>1, TasksAre
    <3>2. CASE k \notin TasksOf(r)
      BY <1>1, <3>2 DEF Progress
    <3> QED BY <3>1, <3>2
  <2> QED BY <1>1, <2>1 DEF Progress, Ended
<1>3. generated' \subseteq Ids
  BY <1>1 DEF SaverTypes
<1>4. \A p \in Savers : Handed(p)' = IF p = "generator" THEN Handed(p) \union {k} ELSE Handed(p)
  BY <1>1 DEF Handed
<1>5. k \notin Handed("generator")
  BY <1>1 DEF Handed
<1> QED BY <1>1, <1>2, <1>3, <1>4, <1>5, HandedInv

LEMMA SucceedTaskInv == ASSUME SavingInv, NEW k \in Ids, SucceedTask(k) PROVE SavingInv'
<1>1. /\ ready = Savers /\ flushed = {} /\ k \in TasksOf(run) /\ k \in generated /\ k \notin succeeded
      /\ succeeded' = succeeded \union {k} /\ stored' = stored \union {k} /\ Push("collector", k) /\ UNCHANGED flushed
      /\ UNCHANGED <<enabled, connected, run, ready, generated, failed, learned, late, hurried, documents, runsInfo>>
      /\ SaverTypes /\ Progress /\ run \in Runs /\ "collector" \in Savers
  BY SaversAre DEF SucceedTask, InExecution, SavingInv, SaverTypes, dbVars, Push, Running
<1>2. Progress'
  BY <1>1 DEF Progress, Ended
<1>3. generated' \subseteq Ids
  BY <1>1 DEF SaverTypes
<1>4. \A p \in Savers : Handed(p)' = IF p = "collector" THEN Handed(p) \union {k} ELSE Handed(p)
  BY <1>1, SaversAre DEF Handed
<1>5. k \notin Handed("collector")
  BY <1>1 DEF Handed
<1> QED BY <1>1, <1>2, <1>3, <1>4, <1>5, HandedInv

LEMMA ObserveTrajectoryInv == ASSUME SavingInv, NEW k \in Ids, ObserveTrajectory(k) PROVE SavingInv'
<1>1. /\ ready = Savers /\ k \in stored /\ k \notin learned /\ learned' = learned \union {k}
      /\ late' = (IF "agent" \in flushed THEN late \union {k} ELSE late) /\ Push("agent", k) /\ UNCHANGED flushed
      /\ UNCHANGED <<enabled, connected, run, ready, generated, succeeded, failed, stored, hurried, documents, runsInfo>>
      /\ SaverTypes /\ Progress /\ run \in Runs /\ {"agent", "collector"} \subseteq Savers
  BY SaversAre DEF ObserveTrajectory, SavingInv, SaverTypes, tasksVars, dbVars, Push
<1>2. k \in TasksOf(run) /\ k \in succeeded
  BY <1>1 DEF Progress
<1>3. Progress'
  BY <1>1, <1>2 DEF Progress, Ended
<1>4. generated' \subseteq Ids /\ late \subseteq late' /\ ("agent" \in flushed => k \in late')
  BY <1>1 DEF SaverTypes
<1>5. \A p \in Savers : Handed(p)' = IF p = "agent" THEN Handed(p) \union {k} ELSE Handed(p)
  BY <1>1 DEF Handed
<1>6. k \notin Handed("agent")
  BY <1>1 DEF Handed
<1> QED BY <1>1, <1>2, <1>3, <1>4, <1>5, <1>6, HandedInv

(* What no step but those of the tasks and of the database can disturb. *)
LEMMA SavingSameInv ==
  ASSUME SavingInv, Progress',
         UNCHANGED <<enabled, connected, run, ready, generated, succeeded, stored, learned, late, saverVars, hurried, dbVars>>
  PROVE  SavingInv'
<1>1. UNCHANGED <<enabled, connected, run, ready, generated, succeeded, stored, learned, late, disabled, runCode, buffer,
                  jobs, flushed, hurried, documents, runsInfo>>
  BY DEF saverVars, dbVars
<1>2. SaverTypes' /\ Prepared'
  BY <1>1 DEF SavingInv, SaverTypes, Prepared, LateBefore
<1>3. Held' /\ Listed'
  BY <1>1 DEF SavingInv, Held, HeldBy, Handed, Listed, ListedWith
<1>4. ~hurried' => OnTime'
  BY <1>1 DEF SavingInv, OnTime, Latest, LateBefore, ListedWith
<1>5. ~hurried' /\ connected' => Truthful' /\ Kept'
  BY <1>1 DEF SavingInv, Truthful, Kept, InTime, InJob, LateBefore, Handed, ListedWith
<1> QED BY <1>2, <1>3, <1>4, <1>5 DEF SavingInv

LEMMA FailTaskInv == ASSUME SavingInv, NEW k \in Ids, FailTask(k) PROVE SavingInv'
<1>1. /\ k \in generated /\ failed' = failed \union {k} /\ UNCHANGED flushed
      /\ UNCHANGED <<enabled, connected, run, ready, generated, succeeded, stored, learned, late, saverVars, hurried, dbVars>>
  BY DEF FailTask, InExecution, saverVars
<1>2. Progress'
  BY <1>1 DEF SavingInv, Progress, Ended
<1> QED BY <1>1, <1>2, SavingSameInv

LEMMA SavingStutterInv == ASSUME SavingInv, UNCHANGED savingVars PROVE SavingInv'
<1>1. /\ UNCHANGED <<failed, flushed>>
      /\ UNCHANGED <<enabled, connected, run, ready, generated, succeeded, stored, learned, late, saverVars, hurried, dbVars>>
  BY DEF savingVars, saverVars, tasksVars
<1>2. Progress'
  BY <1>1 DEF SavingInv, Progress, Ended
<1> QED BY <1>1, <1>2, SavingSameInv

-----------------------------------------------------------------------------
(* The database. *)

(* A job that is left when no run was prepared in a hurry is of the run whose code the saver has, *)
(* if it can be read; if it cannot, it has an id that came too late.                             *)
LEMMA JobOnTime ==
  ASSUME SavingInv, ~hurried, NEW s \in Savers, NEW job \in jobs[s]
  PROVE  /\ Latest \in Runs /\ ~disabled[s] /\ runCode[s] = Latest
         /\ connected => runsInfo[Latest].exists
         /\ s # "agent" \/ job.at = "info" \/ Range(job.ids) \subseteq stored => Range(job.ids) \subseteq TasksOf(Latest)
         /\ s = "agent" /\ job.at = "documents" /\ ~(Range(job.ids) \subseteq stored) =>
              LateBefore(Latest) # {} /\ \A k \in Range(job.ids) : k \in TasksOf(Latest) \/ k \in late
<1>1. /\ ready = {} \/ ready = Savers
      /\ Latest \in Runs /\ enabled[Latest]
      /\ \A k \in Range(job.ids) :
           \/ k \in TasksOf(Latest) /\ (s = "agent" => k \in stored)
           \/ s = "agent" /\ job.at = "documents" /\ k \in LateBefore(Latest)
      /\ Prepared /\ Progress /\ run \in Runs /\ {} # Savers /\ {"agent", "collector"} \subseteq Savers
  BY SaversAre DEF SavingInv, OnTime, SaverTypes
<1>2. stored \subseteq TasksOf(Latest) /\ ~disabled[s] /\ runCode[s] = Latest /\ (connected => runsInfo[Latest].exists)
  <2>1. CASE ready = {}
    <3>1. Latest = run - 1 /\ run # 1 /\ run - 1 < run
      BY <1>1, <2>1, TasksAre DEF Latest
    <3> QED BY <1>1, <2>1, <3>1 DEF Prepared, Progress
  <2>2. CASE ready = Savers
    <3>1. Latest = run
      BY <1>1, <2>2 DEF Latest
    <3> QED BY <1>1, <2>2, <3>1 DEF Prepared, Progress
  <2> QED BY <1>1, <2>1, <2>2
<1>3. \A k \in LateBefore(Latest) : k \in late
  BY DEF LateBefore
<1> QED BY <1>1, <1>2, <1>3

LEMMA PartsAre ==
  ASSUME SaverTypes, NEW s \in Savers, NEW ids \in Seq(Ids), SaveParts(s, ids)
  PROVE  /\ documents' \in [Ids -> [run : Runs \union {NoRun}, parts : SUBSET Savers]]
         /\ \A k \in Ids :
              /\ documents'[k].parts = IF k \in Range(ids) THEN documents[k].parts \union {s} ELSE documents[k].parts
              /\ documents'[k].run = IF s = "agent" /\ k \in Range(ids) THEN runCode[s] ELSE documents[k].run
<1>1. runCode[s] \in Runs \union {NoRun} /\ \A k \in Ids : documents[k] \in [run : Runs \union {NoRun}, parts : SUBSET Savers]
  BY DEF SaverTypes
<1>2. \A k \in Ids : documents'[k] =
         IF k \notin Range(ids) THEN documents[k]
         ELSE [run |-> IF s = "agent" THEN runCode[s] ELSE documents[k].run, parts |-> documents[k].parts \union {s}]
  BY DEF SaveParts
<1>3. documents' \in [Ids -> [run : Runs \union {NoRun}, parts : SUBSET Savers]]
  <2>1. \A k \in Ids : documents'[k] \in [run : Runs \union {NoRun}, parts : SUBSET Savers]
    <3> SUFFICES ASSUME NEW k \in Ids PROVE documents'[k] \in [run : Runs \union {NoRun}, parts : SUBSET Savers]
      OBVIOUS
    <3>1. documents[k].parts \union {s} \in SUBSET Savers /\ documents[k].run \in Runs \union {NoRun}
      BY <1>1
    <3>2. CASE k \in Range(ids)
      <4>1. documents'[k] = [run |-> IF s = "agent" THEN runCode[s] ELSE documents[k].run,
                             parts |-> documents[k].parts \union {s}]
        BY <1>2, <3>2
      <4> QED BY <1>1, <3>1, <4>1
    <3> QED BY <1>1, <1>2, <3>2
  <2> QED BY <2>1 DEF SaveParts
<1>4. ASSUME NEW k \in Ids
      PROVE  /\ documents'[k].parts = IF k \in Range(ids) THEN documents[k].parts \union {s} ELSE documents[k].parts
             /\ documents'[k].run = IF s = "agent" /\ k \in Range(ids) THEN runCode[s] ELSE documents[k].run
  <2>1. CASE k \in Range(ids)
    <3>1. documents'[k] = [run |-> IF s = "agent" THEN runCode[s] ELSE documents[k].run,
                           parts |-> documents[k].parts \union {s}]
      BY <1>2, <2>1
    <3>2. documents'[k].parts = documents[k].parts \union {s}
      BY <3>1
    <3>3. documents'[k].run = IF s = "agent" THEN runCode[s] ELSE documents[k].run
      BY <3>1
    <3> QED BY <2>1, <3>2, <3>3
  <2>2. CASE k \notin Range(ids)
    BY <1>2, <2>2
  <2> QED BY <2>1, <2>2
<1> QED BY <1>3, <1>4

LEMMA RunsInfoIs ==
  ASSUME SaverTypes, NEW ids \in Seq(Ids), PushToRunsInfo("agent", ids)
  PROVE  /\ runsInfo' \in [Runs -> [exists : BOOLEAN, trajectories : Seq(Ids)]]
         /\ \A r \in Runs :
              /\ runsInfo'[r].exists = runsInfo[r].exists
              /\ \/ ListedWith(r)' = ListedWith(r) /\ runsInfo'[r] = runsInfo[r]
                    /\ (r # runCode["agent"] \/ ~runsInfo[r].exists \/ r = NoRun)
                 \/ /\ r = runCode["agent"]
                    /\ ListedWith(r)' = ListedWith(r) \union Range(ids)
                    /\ IsInjective(runsInfo[r].trajectories) /\ IsInjective(ids) /\ ListedWith(r) \intersect Range(ids) = {}
                       => IsInjective(runsInfo'[r].trajectories)
<1> DEFINE c == runCode["agent"]
<1>1. c \in Runs \union {NoRun} /\ \A r \in Runs : runsInfo[r] \in [exists : BOOLEAN, trajectories : Seq(Ids)]
  BY SaversAre DEF SaverTypes
<1>2. CASE c # NoRun /\ runsInfo[c].exists
  <2> DEFINE q == runsInfo[c].trajectories
             l == q \o ids
  <2>1. c \in Runs /\ q \in Seq(Ids)
    BY <1>1, <1>2
  <2>2. /\ l \in Seq(Ids) /\ Range(l) = Range(q) \union Range(ids)
        /\ IsInjective(q) /\ IsInjective(ids) /\ Range(q) \intersect Range(ids) = {} => IsInjective(l)
    BY <2>1, RangeOfConcat
  <2>3. runsInfo' = [runsInfo EXCEPT ![c].trajectories = l]
    BY <1>2 DEF PushToRunsInfo
  <2> HIDE DEF l, c
  <2>4. /\ runsInfo'[c].trajectories = l /\ runsInfo'[c].exists = runsInfo[c].exists
        /\ \A r \in Runs : r # c => runsInfo'[r] = runsInfo[r]
        /\ runsInfo' \in [Runs -> [exists : BOOLEAN, trajectories : Seq(Ids)]]
    BY <1>1, <2>1, <2>2, <2>3 DEF SaverTypes
  <2> QED BY <2>1, <2>2, <2>4 DEF c, ListedWith
<1>3. CASE ~(c # NoRun /\ runsInfo[c].exists)
  <2>1. runsInfo' = runsInfo
    BY <1>3 DEF PushToRunsInfo
  <2> QED BY <1>3, <2>1 DEF SaverTypes, ListedWith
<1> QED BY <1>2, <1>3

(* Ids that were held are listed and are held no longer. *)
LEMMA ListedInv ==
  ASSUME SaverTypes, Listed, NEW ids \in Seq(Ids), IsInjective(ids), Range(ids) \subseteq learned,
         \A r \in Runs : ListedWith(r) \intersect Range(ids) = {},
         PushToRunsInfo("agent", ids), learned' = learned,
         Range(buffer'["agent"]) \subseteq Range(buffer["agent"]), Range(buffer'["agent"]) \intersect Range(ids) = {},
         jobs'["agent"] \subseteq jobs["agent"],
         \A job \in jobs'["agent"] : Range(job.ids) \intersect Range(ids) = {}
  PROVE  Listed'
<1> DEFINE old(r) == ListedWith(r)
           new(r) == ListedWith(r)'
<1>1. \A r \in Runs : /\ IsInjective(runsInfo'[r].trajectories)
                      /\ new(r) = old(r) \/ (r = runCode["agent"] /\ new(r) = old(r) \union Range(ids))
  BY RunsInfoIs DEF Listed
<1>2. \A r \in Runs : /\ old(r) \subseteq learned /\ old(r) \intersect Range(buffer["agent"]) = {}
                      /\ old(r) \intersect Range(ids) = {}
  BY DEF Listed
<1>3. \A r \in Runs, job \in jobs["agent"] : old(r) \intersect Range(job.ids) = {}
  BY DEF Listed
<1>4. \A q, r \in Runs : old(q) \intersect old(r) # {} => q = r
  BY DEF Listed
<1>5. \A q, r \in Runs : new(q) \intersect new(r) # {} => q = r
  BY <1>1, <1>2, <1>4
<1>6. \A r \in Runs : new(r) \subseteq learned /\ new(r) \intersect Range(buffer'["agent"]) = {}
  BY <1>1, <1>2
<1>7. \A r \in Runs, job \in jobs'["agent"] : new(r) \intersect Range(job.ids) = {}
  BY <1>1, <1>3
<1> QED BY <1>1, <1>5, <1>6, <1>7 DEF Listed

LEMMA SaveBulkTrajectoriesInv ==
  ASSUME SavingInv, NEW s \in Savers, NEW job \in jobs[s], SaveBulkTrajectories(s, job) PROVE SavingInv'
<1> DEFINE done == [job EXCEPT !.at = "info"]
<1>1. /\ SaverTypes /\ Held /\ Listed /\ job \in Job /\ job.at = "documents"
      /\ UNCHANGED <<enabled, connected, run, ready, generated, succeeded, failed, stored, learned, late, disabled,
                     runCode, buffer, flushed, hurried, runsInfo>>
  BY DEF SavingInv, SaverTypes, SaveBulkTrajectories, tasksVars
<1>2. done \in Job /\ done.ids = job.ids /\ done.at = "info" /\ job.ids \in Seq(Ids)
  BY <1>1 DEF Job
<1> HIDE DEF done
<1>3. \/ (disabled[s] \/ ~Readable(s, job.ids)) /\ documents' = documents /\ jobs' = [jobs EXCEPT ![s] = @ \ {job}]
      \/ /\ Readable(s, job.ids) /\ SaveParts(s, job.ids)
         /\ jobs' = [jobs EXCEPT ![s] = (@ \ {job}) \union (IF s = "agent" THEN {done} ELSE {})]
  BY DEF SaveBulkTrajectories, done
<1>4. /\ jobs' \in [Savers -> SUBSET Job]
      /\ \A p \in Savers : p # s => jobs'[p] = jobs[p]
      /\ jobs[s] \ {job} \subseteq jobs'[s] /\ jobs'[s] \subseteq (jobs[s] \ {job}) \union {done}
      /\ done \in jobs'[s] => s = "agent" \/ done \in jobs[s] \ {job}
  <2>1. jobs \in [Savers -> SUBSET Job]
    BY <1>1 DEF SaverTypes
  <2> QED BY <1>2, <1>3, <2>1
<1>5. SaverTypes'
  <2>1. documents' \in [Ids -> [run : Runs \union {NoRun}, parts : SUBSET Savers]]
    BY <1>1, <1>2, <1>3, PartsAre DEF SaverTypes
  <2> QED BY <1>1, <1>4, <2>1 DEF SaverTypes
<1>6. Progress' /\ Prepared'
  BY <1>1 DEF SavingInv, Progress, Ended, Prepared, LateBefore
<1>7. Held'
  <2>1. HeldBy(s)'
    <3>1. HeldBy(s) /\ Handed(s)' = Handed(s) /\ buffer'[s] = buffer[s]
      BY <1>1 DEF Held, Handed
    <3>2. \A j \in jobs'[s] : /\ IsInjective(j.ids) /\ Range(j.ids) \subseteq Handed(s)
                              /\ Range(j.ids) \intersect Range(buffer[s]) = {}
                              /\ j.at = "info" => s = "agent"
      <4> SUFFICES ASSUME NEW j \in jobs'[s]
                   PROVE  /\ IsInjective(j.ids) /\ Range(j.ids) \subseteq Handed(s)
                          /\ Range(j.ids) \intersect Range(buffer[s]) = {}
                          /\ j.at = "info" => s = "agent"
        OBVIOUS
      <4> DEFINE A == j.at = "info" => s = "agent"
      <4>1. PICK i \in jobs[s] : j.ids = i.ids /\ A
        <5>1. j \in jobs[s] => A
          BY <3>1 DEF HeldBy
        <5>2. j \in jobs[s] \/ (j = done /\ s = "agent")
          BY <1>4
        <5>3. CASE j \in jobs[s]
          BY <5>1, <5>3
        <5>4. CASE j = done /\ s = "agent"
          BY <1>2, <5>4
        <5> QED BY <5>2, <5>3, <5>4
      <4>2. /\ IsInjective(i.ids) /\ Range(i.ids) \subseteq Handed(s)
            /\ Range(i.ids) \intersect Range(buffer[s]) = {}
        BY <3>1 DEF HeldBy
      <4> QED BY <4>1, <4>2
    <3>3. ASSUME NEW i \in jobs'[s], NEW j \in jobs'[s], Range(i.ids) \intersect Range(j.ids) # {} PROVE i = j
      <4>1. \A l \in jobs[s] \ {job} : Range(l.ids) \intersect Range(done.ids) = {}
        BY <1>2, <3>1 DEF HeldBy
      <4>2. i \in (jobs[s] \ {job}) \union {done} /\ j \in (jobs[s] \ {job}) \union {done}
        BY <1>4
      <4>3. CASE i \in jobs[s] \ {job} /\ j \in jobs[s] \ {job}
        BY <3>1, <3>3, <4>3 DEF HeldBy
      <4> QED BY <3>3, <4>1, <4>2, <4>3
    <3> QED BY <3>1, <3>2, <3>3 DEF HeldBy
  <2>2. ASSUME NEW p \in Savers \ {s} PROVE HeldBy(p)'
    <3>1. Handed(p)' = Handed(p) /\ buffer'[p] = buffer[p] /\ jobs'[p] = jobs[p] /\ HeldBy(p)
      BY <1>1, <1>4 DEF Held, Handed
    <3> QED BY <3>1 DEF HeldBy
  <2> QED BY <2>1, <2>2 DEF Held
<1>8. \A p \in Savers : \A j \in jobs'[p] : \E i \in jobs[p] : j.ids = i.ids
  BY <1>2, <1>4
<1>9. Listed' /\ \A r : ListedWith(r)' = ListedWith(r) /\ LateBefore(r)' = LateBefore(r)
  <2>1. \A r \in Runs, j \in jobs'["agent"] : ListedWith(r) \intersect Range(j.ids) = {}
    BY <1>1, <1>8, SaversAre DEF Listed
  <2> QED BY <1>1, <2>1 DEF Listed, ListedWith, LateBefore
<1>10. ASSUME ~hurried'
       PROVE  /\ ~hurried /\ OnTime /\ Latest \in Runs /\ ~disabled[s] /\ runCode[s] = Latest
              /\ Readable(s, job.ids) => Range(job.ids) \subseteq TasksOf(Latest)
              /\ connected /\ ~Readable(s, job.ids) =>
                   s = "agent" /\ LateBefore(Latest) # {} /\ \A k \in Range(job.ids) : k \in TasksOf(Latest) \/ k \in late
  <2>1. ~hurried /\ OnTime
    BY <1>1, <1>10 DEF SavingInv
  <2> QED BY <1>1, <2>1, JobOnTime DEF Readable
<1>11. ~hurried' => OnTime'
  <2> SUFFICES ASSUME ~hurried' PROVE OnTime'
    OBVIOUS
  <2> DEFINE P(p, j) == \A k \in Range(j.ids) :
                          \/ k \in TasksOf(Latest) /\ (p = "agent" => k \in stored)
                          \/ p = "agent" /\ j.at = "documents" /\ k \in LateBefore(Latest)
  <2>1. /\ Latest' = Latest
        /\ jobs[s] # {} /\ (ready = {} \/ ready = Savers)
        /\ Latest \in Runs /\ enabled[Latest]
        /\ \A p \in Savers : \A j \in jobs[p] : P(p, j)
        /\ \A r \in Runs : ListedWith(r) \subseteq TasksOf(r)
    BY <1>1, <1>10 DEF OnTime, Latest
  <2>2. SaveParts(s, job.ids) /\ s = "agent" /\ Readable(s, job.ids) => P(s, done)
    BY <1>2, <1>10 DEF Readable
  <2>3. done \in jobs'[s] => P(s, done)
    <3>1. done \in jobs[s] => P(s, done)
      BY <2>1
    <3>2. CASE documents' = documents /\ jobs' = [jobs EXCEPT ![s] = @ \ {job}]
      BY <1>1, <3>1, <3>2 DEF SaverTypes
    <3>3. CASE Readable(s, job.ids) /\ SaveParts(s, job.ids)
      BY <1>4, <2>2, <3>1, <3>3
    <3> QED BY <1>3, <3>2, <3>3
  <2> HIDE DEF P
  <2>4. \A p \in Savers : \A j \in jobs'[p] : P(p, j)
    BY <1>4, <2>1, <2>3
  <2>5. /\ ready' = ready /\ Latest' \in Runs /\ enabled' = enabled /\ stored' = stored
        /\ \A r \in Runs : ListedWith(r)' \subseteq TasksOf(r)
        /\ LateBefore(Latest)' = LateBefore(Latest)
    BY <1>1, <1>9, <2>1
  <2> QED BY <2>1, <2>4, <2>5 DEF OnTime, P
<1>12. ASSUME ~hurried', connected', Readable(s, job.ids)
       PROVE  /\ s = "agent" => done \in jobs'[s]
              /\ \A k \in Ids :
                   /\ documents'[k].parts = IF k \in Range(job.ids) THEN documents[k].parts \union {s} ELSE documents[k].parts
                   /\ documents'[k].run = IF s = "agent" /\ k \in Range(job.ids) THEN Latest ELSE documents[k].run
  <2>1. SaveParts(s, job.ids) /\ jobs' = [jobs EXCEPT ![s] = (@ \ {job}) \union (IF s = "agent" THEN {done} ELSE {})]
    BY <1>3, <1>10, <1>12
  <2>2. s = "agent" => done \in jobs'[s]
    BY <1>1, <2>1 DEF SaverTypes
  <2>3. \A k \in Ids :
          /\ documents'[k].parts = IF k \in Range(job.ids) THEN documents[k].parts \union {s} ELSE documents[k].parts
          /\ documents'[k].run = IF s = "agent" /\ k \in Range(job.ids) THEN runCode[s] ELSE documents[k].run
    BY <1>1, <1>2, <2>1, PartsAre
  <2> QED BY <1>10, <1>12, <2>2, <2>3
<1>13. ASSUME ~hurried', connected', ~Readable(s, job.ids) PROVE documents' = documents /\ jobs'[s] = jobs[s] \ {job}
  BY <1>1, <1>3, <1>13 DEF SaverTypes
<1>14. ~hurried' /\ connected' => Truthful'
  <2> SUFFICES ASSUME ~hurried', connected', NEW k \in Ids
               PROVE  /\ documents'[k].parts \subseteq {p \in Savers : k \in Handed(p)}
                      /\ "agent" \notin documents'[k].parts => documents'[k].run = NoRun
                      /\ \A r \in Runs : k \in TasksOf(r) =>
                           /\ "agent" \in documents'[k].parts => documents'[k].run = r
                           /\ "agent" \in documents'[k].parts <=> InJob("agent", k, "info")' \/ k \in ListedWith(r)
    BY <1>1, <1>9 DEF Truthful, Handed
  <2>1. /\ documents[k].parts \subseteq {p \in Savers : k \in Handed(p)}
        /\ "agent" \notin documents[k].parts => documents[k].run = NoRun
        /\ \A r \in Runs : k \in TasksOf(r) =>
             /\ "agent" \in documents[k].parts => documents[k].run = r
             /\ "agent" \in documents[k].parts <=> InJob("agent", k, "info") \/ k \in ListedWith(r)
    BY <1>1 DEF SavingInv, Truthful
  <2>2. InJob("agent", k, "info") => InJob("agent", k, "info")'
    BY <1>1, <1>4, SaversAre DEF InJob
  <2>3. CASE ~Readable(s, job.ids)
    <3>1. InJob("agent", k, "info")' => InJob("agent", k, "info")
      BY <1>4, <1>13, <2>3, SaversAre DEF InJob
    <3> QED BY <1>13, <2>1, <2>2, <2>3, <3>1
  <2>4. CASE Readable(s, job.ids)
    <3>1. /\ documents'[k].parts = IF k \in Range(job.ids) THEN documents[k].parts \union {s} ELSE documents[k].parts
          /\ documents'[k].run = IF s = "agent" /\ k \in Range(job.ids) THEN Latest ELSE documents[k].run
      BY <1>12, <2>4
    <3>2. k \in Range(job.ids) => k \in Handed(s)
      BY <1>1 DEF Held, HeldBy
    <3>3. CASE s = "agent" /\ k \in Range(job.ids)
      <4>1. InJob("agent", k, "info")'
        BY <1>2, <1>12, <2>4, <3>3 DEF InJob
      <4>2. \A r \in Runs : k \in TasksOf(r) => r = Latest
        BY <1>10, <2>4, <3>3, TasksAre
      <4> QED BY <2>1, <3>1, <3>2, <3>3, <4>1, <4>2
    <3>4. CASE ~(s = "agent" /\ k \in Range(job.ids))
      <4>1. InJob("agent", k, "info")' => InJob("agent", k, "info")
        BY <1>2, <1>4, <3>4, SaversAre DEF InJob
      <4>2. documents'[k].run = documents[k].run /\ ("agent" \in documents'[k].parts <=> "agent" \in documents[k].parts)
        BY <3>1, <3>4
      <4>3. documents'[k].parts \subseteq {p \in Savers : k \in Handed(p)}
        BY <2>1, <3>1, <3>2
      <4> QED BY <2>1, <2>2, <4>1, <4>2, <4>3
    <3> QED BY <3>3, <3>4
  <2> QED BY <2>3, <2>4
<1>15. ~hurried' /\ connected' => Kept'
  <2> SUFFICES ASSUME ~hurried', connected', NEW p \in Savers, NEW r \in Runs, NEW l \in TasksOf(r),
                      enabled[r], l \in Handed(p), InTime(p, l, r)
               PROVE  l \in Range(buffer[p]) \/ InJob(p, l, "documents")' \/ p \in documents'[l].parts
    BY <1>1, <1>9 DEF Kept, Handed, InTime
  <2>1. l \in Range(buffer[p]) \/ InJob(p, l, "documents") \/ p \in documents[l].parts
    BY <1>1 DEF SavingInv, Kept
  <2>2. l \in Ids
    BY TasksAre
  <2>3. documents[l].parts \subseteq documents'[l].parts
    BY <1>12, <1>13, <2>2
  <2>4. CASE InJob(p, l, "documents")
    <3>1. PICK i \in jobs[p] : i.at = "documents" /\ l \in Range(i.ids)
      BY <2>4 DEF InJob
    <3>2. CASE i \in jobs'[p]
      BY <3>1, <3>2 DEF InJob
    <3>3. CASE i \notin jobs'[p]
      <4>1. p = s /\ i = job
        BY <1>4, <3>3
      <4>2. CASE Readable(s, job.ids)
        BY <1>12, <2>2, <3>1, <4>1, <4>2
      <4>3. CASE ~Readable(s, job.ids)
        <5>1. s = "agent" /\ LateBefore(Latest) # {} /\ (l \in TasksOf(Latest) \/ l \in late)
          BY <1>1, <1>10, <3>1, <4>1, <4>3
        <5>2. l \in TasksOf(Latest) => r = Latest
          BY <1>10, TasksAre
        <5> QED BY <4>1, <5>1, <5>2 DEF InTime
      <4> QED BY <4>2, <4>3
    <3> QED BY <3>2, <3>3
  <2> QED BY <2>1, <2>3, <2>4
<1> QED BY <1>5, <1>6, <1>7, <1>9, <1>11, <1>14, <1>15 DEF SavingInv

LEMMA SaveBulkInfoInv ==
  ASSUME SavingInv, NEW s \in Savers, NEW job \in jobs[s], SaveBulkInfo(s, job) PROVE SavingInv'
<1>1. /\ SaverTypes /\ Held /\ Listed /\ job \in Job /\ job.at = "info" /\ s = "agent"
      /\ UNCHANGED <<enabled, connected, run, ready, generated, succeeded, failed, stored, learned, late, disabled,
                     runCode, buffer, flushed, hurried, documents>>
      /\ PushToRunsInfo("agent", job.ids) /\ jobs' = [jobs EXCEPT ![s] = @ \ {job}]
  BY DEF SavingInv, SaverTypes, SaveBulkInfo, Held, HeldBy, tasksVars
<1>2. job.ids \in Seq(Ids) /\ IsInjective(job.ids) /\ Range(job.ids) \subseteq learned
      /\ Range(job.ids) \intersect Range(buffer[s]) = {}
      /\ \A r \in Runs : ListedWith(r) \intersect Range(job.ids) = {}
  BY <1>1 DEF Job, Held, HeldBy, Handed, Listed
<1>3. /\ jobs' \in [Savers -> SUBSET Job] /\ jobs'[s] = jobs[s] \ {job}
      /\ \A p \in Savers : jobs'[p] \subseteq jobs[p] /\ (p # s => jobs'[p] = jobs[p])
  <2>1. jobs \in [Savers -> SUBSET Job]
    BY <1>1 DEF SaverTypes
  <2> QED BY <1>1, <2>1
<1>4. /\ runsInfo' \in [Runs -> [exists : BOOLEAN, trajectories : Seq(Ids)]]
      /\ \A r \in Runs :
           /\ runsInfo'[r].exists = runsInfo[r].exists
           /\ \/ ListedWith(r)' = ListedWith(r) /\ (r # runCode["agent"] \/ ~runsInfo[r].exists \/ r = NoRun)
              \/ r = runCode["agent"] /\ ListedWith(r)' = ListedWith(r) \union Range(job.ids)
  BY <1>1, <1>2, RunsInfoIs
<1>5. SaverTypes'
  BY <1>1, <1>3, <1>4 DEF SaverTypes
<1>6. Progress' /\ Prepared' /\ \A r : LateBefore(r)' = LateBefore(r)
  BY <1>1, <1>4 DEF SavingInv, Progress, Ended, Prepared, LateBefore
<1>7. Held'
  <2> SUFFICES ASSUME NEW p \in Savers PROVE HeldBy(p)'
    BY DEF Held
  <2>1. Handed(p)' = Handed(p) /\ buffer'[p] = buffer[p] /\ jobs'[p] \subseteq jobs[p] /\ HeldBy(p)
    BY <1>1, <1>3 DEF Held, Handed
  <2> QED BY <2>1 DEF HeldBy
<1>8. Listed'
  <2>1. \A j \in jobs'["agent"] : Range(j.ids) \intersect Range(job.ids) = {}
    BY <1>1, <1>3 DEF Held, HeldBy
  <2> QED BY <1>1, <1>2, <1>3, <2>1, ListedInv
<1>9. ASSUME ~hurried'
      PROVE  ~hurried /\ OnTime /\ Latest \in Runs /\ runCode[s] = Latest /\ Range(job.ids) \subseteq TasksOf(Latest)
             /\ (connected => runsInfo[Latest].exists)
  BY <1>1, <1>9, JobOnTime DEF SavingInv
<1>10. ~hurried' => OnTime'
  <2> SUFFICES ASSUME ~hurried' PROVE OnTime'
    OBVIOUS
  <2>1. Latest' = Latest
    BY <1>1 DEF Latest
  <2>2. \A r \in Runs : ListedWith(r)' \subseteq TasksOf(r)
    BY <1>1, <1>4, <1>9 DEF OnTime
  <2>3. \A p \in Savers : \A j \in jobs'[p] :
          /\ ready = {} \/ ready = Savers
          /\ Latest \in Runs /\ enabled[Latest]
          /\ \A k \in Range(j.ids) :
               \/ k \in TasksOf(Latest) /\ (p = "agent" => k \in stored)
               \/ p = "agent" /\ j.at = "documents" /\ k \in LateBefore(Latest)
    BY <1>3, <1>9 DEF OnTime
  <2>4. LateBefore(Latest)' = LateBefore(Latest)
    BY <1>6, <2>1
  <2> QED BY <1>1, <2>1, <2>2, <2>3, <2>4 DEF OnTime
<1>11. ~hurried' /\ connected' => Truthful'
  <2> SUFFICES ASSUME ~hurried', connected', NEW k \in Ids, NEW r \in Runs, k \in TasksOf(r)
               PROVE  InJob("agent", k, "info")' \/ k \in ListedWith(r)' <=> InJob("agent", k, "info") \/ k \in ListedWith(r)
    BY <1>1, <1>9 DEF SavingInv, Truthful, Handed
  <2>1. InJob("agent", k, "info")' => InJob("agent", k, "info")
    BY <1>1, <1>3 DEF InJob
  <2>2. CASE k \in Range(job.ids)
    <3>1. InJob("agent", k, "info")
      BY <1>1, <2>2 DEF InJob
    <3>2. r = Latest /\ connected /\ r # NoRun
      BY <1>1, <1>9, <2>2, TasksAre
    <3> QED BY <1>1, <1>4, <1>9, <2>2, <3>1, <3>2
  <2>3. CASE k \notin Range(job.ids)
    <3>1. InJob("agent", k, "info") => InJob("agent", k, "info")'
      BY <1>1, <1>3, <2>3 DEF InJob
    <3>2. k \in ListedWith(r)' <=> k \in ListedWith(r)
      BY <1>4, <2>3
    <3> QED BY <2>1, <3>1, <3>2
  <2> QED BY <2>2, <2>3
<1>12. ~hurried' /\ connected' => Kept'
  <2>1. \A p \in Savers : \A k : InJob(p, k, "documents") => InJob(p, k, "documents")'
    BY <1>1, <1>3 DEF InJob
  <2> QED BY <1>1, <1>6, <2>1 DEF SavingInv, Kept, InTime, Handed
<1> QED BY <1>5, <1>6, <1>7, <1>8, <1>10, <1>11, <1>12 DEF SavingInv

LEMMA FlushInv == ASSUME SavingInv, NEW s \in Savers, Flush(s) PROVE SavingInv'
<1>1. /\ SaverTypes /\ Progress /\ Prepared /\ Held /\ Listed /\ ready = Savers /\ s \notin flushed
      /\ TasksOf(run) \subseteq Ended /\ run \in Runs /\ flushed' = flushed \union {s}
      /\ UNCHANGED <<enabled, connected, run, ready, generated, succeeded, failed, stored, learned, late, disabled,
                     runCode, jobs, hurried>>
      /\ disabled[s] = ~enabled[run] /\ (enabled[run] => runCode[s] = run) /\ s \in ready
  BY DEF SavingInv, SaverTypes, Prepared, Flush, Ended, tasksVars
<1>2. Progress' /\ \A r : LateBefore(r)' = LateBefore(r)
  BY <1>1 DEF Progress, Ended, LateBefore
<1>3. Latest = run /\ Latest' = run
  BY <1>1, SaversAre DEF Latest
<1>4. CASE disabled[s] \/ buffer[s] = <<>>
  <2>1. UNCHANGED <<buffer, documents, runsInfo>>
    BY <1>4 DEF Flush, dbVars
  <2>2. \A k \in Range(buffer[s]) : s = "agent" /\ k \in LateBefore(run)
    BY <1>1, <1>4, NoIds DEF Prepared
  <2>3. SaverTypes' /\ Prepared' /\ Listed'
    BY <1>1, <1>2, <2>1, <2>2 DEF SaverTypes, Prepared, Listed, ListedWith
  <2>4. Held'
    BY <1>1, <2>1 DEF Held, HeldBy, Handed
  <2>5. ~hurried' => OnTime'
    BY <1>1, <1>2, <1>3, <2>1 DEF SavingInv, OnTime, ListedWith
  <2>6. ~hurried' /\ connected' => Truthful' /\ Kept'
    BY <1>1, <1>2, <2>1 DEF SavingInv, Truthful, Kept, InJob, InTime, Handed, ListedWith
  <2> QED BY <1>2, <2>3, <2>4, <2>5, <2>6 DEF SavingInv
<1>5. CASE ~(disabled[s] \/ buffer[s] = <<>>)
  <2> DEFINE ids == buffer[s]
  <2>1. /\ ids \in Seq(Ids) /\ enabled[run] /\ runCode[s] = run /\ connected /\ (s = "agent" => Range(ids) \subseteq stored)
        /\ SaveParts(s, ids) /\ buffer' = [buffer EXCEPT ![s] = <<>>]
        /\ IF s = "agent" THEN PushToRunsInfo("agent", ids) ELSE UNCHANGED runsInfo
    BY <1>1, <1>5 DEF SaverTypes, Flush, Readable
  <2>2. /\ IsInjective(ids) /\ Range(ids) \subseteq Handed(s) /\ Range(ids) \subseteq TasksOf(run)
        /\ \A job \in jobs[s] : Range(job.ids) \intersect Range(ids) = {}
    <3>1. stored \subseteq TasksOf(run)
      BY <1>1, SaversAre DEF Progress
    <3> QED BY <1>1, <1>5, <2>1, <3>1 DEF Held, HeldBy, Prepared
  <2>3. /\ documents' \in [Ids -> [run : Runs \union {NoRun}, parts : SUBSET Savers]]
        /\ \A k \in Ids :
             /\ documents'[k].parts = IF k \in Range(ids) THEN documents[k].parts \union {s} ELSE documents[k].parts
             /\ documents'[k].run = IF s = "agent" /\ k \in Range(ids) THEN run ELSE documents[k].run
    <3>1. /\ documents' \in [Ids -> [run : Runs \union {NoRun}, parts : SUBSET Savers]]
          /\ \A k \in Ids :
               /\ documents'[k].parts = IF k \in Range(ids) THEN documents[k].parts \union {s} ELSE documents[k].parts
               /\ documents'[k].run = IF s = "agent" /\ k \in Range(ids) THEN runCode[s] ELSE documents[k].run
      BY <1>1, <2>1, PartsAre
    <3>2. runCode[s] = run
      BY <2>1
    <3> QED BY <3>1, <3>2
  <2> HIDE DEF ids
  <2>4. /\ runsInfo' \in [Runs -> [exists : BOOLEAN, trajectories : Seq(Ids)]]
        /\ \A r \in Runs :
             /\ runsInfo'[r].exists = runsInfo[r].exists
             /\ \/ ListedWith(r)' = ListedWith(r) /\ (s # "agent" \/ r # run \/ ~runsInfo[r].exists)
                \/ r = run /\ s = "agent" /\ ListedWith(r)' = ListedWith(r) \union Range(ids)
    <3>1. CASE s = "agent"
      BY <1>1, <2>1, <3>1, RunsInfoIs, TasksAre
    <3>2. CASE s # "agent"
      BY <1>1, <2>1, <3>2 DEF SaverTypes, ListedWith
    <3> QED BY <3>1, <3>2
  <2>5. /\ buffer' \in [Savers -> Seq(Ids)] /\ buffer'[s] = <<>> /\ Range(<<>>) = {} /\ IsInjective(<<>>) /\ Len(<<>>) = 0
        /\ \A p \in Savers : p # s => buffer'[p] = buffer[p]
    BY <1>1, <2>1, NoIds DEF SaverTypes
  <2>6. SaverTypes'
    BY <1>1, <2>3, <2>4, <2>5 DEF SaverTypes
  <2>7. Prepared'
    <3>1. \A p \in Savers : \A k \in Range(buffer'[p]) : p # s /\ k \in Range(buffer[p])
      BY <2>5
    <3> QED BY <1>1, <1>2, <2>4, <3>1 DEF Prepared
  <2>8. Held'
    <3> SUFFICES ASSUME NEW p \in Savers PROVE HeldBy(p)'
      BY DEF Held
    <3>1. HeldBy(p) /\ Handed(p)' = Handed(p)
      BY <1>1 DEF Held, Handed
    <3>2. CASE p = s
      <4>1. /\ buffer'[s] = <<>> /\ jobs'[s] = jobs[s] /\ HeldBy(s) /\ Handed(s)' = Handed(s) /\ 0 < SaveInterval
            /\ Range(buffer'[s]) = {} /\ IsInjective(buffer'[s]) /\ Len(buffer'[s]) = 0
        BY <1>1, <2>5, <3>1, <3>2, SavingAssumption
      <4> QED BY <3>2, <4>1 DEF HeldBy
    <3>3. CASE p # s
      <4>1. buffer'[p] = buffer[p] /\ jobs'[p] = jobs[p] /\ HeldBy(p) /\ Handed(p)' = Handed(p)
        BY <1>1, <2>5, <3>1, <3>3
      <4> QED BY <4>1 DEF HeldBy
    <3> QED BY <3>2, <3>3
  <2>9. Listed'
    <3>1. CASE s = "agent"
      <4>1. \A r \in Runs : ListedWith(r) \intersect Range(ids) = {}
        BY <1>1, <3>1 DEF Listed, ids
      <4>2. Range(ids) \subseteq learned
        BY <2>2, <3>1 DEF Handed
      <4> QED BY <1>1, <2>1, <2>2, <2>5, <3>1, <4>1, <4>2, ListedInv
    <3>2. CASE s # "agent"
      BY <1>1, <2>1, <2>5, <3>2, SaversAre DEF Listed, ListedWith
    <3> QED BY <3>1, <3>2
  <2>10. ~hurried' => OnTime'
    <3> SUFFICES ASSUME ~hurried' PROVE OnTime'
      OBVIOUS
    <3>1. OnTime
      BY <1>1 DEF SavingInv
    <3>2. \A r \in Runs : ListedWith(r)' \subseteq TasksOf(r)
      BY <2>2, <2>4, <3>1 DEF OnTime
    <3> QED BY <1>1, <1>2, <1>3, <3>1, <3>2 DEF OnTime
  <2>11. \A p, k, step : InJob(p, k, step)' <=> InJob(p, k, step)
    BY <1>1 DEF InJob
  <2>12. ~hurried' /\ connected' => Truthful'
    <3> SUFFICES ASSUME ~hurried', connected', NEW k \in Ids
                 PROVE  /\ documents'[k].parts \subseteq {p \in Savers : k \in Handed(p)}
                        /\ "agent" \notin documents'[k].parts => documents'[k].run = NoRun
                        /\ \A r \in Runs : k \in TasksOf(r) =>
                             /\ "agent" \in documents'[k].parts => documents'[k].run = r
                             /\ "agent" \in documents'[k].parts <=> InJob("agent", k, "info") \/ k \in ListedWith(r)'
      BY <1>1, <2>11 DEF Truthful, Handed
    <3>1. /\ documents[k].parts \subseteq {p \in Savers : k \in Handed(p)}
          /\ "agent" \notin documents[k].parts => documents[k].run = NoRun
          /\ \A r \in Runs : k \in TasksOf(r) =>
               /\ "agent" \in documents[k].parts => documents[k].run = r
               /\ "agent" \in documents[k].parts <=> InJob("agent", k, "info") \/ k \in ListedWith(r)
      BY <1>1 DEF SavingInv, Truthful
    <3>2. CASE k \in Range(ids)
      <4>1. \A r \in Runs : k \in TasksOf(r) => r = run
        BY <1>1, <2>2, <3>2, TasksAre
      <4>2. runsInfo[run].exists
        BY <1>1, <2>1, SaversAre DEF Prepared
      <4>3. s = "agent" => k \in ListedWith(run)'
        BY <1>1, <2>4, <3>2, <4>2
      <4>4. s # "agent" => \A r \in Runs : ListedWith(r)' = ListedWith(r)
        BY <2>4
      <4>5. documents'[k].parts = documents[k].parts \union {s} /\ k \in Handed(s)
            /\ documents'[k].run = IF s = "agent" THEN run ELSE documents[k].run
        BY <2>2, <2>3, <3>2
      <4>6. CASE s = "agent"
        <5>1. "agent" \in documents'[k].parts /\ documents'[k].run = run /\ k \in ListedWith(run)' /\ run' = run
          BY <1>1, <4>3, <4>5, <4>6
        <5>2. documents'[k].parts \subseteq {p \in Savers : k \in Handed(p)}
          BY <3>1, <4>5
        <5> QED BY <4>1, <5>1, <5>2
      <4>7. CASE s # "agent"
        BY <3>1, <4>4, <4>5, <4>7
      <4> QED BY <4>6, <4>7
    <3>3. CASE k \notin Range(ids)
      <4>1. \A r \in Runs : k \in ListedWith(r)' <=> k \in ListedWith(r)
        BY <2>4, <3>3
      <4>2. documents'[k].parts = documents[k].parts /\ documents'[k].run = documents[k].run
        BY <2>3, <3>3
      <4> QED BY <3>1, <4>1, <4>2
    <3> QED BY <3>2, <3>3
  <2>13. ~hurried' /\ connected' => Kept'
    <3> SUFFICES ASSUME ~hurried', connected', NEW p \in Savers, NEW r \in Runs, NEW l \in TasksOf(r),
                        enabled[r], l \in Handed(p), InTime(p, l, r)
                 PROVE  l \in Range(buffer'[p]) \/ InJob(p, l, "documents") \/ p \in documents'[l].parts
      BY <1>1, <1>2, <2>11 DEF Kept, Handed, InTime
    <3>1. l \in Range(buffer[p]) \/ InJob(p, l, "documents") \/ p \in documents[l].parts
      BY <1>1 DEF SavingInv, Kept
    <3>2. documents[l].parts \subseteq documents'[l].parts /\ (l \in Range(ids) => s \in documents'[l].parts)
      BY <2>3, TasksAre
    <3>3. l \in Range(buffer[p]) => l \in Range(buffer'[p]) \/ (p = s /\ l \in Range(ids))
      BY <2>5 DEF ids
    <3> QED BY <3>1, <3>2, <3>3
  <2> QED BY <1>2, <2>6, <2>7, <2>8, <2>9, <2>10, <2>12, <2>13 DEF SavingInv
<1> QED BY <1>4, <1>5

LEMMA SavingNextInv == SavingInv /\ [SavingNext]_savingVars => SavingInv'
<1> SUFFICES ASSUME SavingInv, [SavingNext]_savingVars PROVE SavingInv'
  OBVIOUS
<1>1. CASE \E s \in Savers : PrepareRun(s) \/ Flush(s)
  BY <1>1, PrepareRunInv, FlushInv
<1>2. CASE \E k \in Ids : GenerateTask(k) \/ SucceedTask(k) \/ FailTask(k) \/ ObserveTrajectory(k)
  BY <1>2, GenerateTaskInv, SucceedTaskInv, FailTaskInv, ObserveTrajectoryInv
<1>3. CASE \E s \in Savers : \E job \in jobs[s] : SaveBulkTrajectories(s, job) \/ SaveBulkInfo(s, job)
  BY <1>3, SaveBulkTrajectoriesInv, SaveBulkInfoInv
<1>4. CASE NextRun
  BY <1>4, NextRunInv
<1>5. CASE UNCHANGED savingVars
  BY <1>5, SavingStutterInv
<1> QED BY <1>1, <1>2, <1>3, <1>4, <1>5 DEF SavingNext

-----------------------------------------------------------------------------
(* The inductive invariant: an id that a saver has been handed is in one place only, what is in   *)
(* the database is true of its run, and none is lost but of the agent's those that came too late *)
(* and what they get into a batch with, unless a run is prepared while a job is left.            *)
THEOREM SavingInvariant == SavingSpec => []SavingInv
<1>1. SavingInit => SavingInv
  BY SavingInitInv
<1> QED BY <1>1, SavingNextInv, PTL DEF SavingSpec

(* Every variable has a value the code can give it, and nothing is to be written twice by one     *)
(* saver.                                                                                         *)
THEOREM SavingTypeCorrect == SavingSpec => []SavingTypeOK
<1>1. SavingInv => SavingTypeOK
  <2> SUFFICES ASSUME SavingInv PROVE SavingTypeOK
    OBVIOUS
  <2>1. SaverTypes /\ Progress /\ Held
    BY DEF SavingInv
  <2>2. flushed \subseteq ready
    BY <2>1 DEF SaverTypes, Progress
  <2>3. \A s \in Savers : /\ Len(buffer[s]) < SaveInterval
                          /\ \A job \in jobs[s] : Range(job.ids) \intersect Range(buffer[s]) = {}
    BY <2>1 DEF Held, HeldBy
  <2> QED BY <2>1, <2>2, <2>3 DEF SavingTypeOK, SaverTypes
<1> QED BY <1>1, SavingInvariant, PTL

(* Every trajectory is listed once; and unless a run was prepared in a hurry, what is listed is of *)
(* its own run and learned from, each task of a run that is done has a document with what there is *)
(* of it and under the right code, and what the agent has learned from before its flush is listed, *)
(* if no trajectory of an earlier run came too late (Saver.push_trajectory, save_bulk_trajectories, *)
(* flush).                                                                                         *)
THEOREM SavedOnce == SavingSpec => []TrajectoriesSavedOnce
<1>1. SavingInv => TrajectoriesSavedOnce
  <2> SUFFICES ASSUME SavingInv PROVE TrajectoriesSavedOnce
    OBVIOUS
  <2>1. SaverTypes /\ Progress /\ Prepared /\ Held /\ Listed
    BY DEF SavingInv
  <2>2. ASSUME NEW q \in Runs, NEW r \in Runs,
               NEW i \in DOMAIN runsInfo[q].trajectories, NEW j \in DOMAIN runsInfo[r].trajectories,
               runsInfo[q].trajectories[i] = runsInfo[r].trajectories[j]
        PROVE  q = r /\ i = j
    <3>1. ListedWith(q) \intersect ListedWith(r) # {}
      BY <2>2 DEF Range, ListedWith
    <3>2. q = r
      BY <2>1, <3>1 DEF Listed
    <3> QED BY <2>1, <2>2, <3>2 DEF Listed, IsInjective
  <2>3. ~hurried => \A r \in Runs : ListedWith(r) \subseteq TasksOf(r) \intersect learned
    BY <2>1 DEF SavingInv, OnTime, Listed
  <2>4. ASSUME NEW r \in Runs, ~hurried, Done(r), enabled[r], connected, \A s \in Savers : jobs[s] = {}
        PROVE  /\ \A k \in TasksOf(r) : documents[k] = DocumentOf(r, k)
               /\ LateBefore(r) = {} => (learned \ late) \intersect TasksOf(r) \subseteq ListedWith(r)
    <3>1. Truthful /\ Kept /\ run \in Runs /\ {"agent", "collector", "generator"} \subseteq Savers
      BY <2>1, <2>4, SaversAre DEF SavingInv, SaverTypes
    <3>2. TasksOf(r) \subseteq generated
      BY <2>1, <2>4, <3>1, SaversAre DEF Done, Progress
    <3>3. ASSUME NEW s \in Savers, NEW k \in TasksOf(r), k \in Range(buffer[s])
          PROVE  s = "agent" /\ k \in late
      <4>1. CASE ready = Savers /\ k \in TasksOf(run) /\ (s \in flushed => s = "agent" /\ k \in late)
        <5>1. r = run
          BY <3>1, <4>1, TasksAre
        <5>2. flushed = Savers
          BY <2>4, <3>1, <5>1, TasksAre DEF Done
        <5> QED BY <4>1, <5>2
      <4>2. CASE s = "agent" /\ k \in LateBefore(run)
        BY <4>2 DEF LateBefore
      <4> QED BY <2>1, <3>3, <4>1, <4>2 DEF Prepared
    <3>4. ASSUME NEW s \in Savers, NEW k \in TasksOf(r), k \in Handed(s), InTime(s, k, r)
          PROVE  s \in documents[k].parts
      <4>1. k \notin Range(buffer[s]) /\ ~InJob(s, k, "documents")
        BY <2>4, <3>3, <3>4 DEF InTime, InJob
      <4> QED BY <2>4, <3>1, <3>4, <4>1 DEF Kept
    <3>5. ASSUME NEW k \in TasksOf(r)
          PROVE  /\ documents[k].parts \subseteq {s \in Savers : k \in Handed(s)}
                 /\ "agent" \in documents[k].parts <=> k \in ListedWith(r)
                 /\ documents[k].run = IF k \in ListedWith(r) THEN r ELSE NoRun
      BY <2>4, <3>1, TasksAre DEF Truthful, InJob
    <3>6. ASSUME NEW k \in TasksOf(r) PROVE documents[k] = DocumentOf(r, k)
      <4>1. documents[k] \in [run : Runs \union {NoRun}, parts : SUBSET Savers]
        BY <2>1, TasksAre DEF SaverTypes
      <4>2. "generator" \in documents[k].parts
        BY <3>1, <3>2, <3>4 DEF Handed, InTime
      <4>3. "collector" \in documents[k].parts <=> k \in succeeded
        BY <3>1, <3>4, <3>5 DEF Handed, InTime
      <4>4. documents[k].parts = {"generator"} \union (IF k \in succeeded THEN {"collector"} ELSE {})
                                                \union (IF k \in ListedWith(r) THEN {"agent"} ELSE {})
        BY <3>5, <4>1, <4>2, <4>3, SaversAre
      <4> QED BY <3>5, <4>1, <4>4 DEF DocumentOf
    <3>7. ASSUME LateBefore(r) = {}, NEW k \in TasksOf(r), k \in learned, k \notin late PROVE k \in ListedWith(r)
      BY <3>1, <3>4, <3>5, <3>7 DEF Handed, InTime
    <3> QED BY <3>6, <3>7
  <2> QED BY <2>2, <2>3, <2>4 DEF TrajectoriesSavedOnce
<1> QED BY <1>1, SavingInvariant, PTL

=============================================================================
