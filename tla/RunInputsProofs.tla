-------------------------- MODULE RunInputsProofs --------------------------
(***************************************************************************)
(* What a run is given: its configuration, and what its agent sees.        *)
(*                                                                         *)
(* What an agent sees of the system is true, for any numbers of classes,   *)
(* tasks and events, any capacities and speeds, and any size of window.    *)
(* Sums: what is in use of the workers is a sum over the tasks, of which   *)
(* an event changes one term (module Sums).                                *)
(* The state: while no event disturbs its creation, the classes that have  *)
(* been updated show the load that was added up (Filling).                 *)
(* The copies: every copy is as old as it says, of two that are under way  *)
(* one is as new as what is there, and as long as none is to come the last *)
(* one is under way or there, unless it was overtaken (Copying).           *)
(* The windows: without a crossing one push is on its way at most, and the *)
(* window is the list of the entries, trimmed, but for that push (Alone).  *)
(*                                                                         *)
(* The runs of a search are those it stands for, for any search.           *)
(* One agent: a product of lists is each choice once (ProductIsChoices), so *)
(* the combinations are the choices of values (CombinationsArePicks), and  *)
(* setting one over the other leaves those of the last one, and of nothing *)
(* else than the parameters of the agent (ConfiguredSets).                 *)
(* The loops: a body is a seed, an entry of features, a state and an agent *)
(* (BodyIsAt, PositionIsBody).  The invariant keeps the story of the bodies *)
(* done: where the runs of each begin, and the configuration it has found, *)
(* which is that of the template but for what the agents set (Story,       *)
(* StoryIsUnmixed).  From it follow which run is where (StoryRuns,         *)
(* StoryCovers), how many there are (StoryIsEven), and that a body of the  *)
(* next seed does the same over again (StoryRepeats).                      *)
(***************************************************************************)
EXTENDS RunConfigs, StateFeatures, Sums, SequenceTheorems

Threads == 1..2
Histories == {<<>>, <<"sent">>, <<"ended">>, <<"sent", "ended">>, <<"ended", "sent">>}
Loads == [WorkerClasses -> Int]
Shares == Int \X (Nat \ {0})

Types ==
  /\ features \in Views
  /\ task \in [SeenTasks -> [class : TaskClasses, worker : WorkerClasses, handled : Histories]]
  /\ load \in Loads /\ utilization \in [WorkerClasses -> Nat]
  /\ values \in [Slots -> Shares] /\ total \in Int /\ disturbed \in BOOLEAN
  /\ queued \in Nat
  /\ uploads \in [Threads -> [key : Keys \union {"none", "next"}, of : Loads, at : Nat]]
  /\ shared \in [Keys -> [of : Loads, at : Nat]] /\ overtaken \in [Keys -> BOOLEAN]
  /\ pushes \subseteq [id : Nat, key : WindowKeys, phase : {"waiting", "added", "sent"}, value : Nat]
  /\ pipeline \in [WindowKeys -> Seq(Nat)] /\ window \in [WindowKeys -> Seq(Nat)]
  /\ entries \in [WindowKeys -> Seq(Nat)] /\ crossed \in BOOLEAN
  /\ states \in Seq([vector : Seq(Seq(Shares)), load : Loads, clean : BOOLEAN])
  /\ contexts \in Seq([WorkerClasses -> Seq(Seq(Shares))])

(* Where the creation of a state has come to. *)
Place ==
  /\ Len(states) <= features.states /\ Len(contexts) <= features.choices
  /\ \/ update = NoUpdate
     \/ /\ update \in [feature : DOMAIN features.state, class : 0..NumWorkerClasses]
        /\ update.class # 0 => Updated = "pool_load"
        /\ Len(states) < features.states

SummedUp == features.normalized \/ total = SumFunction(load)
Filled(n) == \A w \in 1..n : values[<<"pool_load", w>>] = PoolLoad(w, total)

(* While no event disturbs it, what has been updated of the load is the load. *)
Filling ==
  update # NoUpdate /\ ~disturbed =>
    /\ update.class # 0 => SummedUp /\ Filled(update.class - 1)
    /\ update.class = 0 /\ (\E i \in 1..(update.feature - 1) : features.state[i] = "pool_load") =>
         SummedUp /\ Filled(NumWorkerClasses)

Current(key) == IF key = "load" THEN load ELSE utilization
Holds(key, t) == uploads[t].key = key
(* A copy is still to be dumped. *)
Coming(key) ==
  queued > 0 \/ (key = "utilization" /\ \E t \in Threads : uploads[t].key \in {"load", "next"})

Copies ==
  \A key \in Keys :
    /\ shared[key].at <= EventsHandled
    /\ shared[key].at = EventsHandled => shared[key].of = Current(key)
    /\ \A t \in Threads : Holds(key, t) =>
         /\ uploads[t].at <= EventsHandled
         /\ uploads[t].at = EventsHandled => uploads[t].of = Current(key)

(* Of two copies that are under way one is as new as what is there. *)
Newer ==
  \A key \in Keys : Holds(key, 1) /\ Holds(key, 2) =>
    shared[key].at <= uploads[1].at \/ shared[key].at <= uploads[2].at

LastCopy ==
  \A key \in Keys :
    \/ Coming(key)
    \/ \E t \in Threads : Holds(key, t) /\ uploads[t].at = EventsHandled
    \/ shared[key].at = EventsHandled
    \/ overtaken[key] /\ \A t \in Threads : ~Holds(key, t)

(* Without a crossing one push at most is on its way, and its entry is the last one. *)
Kept(k) == window[k] = Trimmed(entries[k])
InLine(p) ==
  /\ pipeline = [NoCommands EXCEPT ![p.key] = <<p.value>>]
  /\ \A k \in WindowKeys \ {p.key} : Kept(k)
  /\ entries[p.key] # <<>> /\ entries[p.key][Len(entries[p.key])] = p.value
  /\ window[p.key] = Trimmed(SubSeq(entries[p.key], 1, Len(entries[p.key]) - 1))

Alone ==
  ~crossed =>
    /\ \A p, q \in pushes : p.phase # "waiting" /\ q.phase # "waiting" => p = q
    /\ (\A p \in pushes : p.phase = "waiting") => pipeline = NoCommands
    /\ (\A p \in pushes : p.phase # "added") => \A k \in WindowKeys : Kept(k)
    /\ \A p \in pushes : p.phase = "added" => InLine(p)

-----------------------------------------------------------------------------
(* Types.                                                                   *)

LEMMA Constants ==
  /\ NumWorkerClasses \in Nat /\ NumTaskClasses \in Nat /\ NumSeen \in Nat /\ NumWorkerClasses > 0
  /\ IsFiniteSet(SeenTasks) /\ IsFiniteSet(WorkerClasses)
  /\ WorkersOf \in [WorkerClasses -> [replicas : Nat \ {0}, speed : Nat \ {0}, cost : Nat]]
  /\ CapacityUsage \in [TaskClasses -> Nat]
  /\ WindowSize \in Nat \ {0} /\ Waits \subseteq Int /\ Runtimes \subseteq Nat
<1>1. NumWorkerClasses \in Nat \ {0} /\ NumSeen \in Nat
  BY FeaturesAssumption
<1>2. IsFiniteSet(1..NumSeen) /\ IsFiniteSet(1..NumWorkerClasses)
  BY <1>1, FS_Interval
<1> QED BY <1>1, <1>2, FeaturesAssumption DEF SeenTasks, WorkerClasses

LEMMA ViewFacts ==
  ASSUME Types
  PROVE  /\ features.state \in Seq(FeatureNames \ {"action"}) /\ features.state # <<>>
         /\ features.context \in Seq(FeatureNames)
         /\ features.states \in 0..NumSeen /\ features.choices \in 0..NumSeen
         /\ features.reward \in {"waiting-time", "execution-time", "execution-cost"}
         /\ Len(features.state) \in Nat /\ Len(features.state) > 0
         /\ DOMAIN features.state = 1..Len(features.state)
         /\ \A i \in DOMAIN features.state : features.state[i] \in FeatureNames \ {"action"}
BY FeaturesAssumption DEF Types

(* What a task uses of a worker, in whole units. *)
LEMMA UsageType ==
  ASSUME Types, NEW k \in SeenTasks
  PROVE  Usage(k) \in Nat
<1>1. /\ task[k].class \in TaskClasses /\ task[k].worker \in WorkerClasses
  BY DEF Types
<1>2. CapacityUsage[task[k].class] \in Nat
  BY <1>1, Constants
<1>3. WorkersOf[task[k].worker].speed \in Nat \ {0}
  BY <1>1, Constants
<1>4. \A u \in Nat, d \in Nat \ {0} : u \div d \in Nat
  OBVIOUS
<1> QED BY <1>2, <1>3, <1>4 DEF Usage

LEMMA AppendToOne ==
  ASSUME NEW S, NEW a \in S, NEW b \in S PROVE Append(<<a>>, b) = <<a, b>>
<1> DEFINE s == Append(<<a>>, b)
           t == <<a, b>>
<1>1. <<a>> \in Seq(S) /\ Len(<<a>>) = 1 /\ <<a>>[1] = a
  OBVIOUS
<1>2. s \in Seq(S) /\ Len(s) = 2 /\ s[1] = a /\ s[2] = b
  BY <1>1, AppendProperties
<1>3. t \in Seq(S) /\ Len(t) = 2 /\ t[1] = a /\ t[2] = b
  OBVIOUS
<1> HIDE DEF s, t
<1>4. Len(s) = Len(t) /\ \A i \in 1..Len(s) : s[i] = t[i]
  BY <1>2, <1>3
<1>5. s = t
  BY <1>2, <1>3, <1>4, SeqEqual
<1> QED BY <1>5 DEF s, t

(* A task is sent once and ended once, in either order. *)
LEMMA HistoryGrows ==
  ASSUME NEW h \in Histories, NEW e \in {"sent", "ended"}, e \notin ToSet(h)
  PROVE  Append(h, e) \in Histories /\ Len(Append(h, e)) = Len(h) + 1 /\ Len(h) \in Nat
<1>1. \A s \in DOMAIN h : h[s] # e
  BY DEF ToSet
<1>2. CASE h = <<>>
  BY <1>2 DEF Histories
<1>3. CASE h = <<"sent">>
  <2>1. h[1] = "sent" /\ 1 \in DOMAIN h
    BY <1>3
  <2>2. e = "ended"
    BY <1>1, <2>1
  <2>3. Append(h, e) = <<"sent", "ended">>
    BY <1>3, <2>2, AppendToOne
  <2> QED BY <1>3, <2>3 DEF Histories
<1>4. CASE h = <<"ended">>
  <2>1. h[1] = "ended" /\ 1 \in DOMAIN h
    BY <1>4
  <2>2. e = "sent"
    BY <1>1, <2>1
  <2>3. Append(h, e) = <<"ended", "sent">>
    BY <1>4, <2>2, AppendToOne
  <2> QED BY <1>4, <2>3 DEF Histories
<1>5. CASE h = <<"sent", "ended">> \/ h = <<"ended", "sent">>
  <2>1. 1 \in DOMAIN h /\ 2 \in DOMAIN h /\ {h[1], h[2]} = {"sent", "ended"}
    BY <1>5
  <2> QED BY <1>1, <2>1
<1> QED BY <1>2, <1>3, <1>4, <1>5 DEF Histories

LEMMA HandledType == ASSUME Types PROVE EventsHandled \in Nat
<1> DEFINE f == [k \in SeenTasks |-> Len(task[k].handled)]
<1>1. ASSUME NEW k \in SeenTasks PROVE Len(task[k].handled) \in Nat
  <2>1. task[k].handled \in Histories
    BY DEF Types
  <2> QED BY <2>1 DEF Histories
<1>2. f \in [SeenTasks -> Int] /\ \A k \in SeenTasks : f[k] >= 0
  BY <1>1
<1> HIDE DEF f
<1>3. SumFunction(f) \in Nat
  BY <1>2, SumType, Constants
<1> QED BY <1>3 DEF f, EventsHandled

(* An event of a task is handled by the consumer: what both do. *)
Happens(k, e, n) ==
  /\ e \notin ToSet(task[k].handled)
  /\ task' = [task EXCEPT ![k].handled = Append(@, e)]
  /\ UpdateWorkersState(k, n)
  /\ UNCHANGED <<features, uploads, shared, overtaken, values, update, total, states, contexts, windowVars>>

LEMMA EventHappens ==
  ASSUME NEW k \in SeenTasks
  PROVE  /\ OnTaskSent(k) => Happens(k, "sent", 1) /\ reward' = reward
         /\ OnTaskEnd(k) => Happens(k, "ended", -1)
BY DEF OnTaskSent, OnTaskEnd, Happens

LEMMA HappensTask ==
  ASSUME Types, NEW k \in SeenTasks, NEW e \in {"sent", "ended"}, NEW n, Happens(k, e, n)
  PROVE  /\ task' \in [SeenTasks -> [class : TaskClasses, worker : WorkerClasses, handled : Histories]]
         /\ \A j \in SeenTasks : task'[j].class = task[j].class /\ task'[j].worker = task[j].worker
         /\ \A j \in SeenTasks : j # k => task'[j] = task[j]
         /\ task'[k].handled = Append(task[k].handled, e)
         /\ \A j \in SeenTasks : Usage(j)' = Usage(j)
         /\ EventsHandled' = EventsHandled + 1
<1>1. task[k].handled \in Histories /\ task[k] \in [class : TaskClasses, worker : WorkerClasses, handled : Histories]
  BY DEF Types
<1>2. /\ Append(task[k].handled, e) \in Histories /\ Len(Append(task[k].handled, e)) = Len(task[k].handled) + 1
      /\ Len(task[k].handled) \in Nat
  BY <1>1, HistoryGrows DEF Happens
<1>3. task' = [task EXCEPT ![k] = [task[k] EXCEPT !.handled = Append(task[k].handled, e)]]
  BY DEF Happens, Types
<1>4. [task[k] EXCEPT !.handled = Append(task[k].handled, e)] \in [class : TaskClasses, worker : WorkerClasses, handled : Histories]
  BY <1>1, <1>2
<1>5. task' \in [SeenTasks -> [class : TaskClasses, worker : WorkerClasses, handled : Histories]]
  BY <1>3, <1>4 DEF Types
<1>6. /\ \A j \in SeenTasks : task'[j].class = task[j].class /\ task'[j].worker = task[j].worker
      /\ \A j \in SeenTasks : j # k => task'[j] = task[j]
      /\ task'[k].handled = Append(task[k].handled, e)
  BY <1>3, <1>1 DEF Types
<1>7. \A j \in SeenTasks : Usage(j)' = Usage(j)
  BY <1>6 DEF Usage, Happens
<1>8. EventsHandled' = EventsHandled + 1
  <2> DEFINE f == [j \in SeenTasks |-> Len(task[j].handled)]
             g == [j \in SeenTasks |-> Len(task'[j].handled)]
  <2>1. ASSUME NEW j \in SeenTasks, NEW h \in Histories PROVE Len(h) \in Nat
    BY <2>1 DEF Histories
  <2>2. f \in [SeenTasks -> Int] /\ g \in [SeenTasks -> Int]
    <3>1. \A j \in SeenTasks : task[j].handled \in Histories /\ task'[j].handled \in Histories
      BY <1>5 DEF Types
    <3> QED BY <2>1, <3>1
  <2>3. \A j \in SeenTasks : j # k => g[j] = f[j]
    BY <1>6
  <2>4. g[k] = f[k] + 1 /\ f[k] \in Int
    BY <1>6, <1>2
  <2>5. EventsHandled = SumFunction(f) /\ EventsHandled' = SumFunction(g)
    BY DEF EventsHandled
  <2> HIDE DEF f, g
  <2>6. SumFunction(g) = SumFunction(f) + g[k] - f[k]
    BY <2>2, <2>3, SumChanges, Constants
  <2>7. SumFunction(f) \in Int
    BY <2>2, SumType, Constants
  <2> QED BY <2>4, <2>5, <2>6, <2>7
<1> QED BY <1>5, <1>6, <1>7, <1>8

(* Slots and vectors. *)
LEMMA SlotFacts ==
  /\ <<"task_class_type", 0>> \in Slots /\ <<"action", 0>> \in Slots
  /\ \A w \in WorkerClasses : <<"pool_load", w>> \in Slots /\ <<"resource_usage", w>> \in Slots
  /\ \A c \in TaskClasses : <<"task_frequency", c>> \in Slots
BY DEF Slots

LEMMA ShareType ==
  ASSUME NEW n \in Int, NEW sum \in Int
  PROVE  Share(n, sum) \in Shares
BY DEF Share, Shares, Zero

LEMMA PoolLoadType ==
  ASSUME Types, NEW w \in WorkerClasses, NEW sum \in Int
  PROVE  PoolLoad(w, sum) \in Shares
<1>1. load[w] \in Int /\ WorkersOf[w].replicas \in Nat \ {0}
  BY Constants DEF Types, Loads
<1> QED BY <1>1, ShareType DEF PoolLoad, Shares

LEMMA RowType ==
  ASSUME NEW S, NEW n \in Nat, NEW row \in [1..n -> S]
  PROVE  row \in Seq(S) /\ Len(row) = n
OBVIOUS

LEMMA FrequencyType ==
  ASSUME Types, NEW key \in WindowKeys, NEW class
  PROVE  Frequency(key, class) \in Shares
<1> DEFINE found == {i \in DOMAIN window[key] : window[key][i] = class}
<1>1. window[key] \in Seq(Nat)
  BY DEF Types
<1>2. DOMAIN window[key] = 1..Len(window[key]) /\ Len(window[key]) \in Nat
  BY <1>1
<1>3. IsFiniteSet(found)
  <2>1. IsFiniteSet(1..Len(window[key]))
    BY <1>2, FS_Interval
  <2>2. found \in SUBSET (1..Len(window[key]))
    BY <1>2
  <2> QED BY <2>1, <2>2, FS_Subset
<1>4. Cardinality(found) \in Nat
  BY <1>3, FS_CardinalityType
<1>5. window[key] # <<>> => Len(window[key]) \in Nat \ {0}
  BY <1>1
<1> HIDE DEF found
<1>6. Frequency(key, class) = <<Cardinality(found), IF window[key] = <<>> THEN 1 ELSE Len(window[key])>>
  BY DEF Frequency, found
<1> QED BY <1>4, <1>5, <1>6 DEF Shares

(* Each block has the type of a vector and the size that is configured for its feature. *)
LEMMA VectorType ==
  ASSUME NEW names \in Seq(FeatureNames), NEW vals \in [Slots -> Shares], NEW c
  PROVE  /\ Vector(names, vals, c) \in Seq(Seq(Shares))
         /\ SizeOf(Vector(names, vals, c)) = ConfiguredSize(names, c)
<1> DEFINE v == Vector(names, vals, c)
           size(f) == ClassesOf(f) * (IF f = "action" /\ c.expandable THEN 2 ELSE 1)
<1>1. \A f \in FeatureNames : ClassesOf(f) \in Nat /\ PossibleValues(f, c) \in Nat /\ size(f) \in Nat
  <2> TAKE f \in FeatureNames
  <2>1. ClassesOf(f) \in Nat
    BY Constants DEF ClassesOf
  <2> QED BY <2>1 DEF PossibleValues
<1>2. ASSUME NEW i \in DOMAIN names
      PROVE  v[i] \in Seq(Shares) /\ Len(v[i]) = size(names[i])
  <2> DEFINE f == names[i]
  <2>1. f \in FeatureNames
    OBVIOUS
  <2>2. v[i] = IF Dummy(f) THEN Encoded(vals[<<f, 0>>], PossibleValues(f, c))
               ELSE [j \in 1..ClassesOf(f) |-> vals[<<f, j>>]]
    BY DEF Vector
  <2>3. CASE Dummy(f)
    <3>1. v[i] = [j \in 1..PossibleValues(f, c) |-> IF vals[<<f, 0>>] = <<j, 1>> THEN <<1, 1>> ELSE Zero]
      BY <2>2, <2>3 DEF Encoded
    <3>2. <<1, 1>> \in Shares /\ Zero \in Shares
      BY DEF Shares, Zero
    <3>3. PossibleValues(f, c) \in Nat /\ PossibleValues(f, c) = size(f)
      BY <1>1, <2>1 DEF PossibleValues
    <3>4. v[i] \in [1..PossibleValues(f, c) -> Shares]
      <4> HIDE DEF v, f
      <4> QED BY <3>1, <3>2
    <3> HIDE DEF v, size
    <3> QED BY <3>3, <3>4, RowType
  <2>4. CASE ~Dummy(f)
    <3>1. v[i] = [j \in 1..ClassesOf(f) |-> vals[<<f, j>>]]
      BY <2>2, <2>4
    <3>2. \A j \in 1..ClassesOf(f) : <<f, j>> \in Slots
      BY <2>1, <2>4 DEF Dummy, ClassesOf, FeatureNames, Slots, WorkerClasses, TaskClasses
    <3>3. \A j \in 1..ClassesOf(f) : vals[<<f, j>>] \in Shares
      BY <3>2
    <3>4. ClassesOf(f) \in Nat /\ ClassesOf(f) = size(f)
      BY <1>1, <2>1, <2>4 DEF Dummy
    <3>5. v[i] \in [1..ClassesOf(f) -> Shares]
      <4> HIDE DEF v, f
      <4> QED BY <3>1, <3>3
    <3> HIDE DEF v, size
    <3> QED BY <3>4, <3>5, RowType
  <2> QED BY <2>3, <2>4
<1>3. v = [i \in 1..Len(names) |-> v[i]] /\ DOMAIN v = DOMAIN names
  BY DEF Vector
<1>4. v \in Seq(Seq(Shares))
  <2>1. Len(names) \in Nat /\ \A i \in 1..Len(names) : v[i] \in Seq(Shares)
    BY <1>2
  <2> HIDE DEF v
  <2> QED BY <1>3, <2>1
<1>5. [i \in DOMAIN v |-> Len(v[i])] = [i \in DOMAIN names |-> size(names[i])]
  BY <1>2, <1>3
<1>6. SizeOf(v) = ConfiguredSize(names, c)
  BY <1>5 DEF SizeOf, ConfiguredSize
<1> QED BY <1>4, <1>6

LEMMA AtLeast0Type == ASSUME NEW n \in Int PROVE AtLeast0(n) \in Nat
BY DEF AtLeast0

LEMMA EventTypes ==
  ASSUME Types, NEW k \in SeenTasks, NEW e \in {"sent", "ended"}, NEW n \in {1, -1}, Happens(k, e, n)
  PROVE  Types'
<1>1. task[k].worker \in WorkerClasses /\ Usage(k) \in Nat
  BY UsageType DEF Types
<1>2. load' \in Loads
  BY <1>1 DEF Types, Loads, Happens, UpdateWorkersState
<1>3. \A w \in WorkerClasses : AtLeast0(utilization[w] + n * Usage(k)) \in Nat
  <2> TAKE w \in WorkerClasses
  <2>1. utilization[w] \in Nat
    BY DEF Types
  <2>2. utilization[w] + n * Usage(k) \in Int
    BY <2>1, <1>1
  <2> QED BY <2>2, AtLeast0Type
<1>4. utilization' \in [WorkerClasses -> Nat]
  BY <1>1, <1>3 DEF Types, Happens, UpdateWorkersState
<1>5. task' \in [SeenTasks -> [class : TaskClasses, worker : WorkerClasses, handled : Histories]]
  BY HappensTask
<1> QED BY <1>2, <1>4, <1>5 DEF Types, Happens, UpdateWorkersState, windowVars

LEMMA DumpTypes ==
  ASSUME Types, NEW t \in Threads, NEW key \in Keys, Dump(t, key)
  PROVE  Types'
<1> DEFINE copy == [key |-> key, of |-> IF key = "load" THEN load ELSE utilization, at |-> EventsHandled]
<1>1. EventsHandled \in Nat
  BY HandledType
<1>2. utilization \in Loads /\ load \in Loads
  BY DEF Types, Loads
<1>3. copy \in [key : Keys \union {"none", "next"}, of : Loads, at : Nat]
  BY <1>1, <1>2
<1>4. uploads' = [uploads EXCEPT ![t] = copy]
  BY DEF Dump
<1>5. uploads' \in [Threads -> [key : Keys \union {"none", "next"}, of : Loads, at : Nat]]
  <2> HIDE DEF copy
  <2> QED BY <1>3, <1>4 DEF Types
<1>6. queued' \in Nat
  BY DEF Types, Dump
<1> QED BY <1>5, <1>6 DEF Types, Dump, stateVars, windowVars

LEMMA StoreTypes ==
  ASSUME Types, NEW t \in Threads, Store(t)
  PROVE  Types'
<1> DEFINE key == uploads[t].key
           next == IF key = "load" THEN [Idle EXCEPT !.key = "next"] ELSE Idle
           copy == [of |-> uploads[t].of, at |-> uploads[t].at]
<1>1. key \in Keys
  BY DEF Store
<1>2. uploads[t] \in [key : Keys \union {"none", "next"}, of : Loads, at : Nat]
  BY DEF Types
<1>3. next \in [key : Keys \union {"none", "next"}, of : Loads, at : Nat]
  BY DEF Idle, Loads
<1>4. copy \in [of : Loads, at : Nat]
  BY <1>2
<1>5. /\ uploads' = [uploads EXCEPT ![t] = next] /\ shared' = [shared EXCEPT ![key] = copy]
      /\ overtaken' = [overtaken EXCEPT ![key] = uploads[t].at < shared[key].at]
  BY DEF Store
<1>6. /\ uploads' \in [Threads -> [key : Keys \union {"none", "next"}, of : Loads, at : Nat]]
      /\ shared' \in [Keys -> [of : Loads, at : Nat]]
      /\ overtaken' \in [Keys -> BOOLEAN]
  <2> HIDE DEF next, copy, key
  <2> QED BY <1>1, <1>3, <1>4, <1>5 DEF Types
<1> QED BY <1>6 DEF Types, Store, stateVars, windowVars

LEMMA BeginStateTypes == ASSUME Types, BeginState PROVE Types'
BY DEF Types, BeginState, loadVars, uploadVars, windowVars

LEMMA AddUpLoadTypes == ASSUME Types, AddUpLoad PROVE Types'
<1>1. SumFunction(load) \in Int
  BY SumType, Constants DEF Types, Loads
<1>2. total' \in Int
  BY <1>1 DEF AddUpLoad, Types
<1> QED BY <1>2 DEF Types, AddUpLoad, loadVars, uploadVars, windowVars

(* What a feature is set to. *)
LEMMA UpdatedValues ==
  ASSUME Types, Place, UpdateFeature
  PROVE  /\ values' \in [Slots -> Shares]
         /\ update \in [feature : DOMAIN features.state, class : 0..NumWorkerClasses]
         /\ Updated \in FeatureNames \ {"action"}
         /\ Updated = "pool_load" =>
              /\ update.class \in WorkerClasses
              /\ values' = SetValue(values, "pool_load", update.class, PoolLoad(update.class, total))
         /\ Updated # "pool_load" =>
              \A w \in WorkerClasses : values'[<<"pool_load", w>>] = values[<<"pool_load", w>>]
<1>1. /\ update \in [feature : DOMAIN features.state, class : 0..NumWorkerClasses]
      /\ Len(states) < features.states
  BY DEF Place, UpdateFeature
<1>2. Updated \in FeatureNames \ {"action"}
  BY <1>1, ViewFacts DEF Updated
<1>3. CASE Updated = "task_class_type"
  <2> DEFINE k == Len(states) + 1
  <2>1. k \in SeenTasks
    <3>1. Len(states) \in Nat
      BY DEF Types
    <3> QED BY <3>1, <1>1, ViewFacts, Constants DEF SeenTasks
  <2>2. <<task[k].class, 1>> \in Shares
    <3>1. task[k].class \in TaskClasses
      BY <2>1 DEF Types
    <3> QED BY <3>1, Constants DEF Shares, TaskClasses
  <2>3. values' = [values EXCEPT ![<<"task_class_type", 0>>] = <<task[k].class, 1>>]
    BY <1>3 DEF UpdateFeature, SetValue
  <2> HIDE DEF k
  <2> QED BY <1>1, <1>2, <1>3, <2>2, <2>3, SlotFacts DEF Types
<1>4. CASE Updated = "pool_load"
  <2>1. update.class \in WorkerClasses
    BY <1>1, <1>4, Constants DEF UpdateFeature, WorkerClasses
  <2>2. PoolLoad(update.class, total) \in Shares
    BY <2>1, PoolLoadType DEF Types
  <2>3. values' = SetValue(values, "pool_load", update.class, PoolLoad(update.class, total))
    BY <1>4 DEF UpdateFeature
  <2> QED BY <1>1, <1>2, <1>4, <2>1, <2>2, <2>3, SlotFacts DEF Types, SetValue
<1>5. CASE Updated \notin {"task_class_type", "pool_load"}
  <2>1. Updated \in WindowKeys
    BY <1>2, <1>5 DEF FeatureNames, WindowKeys
  <2>2. values' = [s \in Slots |-> IF s[1] = Updated THEN Frequency(Updated, s[2]) ELSE values[s]]
    BY <1>5 DEF UpdateFeature
  <2>3. \A s \in Slots : values[s] \in Shares /\ Frequency(Updated, s[2]) \in Shares
    BY <2>1, FrequencyType DEF Types
  <2> QED BY <1>1, <1>2, <1>5, <2>2, <2>3, SlotFacts
<1> QED BY <1>3, <1>4, <1>5

(* What the last update leaves. *)
LEMMA StateCreated ==
  ASSUME Types, Place, UpdateFeature
  PROVE  \/ update'.feature = update.feature /\ update'.class = update.class + 1 /\ states' = states
            /\ Updated = "pool_load" /\ update.class < NumWorkerClasses
            /\ update' \in [feature : DOMAIN features.state, class : 0..NumWorkerClasses]
         \/ update' = [feature |-> update.feature + 1, class |-> 0] /\ states' = states
            /\ (Updated = "pool_load" => update.class = NumWorkerClasses)
            /\ update' \in [feature : DOMAIN features.state, class : 0..NumWorkerClasses]
         \/ update' = NoUpdate /\ update.feature = Len(features.state)
            /\ (Updated = "pool_load" => update.class = NumWorkerClasses)
            /\ states' = Append(states, [vector |-> Vector(features.state, values', features),
                                         load |-> load, clean |-> ~disturbed])
<1>1. /\ update \in [feature : DOMAIN features.state, class : 0..NumWorkerClasses]
      /\ update.feature \in 1..Len(features.state) /\ Len(features.state) \in Nat
      /\ update.class \in 0..NumWorkerClasses /\ NumWorkerClasses \in Nat
  BY UpdatedValues, ViewFacts, Constants
<1>2. CASE Updated = "pool_load" /\ update.class < NumWorkerClasses
  <2>1. update' = [update EXCEPT !.class = update.class + 1] /\ states' = states
    BY <1>2, <1>1 DEF UpdateFeature
  <2> QED BY <1>1, <1>2, <2>1
<1>3. CASE ~(Updated = "pool_load" /\ update.class < NumWorkerClasses)
  <2>1. Updated = "pool_load" => update.class = NumWorkerClasses
    BY <1>1, <1>3
  <2>2. CASE update.feature < Len(features.state)
    <3>1. update' = [feature |-> update.feature + 1, class |-> 0] /\ states' = states
      BY <1>3, <2>2 DEF UpdateFeature
    <3>2. update.feature + 1 \in DOMAIN features.state
      BY <1>1, <2>2, ViewFacts
    <3> QED BY <1>1, <2>1, <3>1, <3>2
  <2>3. CASE ~(update.feature < Len(features.state))
    <3>1. /\ update' = NoUpdate
          /\ states' = Append(states, [vector |-> Vector(features.state, values', features),
                                       load |-> load, clean |-> ~disturbed])
      BY <1>3, <2>3 DEF UpdateFeature
    <3> QED BY <1>1, <2>1, <2>3, <3>1
  <2> QED BY <2>2, <2>3
<1> QED BY <1>2, <1>3

LEMMA UpdateFeatureTypes == ASSUME Types, Place, UpdateFeature PROVE Types'
<1> DEFINE s == [vector |-> Vector(features.state, values', features), load |-> load, clean |-> ~disturbed]
<1>1. values' \in [Slots -> Shares]
  BY UpdatedValues
<1>2. s \in [vector : Seq(Seq(Shares)), load : Loads, clean : BOOLEAN]
  <2>1. features.state \in Seq(FeatureNames)
    BY ViewFacts
  <2>2. Vector(features.state, values', features) \in Seq(Seq(Shares))
    BY <1>1, <2>1, VectorType
  <2> QED BY <2>2 DEF Types
<1>3. states' = states \/ states' = Append(states, s)
  BY StateCreated
<1>4. states' \in Seq([vector : Seq(Seq(Shares)), load : Loads, clean : BOOLEAN])
  <2> DEFINE R == [vector : Seq(Seq(Shares)), load : Loads, clean : BOOLEAN]
  <2>1. states \in Seq(R) /\ s \in R
    BY <1>2 DEF Types
  <2> HIDE DEF s, R
  <2>2. states' \in Seq(R)
    BY <1>3, <2>1, AppendProperties
  <2> QED BY <2>2 DEF R
<1> QED BY <1>1, <1>4 DEF Types, UpdateFeature, loadVars, uploadVars, windowVars

ContextOf(k) == [a \in WorkerClasses |-> Vector(features.context, ContextValues(k, a), features)]

LEMMA ContextType ==
  ASSUME Types, NEW k \in SeenTasks
  PROVE  /\ ContextOf(k) \in [WorkerClasses -> Seq(Seq(Shares))]
         /\ \A a \in WorkerClasses : SizeOf(ContextOf(k)[a]) = ConfiguredSize(features.context, features)
<1> DEFINE read == shared["load"].of
<1>1. /\ read \in Loads /\ task[k].class \in TaskClasses
  BY DEF Types, Keys
<1>2. SumFunction(read) \in Int
  BY <1>1, SumType, Constants DEF Loads
<1>3. ASSUME NEW a \in WorkerClasses, NEW s \in Slots
      PROVE  ContextValues(k, a)[s] \in Shares
  <2> DEFINE val == CASE s[1] = "task_class_type" -> <<task[k].class, 1>>
                      [] s[1] = "action" -> <<a, 1>>
                      [] s[1] = "pool_load" ->
                           IF features.normalized THEN <<read[s[2]], WorkersOf[s[2]].replicas>>
                           ELSE Share(read[s[2]], SumFunction(read))
                      [] OTHER -> Zero
  <2>1. ContextValues(k, a)[s] = val
    BY DEF ContextValues
  <2>2. CASE s[1] = "task_class_type"
    BY <1>1, <2>1, <2>2 DEF Shares, TaskClasses
  <2>3. CASE s[1] = "action"
    BY <2>1, <2>3, Constants DEF Shares, WorkerClasses
  <2>4. CASE s[1] = "pool_load"
    <3>1. s[2] \in WorkerClasses
      BY <2>4 DEF Slots
    <3>2. read[s[2]] \in Int /\ WorkersOf[s[2]].replicas \in Nat \ {0}
      BY <1>1, <3>1, Constants DEF Loads
    <3>3. Share(read[s[2]], SumFunction(read)) \in Shares
      BY <1>2, <3>2, ShareType
    <3>4. <<read[s[2]], WorkersOf[s[2]].replicas>> \in Shares
      BY <3>2 DEF Shares
    <3>5. val = IF features.normalized THEN <<read[s[2]], WorkersOf[s[2]].replicas>>
                ELSE Share(read[s[2]], SumFunction(read))
      BY <2>4
    <3> HIDE DEF read, val
    <3> QED BY <2>1, <3>3, <3>4, <3>5
  <2>5. CASE s[1] \notin {"task_class_type", "action", "pool_load"}
    BY <2>1, <2>5 DEF Shares, Zero
  <2> QED BY <2>2, <2>3, <2>4, <2>5
<1>4. ASSUME NEW a \in WorkerClasses
      PROVE  ContextValues(k, a) \in [Slots -> Shares]
  <2>1. ContextValues(k, a) = [s \in Slots |-> ContextValues(k, a)[s]]
    BY DEF ContextValues
  <2> QED BY <1>3, <2>1
<1>5. features.context \in Seq(FeatureNames)
  BY ViewFacts
<1>6. \A a \in WorkerClasses :
        LET v == Vector(features.context, ContextValues(k, a), features)
        IN v \in Seq(Seq(Shares)) /\ SizeOf(v) = ConfiguredSize(features.context, features)
  BY <1>4, <1>5, VectorType
<1> QED BY <1>6 DEF ContextOf

(* The entries that are left to the pool with a choice. *)
NewPushes(k) ==
  {[id |-> k, key |-> f, phase |-> "waiting",
    value |-> IF f = "resource_usage" THEN task[k].worker ELSE task[k].class] :
     f \in {f \in WindowKeys : f \in ToSet(features.state)}}

LEMMA Chosen1 ==
  ASSUME Types, Choose
  PROVE  LET k == Len(contexts) + 1
         IN /\ k \in SeenTasks /\ k <= features.choices
            /\ contexts' = Append(contexts, ContextOf(k))
            /\ pushes' = pushes \union NewPushes(k)
            /\ \A p \in NewPushes(k) : p.phase = "waiting"
            /\ NewPushes(k) \subseteq [id : Nat, key : WindowKeys, phase : {"waiting", "added", "sent"}, value : Nat]
<1> DEFINE k == Len(contexts) + 1
<1>1. Len(contexts) \in Nat /\ k <= features.choices
  BY DEF Types, Choose
<1>2. k \in SeenTasks
  BY <1>1, ViewFacts, Constants DEF SeenTasks
<1>3. contexts' = Append(contexts, ContextOf(k)) /\ pushes' = pushes \union NewPushes(k)
  BY DEF Choose, ContextOf, NewPushes
<1>4. task[k].worker \in Nat /\ task[k].class \in Nat /\ k \in Nat
  <2>1. task[k].worker \in WorkerClasses /\ task[k].class \in TaskClasses
    BY <1>2 DEF Types
  <2> QED BY <1>1, <2>1 DEF WorkerClasses, TaskClasses
<1> HIDE DEF k
<1>5. /\ \A p \in NewPushes(k) : p.phase = "waiting"
      /\ NewPushes(k) \subseteq [id : Nat, key : WindowKeys, phase : {"waiting", "added", "sent"}, value : Nat]
  BY <1>4 DEF NewPushes
<1> QED BY <1>1, <1>2, <1>3, <1>5 DEF k

LEMMA ChooseTypes == ASSUME Types, Choose PROVE Types'
<1> DEFINE k == Len(contexts) + 1
           R == [WorkerClasses -> Seq(Seq(Shares))]
           P == [id : Nat, key : WindowKeys, phase : {"waiting", "added", "sent"}, value : Nat]
<1>1. contexts \in Seq(R) /\ ContextOf(k) \in R /\ contexts' = Append(contexts, ContextOf(k))
  BY Chosen1, ContextType DEF Types
<1>2. contexts' \in Seq(R)
  <2> HIDE DEF k, R
  <2> QED BY <1>1, AppendProperties
<1>3. pushes' \subseteq P
  <2>1. pushes \subseteq P /\ NewPushes(k) \subseteq P /\ pushes' = pushes \union NewPushes(k)
    BY Chosen1 DEF Types
  <2> HIDE DEF P, k
  <2> QED BY <2>1
<1> QED BY <1>2, <1>3 DEF Types, Choose, loadVars, uploadVars, stateVars

LEMMA TrimmedType ==
  ASSUME NEW list \in Seq(Nat)
  PROVE  Trimmed(list) \in Seq(Nat) /\ Len(Trimmed(list)) <= WindowSize /\ Len(Trimmed(list)) \in Nat
<1> DEFINE from == IF Len(list) > WindowSize THEN Len(list) - WindowSize + 1 ELSE 1
<1>1. WindowSize \in Nat \ {0} /\ Len(list) \in Nat
  BY Constants
<1>2. from \in 1..(Len(list) + 1) /\ Len(list) - from + 1 <= WindowSize
  BY <1>1
<1>3. Trimmed(list) = SubSeq(list, from, Len(list))
  BY DEF Trimmed
<1> HIDE DEF from
<1>4. /\ SubSeq(list, from, Len(list)) \in Seq(Nat)
      /\ Len(SubSeq(list, from, Len(list))) = IF from <= Len(list) THEN Len(list) - from + 1 ELSE 0
  BY <1>1, <1>2, SubSeqProperties
<1> QED BY <1>1, <1>2, <1>3, <1>4

LEMMA PushFacts ==
  ASSUME Types, NEW p \in pushes
  PROVE  /\ p \in [id : Nat, key : WindowKeys, phase : {"waiting", "added", "sent"}, value : Nat]
         /\ p.key \in WindowKeys /\ p.value \in Nat
         /\ \A ph \in {"waiting", "added", "sent"} :
              /\ [p EXCEPT !.phase = ph].key = p.key /\ [p EXCEPT !.phase = ph].value = p.value
              /\ [p EXCEPT !.phase = ph].phase = ph
              /\ [p EXCEPT !.phase = ph] \in [id : Nat, key : WindowKeys, phase : {"waiting", "added", "sent"}, value : Nat]
BY DEF Types

LEMMA AddCommandsTypes == ASSUME Types, NEW p \in pushes, AddCommands(p) PROVE Types'
<1>1. pushes' \subseteq [id : Nat, key : WindowKeys, phase : {"waiting", "added", "sent"}, value : Nat]
  BY PushFacts DEF Types, AddCommands
<1>2. pipeline' \in [WindowKeys -> Seq(Nat)] /\ entries' \in [WindowKeys -> Seq(Nat)]
  BY PushFacts DEF Types, AddCommands
<1>3. crossed' \in BOOLEAN
  BY DEF Types, AddCommands
<1> QED BY <1>1, <1>2, <1>3 DEF Types, AddCommands, loadVars, uploadVars, stateVars

LEMMA ExecuteTypes == ASSUME Types, NEW p \in pushes, Execute(p) PROVE Types'
<1>1. pushes' \subseteq [id : Nat, key : WindowKeys, phase : {"waiting", "added", "sent"}, value : Nat]
  BY PushFacts DEF Types, Execute
<1>2. \A k \in WindowKeys : window[k] \o pipeline[k] \in Seq(Nat)
  BY DEF Types
<1>3. \A k \in WindowKeys : Trimmed(window[k] \o pipeline[k]) \in Seq(Nat)
  BY <1>2, TrimmedType
<1>4. window' \in [WindowKeys -> Seq(Nat)]
  BY <1>3 DEF Execute
<1> QED BY <1>1, <1>4 DEF Types, Execute, loadVars, uploadVars, stateVars

LEMMA ResetPipelineTypes == ASSUME Types, NEW p \in pushes, ResetPipeline(p) PROVE Types'
<1>1. NoCommands \in [WindowKeys -> Seq(Nat)]
  BY DEF NoCommands
<1> QED BY <1>1 DEF Types, ResetPipeline, loadVars, uploadVars, stateVars

LEMMA PlaceStep == ASSUME Types, Place, FeaturesNext PROVE Place'
<1>1. ASSUME NEW k \in SeenTasks, OnTaskSent(k) \/ OnTaskEnd(k) PROVE Place'
  BY <1>1, EventHappens DEF Place, Happens, Updated
<1>2. ASSUME NEW t \in Threads, Store(t) \/ \E key \in Keys : Dump(t, key) PROVE Place'
  BY <1>2 DEF Place, Store, Dump, Updated, stateVars
<1>3. CASE BeginState
  <2>1. update' \in [feature : DOMAIN features.state, class : 0..NumWorkerClasses] /\ update'.class = 0
    BY <1>3, ViewFacts, Constants DEF BeginState
  <2> QED BY <1>3, <2>1 DEF Place, BeginState
<1>4. CASE AddUpLoad
  <2>1. update \in [feature : DOMAIN features.state, class : 0..NumWorkerClasses]
    BY <1>4 DEF AddUpLoad, Place
  <2>2. /\ update' = [feature |-> update.feature, class |-> 1]
        /\ update' \in [feature : DOMAIN features.state, class : 0..NumWorkerClasses]
    BY <1>4, <2>1, Constants DEF AddUpLoad
  <2> QED BY <1>4, <2>1, <2>2 DEF Place, AddUpLoad, Updated
<1>5. CASE UpdateFeature
  <2> DEFINE s == [vector |-> Vector(features.state, values', features), load |-> load, clean |-> ~disturbed]
  <2>1. /\ features' = features /\ contexts' = contexts /\ Len(states) < features.states
    BY <1>5 DEF UpdateFeature, Place
  <2>2. \/ states' = states /\ update' \in [feature : DOMAIN features.state, class : 0..NumWorkerClasses]
           /\ (update'.class # 0 => update'.feature = update.feature /\ Updated = "pool_load")
        \/ update' = NoUpdate /\ states' = Append(states, s)
    BY <1>5, StateCreated
  <2>3. Len(Append(states, s)) = Len(states) + 1 /\ Len(states) \in Nat
    BY DEF Types
  <2>4. features.states \in Nat
    BY ViewFacts
  <2> HIDE DEF s
  <2> QED BY <2>1, <2>2, <2>3, <2>4 DEF Place, Updated
<1>6. CASE Choose
  <2>1. Len(contexts') = Len(contexts) + 1 /\ Len(contexts) + 1 <= features.choices
    BY <1>6, Chosen1 DEF Types
  <2> QED BY <1>6, <2>1 DEF Place, Choose, stateVars, Updated
<1>7. ASSUME NEW p \in pushes, AddCommands(p) \/ Execute(p) \/ ResetPipeline(p) PROVE Place'
  BY <1>7 DEF Place, AddCommands, Execute, ResetPipeline, stateVars, Updated
<1> QED BY <1>1, <1>2, <1>3, <1>4, <1>5, <1>6, <1>7 DEF FeaturesNext, Threads

LEMMA TypesStep == ASSUME Types, Place, FeaturesNext PROVE Types'
<1>1. ASSUME NEW k \in SeenTasks, OnTaskSent(k) PROVE Types'
  BY <1>1, EventHappens, EventTypes
<1>2. ASSUME NEW k \in SeenTasks, OnTaskEnd(k) PROVE Types'
  BY <1>2, EventHappens, EventTypes
<1>3. ASSUME NEW t \in Threads, Store(t) PROVE Types'
  BY <1>3, StoreTypes
<1>4. ASSUME NEW t \in Threads, NEW key \in Keys, Dump(t, key) PROVE Types'
  BY <1>4, DumpTypes
<1>5. ASSUME NEW p \in pushes, AddCommands(p) \/ Execute(p) \/ ResetPipeline(p) PROVE Types'
  BY <1>5, AddCommandsTypes, ExecuteTypes, ResetPipelineTypes
<1> QED BY <1>1, <1>2, <1>3, <1>4, <1>5, BeginStateTypes, AddUpLoadTypes, UpdateFeatureTypes, ChooseTypes
        DEF FeaturesNext, Threads

-----------------------------------------------------------------------------
(* Sizes and rewards.                                                       *)

LEMMA WindowSizes ==
  ASSUME Types, \A k \in WindowKeys : Len(window[k]) <= WindowSize, FeaturesNext
  PROVE  \A k \in WindowKeys : Len(window'[k]) <= WindowSize
<1>1. ASSUME NEW p \in pushes, Execute(p) PROVE \A k \in WindowKeys : Len(window'[k]) <= WindowSize
  <2> TAKE k \in WindowKeys
  <2>1. window[k] \o pipeline[k] \in Seq(Nat)
    BY DEF Types
  <2>2. window'[k] = Trimmed(window[k] \o pipeline[k])
    BY <1>1 DEF Execute
  <2> QED BY <2>1, <2>2, TrimmedType
<1>2. CASE window' = window
  BY <1>2
<1>3. \/ \E p \in pushes : Execute(p)
      \/ window' = window
  BY DEF FeaturesNext, OnTaskSent, OnTaskEnd, Store, Dump, BeginState, AddUpLoad, UpdateFeature, Choose,
         AddCommands, ResetPipeline, windowVars
<1> QED BY <1>1, <1>2, <1>3

LEMMA RangeAppend ==
  ASSUME NEW R, NEW q \in Seq(R), NEW e
  PROVE  \A x \in Range(Append(q, e)) : x \in Range(q) \/ x = e
<1>1. \A i \in DOMAIN Append(q, e) : (i \in DOMAIN q /\ Append(q, e)[i] = q[i]) \/ Append(q, e)[i] = e
  OBVIOUS
<1> QED BY <1>1 DEF Range

LEMMA StatesBecome ==
  ASSUME Types, Place, FeaturesNext
  PROVE  \/ states' = states
         \/ UpdateFeature /\ states' = Append(states, [vector |-> Vector(features.state, values', features),
                                                       load |-> load, clean |-> ~disturbed])
<1>1. UpdateFeature \/ states' = states
  BY DEF FeaturesNext, OnTaskSent, OnTaskEnd, Store, Dump, BeginState, AddUpLoad, Choose,
         AddCommands, Execute, ResetPipeline, windowVars, stateVars
<1> QED BY <1>1, StateCreated

LEMMA FeaturesKept == ASSUME FeaturesNext PROVE features' = features
BY DEF FeaturesNext, OnTaskSent, OnTaskEnd, Store, Dump, BeginState, AddUpLoad, UpdateFeature, Choose,
       AddCommands, Execute, ResetPipeline

LEMMA StateSizes ==
  ASSUME Types, Place, FeaturesNext,
         \A s \in Range(states) : SizeOf(s.vector) = ConfiguredSize(features.state, features)
  PROVE  \A s \in Range(states') : SizeOf(s.vector) = ConfiguredSize(features.state, features)
<1> DEFINE s == [vector |-> Vector(features.state, values', features), load |-> load, clean |-> ~disturbed]
<1>1. CASE states' = states
  BY <1>1
<1>2. CASE UpdateFeature /\ states' = Append(states, s)
  <2>1. SizeOf(s.vector) = ConfiguredSize(features.state, features)
    <3>1. features.state \in Seq(FeatureNames)
      BY ViewFacts
    <3>2. values' \in [Slots -> Shares]
      BY <1>2, UpdatedValues
    <3> QED BY <3>1, <3>2, VectorType
  <2>2. \E R : states \in Seq(R)
    BY DEF Types
  <2>3. \A x \in Range(states') : x \in Range(states) \/ x = s
    <3> HIDE DEF s
    <3> QED BY <1>2, <2>2, RangeAppend
  <2> HIDE DEF s
  <2> QED BY <2>1, <2>3
<1> QED BY <1>1, <1>2, StatesBecome

LEMMA ContextSizes ==
  ASSUME Types, FeaturesNext,
         \A c \in Range(contexts), a \in WorkerClasses : SizeOf(c[a]) = ConfiguredSize(features.context, features)
  PROVE  \A c \in Range(contexts'), a \in WorkerClasses : SizeOf(c[a]) = ConfiguredSize(features.context, features)
<1> DEFINE c == ContextOf(Len(contexts) + 1)
<1>1. CASE Choose
  <2>1. contexts' = Append(contexts, c) /\ \A a \in WorkerClasses : SizeOf(c[a]) = ConfiguredSize(features.context, features)
    BY <1>1, Chosen1, ContextType
  <2>2. \E R : contexts \in Seq(R)
    BY DEF Types
  <2> HIDE DEF c
  <2>3. \A x \in Range(contexts') : x \in Range(contexts) \/ x = c
    BY <2>1, <2>2, RangeAppend
  <2> QED BY <2>1, <2>3
<1>2. CASE contexts' = contexts
  BY <1>2
<1>3. Choose \/ contexts' = contexts
  BY DEF FeaturesNext, OnTaskSent, OnTaskEnd, Store, Dump, BeginState, AddUpLoad, UpdateFeature,
         AddCommands, Execute, ResetPipeline
<1> QED BY <1>1, <1>2, <1>3

LEMMA SizesStep == ASSUME Types, Place, FeaturesTypeOK, FeaturesNext PROVE FeaturesTypeOK'
<1>1. Types' /\ features' = features
  BY TypesStep, FeaturesKept
<1>2. load' \in [WorkerClasses -> Int] /\ utilization' \in [WorkerClasses -> Nat] /\ values' \in [Slots -> Shares]
  BY <1>1 DEF Types, Loads
<1> QED BY <1>1, <1>2, WindowSizes, StateSizes, ContextSizes DEF FeaturesTypeOK, Shares

(* A time that is negative counts as none; costs and replicas are counted. *)
LEMMA RewardSign ==
  ASSUME Types, NEW k \in SeenTasks, NEW wait \in Waits, NEW runtime \in Runtimes
  PROVE  RewardOf(k, wait, runtime) \in Int /\ RewardOf(k, wait, runtime) <= 0
<1> DEFINE w == WorkersOf[task[k].worker]
<1>1. wait \in Int /\ runtime \in Nat
  BY Constants
<1>2. w.cost \in Nat /\ w.replicas \in Nat
  <2>1. task[k].worker \in WorkerClasses
    BY DEF Types
  <2> QED BY <2>1, Constants
<1>3. CASE features.reward = "waiting-time"
  BY <1>1, <1>3 DEF RewardOf, Waited
<1>4. CASE features.reward = "execution-time"
  BY <1>1, <1>4 DEF RewardOf
<1>5. CASE features.reward = "execution-cost"
  <2> DEFINE n == IF features.market THEN w.replicas ELSE 1
  <2>1. n \in Nat
    BY <1>2
  <2>2. RewardOf(k, wait, runtime) = - (runtime * w.cost * n)
    BY <1>5 DEF RewardOf
  <2> HIDE DEF n, w
  <2>3. runtime * w.cost \in Nat
    BY <1>1, <1>2
  <2>4. \A a, b \in Nat : a * b \in Nat
    OBVIOUS
  <2>5. runtime * w.cost * n \in Nat
    BY <2>1, <2>3, <2>4
  <2> QED BY <2>2, <2>5
<1> QED BY <1>3, <1>4, <1>5, ViewFacts

Rewarded == reward \in [SeenTasks -> SUBSET Int] /\ NoRewardIsPositive

LEMMA RewardsStep == ASSUME Types, Rewarded, FeaturesNext PROVE Rewarded'
<1>1. CASE reward' = reward
  BY <1>1 DEF NoRewardIsPositive, Rewarded
<1>2. ASSUME NEW k \in SeenTasks, NEW wait \in Waits, NEW runtime \in Runtimes,
             reward' = [reward EXCEPT ![k] = {RewardOf(k, wait, runtime)}]
      PROVE  Rewarded'
  <2> DEFINE r == RewardOf(k, wait, runtime)
  <2>1. r \in Int /\ r <= 0
    BY RewardSign
  <2> HIDE DEF r
  <2>2. reward' = [reward EXCEPT ![k] = {r}]
    BY <1>2 DEF r
  <2> QED BY <2>1, <2>2 DEF NoRewardIsPositive, Rewarded
<1>3. \/ reward' = reward
      \/ \E k \in SeenTasks, wait \in Waits, runtime \in Runtimes :
           reward' = [reward EXCEPT ![k] = {RewardOf(k, wait, runtime)}]
  BY DEF FeaturesNext, OnTaskSent, OnTaskEnd, Store, Dump, BeginState, AddUpLoad, UpdateFeature, Choose,
         AddCommands, Execute, ResetPipeline
<1> QED BY <1>1, <1>2, <1>3

-----------------------------------------------------------------------------
(* The load in a state.                                                     *)

(* What a state must show that no event has disturbed. *)
ShowsLoad(shown, of) ==
  IF features.normalized THEN \A w \in WorkerClasses : shown[w] = <<of[w], WorkersOf[w].replicas>>
  ELSE \/ SumFunction(of) <= 0 /\ Range(shown) = {Zero}
       \/ SumFunction([w \in WorkerClasses |-> shown[w][1]]) = SumFunction(of)
          /\ \A w \in WorkerClasses : shown[w] = <<of[w], SumFunction(of)>>

LEMMA FilledShows ==
  ASSUME Types, NEW sum, NEW shown \in [WorkerClasses -> Shares],
         features.normalized \/ sum = SumFunction(load),
         \A w \in WorkerClasses : shown[w] = PoolLoad(w, sum)
  PROVE  ShowsLoad(shown, load)
<1>1. CASE features.normalized
  BY <1>1 DEF ShowsLoad, PoolLoad
<1>2. CASE ~features.normalized /\ SumFunction(load) > 0
  <2>1. \A w \in WorkerClasses : shown[w] = <<load[w], SumFunction(load)>>
    BY <1>2 DEF PoolLoad, Share
  <2>2. load = [w \in WorkerClasses |-> load[w]]
    BY DEF Types, Loads
  <2>3. [w \in WorkerClasses |-> shown[w][1]] = load
    BY <2>1, <2>2
  <2> QED BY <1>2, <2>1, <2>3 DEF ShowsLoad
<1>3. CASE ~features.normalized /\ ~(SumFunction(load) > 0)
  <2>1. SumFunction(load) \in Int
    BY SumType, Constants DEF Types, Loads
  <2>2. \A w \in WorkerClasses : shown[w] = Zero
    BY <1>3 DEF PoolLoad, Share
  <2>3. 1 \in WorkerClasses /\ DOMAIN shown = WorkerClasses
    BY Constants DEF WorkerClasses
  <2>4. Range(shown) = {Zero}
    BY <2>2, <2>3 DEF Range
  <2> QED BY <1>3, <2>1, <2>4 DEF ShowsLoad
<1> QED BY <1>1, <1>2, <1>3

(* What is updated while the load stays as it is, is not disturbed. *)
LEMMA FillingEvent ==
  ASSUME Types, FeaturesNext, ~AddUpLoad, ~UpdateFeature, ~BeginState, Filling
  PROVE  Filling'
<1>1. \/ disturbed' = TRUE
      \/ UNCHANGED <<update, disturbed, features, total, values, load>>
  BY DEF FeaturesNext, OnTaskSent, OnTaskEnd, Store, Dump, Choose, UpdateWorkersState,
         AddCommands, Execute, ResetPipeline, loadVars, stateVars
<1> QED BY <1>1 DEF Filling, SummedUp, Filled, PoolLoad, Updated

LEMMA FillingBegins == ASSUME Types, BeginState PROVE Filling'
<1>1. update' = [feature |-> 1, class |-> 0]
  BY DEF BeginState
<1>2. ~\E i \in 1..(update'.feature - 1) : features'.state[i] = "pool_load"
  BY <1>1
<1> QED BY <1>1, <1>2 DEF Filling

LEMMA FillingAdded == ASSUME Types, Place, AddUpLoad PROVE Filling'
<1>1. update'.class = 1
  BY DEF AddUpLoad, Place
<1>2. features' = features /\ load' = load /\ (features.normalized \/ total' = SumFunction(load))
  BY DEF AddUpLoad, loadVars
<1> QED BY <1>1, <1>2 DEF Filling, SummedUp, Filled

(* The update of one more class, and of one more feature. *)
LEMMA FilledMore ==
  ASSUME Types, Place, UpdateFeature, Filling, ~disturbed
  PROVE  /\ Updated = "pool_load" =>
              /\ SummedUp
              /\ \A w \in 1..update.class : values'[<<"pool_load", w>>] = PoolLoad(w, total)
         /\ Updated # "pool_load" /\ (\E i \in 1..(update.feature - 1) : features.state[i] = "pool_load") =>
              /\ SummedUp
              /\ \A w \in WorkerClasses : values'[<<"pool_load", w>>] = PoolLoad(w, total)
<1>1. update # NoUpdate /\ update \in [feature : DOMAIN features.state, class : 0..NumWorkerClasses]
  BY UpdatedValues DEF UpdateFeature
<1>2. CASE Updated = "pool_load"
  <2>1. update.class \in WorkerClasses /\ values' = [values EXCEPT ![<<"pool_load", update.class>>] = PoolLoad(update.class, total)]
    BY <1>2, UpdatedValues DEF SetValue
  <2>2. update.class # 0 /\ update.class \in Nat /\ update.class <= NumWorkerClasses
    BY <2>1, Constants DEF WorkerClasses
  <2>3. SummedUp /\ Filled(update.class - 1)
    BY <1>1, <2>2 DEF Filling
  <2>4. ASSUME NEW w \in 1..update.class PROVE values'[<<"pool_load", w>>] = PoolLoad(w, total)
    <3>0. w \in WorkerClasses
      BY <2>2, Constants DEF WorkerClasses
    <3>1. w \in WorkerClasses /\ <<"pool_load", w>> \in Slots
      BY <3>0, SlotFacts
    <3>2. CASE w = update.class
      BY <2>1, <3>1, <3>2 DEF Types
    <3>3. CASE w # update.class
      <4>1. w \in 1..(update.class - 1)
        BY <2>2, <3>3
      <4>2. values[<<"pool_load", w>>] = PoolLoad(w, total)
        BY <2>3, <4>1 DEF Filled
      <4>3. <<"pool_load", w>> # <<"pool_load", update.class>>
        BY <3>3
      <4> QED BY <2>1, <3>1, <4>2, <4>3 DEF Types
    <3> QED BY <3>2, <3>3
  <2> QED BY <1>2, <2>3, <2>4
<1>3. CASE Updated # "pool_load" /\ \E i \in 1..(update.feature - 1) : features.state[i] = "pool_load"
  <2>1. update.class = 0
    BY <1>1, <1>3 DEF Place
  <2>2. SummedUp /\ Filled(NumWorkerClasses)
    BY <1>1, <1>3, <2>1 DEF Filling
  <2>3. \A w \in WorkerClasses : values'[<<"pool_load", w>>] = values[<<"pool_load", w>>]
    BY <1>3, UpdatedValues
  <2> QED BY <1>3, <2>2, <2>3 DEF Filled, WorkerClasses
<1> QED BY <1>2, <1>3

LEMMA FillingUpdated == ASSUME Types, Place, UpdateFeature, Filling PROVE Filling'
<1> DEFINE Now(n) == /\ SummedUp
                     /\ \A w \in 1..n : values'[<<"pool_load", w>>] = PoolLoad(w, total)
<1> SUFFICES ASSUME update' # NoUpdate, ~disturbed'
             PROVE  /\ update'.class # 0 => Now(update'.class - 1)
                    /\ update'.class = 0 /\ (\E i \in 1..(update'.feature - 1) : features.state[i] = "pool_load") =>
                         Now(NumWorkerClasses)
  BY DEF Filling, Filled, SummedUp, PoolLoad, UpdateFeature, loadVars
<1>1. UNCHANGED <<features, load, total, disturbed>> /\ ~disturbed
  BY DEF UpdateFeature, loadVars
<1>3. update \in [feature : DOMAIN features.state, class : 0..NumWorkerClasses] /\ update.class \in Nat
  BY UpdatedValues, Constants
<1>4. update.feature \in Nat /\ NumWorkerClasses \in Nat \ {0}
  BY <1>3, ViewFacts, Constants
<1>5. CASE update'.feature = update.feature /\ update'.class = update.class + 1 /\ Updated = "pool_load"
  <2>1. SummedUp /\ \A w \in 1..update.class : values'[<<"pool_load", w>>] = PoolLoad(w, total)
    BY <1>1, <1>5, FilledMore
  <2>2. update'.class - 1 = update.class /\ update'.class # 0
    BY <1>3, <1>5
  <2> QED BY <2>1, <2>2
<1>6. CASE /\ update' = [feature |-> update.feature + 1, class |-> 0]
           /\ Updated = "pool_load" => update.class = NumWorkerClasses
  <2> SUFFICES ASSUME \E i \in 1..update.feature : features.state[i] = "pool_load"
               PROVE  Now(NumWorkerClasses)
    BY <1>4, <1>6
  <2>1. SummedUp /\ \A w \in 1..NumWorkerClasses : values'[<<"pool_load", w>>] = PoolLoad(w, total)
    <3>1. CASE Updated = "pool_load"
      BY <1>1, <1>6, <3>1, FilledMore
    <3>2. CASE Updated # "pool_load"
      <4>1. \E i \in 1..(update.feature - 1) : features.state[i] = "pool_load"
        BY <1>4, <3>2 DEF Updated
      <4> QED BY <1>1, <3>2, <4>1, FilledMore DEF WorkerClasses
    <3> QED BY <3>1, <3>2
  <2> QED BY <2>1
<1> QED BY <1>5, <1>6, StateCreated

LEMMA FillingStep == ASSUME Types, Place, Filling, FeaturesNext PROVE Filling'
BY FillingEvent, FillingBegins, FillingAdded, FillingUpdated

(* A state that is added shows the load. *)
LEMMA CreatedShows ==
  ASSUME Types, Place, Filling, UpdateFeature, update' = NoUpdate, ~disturbed, NEW i \in DOMAIN features.state,
         features.state[i] = "pool_load"
  PROVE  ShowsLoad(Vector(features.state, values', features)[i], load)
<1> DEFINE shown == Vector(features.state, values', features)[i]
<1>1. /\ update.feature = Len(features.state) /\ (Updated = "pool_load" => update.class = NumWorkerClasses)
  <2>1. update' = NoUpdate => update'.feature = 0 /\ update'.class = 0
    BY DEF NoUpdate
  <2>2. update \in [feature : DOMAIN features.state, class : 0..NumWorkerClasses] /\ update.feature \in Nat
    BY UpdatedValues, ViewFacts
  <2>3. update.feature # 0
    BY <2>2, ViewFacts
  <2> QED BY <2>1, <2>2, <2>3, StateCreated
<1>2. SummedUp /\ \A w \in WorkerClasses : values'[<<"pool_load", w>>] = PoolLoad(w, total)
  <2>1. CASE Updated = "pool_load"
    BY <1>1, <2>1, FilledMore DEF WorkerClasses
  <2>2. CASE Updated # "pool_load"
    <3>1. i # update.feature /\ i \in 1..Len(features.state) /\ Len(features.state) \in Nat
      BY <2>2, ViewFacts DEF Updated
    <3>2. i \in 1..(update.feature - 1)
      BY <1>1, <3>1
    <3> QED BY <2>2, <3>2, FilledMore
  <2> QED BY <2>1, <2>2
<1>3. shown = [w \in WorkerClasses |-> values'[<<"pool_load", w>>]]
  BY DEF Vector, Dummy, ClassesOf, WorkerClasses
<1>4. \A w \in WorkerClasses : values'[<<"pool_load", w>>] \in Shares
  BY UpdatedValues, SlotFacts
<1>5. shown \in [WorkerClasses -> Shares] /\ \A w \in WorkerClasses : shown[w] = PoolLoad(w, total)
  <2> HIDE DEF shown
  <2> QED BY <1>2, <1>3, <1>4
<1> HIDE DEF shown
<1>6. ShowsLoad(shown, load)
  BY <1>2, <1>5, FilledShows DEF SummedUp
<1> QED BY <1>6 DEF shown

StateShows(s) ==
  s.clean => \A i \in DOMAIN features.state :
               features.state[i] = "pool_load" => ShowsLoad(s.vector[i], s.load)

LEMMA AddsUpIs == PoolLoadAddsUp <=> \A s \in Range(states) : StateShows(s)
BY DEF PoolLoadAddsUp, StateShows, ShowsLoad

LEMMA AddsUpStep == ASSUME Types, Place, Filling, PoolLoadAddsUp, FeaturesNext PROVE PoolLoadAddsUp'
<1> DEFINE s == [vector |-> Vector(features.state, values', features), load |-> load, clean |-> ~disturbed]
<1>1. features' = features
  BY FeaturesKept
<1>2. \A r \in Range(states) : StateShows(r)
  BY AddsUpIs
<1>3. \A r \in Range(states') : StateShows(r)
  <2>1. CASE states' = states
    BY <1>2, <2>1
  <2>2. CASE UpdateFeature /\ states' = Append(states, s) /\ update' = NoUpdate
    <3>1. StateShows(s)
      BY <2>2, CreatedShows DEF StateShows
    <3>2. \E R : states \in Seq(R)
      BY DEF Types
    <3> HIDE DEF s
    <3>3. \A x \in Range(states') : x \in Range(states) \/ x = s
      BY <2>2, <3>2, RangeAppend
    <3> QED BY <1>2, <3>1, <3>3
  <2>3. \/ states' = states
        \/ UpdateFeature /\ states' = Append(states, s) /\ update' = NoUpdate
    <3>1. CASE UpdateFeature
      BY <3>1, StateCreated
    <3>2. CASE ~UpdateFeature
      BY <3>2, StatesBecome
    <3> QED BY <3>1, <3>2
  <2> QED BY <2>1, <2>2, <2>3
<1>4. \A r : StateShows(r)' <=> StateShows(r)
  BY <1>1 DEF StateShows, ShowsLoad
<1>5. PoolLoadAddsUp' <=> \A r \in Range(states') : StateShows(r)'
  BY DEF PoolLoadAddsUp, StateShows, ShowsLoad
<1> QED BY <1>3, <1>4, <1>5

-----------------------------------------------------------------------------
(* What is in use.                                                          *)

SentFirst(w) ==
  \A k \in SeenTasks : task[k].worker = w /\ task[k].handled # <<>> => task[k].handled[1] = "sent"
InUse(w) == [k \in SeenTasks |-> IF task[k].worker = w /\ task[k].handled = <<"sent">> THEN Usage(k) ELSE 0]

LEMMA InUseType ==
  ASSUME Types, NEW w
  PROVE  /\ InUse(w) \in [SeenTasks -> Int] /\ \A k \in SeenTasks : InUse(w)[k] >= 0
         /\ SumFunction(InUse(w)) \in Nat
<1>1. InUse(w) \in [SeenTasks -> Int] /\ \A k \in SeenTasks : InUse(w)[k] >= 0
  BY UsageType DEF InUse
<1> QED BY <1>1, SumType, Constants

(* The first event of a task stays the first; one whose first is the sending gives back at its end *)
(* what it took.                                                                                    *)
LEMMA FirstStays ==
  ASSUME NEW h \in Histories, NEW e \in {"sent", "ended"}, e \notin ToSet(h), Append(h, e)[1] = "sent"
  PROVE  /\ e = "sent" => h = <<>> /\ Append(h, e) = <<"sent">>
         /\ e = "ended" => h = <<"sent">> /\ Append(h, e) # <<"sent">>
         /\ h # <<>> => h[1] = "sent"
<1>1. \A s \in DOMAIN h : h[s] # e
  BY DEF ToSet
<1>2. CASE h = <<>>
  BY <1>2
<1>3. CASE h = <<"sent">>
  <2>1. h[1] = "sent" /\ 1 \in DOMAIN h /\ Len(h) = 1
    BY <1>3
  <2>2. e = "ended"
    BY <1>1, <2>1
  <2>3. Append(h, e) = <<"sent", "ended">>
    BY <1>3, <2>2, AppendToOne
  <2> QED BY <1>3, <2>2, <2>3
<1>4. CASE h = <<"ended">>
  <2>1. h[1] = "ended" /\ 1 \in DOMAIN h
    BY <1>4
  <2>2. e = "sent"
    BY <1>1, <2>1
  <2>3. Append(h, e) = <<"ended", "sent">>
    BY <1>4, <2>2, AppendToOne
  <2> QED BY <2>3
<1>5. CASE h = <<"sent", "ended">> \/ h = <<"ended", "sent">>
  <2>1. 1 \in DOMAIN h /\ 2 \in DOMAIN h /\ {h[1], h[2]} = {"sent", "ended"}
    BY <1>5
  <2> QED BY <1>1, <2>1
<1> QED BY <1>2, <1>3, <1>4, <1>5 DEF Histories

LEMMA DrainsEvent ==
  ASSUME Types, UtilizationDrains, NEW k \in SeenTasks, NEW e, NEW n,
         (e = "sent" /\ n = 1) \/ (e = "ended" /\ n = -1), Happens(k, e, n)
  PROVE  UtilizationDrains'
<1>0. e \in {"sent", "ended"} /\ n \in {1, -1} /\ task[k].handled \in Histories /\ task[k].worker \in WorkerClasses
  BY DEF Types
<1>1. /\ \A j \in SeenTasks : task'[j].worker = task[j].worker
      /\ \A j \in SeenTasks : j # k => task'[j] = task[j]
      /\ task'[k].handled = Append(task[k].handled, e)
      /\ \A j \in SeenTasks : Usage(j)' = Usage(j)
      /\ e \notin ToSet(task[k].handled)
  BY <1>0, HappensTask DEF Happens
<1>2. SUFFICES ASSUME NEW w \in WorkerClasses, SentFirst(w)'
               PROVE  utilization'[w] = SumFunction(InUse(w)')
  BY DEF UtilizationDrains, SentFirst, InUse
<1>3. task[k].worker = w => Append(task[k].handled, e)[1] = "sent"
  <2>1. Append(task[k].handled, e) # <<>>
    BY <1>0, HistoryGrows, <1>1 DEF Histories
  <2> QED BY <1>1, <1>2, <2>1 DEF SentFirst
<1>4. SentFirst(w)
  <2> SUFFICES ASSUME NEW j \in SeenTasks, task[j].worker = w, task[j].handled # <<>>
               PROVE  task[j].handled[1] = "sent"
    BY DEF SentFirst
  <2>1. CASE j = k
    BY <2>1, <1>0, <1>1, <1>3, FirstStays
  <2>2. CASE j # k
    BY <2>2, <1>1, <1>2 DEF SentFirst
  <2> QED BY <2>1, <2>2
<1>5. utilization[w] = SumFunction(InUse(w)) /\ utilization[w] \in Nat
  BY <1>4 DEF UtilizationDrains, SentFirst, InUse, Types
<1>6. Types'
  BY <1>0, EventTypes
<1>7. /\ InUse(w) \in [SeenTasks -> Int] /\ InUse(w)' \in [SeenTasks -> Int]
      /\ SumFunction(InUse(w)) \in Nat /\ SumFunction(InUse(w)') \in Nat
  <2>1. /\ InUse(w) \in [SeenTasks -> Int] /\ SumFunction(InUse(w)) \in Nat
    BY InUseType
  <2>2. /\ InUse(w)' \in [SeenTasks -> Int] /\ \A j \in SeenTasks : InUse(w)'[j] >= 0
    <3>1. \A j \in SeenTasks : Usage(j)' \in Nat
      BY <1>1, UsageType
    <3> QED BY <3>1 DEF InUse
  <2>3. SumFunction(InUse(w)') \in Nat
    BY <2>2, SumType, Constants
  <2> QED BY <2>1, <2>2, <2>3
<1>8. /\ \A j \in SeenTasks : j # k => InUse(w)'[j] = InUse(w)[j]
      /\ InUse(w)'[k] = IF task[k].worker = w /\ Append(task[k].handled, e) = <<"sent">> THEN Usage(k) ELSE 0
      /\ InUse(w)[k] = IF task[k].worker = w /\ task[k].handled = <<"sent">> THEN Usage(k) ELSE 0
  BY <1>1 DEF InUse
<1>9. SumFunction(InUse(w)') = SumFunction(InUse(w)) + InUse(w)'[k] - InUse(w)[k]
  <2> DEFINE f == InUse(w)
             g == InUse(w)'
  <2>1. f \in [SeenTasks -> Int] /\ g \in [SeenTasks -> Int] /\ \A j \in SeenTasks : j # k => g[j] = f[j]
    BY <1>7, <1>8
  <2> HIDE DEF f, g
  <2>2. SumFunction(g) = SumFunction(f) + g[k] - f[k]
    BY <2>1, SumChanges, Constants
  <2> QED BY <2>2 DEF f, g
<1>10. Usage(k) \in Nat
  BY UsageType
<1>11. CASE task[k].worker # w
  <2>1. utilization'[w] = utilization[w]
    BY <1>11, <1>0 DEF Happens, UpdateWorkersState, Types
  <2>2. InUse(w)'[k] = 0 /\ InUse(w)[k] = 0
    BY <1>8, <1>11
  <2> QED BY <1>5, <1>7, <1>9, <2>1, <2>2
<1>12. CASE task[k].worker = w /\ e = "sent"
  <2>1. task[k].handled = <<>> /\ Append(task[k].handled, e) = <<"sent">>
    BY <1>12, <1>0, <1>1, <1>3, FirstStays
  <2>2. InUse(w)'[k] = Usage(k) /\ InUse(w)[k] = 0
    BY <1>8, <1>12, <2>1
  <2>3. utilization'[w] = AtLeast0(utilization[w] + 1 * Usage(k))
    BY <1>12, <1>0 DEF Happens, UpdateWorkersState, Types
  <2> QED BY <1>5, <1>7, <1>9, <1>10, <2>2, <2>3 DEF AtLeast0
<1>13. CASE task[k].worker = w /\ e = "ended"
  <2>1. task[k].handled = <<"sent">> /\ Append(task[k].handled, e) # <<"sent">>
    BY <1>13, <1>0, <1>1, <1>3, FirstStays
  <2>2. InUse(w)'[k] = 0 /\ InUse(w)[k] = Usage(k)
    BY <1>8, <1>13, <2>1
  <2>3. utilization'[w] = AtLeast0(utilization[w] + (-1) * Usage(k))
    BY <1>13, <1>0 DEF Happens, UpdateWorkersState, Types
  <2> QED BY <1>5, <1>7, <1>9, <1>10, <2>2, <2>3 DEF AtLeast0
<1> QED BY <1>0, <1>11, <1>12, <1>13

LEMMA DrainsStep == ASSUME Types, UtilizationDrains, FeaturesNext PROVE UtilizationDrains'
<1>1. ASSUME NEW k \in SeenTasks, OnTaskSent(k) PROVE UtilizationDrains'
  BY <1>1, EventHappens, DrainsEvent
<1>2. ASSUME NEW k \in SeenTasks, OnTaskEnd(k) PROVE UtilizationDrains'
  BY <1>2, EventHappens, DrainsEvent
<1>3. CASE UNCHANGED <<utilization, task, features>>
  <2>1. \A w : InUse(w)' = InUse(w) /\ (SentFirst(w)' <=> SentFirst(w))
    BY <1>3 DEF InUse, SentFirst, Usage
  <2>2. SUFFICES ASSUME NEW w \in WorkerClasses, SentFirst(w)'
                 PROVE  utilization'[w] = SumFunction(InUse(w)')
    BY DEF UtilizationDrains, SentFirst, InUse
  <2>3. utilization[w] = SumFunction(InUse(w))
    <3>1. SentFirst(w)
      BY <2>1, <2>2
    <3> QED BY <3>1 DEF UtilizationDrains, SentFirst, InUse
  <2> QED BY <1>3, <2>1, <2>3
<1>4. \/ \E k \in SeenTasks : OnTaskSent(k) \/ OnTaskEnd(k)
      \/ UNCHANGED <<utilization, task, features>>
  BY DEF FeaturesNext, Store, Dump, BeginState, AddUpLoad, UpdateFeature, Choose,
         AddCommands, Execute, ResetPipeline, loadVars
<1> QED BY <1>1, <1>2, <1>3, <1>4

-----------------------------------------------------------------------------
(* The copies in redis.                                                     *)

Copying == Copies /\ Newer /\ LastCopy

LEMMA CopyingEvent ==
  ASSUME Types, Copying, NEW k \in SeenTasks, NEW e \in {"sent", "ended"}, NEW n, Happens(k, e, n)
  PROVE  Copying'
<1>1. EventsHandled' = EventsHandled + 1 /\ EventsHandled \in Nat
  BY HappensTask, HandledType
<1>2. UNCHANGED <<uploads, shared, overtaken>> /\ queued' > 0
  BY DEF Happens, UpdateWorkersState, Types
<1>3. \A key \in Keys : shared[key].at \in Nat /\ shared[key].at <= EventsHandled
  BY DEF Types, Copying, Copies
<1>4. \A t \in Threads : uploads[t].at \in Nat
  BY DEF Types
<1>5. Copies'
  BY <1>1, <1>2, <1>3, <1>4 DEF Copying, Copies, Holds
<1>6. Newer' /\ LastCopy'
  BY <1>2 DEF Copying, Newer, LastCopy, Holds, Coming
<1> QED BY <1>5, <1>6 DEF Copying

LEMMA CopyingDump ==
  ASSUME Types, Copying, NEW t \in Threads, NEW key \in Keys, Dump(t, key)
  PROVE  Copying'
<1> DEFINE copy == [key |-> key, of |-> Current(key), at |-> EventsHandled]
<1>1. UNCHANGED <<task, load, utilization, shared, overtaken>> /\ EventsHandled' = EventsHandled /\ EventsHandled \in Nat
  BY HandledType DEF Dump, EventsHandled
<1>2. /\ uploads' = [uploads EXCEPT ![t] = copy]
      /\ uploads[t].key \notin Keys
  BY DEF Dump, Current, Keys
<1>3. uploads'[t] = copy /\ \A u \in Threads : u # t => uploads'[u] = uploads[u]
  BY <1>2 DEF Types
<1>4. uploads'[t].key = key /\ uploads'[t].at = EventsHandled /\ uploads'[t].of = Current(key)
  BY <1>3
<1>5. \A l : Current(l)' = Current(l)
  BY <1>1 DEF Current
<1> HIDE DEF copy
<1>6. Copies'
  <2> SUFFICES ASSUME NEW l \in Keys
               PROVE  /\ shared'[l].at <= EventsHandled'
                      /\ shared'[l].at = EventsHandled' => shared'[l].of = Current(l)'
                      /\ \A u \in Threads : uploads'[u].key = l =>
                           /\ uploads'[u].at <= EventsHandled'
                           /\ uploads'[u].at = EventsHandled' => uploads'[u].of = Current(l)'
    BY DEF Copies, Holds
  <2>1. shared'[l].at <= EventsHandled' /\ (shared'[l].at = EventsHandled' => shared'[l].of = Current(l)')
    BY <1>1, <1>5 DEF Copying, Copies
  <2>2. ASSUME NEW u \in Threads, uploads'[u].key = l
        PROVE  uploads'[u].at <= EventsHandled' /\ (uploads'[u].at = EventsHandled' => uploads'[u].of = Current(l)')
    <3>1. CASE u = t
      BY <1>1, <1>4, <1>5, <2>2, <3>1
    <3>2. CASE u # t
      BY <1>1, <1>3, <1>5, <2>2, <3>2 DEF Copying, Copies, Holds
    <3> QED BY <3>1, <3>2
  <2> QED BY <2>1, <2>2
<1>7. Newer'
  <2> SUFFICES ASSUME NEW l \in Keys, uploads'[1].key = l, uploads'[2].key = l
               PROVE  shared'[l].at <= uploads'[1].at \/ shared'[l].at <= uploads'[2].at
    BY DEF Newer, Holds
  <2>1. shared'[l].at <= EventsHandled
    BY <1>1 DEF Copying, Copies
  <2> QED BY <1>4, <2>1 DEF Threads
<1>8. LastCopy'
  <2> SUFFICES ASSUME NEW l \in Keys
               PROVE  \/ Coming(l)'
                      \/ \E u \in Threads : uploads'[u].key = l /\ uploads'[u].at = EventsHandled'
                      \/ shared'[l].at = EventsHandled'
                      \/ overtaken'[l] /\ \A u \in Threads : uploads'[u].key # l
    BY DEF LastCopy, Holds
  <2>1. CASE l = key
    BY <1>1, <1>4, <2>1
  <2>2. CASE l # key
    <3>1. CASE key = "load"
      <4>1. uploads'[t].key = "load" /\ l = "utilization"
        BY <1>4, <2>2, <3>1 DEF Keys
      <4> QED BY <4>1 DEF Coming
    <3>2. CASE key = "utilization"
      <4>1. l = "load" /\ queued' = queued
        BY <2>2, <3>2 DEF Keys, Dump
      <4>2. \A u \in Threads : uploads'[u].key = "load" <=> uploads[u].key = "load"
        BY <1>2, <1>3, <1>4, <3>2 DEF Keys
      <4>3. \A u \in Threads : uploads[u].key = "load" => uploads'[u] = uploads[u]
        BY <1>2, <1>3 DEF Keys
      <4>4. \/ Coming("load")
            \/ \E u \in Threads : Holds("load", u) /\ uploads[u].at = EventsHandled
            \/ shared["load"].at = EventsHandled
            \/ overtaken["load"] /\ \A u \in Threads : ~Holds("load", u)
        BY <4>1 DEF Copying, LastCopy, Keys
      <4> QED BY <1>1, <4>1, <4>2, <4>3, <4>4 DEF Holds, Coming
    <3> QED BY <3>1, <3>2 DEF Keys
  <2> QED BY <2>1, <2>2
<1> QED BY <1>6, <1>7, <1>8 DEF Copying

(* Of two threads that hold a copy the one that stores an older one leaves the newest to the other. *)
LEMMA CopyingStore ==
  ASSUME Types, Copying, NEW t \in Threads, Store(t)
  PROVE  Copying'
<1> DEFINE key == uploads[t].key
<1>1. /\ UNCHANGED <<task, load, utilization, queued>> /\ EventsHandled' = EventsHandled /\ EventsHandled \in Nat
      /\ key \in Keys
  BY HandledType DEF Store, EventsHandled
<1>2. /\ shared'[key].of = uploads[t].of /\ shared'[key].at = uploads[t].at
      /\ overtaken'[key] = (uploads[t].at < shared[key].at)
      /\ \A l \in Keys : l # key => shared'[l] = shared[l] /\ overtaken'[l] = overtaken[l]
  BY <1>1 DEF Store, Types
<1>3. /\ uploads'[t].key = IF key = "load" THEN "next" ELSE "none"
      /\ \A u \in Threads : u # t => uploads'[u] = uploads[u]
  BY DEF Store, Types, Idle
<1>4. uploads'[t].key \notin Keys
  BY <1>3 DEF Keys
<1>5. \A l : Current(l)' = Current(l)
  BY <1>1 DEF Current
<1>6. \A l \in Keys : shared[l].at \in Nat /\ \A u \in Threads : uploads[u].at \in Nat
  BY DEF Types
<1>7. Holds(key, t)
  BY DEF Holds
<1>8. /\ uploads[t].at <= EventsHandled
      /\ uploads[t].at = EventsHandled => uploads[t].of = Current(key)
  BY <1>1, <1>7 DEF Copying, Copies
<1> HIDE DEF key
<1>9. Copies'
  <2> SUFFICES ASSUME NEW l \in Keys
               PROVE  /\ shared'[l].at <= EventsHandled'
                      /\ shared'[l].at = EventsHandled' => shared'[l].of = Current(l)'
                      /\ \A u \in Threads : uploads'[u].key = l =>
                           /\ uploads'[u].at <= EventsHandled'
                           /\ uploads'[u].at = EventsHandled' => uploads'[u].of = Current(l)'
    BY DEF Copies, Holds
  <2>1. shared'[l].at <= EventsHandled' /\ (shared'[l].at = EventsHandled' => shared'[l].of = Current(l)')
    <3>1. CASE l = key
      BY <1>1, <1>2, <1>5, <1>8, <3>1
    <3>2. CASE l # key
      BY <1>1, <1>2, <1>5, <3>2 DEF Copying, Copies
    <3> QED BY <3>1, <3>2
  <2>2. ASSUME NEW u \in Threads, uploads'[u].key = l
        PROVE  uploads'[u].at <= EventsHandled' /\ (uploads'[u].at = EventsHandled' => uploads'[u].of = Current(l)')
    <3>1. u # t
      BY <1>4, <2>2
    <3> QED BY <1>1, <1>3, <1>5, <2>2, <3>1 DEF Copying, Copies, Holds
  <2> QED BY <2>1, <2>2
<1>10. Newer'
  <2> SUFFICES ASSUME NEW l \in Keys, uploads'[1].key = l, uploads'[2].key = l PROVE FALSE
    BY DEF Newer, Holds
  <2> QED BY <1>4 DEF Threads
<1>11. LastCopy'
  <2> SUFFICES ASSUME NEW l \in Keys
               PROVE  \/ Coming(l)'
                      \/ \E u \in Threads : uploads'[u].key = l /\ uploads'[u].at = EventsHandled
                      \/ shared'[l].at = EventsHandled
                      \/ overtaken'[l] /\ \A u \in Threads : uploads'[u].key # l
    BY <1>1 DEF LastCopy, Holds
  <2>1. \/ Coming(l)
        \/ \E u \in Threads : Holds(l, u) /\ uploads[u].at = EventsHandled
        \/ shared[l].at = EventsHandled
        \/ overtaken[l] /\ \A u \in Threads : ~Holds(l, u)
    BY DEF Copying, LastCopy
  <2>2. CASE l # key
    <3>1. CASE l = "load"
      <4>1. key = "utilization"
        BY <1>1, <2>2, <3>1 DEF Keys
      <4>2. \A u \in Threads : uploads'[u].key = "load" <=> uploads[u].key = "load"
        BY <1>3, <1>4, <1>7, <4>1 DEF Holds, Keys
      <4>3. \A u \in Threads : uploads[u].key = "load" => uploads'[u] = uploads[u]
        BY <1>3, <1>7, <4>1 DEF Holds
      <4> QED BY <1>1, <1>2, <2>1, <2>2, <3>1, <4>2, <4>3 DEF Holds, Coming
    <3>2. CASE l = "utilization"
      <4>1. key = "load"
        BY <1>1, <2>2, <3>2 DEF Keys
      <4>2. uploads'[t].key = "next"
        BY <1>3, <4>1
      <4> QED BY <3>2, <4>2 DEF Coming
    <3> QED BY <3>1, <3>2 DEF Keys
  <2>3. CASE l = key
    <3>1. CASE Coming(l)
      <4>1. CASE queued > 0
        BY <1>1, <4>1 DEF Coming
      <4>2. CASE ~(queued > 0)
        <5>1. l = "utilization" /\ \E u \in Threads : uploads[u].key \in {"load", "next"}
          BY <3>1, <4>2 DEF Coming
        <5>2. PICK u \in Threads : uploads[u].key \in {"load", "next"}
          BY <5>1
        <5>3. u # t
          BY <1>7, <2>3, <5>1, <5>2 DEF Holds
        <5> QED BY <1>3, <5>1, <5>2, <5>3 DEF Coming
      <4> QED BY <4>1, <4>2
    <3>2. CASE uploads[t].at = EventsHandled
      BY <1>2, <2>3, <3>2
    <3>3. CASE \E u \in Threads : u # t /\ Holds(l, u) /\ uploads[u].at = EventsHandled
      <4>1. PICK u \in Threads : u # t /\ Holds(l, u) /\ uploads[u].at = EventsHandled
        BY <3>3
      <4> QED BY <1>3, <4>1 DEF Holds
    <3>4. CASE shared[l].at = EventsHandled /\ uploads[t].at # EventsHandled
      <4>1. overtaken'[l]
        <5>1. uploads[t].at < shared[l].at
          BY <1>1, <1>6, <1>8, <2>3, <3>4
        <5>2. overtaken'[l] = (uploads[t].at < shared[l].at)
          BY <1>2, <2>3
        <5> QED BY <5>1, <5>2, Zenon
      <4>2. CASE \E u \in Threads : u # t /\ Holds(l, u)
        <5>1. PICK u \in Threads : u # t /\ Holds(l, u)
          BY <4>2
        <5>2. Holds(l, 1) /\ Holds(l, 2)
          BY <1>7, <2>3, <5>1 DEF Threads
        <5>3. shared[l].at <= uploads[t].at \/ shared[l].at <= uploads[u].at
          BY <5>1, <5>2 DEF Copying, Newer, Threads
        <5>4. uploads[u].at <= EventsHandled
          BY <5>1 DEF Copying, Copies
        <5>5. uploads[u].at = EventsHandled
          BY <1>1, <1>6, <1>8, <3>4, <5>3, <5>4
        <5> QED BY <1>3, <5>1, <5>5 DEF Holds
      <4>3. CASE ~\E u \in Threads : u # t /\ Holds(l, u)
        <5>1. \A u \in Threads : uploads'[u].key # l
          BY <1>3, <1>4, <4>3 DEF Holds
        <5> QED BY <4>1, <5>1
      <4> QED BY <4>2, <4>3
    <3> QED BY <1>7, <2>1, <2>3, <3>1, <3>2, <3>3, <3>4
  <2> QED BY <2>2, <2>3
<1> QED BY <1>9, <1>10, <1>11 DEF Copying

LEMMA CopyingStep == ASSUME Types, Copying, FeaturesNext PROVE Copying'
<1>1. ASSUME NEW k \in SeenTasks, OnTaskSent(k) \/ OnTaskEnd(k) PROVE Copying'
  BY <1>1, EventHappens, CopyingEvent
<1>2. ASSUME NEW t \in Threads, Store(t) PROVE Copying'
  BY <1>2, CopyingStore
<1>3. ASSUME NEW t \in Threads, NEW key \in Keys, Dump(t, key) PROVE Copying'
  BY <1>3, CopyingDump
<1>4. CASE UNCHANGED <<task, load, utilization, queued, uploads, shared, overtaken>>
  <2>1. EventsHandled' = EventsHandled /\ (\A l : Current(l)' = Current(l) /\ (Coming(l)' <=> Coming(l)))
    BY <1>4 DEF Coming, Current, EventsHandled
  <2>2. Copies' /\ Newer'
    BY <1>4, <2>1 DEF Copying, Copies, Newer, Holds
  <2>3. LastCopy'
    BY <1>4, <2>1 DEF Copying, LastCopy, Holds
  <2> QED BY <2>2, <2>3 DEF Copying
<1>5. \/ \E k \in SeenTasks : OnTaskSent(k) \/ OnTaskEnd(k)
      \/ \E t \in Threads : Store(t) \/ \E key \in Keys : Dump(t, key)
      \/ UNCHANGED <<task, load, utilization, queued, uploads, shared, overtaken>>
  BY DEF FeaturesNext, Threads, BeginState, AddUpLoad, UpdateFeature, Choose,
         AddCommands, Execute, ResetPipeline, loadVars, uploadVars
<1> QED BY <1>1, <1>2, <1>3, <1>4, <1>5

-----------------------------------------------------------------------------
(* The windows.                                                             *)

(* What is left of a list: its last entries, as many as a window holds. *)
LEMMA TrimmedIs ==
  ASSUME NEW list \in Seq(Nat)
  PROVE  /\ Trimmed(list) \in Seq(Nat) /\ Len(list) \in Nat
         /\ Len(Trimmed(list)) = IF Len(list) > WindowSize THEN WindowSize ELSE Len(list)
         /\ \A i \in 1..Len(Trimmed(list)) : Trimmed(list)[i] = list[Len(list) - Len(Trimmed(list)) + i]
<1> DEFINE from == IF Len(list) > WindowSize THEN Len(list) - WindowSize + 1 ELSE 1
<1>1. WindowSize \in Nat \ {0} /\ Len(list) \in Nat
  BY Constants
<1>2. from \in 1..(Len(list) + 1) /\ Len(list) - from + 1 = IF Len(list) > WindowSize THEN WindowSize ELSE Len(list)
  BY <1>1
<1>3. Trimmed(list) = SubSeq(list, from, Len(list))
  BY DEF Trimmed
<1> HIDE DEF from
<1>4. /\ SubSeq(list, from, Len(list)) \in Seq(Nat)
      /\ Len(SubSeq(list, from, Len(list))) = IF from <= Len(list) THEN Len(list) - from + 1 ELSE 0
      /\ \A i \in 1..(Len(list) - from + 1) : SubSeq(list, from, Len(list))[i] = list[from + i - 1]
  <2>1. from \in Int /\ Len(list) \in Int /\ \A i \in from..Len(list) : list[i] \in Nat
    BY <1>1, <1>2
  <2> QED BY <2>1, SubSeqProperties
<1>5. Len(Trimmed(list)) = Len(list) - from + 1
  BY <1>1, <1>2, <1>3, <1>4
<1>6. ASSUME NEW i \in 1..Len(Trimmed(list))
      PROVE  Trimmed(list)[i] = list[Len(list) - Len(Trimmed(list)) + i]
  <2>1. from + i - 1 = Len(list) - Len(Trimmed(list)) + i
    BY <1>1, <1>2, <1>5
  <2> QED BY <1>3, <1>4, <1>5, <2>1
<1> QED BY <1>1, <1>2, <1>3, <1>4, <1>5, <1>6

LEMMA TrimmedShort ==
  ASSUME NEW list \in Seq(Nat), Len(list) <= WindowSize PROVE Trimmed(list) = list
<1>1. Trimmed(list) \in Seq(Nat) /\ Len(Trimmed(list)) = Len(list) /\ Len(list) \in Nat
  BY TrimmedIs, Constants
<1>2. \A i \in 1..Len(list) : Trimmed(list)[i] = list[i]
  <2> DEFINE t == Trimmed(list)
  <2>1. \A i \in 1..Len(t) : t[i] = list[Len(list) - Len(t) + i]
    BY TrimmedIs
  <2> HIDE DEF t
  <2>2. Len(t) = Len(list)
    BY <1>1 DEF t
  <2>3. \A i \in 1..Len(list) : t[i] = list[i]
    BY <1>1, <2>1, <2>2
  <2> QED BY <2>3 DEF t
<1> QED BY <1>1, <1>2, SeqEqual

(* A list that is trimmed, gets one more entry and is trimmed again has lost nothing that it should hold. *)
LEMMA TrimmedTwice ==
  ASSUME NEW list \in Seq(Nat), NEW v \in Nat
  PROVE  Trimmed(Trimmed(list) \o <<v>>) = Trimmed(Append(list, v))
<1> DEFINE short == Trimmed(list)
           a == short \o <<v>>
           b == Append(list, v)
<1>1. WindowSize \in Nat \ {0} /\ Len(list) \in Nat /\ short \in Seq(Nat) /\ Len(short) \in Nat
      /\ Len(short) = IF Len(list) > WindowSize THEN WindowSize ELSE Len(list)
  BY TrimmedIs, Constants
<1>2. \A i \in 1..Len(short) : short[i] = list[Len(list) - Len(short) + i]
  BY TrimmedIs
<1> HIDE DEF short
<1>3. <<v>> \in Seq(Nat) /\ Len(<<v>>) = 1 /\ <<v>>[1] = v
  OBVIOUS
<1>4. /\ a \in Seq(Nat) /\ Len(a) = Len(short) + 1
      /\ \A i \in 1..(Len(short) + 1) : a[i] = IF i <= Len(short) THEN short[i] ELSE v
  <2>1. /\ a \in Seq(Nat) /\ Len(a) = Len(short) + 1
        /\ \A i \in 1..(Len(short) + 1) : a[i] = IF i <= Len(short) THEN short[i] ELSE <<v>>[i - Len(short)]
    BY <1>1, <1>3, ConcatProperties
  <2>2. \A i \in 1..(Len(short) + 1) : i <= Len(short) \/ i - Len(short) = 1
    BY <1>1
  <2> QED BY <1>3, <2>1, <2>2
<1>5. /\ b \in Seq(Nat) /\ Len(b) = Len(list) + 1
      /\ \A i \in 1..Len(list) : b[i] = list[i]
      /\ b[Len(list) + 1] = v
  BY <1>1, AppendProperties
<1> HIDE DEF a, b
<1> DEFINE ta == Trimmed(a)
           tb == Trimmed(b)
<1>6. /\ ta \in Seq(Nat) /\ Len(ta) = IF Len(a) > WindowSize THEN WindowSize ELSE Len(a)
      /\ \A i \in 1..Len(ta) : ta[i] = a[Len(a) - Len(ta) + i]
  BY <1>4, TrimmedIs
<1>7. /\ tb \in Seq(Nat) /\ Len(tb) = IF Len(b) > WindowSize THEN WindowSize ELSE Len(b)
      /\ \A i \in 1..Len(tb) : tb[i] = b[Len(b) - Len(tb) + i]
  BY <1>5, TrimmedIs
<1> HIDE DEF ta, tb
<1>8. /\ Len(ta) \in Nat /\ Len(ta) = Len(tb) /\ Len(ta) <= Len(short) + 1
      /\ Len(short) <= Len(list)
  <2>1. Len(a) = Len(short) + 1 /\ Len(b) = Len(list) + 1
    BY <1>4, <1>5
  <2>2. /\ Len(ta) = IF Len(a) > WindowSize THEN WindowSize ELSE Len(a)
        /\ Len(tb) = IF Len(b) > WindowSize THEN WindowSize ELSE Len(b)
    BY <1>6, <1>7
  <2> QED BY <1>1, <2>1, <2>2
<1>9. ASSUME NEW i \in 1..Len(ta) PROVE ta[i] = tb[i]
  <2> DEFINE ia == Len(short) + 1 - Len(ta) + i
             ib == Len(list) + 1 - Len(ta) + i
  <2>1. ta[i] = a[ia] /\ tb[i] = b[ib]
    <3>1. /\ ta[i] = a[Len(a) - Len(ta) + i] /\ tb[i] = b[Len(b) - Len(tb) + i]
      BY <1>6, <1>7, <1>8, <1>9
    <3> QED BY <1>4, <1>5, <1>8, <3>1
  <2>2. ia \in 1..(Len(short) + 1) /\ ib \in 1..(Len(list) + 1) /\ ib = Len(list) - Len(short) + ia
    <3>1. i \in Nat /\ 1 <= i /\ i <= Len(ta) /\ Len(ta) \in Nat /\ Len(short) \in Nat /\ Len(list) \in Nat
      BY <1>1, <1>8, <1>9
    <3>2. Len(ta) <= Len(short) + 1 /\ Len(short) <= Len(list)
      BY <1>8
    <3>3. ia \in 1..(Len(short) + 1)
      BY <3>1, <3>2
    <3>4. ib \in 1..(Len(list) + 1)
      BY <3>1, <3>2
    <3>5. ib = Len(list) - Len(short) + ia
      BY <3>1
    <3> QED BY <3>3, <3>4, <3>5
  <2> HIDE DEF ia, ib
  <2>3. CASE ia <= Len(short)
    <3>1. ia \in 1..Len(short) /\ ib \in 1..Len(list)
      BY <1>1, <2>2, <2>3
    <3>2. a[ia] = short[ia] /\ short[ia] = list[ib] /\ b[ib] = list[ib]
      BY <1>2, <1>4, <1>5, <2>2, <2>3, <3>1
    <3> QED BY <2>1, <3>2
  <2>4. CASE ~(ia <= Len(short))
    <3>1. Len(short) \in Nat /\ Len(list) \in Nat
      BY <1>1
    <3>2. ia = Len(short) + 1
      BY <2>2, <2>4, <3>1
    <3>3. ib = Len(list) + 1
      BY <2>2, <3>1, <3>2
    <3> QED BY <1>4, <1>5, <2>1, <2>2, <2>4, <3>1, <3>2, <3>3
  <2> QED BY <2>3, <2>4
<1>10. ta = tb
  BY <1>6, <1>7, <1>8, <1>9, SeqEqual
<1> QED BY <1>10 DEF ta, tb, a, b, short

(* A list is its front and its last entry, and the front of what was appended to is what it was. *)
LEMMA FrontAndLast ==
  ASSUME NEW list \in Seq(Nat), NEW v \in Nat
  PROVE  /\ list # <<>> /\ list[Len(list)] = v => /\ SubSeq(list, 1, Len(list) - 1) \in Seq(Nat)
                                                  /\ list = Append(SubSeq(list, 1, Len(list) - 1), v)
         /\ LET longer == Append(list, v)
            IN /\ longer # <<>> /\ longer[Len(longer)] = v
               /\ SubSeq(longer, 1, Len(longer) - 1) = list
<1>0. Len(list) \in Nat
  OBVIOUS
<1>1. ASSUME list # <<>>, list[Len(list)] = v
      PROVE  /\ SubSeq(list, 1, Len(list) - 1) \in Seq(Nat)
             /\ list = Append(SubSeq(list, 1, Len(list) - 1), v)
  <2> DEFINE n == Len(list) - 1
             front == SubSeq(list, 1, n)
  <2>1. n \in Nat /\ Len(list) = n + 1
    BY <1>0, <1>1, EmptySeq
  <2> HIDE DEF n
  <2>2. \A i \in 1..n : list[i] \in Nat
    BY <2>1
  <2>3. front \in Seq(Nat) /\ Len(front) = n /\ \A i \in 1..n : front[i] = list[i]
    <3>1. /\ front \in Seq(Nat) /\ Len(front) = (IF 1 <= n THEN n - 1 + 1 ELSE 0)
          /\ \A i \in 1..(n - 1 + 1) : front[i] = list[1 + i - 1]
      BY <2>1, <2>2, SubSeqProperties
    <3> HIDE DEF front
    <3> QED BY <2>1, <3>1
  <2> HIDE DEF front
  <2>4. /\ Append(front, v) \in Seq(Nat) /\ Len(Append(front, v)) = n + 1
        /\ \A i \in 1..n : Append(front, v)[i] = front[i]
        /\ Append(front, v)[n + 1] = v
    BY <2>3, AppendProperties
  <2>5. \A i \in 1..Len(list) : list[i] = Append(front, v)[i]
    <3>1. \A i \in 1..Len(list) : i \in 1..n \/ i = n + 1
      BY <2>1
    <3> QED BY <1>1, <2>1, <2>3, <2>4, <3>1
  <2>6. list = Append(front, v)
    BY <2>1, <2>4, <2>5, SeqEqual
  <2> QED BY <2>3, <2>6 DEF front, n
<1>2. LET longer == Append(list, v)
      IN /\ longer # <<>> /\ longer[Len(longer)] = v
         /\ SubSeq(longer, 1, Len(longer) - 1) = list
  <2> DEFINE longer == Append(list, v)
             front == SubSeq(longer, 1, Len(list))
  <2>1. /\ longer \in Seq(Nat) /\ longer # <<>> /\ Len(longer) = Len(list) + 1
        /\ \A i \in 1..Len(list) : longer[i] = list[i]
        /\ longer[Len(list) + 1] = v
    BY AppendProperties
  <2> HIDE DEF longer
  <2>2. front \in Seq(Nat) /\ Len(front) = Len(list) /\ \A i \in 1..Len(list) : front[i] = list[i]
    <3>1. \A i \in 1..Len(list) : longer[i] \in Nat
      BY <2>1
    <3>2. /\ front \in Seq(Nat) /\ Len(front) = (IF 1 <= Len(list) THEN Len(list) - 1 + 1 ELSE 0)
          /\ \A i \in 1..(Len(list) - 1 + 1) : front[i] = longer[1 + i - 1]
      BY <1>0, <3>1, SubSeqProperties
    <3> HIDE DEF front
    <3> QED BY <1>0, <2>1, <3>2
  <2> HIDE DEF front
  <2>3. front = list
    BY <2>2, SeqEqual
  <2>4. Len(longer) - 1 = Len(list)
    BY <1>0, <2>1
  <2> QED BY <2>1, <2>3, <2>4 DEF longer, front
<1> QED BY <1>1, <1>2

(* A choice adds entries that are still to be pushed. *)
LEMMA AloneChoose == ASSUME Types, Alone, Choose PROVE Alone'
<1> DEFINE new == NewPushes(Len(contexts) + 1)
<1>1. pushes' = pushes \union new /\ \A p \in new : p.phase = "waiting"
  BY Chosen1
<1>2. UNCHANGED <<pipeline, window, crossed, entries>>
  BY DEF Choose
<1> HIDE DEF new
<1>3. \A p \in pushes' : p \in pushes \/ p.phase = "waiting"
  BY <1>1
<1>4. pushes \subseteq pushes'
  BY <1>1
<1>5. \A p : InLine(p)' <=> InLine(p)
  BY <1>2 DEF InLine, Kept
<1>6. \A k : Kept(k)' <=> Kept(k)
  BY <1>2 DEF Kept
<1> QED BY <1>2, <1>3, <1>4, <1>5, <1>6 DEF Alone

(* The commands of a push are the first of the pipeline, unless the push crosses another one. *)
LEMMA AloneAdd == ASSUME Types, Alone, NEW p \in pushes, AddCommands(p) PROVE Alone'
<1> DEFINE moved == [p EXCEPT !.phase = "added"]
<1>1. CASE crossed'
  BY <1>1 DEF Alone
<1>2. CASE ~crossed'
  <2>1. ~crossed /\ p.phase = "waiting" /\ \A q \in pushes : q.phase \notin {"added", "sent"}
    BY <1>2 DEF AddCommands
  <2>2. \A q \in pushes : q.phase = "waiting"
    BY <2>1, PushFacts
  <2>3. pipeline = NoCommands /\ \A k \in WindowKeys : Kept(k)
    BY <2>1, <2>2 DEF Alone
  <2>4. /\ moved.key = p.key /\ moved.value = p.value /\ moved.phase = "added"
        /\ p.key \in WindowKeys /\ p.value \in Nat
    BY PushFacts
  <2>5. /\ pushes' = (pushes \ {p}) \union {moved}
        /\ pipeline' = [pipeline EXCEPT ![p.key] = Append(@, p.value)]
        /\ entries' = [entries EXCEPT ![p.key] = Append(@, p.value)]
        /\ window' = window
    BY DEF AddCommands
  <2> HIDE DEF moved
  <2>6. \A q \in pushes' : q.phase = "waiting" \/ q = moved
    BY <2>2, <2>5
  <2>7. /\ entries[p.key] \in Seq(Nat) /\ entries'[p.key] = Append(entries[p.key], p.value)
        /\ \A k \in WindowKeys \ {p.key} : entries'[k] = entries[k]
    BY <2>4, <2>5 DEF Types
  <2>8. InLine(moved)'
    <3>1. pipeline' = [NoCommands EXCEPT ![p.key] = <<p.value>>]
      <4>1. NoCommands[p.key] = <<>> /\ Append(<<>>, p.value) = <<p.value>>
        BY <2>4 DEF NoCommands
      <4> QED BY <2>3, <2>5, <4>1
    <3>2. \A k \in WindowKeys \ {p.key} : Kept(k)'
      BY <2>3, <2>5, <2>7 DEF Kept
    <3>3. /\ entries'[p.key] # <<>> /\ entries'[p.key][Len(entries'[p.key])] = p.value
          /\ SubSeq(entries'[p.key], 1, Len(entries'[p.key]) - 1) = entries[p.key]
      BY <2>4, <2>7, FrontAndLast
    <3>4. window'[p.key] = Trimmed(SubSeq(entries'[p.key], 1, Len(entries'[p.key]) - 1))
      BY <2>3, <2>4, <2>5, <3>3 DEF Kept
    <3> QED BY <2>4, <3>1, <3>2, <3>3, <3>4 DEF InLine
  <2>9. moved \in pushes'
    BY <2>5
  <2> QED BY <2>4, <2>6, <2>8, <2>9 DEF Alone
<1> QED BY <1>1, <1>2

(* What is sent is the entry of the push that sends it, and the window holds it. *)
LEMMA AloneExecute ==
  ASSUME Types, FeaturesTypeOK, Alone, NEW p \in pushes, Execute(p)
  PROVE  Alone'
<1> DEFINE moved == [p EXCEPT !.phase = "sent"]
<1>1. /\ p.phase = "added" /\ UNCHANGED <<pipeline, crossed, entries>>
      /\ pushes' = (pushes \ {p}) \union {moved}
      /\ \A k \in WindowKeys : window'[k] = Trimmed(window[k] \o pipeline[k])
  BY DEF Execute
<1>2. CASE crossed
  BY <1>1, <1>2 DEF Alone
<1>3. CASE ~crossed
  <2>1. moved.phase = "sent" /\ p.key \in WindowKeys /\ p.value \in Nat
    BY PushFacts
  <2> HIDE DEF moved
  <2>2. InLine(p) /\ \A q \in pushes : q # p => q.phase = "waiting"
    BY <1>1, <1>3 DEF Alone
  <2>3. /\ \A q \in pushes' : q.phase = "waiting" \/ q = moved
        /\ moved \in pushes'
    BY <1>1, <2>2
  <2>4. ASSUME NEW k \in WindowKeys PROVE Kept(k)'
    <3>1. entries[k] \in Seq(Nat) /\ window[k] \in Seq(Nat) /\ Len(window[k]) <= WindowSize
      BY DEF Types, FeaturesTypeOK
    <3>2. CASE k = p.key
      <4> DEFINE front == SubSeq(entries[k], 1, Len(entries[k]) - 1)
      <4>1. /\ window[k] = Trimmed(front) /\ pipeline[k] = <<p.value>>
            /\ entries[k] # <<>> /\ entries[k][Len(entries[k])] = p.value
        BY <2>1, <2>2, <3>2 DEF InLine, NoCommands
      <4>2. front \in Seq(Nat) /\ entries[k] = Append(front, p.value)
        BY <2>1, <3>1, <4>1, FrontAndLast
      <4> HIDE DEF front
      <4>3. window'[k] = Trimmed(Append(front, p.value))
        BY <1>1, <2>1, <4>1, <4>2, TrimmedTwice
      <4> QED BY <1>1, <4>2, <4>3 DEF Kept
    <3>3. CASE k # p.key
      <4>1. pipeline[k] = <<>> /\ window[k] = Trimmed(entries[k])
        BY <2>1, <2>2, <3>3 DEF InLine, NoCommands, Kept
      <4>2. window[k] \o <<>> = window[k]
        BY <3>1, ConcatEmptySeq
      <4>3. window'[k] = window[k]
        BY <1>1, <3>1, <4>1, <4>2, TrimmedShort
      <4> QED BY <1>1, <4>1, <4>3 DEF Kept
    <3> QED BY <3>2, <3>3
  <2>5. (\A q \in pushes' : q.phase # "added") /\ ~(\A q \in pushes' : q.phase = "waiting")
    BY <2>1, <2>3
  <2>6. \A q, r \in pushes' : q.phase # "waiting" /\ r.phase # "waiting" => q = r
    BY <2>3
  <2> QED BY <2>4, <2>5, <2>6 DEF Alone
<1> QED BY <1>2, <1>3

LEMMA AloneReset == ASSUME Types, Alone, NEW p \in pushes, ResetPipeline(p) PROVE Alone'
<1>1. /\ p.phase = "sent" /\ UNCHANGED <<window, crossed, entries>>
      /\ pipeline' = NoCommands /\ pushes' = pushes \ {p}
  BY DEF ResetPipeline
<1>2. CASE crossed
  BY <1>1, <1>2 DEF Alone
<1>3. CASE ~crossed
  <2>1. \A q \in pushes' : q.phase = "waiting"
    BY <1>1, <1>3 DEF Alone
  <2>2. \A q \in pushes : q.phase # "added"
    BY <1>1, <1>3, <2>1
  <2>3. \A k \in WindowKeys : Kept(k)
    BY <1>3, <2>2 DEF Alone
  <2>4. \A k \in WindowKeys : Kept(k)'
    BY <1>1, <2>3 DEF Kept
  <2> QED BY <1>1, <2>1, <2>4 DEF Alone
<1> QED BY <1>2, <1>3

LEMMA AloneStep == ASSUME Types, FeaturesTypeOK, Alone, FeaturesNext PROVE Alone'
<1>1. CASE UNCHANGED windowVars
  <2>1. (\A p : InLine(p)' <=> InLine(p)) /\ (\A k : Kept(k)' <=> Kept(k))
    BY <1>1 DEF InLine, Kept, windowVars
  <2> QED BY <1>1, <2>1 DEF Alone, windowVars
<1>2. \/ Choose
      \/ \E p \in pushes : AddCommands(p) \/ Execute(p) \/ ResetPipeline(p)
      \/ UNCHANGED windowVars
  BY DEF FeaturesNext, OnTaskSent, OnTaskEnd, Store, Dump, BeginState, AddUpLoad, UpdateFeature
<1> QED BY <1>1, <1>2, AloneChoose, AloneAdd, AloneExecute, AloneReset

(* A window that is the list of the entries, trimmed, holds the last of them. *)
LEMMA TrimmedIsSuffix ==
  ASSUME NEW list \in Seq(Nat)
  PROVE  IsSuffix(Trimmed(list), list) /\ (Len(Trimmed(list)) < WindowSize => Trimmed(list) = list)
<1> DEFINE t == Trimmed(list)
           rt == Reverse(t)
           rl == Reverse(list)
<1>1. /\ t \in Seq(Nat) /\ Len(list) \in Nat /\ Len(t) \in Nat
      /\ \A i \in 1..Len(t) : t[i] = list[Len(list) - Len(t) + i]
  BY TrimmedIs
<1>2. Len(t) = IF Len(list) > WindowSize THEN WindowSize ELSE Len(list)
  BY TrimmedIs
<1>3. WindowSize \in Nat \ {0}
  BY Constants
<1>4. Len(t) <= Len(list) /\ (Len(t) < WindowSize => Len(list) <= WindowSize)
  <2> HIDE DEF t
  <2> QED BY <1>1, <1>2, <1>3
<1>5. Len(t) < WindowSize => t = list
  BY <1>4, TrimmedShort
<1> HIDE DEF t
<1>6. /\ rt \in Seq(Nat) /\ Len(rt) = Len(t) /\ \A i \in 1..Len(t) : rt[i] = t[Len(t) - i + 1]
      /\ rl \in Seq(Nat) /\ Len(rl) = Len(list) /\ \A i \in 1..Len(list) : rl[i] = list[Len(list) - i + 1]
  BY <1>1 DEF Reverse
<1> HIDE DEF rt, rl
<1>7. ASSUME NEW i \in 1..Len(t) PROVE rt[i] = rl[i]
  <2>1. i \in 1..Len(list) /\ Len(t) - i + 1 \in 1..Len(t)
    BY <1>1, <1>4, <1>7
  <2>2. Len(list) - Len(t) + (Len(t) - i + 1) = Len(list) - i + 1
    BY <1>1, <1>7
  <2>3. t[Len(t) - i + 1] = list[Len(list) - i + 1]
    BY <1>1, <2>1, <2>2
  <2> QED BY <1>6, <1>7, <2>1, <2>3
<1> DEFINE front == SubSeq(rl, 1, Len(t))
<1>8. front \in Seq(Nat) /\ Len(front) = Len(t) /\ \A i \in 1..Len(t) : front[i] = rl[i]
  <2>1. ASSUME NEW i \in 1..Len(t) PROVE rl[i] \in Nat
    <3>1. i \in 1..Len(rl)
      BY <1>1, <1>4, <1>6, <2>1
    <3> QED BY <1>6, <3>1, ElementOfSeq
  <2>2. /\ front \in Seq(Nat) /\ Len(front) = (IF 1 <= Len(t) THEN Len(t) - 1 + 1 ELSE 0)
        /\ \A i \in 1..(Len(t) - 1 + 1) : front[i] = rl[1 + i - 1]
    BY <1>1, <2>1, SubSeqProperties
  <2> HIDE DEF front
  <2> QED BY <1>1, <2>2
<1>9. front = rt
  <2> HIDE DEF front
  <2>1. Len(front) = Len(rt) /\ \A i \in 1..Len(front) : front[i] = rt[i]
    BY <1>6, <1>7, <1>8
  <2> QED BY <1>6, <1>8, <2>1, SeqEqual
<1>10. SubSeq(rt, 1, Len(rt)) = rt
  BY <1>6, SubSeqFull
<1>11. IsPrefix(rt, rl)
  BY <1>4, <1>6, <1>9, <1>10 DEF IsPrefix
<1> QED BY <1>5, <1>11 DEF IsSuffix, rt, rl, t

LEMMA WindowHolds == ASSUME Types, Alone PROVE WindowOfTheLast
<1> SUFFICES ASSUME pushes = {}, ~crossed, NEW k \in WindowKeys
             PROVE  /\ IsSuffix(window[k], entries[k])
                    /\ Len(window[k]) < WindowSize => window[k] = entries[k]
  BY DEF WindowOfTheLast
<1>1. window[k] = Trimmed(entries[k])
  BY DEF Alone, Kept
<1>2. entries[k] \in Seq(Nat)
  BY DEF Types
<1> QED BY <1>1, <1>2, TrimmedIsSuffix

-----------------------------------------------------------------------------
(* The theorems.                                                            *)

IInv ==
  /\ Types /\ Place /\ FeaturesTypeOK /\ Rewarded
  /\ Filling /\ PoolLoadAddsUp /\ UtilizationDrains /\ Copying /\ Alone

(* With no copy to make nor under way, what is there is the last one, or an older one has overtaken it. *)
LEMMA CopiesFollow == ASSUME Types, Copying PROVE SharedLoadFollows
<1> SUFFICES ASSUME queued = 0, uploads[1] = Idle, uploads[2] = Idle
             PROVE  /\ overtaken["load"] \/ shared["load"].of = load
                    /\ overtaken["utilization"] \/ shared["utilization"].of = utilization
  BY DEF SharedLoadFollows
<1>1. \A t \in Threads : uploads[t].key = "none"
  BY DEF Idle, Threads
<1>2. \A key \in Keys : ~Coming(key) /\ \A t \in Threads : ~Holds(key, t)
  BY <1>1 DEF Coming, Holds, Keys
<1>3. \A key \in Keys : shared[key].at = EventsHandled \/ overtaken[key]
  BY <1>2 DEF Copying, LastCopy
<1>4. \A key \in Keys : shared[key].at = EventsHandled => shared[key].of = Current(key)
  BY DEF Copying, Copies
<1>5. Current("load") = load /\ Current("utilization") = utilization
  BY DEF Current
<1> QED BY <1>3, <1>4, <1>5 DEF Keys

LEMMA InitTypes == ASSUME FeaturesInit PROVE Types
<1>1. Idle.of \in Loads /\ Idle.of \in [WorkerClasses -> Nat] /\ Idle.key = "none" /\ Idle.at = 0
      /\ Idle = [key |-> "none", of |-> Idle.of, at |-> 0]
  BY DEF Idle, Loads
<1>2. values \in [Slots -> Shares]
  BY DEF FeaturesInit, Zero, Shares
<1>3. uploads \in [Threads -> [key : Keys \union {"none", "next"}, of : Loads, at : Nat]]
  BY <1>1 DEF FeaturesInit, Threads
<1>4. /\ shared \in [Keys -> [of : Loads, at : Nat]] /\ overtaken \in [Keys -> BOOLEAN]
  BY <1>1 DEF FeaturesInit
<1>5. /\ pipeline \in [WindowKeys -> Seq(Nat)] /\ window \in [WindowKeys -> Seq(Nat)]
      /\ entries \in [WindowKeys -> Seq(Nat)]
  BY DEF FeaturesInit, NoCommands
<1>6. task \in [SeenTasks -> [class : TaskClasses, worker : WorkerClasses, handled : Histories]]
  BY DEF FeaturesInit, Histories
<1>7. states \in Seq([vector : Seq(Seq(Shares)), load : Loads, clean : BOOLEAN])
      /\ contexts \in Seq([WorkerClasses -> Seq(Seq(Shares))])
  BY DEF FeaturesInit
<1>8. /\ features \in Views /\ load \in Loads /\ utilization \in [WorkerClasses -> Nat]
      /\ total \in Int /\ disturbed \in BOOLEAN /\ queued \in Nat /\ crossed \in BOOLEAN
  <2>1. load = Idle.of /\ utilization = Idle.of
    BY DEF FeaturesInit
  <2>2. load \in Loads /\ utilization \in [WorkerClasses -> Nat]
    BY <1>1, <2>1
  <2>3. features \in Views /\ disturbed \in BOOLEAN /\ crossed \in BOOLEAN
    BY Zenon DEF FeaturesInit
  <2>4. total \in Int /\ queued \in Nat
    BY DEF FeaturesInit
  <2> QED BY <2>2, <2>3, <2>4
<1>9. pushes = {}
  BY DEF FeaturesInit
<1> QED BY <1>2, <1>3, <1>4, <1>5, <1>6, <1>7, <1>8, <1>9 DEF Types

LEMMA InitInv == FeaturesInit => IInv
<1> SUFFICES ASSUME FeaturesInit PROVE IInv
  OBVIOUS
<1>1. Types
  BY InitTypes
<1>2. states = <<>> /\ contexts = <<>> /\ Range(states) = {} /\ Range(contexts) = {} /\ Len(states) = 0 /\ Len(contexts) = 0
  BY DEF FeaturesInit, Range
<1>3. Place
  <2>1. 0 <= features.states /\ 0 <= features.choices
    BY <1>1, ViewFacts, Constants
  <2> QED BY <1>2, <2>1 DEF Place, FeaturesInit
<1>4. FeaturesTypeOK
  <2>1. \A k \in WindowKeys : Len(window[k]) <= WindowSize
    BY Constants DEF FeaturesInit
  <2> QED BY <1>1, <1>2, <2>1 DEF FeaturesTypeOK, Types, Loads, Shares
<1>5. Rewarded
  BY DEF FeaturesInit, Rewarded, NoRewardIsPositive
<1>6. Filling /\ PoolLoadAddsUp
  BY <1>2 DEF FeaturesInit, Filling, PoolLoadAddsUp
<1>7. \A k \in SeenTasks : task[k].handled = <<>>
  BY DEF FeaturesInit
<1>8. UtilizationDrains
  <2> SUFFICES ASSUME NEW w \in WorkerClasses
               PROVE  utilization[w] = SumFunction(InUse(w))
    BY DEF UtilizationDrains, InUse
  <2>1. utilization[w] = 0
    BY DEF FeaturesInit, Idle
  <2>2. InUse(w) \in [SeenTasks -> {0}]
    <3>1. <<>> # <<"sent">>
      OBVIOUS
    <3> QED BY <1>7, <3>1 DEF InUse
  <2> QED BY <2>1, <2>2, SumOfZeros, Constants
<1>9. EventsHandled = 0
  <2> DEFINE f == [k \in SeenTasks |-> Len(task[k].handled)]
  <2>1. f \in [SeenTasks -> {0}]
    BY <1>7
  <2> HIDE DEF f
  <2>2. SumFunction(f) = 0
    BY <2>1, SumOfZeros, Constants
  <2> QED BY <2>2 DEF f, EventsHandled
<1>10. Copying
  <2>1. \A key \in Keys : shared[key].at = 0 /\ shared[key].of = Current(key)
    BY DEF FeaturesInit, Current
  <2>2. \A key \in Keys, t \in Threads : ~Holds(key, t)
    BY DEF FeaturesInit, Holds, Idle, Keys, Threads
  <2>3. \A key \in Keys : ~(Holds(key, 1) /\ Holds(key, 2))
    BY <2>2 DEF Threads
  <2> QED BY <1>9, <2>1, <2>2, <2>3 DEF Copying, Copies, Newer, LastCopy
<1>11. Alone
  <2>1. \A k \in WindowKeys : Kept(k)
    <3>1. <<>> \in Seq(Nat) /\ Len(<<>>) <= WindowSize
      BY Constants
    <3>2. Trimmed(<<>>) = <<>>
      BY <3>1, TrimmedShort
    <3> QED BY <3>2 DEF Kept, FeaturesInit
  <2> QED BY <2>1 DEF Alone, FeaturesInit
<1> QED BY <1>1, <1>3, <1>4, <1>5, <1>6, <1>8, <1>10, <1>11 DEF IInv

LEMMA StutterInv == ASSUME IInv, UNCHANGED featureVars PROVE IInv'
<1> USE DEF featureVars, loadVars, uploadVars, stateVars, windowVars
<1>1. Types' /\ Place' /\ Rewarded'
  BY DEF IInv, Types, Place, Rewarded, NoRewardIsPositive, Updated
<1>2. FeaturesTypeOK'
  BY DEF IInv, FeaturesTypeOK
<1>3. Filling'
  BY DEF IInv, Filling, SummedUp, Filled, PoolLoad
<1>4. PoolLoadAddsUp'
  BY DEF IInv, PoolLoadAddsUp
<1>5. UtilizationDrains'
  <2>1. \A w : InUse(w)' = InUse(w) /\ (SentFirst(w)' <=> SentFirst(w))
    BY DEF InUse, SentFirst, Usage
  <2>2. SUFFICES ASSUME NEW w \in WorkerClasses, SentFirst(w)'
                 PROVE  utilization'[w] = SumFunction(InUse(w)')
    BY DEF UtilizationDrains, SentFirst, InUse
  <2>3. utilization[w] = SumFunction(InUse(w))
    <3>1. SentFirst(w)
      BY <2>1, <2>2
    <3> QED BY <3>1 DEF IInv, UtilizationDrains, SentFirst, InUse
  <2> QED BY <2>1, <2>3
<1>6. Copying'
  <2>1. EventsHandled' = EventsHandled /\ (\A l : Current(l)' = Current(l) /\ (Coming(l)' <=> Coming(l)))
    BY DEF Coming, Current, EventsHandled
  <2>2. Copies' /\ Newer'
    BY <2>1 DEF IInv, Copying, Copies, Newer, Holds
  <2>3. LastCopy'
    BY <2>1 DEF IInv, Copying, LastCopy, Holds
  <2> QED BY <2>2, <2>3 DEF Copying
<1>7. Alone'
  <2>1. (\A p : InLine(p)' <=> InLine(p)) /\ (\A k : Kept(k)' <=> Kept(k))
    BY DEF InLine, Kept
  <2> QED BY <2>1 DEF IInv, Alone
<1> QED BY <1>1, <1>2, <1>3, <1>4, <1>5, <1>6, <1>7 DEF IInv

LEMMA NextInv == IInv /\ [FeaturesNext]_featureVars => IInv'
<1>1. ASSUME IInv, FeaturesNext PROVE IInv'
  BY <1>1, TypesStep, PlaceStep, SizesStep, RewardsStep, FillingStep, AddsUpStep, DrainsStep, CopyingStep, AloneStep
     DEF IInv
<1> QED BY <1>1, StutterInv

LEMMA Invariant == FeaturesSpec => []IInv
BY InitInv, NextInv, PTL DEF FeaturesSpec

(* Every vector has the size the agents are made for, every number in it is a share, and no window is *)
(* longer than it should be.                                                                          *)
THEOREM FeaturesTypeCorrect == FeaturesSpec => []FeaturesTypeOK
<1>1. IInv => FeaturesTypeOK
  BY DEF IInv
<1> QED BY <1>1, Invariant, PTL

(* Whatever the clocks of the hosts, the replicas and the costs, no task has a positive reward. *)
THEOREM RewardsNeverPositive == FeaturesSpec => []NoRewardIsPositive
<1>1. IInv => NoRewardIsPositive
  BY DEF IInv, Rewarded
<1> QED BY <1>1, Invariant, PTL

(* What an agent sees is true: the shares of a state that no event has disturbed add up to one, what a *)
(* class of workers has in use is what its tasks use, the copies in redis follow the collector unless  *)
(* one has overtaken another, and a window holds the last entries unless two pushes have crossed.      *)
THEOREM FeaturesTrue == FeaturesSpec => []FeaturesAreTrue
<1>1. IInv => FeaturesAreTrue
  BY CopiesFollow, WindowHolds DEF IInv, FeaturesAreTrue
<1> QED BY <1>1, Invariant, PTL

-----------------------------------------------------------------------------
(* The runs of a search.                                                    *)

(* Division with a remainder. *)

LEMMA Divided ==
  ASSUME NEW n \in Nat, NEW w \in Nat, w > 0
  PROVE  n \div w \in Nat /\ n % w \in 0..(w - 1) /\ n = w * (n \div w) + (n % w)
OBVIOUS

LEMMA DividedOnce ==
  ASSUME NEW w \in Nat, NEW q \in Nat, NEW r \in 0..(w - 1)
  PROVE  (w * q + r) \div w = q /\ (w * q + r) % w = r
OBVIOUS

(* Rows of a width one after the other. *)
LEMMA RowAndColumn ==
  ASSUME NEW rows \in Nat, NEW width \in Nat, NEW k \in 1..(rows * width)
  PROVE  /\ width > 0
         /\ ((k - 1) \div width) + 1 \in 1..rows /\ ((k - 1) % width) + 1 \in 1..width
         /\ k = width * ((((k - 1) \div width) + 1) - 1) + (((k - 1) % width) + 1)
<1> DEFINE n == k - 1  q == n \div width  r == n % width
<1>1. n \in Nat /\ n < rows * width /\ width > 0
  <2>1. width # 0
    <3> SUFFICES ASSUME width = 0 PROVE FALSE
      OBVIOUS
    <3>1. rows * width = 0
      OBVIOUS
    <3> QED BY <3>1
  <2> QED BY <2>1
<1>2. q \in Nat /\ r \in 0..(width - 1) /\ n = width * q + r
  BY <1>1, Divided
<1> HIDE DEF q, r, n
<1>3. q < rows
  <2> SUFFICES ASSUME q >= rows PROVE FALSE
    BY <1>2
  <2>1. width * q >= rows * width
    BY <1>2
  <2> QED BY <1>1, <1>2, <2>1
<1>4. q + 1 \in 1..rows /\ r + 1 \in 1..width /\ k = n + 1
  BY <1>2, <1>3 DEF n
<1>5. k = width * ((q + 1) - 1) + (r + 1)
  BY <1>2, <1>4
<1> QED BY <1>1, <1>4, <1>5 DEF q, r, n

LEMMA PlaceOfRow ==
  ASSUME NEW rows \in Nat, NEW width \in Nat, NEW row \in 1..rows, NEW column \in 1..width
  PROVE  LET k == width * (row - 1) + column
         IN /\ k \in 1..(rows * width)
            /\ ((k - 1) \div width) + 1 = row /\ ((k - 1) % width) + 1 = column
<1> DEFINE q == row - 1  r == column - 1  k == width * q + column
<1>1. q \in Nat /\ r \in 0..(width - 1) /\ q + 1 = row /\ r + 1 = column /\ k - 1 = width * q + r
  OBVIOUS
<1>2. (k - 1) \div width = q /\ (k - 1) % width = r
  <2> HIDE DEF q, r, k
  <2> QED BY <1>1, DividedOnce
<1>3. width * q \in Nat /\ width * q <= width * (rows - 1)
  OBVIOUS
<1>4. width * (rows - 1) = rows * width - width
  OBVIOUS
<1>5. k \in 1..(rows * width)
  <2> DEFINE x == width * q  y == width * (rows - 1)  z == rows * width
  <2>1. x \in Nat /\ x <= y /\ y = z - width /\ k = x + column /\ z \in Int /\ y \in Int
    BY <1>3, <1>4
  <2> HIDE DEF x, y, z, k
  <2>2. k \in 1..z
    BY <2>1
  <2> QED BY <2>2 DEF z
<1> QED BY <1>1, <1>2, <1>5

-----------------------------------------------------------------------------
(* Products. *)

TuplesAre(lists, f) ==
  f = [n \in 0..Len(lists) |-> IF n = 0 THEN << <<>> >> ELSE Longer(f[n - 1], lists[n])]

LEMMA TuplesExist ==
  ASSUME NEW lists, Len(lists) \in Nat
  PROVE  \E f : TuplesAre(lists, f)
<1> DEFINE Up(m, f) == f = [n \in 0..m |-> IF n = 0 THEN << <<>> >> ELSE Longer(f[n - 1], lists[n])]
           P == {m \in 0..Len(lists) : \E f : Up(m, f)}
<1>1. 0 \in P
  <2> DEFINE g == [n \in 0..0 |-> << <<>> >>]
  <2>1. Up(0, g)
    OBVIOUS
  <2> HIDE DEF g, Up
  <2> QED BY <2>1
<1>2. ASSUME NEW m \in 0..Len(lists), m # Len(lists), m \in P PROVE m + 1 \in P
  <2>1. PICK g : Up(m, g)
    BY <1>2
  <2> DEFINE h == [n \in 0..(m + 1) |-> IF n = 0 THEN << <<>> >> ELSE Longer(g[n - 1], lists[n])]
  <2>2. ASSUME NEW n \in 0..m PROVE h[n] = g[n]
    <3>1. n \in 0..(m + 1)
      BY <2>2
    <3> HIDE DEF h
    <3>2. h[n] = IF n = 0 THEN << <<>> >> ELSE Longer(g[n - 1], lists[n])
      BY <3>1 DEF h
    <3>3. g[n] = IF n = 0 THEN << <<>> >> ELSE Longer(g[n - 1], lists[n])
      BY <2>1
    <3> QED BY <3>2, <3>3
  <2>3. \A n \in 0..(m + 1) : n # 0 => h[n - 1] = g[n - 1]
    <3> HIDE DEF h
    <3> TAKE n \in 0..(m + 1)
    <3>1. n # 0 => n - 1 \in 0..m
      BY <1>2
    <3> QED BY <3>1, <2>2
  <2>4. Up(m + 1, h)
    <3>1. h = [n \in 0..(m + 1) |-> IF n = 0 THEN << <<>> >> ELSE Longer(g[n - 1], lists[n])]
      OBVIOUS
    <3> HIDE DEF h
    <3> QED BY <3>1, <2>3
  <2> HIDE DEF h, Up
  <2>5. m + 1 \in 0..Len(lists)
    BY <1>2
  <2> QED BY <2>4, <2>5
<1>3. Len(lists) \in P
  <2> DEFINE N == Len(lists)
  <2>1. N \in Nat /\ N \in 0..N
    OBVIOUS
  <2>2. \A n \in 0..N : n # N /\ n \in P => n + 1 \in P
    BY <1>2
  <2> HIDE DEF P, N
  <2>3. 0..N \subseteq P
    BY <1>1, <2>1, <2>2, CountUp
  <2> QED BY <2>1, <2>3 DEF N
<1> QED BY <1>3 DEF TuplesAre

LEMMA ProductIsLast ==
  ASSUME NEW lists, Len(lists) \in Nat
  PROVE  \E f : TuplesAre(lists, f) /\ Product(lists) = f[Len(lists)]
<1> DEFINE f == CHOOSE f : TuplesAre(lists, f)
<1>1. Product(lists) = f[Len(lists)]
  BY DEF Product, TuplesAre
<1>2. TuplesAre(lists, f)
  BY TuplesExist
<1> QED BY <1>1, <1>2

(* What a product is: each choice of an element of each list once. *)
TuplesOf(U, lists, n) == {t \in Seq(U) : Len(t) = n /\ \A i \in 1..n : t[i] \in Range(lists[i])}
Lists(S, s) == s \in Seq(S) /\ IsInjective(s) /\ Range(s) = S

LEMMA LongerIsChoices ==
  ASSUME NEW U, NEW lists, NEW n \in Nat, NEW s, Lists(TuplesOf(U, lists, n), s),
         lists[n + 1] \in Seq(U), IsInjective(lists[n + 1])
  PROVE  Lists(TuplesOf(U, lists, n + 1), Longer(s, lists[n + 1]))
<1> DEFINE C == TuplesOf(U, lists, n)
           D == TuplesOf(U, lists, n + 1)
           l == lists[n + 1]
           row(k) == ((k - 1) \div Len(l)) + 1
           column(k) == ((k - 1) % Len(l)) + 1
           t == Longer(s, l)
           K == 1..(Len(s) * Len(l))
<1>1. /\ Len(s) \in Nat /\ DOMAIN s = 1..Len(s) /\ \A k \in 1..Len(s) : s[k] \in C
      /\ Len(l) \in Nat /\ DOMAIN l = 1..Len(l) /\ \A k \in 1..Len(l) : l[k] \in U /\ l[k] \in Range(l)
  BY DEF Lists, Range
<1>2. t = [k \in K |-> Append(s[row(k)], l[column(k)])]
  BY DEF Longer
<1>3. ASSUME NEW k \in K
      PROVE  /\ row(k) \in 1..Len(s) /\ column(k) \in 1..Len(l)
             /\ k = Len(l) * (row(k) - 1) + column(k)
  BY <1>1, RowAndColumn
<1>4. ASSUME NEW front \in C, NEW x \in Range(l)
      PROVE  /\ Append(front, x) \in D
             /\ \A i \in 1..n : Append(front, x)[i] = front[i]
             /\ Append(front, x)[n + 1] = x
  <2>1. front \in Seq(U) /\ Len(front) = n /\ \A i \in 1..n : front[i] \in Range(lists[i])
    BY DEF TuplesOf
  <2>2. x \in U
    BY <1>1 DEF Range
  <2>3. /\ Append(front, x) \in Seq(U) /\ Len(Append(front, x)) = n + 1
        /\ Append(front, x)[n + 1] = x
        /\ \A i \in 1..n : Append(front, x)[i] = front[i]
    BY <2>1, <2>2, AppendProperties
  <2>4. \A i \in 1..(n + 1) : Append(front, x)[i] \in Range(lists[i])
    BY <2>1, <2>3
  <2> QED BY <2>3, <2>4 DEF TuplesOf
<1> HIDE DEF t, K, C, D, l, row, column
<1>5. ASSUME NEW k \in K
      PROVE  /\ t[k] \in D /\ t[k][n + 1] = l[column(k)]
             /\ \A i \in 1..n : t[k][i] = s[row(k)][i]
  <2>1. t[k] = Append(s[row(k)], l[column(k)]) /\ s[row(k)] \in C /\ l[column(k)] \in Range(l)
    BY <1>1, <1>2, <1>3
  <2> DEFINE front == s[row(k)]  x == l[column(k)]
  <2>2. front \in C /\ x \in Range(l) /\ t[k] = Append(front, x)
    BY <2>1
  <2> HIDE DEF front, x
  <2>3. t[k] \in D /\ t[k][n + 1] = x /\ \A i \in 1..n : t[k][i] = front[i]
    <3>1. /\ Append(front, x) \in D /\ Append(front, x)[n + 1] = x
          /\ \A i \in 1..n : Append(front, x)[i] = front[i]
      BY <2>2, <1>4
    <3> QED BY <3>1, <2>2
  <2> QED BY <2>3 DEF front, x
<1>6. K = 1..Len(t) /\ DOMAIN t = K /\ t \in Seq(D)
  <2>1. Len(s) * Len(l) \in Nat
    BY <1>1
  <2>2. DOMAIN t = K
    BY <1>2
  <2>3. t \in [1..(Len(s) * Len(l)) -> D]
    BY <1>2, <1>5, <2>2 DEF K
  <2>4. t \in Seq(D)
    BY <2>1, <2>3
  <2>5. DOMAIN t = 1..Len(t)
    BY <2>4
  <2> QED BY <2>2, <2>4, <2>5
<1>7. ASSUME NEW a \in K, NEW b \in K, t[a] = t[b] PROVE a = b
  <2>1. s[row(a)] \in C /\ s[row(b)] \in C
    BY <1>1, <1>3
  <2>2. /\ s[row(a)] \in Seq(U) /\ Len(s[row(a)]) = n
        /\ s[row(b)] \in Seq(U) /\ Len(s[row(b)]) = n
    BY <2>1 DEF C, TuplesOf
  <2>3. \A i \in 1..n : s[row(a)][i] = s[row(b)][i]
    BY <1>5, <1>7
  <2>4. s[row(a)] = s[row(b)]
    BY <2>2, <2>3, SeqEqual
  <2>5. row(a) = row(b)
    BY <2>4, <1>1, <1>3 DEF Lists, IsInjective
  <2>6. column(a) = column(b)
    <3>1. l[column(a)] = l[column(b)]
      BY <1>5, <1>7
    <3> QED BY <3>1, <1>1, <1>3 DEF l, IsInjective
  <2> QED BY <2>5, <2>6, <1>3
<1>8. ASSUME NEW d \in D PROVE \E k \in K : t[k] = d
  <2>1. d \in Seq(U) /\ Len(d) = n + 1 /\ \A i \in 1..(n + 1) : d[i] \in Range(lists[i])
    BY DEF D, TuplesOf
  <2> DEFINE front == SubSeq(d, 1, n)
  <2>2. front \in Seq(U) /\ Len(front) = n /\ \A i \in 1..n : front[i] = d[i]
    <3>1. \A i \in 1..n : d[i] \in U
      BY <2>1
    <3> QED BY <3>1, SubSeqProperties
  <2> HIDE DEF front
  <2>3. front \in C
    BY <2>1, <2>2 DEF C, TuplesOf
  <2>4. PICK a \in 1..Len(s) : s[a] = front
    BY <2>3, <1>1 DEF Lists, Range, C
  <2>5. PICK b \in 1..Len(l) : l[b] = d[n + 1]
    BY <2>1, <1>1 DEF Range, l
  <2> DEFINE k == Len(l) * (a - 1) + b
  <2>6. k \in K /\ row(k) = a /\ column(k) = b
    <3>1. Len(s) \in Nat /\ Len(l) \in Nat
      BY <1>1 DEF Lists, l
    <3>2. /\ k \in 1..(Len(s) * Len(l))
          /\ ((k - 1) \div Len(l)) + 1 = a /\ ((k - 1) % Len(l)) + 1 = b
      <4> HIDE DEF l
      <4> QED BY <3>1, PlaceOfRow, SMTT(30)
    <3> HIDE DEF k, l
    <3> QED BY <3>2 DEF K, row, column
  <2> HIDE DEF k
  <2>7. t[k] \in D /\ t[k][n + 1] = d[n + 1] /\ \A i \in 1..n : t[k][i] = d[i]
    BY <2>6, <2>4, <2>5, <2>2, <1>5
  <2>8. t[k] = d
    <3>1. t[k] \in Seq(U) /\ Len(t[k]) = n + 1
      BY <2>7 DEF D, TuplesOf
    <3>2. \A i \in 1..(n + 1) : t[k][i] = d[i]
      BY <2>7
    <3> QED BY <3>1, <3>2, <2>1, SeqEqual
  <2> QED BY <2>6, <2>8
<1>9. IsInjective(t) /\ Range(t) = D
  <2>1. IsInjective(t)
    BY <1>6, <1>7 DEF IsInjective
  <2>2. Range(t) = D
    BY <1>6, <1>5, <1>8 DEF Range
  <2> QED BY <2>1, <2>2
<1> QED BY <1>6, <1>9 DEF Lists, t, D, l

LEMMA ProductIsChoices ==
  ASSUME NEW U, NEW lists, Len(lists) \in Nat,
         \A i \in 1..Len(lists) : lists[i] \in Seq(U) /\ IsInjective(lists[i])
  PROVE  Lists(TuplesOf(U, lists, Len(lists)), Product(lists))
<1>1. PICK f : TuplesAre(lists, f) /\ Product(lists) = f[Len(lists)]
  BY ProductIsLast
<1> DEFINE N == Len(lists)
           P == {n \in 0..N : Lists(TuplesOf(U, lists, n), f[n])}
<1>2. 0 \in P
  <2>1. f[0] = << <<>> >>
    BY <1>1 DEF TuplesAre
  <2>2. TuplesOf(U, lists, 0) = {<<>>}
    <3>1. <<>> \in TuplesOf(U, lists, 0)
      BY EmptySeq DEF TuplesOf
    <3>2. \A t \in TuplesOf(U, lists, 0) : t = <<>>
      BY EmptySeq DEF TuplesOf
    <3> QED BY <3>1, <3>2
  <2>3. Lists({<<>>}, << <<>> >>)
    BY DEF Lists, IsInjective, Range
  <2>4. 0 \in 0..N
    OBVIOUS
  <2>5. Lists(TuplesOf(U, lists, 0), f[0])
    BY <2>1, <2>2, <2>3
  <2> QED BY <2>4, <2>5
<1>3. \A n \in 0..N : n # N /\ n \in P => n + 1 \in P
  <2> TAKE n \in 0..N
  <2> HAVE n # N /\ n \in P
  <2>1. n \in Nat /\ n + 1 \in 1..N /\ n + 1 \in 0..N /\ (n + 1) - 1 = n /\ n + 1 # 0
    OBVIOUS
  <2>2. f[n + 1] = Longer(f[n], lists[n + 1])
    <3>1. f[n + 1] = IF n + 1 = 0 THEN << <<>> >> ELSE Longer(f[(n + 1) - 1], lists[n + 1])
      BY <2>1, <1>1 DEF TuplesAre
    <3> QED BY <3>1, <2>1
  <2>3. Lists(TuplesOf(U, lists, n), f[n])
    OBVIOUS
  <2> HIDE DEF P
  <2>4. Lists(TuplesOf(U, lists, n + 1), Longer(f[n], lists[n + 1]))
    BY <2>1, <2>3, LongerIsChoices
  <2> QED BY <2>1, <2>2, <2>4 DEF P
<1>4. N \in Nat /\ N \in 0..N
  OBVIOUS
<1>5. N \in P
  <2> HIDE DEF P, N
  <2> QED BY <1>2, <1>3, <1>4, CountUp
<1> QED BY <1>1, <1>5

-----------------------------------------------------------------------------
(* Combinations. *)

LEMMA SequenceOf ==
  ASSUME NEW S, NEW n \in Nat, NEW s, s \in [1..n -> S]
  PROVE  s \in Seq(S) /\ Len(s) = n /\ DOMAIN s = 1..n
OBVIOUS

LEMMA CountTo == ASSUME NEW n \in Nat PROVE IsFiniteSet(1..n) /\ Cardinality(1..n) = n
<1>1. IsFiniteSet(1..n) /\ Cardinality(1..n) = IF 1 > n THEN 0 ELSE n - 1 + 1
  BY FS_Interval
<1> QED BY <1>1

LEMMA LinearIsDeclared ==
  ASSUME NEW p, ValidParameter(p), p.mode # "array"
  PROVE  Lists(Declared(p), Linear(p))
<1> DEFINE min == p.min  max == p.max  step == p.step
           q == (max - min) \div step
           r == (max - min) % step
           count == q + 1
           steps == [i \in 1..count |-> min + (i - 1) * step]
           Even == {v \in min..max : (v - min) % step = 0}
<1>1. min \in Int /\ max \in Int /\ min <= max /\ step \in Nat /\ step > 0 /\ max - min \in Nat
  <2>1. p.min \in Int /\ p.max \in Int /\ p.min <= p.max /\ p.step \in Nat \ {0}
    BY Zenon DEF ValidParameter
  <2> QED BY <2>1
<1>2. Linear(p) = IF min + count * step = max + step THEN steps ELSE Append(steps, max)
  <2> DEFINE c == IF p.min > p.max THEN 0 ELSE q + 1
             s == [i \in 1..c |-> p.min + (i - 1) * p.step]
  <2>1. Linear(p) = IF p.min + c * p.step = p.max + p.step THEN s ELSE Append(s, p.max)
    BY DEF Linear
  <2>2. c = count
    <3>1. ~(p.min > p.max)
      BY <1>1
    <3> HIDE DEF q
    <3> QED BY <3>1
  <2> HIDE DEF c, count
  <2>3. s = steps
    BY <2>2
  <2> HIDE DEF s, steps
  <2> QED BY <2>1, <2>2, <2>3
<1>3. Declared(p) = Even \union {max}
  BY DEF Declared
<1> HIDE DEF min, max, step
<1>4. q \in Nat /\ r \in 0..(step - 1) /\ max - min = step * q + r
  BY <1>1, Divided
<1> HIDE DEF q, r
<1>5. count * step = q * step + step /\ step * q = q * step
  BY <1>1, <1>4
<1>6. min + count * step = max + step <=> r = 0
  <2> DEFINE x == q * step  y == count * step
  <2>1. x \in Int /\ y = x + step /\ max - min = x + r
    BY <1>1, <1>4, <1>5
  <2> HIDE DEF x, y
  <2>2. min + y = max + step <=> r = 0
    BY <2>1, <1>1, <1>4
  <2> QED BY <2>2 DEF y
<1>7. ASSUME NEW i \in 1..count
      PROVE  /\ steps[i] = min + (i - 1) * step /\ (i - 1) * step \in Nat
             /\ (i - 1) * step <= q * step
             /\ steps[i] \in Even
             /\ r # 0 => steps[i] # max
  <2>1. i - 1 \in Nat /\ i - 1 <= q /\ steps[i] = min + (i - 1) * step
    BY <1>4
  <2>2. (i - 1) * step \in Nat /\ (i - 1) * step <= q * step
    BY <2>1, <1>1, <1>4
  <2>3. (step * (i - 1) + 0) % step = 0
    BY <1>1, <2>1, DividedOnce
  <2>4. ((i - 1) * step) % step = 0
    <3>1. step * (i - 1) + 0 = (i - 1) * step
      BY <2>1, <1>1
    <3> QED BY <2>3, <3>1
  <2> DEFINE x == (i - 1) * step  y == q * step
  <2> HIDE DEF x, y, steps
  <2>5. x \in Nat /\ x <= y /\ steps[i] = min + x /\ x % step = 0 /\ y \in Int /\ max - min = y + r
    BY <2>1, <2>2, <2>4, <1>1, <1>4, <1>5 DEF x, y
  <2>6. steps[i] \in min..max /\ steps[i] - min = x /\ (r # 0 => steps[i] # max)
    BY <2>5, <1>1, <1>4
  <2>7. steps[i] \in Even
    BY <2>5, <2>6
  <2> QED BY <2>1, <2>2, <2>6, <2>7
<1>8. ASSUME NEW v \in Even PROVE \E i \in 1..count : steps[i] = v
  <2> DEFINE x == (v - min) \div step
  <2>1. v \in min..max /\ v - min \in Nat /\ (v - min) % step = 0
    BY <1>1
  <2>2. x \in Nat /\ v - min = step * x + ((v - min) % step)
    BY <2>1, <1>1, Divided
  <2> HIDE DEF x
  <2>3. v - min = x * step
    BY <2>1, <2>2, <1>1
  <2>4. x <= q
    <3> SUFFICES ASSUME x >= q + 1 PROVE FALSE
      BY <2>2, <1>4
    <3>1. x * step >= (q + 1) * step
      BY <2>2, <1>1, <1>4
    <3> DEFINE a == x * step  b == (q + 1) * step  c == q * step
    <3>2. b = c + step /\ a >= b /\ v - min = a /\ max - min = c + r /\ c \in Int /\ a \in Int
      BY <3>1, <2>3, <2>2, <1>1, <1>4, <1>5
    <3> HIDE DEF a, b, c
    <3> QED BY <3>2, <1>1, <1>4, <2>1
  <2>5. x + 1 \in 1..count /\ (x + 1) - 1 = x
    BY <2>2, <2>4, <1>4
  <2>6. steps[x + 1] = min + x * step
    BY <2>5
  <2>7. steps[x + 1] = v
    BY <2>6, <2>3, <1>1, <2>1
  <2> QED BY <2>5, <2>7
<1>9. ASSUME NEW i \in 1..count, NEW j \in 1..count, steps[i] = steps[j] PROVE i = j
  <2>1. (i - 1) * step = (j - 1) * step
    <3> DEFINE x == (i - 1) * step  y == (j - 1) * step
    <3>1. x \in Nat /\ y \in Nat /\ steps[i] = min + x /\ steps[j] = min + y
      BY <1>7
    <3> HIDE DEF x, y, steps
    <3>2. x = y
      BY <3>1, <1>9, <1>1
    <3> QED BY <3>2 DEF x, y
  <2>2. i - 1 \in Nat /\ j - 1 \in Nat
    BY <1>4
  <2>3. (step * (i - 1) + 0) \div step = i - 1 /\ (step * (j - 1) + 0) \div step = j - 1
    BY <1>1, <2>2, DividedOnce
  <2>4. step * (i - 1) + 0 = (i - 1) * step /\ step * (j - 1) + 0 = (j - 1) * step
    BY <2>2, <1>1
  <2>5. i - 1 = j - 1
    BY <2>1, <2>3, <2>4
  <2> QED BY <2>5, <1>4
<1>10. count \in Nat /\ steps \in [1..count -> Even]
  <2>1. DOMAIN steps = 1..count
    OBVIOUS
  <2>2. steps = [i \in 1..count |-> steps[i]]
    OBVIOUS
  <2> HIDE DEF steps, Even
  <2>3. steps \in [1..count -> Even]
    BY <2>1, <2>2, <1>7
  <2> QED BY <2>3, <1>4
<1>11. max \in Even <=> r = 0
  BY <1>1 DEF r
<1> HIDE DEF steps, count, Even
<1>12. steps \in Seq(Even) /\ Len(steps) = count /\ DOMAIN steps = 1..count /\ steps \in Seq(Even \union {max})
  BY <1>10, SequenceOf
<1>13. CASE r = 0
  <2>1. Linear(p) = steps /\ Declared(p) = Even
    BY <1>13, <1>2, <1>3, <1>6, <1>11
  <2>2. IsInjective(steps) /\ Range(steps) = Even
    <3>1. IsInjective(steps)
      BY <1>9, <1>12 DEF IsInjective
    <3>2. \A v \in Even : \E i \in DOMAIN steps : steps[i] = v
      BY <1>8, <1>12
    <3>3. \A i \in DOMAIN steps : steps[i] \in Even
      BY <1>7, <1>12
    <3>4. Range(steps) = Even
      BY <3>2, <3>3 DEF Range
    <3> QED BY <3>1, <3>4
  <2> QED BY <2>1, <2>2, <1>12 DEF Lists
<1>14. CASE r # 0
  <2> DEFINE s == Append(steps, max)  D == Even \union {max}
  <2>1. Linear(p) = s /\ Declared(p) = D
    BY <1>14, <1>2, <1>3, <1>6
  <2>2. /\ s \in Seq(D) /\ Len(s) = count + 1 /\ s[count + 1] = max
        /\ \A i \in 1..count : s[i] = steps[i]
    <3>1. steps \in Seq(D) /\ max \in D
      BY <1>12
    <3> QED BY <3>1, <1>12, AppendProperties
  <2>3. DOMAIN s = 1..(count + 1)
    BY <2>2, LenProperties
  <2> HIDE DEF s
  <2>4. IsInjective(s)
    <3> SUFFICES ASSUME NEW i \in 1..(count + 1), NEW j \in 1..(count + 1), s[i] = s[j] PROVE i = j
      BY <2>3 DEF IsInjective
    <3>1. i \in 1..count \/ i = count + 1
      BY <1>10
    <3>2. j \in 1..count \/ j = count + 1
      BY <1>10
    <3>3. CASE i \in 1..count /\ j \in 1..count
      BY <3>3, <2>2, <1>9
    <3>4. CASE i \in 1..count /\ j = count + 1
      BY <3>4, <2>2, <1>7, <1>14
    <3>5. CASE i = count + 1 /\ j \in 1..count
      BY <3>5, <2>2, <1>7, <1>14
    <3> QED BY <3>1, <3>2, <3>3, <3>4, <3>5
  <2>5. Range(s) = D
    <3>1. ASSUME NEW v \in D PROVE \E i \in DOMAIN s : s[i] = v
      <4>1. CASE v = max
        <5>1. count + 1 \in 1..(count + 1)
          BY <1>10
        <5> QED BY <5>1, <4>1, <2>2, <2>3
      <4>2. CASE v \in Even
        <5>1. PICK i \in 1..count : steps[i] = v
          BY <4>2, <1>8
        <5>2. i \in 1..(count + 1)
          BY <1>10
        <5> QED BY <5>1, <5>2, <2>2, <2>3
      <4> QED BY <4>1, <4>2
    <3>2. \A i \in DOMAIN s : s[i] \in D
      BY <2>2, <2>3
    <3> QED BY <3>1, <3>2 DEF Range
  <2> QED BY <2>1, <2>2, <2>4, <2>5 DEF Lists
<1> QED BY <1>13, <1>14

(* The values a parameter is given, each in one element of its list. *)
IsOf(e, p) == e.kind = p.kind /\ e.name = p.name /\ e.param = p.param /\ e.value \in Declared(p)

LEMMA PossibilitiesAreDeclared ==
  ASSUME NEW p, ValidParameter(p)
  PROVE  LET s == Possibilities(p)
         IN /\ s \in Seq(Range(s)) /\ IsInjective(s) /\ Len(s) \in Nat /\ DOMAIN s = 1..Len(s)
            /\ \A e \in Range(s) : IsOf(e, p)
            /\ \A e, g \in Range(s) : e.value = g.value => e = g
            /\ \A v \in Declared(p) : \E e \in Range(s) : e.value = v
<1> DEFINE offered == IF p.mode = "array" THEN p.values ELSE Linear(p)
           s == Possibilities(p)
           seed == IF p.mode = "array" THEN p.seed ELSE {}
<1>1. Lists(Declared(p), offered)
  <2>1. CASE p.mode = "array"
    BY <2>1 DEF ValidParameter, Lists, Declared
  <2>2. CASE p.mode # "array"
    BY <2>2, LinearIsDeclared
  <2> QED BY <2>1, <2>2
<1>2. s = [i \in DOMAIN offered |->
            [kind |-> p.kind, name |-> p.name, param |-> p.param, value |-> offered[i], seed |-> seed]]
  BY DEF Possibilities
<1> HIDE DEF offered, s, seed
<1>3. offered \in Seq(Declared(p)) /\ IsInjective(offered) /\ Range(offered) = Declared(p)
  BY <1>1 DEF Lists
<1>4. Len(offered) \in Nat /\ DOMAIN offered = 1..Len(offered)
  BY <1>3, LenProperties
<1>5. s \in [1..Len(offered) -> Range(s)]
  BY <1>2, <1>4 DEF Range
<1>6. s \in Seq(Range(s)) /\ Len(s) = Len(offered) /\ DOMAIN s = 1..Len(offered)
  BY <1>5, <1>4, SequenceOf
<1>7. \A i \in 1..Len(offered) :
         /\ s[i].kind = p.kind /\ s[i].name = p.name /\ s[i].param = p.param /\ s[i].value = offered[i]
         /\ s[i].seed = seed /\ offered[i] \in Declared(p)
  BY <1>2, <1>3, <1>4
<1>8. \A i, j \in 1..Len(offered) : s[i].value = s[j].value => i = j
  BY <1>7, <1>3, <1>4 DEF IsInjective
<1>9. IsInjective(s)
  BY <1>6, <1>8 DEF IsInjective
<1>10. \A e \in Range(s) : IsOf(e, p)
  BY <1>6, <1>7 DEF Range, IsOf
<1>11. \A e, g \in Range(s) : e.value = g.value => e = g
  BY <1>6, <1>8 DEF Range
<1>12. ASSUME NEW v \in Declared(p) PROVE \E e \in Range(s) : e.value = v
  <2>1. PICK i \in 1..Len(offered) : offered[i] = v
    BY <1>3, <1>4 DEF Range
  <2>2. s[i] \in Range(s) /\ s[i].value = v
    BY <2>1, <1>6, <1>7 DEF Range
  <2> QED BY <2>2
<1> QED BY <1>4, <1>6, <1>9, <1>10, <1>11, <1>12 DEF s

(* The combinations of an agent are the choices of offered for its parameters, each once. *)
Combinations(agent) == GenerateCombinations(agent.parameters)
Valued(agent, t) == [i \in DOMAIN agent.parameters |-> t[i].value]

LEMMA CombinationsArePicks ==
  ASSUME NEW agent, ValidAgent(agent)
  PROVE  LET G == Combinations(agent)
             ps == agent.parameters
         IN /\ Len(G) \in Nat /\ DOMAIN G = 1..Len(G)
            /\ Len(ps) \in Nat /\ DOMAIN ps = 1..Len(ps)
            /\ \A k \in 1..Len(G) : /\ Len(G[k]) = Len(ps) /\ Valued(agent, G[k]) \in Picks(agent)
                                    /\ \A i \in 1..Len(ps) : IsOf(G[k][i], ps[i])
            /\ \A v \in Picks(agent) : \E k \in 1..Len(G) : Valued(agent, G[k]) = v
            /\ \A k, l \in 1..Len(G) : Valued(agent, G[k]) = Valued(agent, G[l]) => k = l
            /\ IsFiniteSet(Picks(agent)) /\ Cardinality(Picks(agent)) = Len(G)
<1> DEFINE G == Combinations(agent)
           ps == agent.parameters
           lists == [i \in DOMAIN ps |-> Possibilities(ps[i])]
           U == UNION {Range(lists[i]) : i \in DOMAIN ps}
           V == UNION {Declared(p) : p \in Range(ps)}
<1>1. Len(ps) \in Nat /\ DOMAIN ps = 1..Len(ps) /\ \A i \in 1..Len(ps) : ps[i] \in Range(ps)
  <2>1. ps \in Seq(Range(ps))
    BY DEF ValidAgent
  <2> QED BY <2>1, LenProperties DEF Range
<1>2. \A i \in 1..Len(ps) : ValidParameter(ps[i])
  BY <1>1 DEF ValidAgent
<1> HIDE DEF ps
<1>3. Len(lists) = Len(ps) /\ \A i \in 1..Len(ps) : lists[i] = Possibilities(ps[i])
  BY <1>1
<1> HIDE DEF lists
<1>4. ASSUME NEW i \in 1..Len(ps)
      PROVE  /\ lists[i] \in Seq(U) /\ IsInjective(lists[i])
             /\ \A e \in Range(lists[i]) : IsOf(e, ps[i])
             /\ \A e, g \in Range(lists[i]) : e.value = g.value => e = g
             /\ \A v \in Declared(ps[i]) : \E e \in Range(lists[i]) : e.value = v
  <2>1. /\ lists[i] \in Seq(Range(lists[i])) /\ IsInjective(lists[i])
        /\ \A e \in Range(lists[i]) : IsOf(e, ps[i])
        /\ \A e, g \in Range(lists[i]) : e.value = g.value => e = g
        /\ \A v \in Declared(ps[i]) : \E e \in Range(lists[i]) : e.value = v
    <3>1. ValidParameter(ps[i])
      BY <1>2
    <3> QED BY <3>1, <1>3, PossibilitiesAreDeclared
  <2>2. Range(lists[i]) \subseteq U
    BY <1>1
  <2>3. lists[i] \in Seq(U)
    <3> HIDE DEF U
    <3> QED BY <2>1, <2>2, SeqMonotonic
  <2> QED BY <2>1, <2>3
<1> HIDE DEF U
<1>5. Lists(TuplesOf(U, lists, Len(ps)), G)
  <2>1. G = Product(lists)
    BY DEF Combinations, GenerateCombinations, ps, lists
  <2> QED BY <2>1, <1>1, <1>3, <1>4, ProductIsChoices
<1> DEFINE C == TuplesOf(U, lists, Len(ps))
<1>6. /\ G \in Seq(C) /\ Len(G) \in Nat /\ DOMAIN G = 1..Len(G) /\ Range(G) = C
      /\ \A k \in 1..Len(G) : G[k] \in C
  BY <1>5, LenProperties DEF Lists
<1> HIDE DEF G
<1>7. ASSUME NEW t \in C
      PROVE  /\ t \in Seq(U) /\ Len(t) = Len(ps) /\ Valued(agent, t) \in Picks(agent)
             /\ \A i \in 1..Len(ps) : /\ t[i] \in Range(lists[i]) /\ IsOf(t[i], ps[i])
                                      /\ Valued(agent, t)[i] = t[i].value
  <2>1. t \in Seq(U) /\ Len(t) = Len(ps) /\ \A i \in 1..Len(ps) : t[i] \in Range(lists[i])
    BY DEF TuplesOf
  <2>2. \A i \in 1..Len(ps) : IsOf(t[i], ps[i]) /\ t[i].value \in Declared(ps[i])
    BY <2>1, <1>4 DEF IsOf
  <2>3. \A i \in 1..Len(ps) : Valued(agent, t)[i] = t[i].value
    BY <1>1 DEF Valued, ps
  <2>4. Valued(agent, t) \in [1..Len(ps) -> V]
    <3>1. \A i \in 1..Len(ps) : t[i].value \in V
      BY <2>2, <1>1
    <3> HIDE DEF V
    <3> QED BY <3>1, <1>1 DEF Valued, ps
  <2>5. Valued(agent, t) \in Picks(agent)
    BY <2>2, <2>3, <2>4, <1>1 DEF Picks, ps
  <2> QED BY <2>1, <2>2, <2>3, <2>5
<1>8. ASSUME NEW s \in C, NEW t \in C, Valued(agent, s) = Valued(agent, t) PROVE s = t
  <2>1. ASSUME NEW i \in 1..Len(ps) PROVE s[i] = t[i]
    <3>1. s[i].value = t[i].value /\ s[i] \in Range(lists[i]) /\ t[i] \in Range(lists[i])
      BY <1>7, <1>8
    <3> QED BY <3>1, <1>4
  <2>2. s \in Seq(U) /\ t \in Seq(U) /\ Len(s) = Len(ps) /\ Len(t) = Len(ps)
    BY <1>7
  <2> QED BY <2>1, <2>2, SeqEqual
<1>9. ASSUME NEW v \in Picks(agent) PROVE \E k \in 1..Len(G) : Valued(agent, G[k]) = v
  <2>1. v \in [1..Len(ps) -> V] /\ \A i \in 1..Len(ps) : v[i] \in Declared(ps[i])
    BY <1>1 DEF Picks, ps
  <2> DEFINE t == [i \in 1..Len(ps) |-> CHOOSE e \in Range(lists[i]) : e.value = v[i]]
  <2>2. ASSUME NEW i \in 1..Len(ps) PROVE t[i] \in Range(lists[i]) /\ t[i].value = v[i] /\ t[i] \in U
    <3>1. \E e \in Range(lists[i]) : e.value = v[i]
      BY <2>1, <1>4
    <3>2. t[i] \in Range(lists[i]) /\ t[i].value = v[i]
      BY <3>1
    <3> QED BY <3>2, <1>1 DEF U
  <2>3. t \in [1..Len(ps) -> U]
    <3>1. DOMAIN t = 1..Len(ps) /\ t = [i \in 1..Len(ps) |-> t[i]]
      OBVIOUS
    <3> HIDE DEF t
    <3> QED BY <3>1, <2>2
  <2> HIDE DEF t
  <2>4. t \in Seq(U) /\ Len(t) = Len(ps)
    BY <2>3, <1>1, SequenceOf
  <2>5. t \in C
    BY <2>2, <2>4 DEF TuplesOf
  <2>6. Valued(agent, t) = v
    <3>1. \A i \in 1..Len(ps) : Valued(agent, t)[i] = v[i]
      BY <2>2, <2>5, <1>7
    <3>2. Valued(agent, t) = [i \in 1..Len(ps) |-> Valued(agent, t)[i]] /\ v = [i \in 1..Len(ps) |-> v[i]]
      BY <2>1, <1>1 DEF Valued, ps
    <3> QED BY <3>1, <3>2
  <2>7. PICK k \in 1..Len(G) : G[k] = t
    BY <2>5, <1>6 DEF Range
  <2> QED BY <2>6, <2>7
<1>10. ASSUME NEW k \in 1..Len(G), NEW l \in 1..Len(G), Valued(agent, G[k]) = Valued(agent, G[l])
       PROVE  k = l
  <2>1. G[k] = G[l]
    BY <1>6, <1>8, <1>10
  <2> QED BY <2>1, <1>5, <1>6 DEF Lists, IsInjective
<1>11. IsFiniteSet(Picks(agent)) /\ Cardinality(Picks(agent)) = Len(G)
  <2> DEFINE f == [k \in 1..Len(G) |-> Valued(agent, G[k])]
  <2>1. \A k \in 1..Len(G) : f[k] = Valued(agent, G[k]) /\ f[k] \in Picks(agent)
    BY <1>6, <1>7
  <2>2. f \in [1..Len(G) -> Picks(agent)]
    BY <2>1
  <2> HIDE DEF f
  <2>3. f \in Bijection(1..Len(G), Picks(agent))
    <3>1. f \in Injection(1..Len(G), Picks(agent))
      BY <2>1, <2>2, <1>10 DEF Injection, IsInjective
    <3>2. f \in Surjection(1..Len(G), Picks(agent))
      BY <2>1, <2>2, <1>9 DEF Surjection
    <3> QED BY <3>1, <3>2 DEF Bijection
  <2>4. IsFiniteSet(1..Len(G)) /\ Cardinality(1..Len(G)) = Len(G)
    BY <1>6, CountTo
  <2>5. ExistsBijection(1..Len(G), Picks(agent))
    BY <2>3 DEF ExistsBijection
  <2> QED BY <2>4, <2>5, FS_Bijection
<1> QED BY <1>1, <1>6, <1>7, <1>9, <1>10, <1>11 DEF G, ps

-----------------------------------------------------------------------------
(* Setting one parameter after the other, and one combination after the other. *)

SetAre(c, l, f) == f = [n \in 0..Len(l) |-> IF n = 0 THEN c ELSE SetParameter(f[n - 1], l[n])]

LEMMA SetExist == ASSUME NEW c, NEW l, Len(l) \in Nat PROVE \E f : SetAre(c, l, f)
<1> DEFINE Up(m, f) == f = [n \in 0..m |-> IF n = 0 THEN c ELSE SetParameter(f[n - 1], l[n])]
           N == Len(l)
           P == {m \in 0..N : \E f : Up(m, f)}
<1>1. 0 \in P
  <2> DEFINE g == [n \in 0..0 |-> c]
  <2>1. Up(0, g)
    OBVIOUS
  <2> HIDE DEF g, Up
  <2> QED BY <2>1
<1>2. ASSUME NEW m \in 0..N, m # N, m \in P PROVE m + 1 \in P
  <2>1. PICK g : Up(m, g)
    BY <1>2
  <2> DEFINE h == [n \in 0..(m + 1) |-> IF n = 0 THEN c ELSE SetParameter(g[n - 1], l[n])]
  <2>2. ASSUME NEW n \in 0..m PROVE h[n] = g[n]
    <3>1. n \in 0..(m + 1)
      BY <2>2
    <3> HIDE DEF h
    <3>2. h[n] = IF n = 0 THEN c ELSE SetParameter(g[n - 1], l[n])
      BY <3>1 DEF h
    <3>3. g[n] = IF n = 0 THEN c ELSE SetParameter(g[n - 1], l[n])
      BY <2>1
    <3> QED BY <3>2, <3>3
  <2>3. \A n \in 0..(m + 1) : n # 0 => h[n - 1] = g[n - 1]
    <3> HIDE DEF h
    <3> TAKE n \in 0..(m + 1)
    <3>1. n # 0 => n - 1 \in 0..m
      BY <1>2
    <3> QED BY <3>1, <2>2
  <2>4. Up(m + 1, h)
    <3>1. h = [n \in 0..(m + 1) |-> IF n = 0 THEN c ELSE SetParameter(g[n - 1], l[n])]
      OBVIOUS
    <3> HIDE DEF h
    <3> QED BY <3>1, <2>3
  <2> HIDE DEF h, Up
  <2>5. m + 1 \in 0..N
    BY <1>2
  <2> QED BY <2>4, <2>5
<1>3. N \in Nat /\ N \in 0..N
  OBVIOUS
<1>4. \A m \in 0..N : m # N /\ m \in P => m + 1 \in P
  BY <1>2
<1>5. N \in P
  <2> HIDE DEF P, N
  <2> QED BY <1>1, <1>3, <1>4, CountUp
<1> QED BY <1>5 DEF SetAre

LEMMA SetOneByOne ==
  ASSUME NEW c, NEW l, Len(l) \in Nat
  PROVE  \E f : /\ f[0] = c /\ f[Len(l)] = SetParameters(c, l)
                /\ \A n \in 0..Len(l) : n # Len(l) => f[n + 1] = SetParameter(f[n], l[n + 1])
<1> DEFINE f == CHOOSE f : SetAre(c, l, f)
<1>1. SetParameters(c, l) = f[Len(l)]
  BY DEF SetParameters, SetAre
<1>2. SetAre(c, l, f)
  BY SetExist
<1> HIDE DEF f
<1>3. \A n \in 0..Len(l) : f[n] = IF n = 0 THEN c ELSE SetParameter(f[n - 1], l[n])
  BY <1>2 DEF SetAre
<1>4. ASSUME NEW n \in 0..Len(l), n # Len(l) PROVE f[n + 1] = SetParameter(f[n], l[n + 1])
  <2>1. n + 1 \in 0..Len(l) /\ n + 1 # 0 /\ (n + 1) - 1 = n
    BY <1>4
  <2>2. f[n + 1] = SetParameter(f[(n + 1) - 1], l[n + 1])
    BY <1>3, <2>1
  <2> QED BY <2>1, <2>2
<1>5. f[0] = c
  BY <1>3
<1> QED BY <1>1, <1>4, <1>5

ConfiguredAre(c, l, f) == f = [n \in 0..Len(l) |-> IF n = 0 THEN c ELSE SetParameters(f[n - 1], l[n])]

LEMMA ConfiguredExist == ASSUME NEW c, NEW l, Len(l) \in Nat PROVE \E f : ConfiguredAre(c, l, f)
<1> DEFINE Up(m, f) == f = [n \in 0..m |-> IF n = 0 THEN c ELSE SetParameters(f[n - 1], l[n])]
           N == Len(l)
           P == {m \in 0..N : \E f : Up(m, f)}
<1>1. 0 \in P
  <2> DEFINE g == [n \in 0..0 |-> c]
  <2>1. Up(0, g)
    OBVIOUS
  <2> HIDE DEF g, Up
  <2> QED BY <2>1
<1>2. ASSUME NEW m \in 0..N, m # N, m \in P PROVE m + 1 \in P
  <2>1. PICK g : Up(m, g)
    BY <1>2
  <2> DEFINE h == [n \in 0..(m + 1) |-> IF n = 0 THEN c ELSE SetParameters(g[n - 1], l[n])]
  <2>2. ASSUME NEW n \in 0..m PROVE h[n] = g[n]
    <3>1. n \in 0..(m + 1)
      BY <2>2
    <3> HIDE DEF h
    <3>2. h[n] = IF n = 0 THEN c ELSE SetParameters(g[n - 1], l[n])
      BY <3>1 DEF h
    <3>3. g[n] = IF n = 0 THEN c ELSE SetParameters(g[n - 1], l[n])
      BY <2>1
    <3> QED BY <3>2, <3>3
  <2>3. \A n \in 0..(m + 1) : n # 0 => h[n - 1] = g[n - 1]
    <3> HIDE DEF h
    <3> TAKE n \in 0..(m + 1)
    <3>1. n # 0 => n - 1 \in 0..m
      BY <1>2
    <3> QED BY <3>1, <2>2
  <2>4. Up(m + 1, h)
    <3>1. h = [n \in 0..(m + 1) |-> IF n = 0 THEN c ELSE SetParameters(g[n - 1], l[n])]
      OBVIOUS
    <3> HIDE DEF h
    <3> QED BY <3>1, <2>3
  <2> HIDE DEF h, Up
  <2>5. m + 1 \in 0..N
    BY <1>2
  <2> QED BY <2>4, <2>5
<1>3. N \in Nat /\ N \in 0..N
  OBVIOUS
<1>4. \A m \in 0..N : m # N /\ m \in P => m + 1 \in P
  BY <1>2
<1>5. N \in P
  <2> HIDE DEF P, N
  <2> QED BY <1>1, <1>3, <1>4, CountUp
<1> QED BY <1>5 DEF ConfiguredAre

LEMMA ConfiguredOneByOne ==
  ASSUME NEW c, NEW l, Len(l) \in Nat
  PROVE  LET f == Configured(c, l)
         IN /\ f[0] = c
            /\ \A n \in 0..Len(l) : n # Len(l) => f[n + 1] = SetParameters(f[n], l[n + 1])
<1> DEFINE f == Configured(c, l)
<1>1. ConfiguredAre(c, l, f)
  <2>1. f = CHOOSE g : ConfiguredAre(c, l, g)
    BY DEF Configured, ConfiguredAre
  <2> HIDE DEF f
  <2> QED BY <2>1, ConfiguredExist
<1> HIDE DEF f
<1>3. \A n \in 0..Len(l) : f[n] = IF n = 0 THEN c ELSE SetParameters(f[n - 1], l[n])
  BY <1>1 DEF ConfiguredAre
<1>4. ASSUME NEW n \in 0..Len(l), n # Len(l) PROVE f[n + 1] = SetParameters(f[n], l[n + 1])
  <2>1. n + 1 \in 0..Len(l) /\ n + 1 # 0 /\ (n + 1) - 1 = n
    BY <1>4
  <2>2. f[n + 1] = SetParameters(f[(n + 1) - 1], l[n + 1])
    BY <1>3, <2>1
  <2> QED BY <2>1, <2>2
<1>5. f[0] = c
  BY <1>3
<1> QED BY <1>4, <1>5 DEF f

(* A configuration has the template's parts. *)
Kinds == {"agent", "agent_parameter_param", "policy", "policy_param", "agent_global", "agent_global_param"}
Areas == {"agents", "policies", "global"}
Changing == Areas \union {"agentSeed"}
ConfigOK(c) ==
  /\ DOMAIN c = DOMAIN Template /\ c.type \in DOMAIN Template.agents
  /\ DOMAIN c.agents = DOMAIN Template.agents /\ DOMAIN c.policies = DOMAIN Template.policies
CanSet(c, e) ==
  /\ e.kind \in Kinds /\ e.name # ""
  /\ e.kind \in {"policy", "policy_param"} => c.policy \in DOMAIN Template.policies

(* What is put at a place, by the slot. *)
PutAt(params, slot, v) == IF slot[3] = "" THEN Put(params, slot[2], Plain(v))
                          ELSE PutIn(params, slot[2], slot[3], v)
IsLoad(slot) == slot[1] = "global" /\ slot[2] = "load_model_config" /\ slot[3] # ""
Loaded(params, slot) == IF IsLoad(slot) THEN PutIn(params, slot[2], "load", TRUE) ELSE params

LEMMA SetParameterSets ==
  ASSUME NEW c, ConfigOK(c), NEW e, CanSet(c, e)
  PROVE  LET d == SetParameter(c, e)
             slot == Slot(e)
         IN /\ ConfigOK(d) /\ slot[1] \in Areas
            /\ \A x \in DOMAIN Template : x \notin Changing => d[x] = c[x]
            /\ \A t \in DOMAIN Template.agents : t # c.type => d.agents[t] = c.agents[t]
            /\ \A area \in Areas : area # slot[1] => Part(d, area) = Part(c, area)
            /\ Part(d, slot[1]) = Loaded(PutAt(Part(c, slot[1]), slot, e.value), slot)
<1> DEFINE d == SetParameter(c, e)
           slot == Slot(e)
<1>1. /\ {"type", "policy", "agentSeed", "global", "policies", "agents"} \subseteq DOMAIN c
      /\ c.type \in DOMAIN c.agents
  BY SearchAssumption DEF ConfigOK
<1>2. CASE e.kind = "agent"
  <2>1. d = [c EXCEPT !.agents[c.type] = Put(c.agents[c.type], e.name, Plain(e.value))]
    BY <1>2 DEF SetParameter
  <2>2. slot = <<"agents", e.name, "">>
    BY <1>2 DEF Slot
  <2> HIDE DEF d, slot
  <2>3. /\ DOMAIN d = DOMAIN c /\ DOMAIN d.agents = DOMAIN c.agents
        /\ \A x \in DOMAIN c : x # "agents" => d[x] = c[x]
        /\ \A t \in DOMAIN c.agents : t # c.type => d.agents[t] = c.agents[t]
        /\ d.agents[c.type] = Put(c.agents[c.type], e.name, Plain(e.value))
    BY <2>1, <1>1
  <2>4. d.type = c.type /\ d.policy = c.policy /\ d.policies = c.policies /\ d.global = c.global
    BY <2>3, <1>1
  <2>5. ConfigOK(d) /\ \A x \in DOMAIN Template : x \notin Changing => d[x] = c[x]
    BY <2>3, <2>4, <1>1 DEF ConfigOK, Areas, Changing
  <2>6. \A t \in DOMAIN Template.agents : t # c.type => d.agents[t] = c.agents[t]
    BY <2>3, <2>4 DEF ConfigOK
  <2>7. slot[1] = "agents" /\ Part(d, "global") = Part(c, "global") /\ Part(d, "policies") = Part(c, "policies")
    BY <2>2, <2>4 DEF Part
  <2>8. \A area \in Areas : area # slot[1] => Part(d, area) = Part(c, area)
    BY <2>7 DEF Areas
  <2>9. Part(d, "agents") = PutAt(Part(c, "agents"), slot, e.value) /\ ~IsLoad(slot)
    BY <2>2, <2>3, <2>4 DEF Part, PutAt, IsLoad
  <2> QED BY <2>5, <2>6, <2>7, <2>8, <2>9 DEF Loaded, Areas, d, slot
<1>3. CASE e.kind = "agent_parameter_param"
  <2>1. d = [c EXCEPT !.agents[c.type] = PutIn(c.agents[c.type], e.param, e.name, e.value)]
    BY <1>3 DEF SetParameter
  <2>2. slot = <<"agents", e.param, e.name>> /\ e.name # ""
    BY <1>3 DEF Slot, CanSet
  <2> HIDE DEF d, slot
  <2>3. /\ DOMAIN d = DOMAIN c /\ DOMAIN d.agents = DOMAIN c.agents
        /\ \A x \in DOMAIN c : x # "agents" => d[x] = c[x]
        /\ \A t \in DOMAIN c.agents : t # c.type => d.agents[t] = c.agents[t]
        /\ d.agents[c.type] = PutIn(c.agents[c.type], e.param, e.name, e.value)
    BY <2>1, <1>1
  <2>4. d.type = c.type /\ d.policy = c.policy /\ d.policies = c.policies /\ d.global = c.global
    BY <2>3, <1>1
  <2>5. ConfigOK(d) /\ \A x \in DOMAIN Template : x \notin Changing => d[x] = c[x]
    BY <2>3, <2>4, <1>1 DEF ConfigOK, Areas, Changing
  <2>6. \A t \in DOMAIN Template.agents : t # c.type => d.agents[t] = c.agents[t]
    BY <2>3, <2>4 DEF ConfigOK
  <2>7. slot[1] = "agents" /\ Part(d, "global") = Part(c, "global") /\ Part(d, "policies") = Part(c, "policies")
    BY <2>2, <2>4 DEF Part
  <2>8. \A area \in Areas : area # slot[1] => Part(d, area) = Part(c, area)
    BY <2>7 DEF Areas
  <2>9. Part(d, "agents") = PutAt(Part(c, "agents"), slot, e.value) /\ ~IsLoad(slot)
    BY <2>2, <2>3, <2>4 DEF Part, PutAt, IsLoad
  <2> QED BY <2>5, <2>6, <2>7, <2>8, <2>9 DEF Loaded, Areas, d, slot
<1>4. CASE e.kind = "policy"
  <2>1. d = [c EXCEPT !.policies[c.policy] = Put(c.policies[c.policy], e.name, Plain(e.value))]
    BY <1>4 DEF SetParameter
  <2>2. slot = <<"policies", e.name, "">>
    BY <1>4 DEF Slot
  <2>a. c.policy \in DOMAIN c.policies
    BY <1>4 DEF CanSet, ConfigOK
  <2> HIDE DEF d, slot
  <2>3. /\ DOMAIN d = DOMAIN c /\ DOMAIN d.policies = DOMAIN c.policies
        /\ \A x \in DOMAIN c : x # "policies" => d[x] = c[x]
        /\ d.policies[c.policy] = Put(c.policies[c.policy], e.name, Plain(e.value))
    BY <2>1, <2>a, <1>1
  <2>4. d.type = c.type /\ d.policy = c.policy /\ d.agents = c.agents /\ d.global = c.global
    BY <2>3, <1>1
  <2>5. ConfigOK(d) /\ \A x \in DOMAIN Template : x \notin Changing => d[x] = c[x]
    BY <2>3, <2>4, <1>1 DEF ConfigOK, Areas, Changing
  <2>6. \A t \in DOMAIN Template.agents : t # c.type => d.agents[t] = c.agents[t]
    BY <2>3, <2>4 DEF ConfigOK
  <2>7. slot[1] = "policies" /\ Part(d, "global") = Part(c, "global") /\ Part(d, "agents") = Part(c, "agents")
    BY <2>2, <2>4 DEF Part
  <2>8. \A area \in Areas : area # slot[1] => Part(d, area) = Part(c, area)
    BY <2>7 DEF Areas
  <2>9. Part(d, "policies") = PutAt(Part(c, "policies"), slot, e.value) /\ ~IsLoad(slot)
    BY <2>2, <2>3, <2>4 DEF Part, PutAt, IsLoad
  <2> QED BY <2>5, <2>6, <2>7, <2>8, <2>9 DEF Loaded, Areas, d, slot
<1>5. CASE e.kind = "policy_param"
  <2>1. d = [c EXCEPT !.policies[c.policy] = PutIn(c.policies[c.policy], e.param, e.name, e.value)]
    BY <1>5 DEF SetParameter
  <2>2. slot = <<"policies", e.param, e.name>> /\ e.name # ""
    BY <1>5 DEF Slot, CanSet
  <2>a. c.policy \in DOMAIN c.policies
    BY <1>5 DEF CanSet, ConfigOK
  <2> HIDE DEF d, slot
  <2>3. /\ DOMAIN d = DOMAIN c /\ DOMAIN d.policies = DOMAIN c.policies
        /\ \A x \in DOMAIN c : x # "policies" => d[x] = c[x]
        /\ d.policies[c.policy] = PutIn(c.policies[c.policy], e.param, e.name, e.value)
    BY <2>1, <2>a, <1>1
  <2>4. d.type = c.type /\ d.policy = c.policy /\ d.agents = c.agents /\ d.global = c.global
    BY <2>3, <1>1
  <2>5. ConfigOK(d) /\ \A x \in DOMAIN Template : x \notin Changing => d[x] = c[x]
    BY <2>3, <2>4, <1>1 DEF ConfigOK, Areas, Changing
  <2>6. \A t \in DOMAIN Template.agents : t # c.type => d.agents[t] = c.agents[t]
    BY <2>3, <2>4 DEF ConfigOK
  <2>7. slot[1] = "policies" /\ Part(d, "global") = Part(c, "global") /\ Part(d, "agents") = Part(c, "agents")
    BY <2>2, <2>4 DEF Part
  <2>8. \A area \in Areas : area # slot[1] => Part(d, area) = Part(c, area)
    BY <2>7 DEF Areas
  <2>9. Part(d, "policies") = PutAt(Part(c, "policies"), slot, e.value) /\ ~IsLoad(slot)
    BY <2>2, <2>3, <2>4 DEF Part, PutAt, IsLoad
  <2> QED BY <2>5, <2>6, <2>7, <2>8, <2>9 DEF Loaded, Areas, d, slot
<1>6. CASE e.kind \in {"agent_global", "agent_global_param"}
  <2> DEFINE set == IF e.param # "" THEN PutIn(c.global, e.param, e.name, e.value)
                    ELSE Put(c.global, e.name, Plain(e.value))
             global == IF e.param = "load_model_config" THEN PutIn(set, e.param, "load", TRUE) ELSE set
             seed == IF e.seed # {} THEN CHOOSE s \in e.seed : TRUE
                     ELSE IF Slot(e)[2] = "random_seed" THEN e.value ELSE c.agentSeed
  <2>1. d = [c EXCEPT !.global = global, !.agentSeed = seed]
    BY <1>6 DEF SetParameter
  <2>2. /\ slot = IF e.param = "" THEN <<"global", e.name, "">> ELSE <<"global", e.param, e.name>>
        /\ e.name # ""
    BY <1>6 DEF Slot, CanSet
  <2> HIDE DEF d, slot, seed
  <2>5. global = Loaded(PutAt(c.global, slot, e.value), slot)
    <3>1. CASE e.param = ""
      BY <3>1, <2>2 DEF Loaded, PutAt, IsLoad
    <3>2. CASE e.param # ""
      BY <3>2, <2>2 DEF Loaded, PutAt, IsLoad
    <3> QED BY <3>1, <3>2
  <2> HIDE DEF global
  <2>3. /\ DOMAIN d = DOMAIN c /\ d.global = global
        /\ \A x \in DOMAIN c : x \notin {"global", "agentSeed"} => d[x] = c[x]
    BY <2>1, <1>1
  <2>4. d.type = c.type /\ d.policy = c.policy /\ d.agents = c.agents /\ d.policies = c.policies
    BY <2>3, <1>1
  <2>6. slot[1] = "global"
    BY <2>2
  <2> QED BY <2>3, <2>4, <2>5, <2>6, <1>1 DEF ConfigOK, Part, Areas, Changing, d, slot
<1> QED BY <1>2, <1>3, <1>4, <1>5, <1>6 DEF CanSet, Kinds

LoadSlot == <<"global", "load_model_config", "load">>

(* B is A with v at the name n and the key k of an area. *)
HasPut(A, area, n, k, v, B) ==
  /\ DOMAIN B = DOMAIN A \union {n} /\ \A m \in DOMAIN A : m # n => B[m] = A[m]
  /\ k \in DOMAIN B[n] /\ B[n][k] = v
  /\ k # "" => \A j \in DOMAIN A[n] :
       j # k /\ <<area, n, j>> # LoadSlot => j \in DOMAIN B[n] /\ B[n][j] = A[n][j]

LEMMA PutAtPuts ==
  ASSUME NEW A, NEW area, NEW n, NEW k, NEW v, <<area, n, k>> # LoadSlot
  PROVE  HasPut(A, area, n, k, v, Loaded(PutAt(A, <<area, n, k>>, v), <<area, n, k>>))
<1> DEFINE slot == <<area, n, k>>
           C == PutAt(A, slot, v)
           B == Loaded(C, slot)
<1>1. /\ DOMAIN C = DOMAIN A \union {n} /\ \A m \in DOMAIN A : m # n => C[m] = A[m]
      /\ k \in DOMAIN C[n] /\ C[n][k] = v
      /\ k # "" => \A j \in DOMAIN A[n] : j # k => j \in DOMAIN C[n] /\ C[n][j] = A[n][j]
  <2>1. CASE k = ""
    <3>1. C = Put(A, n, Plain(v))
      BY <2>1 DEF PutAt
    <3> QED BY <3>1, <2>1 DEF Put, Plain
  <2>2. CASE k # ""
    <3>1. C = Put(A, n, Put(A[n], k, v))
      BY <2>2 DEF PutAt, PutIn
    <3> QED BY <3>1 DEF Put
  <2> QED BY <2>1, <2>2
<1>2. CASE ~IsLoad(slot)
  <2>1. B = C
    BY <1>2 DEF Loaded
  <2> QED BY <2>1, <1>1 DEF HasPut
<1>3. CASE IsLoad(slot)
  <2>1. B = Put(C, n, Put(C[n], "load", TRUE)) /\ k # "load" /\ area = "global" /\ n = "load_model_config"
    BY <1>3 DEF Loaded, PutIn, IsLoad, LoadSlot
  <2> HIDE DEF B, C, slot
  <2>2. /\ DOMAIN B = DOMAIN C \union {n} /\ B[n] = Put(C[n], "load", TRUE)
        /\ \A m \in DOMAIN C : m # n => B[m] = C[m]
    BY <2>1 DEF Put
  <2>3. /\ DOMAIN B[n] = DOMAIN C[n] \union {"load"}
        /\ \A j \in DOMAIN C[n] : j # "load" => B[n][j] = C[n][j]
    BY <2>2 DEF Put
  <2>4. \A j : <<area, n, j>> # LoadSlot => j # "load"
    BY <2>1 DEF LoadSlot
  <2>5. DOMAIN B = DOMAIN A \union {n} /\ \A m \in DOMAIN A : m # n => B[m] = A[m]
    BY <2>2, <1>1
  <2>6. k \in DOMAIN B[n] /\ B[n][k] = v
    BY <2>1, <2>3, <1>1
  <2>7. k # "" => \A j \in DOMAIN A[n] :
                    j # k /\ <<area, n, j>> # LoadSlot => j \in DOMAIN B[n] /\ B[n][j] = A[n][j]
    BY <2>3, <2>4, <1>1
  <2> QED BY <2>5, <2>6, <2>7 DEF HasPut, B, C, slot
<1> QED BY <1>2, <1>3

(* What a configuration has for a parameter, it keeps while others are set. *)
Has(c, q) == /\ Slot(q)[2] \in DOMAIN Part(c, Slot(q)[1])
             /\ Slot(q)[3] \in DOMAIN Part(c, Slot(q)[1])[Slot(q)[2]]

(* What a parameter is put at in an area. *)
NameIn(e, area) == IF Slot(e)[1] = area THEN {Slot(e)[2]} ELSE {}

LEMMA SlotIsTriple ==
  ASSUME NEW e, e.kind \in Kinds
  PROVE  Slot(e) = <<Slot(e)[1], Slot(e)[2], Slot(e)[3]>>
BY DEF Slot, Kinds

LEMMA SetParameterKeeps ==
  ASSUME NEW c, ConfigOK(c), NEW e, CanSet(c, e), Slot(e) # LoadSlot
  PROVE  LET d == SetParameter(c, e)
         IN /\ Has(d, e) /\ Held(d, e) = e.value
            /\ \A q : /\ q.kind \in Kinds /\ Slot(q)[1] \in Areas /\ Slot(q) # LoadSlot
                      /\ ~Clash(e, q) /\ Has(c, q)
                      => Has(d, q) /\ Held(d, q) = Held(c, q)
            /\ \A area \in Areas :
                 /\ DOMAIN Part(c, area) \subseteq DOMAIN Part(d, area)
                 /\ DOMAIN Part(d, area) \subseteq DOMAIN Part(c, area) \union NameIn(e, area)
                 /\ \A name \in DOMAIN Part(c, area) \ NameIn(e, area) :
                      Part(d, area)[name] = Part(c, area)[name]
<1> DEFINE d == SetParameter(c, e)  area == Slot(e)[1]  n == Slot(e)[2]  k == Slot(e)[3]
           A == Part(c, area)  B == Part(d, area)
<1>1. Slot(e) = <<area, n, k>>
  BY SlotIsTriple DEF CanSet
<1>2. /\ area \in Areas /\ \A other \in Areas : other # area => Part(d, other) = Part(c, other)
      /\ B = Loaded(PutAt(A, Slot(e), e.value), Slot(e))
  BY SetParameterSets
<1> HIDE DEF area, n, k, d
<1>3. /\ DOMAIN B = DOMAIN A \union {n} /\ \A m \in DOMAIN A : m # n => B[m] = A[m]
      /\ k \in DOMAIN B[n] /\ B[n][k] = e.value
      /\ k # "" => \A j \in DOMAIN A[n] :
           j # k /\ <<area, n, j>> # LoadSlot => j \in DOMAIN B[n] /\ B[n][j] = A[n][j]
  <2>1. B = Loaded(PutAt(A, <<area, n, k>>, e.value), <<area, n, k>>)
    BY <1>1, <1>2
  <2>2. <<area, n, k>> # LoadSlot
    BY <1>1
  <2> HIDE DEF A, B
  <2>3. HasPut(A, area, n, k, e.value, B)
    BY <2>1, <2>2, PutAtPuts
  <2> QED BY <2>3 DEF HasPut
<1>4. Has(d, e) /\ Held(d, e) = e.value
  BY <1>3 DEF Has, Held, area, n, k
<1>5. ASSUME NEW q, q.kind \in Kinds, Slot(q)[1] \in Areas, Slot(q) # LoadSlot, ~Clash(e, q), Has(c, q)
      PROVE  Has(d, q) /\ Held(d, q) = Held(c, q)
  <2> DEFINE a == Slot(q)[1]  m == Slot(q)[2]  j == Slot(q)[3]
  <2>1. Slot(q) = <<a, m, j>>
    BY <1>5, SlotIsTriple
  <2>2. m \in DOMAIN Part(c, a) /\ j \in DOMAIN Part(c, a)[m]
    BY <1>5 DEF Has
  <2>3. ~(a = area /\ m = n /\ (j = k \/ j = "" \/ k = ""))
    BY <1>5, <1>1 DEF Clash, area, n, k
  <2>4. a \in Areas /\ <<a, m, j>> # LoadSlot
    BY <1>5, <2>1
  <2> HIDE DEF a, m, j
  <2>5. m \in DOMAIN Part(d, a) /\ j \in DOMAIN Part(d, a)[m] /\ Part(d, a)[m][j] = Part(c, a)[m][j]
    <3>1. CASE a # area
      BY <3>1, <1>2, <2>2, <2>4
    <3>2. CASE a = area /\ m # n
      BY <3>2, <1>3, <2>2
    <3>3. CASE a = area /\ m = n
      BY <3>3, <1>3, <2>2, <2>3, <2>4
    <3> QED BY <3>1, <3>2, <3>3
  <2> QED BY <2>5 DEF Has, Held, a, m, j
<1>6. ASSUME NEW other \in Areas
      PROVE  /\ DOMAIN Part(c, other) \subseteq DOMAIN Part(d, other)
             /\ DOMAIN Part(d, other) \subseteq DOMAIN Part(c, other) \union NameIn(e, other)
             /\ \A name \in DOMAIN Part(c, other) \ NameIn(e, other) :
                  Part(d, other)[name] = Part(c, other)[name]
  <2>1. CASE other = area
    <3>1. NameIn(e, other) = {n}
      BY <2>1 DEF NameIn, area, n
    <3> QED BY <2>1, <3>1, <1>3
  <2>2. CASE other # area
    BY <2>2, <1>2
  <2> QED BY <2>1, <2>2
<1> QED BY <1>4, <1>5, <1>6 DEF d

(* What the parameters of an agent change: nothing but what they are put at. *)
Names(agent) == [area \in Areas |-> NamesIn(agent, area)]
KeepsOthers(c, d, names) ==
  /\ ConfigOK(d) /\ \A x \in DOMAIN Template : x \notin Changing => d[x] = c[x]
  /\ \A t \in DOMAIN Template.agents : t # c.type => d.agents[t] = c.agents[t]
  /\ \A area \in Areas :
       /\ DOMAIN Part(c, area) \subseteq DOMAIN Part(d, area)
       /\ DOMAIN Part(d, area) \subseteq DOMAIN Part(c, area) \union names[area]
       /\ \A name \in DOMAIN Part(c, area) \ names[area] : Part(d, area)[name] = Part(c, area)[name]

LEMMA KeepsNothing == ASSUME NEW c, ConfigOK(c), NEW names PROVE KeepsOthers(c, c, names)
BY DEF KeepsOthers

LEMMA KeepsFields ==
  ASSUME NEW c, NEW d, NEW names, KeepsOthers(c, d, names)
  PROVE  d.type = c.type /\ d.policy = c.policy /\ d.state = c.state /\ d.features = c.features
<1>1. {"type", "policy", "state", "features"} \subseteq DOMAIN Template
  BY SearchAssumption
<1> QED BY <1>1 DEF KeepsOthers, Changing, Areas

LEMMA KeepsOnwards ==
  ASSUME NEW c, NEW d, NEW e, NEW names, KeepsOthers(c, d, names), KeepsOthers(d, e, names)
  PROVE  KeepsOthers(c, e, names)
<1>1. d.type = c.type
  BY KeepsFields
<1>2. ConfigOK(e) /\ \A x \in DOMAIN Template : x \notin Changing => e[x] = c[x]
  BY DEF KeepsOthers
<1>3. \A t \in DOMAIN Template.agents : t # c.type => e.agents[t] = c.agents[t]
  BY <1>1 DEF KeepsOthers
<1>4. ASSUME NEW area \in Areas
      PROVE  /\ DOMAIN Part(c, area) \subseteq DOMAIN Part(e, area)
             /\ DOMAIN Part(e, area) \subseteq DOMAIN Part(c, area) \union names[area]
             /\ \A name \in DOMAIN Part(c, area) \ names[area] : Part(e, area)[name] = Part(c, area)[name]
  BY DEF KeepsOthers
<1> QED BY <1>2, <1>3, <1>4 DEF KeepsOthers

LEMMA SameSlot ==
  ASSUME NEW e, NEW p, IsOf(e, p)
  PROVE  /\ Slot(e) = Slot(p) /\ \A q : Clash(e, q) = Clash(p, q)
         /\ \A c : Has(c, e) = Has(c, p) /\ Held(c, e) = Held(c, p)
         /\ \A area : NameIn(e, area) = NameIn(p, area)
<1>1. Slot(e) = Slot(p)
  BY DEF IsOf, Slot
<1> QED BY <1>1 DEF Clash, Has, Held, NameIn

LEMMA ParametersAreValid ==
  ASSUME NEW agent, ValidAgent(agent)
  PROVE  LET ps == agent.parameters
         IN /\ Len(ps) \in Nat /\ DOMAIN ps = 1..Len(ps)
            /\ \A i \in 1..Len(ps) :
                 /\ ps[i] \in Range(ps) /\ ValidParameter(ps[i])
                 /\ ps[i].kind \in Kinds /\ ps[i].name # "" /\ Slot(ps[i]) # LoadSlot
                 /\ Slot(ps[i])[1] \in Areas /\ \A area \in Areas : NameIn(ps[i], area) \subseteq Names(agent)[area]
                 /\ ps[i].kind \in {"policy", "policy_param"} => agent.policy \in DOMAIN Template.policies
            /\ \A i, j \in 1..Len(ps) : i # j => ~Clash(ps[i], ps[j])
<1> DEFINE ps == agent.parameters
<1>1. ps \in Seq(Range(ps)) /\ \A i, j \in DOMAIN ps : i # j => ~Clash(ps[i], ps[j])
  BY DEF ValidAgent
<1>2. Len(ps) \in Nat /\ DOMAIN ps = 1..Len(ps)
  BY <1>1, LenProperties
<1>3. ASSUME NEW i \in 1..Len(ps)
      PROVE  /\ ps[i] \in Range(ps) /\ ValidParameter(ps[i])
             /\ ps[i].kind \in {"policy", "policy_param"} => agent.policy \in DOMAIN Template.policies
  <2>1. ps[i] \in Range(ps)
    BY <1>2 DEF Range
  <2> QED BY <2>1 DEF ValidAgent
<1>4. ASSUME NEW p, ValidParameter(p)
      PROVE  p.kind \in Kinds /\ p.name # "" /\ Slot(p) # LoadSlot /\ Slot(p)[1] \in Areas
  <2>1. p.kind \in Kinds /\ p.name # "" /\ Slot(p) # LoadSlot
    BY <1>4, Zenon DEF ValidParameter, Kinds, LoadSlot
  <2>2. Slot(p)[1] \in Areas
    BY <2>1 DEF Slot, Kinds, Areas
  <2> QED BY <2>1, <2>2
<1>5. \A p \in Range(ps) : \A area \in Areas : NameIn(p, area) \subseteq Names(agent)[area]
  BY DEF Names, NamesIn, NameIn
<1> QED BY <1>1, <1>2, <1>3, <1>4, <1>5

(* A combination of an agent: an element for each of its parameters. *)
IsCombination(agent, t) ==
  Len(t) = Len(agent.parameters) /\ \A i \in 1..Len(t) : IsOf(t[i], agent.parameters[i])

LEMMA SetParametersSets ==
  ASSUME NEW agent, ValidAgent(agent), NEW c, ConfigOK(c), c.policy = agent.policy,
         NEW t, IsCombination(agent, t)
  PROVE  LET d == SetParameters(c, t)
         IN /\ KeepsOthers(c, d, Names(agent))
            /\ \A i \in 1..Len(t) : Held(d, agent.parameters[i]) = t[i].value
<1> DEFINE ps == agent.parameters
           names == Names(agent)
           N == Len(t)
<1>1. N = Len(ps) /\ N \in Nat /\ N \in 0..N
  <2>1. Len(ps) \in Nat
    BY ParametersAreValid
  <2>2. N = Len(ps)
    BY DEF IsCombination
  <2> HIDE DEF N, ps
  <2> QED BY <2>1, <2>2
<1>2. PICK f : /\ f[0] = c /\ f[N] = SetParameters(c, t)
               /\ \A n \in 0..N : n # N => f[n + 1] = SetParameter(f[n], t[n + 1])
  BY <1>1, SetOneByOne
<1> DEFINE P == {n \in 0..N : /\ KeepsOthers(c, f[n], names)
                              /\ \A i \in 1..n : Has(f[n], ps[i]) /\ Held(f[n], ps[i]) = t[i].value}
<1>3. 0 \in P
  <2>1. 0 \in 0..N
    BY <1>1
  <2>2. KeepsOthers(c, f[0], names)
    BY <1>2, KeepsNothing
  <2> QED BY <2>1, <2>2
<1>4. \A n \in 0..N : n # N /\ n \in P => n + 1 \in P
  <2> TAKE n \in 0..N
  <2> HAVE n # N /\ n \in P
  <2> DEFINE b == f[n]  d == f[n + 1]  e == t[n + 1]  p == ps[n + 1]
  <2>1. KeepsOthers(c, b, names) /\ \A i \in 1..n : Has(b, ps[i]) /\ Held(b, ps[i]) = t[i].value
    OBVIOUS
  <2>2. n \in Nat /\ n + 1 \in 1..N /\ n + 1 \in 0..N /\ \A i \in 1..(n + 1) : i # n + 1 => i \in 1..n
    BY <1>1
  <2>3. d = SetParameter(b, e)
    BY <1>2
  <2> HIDE DEF P
  <2>4. IsOf(e, p)
    BY <2>2, <1>1 DEF IsCombination
  <2>5. p.kind \in Kinds /\ p.name # "" /\ Slot(p) # LoadSlot
        /\ \A area \in Areas : NameIn(p, area) \subseteq names[area]
    BY <2>2, <1>1, ParametersAreValid
  <2>6. p.kind \in {"policy", "policy_param"} => agent.policy \in DOMAIN Template.policies
    BY <2>2, <1>1, ParametersAreValid
  <2>7. /\ Slot(e) = Slot(p) /\ e.kind = p.kind /\ e.name = p.name /\ e.param = p.param
        /\ \A area : NameIn(e, area) = NameIn(p, area)
    BY <2>4, SameSlot DEF IsOf
  <2>8. ConfigOK(b) /\ b.policy = agent.policy
    BY <2>1, KeepsFields DEF KeepsOthers
  <2> HIDE DEF b, d, e, p
  <2>9. CanSet(b, e) /\ Slot(e) # LoadSlot
    BY <2>5, <2>6, <2>7, <2>8 DEF CanSet
  <2>10. /\ Has(d, e) /\ Held(d, e) = e.value
         /\ \A q : /\ q.kind \in Kinds /\ Slot(q)[1] \in Areas /\ Slot(q) # LoadSlot
                   /\ ~Clash(e, q) /\ Has(b, q)
                   => Has(d, q) /\ Held(d, q) = Held(b, q)
         /\ \A area \in Areas :
              /\ DOMAIN Part(b, area) \subseteq DOMAIN Part(d, area)
              /\ DOMAIN Part(d, area) \subseteq DOMAIN Part(b, area) \union NameIn(e, area)
              /\ \A name \in DOMAIN Part(b, area) \ NameIn(e, area) :
                   Part(d, area)[name] = Part(b, area)[name]
    BY <2>3, <2>8, <2>9, SetParameterKeeps
  <2>11. KeepsOthers(b, d, names)
    <3>1. /\ ConfigOK(d) /\ \A x \in DOMAIN Template : x \notin Changing => d[x] = b[x]
          /\ \A s \in DOMAIN Template.agents : s # b.type => d.agents[s] = b.agents[s]
      BY <2>3, <2>8, <2>9, SetParameterSets
    <3>2. \A area \in Areas : NameIn(e, area) \subseteq names[area]
      BY <2>5, <2>7
    <3> QED BY <3>1, <3>2, <2>10 DEF KeepsOthers
  <2>12. KeepsOthers(c, d, names)
    BY <2>1, <2>11, KeepsOnwards
  <2>13. Has(d, p) /\ Held(d, p) = e.value
    BY <2>10, <2>4, SameSlot
  <2>14. ASSUME NEW i \in 1..n PROVE Has(d, ps[i]) /\ Held(d, ps[i]) = t[i].value
    <3>1. i \in 1..N /\ i # n + 1
      BY <2>2
    <3>2. ps[i].kind \in Kinds /\ Slot(ps[i])[1] \in Areas /\ Slot(ps[i]) # LoadSlot
      BY <3>1, <1>1, ParametersAreValid
    <3>3. ~Clash(p, ps[i])
      BY <3>1, <2>2, <1>1, ParametersAreValid DEF p
    <3>4. ~Clash(e, ps[i])
      BY <3>3, <2>4, SameSlot
    <3> QED BY <3>2, <3>4, <2>1, <2>10
  <2>15. \A i \in 1..(n + 1) : Has(d, ps[i]) /\ Held(d, ps[i]) = t[i].value
    BY <2>2, <2>13, <2>14 DEF e, p
  <2> QED BY <2>2, <2>12, <2>15 DEF P, d
<1>5. N \in P
  <2> HIDE DEF P, N
  <2> QED BY <1>1, <1>3, <1>4, CountUp
<1> QED BY <1>1, <1>2, <1>5

LEMMA ConfiguredSets ==
  ASSUME NEW agent, ValidAgent(agent), NEW c, ConfigOK(c), c.policy = agent.policy
  PROVE  LET G == Combinations(agent)
             w == Configured(c, G)
         IN /\ \A k \in 0..Len(G) : KeepsOthers(c, w[k], Names(agent))
            /\ \A k \in 1..Len(G) : \A i \in 1..Len(agent.parameters) :
                 Held(w[k], agent.parameters[i]) = Valued(agent, G[k])[i]
<1> DEFINE G == Combinations(agent)
           w == Configured(c, G)
           names == Names(agent)
           ps == agent.parameters
           N == Len(G)
           P == {k \in 0..N : KeepsOthers(c, w[k], names)}
<1>1. /\ N \in Nat /\ DOMAIN ps = 1..Len(ps)
      /\ \A k \in 1..N : Len(G[k]) = Len(ps) /\ \A i \in 1..Len(ps) : IsOf(G[k][i], ps[i])
  BY CombinationsArePicks
<1> HIDE DEF G
<1>2. w[0] = c /\ \A n \in 0..N : n # N => w[n + 1] = SetParameters(w[n], G[n + 1])
  BY <1>1, ConfiguredOneByOne
<1> HIDE DEF w
<1>3. ASSUME NEW n \in 0..N, n # N, n \in P
      PROVE  /\ n + 1 \in P
             /\ \A i \in 1..Len(ps) : Held(w[n + 1], ps[i]) = G[n + 1][i].value
  <2>1. n + 1 \in 1..N /\ n + 1 \in 0..N
    BY <1>1, <1>3
  <2>2. IsCombination(agent, G[n + 1])
    BY <1>1, <2>1 DEF IsCombination
  <2>3. KeepsOthers(c, w[n], names)
    BY <1>3
  <2>4. ConfigOK(w[n]) /\ w[n].policy = agent.policy
    BY <2>3, KeepsFields DEF KeepsOthers
  <2>5. w[n + 1] = SetParameters(w[n], G[n + 1])
    BY <1>2, <1>3
  <2>6. /\ KeepsOthers(w[n], w[n + 1], names)
        /\ \A i \in 1..Len(G[n + 1]) : Held(w[n + 1], agent.parameters[i]) = G[n + 1][i].value
    BY <2>2, <2>4, <2>5, SetParametersSets
  <2>7. KeepsOthers(c, w[n + 1], names)
    BY <2>3, <2>6, KeepsOnwards
  <2>8. Len(G[n + 1]) = Len(ps)
    BY <1>1, <2>1
  <2> QED BY <2>1, <2>6, <2>7, <2>8
<1>4. 0 \in P
  <2>1. 0 \in 0..N
    BY <1>1
  <2>2. KeepsOthers(c, w[0], names)
    BY <1>2, KeepsNothing
  <2> QED BY <2>1, <2>2
<1>5. 0..N \subseteq P
  <2>1. \A n \in 0..N : n # N /\ n \in P => n + 1 \in P
    BY <1>3
  <2> HIDE DEF P, N
  <2> QED BY <1>1, <1>4, <2>1, CountUp
<1>6. ASSUME NEW k \in 1..N, NEW i \in 1..Len(ps) PROVE Held(w[k], ps[i]) = Valued(agent, G[k])[i]
  <2>1. k - 1 \in 0..N /\ k - 1 # N /\ (k - 1) + 1 = k
    BY <1>1
  <2>2. k - 1 \in P
    BY <2>1, <1>5
  <2>3. \A j \in 1..Len(ps) : Held(w[(k - 1) + 1], ps[j]) = G[(k - 1) + 1][j].value
    <3> DEFINE n == k - 1
    <3>1. n \in 0..N /\ n # N /\ n \in P
      BY <2>1, <2>2
    <3> HIDE DEF n, P
    <3>2. \A j \in 1..Len(ps) : Held(w[n + 1], ps[j]) = G[n + 1][j].value
      BY <3>1, <1>3
    <3> QED BY <3>2 DEF n
  <2>4. Held(w[k], ps[i]) = G[k][i].value
    BY <2>1, <2>3
  <2>5. Valued(agent, G[k])[i] = G[k][i].value
    BY <1>1 DEF Valued
  <2> QED BY <2>4, <2>5
<1> QED BY <1>5, <1>6 DEF G, w

-----------------------------------------------------------------------------
(* Configurations that differ in nothing but the seed stay so. *)
Alike(c, d) ==
  /\ DOMAIN c = DOMAIN Template /\ DOMAIN d = DOMAIN Template
  /\ \A x \in DOMAIN Template : x # "agentSeed" => c[x] = d[x]

LEMMA AlikeFields ==
  ASSUME NEW c, NEW d, Alike(c, d)
  PROVE  /\ c.type = d.type /\ c.policy = d.policy /\ c.agents = d.agents /\ c.policies = d.policies
         /\ c.global = d.global /\ c.features = d.features
BY SearchAssumption DEF Alike

LEMMA SetParameterAlike ==
  ASSUME NEW c, NEW d, Alike(c, d), NEW p
  PROVE  Alike(SetParameter(c, p), SetParameter(d, p))
<1>1. /\ c.type = d.type /\ c.policy = d.policy /\ c.agents = d.agents /\ c.policies = d.policies
      /\ c.global = d.global
  BY AlikeFields
<1>2. /\ DOMAIN c = DOMAIN Template /\ DOMAIN d = DOMAIN Template
      /\ \A x \in DOMAIN Template : x # "agentSeed" => c[x] = d[x]
  BY DEF Alike
<1> DEFINE s == SetParameter(c, p)  t == SetParameter(d, p)
<1>3. CASE p.kind \in {"agent", "agent_parameter_param"}
  <2>1. \E v : s = [c EXCEPT !.agents[c.type] = v] /\ t = [d EXCEPT !.agents[d.type] = v]
    BY <1>1, <1>3 DEF SetParameter
  <2>2. PICK v : s = [c EXCEPT !.agents[c.type] = v] /\ t = [d EXCEPT !.agents[d.type] = v]
    BY <2>1
  <2> HIDE DEF s, t
  <2> QED BY <1>1, <1>2, <2>2 DEF Alike, s, t
<1>4. CASE p.kind \in {"policy", "policy_param"}
  <2>1. \E v : s = [c EXCEPT !.policies[c.policy] = v] /\ t = [d EXCEPT !.policies[d.policy] = v]
    BY <1>1, <1>4 DEF SetParameter
  <2>2. PICK v : s = [c EXCEPT !.policies[c.policy] = v] /\ t = [d EXCEPT !.policies[d.policy] = v]
    BY <2>1
  <2> HIDE DEF s, t
  <2> QED BY <1>1, <1>2, <2>2 DEF Alike, s, t
<1>5. CASE p.kind \in {"agent_global", "agent_global_param"}
  <2>1. \E v, x, y : s = [c EXCEPT !.global = v, !.agentSeed = x] /\ t = [d EXCEPT !.global = v, !.agentSeed = y]
    BY <1>1, <1>5 DEF SetParameter
  <2>2. PICK v, x, y : s = [c EXCEPT !.global = v, !.agentSeed = x] /\ t = [d EXCEPT !.global = v, !.agentSeed = y]
    BY <2>1
  <2> HIDE DEF s, t
  <2> QED BY <1>1, <1>2, <2>2 DEF Alike, s, t
<1>6. CASE p.kind \notin Kinds
  <2>1. s = c /\ t = d
    BY <1>6 DEF SetParameter, Kinds
  <2> QED BY <2>1
<1> QED BY <1>3, <1>4, <1>5, <1>6 DEF Kinds

LEMMA SetParametersAlike ==
  ASSUME NEW c, NEW d, Alike(c, d), NEW t, Len(t) \in Nat
  PROVE  Alike(SetParameters(c, t), SetParameters(d, t))
<1> DEFINE N == Len(t)
<1>1. PICK f : /\ f[0] = c /\ f[N] = SetParameters(c, t)
               /\ \A n \in 0..N : n # N => f[n + 1] = SetParameter(f[n], t[n + 1])
  BY SetOneByOne
<1>2. PICK g : /\ g[0] = d /\ g[N] = SetParameters(d, t)
               /\ \A n \in 0..N : n # N => g[n + 1] = SetParameter(g[n], t[n + 1])
  BY SetOneByOne
<1> DEFINE P == {n \in 0..N : Alike(f[n], g[n])}
<1>3. 0 \in P
  BY <1>1, <1>2
<1>4. \A n \in 0..N : n # N /\ n \in P => n + 1 \in P
  <2> TAKE n \in 0..N
  <2> HAVE n # N /\ n \in P
  <2>1. Alike(f[n], g[n]) /\ n + 1 \in 0..N
    OBVIOUS
  <2>2. Alike(SetParameter(f[n], t[n + 1]), SetParameter(g[n], t[n + 1]))
    BY <2>1, SetParameterAlike
  <2> QED BY <2>1, <2>2, <1>1, <1>2
<1>5. N \in Nat /\ N \in 0..N
  OBVIOUS
<1>6. N \in P
  <2> HIDE DEF P, N
  <2> QED BY <1>3, <1>4, <1>5, CountUp
<1> QED BY <1>1, <1>2, <1>6

LEMMA ConfiguredAlike ==
  ASSUME NEW c, NEW d, Alike(c, d), NEW G, Len(G) \in Nat, \A k \in 1..Len(G) : Len(G[k]) \in Nat
  PROVE  \A k \in 0..Len(G) : Alike(Configured(c, G)[k], Configured(d, G)[k])
<1> DEFINE N == Len(G)
           f == Configured(c, G)
           g == Configured(d, G)
           P == {n \in 0..N : Alike(f[n], g[n])}
<1>1. f[0] = c /\ \A n \in 0..N : n # N => f[n + 1] = SetParameters(f[n], G[n + 1])
  BY ConfiguredOneByOne
<1>2. g[0] = d /\ \A n \in 0..N : n # N => g[n + 1] = SetParameters(g[n], G[n + 1])
  BY ConfiguredOneByOne
<1> HIDE DEF f, g
<1>3. 0 \in P
  BY <1>1, <1>2
<1>4. \A n \in 0..N : n # N /\ n \in P => n + 1 \in P
  <2> TAKE n \in 0..N
  <2> HAVE n # N /\ n \in P
  <2>1. Alike(f[n], g[n]) /\ n + 1 \in 0..N /\ n + 1 \in 1..N
    OBVIOUS
  <2>2. Alike(SetParameters(f[n], G[n + 1]), SetParameters(g[n], G[n + 1]))
    BY <2>1, SetParametersAlike
  <2> QED BY <2>1, <2>2, <1>1, <1>2
<1>5. N \in Nat
  OBVIOUS
<1>6. 0..N \subseteq P
  <2> HIDE DEF P, N
  <2> QED BY <1>3, <1>4, <1>5, CountUp
<1> QED BY <1>6 DEF f, g

-----------------------------------------------------------------------------
(* The bodies of the loops. *)

Sized(m) == Len(m.features) \in Nat /\ Len(m.states) \in Nat /\ Len(m.agents) \in Nat
Position(m, seed, f, s, a) ==
  Len(m.agents) * (Len(m.states) * (Len(m.features) * (seed - 1) + (f - 1)) + (s - 1)) + (a - 1)
BodyAt(seed, f, s, a) == [seed |-> seed, features |-> f, state |-> s, agent |-> a]

LEMMA Bodies ==
  ASSUME NEW F \in Nat, NEW S \in Nat, NEW A \in Nat, NEW K \in Nat
  PROVE  K * (F * (S * A)) = ((K * F) * S) * A /\ K * F \in Nat /\ (K * F) * S \in Nat
OBVIOUS

LEMMA BodyIsAt ==
  ASSUME NEW m, Sized(m), NEW K \in Nat, NEW n \in Nat, n < K * BodiesPerSeed(m)
  PROVE  \E seed \in 1..K, f \in 1..Len(m.features), s \in 1..Len(m.states), a \in 1..Len(m.agents) :
            Body(m, n) = BodyAt(seed, f, s, a) /\ n = Position(m, seed, f, s, a)
<1> DEFINE F == Len(m.features)  S == Len(m.states)  A == Len(m.agents)
           turn == n \div A  entry == turn \div S
           seed == (entry \div F) + 1  f == (entry % F) + 1  s == (turn % S) + 1  a == (n % A) + 1
<1>1. F \in Nat /\ S \in Nat /\ A \in Nat
  BY DEF Sized
<1>2. Body(m, n) = BodyAt(seed, f, s, a)
  BY DEF Body, BodyAt
<1>3. n < ((K * F) * S) * A /\ K * F \in Nat /\ (K * F) * S \in Nat
  <2> HIDE DEF F, S, A
  <2>1. K * (F * (S * A)) = ((K * F) * S) * A /\ K * F \in Nat /\ (K * F) * S \in Nat
    BY <1>1, Bodies
  <2>2. n < K * (F * (S * A))
    BY DEF BodiesPerSeed, F, S, A
  <2> QED BY <2>1, <2>2
<1>4. Position(m, seed, f, s, a) = A * (S * (F * (seed - 1) + (f - 1)) + (s - 1)) + (a - 1)
  BY DEF Position
<1> HIDE DEF F, S, A
<1>5. turn \in Nat /\ turn + 1 \in 1..((K * F) * S) /\ a \in 1..A /\ n = A * turn + (a - 1)
  <2> DEFINE k == n + 1  rows == (K * F) * S
  <2>1. k \in 1..(rows * A) /\ k - 1 = n
    BY <1>3, <1>1
  <2>2. rows \in Nat
    BY <1>3
  <2> HIDE DEF rows, k
  <2>3. /\ A > 0 /\ ((k - 1) \div A) + 1 \in 1..rows /\ ((k - 1) % A) + 1 \in 1..A
        /\ k = A * ((((k - 1) \div A) + 1) - 1) + (((k - 1) % A) + 1)
    BY <2>1, <2>2, <1>1, RowAndColumn
  <2>4. turn + 1 \in 1..rows /\ a \in 1..A
    BY <2>1, <2>3
  <2>5. n = A * turn + (n % A) /\ turn \in Nat
    BY <2>3, <1>1, Divided
  <2>6. a - 1 = n % A
    <3>1. n % A \in Int
      BY <2>3, <1>1, Divided
    <3> QED BY <3>1
  <2>7. turn + 1 \in 1..((K * F) * S)
    BY <2>4 DEF rows
  <2> HIDE DEF turn, a
  <2> QED BY <2>4, <2>5, <2>6, <2>7
<1> HIDE DEF turn
<1>6. entry \in Nat /\ entry + 1 \in 1..(K * F) /\ s \in 1..S /\ turn = S * entry + (s - 1)
  <2> DEFINE k == turn + 1  rows == K * F
  <2>1. k \in 1..(rows * S) /\ k - 1 = turn /\ rows \in Nat
    BY <1>3, <1>1, <1>5
  <2> HIDE DEF rows, k
  <2>3. S > 0 /\ ((k - 1) \div S) + 1 \in 1..rows /\ ((k - 1) % S) + 1 \in 1..S
    BY <2>1, <1>1, RowAndColumn
  <2>4. entry + 1 \in 1..rows /\ s \in 1..S
    BY <2>1, <2>3
  <2>5. turn = S * entry + (turn % S) /\ entry \in Nat
    BY <2>3, <1>1, <1>5, Divided
  <2>6. s - 1 = turn % S
    <3>1. turn % S \in Int
      BY <2>3, <1>1, <1>5, Divided
    <3> QED BY <3>1
  <2>7. entry + 1 \in 1..(K * F)
    BY <2>4 DEF rows
  <2> HIDE DEF entry, s
  <2> QED BY <2>4, <2>5, <2>6, <2>7
<1> HIDE DEF entry
<1>7. seed \in 1..K /\ f \in 1..F /\ entry = F * (seed - 1) + (f - 1)
  <2> DEFINE k == entry + 1
  <2>1. k \in 1..(K * F) /\ k - 1 = entry
    BY <1>1, <1>6
  <2> HIDE DEF k
  <2>3. F > 0 /\ ((k - 1) \div F) + 1 \in 1..K /\ ((k - 1) % F) + 1 \in 1..F
    BY <2>1, <1>1, RowAndColumn
  <2>4. seed \in 1..K /\ f \in 1..F
    BY <2>1, <2>3
  <2>5. entry = F * (entry \div F) + (entry % F) /\ entry \div F \in Nat
    BY <2>3, <1>1, <1>6, Divided
  <2>6. f - 1 = entry % F /\ seed - 1 = entry \div F
    <3>1. entry % F \in Int
      BY <2>3, <1>1, <1>6, Divided
    <3> QED BY <3>1, <2>5
  <2> HIDE DEF seed, f
  <2> QED BY <2>4, <2>5, <2>6
<1> HIDE DEF seed, f, s, a
<1>8. n = Position(m, seed, f, s, a)
  BY <1>4, <1>5, <1>6, <1>7
<1> QED BY <1>2, <1>5, <1>6, <1>7, <1>8 DEF F, S, A

LEMMA PositionIsBody ==
  ASSUME NEW m, Sized(m), NEW K \in Nat, NEW seed \in 1..K, NEW f \in 1..Len(m.features),
         NEW s \in 1..Len(m.states), NEW a \in 1..Len(m.agents)
  PROVE  LET n == Position(m, seed, f, s, a)
         IN n \in 0..(K * BodiesPerSeed(m) - 1) /\ Body(m, n) = BodyAt(seed, f, s, a)
<1> DEFINE F == Len(m.features)  S == Len(m.states)  A == Len(m.agents)
           entry == F * (seed - 1) + (f - 1)
           turn == S * entry + (s - 1)
           n == A * turn + (a - 1)
<1>1. F \in Nat /\ S \in Nat /\ A \in Nat
  BY DEF Sized
<1>2. n = Position(m, seed, f, s, a)
  BY DEF Position
<1>3. K * BodiesPerSeed(m) = ((K * F) * S) * A /\ K * F \in Nat /\ (K * F) * S \in Nat
  <2>2. K * BodiesPerSeed(m) = K * (F * (S * A))
    BY DEF BodiesPerSeed
  <2> HIDE DEF F, S, A
  <2> QED BY <2>2, <1>1, Bodies
<1>a. Body(m, n) = [seed |-> (((n \div A) \div S) \div F) + 1, features |-> (((n \div A) \div S) % F) + 1,
                    state |-> ((n \div A) % S) + 1, agent |-> (n % A) + 1]
  BY DEF Body
<1> HIDE DEF F, S, A
<1>b. f \in 1..F /\ s \in 1..S /\ a \in 1..A
  BY DEF F, S, A
<1>4. entry + 1 \in 1..(K * F) /\ entry \in Nat /\ entry \div F = seed - 1 /\ entry % F = f - 1
  <2> DEFINE k == F * (seed - 1) + f
  <2>1. k \in 1..(K * F) /\ ((k - 1) \div F) + 1 = seed /\ ((k - 1) % F) + 1 = f
    BY <1>1, <1>b, PlaceOfRow
  <2>2. F * (seed - 1) \in Nat
    BY <1>1
  <2>3. entry \in Nat /\ entry = k - 1 /\ k = entry + 1
    BY <2>2, <1>b, <1>1
  <2> HIDE DEF k, entry
  <2>4. (entry \div F) \in Int /\ (entry % F) \in Int
    BY <2>3, <1>1, <1>b, Divided
  <2> QED BY <2>1, <2>3, <2>4
<1> HIDE DEF entry
<1>5. turn + 1 \in 1..((K * F) * S) /\ turn \in Nat /\ turn \div S = entry /\ turn % S = s - 1
  <2> DEFINE row == entry + 1  k == S * (row - 1) + s  rows == K * F
  <2>0. rows \in Nat /\ row \in 1..rows /\ row - 1 = entry
    BY <1>3, <1>4
  <2> HIDE DEF rows, row
  <2>1. k \in 1..(rows * S) /\ ((k - 1) \div S) + 1 = row /\ ((k - 1) % S) + 1 = s
    BY <2>0, <1>1, <1>b, PlaceOfRow
  <2>2. S * entry \in Nat /\ row - 1 = entry
    BY <2>0, <1>1, <1>4
  <2>3. turn \in Nat /\ turn = k - 1 /\ k = turn + 1
    BY <2>2, <1>b, <1>1
  <2> HIDE DEF k, turn
  <2>4. (turn \div S) \in Int /\ (turn % S) \in Int
    BY <2>3, <1>1, <1>b, Divided
  <2> QED BY <2>0, <2>1, <2>3, <2>4, <1>4 DEF rows
<1> HIDE DEF turn
<1>6. n + 1 \in 1..(((K * F) * S) * A) /\ n \in Nat /\ n \div A = turn /\ n % A = a - 1
  <2> DEFINE row == turn + 1  k == A * (row - 1) + a  rows == (K * F) * S
  <2>0. rows \in Nat /\ row \in 1..rows /\ row - 1 = turn
    BY <1>3, <1>5
  <2> HIDE DEF rows, row
  <2>1. k \in 1..(rows * A) /\ ((k - 1) \div A) + 1 = row /\ ((k - 1) % A) + 1 = a
    BY <2>0, <1>1, <1>b, PlaceOfRow
  <2>2. A * turn \in Nat /\ row - 1 = turn
    BY <2>0, <1>1, <1>5
  <2>3. n \in Nat /\ n = k - 1 /\ k = n + 1
    BY <2>2, <1>b, <1>1
  <2> HIDE DEF k, n
  <2>4. (n \div A) \in Int /\ (n % A) \in Int
    BY <2>3, <1>1, <1>b, Divided
  <2> QED BY <2>0, <2>1, <2>3, <2>4, <1>5 DEF rows
<1> HIDE DEF n
<1>7. n \in 0..(K * BodiesPerSeed(m) - 1)
  <2> DEFINE X == ((K * F) * S) * A
  <2>1. X \in Nat
    BY <1>3, <1>1
  <2> HIDE DEF X
  <2>2. n + 1 \in 1..X /\ K * BodiesPerSeed(m) = X
    BY <1>3, <1>6 DEF X
  <2> QED BY <2>1, <2>2, <1>6
<1>8. Body(m, n) = BodyAt(seed, f, s, a)
  <2>1. /\ (((n \div A) \div S) \div F) + 1 = seed /\ (((n \div A) \div S) % F) + 1 = f
        /\ ((n \div A) % S) + 1 = s /\ (n % A) + 1 = a
    BY <1>4, <1>5, <1>6, <1>b
  <2> QED BY <2>1, <1>a DEF BodyAt
<1> QED BY <1>2, <1>7, <1>8

LEMMA NextSeed ==
  ASSUME NEW m, Sized(m), NEW seed \in Nat, NEW f \in Nat, NEW s \in Nat, NEW a \in Nat
  PROVE  Position(m, seed + 1, f, s, a) = Position(m, seed, f, s, a) + BodiesPerSeed(m)
<1> DEFINE F == Len(m.features)  S == Len(m.states)  A == Len(m.agents)
           e == F * (seed - 1)
<1>1. F \in Nat /\ S \in Nat /\ A \in Nat
  BY DEF Sized
<1>2. /\ Position(m, seed, f, s, a) = A * (S * (e + (f - 1)) + (s - 1)) + (a - 1)
      /\ Position(m, seed + 1, f, s, a) = A * (S * (F * ((seed + 1) - 1) + (f - 1)) + (s - 1)) + (a - 1)
      /\ BodiesPerSeed(m) = F * (S * A)
  BY DEF Position, BodiesPerSeed
<1> HIDE DEF F, S, A
<1>3. F * ((seed + 1) - 1) = e + F /\ e \in Int
  BY <1>1
<1> HIDE DEF e
<1>4. S * ((e + F) + (f - 1)) = S * (e + (f - 1)) + S * F
  BY <1>1, <1>3
<1> DEFINE t == S * (e + (f - 1))
<1>5. t \in Int /\ S * F \in Int
  BY <1>1, <1>3
<1> HIDE DEF t
<1>6. A * ((t + S * F) + (s - 1)) = A * (t + (s - 1)) + A * (S * F)
  BY <1>1, <1>5
<1>7. A * (S * F) = F * (S * A)
  BY <1>1
<1>8. Position(m, seed + 1, f, s, a) = A * ((t + S * F) + (s - 1)) + (a - 1)
  BY <1>2, <1>3, <1>4 DEF t
<1>9. Position(m, seed, f, s, a) = A * (t + (s - 1)) + (a - 1)
  BY <1>2 DEF t
<1> DEFINE x == A * (t + (s - 1))  y == F * (S * A)
<1>10. x \in Int /\ y \in Int
  BY <1>1, <1>5
<1>11. A * ((t + S * F) + (s - 1)) = x + y
  BY <1>6, <1>7
<1> HIDE DEF x, y
<1> QED BY <1>2, <1>8, <1>9, <1>10, <1>11 DEF x, y

LEMMA BodyBefore ==
  ASSUME NEW m, Sized(m), NEW K \in Nat, NEW n \in Nat, n < K * BodiesPerSeed(m),
         ~(Body(m, n).state = 1 /\ Body(m, n).agent = 1)
  PROVE  n # 0 /\ n - 1 \in Nat /\ Body(m, n - 1).features = Body(m, n).features
<1> DEFINE F == Len(m.features)  S == Len(m.states)  A == Len(m.agents)
<1>1. F \in Nat /\ S \in Nat /\ A \in Nat
  BY DEF Sized
<1>2. PICK seed \in 1..K, f \in 1..F, s \in 1..S, a \in 1..A :
         Body(m, n) = BodyAt(seed, f, s, a) /\ n = Position(m, seed, f, s, a)
  BY BodyIsAt
<1>3. Body(m, n).features = f /\ ~(s = 1 /\ a = 1)
  BY <1>2 DEF BodyAt
<1> DEFINE entry == F * (seed - 1) + (f - 1)
<1>4. n = A * (S * entry + (s - 1)) + (a - 1)
  BY <1>2 DEF Position
<1>5. ASSUME NEW t \in 1..S, NEW b \in 1..A
      PROVE  /\ Position(m, seed, f, t, b) = A * (S * entry + (t - 1)) + (b - 1)
             /\ Position(m, seed, f, t, b) \in Nat
             /\ Body(m, Position(m, seed, f, t, b)).features = f
  <2>1. Position(m, seed, f, t, b) = A * (S * entry + (t - 1)) + (b - 1)
    BY DEF Position
  <2>2. /\ Position(m, seed, f, t, b) \in 0..(K * BodiesPerSeed(m) - 1)
        /\ Body(m, Position(m, seed, f, t, b)) = BodyAt(seed, f, t, b)
    <3>1. f \in 1..Len(m.features) /\ t \in 1..Len(m.states) /\ b \in 1..Len(m.agents)
      OBVIOUS
    <3> DEFINE p == Position(m, seed, f, t, b)
    <3>2. p \in 0..(K * BodiesPerSeed(m) - 1) /\ Body(m, p) = BodyAt(seed, f, t, b)
      <4> HIDE DEF F, S, A, entry
      <4> QED BY <3>1, PositionIsBody, SMTT(30)
    <3> QED BY <3>2
  <2>3. K * BodiesPerSeed(m) \in Int
    <3> HIDE DEF F, S, A
    <3>1. BodiesPerSeed(m) = F * (S * A)
      BY DEF BodiesPerSeed, F, S, A
    <3> QED BY <3>1, <1>1
  <2>4. Position(m, seed, f, t, b) \in Nat
    <3> DEFINE x == Position(m, seed, f, t, b)  y == K * BodiesPerSeed(m)
    <3> HIDE DEF x, y
    <3>1. x \in 0..(y - 1) /\ y \in Int
      BY <2>2, <2>3 DEF x, y
    <3>2. x \in Nat
      BY <3>1
    <3> QED BY <3>2 DEF x
  <2>5. Body(m, Position(m, seed, f, t, b)).features = f
    BY <2>2 DEF BodyAt
  <2> QED BY <2>1, <2>4, <2>5
<1>6. entry \in Nat
  <2>1. F * (seed - 1) \in Nat
    <3>1. seed - 1 \in Nat
      OBVIOUS
    <3> HIDE DEF F
    <3> QED BY <3>1, <1>1
  <2>2. f - 1 \in Nat
    <3> HIDE DEF F
    <3> QED BY <1>1
  <2> HIDE DEF F
  <2> QED BY <2>1, <2>2
<1> HIDE DEF F, S, A, entry
<1>7. S * entry \in Nat
  BY <1>1, <1>6
<1>8. CASE a # 1
  <2>1. a - 1 \in 1..A
    BY <1>1, <1>8
  <2>2. Position(m, seed, f, s, a - 1) = A * (S * entry + (s - 1)) + ((a - 1) - 1)
    BY <2>1, <1>5
  <2>3. A * (S * entry + (s - 1)) \in Nat
    BY <1>1, <1>7
  <2>4. n - 1 = Position(m, seed, f, s, a - 1)
    BY <2>2, <2>3, <1>4, <2>1
  <2>5. n - 1 \in Nat /\ Body(m, n - 1).features = f
    BY <2>1, <2>4, <1>5
  <2> QED BY <2>5, <1>3
<1>9. CASE a = 1
  <2>1. s - 1 \in 1..S /\ A \in 1..A
    BY <1>1, <1>3, <1>9
  <2>2. Position(m, seed, f, s - 1, A) = A * (S * entry + ((s - 1) - 1)) + (A - 1)
    BY <2>1, <1>5
  <2> DEFINE x == S * entry + ((s - 1) - 1)
  <2>3. x \in Nat /\ S * entry + (s - 1) = x + 1
    BY <1>7, <2>1
  <2> HIDE DEF x
  <2>4. A * (x + 1) = A * x + A /\ A * x \in Nat
    BY <1>1, <2>3
  <2>5. n - 1 = Position(m, seed, f, s - 1, A)
    BY <2>2, <2>3, <2>4, <1>1, <1>4, <1>9 DEF x
  <2>6. n - 1 \in Nat /\ Body(m, n - 1).features = f
    BY <2>1, <2>5, <1>5
  <2> QED BY <2>6, <1>3
<1> QED BY <1>8, <1>9

-----------------------------------------------------------------------------
(* The configuration at a body. *)

LEMMA TemplateOK == ConfigOK(Template)
BY SearchAssumption DEF ConfigOK

AgentFields == {"global", "agentSeed", "type", "policy", "context", "policies", "agents"}
AgentsOf(c, agent) == [c.agents EXCEPT ![agent.type] = Over(agent.own, c.agents[agent.type])]

LEMMA AgentOfFields ==
  ASSUME NEW c, DOMAIN c = DOMAIN Template, NEW agent, NEW m, NEW seed
  PROVE  LET d == AgentOf(c, m, seed, agent)
         IN /\ DOMAIN d = DOMAIN Template
            /\ \A z \in DOMAIN Template : z \notin AgentFields => d[z] = c[z]
            /\ d.type = agent.type /\ d.policy = agent.policy /\ d.global = m.global
            /\ d.context = (agent.type = "lin-ucb")
            /\ d.policies = PoliciesOf(c.policies, agent) /\ d.agents = AgentsOf(c, agent)
<1> DEFINE d == AgentOf(c, m, seed, agent)
<1>1. AgentFields \subseteq DOMAIN c
  BY SearchAssumption DEF AgentFields
<1>2. DOMAIN d = DOMAIN Template
  BY DEF AgentOf
<1>3. \A z \in DOMAIN Template : z \notin AgentFields => d[z] = c[z]
  BY DEF AgentOf, AgentFields
<1>4. d.type = agent.type /\ d.policy = agent.policy /\ d.global = m.global
  BY <1>1 DEF AgentOf, AgentFields
<1>5. d.context = (agent.type = "lin-ucb")
  BY <1>1 DEF AgentOf, AgentFields
<1>6. d.policies = PoliciesOf(c.policies, agent)
  BY <1>1 DEF AgentOf, AgentFields
<1>7. d.agents = AgentsOf(c, agent)
  BY <1>1 DEF AgentOf, AgentFields, AgentsOf
<1> QED BY <1>2, <1>3, <1>4, <1>5, <1>6, <1>7

LEMMA AgentOfSets ==
  ASSUME NEW c, ConfigOK(c), NEW agent, ValidAgent(agent), NEW m, NEW seed
  PROVE  LET d == AgentOf(c, m, seed, agent)
         IN /\ ConfigOK(d) /\ d.type = agent.type /\ d.policy = agent.policy
            /\ d.state = c.state /\ d.features = c.features /\ d.global = m.global
            /\ d.agents[agent.type] = Over(agent.own, c.agents[agent.type])
            /\ \A t \in DOMAIN Template.agents : t # agent.type => d.agents[t] = c.agents[t]
<1> DEFINE d == AgentOf(c, m, seed, agent)
<1>1. /\ DOMAIN d = DOMAIN Template
      /\ \A z \in DOMAIN Template : z \notin AgentFields => d[z] = c[z]
      /\ d.type = agent.type /\ d.policy = agent.policy /\ d.global = m.global
      /\ d.policies = PoliciesOf(c.policies, agent) /\ d.agents = AgentsOf(c, agent)
  BY AgentOfFields DEF ConfigOK
<1>2. agent.type \in DOMAIN Template.agents /\ DOMAIN c.agents = DOMAIN Template.agents
  BY DEF ConfigOK, ValidAgent
<1> HIDE DEF d
<1>3. d.state = c.state /\ d.features = c.features
  BY <1>1, SearchAssumption DEF AgentFields
<1>4. /\ DOMAIN d.agents = DOMAIN c.agents
      /\ d.agents[agent.type] = Over(agent.own, c.agents[agent.type])
      /\ \A t \in DOMAIN Template.agents : t # agent.type => d.agents[t] = c.agents[t]
  BY <1>1, <1>2 DEF AgentsOf
<1>5. DOMAIN d.policies = DOMAIN c.policies
  BY <1>1 DEF PoliciesOf
<1>6. ConfigOK(d)
  BY <1>1, <1>2, <1>4, <1>5 DEF ConfigOK
<1> QED BY <1>1, <1>3, <1>4, <1>6 DEF d

LEMMA AgentOfAlike ==
  ASSUME NEW c, NEW d, Alike(c, d), NEW agent, NEW m, NEW x, NEW y
  PROVE  Alike(AgentOf(c, m, x, agent), AgentOf(d, m, y, agent))
<1> DEFINE s == AgentOf(c, m, x, agent)  t == AgentOf(d, m, y, agent)
<1>1. c.policies = d.policies /\ c.agents = d.agents
  BY AlikeFields
<1>2. PoliciesOf(c.policies, agent) = PoliciesOf(d.policies, agent) /\ AgentsOf(c, agent) = AgentsOf(d, agent)
  BY <1>1 DEF PoliciesOf, AgentsOf
<1>3. /\ DOMAIN c = DOMAIN Template /\ DOMAIN d = DOMAIN Template
      /\ \A z \in DOMAIN Template : z # "agentSeed" => c[z] = d[z]
  BY DEF Alike
<1>4. /\ DOMAIN s = DOMAIN Template
      /\ \A z \in DOMAIN Template : z \notin AgentFields => s[z] = c[z]
      /\ s.type = agent.type /\ s.policy = agent.policy /\ s.global = m.global
      /\ s.context = (agent.type = "lin-ucb")
      /\ s.policies = PoliciesOf(c.policies, agent) /\ s.agents = AgentsOf(c, agent)
  BY <1>3, AgentOfFields
<1>5. /\ DOMAIN t = DOMAIN Template
      /\ \A z \in DOMAIN Template : z \notin AgentFields => t[z] = d[z]
      /\ t.type = agent.type /\ t.policy = agent.policy /\ t.global = m.global
      /\ t.context = (agent.type = "lin-ucb")
      /\ t.policies = PoliciesOf(d.policies, agent) /\ t.agents = AgentsOf(d, agent)
  BY <1>3, AgentOfFields
<1> HIDE DEF s, t
<1>6. \A z \in DOMAIN Template : z # "agentSeed" => s[z] = t[z]
  BY <1>2, <1>3, <1>4, <1>5 DEF AgentFields
<1> QED BY <1>4, <1>5, <1>6 DEF Alike, s, t

IsFirst(at) == at.features = 1 /\ at.state = 1 /\ at.agent = 1
StartsEntry(at) == at.state = 1 /\ at.agent = 1
FeaturesOf(c, entry) == \A flag \in DOMAIN entry : c.features[flag] = entry[flag]

LEMMA ConfigAtSets ==
  ASSUME NEW c, ConfigOK(c), NEW m, NEW seeds, NEW at, ValidAgent(m.agents[at.agent])
  PROVE  LET d == ConfigAt(c, m, seeds, at)
             agent == m.agents[at.agent]
             as == IF IsFirst(at) THEN Template.agents ELSE c.agents
         IN /\ ConfigOK(d) /\ d.type = agent.type /\ d.policy = agent.policy
            /\ d.state = m.states[at.state] /\ d.global = m.global
            /\ StartsEntry(at) => FeaturesOf(d, m.features[at.features])
            /\ ~StartsEntry(at) => d.features = c.features
            /\ d.agents[agent.type] = Over(agent.own, as[agent.type])
            /\ \A t \in DOMAIN Template.agents : t # agent.type => d.agents[t] = as[t]
<1> DEFINE agent == m.agents[at.agent]
           as == IF IsFirst(at) THEN Template.agents ELSE c.agents
           seeded == IF IsFirst(at) THEN [Template EXCEPT !.taskSeed = seeds.taskGenerator] ELSE c
           featured == IF StartsEntry(at) THEN Features(seeded, m.features[at.features]) ELSE seeded
           stated == [featured EXCEPT !.state = m.states[at.state]]
           d == AgentOf(stated, m, seeds.agent[at.seed], agent)
<1>1. d = ConfigAt(c, m, seeds, at)
  BY DEF ConfigAt, IsFirst, StartsEntry
<1>2. {"features", "state", "taskSeed", "type", "policy", "agents", "policies"} \subseteq DOMAIN Template
  BY SearchAssumption
<1>3. ConfigOK(seeded) /\ seeded.agents = as /\ (~IsFirst(at) => seeded = c)
  <2>1. CASE IsFirst(at)
    BY <1>2, <2>1, TemplateOK DEF ConfigOK
  <2>2. CASE ~IsFirst(at)
    BY <2>2
  <2> QED BY <2>1, <2>2
<1> HIDE DEF seeded, as
<1>4. /\ ConfigOK(featured) /\ featured.agents = as
      /\ StartsEntry(at) => FeaturesOf(featured, m.features[at.features])
      /\ ~StartsEntry(at) => featured.features = c.features
  <2>1. CASE StartsEntry(at)
    <3>1. featured = [seeded EXCEPT !.features = Over(m.features[at.features], seeded.features)]
      BY <2>1 DEF Features
    <3>2. ConfigOK(featured) /\ featured.agents = as
      BY <1>2, <1>3, <3>1 DEF ConfigOK
    <3>3. featured.features = Over(m.features[at.features], seeded.features)
      BY <1>2, <1>3, <3>1 DEF ConfigOK
    <3>4. FeaturesOf(featured, m.features[at.features])
      BY <3>3 DEF FeaturesOf, Over
    <3> QED BY <3>2, <3>4, <2>1
  <2>2. CASE ~StartsEntry(at)
    BY <2>2, <1>3 DEF StartsEntry, IsFirst
  <2> QED BY <2>1, <2>2
<1> HIDE DEF featured
<1>5. ConfigOK(stated) /\ stated.agents = as /\ stated.features = featured.features /\ stated.state = m.states[at.state]
  BY <1>2, <1>4 DEF ConfigOK
<1> HIDE DEF stated
<1>6. /\ ConfigOK(d) /\ d.type = agent.type /\ d.policy = agent.policy
      /\ d.state = stated.state /\ d.features = stated.features /\ d.global = m.global
      /\ d.agents[agent.type] = Over(agent.own, stated.agents[agent.type])
      /\ \A t \in DOMAIN Template.agents : t # agent.type => d.agents[t] = stated.agents[t]
  <2> DEFINE seed == seeds.agent[at.seed]
  <2>1. ValidAgent(agent) /\ ConfigOK(stated) /\ d = AgentOf(stated, m, seed, agent)
    BY <1>5
  <2> HIDE DEF seed, agent, d
  <2> QED BY <2>1, AgentOfSets
<1> HIDE DEF d
<1>7. StartsEntry(at) => FeaturesOf(d, m.features[at.features])
  BY <1>4, <1>5, <1>6 DEF FeaturesOf
<1> QED BY <1>1, <1>4, <1>5, <1>6, <1>7 DEF as

LEMMA ConfigAtAlike ==
  ASSUME NEW m, NEW seeds, NEW x, NEW y, NEW f, NEW s, NEW a,
         NEW c, NEW d, ConfigOK(c), ConfigOK(d), Alike(c, d) \/ (f = 1 /\ s = 1 /\ a = 1)
  PROVE  Alike(ConfigAt(c, m, seeds, BodyAt(x, f, s, a)), ConfigAt(d, m, seeds, BodyAt(y, f, s, a)))
<1> DEFINE first == f = 1 /\ s = 1 /\ a = 1
           Seeded(e) == IF first THEN [Template EXCEPT !.taskSeed = seeds.taskGenerator] ELSE e
           Featured(e) == IF s = 1 /\ a = 1 THEN Features(Seeded(e), m.features[f]) ELSE Seeded(e)
           Stated(e) == [Featured(e) EXCEPT !.state = m.states[s]]
<1>1. \A e, k : ConfigAt(e, m, seeds, BodyAt(k, f, s, a)) = AgentOf(Stated(e), m, seeds.agent[k], m.agents[a])
  BY DEF ConfigAt, BodyAt
<1>2. {"features", "state"} \subseteq DOMAIN Template
  BY SearchAssumption
<1>3. Alike(Seeded(c), Seeded(d))
  <2>1. CASE first
    BY <2>1 DEF Alike
  <2>2. CASE ~first
    BY <2>2
  <2> QED BY <2>1, <2>2
<1> HIDE DEF Seeded
<1>4. Alike(Featured(c), Featured(d))
  <2>1. Seeded(c).features = Seeded(d).features
    BY <1>3, AlikeFields
  <2>2. CASE s = 1 /\ a = 1
    <3> DEFINE v == Over(m.features[f], Seeded(c).features)
    <3>1. Featured(c) = [Seeded(c) EXCEPT !.features = v] /\ Featured(d) = [Seeded(d) EXCEPT !.features = v]
      BY <2>1, <2>2 DEF Features
    <3> HIDE DEF v, Featured
    <3> QED BY <3>1, <1>3 DEF Alike
  <2>3. CASE ~(s = 1 /\ a = 1)
    BY <2>3, <1>3
  <2> QED BY <2>2, <2>3
<1> HIDE DEF Featured
<1>5. Alike(Stated(c), Stated(d))
  BY <1>4 DEF Alike
<1> HIDE DEF Stated
<1>6. Alike(AgentOf(Stated(c), m, seeds.agent[x], m.agents[a]), AgentOf(Stated(d), m, seeds.agent[y], m.agents[a]))
  BY <1>5, AgentOfAlike
<1> QED BY <1>1, <1>6

-----------------------------------------------------------------------------
(* The runs of a body. *)

LEMMA SearchIsValid ==
  ASSUME NEW m \in Multis
  PROVE  /\ Sized(m) /\ DOMAIN m.agents = 1..Len(m.agents) /\ DOMAIN m.states = 1..Len(m.states)
         /\ DOMAIN m.features = 1..Len(m.features)
         /\ \A agent \in Range(m.agents) : ValidAgent(agent)
<1>1. ValidSearch(m)
  BY SearchAssumption
<1>2. m.agents \in Seq(Range(m.agents)) /\ m.states \in Seq(Range(m.states)) /\ m.features \in Seq(Range(m.features))
  BY <1>1 DEF ValidSearch
<1>3. Sized(m) /\ DOMAIN m.agents = 1..Len(m.agents) /\ DOMAIN m.states = 1..Len(m.states)
      /\ DOMAIN m.features = 1..Len(m.features)
  BY <1>2, LenProperties DEF Sized
<1> QED BY <1>1, <1>3 DEF ValidSearch

(* What is kept of the parameters of a type of agent: the template's, but for what the entries of that *)
(* type in the search change.                                                                          *)
OwnBase(m, c, type) ==
  LET X == c.agents[type]
      Y == Template.agents[type]
  IN /\ DOMAIN Y \subseteq DOMAIN X
     /\ DOMAIN X \subseteq DOMAIN Y \union ChangedOf(m, type)
     /\ \A name \in DOMAIN Y \ ChangedOf(m, type) : X[name] = Y[name]
OwnSet(c, agent) ==
  LET X == c.agents[agent.type]
  IN /\ DOMAIN agent.own \subseteq DOMAIN X
     /\ \A name \in DOMAIN agent.own \ NamesIn(agent, "agents") : X[name] = agent.own[name]
Unmixed(m, c) == ConfigOK(c) /\ \A type \in DOMAIN Template.agents : OwnBase(m, c, type)

(* The configuration of an entry of a search, and what its agent is created with. *)
OwnRun(m, r, agent) ==
  LET own == Over(agent.own, Over(Template.agents[agent.type], m.global))
  IN \A name \in DOMAIN AgentConfig(r) :
       \/ name \in NamesIn(agent, "agents") \union NamesIn(agent, "global")
       \/ name \in DOMAIN own /\ AgentConfig(r)[name] = own[name]
       \/ name \in ChangedOf(m, agent.type) \ Changed(agent)

LEMMA OwnSetIsOwn ==
  ASSUME NEW m, NEW agent, NEW r, r.type = agent.type, OwnBase(m, r, agent.type), OwnSet(r, agent),
         DOMAIN r.global \subseteq DOMAIN m.global \union NamesIn(agent, "global"),
         \A name \in DOMAIN m.global \ NamesIn(agent, "global") : r.global[name] = m.global[name]
  PROVE  OwnRun(m, r, agent)
<1> DEFINE X == r.agents[agent.type]  Y == Template.agents[agent.type]  O == agent.own
           N == NamesIn(agent, "agents")  M == NamesIn(agent, "global")  L == ChangedOf(m, agent.type)
           own == Over(O, Over(Y, m.global))
<1>1. AgentConfig(r) = Over(X, r.global)
  BY DEF AgentConfig
<1>2. /\ DOMAIN Y \subseteq DOMAIN X /\ DOMAIN X \subseteq DOMAIN Y \union L
      /\ \A name \in DOMAIN Y \ L : X[name] = Y[name]
      /\ DOMAIN O \subseteq DOMAIN X /\ \A name \in DOMAIN O \ N : X[name] = O[name]
      /\ Changed(agent) = DOMAIN O \union N
  BY DEF OwnBase, OwnSet, Changed
<1> SUFFICES ASSUME NEW name \in DOMAIN AgentConfig(r), name \notin N \union M,
                    name \notin L \ Changed(agent)
             PROVE  name \in DOMAIN own /\ AgentConfig(r)[name] = own[name]
  BY DEF OwnRun
<1> HIDE DEF X, Y, N, O, M, L
<1>3. CASE name \in DOMAIN X
  <2>1. AgentConfig(r)[name] = X[name]
    BY <1>1, <1>3 DEF Over
  <2>2. CASE name \in DOMAIN O
    BY <2>1, <2>2, <1>2 DEF Over
  <2>3. CASE name \notin DOMAIN O
    <3>1. name \in DOMAIN Y /\ X[name] = Y[name]
      BY <1>2, <1>3, <2>3
    <3> QED BY <2>1, <2>3, <3>1 DEF Over
  <2> QED BY <2>2, <2>3
<1>4. CASE name \notin DOMAIN X
  <2>1. name \in DOMAIN r.global /\ AgentConfig(r)[name] = r.global[name]
    BY <1>1, <1>4 DEF Over
  <2>2. name \in DOMAIN m.global /\ r.global[name] = m.global[name]
    BY <2>1 DEF M
  <2>3. name \notin DOMAIN O /\ name \notin DOMAIN Y
    BY <1>2, <1>4
  <2> QED BY <2>1, <2>2, <2>3 DEF Over
<1> QED BY <1>3, <1>4

(* r is a run of an entry of features, a state and an entry of agents, with the values v. *)
IsRun(m, r, f, s, a, v) ==
  LET agent == m.agents[a]
  IN /\ DOMAIN r = DOMAIN Template /\ r.type = agent.type /\ r.policy = agent.policy /\ r.state = m.states[s]
     /\ FeaturesOf(r, m.features[f])
     /\ \A i \in DOMAIN agent.parameters : Held(r, agent.parameters[i]) = v[i]
     /\ OwnRun(m, r, agent)

LEMMA BodyRuns ==
  ASSUME NEW m \in Multis, NEW seeds, NEW k, NEW f, NEW s, NEW a \in 1..Len(m.agents),
         NEW c, Unmixed(m, c), (s = 1 /\ a = 1) \/ FeaturesOf(c, m.features[f])
  PROVE  LET G == Combinations(m.agents[a])
             w == Configured(ConfigAt(c, m, seeds, BodyAt(k, f, s, a)), G)
         IN /\ Len(G) \in Nat
            /\ \A j \in 0..Len(G) : Unmixed(m, w[j]) /\ FeaturesOf(w[j], m.features[f])
            /\ \A j \in 1..Len(G) : IsRun(m, w[j], f, s, a, Valued(m.agents[a], G[j]))
<1> DEFINE agent == m.agents[a]
           T == agent.type
           at == BodyAt(k, f, s, a)
           d == ConfigAt(c, m, seeds, at)
           G == Combinations(agent)
           w == Configured(d, G)
           as == IF IsFirst(at) THEN Template.agents ELSE c.agents
<1>1. agent \in Range(m.agents) /\ ValidAgent(agent) /\ T \in DOMAIN Template.agents
  <2>1. agent \in Range(m.agents)
    BY SearchIsValid DEF Range
  <2> QED BY <2>1, SearchIsValid DEF ValidAgent
<1>2. ConfigOK(c) /\ \A t \in DOMAIN Template.agents : OwnBase(m, c, t)
  BY DEF Unmixed
<1>3. /\ ConfigOK(d) /\ d.type = T /\ d.policy = agent.policy
      /\ d.state = m.states[s] /\ d.global = m.global
      /\ (s = 1 /\ a = 1) => FeaturesOf(d, m.features[f])
      /\ ~(s = 1 /\ a = 1) => d.features = c.features
      /\ d.agents[T] = Over(agent.own, as[T])
      /\ \A t \in DOMAIN Template.agents : t # T => d.agents[t] = as[t]
  <2>1. at.agent = a /\ at.state = s /\ at.features = f /\ m.agents[at.agent] = agent
    BY DEF BodyAt
  <2> HIDE DEF at, agent
  <2>2. /\ ConfigOK(d) /\ d.type = agent.type /\ d.policy = agent.policy
        /\ d.state = m.states[at.state] /\ d.global = m.global
        /\ StartsEntry(at) => FeaturesOf(d, m.features[at.features])
        /\ ~StartsEntry(at) => d.features = c.features
        /\ d.agents[agent.type] = Over(agent.own, as[agent.type])
        /\ \A t \in DOMAIN Template.agents : t # agent.type => d.agents[t] = as[t]
    BY <1>1, <1>2, <2>1, ConfigAtSets
  <2>3. StartsEntry(at) <=> s = 1 /\ a = 1
    BY <2>1 DEF StartsEntry
  <2> HIDE DEF d, as
  <2> QED BY <2>1, <2>2, <2>3
<1>4. FeaturesOf(d, m.features[f])
  BY <1>3 DEF FeaturesOf
<1>5. Changed(agent) \subseteq ChangedOf(m, T)
  BY <1>1 DEF ChangedOf
<1>6. ASSUME NEW t \in DOMAIN Template.agents
      PROVE  LET X == as[t]
                 Y == Template.agents[t]
             IN /\ DOMAIN Y \subseteq DOMAIN X
                /\ DOMAIN X \subseteq DOMAIN Y \union ChangedOf(m, t)
                /\ \A name \in DOMAIN Y \ ChangedOf(m, t) : X[name] = Y[name]
  <2>1. CASE IsFirst(at)
    BY <2>1
  <2>2. CASE ~IsFirst(at)
    <3>1. as = c.agents
      BY <2>2
    <3>2. OwnBase(m, c, t)
      BY <1>2
    <3> HIDE DEF as
    <3> QED BY <3>1, <3>2 DEF OwnBase
  <2> QED BY <2>1, <2>2
<1> HIDE DEF as
<1>7. OwnBase(m, d, T) /\ OwnSet(d, agent)
  <2> DEFINE X == as[T]  Y == Template.agents[T]  L == ChangedOf(m, T)
  <2>1. /\ DOMAIN Y \subseteq DOMAIN X
        /\ DOMAIN X \subseteq DOMAIN Y \union L
        /\ \A name \in DOMAIN Y \ L : X[name] = Y[name]
    BY <1>1, <1>6
  <2>2. d.agents[T] = Over(agent.own, X) /\ DOMAIN agent.own \subseteq L
    BY <1>3, <1>5 DEF Changed
  <2> DEFINE Z == d.agents[T]
  <2> HIDE DEF X, Y, Z, T, L, agent
  <2>3. /\ DOMAIN Z = DOMAIN agent.own \union DOMAIN X
        /\ \A name \in DOMAIN agent.own : Z[name] = agent.own[name]
        /\ \A name \in DOMAIN X \ DOMAIN agent.own : Z[name] = X[name]
    BY <2>2 DEF Over, Z
  <2>4. /\ DOMAIN Y \subseteq DOMAIN Z
        /\ DOMAIN Z \subseteq DOMAIN Y \union L
        /\ \A name \in DOMAIN Y \ L : Z[name] = Y[name]
        /\ DOMAIN agent.own \subseteq DOMAIN Z
        /\ \A name \in DOMAIN agent.own : Z[name] = agent.own[name]
    BY <2>1, <2>2, <2>3
  <2> QED BY <2>4 DEF OwnBase, OwnSet, Y, Z, T, L
<1>8. /\ \A j \in 0..Len(G) : KeepsOthers(d, w[j], Names(agent))
      /\ \A j \in 1..Len(G) : \A i \in 1..Len(agent.parameters) :
           Held(w[j], agent.parameters[i]) = Valued(agent, G[j])[i]
  <2> HIDE DEF d, agent
  <2> QED BY <1>1, <1>3, ConfiguredSets
<1>9. Len(G) \in Nat /\ DOMAIN agent.parameters = 1..Len(agent.parameters)
  <2> HIDE DEF agent
  <2> QED BY <1>1, CombinationsArePicks
<1> HIDE DEF w, G, d, at
<1>10. ASSUME NEW j \in 0..Len(G)
       PROVE  /\ Unmixed(m, w[j]) /\ FeaturesOf(w[j], m.features[f])
              /\ DOMAIN w[j] = DOMAIN Template /\ w[j].type = T /\ w[j].policy = agent.policy
              /\ w[j].state = m.states[s]
              /\ OwnRun(m, w[j], agent)
  <2> DEFINE r == w[j]
  <2>1. KeepsOthers(d, r, Names(agent))
    BY <1>8
  <2> HIDE DEF r, T, agent
  <2>2. ConfigOK(r) /\ r.type = T /\ r.policy = agent.policy /\ r.state = d.state /\ r.features = d.features
    <3>1. ConfigOK(r)
      BY <2>1 DEF KeepsOthers
    <3>2. r.type = d.type /\ r.policy = d.policy /\ r.state = d.state /\ r.features = d.features
      BY <2>1, KeepsFields
    <3> QED BY <3>1, <3>2, <1>3
  <2>3. DOMAIN r = DOMAIN Template
    BY <2>2 DEF ConfigOK
  <2>4. FeaturesOf(r, m.features[f])
    BY <2>2, <1>4 DEF FeaturesOf
  <2>5. ASSUME NEW area \in Areas
        PROVE  /\ DOMAIN Part(d, area) \subseteq DOMAIN Part(r, area)
               /\ DOMAIN Part(r, area) \subseteq DOMAIN Part(d, area) \union NamesIn(agent, area)
               /\ \A name \in DOMAIN Part(d, area) \ NamesIn(agent, area) :
                    Part(r, area)[name] = Part(d, area)[name]
    BY <2>1 DEF KeepsOthers, Names
  <2>6. /\ Part(d, "agents") = d.agents[T] /\ Part(r, "agents") = r.agents[T]
        /\ Part(d, "global") = m.global /\ Part(r, "global") = r.global
    BY <1>3, <2>2 DEF Part
  <2>7. "agents" \in Areas /\ "global" \in Areas
    BY DEF Areas
  <2>8. /\ DOMAIN d.agents[T] \subseteq DOMAIN r.agents[T]
        /\ DOMAIN r.agents[T] \subseteq DOMAIN d.agents[T] \union NamesIn(agent, "agents")
        /\ \A name \in DOMAIN d.agents[T] \ NamesIn(agent, "agents") : r.agents[T][name] = d.agents[T][name]
    BY <2>5, <2>6, <2>7
  <2>9. /\ DOMAIN r.global \subseteq DOMAIN m.global \union NamesIn(agent, "global")
        /\ \A name \in DOMAIN m.global \ NamesIn(agent, "global") : r.global[name] = m.global[name]
    BY <2>5, <2>6, <2>7
  <2>10. OwnBase(m, r, T) /\ OwnSet(r, agent)
    <3>1. NamesIn(agent, "agents") \subseteq ChangedOf(m, T)
      BY <1>5 DEF Changed
    <3> QED BY <1>7, <2>8, <3>1 DEF OwnBase, OwnSet, T
  <2>11. OwnRun(m, r, agent)
    BY <2>2, <2>9, <2>10, OwnSetIsOwn DEF T
  <2>12. ASSUME NEW t \in DOMAIN Template.agents PROVE OwnBase(m, r, t)
    <3>1. CASE t = T
      BY <3>1, <2>10
    <3>2. CASE t # T
      <4>1. d.agents[t] = as[t] /\ r.agents[t] = d.agents[t]
        BY <3>2, <2>1, <1>3 DEF KeepsOthers
      <4> QED BY <4>1, <1>6 DEF OwnBase
    <3> QED BY <3>1, <3>2
  <2> QED BY <2>2, <2>3, <2>4, <2>11, <2>12, <1>3 DEF Unmixed, r
<1>11. ASSUME NEW j \in 1..Len(G) PROVE IsRun(m, w[j], f, s, a, Valued(agent, G[j]))
  <2>1. j \in 0..Len(G)
    OBVIOUS
  <2>2. \A i \in DOMAIN agent.parameters : Held(w[j], agent.parameters[i]) = Valued(agent, G[j])[i]
    BY <1>8, <1>9
  <2> QED BY <2>1, <2>2, <1>10 DEF IsRun
<1> QED BY <1>9, <1>10, <1>11 DEF w, G, d, at

-----------------------------------------------------------------------------
(* What a generation has done: where the runs of each body begin, and the    *)
(* configuration each body has found.                                        *)
AgentAt(m, n) == m.agents[Body(m, n).agent]
Tried(m, n) == Combinations(AgentAt(m, n))
Ran(m, seeds, n, c) == Configured(ConfigAt(c, m, seeds, Body(m, n)), Tried(m, n))
Story(m, seeds, done, list, off, cfg) ==
  /\ \A n \in 0..done : off[n] \in Nat
  /\ off[0] = 0 /\ off[done] = Len(list) /\ cfg[0] = Template
  /\ \A n \in 0..(done - 1) :
       /\ off[n + 1] = off[n] + Len(Tried(m, n))
       /\ cfg[n + 1] = Ran(m, seeds, n, cfg[n])[Len(Tried(m, n))]
       /\ \A k \in 1..Len(Tried(m, n)) : list[off[n] + k] = Ran(m, seeds, n, cfg[n])[k]

(* The history tells the body each run is of. *)
Placed(m, done, pl, off) ==
  /\ \E S : pl \in Seq(S)
  /\ Len(pl) = off[done]
  /\ \A n \in 0..(done - 1) : \A k \in 1..Len(Tried(m, n)) : pl[off[n] + k] = Body(m, n)

(* The agent of a body is one of the search. *)
LEMMA BodyIsInSearch ==
  ASSUME NEW m \in Multis, NEW K \in Nat, NEW n \in Nat, n < K * BodiesPerSeed(m)
  PROVE  \E k \in 1..K, f \in 1..Len(m.features), s \in 1..Len(m.states), a \in 1..Len(m.agents) :
            /\ Body(m, n) = BodyAt(k, f, s, a) /\ n = Position(m, k, f, s, a)
            /\ AgentAt(m, n) = m.agents[a] /\ ValidAgent(m.agents[a])
<1>1. Sized(m) /\ DOMAIN m.agents = 1..Len(m.agents) /\ \A agent \in Range(m.agents) : ValidAgent(agent)
  BY SearchIsValid
<1>2. PICK k \in 1..K, f \in 1..Len(m.features), s \in 1..Len(m.states), a \in 1..Len(m.agents) :
         Body(m, n) = BodyAt(k, f, s, a) /\ n = Position(m, k, f, s, a)
  BY <1>1, BodyIsAt
<1>3. AgentAt(m, n) = m.agents[a]
  BY <1>2 DEF AgentAt, BodyAt
<1>4. ValidAgent(m.agents[a])
  BY <1>1 DEF Range
<1> QED BY <1>2, <1>3, <1>4

LEMMA BodiesAreMany ==
  ASSUME NEW m, Sized(m), NEW K \in Nat
  PROVE  BodiesPerSeed(m) \in Nat /\ K * BodiesPerSeed(m) \in Nat
<1> DEFINE F == Len(m.features)  S == Len(m.states)  A == Len(m.agents)
<1>1. F \in Nat /\ S \in Nat /\ A \in Nat
  BY DEF Sized
<1>2. BodiesPerSeed(m) = F * (S * A)
  BY DEF BodiesPerSeed
<1> HIDE DEF F, S, A
<1>3. F * (S * A) \in Nat
  BY <1>1
<1> QED BY <1>2, <1>3

LEMMA TriedIsFinite ==
  ASSUME NEW m \in Multis, NEW K \in Nat, NEW done \in Nat, done <= K * BodiesPerSeed(m)
  PROVE  \A n \in 0..(done - 1) : n < K * BodiesPerSeed(m) /\ Len(Tried(m, n)) \in Nat
<1> TAKE n \in 0..(done - 1)
<1>1. K * BodiesPerSeed(m) \in Nat
  BY SearchIsValid, BodiesAreMany
<1>2. n \in Nat /\ n < K * BodiesPerSeed(m)
  BY <1>1
<1>3. ValidAgent(AgentAt(m, n))
  BY <1>2, BodyIsInSearch
<1> QED BY <1>2, <1>3, CombinationsArePicks DEF Tried

LEMMA StoryBegins ==
  ASSUME NEW m, NEW seeds
  PROVE  \E off, cfg : Story(m, seeds, 0, <<>>, off, cfg) /\ cfg[0] = Template /\ Placed(m, 0, <<>>, off)
<1> DEFINE off == [n \in 0..0 |-> 0]  cfg == [n \in 0..0 |-> Template]
<1>1. off[0] = 0 /\ cfg[0] = Template /\ (\A n \in 0..0 : off[n] \in Nat) /\ Len(<<>>) = 0
  OBVIOUS
<1> HIDE DEF off, cfg
<1>2. Story(m, seeds, 0, <<>>, off, cfg)
  BY <1>1 DEF Story
<1>3. <<>> \in Seq({}) /\ 0..(0 - 1) = {}
  OBVIOUS
<1>4. Placed(m, 0, <<>>, off)
  BY <1>1, <1>3 DEF Placed
<1> QED BY <1>1, <1>2, <1>4

More(m, seeds, n, c) == [k \in 1..Len(Tried(m, n)) |-> Ran(m, seeds, n, c)[k]]

Continued(m, seeds, done, list, off, c) ==
  \E off2, cfg2 : /\ Story(m, seeds, done + 1, list \o More(m, seeds, done, c), off2, cfg2)
                  /\ cfg2[done + 1] = Ran(m, seeds, done, c)[Len(Tried(m, done))]
                  /\ \A n \in 0..done : off2[n] = off[n]

LEMMA StoryGoesOn ==
  ASSUME NEW m \in Multis, NEW seeds, NEW K \in Nat, NEW done \in Nat, done < K * BodiesPerSeed(m),
         NEW S, NEW list \in Seq(S), NEW off, NEW cfg, Story(m, seeds, done, list, off, cfg),
         NEW c, c = cfg[done]
  PROVE  Continued(m, seeds, done, list, off, c)
<1> DEFINE L == Len(Tried(m, done))
           w == Ran(m, seeds, done, cfg[done])
           more == More(m, seeds, done, c)
           off2 == [n \in 0..(done + 1) |-> IF n = done + 1 THEN off[done] + L ELSE off[n]]
           cfg2 == [n \in 0..(done + 1) |-> IF n = done + 1 THEN w[L] ELSE cfg[n]]
           all == list \o more
<1>0. /\ K * BodiesPerSeed(m) \in Nat
      /\ \A n \in 0..done : n \in Nat /\ Len(Tried(m, n)) \in Nat
  <2>1. K * BodiesPerSeed(m) \in Nat
    BY SearchIsValid, BodiesAreMany
  <2>2. done + 1 \in Nat /\ done + 1 <= K * BodiesPerSeed(m) /\ (done + 1) - 1 = done
    BY <2>1
  <2>3. \A n \in 0..((done + 1) - 1) : Len(Tried(m, n)) \in Nat
    BY <2>2, TriedIsFinite
  <2> QED BY <2>1, <2>2, <2>3
<1>1. L \in Nat
  BY <1>0
<1> HIDE DEF L
<1>2. /\ \A n \in 0..done : off[n] \in Nat
      /\ off[0] = 0 /\ off[done] = Len(list) /\ cfg[0] = Template
      /\ \A n \in 0..(done - 1) :
           /\ off[n + 1] = off[n] + Len(Tried(m, n))
           /\ cfg[n + 1] = Ran(m, seeds, n, cfg[n])[Len(Tried(m, n))]
           /\ \A k \in 1..Len(Tried(m, n)) : list[off[n] + k] = Ran(m, seeds, n, cfg[n])[k]
  BY DEF Story
<1>3. more = [k \in 1..L |-> w[k]]
  BY DEF L, More
<1> HIDE DEF w, more
<1>4. more \in Seq({w[k] : k \in 1..L}) /\ Len(more) = L
  <2>1. more \in [1..L -> {w[k] : k \in 1..L}]
    BY <1>3
  <2> QED BY <1>1, <2>1, SequenceOf
<1>5. /\ Len(all) = Len(list) + L
      /\ \A i \in 1..Len(list) : all[i] = list[i]
      /\ \A k \in 1..L : all[Len(list) + k] = w[k]
  <2> DEFINE T == {w[k] : k \in 1..L}  U == S \union T
  <2>1. list \in Seq(U) /\ more \in Seq(U)
    <3> HIDE DEF T
    <3> QED BY <1>4 DEF T
  <2> HIDE DEF U
  <2>2. Len(all) = Len(list) + L
    BY <2>1, <1>4
  <2>3. \A i \in 1..(Len(list) + L) : all[i] = IF i <= Len(list) THEN list[i] ELSE more[i - Len(list)]
    BY <2>1, <1>4
  <2>4. \A i \in 1..Len(list) : all[i] = list[i]
    BY <2>3, <1>1
  <2>5. ASSUME NEW k \in 1..L PROVE all[Len(list) + k] = w[k]
    <3>1. Len(list) \in Nat
      OBVIOUS
    <3> HIDE DEF all
    <3>2. Len(list) + k \in 1..(Len(list) + L) /\ ~(Len(list) + k <= Len(list)) /\ (Len(list) + k) - Len(list) = k
      BY <3>1, <1>1
    <3>3. all[Len(list) + k] = more[(Len(list) + k) - Len(list)]
      BY <2>3, <3>2
    <3> QED BY <3>2, <3>3, <1>3
  <2> QED BY <2>2, <2>4, <2>5
<1>6. /\ \A n \in 0..done : off2[n] = off[n] /\ cfg2[n] = cfg[n]
      /\ off2[done + 1] = off[done] + L /\ cfg2[done + 1] = w[L]
  OBVIOUS
<1> HIDE DEF off2, cfg2, all
<1>7. \A n \in 0..(done + 1) : off2[n] \in Nat
  <2>1. \A n \in 0..(done + 1) : n = done + 1 \/ n \in 0..done
    OBVIOUS
  <2>2. done \in 0..done
    OBVIOUS
  <2>3. off2[done + 1] \in Nat
    BY <2>2, <1>1, <1>2, <1>6
  <2> QED BY <2>1, <2>3, <1>2, <1>6
<1>8. off2[0] = 0 /\ off2[done + 1] = Len(all) /\ cfg2[0] = Template
  BY <1>1, <1>2, <1>5, <1>6
<1>9. \A n \in 0..done : off[n] <= Len(list)
  <2> DEFINE P == {d \in 0..done : off[done - d] <= Len(list)}
  <2>1. 0 \in P
    BY <1>2
  <2>2. \A d \in 0..done : d # done /\ d \in P => d + 1 \in P
    <3> TAKE d \in 0..done
    <3> HAVE d # done /\ d \in P
    <3> DEFINE n == done - (d + 1)
    <3>1. n \in 0..(done - 1) /\ n + 1 = done - d /\ d + 1 \in 0..done /\ n \in 0..done
      OBVIOUS
    <3>2. off[n + 1] <= Len(list)
      BY <3>1
    <3>3. off[n + 1] = off[n] + Len(Tried(m, n)) /\ off[n] \in Nat
      BY <3>1, <1>2
    <3>4. Len(Tried(m, n)) \in Nat
      BY <3>1, <1>0
    <3> HIDE DEF n
    <3>5. off[n] <= Len(list)
      BY <3>2, <3>3, <3>4
    <3> QED BY <3>1, <3>5 DEF n
  <2>3. 0..done \subseteq P
    <3> HIDE DEF P
    <3> QED BY <2>1, <2>2, CountUp
  <2> TAKE n \in 0..done
  <2>4. done - n \in P /\ done - (done - n) = n
    <3>1. done - n \in 0..done
      OBVIOUS
    <3> HIDE DEF P
    <3> QED BY <3>1, <2>3
  <2> QED BY <2>4
<1>10. ASSUME NEW n \in 0..done
       PROVE  /\ off2[n + 1] = off2[n] + Len(Tried(m, n))
              /\ cfg2[n + 1] = Ran(m, seeds, n, cfg2[n])[Len(Tried(m, n))]
              /\ \A k \in 1..Len(Tried(m, n)) : all[off2[n] + k] = Ran(m, seeds, n, cfg2[n])[k]
  <2>1. CASE n = done
    <3>1. off2[n] = Len(list) /\ off2[n + 1] = Len(list) + L /\ cfg2[n] = cfg[done] /\ cfg2[n + 1] = w[L]
      BY <2>1, <1>2, <1>6
    <3>2. L = Len(Tried(m, n)) /\ w = Ran(m, seeds, n, cfg[done])
      BY <2>1 DEF w, L
    <3> QED BY <3>1, <3>2, <1>5
  <2>2. CASE n # done
    <3>1. n \in 0..(done - 1) /\ n + 1 \in 0..done
      BY <2>2
    <3>2. /\ off[n + 1] = off[n] + Len(Tried(m, n))
          /\ cfg[n + 1] = Ran(m, seeds, n, cfg[n])[Len(Tried(m, n))]
          /\ \A k \in 1..Len(Tried(m, n)) : list[off[n] + k] = Ran(m, seeds, n, cfg[n])[k]
      BY <3>1, <1>2
    <3>3. off2[n] = off[n] /\ off2[n + 1] = off[n + 1] /\ cfg2[n] = cfg[n] /\ cfg2[n + 1] = cfg[n + 1]
      BY <3>1, <1>6
    <3>4. ASSUME NEW k \in 1..Len(Tried(m, n)) PROVE off[n] + k \in 1..Len(list)
      <4>1. off[n + 1] <= Len(list) /\ off[n] \in Nat /\ off[n + 1] \in Nat /\ Len(list) \in Nat
        BY <3>1, <1>2, <1>9
      <4>2. k \in Nat /\ k >= 1 /\ off[n] + k <= off[n + 1]
        <5>1. off[n + 1] - off[n] = Len(Tried(m, n)) \/ Len(Tried(m, n)) \notin Int
          BY <3>2, <4>1
        <5>2. Len(Tried(m, n)) \in Nat
          BY <1>0
        <5> QED BY <5>1, <5>2, <3>2, <4>1
      <4> QED BY <4>1, <4>2
    <3> QED BY <3>2, <3>3, <3>4, <1>5
  <2> QED BY <2>1, <2>2
<1>11. Story(m, seeds, done + 1, all, off2, cfg2)
  <2>1. (done + 1) - 1 = done
    OBVIOUS
  <2> QED BY <2>1, <1>7, <1>8, <1>10 DEF Story
<1> QED BY <1>6, <1>11 DEF Continued, all, w, L, more

(* What every body finds is kept, and what it adds are its runs. *)
LEMMA UnmixedTemplate == ASSUME NEW m PROVE Unmixed(m, Template)
BY TemplateOK DEF Unmixed, OwnBase

LEMMA StoryStep ==
  ASSUME NEW m \in Multis, NEW seeds, NEW K \in Nat, NEW n \in Nat, n < K * BodiesPerSeed(m),
         NEW c, Unmixed(m, c), n # 0 => FeaturesOf(c, m.features[Body(m, n - 1).features])
  PROVE  LET G == Tried(m, n)
             w == Ran(m, seeds, n, c)
             at == Body(m, n)
         IN /\ Len(G) \in Nat
            /\ \A j \in 0..Len(G) : Unmixed(m, w[j]) /\ FeaturesOf(w[j], m.features[at.features])
            /\ \A j \in 1..Len(G) :
                 IsRun(m, w[j], at.features, at.state, at.agent, Valued(m.agents[at.agent], G[j]))
<1>1. PICK k \in 1..K, f \in 1..Len(m.features), s \in 1..Len(m.states), a \in 1..Len(m.agents) :
         Body(m, n) = BodyAt(k, f, s, a) /\ AgentAt(m, n) = m.agents[a]
  BY BodyIsInSearch
<1>2. Body(m, n).features = f /\ Body(m, n).state = s /\ Body(m, n).agent = a
  BY <1>1 DEF BodyAt
<1>3. (s = 1 /\ a = 1) \/ FeaturesOf(c, m.features[f])
  <2> SUFFICES ASSUME ~(s = 1 /\ a = 1) PROVE FeaturesOf(c, m.features[f])
    OBVIOUS
  <2>1. Sized(m) /\ ~(Body(m, n).state = 1 /\ Body(m, n).agent = 1)
    BY <1>2, SearchIsValid
  <2>2. n # 0 /\ Body(m, n - 1).features = Body(m, n).features
    BY <2>1, BodyBefore
  <2> QED BY <2>2, <1>2
<1> DEFINE G == Combinations(m.agents[a])
           w == Configured(ConfigAt(c, m, seeds, BodyAt(k, f, s, a)), G)
<1>4. /\ Len(G) \in Nat
      /\ \A j \in 0..Len(G) : Unmixed(m, w[j]) /\ FeaturesOf(w[j], m.features[f])
      /\ \A j \in 1..Len(G) : IsRun(m, w[j], f, s, a, Valued(m.agents[a], G[j]))
  BY <1>3, BodyRuns
<1>5. Tried(m, n) = G /\ Ran(m, seeds, n, c) = w
  BY <1>1 DEF Tried, Ran
<1> HIDE DEF G, w
<1> QED BY <1>2, <1>4, <1>5

LEMMA StoryIsUnmixed ==
  ASSUME NEW m \in Multis, NEW seeds, NEW K \in Nat, NEW done \in Nat, done <= K * BodiesPerSeed(m),
         NEW list, NEW off, NEW cfg, Story(m, seeds, done, list, off, cfg)
  PROVE  \A n \in 0..done : /\ Unmixed(m, cfg[n])
                            /\ n # 0 => FeaturesOf(cfg[n], m.features[Body(m, n - 1).features])
<1> DEFINE Good(n) == /\ Unmixed(m, cfg[n])
                      /\ n # 0 => FeaturesOf(cfg[n], m.features[Body(m, n - 1).features])
           P == {n \in 0..done : Good(n)}
<1>1. 0 \in P
  BY UnmixedTemplate DEF Story
<1>2. \A n \in 0..done : n # done /\ n \in P => n + 1 \in P
  <2> TAKE n \in 0..done
  <2> HAVE n # done /\ n \in P
  <2>1. n \in 0..(done - 1) /\ n \in Nat /\ n + 1 \in 0..done /\ n + 1 # 0 /\ (n + 1) - 1 = n /\ Good(n)
    OBVIOUS
  <2>2. n < K * BodiesPerSeed(m)
    BY <2>1, TriedIsFinite
  <2> DEFINE G == Tried(m, n)  w == Ran(m, seeds, n, cfg[n])
  <2>3. Len(G) \in Nat /\ Unmixed(m, w[Len(G)]) /\ FeaturesOf(w[Len(G)], m.features[Body(m, n).features])
    <3>1. /\ Len(G) \in Nat
          /\ \A j \in 0..Len(G) : Unmixed(m, w[j]) /\ FeaturesOf(w[j], m.features[Body(m, n).features])
      BY <2>1, <2>2, StoryStep
    <3>2. Len(G) \in 0..Len(G)
      BY <3>1
    <3> HIDE DEF G, w
    <3> QED BY <3>1, <3>2
  <2>4. cfg[n + 1] = w[Len(G)]
    BY <2>1 DEF Story
  <2> HIDE DEF w, G
  <2>5. Good(n + 1)
    BY <2>1, <2>3, <2>4
  <2> QED BY <2>1, <2>5
<1>3. 0..done \subseteq P
  <2> HIDE DEF P
  <2> QED BY <1>1, <1>2, CountUp
<1> QED BY <1>3

LEMMA StoryRuns ==
  ASSUME NEW m \in Multis, NEW seeds, NEW K \in Nat, NEW done \in Nat, done <= K * BodiesPerSeed(m),
         NEW list, NEW off, NEW cfg, Story(m, seeds, done, list, off, cfg),
         NEW n \in 0..(done - 1), NEW j \in 1..Len(Tried(m, n))
  PROVE  LET at == Body(m, n)
         IN /\ Unmixed(m, list[off[n] + j])
            /\ IsRun(m, list[off[n] + j], at.features, at.state, at.agent,
                     Valued(m.agents[at.agent], Tried(m, n)[j]))
<1>1. n \in Nat /\ n \in 0..done /\ n < K * BodiesPerSeed(m)
  BY TriedIsFinite
<1>2. Unmixed(m, cfg[n]) /\ (n # 0 => FeaturesOf(cfg[n], m.features[Body(m, n - 1).features]))
  BY <1>1, StoryIsUnmixed
<1>3. list[off[n] + j] = Ran(m, seeds, n, cfg[n])[j]
  BY DEF Story
<1> DEFINE G == Tried(m, n)  w == Ran(m, seeds, n, cfg[n])  at == Body(m, n)
<1>4. /\ Len(G) \in Nat
      /\ \A i \in 0..Len(G) : Unmixed(m, w[i]) /\ FeaturesOf(w[i], m.features[at.features])
      /\ \A i \in 1..Len(G) :
           IsRun(m, w[i], at.features, at.state, at.agent, Valued(m.agents[at.agent], G[i]))
  BY <1>1, <1>2, StoryStep
<1>5. j \in 0..Len(G)
  BY <1>4
<1> HIDE DEF w, at, G
<1> QED BY <1>3, <1>4, <1>5 DEF w, at, G

(* The list is made of the runs of the bodies, one after the other. *)
LEMMA StoryIsOrdered ==
  ASSUME NEW m \in Multis, NEW seeds, NEW K \in Nat, NEW done \in Nat, done <= K * BodiesPerSeed(m),
         NEW list, NEW off, NEW cfg, Story(m, seeds, done, list, off, cfg)
  PROVE  \A n, p \in 0..done : n <= p => off[n] <= off[p]
<1> SUFFICES ASSUME NEW n \in 0..done PROVE \A p \in 0..done : n <= p => off[n] <= off[p]
  OBVIOUS
<1> DEFINE P == {p \in 0..done : n <= p => off[n] <= off[p]}
<1>1. \A p \in 0..done : off[p] \in Nat
  BY DEF Story
<1>2. 0 \in P
  BY <1>1
<1>3. \A p \in 0..done : p # done /\ p \in P => p + 1 \in P
  <2> TAKE p \in 0..done
  <2> HAVE p # done /\ p \in P
  <2>1. p \in 0..(done - 1) /\ p + 1 \in 0..done
    OBVIOUS
  <2>2. off[p + 1] = off[p] + Len(Tried(m, p)) /\ Len(Tried(m, p)) \in Nat
    BY <2>1, TriedIsFinite DEF Story
  <2>3. off[p] \in Nat /\ off[p + 1] \in Nat /\ off[n] \in Nat
    BY <2>1, <1>1
  <2>4. n <= p + 1 => off[n] <= off[p + 1]
    <3>1. CASE n = p + 1
      BY <3>1, <2>3
    <3>2. CASE n <= p
      BY <3>2, <2>2, <2>3
    <3> QED BY <3>1, <3>2
  <2> QED BY <2>1, <2>4
<1>4. 0..done \subseteq P
  <2> HIDE DEF P
  <2> QED BY <1>2, <1>3, CountUp
<1> QED BY <1>4

Covers(m, done, list, off) ==
  /\ \A n \in 0..(done - 1) : \A j \in 1..Len(Tried(m, n)) : off[n] + j \in 1..Len(list)
  /\ \A i \in 1..Len(list) : \E n \in 0..(done - 1) : \E j \in 1..Len(Tried(m, n)) : i = off[n] + j
  /\ \A n, p \in 0..(done - 1) : \A j \in 1..Len(Tried(m, n)), l \in 1..Len(Tried(m, p)) :
       off[n] + j = off[p] + l => n = p /\ j = l

LEMMA StoryCovers ==
  ASSUME NEW m \in Multis, NEW seeds, NEW K \in Nat, NEW done \in Nat, done <= K * BodiesPerSeed(m),
         NEW list, NEW off, NEW cfg, Story(m, seeds, done, list, off, cfg)
  PROVE  Covers(m, done, list, off)
<1>1. \A n \in 0..done : off[n] \in Nat
  BY DEF Story
<1>2. \A n \in 0..(done - 1) :
        n + 1 \in 0..done /\ n \in 0..done /\ off[n + 1] = off[n] + Len(Tried(m, n)) /\ Len(Tried(m, n)) \in Nat
  BY TriedIsFinite DEF Story
<1>3. \A n, p \in 0..done : n <= p => off[n] <= off[p]
  BY StoryIsOrdered
<1>4. off[0] = 0 /\ off[done] = Len(list) /\ 0 \in 0..done /\ done \in 0..done
  BY DEF Story
<1>5. ASSUME NEW n \in 0..(done - 1), NEW j \in 1..Len(Tried(m, n)) PROVE off[n] + j \in 1..Len(list)
  <2>1. off[n + 1] <= off[done]
    BY <1>2, <1>3, <1>4
  <2>2. off[n] \in Nat /\ off[n + 1] \in Nat /\ off[n + 1] = off[n] + Len(Tried(m, n)) /\ Len(Tried(m, n)) \in Nat
        /\ off[done] \in Nat
    BY <1>1, <1>2, <1>4
  <2>3. off[n] + j <= off[done] /\ off[n] + j >= 1
    BY <2>1, <2>2
  <2> QED BY <2>2, <2>3, <1>4
<1>6. ASSUME NEW i \in 1..Len(list)
      PROVE  \E n \in 0..(done - 1) : \E j \in 1..Len(Tried(m, n)) : i = off[n] + j
  <2> DEFINE P == {p \in 0..done : i <= off[p] => \E n \in 0..(done - 1) :
                                        \E j \in 1..Len(Tried(m, n)) : i = off[n] + j}
  <2>0. i \in Nat /\ i >= 1
    BY <1>1, <1>4
  <2>1. 0 \in P
    BY <1>4, <2>0
  <2>2. \A p \in 0..done : p # done /\ p \in P => p + 1 \in P
    <3> TAKE p \in 0..done
    <3> HAVE p # done /\ p \in P
    <3>1. p \in 0..(done - 1) /\ p + 1 \in 0..done
      OBVIOUS
    <3>2. off[p + 1] = off[p] + Len(Tried(m, p)) /\ Len(Tried(m, p)) \in Nat /\ off[p] \in Nat
      BY <3>1, <1>1, <1>2
    <3> SUFFICES ASSUME i <= off[p + 1] PROVE \E n \in 0..(done - 1) : \E j \in 1..Len(Tried(m, n)) : i = off[n] + j
      BY <3>1
    <3>3. CASE i <= off[p]
      BY <3>3
    <3>4. CASE ~(i <= off[p])
      <4>1. i - off[p] \in 1..Len(Tried(m, p)) /\ i = off[p] + (i - off[p])
        BY <3>2, <3>4, <2>0
      <4> QED BY <3>1, <4>1
    <3> QED BY <3>3, <3>4
  <2>3. 0..done \subseteq P
    <3> HIDE DEF P
    <3> QED BY <2>1, <2>2, CountUp
  <2>4. done \in P /\ i <= off[done]
    <3> HIDE DEF P
    <3> QED BY <2>3, <1>1, <1>4
  <2> QED BY <2>4
<1>7. ASSUME NEW n \in 0..(done - 1), NEW p \in 0..(done - 1), n < p,
             NEW j \in 1..Len(Tried(m, n)), NEW l \in 1..Len(Tried(m, p))
      PROVE  off[n] + j < off[p] + l
  <2>1. off[n + 1] <= off[p]
    <3>1. n + 1 \in 0..done /\ p \in 0..done /\ n + 1 <= p
      BY <1>7
    <3> QED BY <3>1, <1>3
  <2>2. off[n] \in Nat /\ off[n + 1] = off[n] + Len(Tried(m, n)) /\ Len(Tried(m, n)) \in Nat /\ off[p] \in Nat
        /\ Len(Tried(m, p)) \in Nat
    BY <1>1, <1>2
  <2>3. j <= Len(Tried(m, n)) /\ l >= 1 /\ j \in Nat /\ l \in Nat
    BY <2>2
  <2> QED BY <2>1, <2>2, <2>3
<1>8. ASSUME NEW n \in 0..(done - 1), NEW p \in 0..(done - 1),
             NEW j \in 1..Len(Tried(m, n)), NEW l \in 1..Len(Tried(m, p)), off[n] + j = off[p] + l
      PROVE  n = p /\ j = l
  <2>1. off[n] \in Nat /\ off[p] \in Nat /\ j \in Nat /\ l \in Nat /\ n \in Nat /\ p \in Nat
    BY <1>1, <1>2
  <2>2. ~(n < p)
    BY <2>1, <1>7, <1>8
  <2>3. ~(p < n)
    <3>1. p < n => off[p] + l < off[n] + j
      BY <1>7
    <3> QED BY <2>1, <3>1, <1>8
  <2>4. n = p
    BY <2>1, <2>2, <2>3
  <2> QED BY <2>1, <2>4, <1>8
<1> QED BY <1>5, <1>6, <1>8 DEF Covers

LEMMA PlacedGoesOn ==
  ASSUME NEW m \in Multis, NEW seeds, NEW K \in Nat, NEW done \in Nat, done < K * BodiesPerSeed(m),
         NEW list, NEW off, NEW cfg, Story(m, seeds, done, list, off, cfg),
         NEW pl, Placed(m, done, pl, off),
         NEW off2, \A n \in 0..done : off2[n] = off[n],
         off2[done + 1] = off2[done] + Len(Tried(m, done))
  PROVE  Placed(m, done + 1, pl \o [k \in 1..Len(Tried(m, done)) |-> Body(m, done)], off2)
<1> DEFINE L == Len(Tried(m, done))
           more == [k \in 1..L |-> Body(m, done)]
           all == pl \o more
<1>1. /\ K * BodiesPerSeed(m) \in Nat /\ done + 1 \in Nat /\ done + 1 <= K * BodiesPerSeed(m)
      /\ done <= K * BodiesPerSeed(m) /\ (done + 1) - 1 = done /\ done \in 0..done
  <2>1. K * BodiesPerSeed(m) \in Nat
    BY SearchIsValid, BodiesAreMany
  <2> QED BY <2>1
<1>2. L \in Nat
  <2>1. \A n \in 0..((done + 1) - 1) : Len(Tried(m, n)) \in Nat
    BY <1>1, TriedIsFinite
  <2> QED BY <2>1, <1>1
<1>3. Covers(m, done, list, off) /\ Len(pl) = Len(list)
  <2>1. Covers(m, done, list, off)
    BY <1>1, StoryCovers
  <2>2. Len(pl) = Len(list)
    BY DEF Story, Placed
  <2> QED BY <2>1, <2>2
<1>4. PICK S : pl \in Seq(S)
  BY DEF Placed
<1> HIDE DEF L
<1> DEFINE U == S \union {Body(m, done)}
<1>5. more \in Seq(U) /\ Len(more) = L /\ pl \in Seq(U)
  <2>1. more \in [1..L -> U]
    OBVIOUS
  <2> HIDE DEF more
  <2>2. more \in Seq(U) /\ Len(more) = L
    BY <1>2, <2>1, SequenceOf
  <2>3. pl \in Seq(U)
    BY <1>4
  <2> QED BY <2>2, <2>3
<1> HIDE DEF U
<1>6. all \in Seq(U) /\ Len(all) = Len(pl) + L /\ \A i \in 1..Len(pl) : all[i] = pl[i]
  <2> HIDE DEF more
  <2> QED BY <1>2, <1>5
<1>7. \A k \in 1..L : all[Len(pl) + k] = Body(m, done)
  <2> TAKE k \in 1..L
  <2>1. Len(pl) \in Nat /\ k \in Nat /\ k >= 1 /\ k <= L
    BY <1>2, <1>5
  <2>2. all[Len(pl) + k] = more[k]
    <3> HIDE DEF more
    <3>1. Len(pl) + k \in 1..(Len(pl) + Len(more)) /\ Len(pl) + k > Len(pl) /\ (Len(pl) + k) - Len(pl) = k
      BY <2>1, <1>2, <1>5
    <3> QED BY <3>1, <1>5
  <2> QED BY <2>2
<1> HIDE DEF all, more
<1>8. off2[done] = Len(pl) /\ off2[done + 1] = Len(pl) + L
  BY <1>1 DEF Placed, L
<1>9. ASSUME NEW n \in 0..done, NEW k \in 1..Len(Tried(m, n)) PROVE all[off2[n] + k] = Body(m, n)
  <2>1. CASE n = done
    BY <2>1, <1>7, <1>8 DEF L
  <2>2. CASE n # done
    <3>1. n \in 0..(done - 1)
      BY <2>2
    <3>2. off[n] + k \in 1..Len(pl) /\ pl[off[n] + k] = Body(m, n)
      BY <3>1, <1>3 DEF Covers, Placed
    <3> QED BY <3>2, <1>6
  <2> QED BY <2>1, <2>2
<1>10. Placed(m, done + 1, all, off2)
  BY <1>1, <1>6, <1>8, <1>9 DEF Placed
<1> QED BY <1>10 DEF all, more, L

(* How many runs there are for the first n agents, and for all of them. *)
PicksUpTo(m, n) == UNION {{a} \X Picks(m.agents[a]) : a \in 1..n}
Count(m, n) == Cardinality(PicksUpTo(m, n))
Every(m) == Count(m, Len(m.agents))

LEMMA PicksCount ==
  ASSUME NEW m \in Multis
  PROVE  /\ \A n \in 0..Len(m.agents) : Count(m, n) \in Nat
         /\ Count(m, 0) = 0 /\ Every(m) \in Nat
         /\ \A n \in 0..Len(m.agents) : n # Len(m.agents) =>
              /\ Len(Combinations(m.agents[n + 1])) \in Nat
              /\ Count(m, n + 1) = Count(m, n) + Len(Combinations(m.agents[n + 1]))
<1> DEFINE A == Len(m.agents)
           P == {n \in 0..A : IsFiniteSet(PicksUpTo(m, n))}
<1>1. A \in Nat /\ \A a \in 1..A : ValidAgent(m.agents[a])
  BY SearchIsValid DEF Sized, Range
<1> HIDE DEF A
<1>2. PicksUpTo(m, 0) = {} /\ IsFiniteSet(PicksUpTo(m, 0)) /\ Count(m, 0) = 0
  <2>1. PicksUpTo(m, 0) = {}
    BY DEF PicksUpTo
  <2> QED BY <2>1, FS_EmptySet DEF Count
<1>3. ASSUME NEW n \in 0..A, n # A, IsFiniteSet(PicksUpTo(m, n))
      PROVE  /\ IsFiniteSet(PicksUpTo(m, n + 1))
             /\ Len(Combinations(m.agents[n + 1])) \in Nat
             /\ Count(m, n + 1) = Count(m, n) + Len(Combinations(m.agents[n + 1]))
  <2> DEFINE a == n + 1  T == Picks(m.agents[a])  One == {a} \X T
  <2>1. a \in 1..A /\ n \in Nat
    BY <1>1, <1>3
  <2>2. IsFiniteSet(T) /\ Cardinality(T) = Len(Combinations(m.agents[a])) /\ Cardinality(T) \in Nat
    <3>1. ValidAgent(m.agents[a])
      BY <1>1, <2>1
    <3>2. IsFiniteSet(T) /\ Cardinality(T) = Len(Combinations(m.agents[a]))
      BY <3>1, CombinationsArePicks
    <3> QED BY <3>2, FS_CardinalityType
  <2> HIDE DEF T
  <2>3. IsFiniteSet(One) /\ Cardinality(One) = Cardinality(T)
    <3>1. IsFiniteSet({a}) /\ Cardinality({a}) = 1
      BY FS_Singleton
    <3>2. IsFiniteSet(One) /\ Cardinality(One) = Cardinality({a}) * Cardinality(T)
      BY <2>2, <3>1, FS_Product
    <3> HIDE DEF One, a
    <3> QED BY <2>2, <3>1, <3>2
  <2>4. PicksUpTo(m, n + 1) = PicksUpTo(m, n) \union One
    <3>1. 1..(n + 1) = (1..n) \union {a}
      BY <2>1
    <3> HIDE DEF a
    <3>2. n + 1 = a
      BY DEF a
    <3> QED BY <3>1, <3>2 DEF PicksUpTo, T
  <2>5. PicksUpTo(m, n) \cap One = {}
    <3>1. \A x \in PicksUpTo(m, n) : x[1] \in 1..n
      BY DEF PicksUpTo
    <3>2. \A x \in One : x[1] = n + 1
      OBVIOUS
    <3>3. n + 1 \notin 1..n
      BY <2>1
    <3> HIDE DEF One
    <3> QED BY <3>1, <3>2, <3>3
  <2>6. /\ IsFiniteSet(PicksUpTo(m, n) \union One)
        /\ Cardinality(PicksUpTo(m, n) \union One) =
             Cardinality(PicksUpTo(m, n)) + Cardinality(One) - Cardinality(PicksUpTo(m, n) \cap One)
    BY <1>3, <2>3, FS_Union
  <2>7. Cardinality(PicksUpTo(m, n)) \in Nat /\ Cardinality({}) = 0
    BY <1>3, FS_CardinalityType, FS_EmptySet
  <2> HIDE DEF One, a
  <2> DEFINE x == Cardinality(PicksUpTo(m, n))  y == Cardinality(T)
  <2>8. x \in Nat /\ y \in Nat /\ Cardinality(PicksUpTo(m, n + 1)) = x + y - 0
    BY <2>2, <2>3, <2>4, <2>5, <2>6, <2>7
  <2>9. Len(Combinations(m.agents[n + 1])) = y
    BY <2>2 DEF a
  <2> HIDE DEF x, y
  <2>10. Count(m, n) = x /\ Count(m, n + 1) = x + y
    BY <2>8 DEF Count, x
  <2> QED BY <2>4, <2>6, <2>8, <2>9, <2>10
<1>4. 0..A \subseteq P
  <2>1. 0 \in P
    BY <1>1, <1>2
  <2>2. \A n \in 0..A : n # A /\ n \in P => n + 1 \in P
    <3> TAKE n \in 0..A
    <3> HAVE n # A /\ n \in P
    <3>1. IsFiniteSet(PicksUpTo(m, n)) /\ n + 1 \in 0..A
      BY <1>1
    <3> QED BY <3>1, <1>3
  <2> HIDE DEF P
  <2> QED BY <1>1, <2>1, <2>2, CountUp
<1>5. \A n \in 0..A : Count(m, n) \in Nat
  BY <1>4, FS_CardinalityType DEF Count
<1>6. Every(m) \in Nat
  BY <1>1, <1>5 DEF Every, A
<1> QED BY <1>2, <1>3, <1>4, <1>5, <1>6 DEF A

(* Where the runs of a body begin: after those of the turns of all agents before, and of the agents before. *)
IsEven(m, done, off) ==
  \A n \in 0..done : off[n] = Every(m) * (n \div Len(m.agents)) + Count(m, n % Len(m.agents))

LEMMA StoryIsEven ==
  ASSUME NEW m \in Multis, NEW seeds, NEW K \in Nat, NEW done \in Nat, done <= K * BodiesPerSeed(m),
         NEW list, NEW off, NEW cfg, Story(m, seeds, done, list, off, cfg), Len(m.agents) # 0
  PROVE  IsEven(m, done, off)
<1> DEFINE A == Len(m.agents)
           Even(n) == off[n] = Every(m) * (n \div A) + Count(m, n % A)
           P == {n \in 0..done : Even(n)}
<1>1. A \in Nat /\ A > 0
  BY SearchIsValid DEF Sized
<1>2. /\ \A n \in 0..A : Count(m, n) \in Nat
      /\ Count(m, 0) = 0 /\ Every(m) \in Nat
      /\ \A n \in 0..A : n # A =>
           /\ Len(Combinations(m.agents[n + 1])) \in Nat
           /\ Count(m, n + 1) = Count(m, n) + Len(Combinations(m.agents[n + 1]))
      /\ Every(m) = Count(m, A)
  BY PicksCount DEF Every
<1>3. \A n \in 0..(done - 1) : off[n + 1] = off[n] + Len(Combinations(m.agents[(n % A) + 1]))
  BY DEF Story, Tried, AgentAt, Body
<1>0. off[0] = 0
  BY DEF Story
<1> HIDE DEF A
<1>4. 0 \in P
  <2>1. 0 \div A = 0 /\ 0 % A = 0
    BY <1>1
  <2> QED BY <2>1, <1>2, <1>0
<1>5. \A n \in 0..done : n # done /\ n \in P => n + 1 \in P
  <2> TAKE n \in 0..done
  <2> HAVE n # done /\ n \in P
  <2> DEFINE q == n \div A  r == n % A  L == Len(Combinations(m.agents[r + 1]))  E == Every(m)
  <2>1. n \in 0..(done - 1) /\ n \in Nat /\ n + 1 \in 0..done
    OBVIOUS
  <2>2. q \in Nat /\ r \in 0..(A - 1) /\ n = A * q + r
    BY <2>1, <1>1, Divided
  <2>3. off[n] = E * q + Count(m, r) /\ off[n + 1] = off[n] + L
    BY <2>1, <1>3
  <2>4. r \in 0..A /\ r # A /\ r + 1 \in 0..A /\ r \in Nat
    BY <2>2, <1>1
  <2>5. Count(m, r + 1) = Count(m, r) + L /\ Count(m, r) \in Nat /\ Count(m, r + 1) \in Nat /\ L \in Nat
    BY <2>4, <1>2
  <2> DEFINE x == E * q
  <2>6. x \in Int /\ E \in Int
    BY <1>2, <2>2
  <2>7. CASE r + 1 # A
    <3>1. r + 1 \in 0..(A - 1) /\ n + 1 = A * q + (r + 1)
      <4> DEFINE y == A * q
      <4>1. y \in Int /\ n = y + r
        BY <1>1, <2>2
      <4> HIDE DEF q, r, y
      <4>2. r + 1 \in 0..(A - 1) /\ n + 1 = y + (r + 1)
        BY <4>1, <2>4, <2>7, <1>1
      <4> QED BY <4>2 DEF y
    <3>2. (n + 1) \div A = q /\ (n + 1) % A = r + 1
      <4> DEFINE p == r + 1
      <4>1. p \in 0..(A - 1) /\ n + 1 = A * q + p
        BY <3>1
      <4> HIDE DEF q, r, p
      <4>2. (A * q + p) \div A = q /\ (A * q + p) % A = p
        BY <4>1, <2>2, <1>1, DividedOnce
      <4> QED BY <4>1, <4>2 DEF p
    <3> HIDE DEF q, r, L, E
    <3>3. off[n + 1] = E * q + Count(m, r + 1)
      <4> HIDE DEF x
      <4>1. off[n] = x + Count(m, r)
        BY <2>3 DEF x
      <4>2. off[n + 1] = x + Count(m, r + 1)
        BY <4>1, <2>3, <2>5, <2>6
      <4> QED BY <4>2 DEF x
    <3>4. Even(n + 1)
      BY <3>2, <3>3 DEF E
    <3> QED BY <2>1, <3>4
  <2>8. CASE r + 1 = A
    <3>1. n + 1 = A * (q + 1) + 0 /\ 0 \in 0..(A - 1) /\ q + 1 \in Nat
      <4>1. A * (q + 1) = A * q + A /\ A * q \in Int
        BY <1>1, <2>2
      <4> HIDE DEF q, r
      <4> QED BY <4>1, <2>2, <2>4, <2>8, <1>1
    <3>2. (n + 1) \div A = q + 1 /\ (n + 1) % A = 0
      <4> HIDE DEF q, r
      <4> DEFINE p == q + 1
      <4>1. p \in Nat /\ n + 1 = A * p + 0 /\ 0 \in 0..(A - 1)
        BY <3>1
      <4> HIDE DEF p
      <4>2. (A * p + 0) \div A = p /\ (A * p + 0) % A = 0
        BY <4>1, <1>1, DividedOnce
      <4> QED BY <4>1, <4>2 DEF p
    <3>3. E = Count(m, r + 1)
      BY <2>8, <1>2
    <3> HIDE DEF q, r, L, E
    <3>4. off[n + 1] = E * (q + 1) + 0
      <4>1. E * (q + 1) = x + E
        BY <2>2, <2>6
      <4> HIDE DEF x
      <4>2. off[n] = x + Count(m, r)
        BY <2>3 DEF x
      <4>3. off[n + 1] = x + Count(m, r + 1)
        BY <4>2, <2>3, <2>5, <2>6
      <4> QED BY <4>1, <4>3, <3>3, <2>6
    <3>5. Even(n + 1)
      BY <3>2, <3>4, <1>2 DEF E
    <3> QED BY <2>1, <3>5
  <2> QED BY <2>7, <2>8
<1>6. 0..done \subseteq P
  <2> HIDE DEF P
  <2> QED BY <1>4, <1>5, CountUp
<1> QED BY <1>6 DEF A, IsEven

(* So many runs there are for a seed. *)
PerSeed(m) == Len(m.features) * (Len(m.states) * Every(m))

LEMMA StoryPerSeed ==
  ASSUME NEW m \in Multis, NEW seeds, NEW K \in Nat, NEW done \in Nat, done <= K * BodiesPerSeed(m),
         NEW list, NEW off, NEW cfg, Story(m, seeds, done, list, off, cfg)
  PROVE  /\ PerSeed(m) \in Nat
         /\ \A n \in 0..done : n + BodiesPerSeed(m) \in 0..done => off[n + BodiesPerSeed(m)] = off[n] + PerSeed(m)
         /\ done = K * BodiesPerSeed(m) => Len(list) = K * PerSeed(m)
<1> DEFINE F == Len(m.features)  S == Len(m.states)  A == Len(m.agents)  E == Every(m)  B == BodiesPerSeed(m)
<1>1. F \in Nat /\ S \in Nat /\ A \in Nat /\ E \in Nat
  BY SearchIsValid, PicksCount DEF Sized
<1>2. B = F * (S * A) /\ PerSeed(m) = F * (S * E)
  BY DEF BodiesPerSeed, PerSeed
<1>3. off[0] = 0 /\ off[done] = Len(list) /\ (\A n \in 0..done : off[n] \in Nat)
  BY DEF Story
<1>4. A # 0 => \A n \in 0..done : off[n] = E * (n \div A) + Count(m, n % A)
  <2> HIDE DEF F, S, B
  <2>1. A # 0 => IsEven(m, done, off)
    BY StoryIsEven
  <2> QED BY <2>1 DEF IsEven
<1>5. \A n \in 0..A : Count(m, n) \in Nat
  BY PicksCount
<1>6. Count(m, 0) = 0 /\ (A = 0 => E = 0)
  BY PicksCount DEF Every
<1> HIDE DEF F, S, A, E, B
<1>7. PerSeed(m) \in Nat /\ F * S \in Nat
  <2>1. F * (S * E) \in Nat /\ F * S \in Nat
    BY <1>1
  <2> QED BY <2>1, <1>2
<1>8. B = A * (F * S) /\ PerSeed(m) = E * (F * S) /\ K * PerSeed(m) = E * (K * (F * S)) /\ K * B = A * (K * (F * S))
      /\ K * (F * S) \in Nat
  <2> DEFINE fs == F * S
  <2>1. F * (S * A) = A * fs /\ F * (S * E) = E * fs
    BY <1>1
  <2>2. fs \in Nat
    BY <1>7
  <2> HIDE DEF fs
  <2>3. K * (A * fs) = A * (K * fs) /\ K * (E * fs) = E * (K * fs) /\ K * fs \in Nat
    BY <2>2, <1>1
  <2> QED BY <2>1, <2>3, <1>2 DEF fs
<1>9. CASE A = 0
  <2>1. B = 0 /\ K * B = 0 /\ E = 0 /\ PerSeed(m) = 0 /\ K * PerSeed(m) = 0
    BY <1>9, <1>6, <1>7, <1>8
  <2>2. done = 0
    BY <2>1 DEF B
  <2> QED BY <2>1, <2>2, <1>3, <1>7 DEF B
<1>10. CASE A # 0
  <2> DEFINE fs == F * S
  <2>0. fs \in Nat /\ B = A * fs /\ PerSeed(m) = E * fs /\ A > 0
    BY <1>1, <1>7, <1>8, <1>10
  <2>1. ASSUME NEW n \in 0..done, n + B \in 0..done PROVE off[n + B] = off[n] + PerSeed(m)
    <3> DEFINE q == n \div A  r == n % A
    <3>1. q \in Nat /\ r \in 0..(A - 1) /\ n = A * q + r /\ r \in 0..A
      <4>1. q \in Nat /\ r \in 0..(A - 1) /\ n = A * q + r
        BY <2>0, <1>1, Divided
      <4> HIDE DEF q, r
      <4> QED BY <4>1, <1>1
    <3>2. off[n] = E * q + Count(m, r)
      BY <1>4, <1>10
    <3>3. off[n + B] = E * ((n + B) \div A) + Count(m, (n + B) % A)
      BY <1>4, <1>10, <2>1
    <3> HIDE DEF q, r, fs
    <3>4. n + B = A * (q + fs) + r /\ q + fs \in Nat
      <4>1. A * (q + fs) = A * q + A * fs /\ A * q \in Int /\ A * fs \in Int
        BY <1>1, <2>0, <3>1
      <4>2. n = A * q + r /\ B = A * fs
        BY <2>0, <3>1
      <4> DEFINE x == A * q  y == A * fs
      <4>3. x \in Int /\ y \in Int /\ A * (q + fs) = x + y /\ n = x + r /\ B = y
        BY <4>1, <4>2
      <4> HIDE DEF x, y
      <4>4. n + B = (x + y) + r
        BY <4>3, <3>1
      <4> QED BY <4>3, <4>4, <2>0, <3>1
    <3>5. (n + B) \div A = q + fs /\ (n + B) % A = r
      <4> DEFINE p == q + fs
      <4>1. p \in Nat /\ n + B = A * p + r
        BY <3>4
      <4> HIDE DEF p
      <4>2. (A * p + r) \div A = p /\ (A * p + r) % A = r
        BY <4>1, <3>1, <2>0, <1>1, DividedOnce
      <4> QED BY <4>1, <4>2 DEF p
    <3>6. E * (q + fs) = E * q + E * fs /\ E * q \in Int /\ E * fs \in Int
      BY <1>1, <2>0, <3>1
    <3>7. off[n + B] = E * (q + fs) + Count(m, r)
      BY <3>3, <3>5
    <3> DEFINE x == E * q  y == E * fs  z == Count(m, r)
    <3>8. x \in Int /\ y \in Int /\ z \in Int /\ off[n] = x + z /\ off[n + B] = (x + y) + z /\ PerSeed(m) = y
      BY <3>1, <3>2, <3>6, <3>7, <1>5, <2>0
    <3> HIDE DEF x, y, z
    <3> QED BY <3>8
  <2>2. ASSUME done = K * B PROVE Len(list) = K * PerSeed(m)
    <3> DEFINE p == K * (F * S)
    <3>1. p \in Nat /\ done = A * p + 0 /\ 0 \in 0..(A - 1) /\ K * PerSeed(m) = E * p
      <4>1. p \in Nat /\ A * p \in Int /\ done = A * p /\ K * PerSeed(m) = E * p
        BY <1>1, <1>8, <2>2
      <4> HIDE DEF p
      <4> QED BY <4>1, <2>0, <1>1
    <3> HIDE DEF p
    <3>2. (A * p + 0) \div A = p /\ (A * p + 0) % A = 0
      BY <3>1, <2>0, <1>1, DividedOnce
    <3>3. off[done] = E * p + Count(m, 0)
      <4>1. done \in 0..done /\ done \div A = p /\ done % A = 0
        BY <3>1, <3>2
      <4> QED BY <4>1, <1>4, <1>10
    <3>4. E * p \in Int
      BY <1>1, <3>1
    <3> QED BY <3>1, <3>3, <3>4, <1>3, <1>6
  <2> HIDE DEF fs
  <2> QED BY <1>7, <2>1, <2>2 DEF B
<1> QED BY <1>9, <1>10

-----------------------------------------------------------------------------
(* What is there when everything is generated. *)
Told(m, seeds, K, list, off, cfg) ==
  /\ m \in Multis /\ K \in Nat /\ DOMAIN list = 1..Len(list)
  /\ K * BodiesPerSeed(m) \in Nat /\ Story(m, seeds, K * BodiesPerSeed(m), list, off, cfg)

(* Every run is one of a body. *)
RunAt(m, list, off, i, k, f, s, a) ==
  LET G == Combinations(m.agents[a])
  IN \E j \in 1..Len(G) : /\ i = off[Position(m, k, f, s, a)] + j
                          /\ IsRun(m, list[i], f, s, a, Valued(m.agents[a], G[j]))

LEMMA EveryRun ==
  ASSUME NEW m, NEW seeds, NEW K, NEW list, NEW off, NEW cfg, Told(m, seeds, K, list, off, cfg),
         NEW i \in DOMAIN list
  PROVE  \E k \in 1..K, f \in 1..Len(m.features), s \in 1..Len(m.states), a \in 1..Len(m.agents) :
           RunAt(m, list, off, i, k, f, s, a)
<1> DEFINE done == K * BodiesPerSeed(m)
<1>1. m \in Multis /\ K \in Nat /\ DOMAIN list = 1..Len(list) /\ done \in Nat /\ Story(m, seeds, done, list, off, cfg)
      /\ done <= K * BodiesPerSeed(m)
  BY DEF Told
<1>2. PICK n \in 0..(done - 1) : \E j \in 1..Len(Tried(m, n)) : i = off[n] + j
  <2> HIDE DEF done
  <2>1. Covers(m, done, list, off)
    BY <1>1, StoryCovers
  <2> QED BY <2>1, <1>1 DEF Covers
<1>3. PICK j \in 1..Len(Tried(m, n)) : i = off[n] + j
  BY <1>2
<1>4. n \in Nat /\ n < K * BodiesPerSeed(m)
  <2> HIDE DEF done
  <2> QED BY <1>1, TriedIsFinite
<1>5. PICK k \in 1..K, f \in 1..Len(m.features), s \in 1..Len(m.states), a \in 1..Len(m.agents) :
        /\ Body(m, n) = BodyAt(k, f, s, a) /\ n = Position(m, k, f, s, a)
        /\ AgentAt(m, n) = m.agents[a]
  BY <1>1, <1>4, BodyIsInSearch
<1>6. LET at == Body(m, n)
      IN IsRun(m, list[off[n] + j], at.features, at.state, at.agent, Valued(m.agents[at.agent], Tried(m, n)[j]))
  <2> HIDE DEF done
  <2> QED BY <1>1, StoryRuns
<1>7. Body(m, n).features = f /\ Body(m, n).state = s /\ Body(m, n).agent = a
  BY <1>5 DEF BodyAt
<1>8. Tried(m, n) = Combinations(m.agents[a])
  BY <1>5 DEF Tried
<1>9. RunAt(m, list, off, i, k, f, s, a)
  BY <1>3, <1>5, <1>6, <1>7, <1>8 DEF RunAt
<1> QED BY <1>9

(* For every body there are its runs. *)
LEMMA EveryBody ==
  ASSUME NEW m, NEW seeds, NEW K, NEW list, NEW off, NEW cfg, Told(m, seeds, K, list, off, cfg),
         NEW k \in 1..K, NEW f \in 1..Len(m.features), NEW s \in 1..Len(m.states), NEW a \in 1..Len(m.agents)
  PROVE  LET n == Position(m, k, f, s, a)
             G == Combinations(m.agents[a])
         IN /\ n \in 0..(K * BodiesPerSeed(m) - 1) /\ Body(m, n) = BodyAt(k, f, s, a) /\ Tried(m, n) = G
            /\ \A j \in 1..Len(G) : /\ off[n] + j \in DOMAIN list
                                    /\ IsRun(m, list[off[n] + j], f, s, a, Valued(m.agents[a], G[j]))
<1> DEFINE done == K * BodiesPerSeed(m)
           n == Position(m, k, f, s, a)
           G == Combinations(m.agents[a])
<1>1. m \in Multis /\ K \in Nat /\ DOMAIN list = 1..Len(list) /\ done \in Nat /\ Story(m, seeds, done, list, off, cfg)
      /\ done <= K * BodiesPerSeed(m)
  BY DEF Told
<1>2. Sized(m)
  BY <1>1, SearchIsValid
<1>3. n \in 0..(done - 1) /\ Body(m, n) = BodyAt(k, f, s, a)
  BY <1>1, <1>2, PositionIsBody
<1>4. Tried(m, n) = G /\ Body(m, n).features = f /\ Body(m, n).state = s /\ Body(m, n).agent = a
  BY <1>3 DEF Tried, AgentAt, BodyAt
<1> HIDE DEF n, done, G
<1>5. ASSUME NEW j \in 1..Len(G)
      PROVE  off[n] + j \in DOMAIN list /\ IsRun(m, list[off[n] + j], f, s, a, Valued(m.agents[a], G[j]))
  <2>1. j \in 1..Len(Tried(m, n))
    BY <1>4
  <2>2. off[n] + j \in 1..Len(list)
    BY <2>1, <1>1, <1>3, StoryCovers DEF Covers
  <2>3. LET at == Body(m, n)
        IN IsRun(m, list[off[n] + j], at.features, at.state, at.agent, Valued(m.agents[at.agent], Tried(m, n)[j]))
    BY <2>1, <1>1, <1>3, StoryRuns
  <2> QED BY <2>2, <2>3, <1>1, <1>4
<1> QED BY <1>3, <1>4, <1>5 DEF n, done, G

(* Its place tells the body of a run. *)
Charted(m, seeds, K, list, off, cfg, pl) ==
  Told(m, seeds, K, list, off, cfg) /\ Placed(m, K * BodiesPerSeed(m), pl, off)
Chart(m, K, list, off, pl) ==
  \A i : \A k \in 1..K, f \in 1..Len(m.features), s \in 1..Len(m.states), a \in 1..Len(m.agents) :
     RunAt(m, list, off, i, k, f, s, a) => pl[i] = BodyAt(k, f, s, a)

LEMMA PlaceOfRun ==
  ASSUME NEW m, NEW seeds, NEW K, NEW list, NEW off, NEW cfg, NEW pl,
         Charted(m, seeds, K, list, off, cfg, pl)
  PROVE  Chart(m, K, list, off, pl)
<1> SUFFICES ASSUME NEW i, NEW k \in 1..K, NEW f \in 1..Len(m.features), NEW s \in 1..Len(m.states),
                    NEW a \in 1..Len(m.agents), RunAt(m, list, off, i, k, f, s, a)
             PROVE  pl[i] = BodyAt(k, f, s, a)
  BY DEF Chart
<1> DEFINE n == Position(m, k, f, s, a)  G == Combinations(m.agents[a])
<1>1. PICK j \in 1..Len(G) : i = off[n] + j
  BY DEF RunAt
<1>2. n \in 0..(K * BodiesPerSeed(m) - 1) /\ Body(m, n) = BodyAt(k, f, s, a) /\ Tried(m, n) = G
  BY EveryBody DEF Charted
<1>3. \A p \in 0..(K * BodiesPerSeed(m) - 1) : \A q \in 1..Len(Tried(m, p)) : pl[off[p] + q] = Body(m, p)
  BY DEF Charted, Placed
<1> HIDE DEF n, G
<1> QED BY <1>1, <1>2, <1>3

LEMMA OwnFromStory ==
  ASSUME NEW m, NEW seeds, NEW K, NEW list, NEW off, NEW cfg, NEW pl,
         Charted(m, seeds, K, list, off, cfg, pl), NEW i \in DOMAIN list
  PROVE  OwnRun(m, list[i], m.agents[pl[i].agent])
<1>1. PICK k \in 1..K, f \in 1..Len(m.features), s \in 1..Len(m.states), a \in 1..Len(m.agents) :
        RunAt(m, list, off, i, k, f, s, a)
  BY EveryRun DEF Charted
<1>2. pl[i].agent = a
  <2>1. Chart(m, K, list, off, pl)
    BY PlaceOfRun
  <2>2. pl[i] = BodyAt(k, f, s, a)
    BY <1>1, <2>1 DEF Chart
  <2> QED BY <2>2 DEF BodyAt
<1>3. OwnRun(m, list[i], m.agents[a])
  BY <1>1 DEF RunAt, IsRun
<1> QED BY <1>2, <1>3

(* The run of a body for a choice of values: there is one. *)
LEMMA RunOfChoice ==
  ASSUME NEW m, NEW seeds, NEW K, NEW off, NEW cfg, Charted(m, seeds, K, runs, off, cfg, places),
         NEW k \in 1..K, NEW f \in 1..Len(m.features), NEW s \in 1..Len(m.states),
         NEW a \in 1..Len(m.agents), NEW v \in Picks(m.agents[a])
  PROVE  Cardinality(RunsOf(m, BodyAt(k, f, s, a), v)) = 1
<1> DEFINE agent == m.agents[a]
           at == BodyAt(k, f, s, a)
           G == Combinations(agent)
           R == RunsOf(m, at, v)
           n == Position(m, k, f, s, a)
<1>0. Told(m, seeds, K, runs, off, cfg)
  BY DEF Charted
<1>1. m \in Multis
  BY <1>0 DEF Told
<1>2. ValidAgent(agent)
  BY <1>1, SearchIsValid DEF Range
<1>3. /\ \E j \in 1..Len(G) : Valued(agent, G[j]) = v
      /\ \A j, l \in 1..Len(G) : Valued(agent, G[j]) = Valued(agent, G[l]) => j = l
  <2> HIDE DEF agent
  <2>1. v \in Picks(agent)
    BY DEF agent
  <2> QED BY <1>2, <2>1, CombinationsArePicks
<1>4. PICK j \in 1..Len(G) : Valued(agent, G[j]) = v
  BY <1>3
<1>5. at.agent = a /\ at.state = s /\ at.features = f
  BY DEF BodyAt
<1> DEFINE i0 == off[n] + j
<1>6. Chart(m, K, runs, off, places)
  BY PlaceOfRun
<1>7. i0 \in R
  <2>1. \A l \in 1..Len(G) : /\ off[n] + l \in DOMAIN runs
                             /\ IsRun(m, runs[off[n] + l], f, s, a, Valued(agent, G[l]))
    BY <1>0, EveryBody
  <2>2. i0 \in DOMAIN runs /\ IsRun(m, runs[i0], f, s, a, v)
    <3> HIDE DEF G, agent, n
    <3> QED BY <2>1, <1>4
  <2>3. RunAt(m, runs, off, i0, k, f, s, a)
    BY <2>2, <1>4 DEF RunAt
  <2>4. places[i0] = at
    <3> HIDE DEF i0
    <3>1. places[i0] = BodyAt(k, f, s, a)
      BY <2>3, <1>6 DEF Chart
    <3> QED BY <3>1
  <2> HIDE DEF i0, at
  <2> QED BY <2>2, <2>4, <1>5 DEF RunsOf, IsRun, FeaturesOf
<1>8. ASSUME NEW i \in R PROVE i = i0
  <2>1. /\ i \in DOMAIN runs /\ places[i] = at
        /\ \A l \in DOMAIN agent.parameters : Held(runs[i], agent.parameters[l]) = v[l]
    <3> HIDE DEF at
    <3> QED BY <1>5 DEF RunsOf
  <2>2. PICK k2 \in 1..K, f2 \in 1..Len(m.features), s2 \in 1..Len(m.states), a2 \in 1..Len(m.agents) :
          RunAt(m, runs, off, i, k2, f2, s2, a2)
    BY <1>0, <2>1, EveryRun
  <2>3. BodyAt(k2, f2, s2, a2) = at
    <3>1. places[i] = BodyAt(k2, f2, s2, a2)
      BY <2>2, <1>6 DEF Chart
    <3> QED BY <2>1, <3>1
  <2>4. k2 = k /\ f2 = f /\ s2 = s /\ a2 = a
    BY <2>3 DEF BodyAt
  <2>5. RunAt(m, runs, off, i, k, f, s, a)
    BY <2>2, <2>4
  <2>6. PICK l \in 1..Len(G) : i = off[n] + l /\ IsRun(m, runs[i], f, s, a, Valued(agent, G[l]))
    BY <2>5 DEF RunAt
  <2>7. Valued(agent, G[l]) = v
    <3> DEFINE u == Valued(agent, G[l])
    <3>1. \A x \in DOMAIN agent.parameters : u[x] = v[x]
      <4> HIDE DEF u
      <4>1. \A x \in DOMAIN agent.parameters : Held(runs[i], agent.parameters[x]) = u[x]
        BY <2>6 DEF IsRun, u
      <4> QED BY <4>1, <2>1
    <3>2. v \in [DOMAIN agent.parameters -> UNION {Declared(p) : p \in Range(agent.parameters)}]
      BY DEF Picks
    <3>3. u = [x \in DOMAIN agent.parameters |-> u[x]]
      BY DEF Valued
    <3>4. v = [x \in DOMAIN agent.parameters |-> v[x]]
      <4> HIDE DEF agent
      <4> QED BY <3>2
    <3> HIDE DEF agent, G, u
    <3> QED BY <3>1, <3>3, <3>4 DEF u
  <2>8. l = j
    <3> HIDE DEF agent, G
    <3> QED BY <2>6, <2>7, <1>3, <1>4
  <2> QED BY <2>6, <2>8
<1> HIDE DEF i0, R
<1>9. R = {i0}
  BY <1>7, <1>8
<1>10. Cardinality({i0}) = 1
  BY FS_Singleton
<1> QED BY <1>9, <1>10 DEF R

(* A body of the next seed adds runs like those of this one. *)
LEMMA FirstBody ==
  ASSUME NEW m, Sized(m), Len(m.features) # 0, Len(m.states) # 0, Len(m.agents) # 0
  PROVE  Body(m, 0) = BodyAt(1, 1, 1, 1)
<1> DEFINE F == Len(m.features)  S == Len(m.states)  A == Len(m.agents)
<1>1. F \in Nat /\ S \in Nat /\ A \in Nat /\ F > 0 /\ S > 0 /\ A > 0
  BY DEF Sized
<1>2. Body(m, 0) = BodyAt((((0 \div A) \div S) \div F) + 1, (((0 \div A) \div S) % F) + 1, ((0 \div A) % S) + 1, (0 % A) + 1)
  BY DEF Body, BodyAt
<1> HIDE DEF F, S, A
<1>3. 0 \div A = 0 /\ 0 % A = 0 /\ 0 \div S = 0 /\ 0 % S = 0 /\ 0 \div F = 0 /\ 0 % F = 0
  BY <1>1
<1> QED BY <1>2, <1>3

LEMMA AlikeBody ==
  ASSUME NEW m \in Multis, NEW seeds, NEW K \in Nat, NEW n \in Nat, n < K * BodiesPerSeed(m),
         NEW c, NEW d, Unmixed(m, c), Unmixed(m, d), n = 0 \/ Alike(c, d)
  PROVE  LET p == n + BodiesPerSeed(m)
         IN /\ Tried(m, p) = Tried(m, n) /\ Len(Tried(m, n)) \in Nat
            /\ \A j \in 0..Len(Tried(m, n)) : Alike(Ran(m, seeds, n, c)[j], Ran(m, seeds, p, d)[j])
<1> DEFINE p == n + BodiesPerSeed(m)
<1>1. PICK k \in 1..K, f \in 1..Len(m.features), s \in 1..Len(m.states), a \in 1..Len(m.agents) :
        /\ Body(m, n) = BodyAt(k, f, s, a) /\ n = Position(m, k, f, s, a)
        /\ AgentAt(m, n) = m.agents[a] /\ ValidAgent(m.agents[a])
  BY BodyIsInSearch
<1>2. Sized(m)
  BY SearchIsValid
<1>3. k \in Nat /\ f \in Nat /\ s \in Nat /\ a \in Nat /\ k + 1 \in 1..(K + 1) /\ K + 1 \in Nat
  BY <1>2 DEF Sized
<1>4. p = Position(m, k + 1, f, s, a)
  BY <1>1, <1>2, <1>3, NextSeed
<1>5. Body(m, p) = BodyAt(k + 1, f, s, a)
  <2> DEFINE x == k + 1
  <2>1. x \in 1..(K + 1) /\ p = Position(m, x, f, s, a)
    BY <1>3, <1>4
  <2> HIDE DEF x, p
  <2>2. Body(m, p) = BodyAt(x, f, s, a)
    BY <2>1, <1>2, <1>3, PositionIsBody
  <2> QED BY <2>2 DEF x
<1> HIDE DEF p
<1> DEFINE G == Combinations(m.agents[a])
           cc == ConfigAt(c, m, seeds, BodyAt(k, f, s, a))
           dd == ConfigAt(d, m, seeds, BodyAt(k + 1, f, s, a))
<1>6. Tried(m, n) = G /\ Tried(m, p) = G
  BY <1>1, <1>5 DEF Tried, AgentAt, BodyAt
<1>7. Ran(m, seeds, n, c) = Configured(cc, G) /\ Ran(m, seeds, p, d) = Configured(dd, G)
  BY <1>1, <1>5, <1>6 DEF Ran
<1>8. Alike(c, d) \/ (f = 1 /\ s = 1 /\ a = 1)
  <2> SUFFICES ASSUME n = 0 PROVE f = 1 /\ s = 1 /\ a = 1
    OBVIOUS
  <2>1. Len(m.features) # 0 /\ Len(m.states) # 0 /\ Len(m.agents) # 0
    BY <1>2 DEF Sized
  <2>2. BodyAt(k, f, s, a) = BodyAt(1, 1, 1, 1)
    BY <2>1, <1>1, <1>2, FirstBody
  <2> QED BY <2>2 DEF BodyAt
<1>9. ConfigOK(c) /\ ConfigOK(d)
  BY DEF Unmixed
<1>10. Alike(cc, dd)
  BY <1>8, <1>9, ConfigAtAlike
<1>11. Len(G) \in Nat /\ \A x \in 1..Len(G) : Len(G[x]) \in Nat
  <2> DEFINE agent == m.agents[a]
  <2>1. ValidAgent(agent)
    BY <1>1
  <2> HIDE DEF agent
  <2>2. LET H == Combinations(agent)
        IN Len(H) \in Nat /\ Len(agent.parameters) \in Nat /\ \A x \in 1..Len(H) : Len(H[x]) = Len(agent.parameters)
    BY <2>1, CombinationsArePicks
  <2> QED BY <2>2 DEF agent
<1> HIDE DEF G, cc, dd
<1>12. \A j \in 0..Len(G) : Alike(Configured(cc, G)[j], Configured(dd, G)[j])
  BY <1>10, <1>11, ConfiguredAlike
<1> QED BY <1>6, <1>7, <1>11, <1>12 DEF p

LEMMA StoryRepeats ==
  ASSUME NEW m \in Multis, NEW seeds, NEW K \in Nat, NEW done \in Nat, done <= K * BodiesPerSeed(m),
         NEW list, NEW off, NEW cfg, Story(m, seeds, done, list, off, cfg)
  PROVE  \A n \in 0..done : n + BodiesPerSeed(m) \in 0..done =>
            n = 0 \/ Alike(cfg[n], cfg[n + BodiesPerSeed(m)])
<1> DEFINE B == BodiesPerSeed(m)
           P == {n \in 0..done : n + B \in 0..done => n = 0 \/ Alike(cfg[n], cfg[n + B])}
<1>0. B \in Nat /\ K * B \in Nat
  BY SearchIsValid, BodiesAreMany
<1>1. 0 \in P
  OBVIOUS
<1>2. \A n \in 0..done : n # done /\ n \in P => n + 1 \in P
  <2> TAKE n \in 0..done
  <2> HAVE n # done /\ n \in P
  <2> SUFFICES ASSUME (n + 1) + B \in 0..done PROVE Alike(cfg[n + 1], cfg[(n + 1) + B])
    OBVIOUS
  <2> HIDE DEF B
  <2> DEFINE p == n + B
  <2>1. n \in Nat /\ p \in 0..(done - 1) /\ n \in 0..(done - 1) /\ (n + 1) + B = p + 1 /\ p \in 0..done
    BY <1>0
  <2>2. n = 0 \/ Alike(cfg[n], cfg[p])
    BY <2>1
  <2> HIDE DEF p
  <2>3. Unmixed(m, cfg[n]) /\ Unmixed(m, cfg[p])
    BY <2>1, StoryIsUnmixed
  <2>4. n < K * BodiesPerSeed(m)
    BY <2>1, TriedIsFinite
  <2>5. /\ Tried(m, p) = Tried(m, n) /\ Len(Tried(m, n)) \in Nat
        /\ \A j \in 0..Len(Tried(m, n)) : Alike(Ran(m, seeds, n, cfg[n])[j], Ran(m, seeds, p, cfg[p])[j])
    <3> DEFINE c == cfg[n]  d == cfg[p]
    <3>1. Unmixed(m, c) /\ Unmixed(m, d) /\ (n = 0 \/ Alike(c, d)) /\ p = n + BodiesPerSeed(m) /\ n \in Nat
      BY <2>1, <2>2, <2>3 DEF p, B
    <3> HIDE DEF c, d
    <3>2. /\ Tried(m, p) = Tried(m, n) /\ Len(Tried(m, n)) \in Nat
          /\ \A j \in 0..Len(Tried(m, n)) : Alike(Ran(m, seeds, n, c)[j], Ran(m, seeds, p, d)[j])
      BY <3>1, <2>4, AlikeBody
    <3> QED BY <3>2 DEF c, d
  <2>6. /\ cfg[n + 1] = Ran(m, seeds, n, cfg[n])[Len(Tried(m, n))]
        /\ cfg[p + 1] = Ran(m, seeds, p, cfg[p])[Len(Tried(m, p))]
    BY <2>1 DEF Story
  <2>7. Len(Tried(m, n)) \in 0..Len(Tried(m, n))
    BY <2>5
  <2>8. Alike(cfg[n + 1], cfg[p + 1])
    BY <2>5, <2>6, <2>7
  <2> QED BY <2>1, <2>8
<1>3. 0..done \subseteq P
  <2> HIDE DEF P
  <2> QED BY <1>1, <1>2, CountUp
<1> QED BY <1>3

LEMMA SameFromStory ==
  ASSUME NEW m, NEW seeds, NEW K, NEW list, NEW off, NEW cfg, Told(m, seeds, K, list, off, cfg), K > 0,
         NEW i \in 1..(Len(list) - PerSeed(m))
  PROVE  Alike(list[i], list[i + PerSeed(m)])
<1> DEFINE done == K * BodiesPerSeed(m)  B == BodiesPerSeed(m)  L == PerSeed(m)
<1>1. /\ m \in Multis /\ K \in Nat /\ DOMAIN list = 1..Len(list) /\ done \in Nat
      /\ Story(m, seeds, done, list, off, cfg) /\ done <= K * BodiesPerSeed(m)
  BY DEF Told
<1>2. B \in Nat /\ L \in Nat /\ Len(list) \in Nat /\ done \in 0..done /\ off[done] = Len(list)
      /\ (\A n \in 0..done : off[n] \in Nat)
  <2>1. B \in Nat
    BY <1>1, SearchIsValid, BodiesAreMany
  <2>2. L \in Nat
    <3> HIDE DEF done, B
    <3> QED BY <1>1, StoryPerSeed
  <2>3. (\A n \in 0..done : off[n] \in Nat) /\ off[done] = Len(list) /\ done \in 0..done
    <3> HIDE DEF done, B, L
    <3> QED BY <1>1 DEF Story
  <2> HIDE DEF done, B, L
  <2> QED BY <2>1, <2>2, <2>3
<1>3. \A n \in 0..done : n + B \in 0..done => off[n + B] = off[n] + L
  <2> HIDE DEF done
  <2> QED BY <1>1, StoryPerSeed
<1>4. B <= done
  <2>1. K * B = B + (K - 1) * B /\ (K - 1) * B >= 0
    <3> HIDE DEF B, L
    <3>1. K - 1 \in Nat
      BY <1>1
    <3>2. (K - 1) * B \in Nat
      BY <3>1, <1>2
    <3>3. K * B = (1 + (K - 1)) * B
      BY <1>1
    <3>4. (1 + (K - 1)) * B = B + (K - 1) * B
      BY <3>1, <1>2
    <3> QED BY <3>2, <3>3, <3>4
  <2> DEFINE x == (K - 1) * B
  <2>2. x \in Int
    <3> HIDE DEF B
    <3> QED BY <1>1, <1>2
  <2>3. done = B + x /\ x >= 0
    BY <2>1
  <2> HIDE DEF x, done, B
  <2> QED BY <2>2, <2>3, <1>2
<1> HIDE DEF done
<1>5. Covers(m, done, list, off)
  BY <1>1, StoryCovers
<1> HIDE DEF L, B
<1>6. i \in 1..Len(list) /\ i <= Len(list) - L /\ i \in Nat
  BY <1>2 DEF L
<1>7. PICK n \in 0..(done - 1) : \E j \in 1..Len(Tried(m, n)) : i = off[n] + j
  BY <1>5, <1>6 DEF Covers
<1>8. PICK j \in 1..Len(Tried(m, n)) : i = off[n] + j
  BY <1>7
<1>9. n \in Nat /\ n \in 0..done /\ n < K * BodiesPerSeed(m) /\ Len(Tried(m, n)) \in Nat /\ off[n] \in Nat
  BY <1>1, <1>2, TriedIsFinite
<1>10. n + B \in 0..(done - 1)
  <2> SUFFICES ASSUME ~(n + B < done) PROVE FALSE
    BY <1>1, <1>2, <1>9
  <2> DEFINE p == done - B
  <2>1. p \in 0..done /\ p + B = done /\ p <= n
    BY <1>1, <1>2, <1>4, <1>9
  <2>2. off[done] = off[p] + L /\ off[p] \in Nat
    BY <2>1, <1>2, <1>3
  <2> HIDE DEF p
  <2>3. off[p] <= off[n]
    BY <2>1, <1>1, <1>9, StoryIsOrdered
  <2> QED BY <2>2, <2>3, <1>2, <1>6, <1>8, <1>9
<1> DEFINE p == n + B
<1>11. p \in 0..(done - 1) /\ p \in 0..done /\ off[p] = off[n] + L
  BY <1>1, <1>3, <1>9, <1>10
<1>12. n = 0 \/ Alike(cfg[n], cfg[p])
  <2>1. p = n + BodiesPerSeed(m)
    BY DEF B
  <2> HIDE DEF p
  <2> QED BY <2>1, <1>1, <1>9, <1>11, StoryRepeats
<1>13. Unmixed(m, cfg[n]) /\ Unmixed(m, cfg[p])
  <2> HIDE DEF p
  <2> QED BY <1>1, <1>9, <1>11, StoryIsUnmixed
<1>14. /\ Tried(m, p) = Tried(m, n)
       /\ \A x \in 0..Len(Tried(m, n)) : Alike(Ran(m, seeds, n, cfg[n])[x], Ran(m, seeds, p, cfg[p])[x])
  <2> DEFINE c == cfg[n]  d == cfg[p]
  <2>1. Unmixed(m, c) /\ Unmixed(m, d) /\ (n = 0 \/ Alike(c, d)) /\ p = n + BodiesPerSeed(m)
    BY <1>12, <1>13 DEF B
  <2> HIDE DEF c, d, p
  <2>2. /\ Tried(m, p) = Tried(m, n)
        /\ \A x \in 0..Len(Tried(m, n)) : Alike(Ran(m, seeds, n, c)[x], Ran(m, seeds, p, d)[x])
    BY <2>1, <1>1, <1>9, AlikeBody
  <2> QED BY <2>2 DEF c, d
<1> HIDE DEF p
<1>15. j \in 0..Len(Tried(m, n)) /\ j \in 1..Len(Tried(m, p)) /\ j \in Nat
  BY <1>9, <1>14
<1>16. list[off[n] + j] = Ran(m, seeds, n, cfg[n])[j] /\ list[off[p] + j] = Ran(m, seeds, p, cfg[p])[j]
  BY <1>1, <1>11, <1>15 DEF Story
<1>17. i + L = off[p] + j
  BY <1>2, <1>8, <1>9, <1>11, <1>15
<1> QED BY <1>8, <1>14, <1>15, <1>16, <1>17 DEF L

LEMMA ToldPerSeed ==
  ASSUME NEW m, NEW seeds, NEW K, NEW list, NEW off, NEW cfg, Told(m, seeds, K, list, off, cfg)
  PROVE  PerSeed(m) \in Nat /\ Len(list) = K * PerSeed(m)
<1> DEFINE done == K * BodiesPerSeed(m)
<1>1. m \in Multis /\ K \in Nat /\ done \in Nat /\ Story(m, seeds, done, list, off, cfg)
      /\ done <= K * BodiesPerSeed(m) /\ done = K * BodiesPerSeed(m)
  BY DEF Told
<1> HIDE DEF done
<1>2. PerSeed(m) \in Nat /\ (done = K * BodiesPerSeed(m) => Len(list) = K * PerSeed(m))
  BY <1>1, StoryPerSeed
<1> QED BY <1>1, <1>2

(* What is generated is the search. *)
LEMMA ToldIsTrue ==
  ASSUME job # NoJob, NEW off, NEW cfg,
         Charted(job.multi, job.seeds, Seeds(job.multi), runs, off, cfg, places)
  PROVE  RunsAreTheSearch
<1> DEFINE m == job.multi  K == Seeds(m)  F == Len(m.features)  S == Len(m.states)  E == Every(m)
<1>0. Charted(m, job.seeds, K, runs, off, cfg, places) /\ Told(m, job.seeds, K, runs, off, cfg)
  BY DEF Charted
<1>1. m \in Multis /\ K \in Nat /\ F \in Nat /\ S \in Nat /\ E \in Nat /\ Len(runs) = K * PerSeed(m) /\ PerSeed(m) \in Nat
  <2>1. m \in Multis /\ K \in Nat /\ K * BodiesPerSeed(m) \in Nat /\ K * BodiesPerSeed(m) <= K * BodiesPerSeed(m)
        /\ Story(m, job.seeds, K * BodiesPerSeed(m), runs, off, cfg)
    BY <1>0 DEF Told
  <2> HIDE DEF m, K
  <2>2. F \in Nat /\ S \in Nat /\ E \in Nat
    BY <2>1, SearchIsValid, PicksCount DEF Sized
  <2>3. Len(runs) = K * PerSeed(m) /\ PerSeed(m) \in Nat
    BY <1>0, ToldPerSeed
  <2> QED BY <2>1, <2>2, <2>3
<1> HIDE DEF m, K
<1>2. /\ DOMAIN m.agents = 1..Len(m.agents) /\ DOMAIN m.states = 1..Len(m.states)
      /\ DOMAIN m.features = 1..Len(m.features)
  BY <1>1, SearchIsValid
<1>3. EveryCombinationOnce
  <2>1. ASSUME NEW at \in Places(m), NEW v \in Picks(m.agents[at.agent])
        PROVE  Cardinality(RunsOf(m, at, v)) = 1
    <3>1. PICK k \in 1..K, f \in 1..Len(m.features), s \in 1..Len(m.states), a \in 1..Len(m.agents) :
            at = [seed |-> k, features |-> f, state |-> s, agent |-> a]
      BY <1>2 DEF Places, K, m
    <3>2. at = BodyAt(k, f, s, a) /\ at.agent = a
      BY <3>1 DEF BodyAt
    <3>3. v \in Picks(m.agents[a])
      BY <3>2
    <3>4. Cardinality(RunsOf(m, BodyAt(k, f, s, a), v)) = 1
      BY <1>0, <3>3, RunOfChoice
    <3> QED BY <3>2, <3>4
  <2>2. Len(runs) = K * F * S * E
    <3>1. PerSeed(m) = F * (S * E)
      BY DEF PerSeed
    <3> HIDE DEF F, S, E
    <3>2. K * (F * (S * E)) = K * F * S * E
      BY <1>1
    <3> QED BY <1>1, <3>1, <3>2
  <2>3. E = Cardinality(UNION {{a} \X Picks(m.agents[a]) : a \in DOMAIN m.agents})
    BY <1>2 DEF Every, Count, PicksUpTo
  <2> HIDE DEF E
  <2> QED BY <2>1, <2>2, <2>3 DEF EveryCombinationOnce, m, K
<1>4. SameForEverySeed
  <2> SUFFICES ASSUME K > 0
               PROVE  LET count == Len(runs) \div K
                      IN \A i \in 1..(Len(runs) - count) :
                           [runs[i] EXCEPT !.agentSeed = 0] = [runs[i + count] EXCEPT !.agentSeed = 0]
    BY DEF SameForEverySeed, m, K
  <2>1. Len(runs) \div K = PerSeed(m)
    <3> DEFINE q == PerSeed(m)
    <3>1. q \in Nat /\ Len(runs) = K * q /\ K \in Nat /\ 0 \in 0..(K - 1)
      BY <1>1
    <3> HIDE DEF q
    <3>2. (K * q + 0) \div K = q
      BY <3>1, DividedOnce
    <3>3. K * q + 0 = K * q
      BY <3>1
    <3> QED BY <3>1, <3>2, <3>3 DEF q
  <2>2. ASSUME NEW i \in 1..(Len(runs) - PerSeed(m))
        PROVE  [runs[i] EXCEPT !.agentSeed = 0] = [runs[i + PerSeed(m)] EXCEPT !.agentSeed = 0]
    <3> DEFINE r == runs[i]  q == runs[i + PerSeed(m)]
    <3>1. Alike(r, q)
      BY <1>0, SameFromStory
    <3> HIDE DEF r, q
    <3>2. [r EXCEPT !.agentSeed = 0] = [q EXCEPT !.agentSeed = 0]
      BY <3>1 DEF Alike
    <3> QED BY <3>2 DEF r, q
  <2> QED BY <2>1, <2>2
<1>5. OwnParameters
  <2>1. ASSUME NEW i \in DOMAIN runs PROVE OwnRun(m, runs[i], m.agents[places[i].agent])
    BY <1>0, OwnFromStory
  <2> QED BY <2>1 DEF OwnParameters, OwnRun, m
<1> QED BY <1>3, <1>4, <1>5 DEF RunsAreTheSearch

-----------------------------------------------------------------------------
(* The lists hold configurations only. *)
IsRunList(l) == \E S : l \in Seq(S) /\ \A r \in S : ConfigOK(r)

LEMMA RunListEmpty == IsRunList(<<>>)
<1> DEFINE S == {Template}
<1>1. <<>> \in Seq(S) /\ \A r \in S : ConfigOK(r)
  BY TemplateOK
<1> HIDE DEF S
<1> QED BY <1>1 DEF IsRunList

LEMMA RunListLen == ASSUME NEW l, IsRunList(l) PROVE Len(l) \in Nat /\ DOMAIN l = 1..Len(l)
<1>1. PICK S : l \in Seq(S)
  BY DEF IsRunList
<1> QED BY <1>1

LEMMA RunListRange == ASSUME NEW l, IsRunList(l) PROVE \A r \in Range(l) : ConfigOK(r)
<1>1. PICK S : l \in Seq(S) /\ \A r \in S : ConfigOK(r)
  BY DEF IsRunList
<1>2. \A i \in DOMAIN l : l[i] \in S
  BY <1>1
<1> QED BY <1>1, <1>2 DEF Range

LEMMA RunListJoined == ASSUME NEW a, NEW b, IsRunList(a), IsRunList(b) PROVE IsRunList(a \o b)
<1>1. PICK S : a \in Seq(S) /\ \A r \in S : ConfigOK(r)
  BY DEF IsRunList
<1>2. PICK T : b \in Seq(T) /\ \A r \in T : ConfigOK(r)
  BY DEF IsRunList
<1> DEFINE U == S \union T
<1>3. a \in Seq(U) /\ b \in Seq(U) /\ \A r \in U : ConfigOK(r)
  BY <1>1, <1>2
<1> HIDE DEF U
<1>4. a \o b \in Seq(U)
  BY <1>3
<1> QED BY <1>3, <1>4 DEF IsRunList

LEMMA RunListAppended == ASSUME NEW a, IsRunList(a), NEW c, ConfigOK(c) PROVE IsRunList(Append(a, c))
<1>1. PICK S : a \in Seq(S) /\ \A r \in S : ConfigOK(r)
  BY DEF IsRunList
<1> DEFINE U == S \union {c}
<1>2. a \in Seq(U) /\ c \in U /\ \A r \in U : ConfigOK(r)
  BY <1>1
<1> HIDE DEF U
<1>3. Append(a, c) \in Seq(U)
  BY <1>2
<1> QED BY <1>2, <1>3 DEF IsRunList

LEMMA RunListTail == ASSUME NEW a, IsRunList(a), a # <<>> PROVE IsRunList(Tail(a))
<1>1. PICK S : a \in Seq(S) /\ \A r \in S : ConfigOK(r)
  BY DEF IsRunList
<1>2. Tail(a) \in Seq(S)
  BY <1>1
<1> QED BY <1>1, <1>2 DEF IsRunList

LEMMA RunListSkipped ==
  ASSUME NEW a, IsRunList(a), NEW n \in 0..Len(a) PROVE IsRunList(SubSeq(a, n + 1, Len(a)))
<1>1. PICK S : a \in Seq(S) /\ \A r \in S : ConfigOK(r)
  BY DEF IsRunList
<1>2. SubSeq(a, n + 1, Len(a)) \in Seq(S)
  <2>1. Len(a) \in Nat
    BY <1>1
  <2>2. \A i \in (n + 1)..Len(a) : a[i] \in S
    BY <1>1
  <2>3. n + 1 \in Int /\ Len(a) \in Int
    BY <2>1
  <2> QED BY <2>2, <2>3, SubSeqProperties, <1>1
<1> QED BY <1>1, <1>2 DEF IsRunList

LEMMA RunListOf ==
  ASSUME NEW n \in Nat, NEW f, \A k \in 1..n : ConfigOK(f[k]) PROVE IsRunList([k \in 1..n |-> f[k]])
<1> DEFINE S == {f[k] : k \in 1..n}  l == [k \in 1..n |-> f[k]]
<1>1. l \in [1..n -> S] /\ \A r \in S : ConfigOK(r)
  OBVIOUS
<1> HIDE DEF S, l
<1>2. l \in Seq(S)
  BY <1>1, SequenceOf
<1> QED BY <1>1, <1>2 DEF IsRunList, l

(* There is a seed of the agent for every run of a search. *)
LEMMA SeedsAre ==
  ASSUME NEW m \in Multis, NEW seeds \in RandomSeeds(m)
  PROVE  Len(seeds.agent) = Seeds(m) /\ Seeds(m) \in Nat
<1>1. m.auto \in BOOLEAN /\ m.n \in Nat /\ m.agentSeeds \in Seq(Range(m.agentSeeds))
  BY SearchAssumption DEF ValidSearch
<1>2. CASE ~m.auto
  BY <1>1, <1>2 DEF RandomSeeds, Seeds
<1>3. CASE m.auto /\ m.n = 0
  BY <1>1, <1>3 DEF RandomSeeds, Seeds
<1>4. CASE m.auto /\ m.n # 0
  <2>1. PICK s \in [1..(m.n + 1) -> SeedValues] : seeds = [taskGenerator |-> s[1], agent |-> Tail(s)]
    BY <1>4 DEF RandomSeeds
  <2> DEFINE l == m.n + 1
  <2>2. s \in Seq(SeedValues) /\ Len(s) = l
    <3>1. l \in Nat /\ s \in [1..l -> SeedValues]
      BY <1>1
    <3> HIDE DEF l
    <3> QED BY <3>1, SequenceOf
  <2>3. Len(Tail(s)) = m.n
    BY <1>1, <2>2
  <2> QED BY <1>1, <1>4, <2>1, <2>3 DEF Seeds
<1> QED BY <1>1, <1>2, <1>3, <1>4

-----------------------------------------------------------------------------
(* The invariant: what is generated so far is the story of the bodies done. *)
JobOK ==
  /\ job = [by |-> job.by, multi |-> job.multi, seeds |-> job.seeds, done |-> job.done]
  /\ job.multi \in Multis /\ Len(job.seeds.agent) = Seeds(job.multi) /\ Seeds(job.multi) \in Nat
  /\ job.done \in Nat /\ job.done <= Seeds(job.multi) * BodiesPerSeed(job.multi)
  /\ \E off, cfg : /\ Story(job.multi, job.seeds, job.done, runs, off, cfg) /\ cfg[job.done] = runConfig
                   /\ Placed(job.multi, job.done, places, off)

ListInv ==
  /\ multi \in Multis /\ started \in BOOLEAN /\ adds \in 0..MaxAdds /\ executed \in Nat
  /\ IsRunList(toExecute) /\ IsRunList(runs) /\ ConfigOK(runConfig)
  /\ job = NoJob => runs = <<>> /\ places = <<>> /\ runConfig = Template
  /\ job # NoJob => JobOK

LEMMA ListBegins == ListInit => ListInv
<1> SUFFICES ASSUME ListInit PROVE ListInv
  OBVIOUS
<1>1. IsRunList(toExecute) /\ IsRunList(runs) /\ ConfigOK(runConfig)
  BY RunListEmpty, TemplateOK DEF ListInit
<1>2. adds \in 0..MaxAdds
  BY SearchAssumption DEF ListInit
<1> QED BY <1>1, <1>2 DEF ListInit, ListInv

LEMMA GenerateBegins ==
  ASSUME ListInv, NEW by, NEW m \in Multis, Generate(by, m), UNCHANGED <<runConfig, runs, places>>
  PROVE  job' # NoJob /\ JobOK'
<1>1. PICK seeds \in RandomSeeds(m) : job' = [by |-> by, multi |-> m, seeds |-> seeds, done |-> 0]
  BY DEF Generate
<1>2. job = NoJob /\ runs = <<>> /\ places = <<>> /\ runConfig = Template
  BY DEF Generate, ListInv
<1>3. job' # NoJob
  <2>1. DOMAIN job' = {"by", "multi", "seeds", "done"} /\ DOMAIN NoJob = {"by"}
    BY <1>1 DEF NoJob
  <2> QED BY <2>1
<1>4. job'.by = by /\ job'.multi = m /\ job'.seeds = seeds /\ job'.done = 0
  BY <1>1
<1>5. Len(seeds.agent) = Seeds(m) /\ Seeds(m) \in Nat
  BY SeedsAre
<1>6. Seeds(m) * BodiesPerSeed(m) \in Nat
  BY <1>5, SearchIsValid, BodiesAreMany
<1>7. PICK off, cfg : Story(m, seeds, 0, <<>>, off, cfg) /\ cfg[0] = Template /\ Placed(m, 0, <<>>, off)
  BY StoryBegins
<1>8. \E o, c : /\ Story(job'.multi, job'.seeds, job'.done, runs', o, c) /\ c[job'.done] = runConfig'
               /\ Placed(job'.multi, job'.done, places', o)
  BY <1>2, <1>4, <1>7
<1> DEFINE B == BodiesPerSeed(m)
<1>9. job'.done <= Seeds(job'.multi) * BodiesPerSeed(job'.multi) /\ job'.done \in Nat
  BY <1>4, <1>6
<1>10. Len(job'.seeds.agent) = Seeds(job'.multi) /\ Seeds(job'.multi) \in Nat /\ job'.multi \in Multis
  BY <1>4, <1>5
<1>11. job' = [by |-> job'.by, multi |-> job'.multi, seeds |-> job'.seeds, done |-> job'.done]
  BY <1>1, <1>4
<1> QED BY <1>3, <1>8, <1>9, <1>10, <1>11 DEF JobOK

LEMMA PrepareKeeps == ASSUME ListInv, PrepareAgent PROVE ListInv'
<1>1. job # NoJob /\ JobOK /\ job.done < Len(job.seeds.agent) * BodiesPerSeed(job.multi)
  BY DEF PrepareAgent, Generating, ListInv
<1>2. PICK m, seeds, done, by : m = job.multi /\ seeds = job.seeds /\ done = job.done /\ by = job.by
  OBVIOUS
<1> DEFINE K == Seeds(m)
<1>3. /\ job = [by |-> by, multi |-> m, seeds |-> seeds, done |-> done]
      /\ m \in Multis /\ Len(seeds.agent) = K /\ K \in Nat /\ done \in Nat
      /\ done < K * BodiesPerSeed(m)
      /\ \E off, cfg : /\ Story(m, seeds, done, runs, off, cfg) /\ cfg[done] = runConfig
                       /\ Placed(m, done, places, off)
  BY <1>1, <1>2 DEF JobOK
<1>4. PICK off, cfg : /\ Story(m, seeds, done, runs, off, cfg) /\ cfg[done] = runConfig
                      /\ Placed(m, done, places, off)
  BY <1>3
<1>5. PICK c, list : c = runConfig /\ list = runs
  OBVIOUS
<1> DEFINE G == Tried(m, done)  w == Ran(m, seeds, done, c)  more == [k \in 1..Len(G) |-> w[k]]
<1>6. /\ runConfig' = w[Len(G)] /\ runs' = list \o more /\ job' = [job EXCEPT !.done = @ + 1]
      /\ places' = places \o [k \in 1..Len(G) |-> Body(m, done)]
      /\ UNCHANGED <<multi, started, toExecute, executed, adds>>
  BY <1>2, <1>5 DEF PrepareAgent, Tried, Ran, AgentAt, Combinations
<1>7. PICK S : list \in Seq(S)
  BY <1>5 DEF ListInv, IsRunList
<1> HIDE DEF K
<1>8. PICK off2, cfg2 : /\ Story(m, seeds, done + 1, list \o more, off2, cfg2) /\ cfg2[done + 1] = w[Len(G)]
                        /\ \A n \in 0..done : off2[n] = off[n]
  <2>1. Story(m, seeds, done, list, off, cfg) /\ cfg[done] = c
    BY <1>4, <1>5
  <2>2. more = More(m, seeds, done, c)
    BY DEF More
  <2> HIDE DEF more, w, G
  <2>3. Continued(m, seeds, done, list, off, c)
    <3>1. /\ m \in Multis /\ K \in Nat /\ done \in Nat /\ done < K * BodiesPerSeed(m) /\ list \in Seq(S)
          /\ Story(m, seeds, done, list, off, cfg) /\ c = cfg[done]
      BY <1>3, <1>7, <2>1
    <3> QED BY <3>1, StoryGoesOn
  <2> QED BY <2>2, <2>3 DEF Continued, w, G
<1>9. Len(G) \in Nat /\ (\A j \in 0..Len(G) : ConfigOK(w[j]))
  <2>1. done \in 0..done /\ done <= K * BodiesPerSeed(m)
    <3>1. K * BodiesPerSeed(m) \in Nat
      BY <1>3, SearchIsValid, BodiesAreMany
    <3> QED BY <1>3, <3>1
  <2>2. Unmixed(m, c) /\ (done # 0 => FeaturesOf(c, m.features[Body(m, done - 1).features]))
    <3>1. Story(m, seeds, done, list, off, cfg) /\ cfg[done] = c
      BY <1>4, <1>5
    <3> QED BY <1>3, <2>1, <3>1, StoryIsUnmixed
  <2>3. Len(G) \in Nat /\ \A j \in 0..Len(G) : Unmixed(m, w[j])
    BY <1>3, <2>2, StoryStep
  <2> HIDE DEF G, w
  <2> QED BY <2>3 DEF Unmixed
<1>10. ConfigOK(runConfig') /\ IsRunList(runs')
  <2> HIDE DEF w, G
  <2>1. Len(G) \in 0..Len(G) /\ \A k \in 1..Len(G) : ConfigOK(w[k])
    BY <1>9
  <2>2. IsRunList(more)
    BY <1>9, <2>1, RunListOf
  <2>3. IsRunList(list)
    BY <1>5 DEF ListInv
  <2>4. IsRunList(list \o more)
    <3> HIDE DEF more
    <3> QED BY <2>2, <2>3, RunListJoined
  <2> HIDE DEF more
  <2>5. ConfigOK(w[Len(G)])
    BY <1>9, <2>1
  <2> QED BY <1>6, <2>4, <2>5
<1> HIDE DEF G, w, more
<1>11. job' = [by |-> by, multi |-> m, seeds |-> seeds, done |-> done + 1]
  BY <1>3, <1>6
<1>12. job'.by = by /\ job'.multi = m /\ job'.seeds = seeds /\ job'.done = done + 1
  BY <1>11
<1>13. Placed(m, done + 1, places', off2)
  <2>1. off2[done + 1] = off2[done] + Len(Tried(m, done))
    <3>1. done \in 0..((done + 1) - 1)
      BY <1>3
    <3> QED BY <3>1, <1>8 DEF Story
  <2>2. Placed(m, done + 1, places \o [k \in 1..Len(Tried(m, done)) |-> Body(m, done)], off2)
    BY <1>3, <1>4, <1>8, <2>1, PlacedGoesOn
  <2> QED BY <2>2, <1>6 DEF G
<1>14. JobOK'
  <2>1. \E o, d : /\ Story(job'.multi, job'.seeds, job'.done, runs', o, d) /\ d[job'.done] = runConfig'
                 /\ Placed(job'.multi, job'.done, places', o)
    BY <1>6, <1>8, <1>12, <1>13
  <2>2. done + 1 \in Nat /\ done + 1 <= K * BodiesPerSeed(m)
    <3>1. K * BodiesPerSeed(m) \in Nat
      BY <1>3, SearchIsValid, BodiesAreMany
    <3> QED BY <1>3, <3>1
  <2>3. job'.done \in Nat /\ job'.done <= Seeds(job'.multi) * BodiesPerSeed(job'.multi)
    BY <1>12, <2>2 DEF K
  <2>4. job'.multi \in Multis /\ Len(job'.seeds.agent) = Seeds(job'.multi) /\ Seeds(job'.multi) \in Nat
    BY <1>3, <1>12 DEF K
  <2>5. job' = [by |-> job'.by, multi |-> job'.multi, seeds |-> job'.seeds, done |-> job'.done]
    BY <1>11, <1>12
  <2> QED BY <2>1, <2>3, <2>4, <2>5 DEF JobOK
<1>15. job' # NoJob
  <2>1. DOMAIN job' = {"by", "multi", "seeds", "done"} /\ DOMAIN NoJob = {"by"}
    BY <1>11 DEF NoJob
  <2> QED BY <2>1
<1> QED BY <1>6, <1>10, <1>14, <1>15 DEF ListInv

LEMMA EndKeeps == ASSUME ListInv, EndGeneration PROVE ListInv'
<1>1. job' = NoJob /\ runConfig' = Template /\ runs' = <<>> /\ places' = <<>> /\ UNCHANGED <<multi, started, adds>>
  BY DEF EndGeneration
<1>2. IsRunList(runs') /\ ConfigOK(runConfig')
  BY <1>1, RunListEmpty, TemplateOK
<1>3. executed' \in Nat /\ IsRunList(toExecute')
  <2>1. CASE job.by = "request"
    <3>1. toExecute' = toExecute \o runs /\ executed' = executed
      BY <2>1 DEF EndGeneration
    <3>2. IsRunList(toExecute \o runs)
      BY RunListJoined DEF ListInv
    <3> QED BY <3>1, <3>2 DEF ListInv
  <2>2. CASE job.by # "request"
    <3> DEFINE skipped == IF Len(runs) < StartFrom THEN Len(runs) ELSE StartFrom
    <3>1. toExecute' = SubSeq(runs, skipped + 1, Len(runs)) /\ executed' = executed + skipped
      BY <2>2 DEF EndGeneration
    <3>2. skipped \in 0..Len(runs) /\ skipped \in Nat
      BY RunListLen, SearchAssumption DEF ListInv
    <3> HIDE DEF skipped
    <3>3. IsRunList(SubSeq(runs, skipped + 1, Len(runs)))
      BY <3>2, RunListSkipped DEF ListInv
    <3>4. executed + skipped \in Nat
      BY <3>2 DEF ListInv
    <3> QED BY <3>1, <3>3, <3>4
  <2> QED BY <2>1, <2>2
<1> QED BY <1>1, <1>2, <1>3 DEF ListInv

LEMMA ListGoesOn == ListInv /\ [ListNext]_listVars => ListInv'
<1> SUFFICES ASSUME ListInv, [ListNext]_listVars PROVE ListInv'
  OBVIOUS
<1>1. CASE Start
  <2>1. Generate("manager", multi) /\ UNCHANGED <<multi, toExecute, executed, runConfig, runs, places, adds>> /\ started' = TRUE
    BY <1>1 DEF Start
  <2>2. job' # NoJob /\ JobOK'
    <3>1. PICK m : m = multi /\ m \in Multis
      BY DEF ListInv
    <3> QED BY <2>1, <3>1, GenerateBegins
  <2> QED BY <2>1, <2>2 DEF ListInv
<1>2. CASE PrepareAgent
  BY <1>2, PrepareKeeps
<1>3. CASE EndGeneration
  BY <1>3, EndKeeps
<1>4. CASE AddRuns
  <2>1. UNCHANGED <<multi, started, executed, runConfig, runs, places>> /\ adds < MaxAdds /\ adds' = adds + 1
    BY <1>4 DEF AddRuns
  <2>2. adds' \in 0..MaxAdds
    BY <2>1, SearchAssumption DEF ListInv
  <2>3. CASE (\E m \in Multis : Generate("request", m)) /\ UNCHANGED toExecute
    <3>1. job' # NoJob /\ JobOK'
      BY <2>1, <2>3, GenerateBegins
    <3> QED BY <2>1, <2>2, <2>3, <3>1 DEF ListInv
  <2>4. CASE toExecute' = Append(toExecute, Template) /\ UNCHANGED job
    <3>1. IsRunList(toExecute')
      BY <2>4, RunListAppended, TemplateOK DEF ListInv
    <3>2. JobOK => JobOK'
      BY <2>1, <2>4 DEF JobOK
    <3> QED BY <2>1, <2>2, <2>4, <3>1, <3>2 DEF ListInv
  <2> QED BY <1>4, <2>3, <2>4 DEF AddRuns
<1>5. CASE RemoveRuns
  <2>1. IsRunList(toExecute') /\ (JobOK => JobOK')
    BY <1>5, RunListEmpty DEF RemoveRuns, JobOK
  <2> QED BY <1>5, <2>1 DEF RemoveRuns, ListInv
<1>6. CASE ExecuteRun
  <2>1. IsRunList(toExecute') /\ (JobOK => JobOK') /\ executed' \in Nat
    BY <1>6, RunListTail DEF ExecuteRun, JobOK, ListInv
  <2> QED BY <1>6, <2>1 DEF ExecuteRun, ListInv
<1>7. CASE UNCHANGED listVars
  BY <1>7 DEF listVars, ListInv, JobOK
<1> QED BY <1>1, <1>2, <1>3, <1>4, <1>5, <1>6, <1>7 DEF ListNext

LEMMA ListInvHolds == ListSpec => []ListInv
<1>1. ListInit => ListInv
  BY ListBegins
<1>2. ListInv /\ [ListNext]_listVars => ListInv'
  BY ListGoesOn
<1> QED BY <1>1, <1>2, PTL DEF ListSpec

\* Whatever is generated, added, removed or executed, the list of the runs, the runs of a generation and
\* the configuration it changes have the parts of run_config.yml and the type of an agent that is there
\* (RunManager, prepare_runs_config).
THEOREM ListTypeCorrect == ListSpec => []ListTypeOK
<1>1. ListInv => ListTypeOK
  <2> SUFFICES ASSUME ListInv PROVE ListTypeOK
    OBVIOUS
  <2>1. IsRunList(toExecute \o runs)
    BY RunListJoined DEF ListInv
  <2>2. \A r \in Range(toExecute \o runs) : ConfigOK(r)
    BY <2>1, RunListRange
  <2> QED BY <2>2 DEF ListInv, ListTypeOK, ConfigOK
<1> QED BY <1>1, ListInvHolds, PTL

\* For every search, of any size and with any number of entries of one type: when its runs are generated
\* there is one for every seed, entry of features, state, entry of agents and choice of values, and no
\* other; those of two seeds differ in the seed only; and what the agent of one is created with comes from
\* the template, the search, its own entry, or, for a name its entry leaves open, another entry of its
\* type (prepare_runs_config, generate_combinations).
THEOREM RunsAreTrue == ListSpec => []RunsAreTheSearch
<1>1. ListInv => RunsAreTheSearch
  <2> SUFFICES ASSUME ListInv PROVE RunsAreTheSearch
    OBVIOUS
  <2>1. CASE ~Generated
    BY <2>1 DEF RunsAreTheSearch, EveryCombinationOnce, SameForEverySeed, OwnParameters
  <2>2. CASE Generated
    <3> DEFINE m == job.multi  K == Seeds(m)
    <3>1. job # NoJob /\ JobOK /\ job.done >= Len(job.seeds.agent) * BodiesPerSeed(m)
      BY <2>2 DEF Generated, ListInv
    <3>2. m \in Multis /\ K \in Nat /\ Len(job.seeds.agent) = K /\ job.done \in Nat /\ job.done <= K * BodiesPerSeed(m)
      BY <3>1 DEF JobOK
    <3>3. PICK off, cfg : Story(m, job.seeds, job.done, runs, off, cfg) /\ Placed(m, job.done, places, off)
      BY <3>1 DEF JobOK
    <3> HIDE DEF m, K
    <3>4. K * BodiesPerSeed(m) \in Nat
      BY <3>2, SearchIsValid, BodiesAreMany
    <3>5. job.done = K * BodiesPerSeed(m)
      BY <3>1, <3>2, <3>4
    <3>6. DOMAIN runs = 1..Len(runs)
      BY RunListLen DEF ListInv
    <3>7. Told(m, job.seeds, K, runs, off, cfg)
      BY <3>2, <3>3, <3>4, <3>5, <3>6 DEF Told
    <3>8. Charted(m, job.seeds, K, runs, off, cfg, places)
      BY <3>3, <3>5, <3>7 DEF Charted
    <3> QED BY <3>1, <3>8, ToldIsTrue DEF m, K
  <2> QED BY <2>1, <2>2
<1> QED BY <1>1, ListInvHolds, PTL

=============================================================================
