---------------------------- MODULE TaskPathSafety ----------------------------
(***************************************************************************)
(* The safety of the task path, for every number of tasks, classes of      *)
(* workers, retries and failures.  First its types (TypeCorrect), and from *)
(* them that the state of a trajectory is never replaced.                  *)
(*                                                                         *)
(* The argument rests on where a task is.  A task that has no reward yet   *)
(* is in exactly one place: queued, fetched or asked about by the broker,  *)
(* given up by celery, in the queue of a worker, accepted by it, in the    *)
(* event that it ended or in the element the reward thread will read.  A   *)
(* step moves at most one task, from one place to another, and only the    *)
(* reward thread takes one out (Moves, StepMoves).  The rest of the        *)
(* invariant says what else is true of a task by the place it is in:       *)
(*   Heard       its waiting time is known before its reward is due        *)
(*   Counted     it is in a place or counted by the reward thread          *)
(*   RewardOnce  it has no reward while it is in a place                   *)
(*   EndOnce     the end of the execution comes with the last count        *)
(*   OneWorker   all that names a class for it names the same one          *)
(*   JobsLeft    once sent, it has the writes of the agent or their jobs   *)
(*   Quiet       if it is slow, no job is left when it ends                *)
(*   Sending     what the consumer has not seen sent is still to be ended  *)
(*   Notices     it is announced and learned from at most once             *)
(*   Chain, Straight  the readings its states come from, in order          *)
(*   Created, Passed, Linked, Announcing, Rewarding, LastWord              *)
(*               what is over when the history of the run is saved         *)
(***************************************************************************)
EXTENDS TaskPath, FiniteSetTheorems, TLAPS

USE DEF vars, brokerVars, workerVars, consumerVars, builderVars, poolVars, agentVars,
        Tasks, NoTask, NoWorker, NoAction, MaybeTask, MaybeWorker, MaybeAction, Senders, Idle

-----------------------------------------------------------------------------
(* Sequences, whatever their elements.                                     *)

LEMMA SeqFacts ==
  ASSUME NEW S, NEW q \in Seq(S)
  PROVE  /\ \A x \in S : Append(q, x) \in Seq(S)
         /\ q # <<>> => Head(q) \in S /\ Tail(q) \in Seq(S)
OBVIOUS

(* Appending to one sequence of a family of sequences, and taking the head of one.              *)
LEMMA FamilyFacts ==
  ASSUME NEW K, NEW S, NEW f \in [K -> Seq(S)], NEW k \in K
  PROVE  /\ \A x \in S : [f EXCEPT ![k] = Append(@, x)] \in [K -> Seq(S)]
         /\ f[k] # <<>> => Head(f[k]) \in S /\ [f EXCEPT ![k] = Tail(@)] \in [K -> Seq(S)]
OBVIOUS

(* A sequence without its i-th element.                                                         *)
LEMMA WithoutType ==
  ASSUME NEW S, NEW q \in Seq(S), NEW i \in DOMAIN q
  PROVE  [j \in 1..Len(q)-1 |-> IF j < i THEN q[j] ELSE q[j+1]] \in Seq(S)
<1> DEFINE r == [j \in 1..Len(q)-1 |-> IF j < i THEN q[j] ELSE q[j+1]]
<1>1. Len(q) \in Nat /\ DOMAIN q = 1..Len(q) /\ Len(q) - 1 \in Nat
  OBVIOUS
<1>2. \A j \in 1..Len(q)-1 : r[j] \in S
  BY <1>1
<1> QED BY <1>1, <1>2

TasksIn(q, E) == {q[i].task : i \in {j \in DOMAIN q : q[j] \in E}}
OnceIn(q, E) ==
  \A i, j \in DOMAIN q : q[i] \in E /\ q[j] \in E /\ q[i].task = q[j].task => i = j

LEMMA AppendAt ==
  ASSUME NEW S, NEW q \in Seq(S), NEW x \in S
  PROVE  /\ DOMAIN Append(q, x) = 1..Len(q)+1
         /\ \A i \in DOMAIN q : Append(q, x)[i] = q[i]
         /\ Append(q, x)[Len(q)+1] = x
         /\ DOMAIN q = 1..Len(q) /\ Len(q) \in Nat
OBVIOUS

LEMMA TailAt ==
  ASSUME NEW S, NEW q \in Seq(S), q # <<>>
  PROVE  /\ DOMAIN Tail(q) = 1..Len(q)-1 /\ DOMAIN q = 1..Len(q) /\ Len(q) \in Nat \ {0}
         /\ \A i \in 1..Len(q)-1 : Tail(q)[i] = q[i+1]
         /\ Head(q) = q[1] 
OBVIOUS

LEMMA AppendRange ==
  ASSUME NEW S, NEW q \in Seq(S), NEW x \in S
  PROVE  /\ Range(Append(q, x)) = Range(q) \union {x}
         /\ IsInjective(q) /\ x \notin Range(q) => IsInjective(Append(q, x))
BY AppendAt DEF Range, IsInjective

LEMMA TailRange ==
  ASSUME NEW S, NEW q \in Seq(S), q # <<>>, IsInjective(q)
  PROVE  /\ Head(q) \in Range(q)
         /\ Range(Tail(q)) = Range(q) \ {Head(q)}
         /\ IsInjective(Tail(q))
<1> DEFINE n == Len(q)
           t == Tail(q)
<1>1. /\ DOMAIN t = 1..n-1 /\ DOMAIN q = 1..n /\ n \in Nat \ {0}
      /\ \A i \in 1..n-1 : t[i] = q[i+1]
      /\ Head(q) = q[1]
  BY TailAt
<1> HIDE DEF n, t
<1>2. Head(q) \in Range(q)
  BY <1>1 DEF Range
<1>3. IsInjective(t)
  <2> SUFFICES ASSUME NEW i \in 1..n-1, NEW j \in 1..n-1, t[i] = t[j] PROVE i = j
    BY <1>1 DEF IsInjective
  <2>1. i+1 \in 1..n /\ j+1 \in 1..n /\ q[i+1] = q[j+1]
    BY <1>1
  <2>2. i+1 = j+1
    BY <1>1, <2>1 DEF IsInjective
  <2> QED BY <2>2
<1>4. ASSUME NEW x PROVE x \in Range(t) <=> x \in Range(q) \ {Head(q)}
  <2>1. ASSUME x \in Range(t) PROVE x \in Range(q) \ {Head(q)}
    <3>1. PICK i \in 1..n-1 : x = q[i+1]
      BY <1>1, <2>1 DEF Range
    <3> QED BY <1>1, <3>1 DEF Range, IsInjective
  <2>2. ASSUME x \in Range(q) \ {Head(q)} PROVE x \in Range(t)
    <3>1. PICK i \in 1..n : x = q[i] /\ i # 1
      BY <1>1, <2>2 DEF Range
    <3>2. i - 1 \in 1..n-1 /\ t[i-1] = q[i]
      BY <1>1, <3>1
    <3> QED BY <1>1, <3>1, <3>2 DEF Range
  <2> QED BY <2>1, <2>2
<1> QED BY <1>2, <1>3, <1>4 DEF t

(* A sequence without its i-th element. *)
LEMMA WithoutRange ==
  ASSUME NEW S, NEW q \in Seq(S), NEW i \in DOMAIN q, IsInjective(q), NEW r,
         r = [j \in 1..Len(q)-1 |-> IF j < i THEN q[j] ELSE q[j+1]]
  PROVE  Range(r) = Range(q) \ {q[i]} /\ IsInjective(r)
<1>1. /\ Len(q) \in Nat \ {0} /\ DOMAIN q = 1..Len(q) /\ DOMAIN r = 1..Len(q)-1 /\ i \in 1..Len(q)
      /\ \A j \in 1..Len(q)-1 : r[j] = IF j < i THEN q[j] ELSE q[j+1]
  OBVIOUS
<1>2. IsInjective(r)
  BY <1>1 DEF IsInjective
<1>3. ASSUME NEW x \in Range(r) PROVE x \in Range(q) \ {q[i]}
  <2>1. PICK j \in 1..Len(q)-1 : x = r[j]
    BY <1>1 DEF Range
  <2>2. \E l \in 1..Len(q) : l # i /\ x = q[l]
    BY <1>1, <2>1
  <2> QED BY <1>1, <2>2 DEF Range, IsInjective
<1>4. ASSUME NEW x \in Range(q) \ {q[i]} PROVE x \in Range(r)
  <2>1. PICK l \in 1..Len(q) : x = q[l] /\ l # i
    BY <1>1 DEF Range
  <2>2. CASE l < i
    BY <1>1, <2>1, <2>2 DEF Range
  <2>3. CASE l > i
    <3>1. l - 1 \in 1..Len(q)-1 /\ r[l-1] = q[l]
      BY <1>1, <2>1, <2>3
    <3> QED BY <1>1, <2>1, <3>1 DEF Range
  <2> QED BY <1>1, <2>1, <2>2, <2>3
<1> QED BY <1>2, <1>3, <1>4

LEMMA AppendTasks ==
  ASSUME NEW S, NEW q \in Seq(S), NEW e \in S, NEW E
  PROVE  /\ e \in E => TasksIn(Append(q, e), E) = TasksIn(q, E) \union {e.task}
         /\ e \notin E => TasksIn(Append(q, e), E) = TasksIn(q, E)
         /\ OnceIn(q, E) /\ (e \in E => e.task \notin TasksIn(q, E)) => OnceIn(Append(q, e), E)
BY AppendAt DEF TasksIn, OnceIn

LEMMA TailTasks ==
  ASSUME NEW S, NEW q \in Seq(S), q # <<>>, NEW E, OnceIn(q, E)
  PROVE  /\ OnceIn(Tail(q), E)
         /\ Head(q) \in E => /\ Head(q).task \in TasksIn(q, E)
                             /\ TasksIn(Tail(q), E) = TasksIn(q, E) \ {Head(q).task}
         /\ Head(q) \notin E => TasksIn(Tail(q), E) = TasksIn(q, E)
<1> DEFINE n == Len(q)
           t == Tail(q)
<1>1. /\ DOMAIN t = 1..n-1 /\ DOMAIN q = 1..n /\ n \in Nat \ {0}
      /\ \A i \in 1..n-1 : t[i] = q[i+1]
      /\ Head(q) = q[1]
  BY TailAt
<1> HIDE DEF n, t
<1>2. OnceIn(t, E)
  BY <1>1 DEF OnceIn
<1>3. ASSUME NEW k PROVE k \in TasksIn(t, E) <=> \E i \in 2..n : q[i] \in E /\ q[i].task = k
  <2>1. ASSUME k \in TasksIn(t, E) PROVE \E i \in 2..n : q[i] \in E /\ q[i].task = k
    <3>1. PICK i \in 1..n-1 : t[i] \in E /\ t[i].task = k
      BY <1>1, <2>1 DEF TasksIn
    <3> QED BY <1>1, <3>1
  <2>2. ASSUME NEW i \in 2..n, q[i] \in E, q[i].task = k PROVE k \in TasksIn(t, E)
    <3>1. i - 1 \in 1..n-1 /\ t[i-1] = q[i]
      BY <1>1
    <3> QED BY <1>1, <2>2, <3>1 DEF TasksIn
  <2> QED BY <2>1, <2>2
<1>4. ASSUME NEW k PROVE k \in TasksIn(q, E) <=> \E i \in 1..n : q[i] \in E /\ q[i].task = k
  BY <1>1 DEF TasksIn
<1>5. ASSUME q[1] \in E
      PROVE  q[1].task \in TasksIn(q, E) /\ TasksIn(t, E) = TasksIn(q, E) \ {q[1].task}
  <2>1. ASSUME NEW k PROVE k \in TasksIn(t, E) <=> k \in TasksIn(q, E) \ {q[1].task}
    BY <1>1, <1>3, <1>4, <1>5 DEF OnceIn
  <2> QED BY <1>1, <1>4, <1>5, <2>1
<1>6. ASSUME q[1] \notin E PROVE TasksIn(t, E) = TasksIn(q, E)
  <2>1. ASSUME NEW k PROVE k \in TasksIn(t, E) <=> k \in TasksIn(q, E)
    BY <1>1, <1>3, <1>4, <1>6
  <2> QED BY <2>1
<1> QED BY <1>1, <1>2, <1>5, <1>6 DEF t

(* The tasks of the events of a sequence are as many as the events, if each occurs once. *)
Count(q, E) == Cardinality({i \in DOMAIN q : q[i] \in E})

LEMMA CountType ==
  ASSUME NEW S, NEW q \in Seq(S), NEW E
  PROVE  IsFiniteSet({i \in DOMAIN q : q[i] \in E}) /\ Count(q, E) \in Nat
<1>1. IsFiniteSet(1..Len(q)) /\ DOMAIN q = 1..Len(q)
  BY FS_Interval
<1>2. {i \in DOMAIN q : q[i] \in E} \in SUBSET (1..Len(q))
  BY <1>1
<1> QED BY <1>1, <1>2, FS_Subset, FS_CardinalityType DEF Count

LEMMA AppendCount ==
  ASSUME NEW S, NEW q \in Seq(S), NEW e \in S, NEW E
  PROVE  Count(Append(q, e), E) = Count(q, E) + (IF e \in E THEN 1 ELSE 0)
<1> DEFINE I == {i \in DOMAIN q : q[i] \in E}
           J == {i \in DOMAIN Append(q, e) : Append(q, e)[i] \in E}
<1>1. IsFiniteSet(I) /\ Len(q)+1 \notin I /\ Cardinality(I) \in Nat
  <2>1. IsFiniteSet(I) /\ Count(q, E) \in Nat
    BY CountType
  <2>2. Len(q)+1 \notin DOMAIN q
    OBVIOUS
  <2> QED BY <2>1, <2>2 DEF Count
<1>2. CASE e \in E
  <2>1. J = I \union {Len(q)+1}
    BY <1>2, AppendAt
  <2> HIDE DEF I, J
  <2>2. Cardinality(J) = Cardinality(I) + 1
    BY <1>1, <2>1, FS_AddElement
  <2> QED BY <1>2, <2>2 DEF I, J, Count
<1>3. CASE e \notin E
  <2>1. J = I
    BY <1>3, AppendAt
  <2> HIDE DEF I, J
  <2>2. Cardinality(J) = Cardinality(I) + 0
    BY <1>1, <2>1
  <2> QED BY <1>3, <2>2 DEF I, J, Count
<1> QED BY <1>2, <1>3

LEMMA TailCount ==
  ASSUME NEW S, NEW q \in Seq(S), q # <<>>, NEW E
  PROVE  Count(q, E) = Count(Tail(q), E) + (IF Head(q) \in E THEN 1 ELSE 0)
<1> DEFINE n == Len(q)
           t == Tail(q)
           I == {i \in 2..n : q[i] \in E}
           J == {i \in 1..n-1 : t[i] \in E}
           f == [i \in J |-> i + 1]
<1>1. /\ DOMAIN t = 1..n-1 /\ DOMAIN q = 1..n /\ n \in Nat \ {0}
      /\ \A i \in 1..n-1 : t[i] = q[i+1]
      /\ Head(q) = q[1]
  BY TailAt
<1>2. IsFiniteSet(J) /\ Count(t, E) = Cardinality(J)
  <2>1. t \in Seq(S)
    OBVIOUS
  <2> QED BY <1>1, <2>1, CountType DEF Count
<1>3. Cardinality(J) = Cardinality(I) /\ IsFiniteSet(I)
  <2> HIDE DEF n, t
  <2>1. f \in [J -> I]
    BY <1>1
  <2>2. \A a, b \in J : f[a] = f[b] => a = b
    OBVIOUS
  <2>3. \A i \in I : \E j \in J : f[j] = i
    <3> TAKE i \in I
    <3>1. i - 1 \in J /\ f[i-1] = i
      BY <1>1
    <3> QED BY <3>1
  <2> HIDE DEF f, I, J
  <2>4. f \in Bijection(J, I)
    BY <2>1, <2>2, <2>3 DEF Bijection, Injection, Surjection, IsInjective
  <2>5. ExistsBijection(J, I)
    BY <2>4 DEF ExistsBijection
  <2> QED BY <1>2, <2>5, FS_Bijection
<1>4. Cardinality(I) \in Nat
  BY <1>3, FS_CardinalityType
<1>5. CASE Head(q) \in E
  <2>1. {i \in DOMAIN q : q[i] \in E} = I \union {1} /\ 1 \notin I
    <3> HIDE DEF n
    <3> QED BY <1>1, <1>5
  <2> HIDE DEF I, J, t
  <2>2. Count(q, E) = Cardinality(I) + 1
    BY <1>3, <2>1, FS_AddElement DEF Count
  <2> QED BY <1>2, <1>3, <1>4, <1>5, <2>2 DEF t
<1>6. CASE Head(q) \notin E
  <2>1. {i \in DOMAIN q : q[i] \in E} = I
    <3> HIDE DEF n
    <3> QED BY <1>1, <1>6
  <2> HIDE DEF I, J, t
  <2>2. Count(q, E) = Cardinality(I)
    BY <2>1 DEF Count
  <2> QED BY <1>2, <1>3, <1>4, <1>6, <2>2 DEF t
<1> QED BY <1>5, <1>6

LEMMA CountTasks ==
  ASSUME NEW S, NEW q \in Seq(S), NEW E, OnceIn(q, E)
  PROVE  Cardinality(TasksIn(q, E)) = Count(q, E) /\ IsFiniteSet(TasksIn(q, E))
<1> DEFINE I == {i \in DOMAIN q : q[i] \in E}
           f == [i \in I |-> q[i].task]
<1>1. IsFiniteSet(I)
  BY CountType
<1>2. f \in Bijection(I, TasksIn(q, E))
  <2>1. f \in [I -> TasksIn(q, E)]
    BY DEF TasksIn
  <2>2. \A a, b \in I : f[a] = f[b] => a = b
    BY DEF OnceIn
  <2>3. \A k \in TasksIn(q, E) : \E i \in I : f[i] = k
    BY DEF TasksIn
  <2> HIDE DEF f, I
  <2> QED BY <2>1, <2>2, <2>3 DEF Bijection, Injection, Surjection, IsInjective
<1>3. ExistsBijection(I, TasksIn(q, E))
  BY <1>2 DEF ExistsBijection
<1> HIDE DEF I
<1>4. Cardinality(TasksIn(q, E)) = Cardinality(I) /\ IsFiniteSet(TasksIn(q, E))
  BY <1>1, <1>3, FS_Bijection
<1> QED BY <1>4 DEF I, Count

LEMMA LenRange ==
  ASSUME NEW S, NEW q \in Seq(S), IsInjective(q)
  PROVE  Cardinality(Range(q)) = Len(q) /\ IsFiniteSet(Range(q))
<1> DEFINE n == Len(q)
<1>1. n \in Nat /\ DOMAIN q = 1..n /\ q \in [1..n -> S]
  OBVIOUS
<1> HIDE DEF n
<1>2. IsFiniteSet(1..n) /\ Cardinality(1..n) = n
  BY <1>1, FS_Interval
<1>3. q \in Bijection(1..n, Range(q))
  <2>1. q \in [1..n -> Range(q)]
    BY <1>1 DEF Range
  <2>2. \A t \in Range(q) : \E i \in 1..n : q[i] = t
    BY <1>1 DEF Range
  <2> QED BY <2>1, <2>2 DEF Bijection, Injection, Surjection
<1>4. ExistsBijection(1..n, Range(q))
  BY <1>3 DEF ExistsBijection
<1> QED BY <1>2, <1>4, FS_Bijection DEF n

-----------------------------------------------------------------------------
(* What a process sends keeps the wire well typed, and what the consumer takes off it is an     *)
(* event of the process that sent it.                                                            *)

(* The classes of workers are none of the other names.                                           *)
LEMMA WorkersAre == \A w \in Workers : w \notin {"none", "idle", "request", "broker", "child"}
BY TaskPathAssumption DEF Workers

LEMMA ClassOfNames ==
  /\ \A w : WorkerClassOf(HostName(w)) = w /\ WorkerClassOf(QueueName(w)) = w
  /\ \A v, w : (HostName(v) = HostName(w) => v = w) /\ (QueueName(v) = QueueName(w) => v = w)
BY DEF WorkerClassOf, HostName, QueueName

LEMMA EventsAre ==
  /\ EventsOf("broker") = [type : {"received"}, task : Tasks, worker : {HostName("broker")}]
  /\ EventsOf("child") = [type : {"sent"}, task : Tasks, worker : {QueueName(w) : w \in Workers}]
  /\ \A w \in Workers :
       EventsOf(w) = [type : {"received", "succeeded", "failed"}, task : Tasks, worker : {HostName(w)}]
<1>1. EventsOf("broker") = [type : {"received"}, task : Tasks, worker : {HostName("broker")}]
  BY DEF EventsOf
<1>2. EventsOf("child") = [type : {"sent"}, task : Tasks, worker : {QueueName(w) : w \in Workers}]
  BY DEF EventsOf
<1>3. ASSUME NEW w \in Workers
      PROVE  EventsOf(w) = [type : {"received", "succeeded", "failed"}, task : Tasks, worker : {HostName(w)}]
  <2>1. w # "broker" /\ w # "child"
    BY WorkersAre
  <2> QED BY <2>1 DEF EventsOf
<1> QED BY <1>1, <1>2, <1>3

LEMMA EventsAreEvents == ASSUME NEW s \in Senders PROVE EventsOf(s) \subseteq Events
<1> SUFFICES ASSUME NEW e \in EventsOf(s) PROVE e \in Events
  OBVIOUS
<1>1. \E T \in SUBSET {"received", "sent", "succeeded", "failed"}, N \in SUBSET EventNames :
        e \in [type : T, task : Tasks, worker : N]
  <2>1. CASE s = "broker"
    <3> WITNESS {"received"} \in SUBSET {"received", "sent", "succeeded", "failed"}
    <3>1. {HostName("broker")} \in SUBSET EventNames
      BY DEF EventNames
    <3> WITNESS {HostName("broker")} \in SUBSET EventNames
    <3> QED BY <2>1, EventsAre
  <2>2. CASE s = "child"
    <3> WITNESS {"sent"} \in SUBSET {"received", "sent", "succeeded", "failed"}
    <3>1. {QueueName(w) : w \in Workers} \in SUBSET EventNames
      BY DEF EventNames
    <3> WITNESS {QueueName(w) : w \in Workers} \in SUBSET EventNames
    <3> QED BY <2>2, EventsAre
  <2>3. CASE s \in Workers
    <3> WITNESS {"received", "succeeded", "failed"} \in SUBSET {"received", "sent", "succeeded", "failed"}
    <3>1. {HostName(s)} \in SUBSET EventNames
      BY <2>3 DEF EventNames
    <3> WITNESS {HostName(s)} \in SUBSET EventNames
    <3> QED BY <2>3, EventsAre
  <2> QED BY <2>1, <2>2, <2>3 DEF Senders
<1> HIDE DEF EventsOf
<1> QED BY <1>1 DEF Events

LEMMA SendType ==
  ASSUME CeleryTypeOK, NEW s \in Senders, NEW e \in EventsOf(s),
         wire' = [wire EXCEPT ![s] = Append(@, e)]
  PROVE  /\ wire' \in [Senders -> Seq(Events)]
         /\ \A t \in Senders : wire'[t] \in Seq(EventsOf(t))
<1>1. wire \in [Senders -> Seq(Events)] /\ \A t \in Senders : wire[t] \in Seq(EventsOf(t))
  BY DEF CeleryTypeOK
<1>2. e \in Events
  BY EventsAreEvents
<1>3. wire' \in [Senders -> Seq(Events)]
  <2> HIDE DEF Senders
  <2> QED BY <1>1, <1>2, FamilyFacts
<1>4. ASSUME NEW t \in Senders PROVE wire'[t] \in Seq(EventsOf(t))
  <2> HIDE DEF Senders
  <2>1. CASE t = s
    <3>1. wire'[t] = Append(wire[s], e)
      BY <1>1, <2>1
    <3> QED BY <1>1, <2>1, <3>1, SeqFacts
  <2>2. CASE t # s
    BY <1>1, <2>2
  <2> QED BY <2>1, <2>2
<1> QED BY <1>3, <1>4

LEMMA TakeType ==
  ASSUME CeleryTypeOK, NEW s \in Senders, wire[s] # <<>>, wire' = [wire EXCEPT ![s] = Tail(@)]
  PROVE  /\ Head(wire[s]) \in EventsOf(s)
         /\ wire' \in [Senders -> Seq(Events)]
         /\ \A t \in Senders : wire'[t] \in Seq(EventsOf(t))
<1>1. wire \in [Senders -> Seq(Events)] /\ \A t \in Senders : wire[t] \in Seq(EventsOf(t))
  BY DEF CeleryTypeOK
<1> HIDE DEF Senders
<1>2. wire' \in [Senders -> Seq(Events)]
  BY <1>1, FamilyFacts
<1>3. Head(wire[s]) \in EventsOf(s) /\ Tail(wire[s]) \in Seq(EventsOf(s))
  BY <1>1, SeqFacts
<1>4. ASSUME NEW t \in Senders PROVE wire'[t] \in Seq(EventsOf(t))
  BY <1>1, <1>3
<1> QED BY <1>2, <1>3, <1>4

-----------------------------------------------------------------------------
(* The answer of the agent, by the class of workers it stands for: a task is sent to a class, or  *)
(* the broker task raises.                                                                        *)
Chooses(w) ==
  /\ broker.at = "request"
  /\ NeedState => HasState(broker.task)
  /\ \E i \in Actions :
       /\ HasQueue(i) /\ QueueOf(i) = w
       /\ jobs' = jobs \union {Job(type, broker.task, i) : type \in JobTypes}
  /\ workerQueue' = [workerQueue EXCEPT ![w] = Append(@, broker.task)]
  /\ broker' = [task |-> broker.task, at |-> w]
  /\ UNCHANGED <<brokerQueue, fetched, retries, gaveUp, failures, accepted, wire, consumerVars,
                 stateQueue, rewardQueue, builderVars, store, previous, records, entries,
                 agentVars>>

Raises ==
  /\ broker.at = "request"
  /\ \/ NeedState /\ ~HasState(broker.task) /\ UNCHANGED jobs
     \/ \E i \in Actions :
          /\ ~HasQueue(i) /\ (NeedState => HasState(broker.task))
          /\ jobs' = jobs \union {Job(type, broker.task, i) : type \in JobTypes}
  /\ RetryOrGiveUp

LEMMA ActionsAre ==
  Actions \subseteq Nat \ {0} /\ NoAction \notin Actions /\ DOMAIN BrokerClasses = 1..Len(BrokerClasses)
  /\ Len(BrokerClasses) \in Nat
BY TaskPathAssumption DEF Actions, NoAction

LEMMA QueueType == ASSUME NEW i \in Actions, HasQueue(i) PROVE QueueOf(i) \in Workers
<1>1. Actions \subseteq Nat \ {0} /\ DOMAIN BrokerClasses = 1..Len(BrokerClasses)
  BY TaskPathAssumption DEF Actions
<1> QED BY <1>1 DEF HasQueue, QueueOf, Workers

Steps ==
  \/ FetchBrokerTask \/ TaskBroker \/ AnnounceSent \/ (\E w \in Workers : Chooses(w)) \/ Raises
  \/ \E job \in jobs : RunJob(job)
  \/ \E w \in Workers : ReceiveTask(w) \/ EndTask(w)
  \/ \E s \in Senders : Consume(s)
  \/ StateThread \/ RewardThread \/ AgentConsumer

LEMMA NextSteps == Next => Steps
<1>1. ASSUME NEW i \in Actions, ChooseAction(i) PROVE \E w \in Workers : Chooses(w)
  <2>1. QueueOf(i) \in Workers /\ Chooses(QueueOf(i))
    BY <1>1, QueueType DEF ChooseAction, Answer, Chooses
  <2> QED BY <2>1
<1>2. RequestFails => Raises
  BY DEF RequestFails, Raises
<1>3. ASSUME NEW i \in Actions, ActionNotAvailable(i) PROVE Raises
  BY <1>3 DEF ActionNotAvailable, Answer, Raises
<1> QED BY <1>1, <1>2, <1>3 DEF Next, Broker, Steps

-----------------------------------------------------------------------------
(* A part of the type depends on its own variables only.                                         *)

LEMMA BrokerFrame == BrokerTypeOK /\ UNCHANGED brokerVars => BrokerTypeOK'
BY DEF BrokerTypeOK

LEMMA CeleryFrame == CeleryTypeOK /\ UNCHANGED <<workerVars, wire>> => CeleryTypeOK'
BY DEF CeleryTypeOK

LEMMA ConsumerFrame ==
  ConsumerTypeOK /\ UNCHANGED <<consumerVars, stateQueue, rewardQueue>> => ConsumerTypeOK'
BY DEF ConsumerTypeOK

LEMMA BuilderFrame == BuilderTypeOK /\ UNCHANGED <<builderVars, previous>> => BuilderTypeOK'
BY DEF BuilderTypeOK

LEMMA StoreFrame == StoreTypeOK /\ UNCHANGED store => StoreTypeOK'
BY DEF StoreTypeOK

LEMMA AgentFrame == AgentTypeOK /\ UNCHANGED <<poolVars, agentVars>> => AgentTypeOK'
BY DEF AgentTypeOK

-----------------------------------------------------------------------------
(* One lemma per action: the parts of the type it touches, the others by their frames.           *)

USE DEF TypeOK

LEMMA FetchBrokerTaskType == ASSUME TypeOK, FetchBrokerTask PROVE TypeOK'
<1> DEFINE k == Head(brokerQueue)
<1>1. k \in Tasks /\ Tail(brokerQueue) \in Seq(Tasks) /\ Append(fetched, k) \in Seq(Tasks)
  BY SeqFacts DEF FetchBrokerTask, BrokerTypeOK
<1>2. BrokerTypeOK'
  BY <1>1 DEF FetchBrokerTask, BrokerTypeOK
<1>3. Event("received", k, HostName("broker")) \in EventsOf("broker")
  BY <1>1, EventsAre DEF Event
<1>4. CeleryTypeOK'
  BY <1>3, SendType DEF FetchBrokerTask, CeleryTypeOK
<1> QED BY <1>2, <1>4, ConsumerFrame, BuilderFrame, StoreFrame, AgentFrame DEF FetchBrokerTask

LEMMA TaskBrokerType == ASSUME TypeOK, TaskBroker PROVE TypeOK'
<1>1. PICK i \in DOMAIN fetched :
        /\ broker' = [task |-> fetched[i], at |-> "request"]
        /\ fetched' = [j \in 1..Len(fetched)-1 |-> IF j < i THEN fetched[j] ELSE fetched[j+1]]
  BY DEF TaskBroker
<1>2. fetched \in Seq(Tasks) /\ i \in DOMAIN fetched /\ fetched[i] \in Tasks
  <2> HIDE DEF Tasks
  <2> QED BY <1>1 DEF BrokerTypeOK
<1>3. fetched' \in Seq(Tasks)
  <2> HIDE DEF Tasks
  <2> QED BY <1>1, <1>2, WithoutType
<1>4. broker' \in [task : MaybeTask, at : Workers \union {"idle", "request"}] /\ broker'.task \in Tasks
  BY <1>1, <1>2
<1>5. BrokerTypeOK'
  BY <1>3, <1>4 DEF TaskBroker, BrokerTypeOK
<1> QED BY <1>5, CeleryFrame, ConsumerFrame, BuilderFrame, StoreFrame, AgentFrame DEF TaskBroker

LEMMA ChooseActionType == ASSUME TypeOK, NEW w \in Workers, Chooses(w) PROVE TypeOK'
<1>1. broker.task \in Tasks
  BY DEF Chooses, BrokerTypeOK
<1>2. BrokerTypeOK'
  BY <1>1 DEF Chooses, BrokerTypeOK
<1>3. workerQueue' \in [Workers -> Seq(Tasks)]
  BY <1>1, FamilyFacts DEF Chooses, CeleryTypeOK
<1>4. CeleryTypeOK'
  BY <1>3 DEF Chooses, CeleryTypeOK
<1>5. AgentTypeOK'
  BY <1>1 DEF Chooses, AgentTypeOK, Job
<1> QED BY <1>2, <1>4, <1>5, ConsumerFrame, BuilderFrame, StoreFrame DEF Chooses

LEMMA AnnounceSentType == ASSUME TypeOK, AnnounceSent PROVE TypeOK'
<1>1. broker.task \in Tasks
  BY WorkersAre DEF AnnounceSent, BrokerTypeOK
<1>2. Event("sent", broker.task, QueueName(broker.at)) \in EventsOf("child")
  BY <1>1, EventsAre DEF AnnounceSent, Event
<1>3. CeleryTypeOK'
  BY <1>2, SendType DEF AnnounceSent, CeleryTypeOK
<1>4. BrokerTypeOK'
  BY DEF AnnounceSent, BrokerTypeOK
<1> QED BY <1>3, <1>4, ConsumerFrame, BuilderFrame, StoreFrame, AgentFrame DEF AnnounceSent

(* The bounds of the retries: MayRetry keeps each below MaxRetries.                              *)
LEMMA RequestFailsType == ASSUME TypeOK, Raises PROVE TypeOK'
<1>1. broker.task \in Tasks /\ retries \in [Tasks -> 0..MaxRetries]
  BY DEF Raises, RetryOrGiveUp, BrokerTypeOK
<1>2. failures' \in 0..MaxFailures
  BY TaskPathAssumption DEF Raises, RetryOrGiveUp, BrokerTypeOK
<1>3. BrokerTypeOK'
  <2>1. CASE MayRetry(broker.task)
    <3>1. retries' \in [Tasks -> 0..MaxRetries]
      <4>1. retries' = [retries EXCEPT ![broker.task] = retries[broker.task] + 1]
        BY <2>1 DEF Raises, RetryOrGiveUp
      <4>2. retries[broker.task] + 1 \in 0..MaxRetries
        BY <1>1, <2>1, TaskPathAssumption DEF MayRetry
      <4> QED BY <1>1, <4>1, <4>2
    <3>2. brokerQueue' = Append(brokerQueue, broker.task) /\ gaveUp' = gaveUp
      BY <2>1 DEF Raises, RetryOrGiveUp, MayRetry
    <3>3. brokerQueue' \in Seq(Tasks)
      BY <1>1, <3>2, SeqFacts DEF BrokerTypeOK
    <3> QED BY <1>2, <3>1, <3>2, <3>3 DEF Raises, RetryOrGiveUp, BrokerTypeOK
  <2>2. CASE ~MayRetry(broker.task)
    BY <1>1, <1>2, <2>2 DEF Raises, RetryOrGiveUp, BrokerTypeOK
  <2> QED BY <2>1, <2>2
<1>4. AgentTypeOK'
  BY <1>1 DEF Raises, RetryOrGiveUp, AgentTypeOK, Job
<1> QED BY <1>3, <1>4, CeleryFrame, ConsumerFrame, BuilderFrame, StoreFrame DEF Raises, RetryOrGiveUp

LEMMA RunJobType == ASSUME TypeOK, NEW job \in jobs, RunJob(job) PROVE TypeOK'
<1>1. job \in [type : JobTypes, task : Tasks, action : Actions]
  BY DEF AgentTypeOK
<1>2. StoreTypeOK'
  BY <1>1 DEF RunJob, StoreTypeOK
<1>3. AgentTypeOK'
  BY <1>1 DEF RunJob, AgentTypeOK
<1> QED BY <1>2, <1>3, BrokerFrame, CeleryFrame, ConsumerFrame, BuilderFrame DEF RunJob

LEMMA ReceiveTaskType == ASSUME TypeOK, NEW w \in Workers, ReceiveTask(w) PROVE TypeOK'
<1> DEFINE k == Head(workerQueue[w])
<1>1. k \in Tasks /\ workerQueue' \in [Workers -> Seq(Tasks)]
  BY FamilyFacts DEF ReceiveTask, CeleryTypeOK
<1>2. accepted' \in [Workers -> Seq(Tasks)]
  BY <1>1, FamilyFacts DEF ReceiveTask, CeleryTypeOK
<1>3. Event("received", k, HostName(w)) \in EventsOf(w)
  BY <1>1, EventsAre DEF Event
<1>4. CeleryTypeOK'
  BY <1>1, <1>2, <1>3, SendType DEF ReceiveTask, CeleryTypeOK
<1> QED BY <1>4, BrokerFrame, ConsumerFrame, BuilderFrame, StoreFrame, AgentFrame DEF ReceiveTask

LEMMA EndTaskType == ASSUME TypeOK, NEW w \in Workers, EndTask(w) PROVE TypeOK'
<1> DEFINE k == Head(accepted[w])
<1>1. k \in Tasks /\ accepted' \in [Workers -> Seq(Tasks)]
  BY FamilyFacts DEF EndTask, CeleryTypeOK
<1>2. PICK type \in {"succeeded", "failed"} :
        wire' = [wire EXCEPT ![w] = Append(@, Event(type, k, HostName(w)))]
  BY DEF EndTask
<1>3. Event(type, k, HostName(w)) \in EventsOf(w)
  BY <1>1, EventsAre DEF Event
<1>4. CeleryTypeOK'
  BY <1>1, <1>2, <1>3, SendType DEF EndTask, CeleryTypeOK
<1> QED BY <1>4, BrokerFrame, ConsumerFrame, BuilderFrame, StoreFrame, AgentFrame DEF EndTask

LEMMA UpdateWorkersStateType ==
  ASSUME ConsumerTypeOK, NEW w \in Workers, NEW n \in Int, UpdateWorkersState(w, n)
  PROVE  load' \in [Workers -> Int] /\ utilization' \in [Workers -> Nat] /\ loadUpdated' \in BOOLEAN
<1>1. ASSUME NEW m \in Int PROVE Max0(m) \in Nat
  BY DEF Max0
<1>2. load[w] + n \in Int /\ utilization[w] + n \in Int
  BY DEF ConsumerTypeOK
<1>3. /\ load' = [load EXCEPT ![w] = load[w] + n]
      /\ utilization' = [utilization EXCEPT ![w] = Max0(utilization[w] + n)]
      /\ loadUpdated' = TRUE
  BY DEF UpdateWorkersState
<1>4. Max0(utilization[w] + n) \in Nat
  BY <1>1, <1>2
<1> QED BY <1>2, <1>3, <1>4 DEF ConsumerTypeOK

(* One step for each kind of event.                                                              *)
LEMMA ConsumeType == ASSUME TypeOK, NEW s \in Senders, Consume(s) PROVE TypeOK'
<1> DEFINE e == Head(wire[s])
<1>1. e \in EventsOf(s)
  BY TakeType DEF Consume
<1>2. CeleryTypeOK'
  BY TakeType DEF Consume, CeleryTypeOK
<1>3. /\ e.task \in Tasks
      /\ s # "broker" => WorkerClassOf(e.worker) \in Workers
      /\ s = "broker" => e.type = "received"
  <2>1. CASE s = "broker"
    <3>1. e \in [type : {"received"}, task : Tasks, worker : {HostName("broker")}]
      BY <1>1, <2>1, EventsAre
    <3> QED BY <2>1, <3>1
  <2>2. CASE s = "child"
    <3>1. e \in [type : {"sent"}, task : Tasks, worker : {QueueName(w) : w \in Workers}]
      BY <1>1, <2>2, EventsAre
    <3>2. PICK w \in Workers : e.worker = QueueName(w)
      BY <3>1
    <3> QED BY <2>2, <3>1, <3>2, ClassOfNames
  <2>3. CASE s \in Workers
    <3>1. e \in [type : {"received", "succeeded", "failed"}, task : Tasks, worker : {HostName(s)}]
      BY <1>1, <2>3, EventsAre
    <3>2. s # "broker" /\ s # "child"
      BY <2>3, WorkersAre
    <3> QED BY <2>3, <3>1, <3>2, ClassOfNames
  <2> HIDE DEF e
  <2> QED BY <2>1, <2>2, <2>3 DEF Senders
<1> HIDE DEF e
<1>4. ConsumerTypeOK'
  <2>1. CASE OnTaskSent(e)
    <3>1. WorkerClassOf(e.worker) \in Workers
      BY <1>3, <2>1 DEF OnTaskSent
    <3>2. UpdateWorkersState(WorkerClassOf(e.worker), 1)
      BY <2>1 DEF OnTaskSent
    <3>3. load' \in [Workers -> Int] /\ utilization' \in [Workers -> Nat] /\ loadUpdated' \in BOOLEAN
      BY <3>1, <3>2, UpdateWorkersStateType
    <3> QED BY <2>1, <3>3 DEF OnTaskSent, ConsumerTypeOK
  <2>2. CASE OnBrokerReceived(s, e)
    <3>1. stateQueue' \in Seq(Tasks)
      BY <1>3, <2>2, SeqFacts DEF OnBrokerReceived, ConsumerTypeOK
    <3> QED BY <2>2, <3>1 DEF OnBrokerReceived, ConsumerTypeOK
  <2>3. CASE OnWorkerReceived(s, e)
    BY <2>3 DEF OnWorkerReceived, ConsumerTypeOK
  <2>4. CASE OnTaskEnd(e)
    <3> DEFINE Ends == [type : {"succeeded", "failed"}, task : Tasks, worker : Workers]
           r == Event(e.type, e.task, WorkerClassOf(e.worker))
    <3>1. WorkerClassOf(e.worker) \in Workers /\ r \in Ends
      BY <1>3, <2>4 DEF OnTaskEnd, Event
    <3>2. UpdateWorkersState(WorkerClassOf(e.worker), -1)
      BY <2>4 DEF OnTaskEnd
    <3>3. load' \in [Workers -> Int] /\ utilization' \in [Workers -> Nat] /\ loadUpdated' \in BOOLEAN
      BY <3>1, <3>2, UpdateWorkersStateType
    <3>4. rewardQueue' = Append(rewardQueue, r) /\ rewardQueue \in Seq(Ends)
      BY <2>4 DEF OnTaskEnd, ConsumerTypeOK
    <3>5. rewardQueue' \in Seq(Ends)
      <4> HIDE DEF Ends, r
      <4> QED BY <3>1, <3>4, SeqFacts
    <3> QED BY <2>4, <3>3, <3>5 DEF OnTaskEnd, ConsumerTypeOK
  <2> QED BY <2>1, <2>2, <2>3, <2>4 DEF Consume, e
<1> QED BY <1>2, <1>4, BrokerFrame, BuilderFrame, StoreFrame, AgentFrame DEF Consume

LEMMA InboxType ==
  ASSUME AgentTypeOK, NEW k \in Tasks
  PROVE  LET Mail == [type : {"completed"}, task : Tasks, worker : {NoWorker}]
                         \union [type : {"executed"}, task : {NoTask}, worker : {NoWorker}]
         IN  /\ Append(agentInbox, Event("completed", k, NoWorker)) \in Seq(Mail)
             /\ Append(agentInbox, Event("executed", NoTask, NoWorker)) \in Seq(Mail)
             /\ agentInbox # <<>> => Head(agentInbox) \in Mail /\ Tail(agentInbox) \in Seq(Mail)
<1> DEFINE Mail == [type : {"completed"}, task : Tasks, worker : {NoWorker}]
                       \union [type : {"executed"}, task : {NoTask}, worker : {NoWorker}]
<1>1. agentInbox \in Seq(Mail)
  BY DEF AgentTypeOK
<1>2. Event("completed", k, NoWorker) \in Mail /\ Event("executed", NoTask, NoWorker) \in Mail
  BY DEF Event
<1>3. /\ Append(agentInbox, Event("completed", k, NoWorker)) \in Seq(Mail)
      /\ Append(agentInbox, Event("executed", NoTask, NoWorker)) \in Seq(Mail)
      /\ agentInbox # <<>> => Head(agentInbox) \in Mail /\ Tail(agentInbox) \in Seq(Mail)
  <2> HIDE DEF Mail
  <2> QED BY <1>1, <1>2, SeqFacts
<1> QED BY <1>3

LEMMA NotifyIfCompleteType ==
  ASSUME TypeOK, NEW k \in Tasks, NotifyIfComplete(k), UNCHANGED <<poolVars, learned, history>>
  PROVE  notified' \subseteq Tasks /\ AgentTypeOK'
<1>1. CASE IsComplete(store[k]) /\ k \notin notified
  <2>1. notified' = notified \union {k} /\ agentInbox' = Append(agentInbox, Event("completed", k, NoWorker))
    BY <1>1 DEF NotifyIfComplete
  <2> QED BY <2>1, InboxType DEF BuilderTypeOK, AgentTypeOK
<1>2. CASE ~(IsComplete(store[k]) /\ k \notin notified)
  <2>1. notified' = notified /\ agentInbox' = agentInbox
    BY <1>2 DEF NotifyIfComplete
  <2> QED BY <2>1 DEF BuilderTypeOK, AgentTypeOK
<1> QED BY <1>1, <1>2

LEMMA TakeCreationType == ASSUME TypeOK, TakeCreation PROVE TypeOK'
<1>1. Head(stateQueue) \in Tasks /\ Tail(stateQueue) \in Seq(Tasks)
  BY SeqFacts DEF TakeCreation, ConsumerTypeOK
<1>2. BuilderTypeOK'
  BY <1>1 DEF TakeCreation, BuilderTypeOK
<1>3. ConsumerTypeOK'
  BY <1>1 DEF TakeCreation, ConsumerTypeOK
<1> QED BY <1>2, <1>3, BrokerFrame, CeleryFrame, StoreFrame, AgentFrame DEF TakeCreation

LEMMA GetStateType == ASSUME TypeOK, GetState PROVE TypeOK'
<1>1. BuilderTypeOK'
  BY DEF GetState, BuilderTypeOK
<1> QED BY <1>1, BrokerFrame, CeleryFrame, ConsumerFrame, StoreFrame, AgentFrame DEF GetState

LEMMA SaveTrajectoryType == ASSUME TypeOK, SaveTrajectory PROVE TypeOK'
<1>1. StoreTypeOK'
  <2>1. readings \in Nat
    BY DEF BuilderTypeOK
  <2>2. store \in [Tasks -> [state : Nat, action : MaybeAction, next : Nat, reward : MaybeWorker]]
    BY DEF StoreTypeOK
  <2>3. store' = [store EXCEPT ![stateThread.task].state = IF @ = 0 THEN readings ELSE @]
    BY DEF SaveTrajectory
  <2> QED BY <2>1, <2>2, <2>3 DEF StoreTypeOK
<1>2. BuilderTypeOK' /\ ConsumerTypeOK'
  BY DEF SaveTrajectory, BuilderTypeOK, ConsumerTypeOK
<1> QED BY <1>1, <1>2, BrokerFrame, CeleryFrame, AgentFrame DEF SaveTrajectory

LEMMA AddNextStateType == ASSUME TypeOK, AddNextState PROVE TypeOK'
<1>1. StoreTypeOK'
  BY DEF AddNextState, HasPrevious, StoreTypeOK, BuilderTypeOK
<1>2. BuilderTypeOK'
  BY DEF AddNextState, BuilderTypeOK
<1> QED BY <1>1, <1>2, BrokerFrame, CeleryFrame, ConsumerFrame, AgentFrame DEF AddNextState

LEMMA SetPreviousType == ASSUME TypeOK, SetPrevious PROVE TypeOK'
<1>1. notified' \subseteq Tasks /\ AgentTypeOK'
  <2>1. CASE previous = NoTask
    BY <2>1 DEF SetPrevious, HasPrevious, BuilderTypeOK, AgentTypeOK
  <2>2. CASE previous # NoTask
    <3>1. previous \in Tasks /\ NotifyIfComplete(previous)
      BY <2>2 DEF SetPrevious, HasPrevious, BuilderTypeOK
    <3> QED BY <3>1, NotifyIfCompleteType DEF SetPrevious, HasPrevious
  <2> QED BY <2>1, <2>2
<1>2. BuilderTypeOK'
  BY <1>1 DEF SetPrevious, HasPrevious, BuilderTypeOK
<1> QED BY <1>1, <1>2, BrokerFrame, CeleryFrame, ConsumerFrame, StoreFrame DEF SetPrevious

(* A reward thread that is at work has a task and a class of workers, or none for a failure.     *)
LEMMA RewardThreadType ==
  ASSUME BuilderTypeOK, rewardThread.at # "idle"
  PROVE  rewardThread \in [task : Tasks, at : {"write", "check", "count"}, reward : MaybeWorker]
BY DEF BuilderTypeOK

LEMMA ComputeRewardType == ASSUME TypeOK, ComputeReward PROVE TypeOK'
<1> DEFINE Ends == [type : {"succeeded", "failed"}, task : Tasks, worker : Workers]
<1> DEFINE e == Head(rewardQueue)
<1>1. e \in Ends /\ Tail(rewardQueue) \in Seq(Ends)
  <2>1. rewardQueue \in Seq(Ends) /\ rewardQueue # <<>>
    BY DEF ComputeReward, ConsumerTypeOK
  <2> HIDE DEF Ends
  <2> QED BY <2>1, SeqFacts
<1>2. ConsumerTypeOK'
  BY <1>1 DEF ComputeReward, ConsumerTypeOK
<1>3. BuilderTypeOK'
  <2>1. CASE e.type = "succeeded" /\ waiting[e.task] # "waited"
    BY <2>1 DEF ComputeReward, BuilderTypeOK
  <2>2. CASE ~(e.type = "succeeded" /\ waiting[e.task] # "waited")
    <3>1. /\ taskCompleted' = taskCompleted + 1
          /\ rewardThread' = [task |-> e.task, at |-> "write",
                              reward |-> IF e.type = "failed" THEN NoWorker ELSE e.worker]
      BY <2>2 DEF ComputeReward
    <3>2. rewardThread' \in [task : Tasks, at : {"write", "check", "count"}, reward : MaybeWorker]
      BY <1>1, <3>1
    <3> QED BY <3>1, <3>2 DEF ComputeReward, BuilderTypeOK
  <2> QED BY <2>1, <2>2
<1> QED BY <1>2, <1>3, BrokerFrame, CeleryFrame, StoreFrame, AgentFrame DEF ComputeReward

LEMMA UpdateTrajectoryRewardType == ASSUME TypeOK, UpdateTrajectoryReward PROVE TypeOK'
<1>1. rewardThread \in [task : Tasks, at : {"write", "check", "count"}, reward : MaybeWorker]
  BY RewardThreadType DEF UpdateTrajectoryReward
<1>2. StoreTypeOK'
  BY <1>1 DEF UpdateTrajectoryReward, StoreTypeOK
<1>3. BuilderTypeOK'
  BY <1>1 DEF UpdateTrajectoryReward, BuilderTypeOK
<1> QED BY <1>2, <1>3, BrokerFrame, CeleryFrame, ConsumerFrame, AgentFrame
       DEF UpdateTrajectoryReward

LEMMA CheckTrajectoryRewardType == ASSUME TypeOK, CheckTrajectoryReward PROVE TypeOK'
<1>1. rewardThread \in [task : Tasks, at : {"write", "check", "count"}, reward : MaybeWorker]
  BY RewardThreadType DEF CheckTrajectoryReward
<1>2. notified' \subseteq Tasks /\ AgentTypeOK'
  BY <1>1, NotifyIfCompleteType DEF CheckTrajectoryReward
<1>3. BuilderTypeOK'
  BY <1>1, <1>2 DEF CheckTrajectoryReward, BuilderTypeOK
<1> QED BY <1>2, <1>3, BrokerFrame, CeleryFrame, ConsumerFrame, StoreFrame DEF CheckTrajectoryReward

LEMMA AreAllTaskExecutedType == ASSUME TypeOK, AreAllTaskExecuted PROVE TypeOK'
<1>1. rewardThread.task \in Tasks
  BY RewardThreadType DEF AreAllTaskExecuted
<1>2. CASE AllExecuted
  <2>1. completions' = completions + 1 /\ agentInbox' = Append(agentInbox, Event("executed", NoTask, NoWorker))
    BY <1>2 DEF AreAllTaskExecuted
  <2>2. AgentTypeOK'
    BY <1>1, <2>1, InboxType DEF AreAllTaskExecuted, AgentTypeOK
  <2>3. BuilderTypeOK'
    BY <2>1 DEF AreAllTaskExecuted, BuilderTypeOK
  <2> QED BY <2>2, <2>3, BrokerFrame, CeleryFrame, ConsumerFrame, StoreFrame DEF AreAllTaskExecuted
<1>3. CASE ~AllExecuted
  <2>1. completions' = completions /\ agentInbox' = agentInbox
    BY <1>3 DEF AreAllTaskExecuted
  <2>2. AgentTypeOK' /\ BuilderTypeOK'
    BY <2>1 DEF AreAllTaskExecuted, AgentTypeOK, BuilderTypeOK
  <2> QED BY <2>2, BrokerFrame, CeleryFrame, ConsumerFrame, StoreFrame DEF AreAllTaskExecuted
<1> QED BY <1>2, <1>3

LEMMA ObserveRewardType == ASSUME TypeOK, ObserveReward PROVE TypeOK'
<1> DEFINE k == Head(agentInbox).task
<1>1. 1 \in Tasks
  BY TaskPathAssumption
<1>2. k \in Tasks
  BY <1>1, InboxType DEF ObserveReward
<1>3. /\ learned' \in [Tasks -> Nat]
      /\ entries' \in [Tasks -> {"none", "new", "rewarded"}]
  BY <1>2 DEF ObserveReward, AgentTypeOK
<1>4. AgentTypeOK'
  BY <1>1, <1>3, InboxType DEF ObserveReward, AgentTypeOK
<1> QED BY <1>4, BrokerFrame, CeleryFrame, ConsumerFrame, BuilderFrame, StoreFrame DEF ObserveReward

LEMMA SaveHistoryType == ASSUME TypeOK, SaveHistory PROVE TypeOK'
<1>1. 1 \in Tasks
  BY TaskPathAssumption
<1>2. AgentTypeOK'
  BY <1>1, InboxType DEF SaveHistory, AgentTypeOK
<1> QED BY <1>2, BrokerFrame, CeleryFrame, ConsumerFrame, BuilderFrame, StoreFrame DEF SaveHistory

-----------------------------------------------------------------------------
LEMMA InitType == Init => TypeOK
<1> SUFFICES ASSUME Init PROVE TypeOK
  OBVIOUS
<1> USE TaskPathAssumption DEF Init
<1>1. BrokerTypeOK
  BY DEF BrokerTypeOK
<1>2. CeleryTypeOK
  BY DEF CeleryTypeOK
<1>3. ConsumerTypeOK
  <2>1. load \in [Workers -> Int] /\ utilization \in [Workers -> Nat]
    OBVIOUS
  <2>2. loadUpdated \in BOOLEAN
    OBVIOUS
  <2>3. waiting \in [Tasks -> {"unknown", "started", "waited"}]
    OBVIOUS
  <2>4. /\ stateQueue \in Seq(Tasks)
        /\ rewardQueue \in Seq([type : {"succeeded", "failed"}, task : Tasks, worker : Workers])
    OBVIOUS
  <2> QED BY <2>1, <2>2, <2>3, <2>4 DEF ConsumerTypeOK
<1>4. BuilderTypeOK
  BY DEF BuilderTypeOK
<1>5. StoreTypeOK
  BY DEF StoreTypeOK, Missing
<1>6. AgentTypeOK
  BY DEF AgentTypeOK
<1> QED BY <1>1, <1>2, <1>3, <1>4, <1>5, <1>6

LEMMA NextType == TypeOK /\ [Next]_vars => TypeOK'
<1> SUFFICES ASSUME TypeOK, [Next]_vars PROVE TypeOK'
  OBVIOUS
<1>1. CASE FetchBrokerTask \/ Raises
  BY <1>1, FetchBrokerTaskType, RequestFailsType
<1>2. CASE TaskBroker \/ AnnounceSent \/ \E w \in Workers : Chooses(w)
  BY <1>2, TaskBrokerType, AnnounceSentType, ChooseActionType
<1>3. CASE \E job \in jobs : RunJob(job)
  BY <1>3, RunJobType
<1>4. CASE \E w \in Workers : ReceiveTask(w) \/ EndTask(w)
  BY <1>4, ReceiveTaskType, EndTaskType
<1>5. CASE \E s \in Senders : Consume(s)
  <2> HIDE DEF Senders
  <2> QED BY <1>5, ConsumeType
<1>6. CASE StateThread
  BY <1>6, TakeCreationType, GetStateType, SaveTrajectoryType, AddNextStateType, SetPreviousType
     DEF StateThread
<1>7. CASE RewardThread
  BY <1>7, ComputeRewardType, UpdateTrajectoryRewardType, CheckTrajectoryRewardType,
     AreAllTaskExecutedType DEF RewardThread
<1>8. CASE AgentConsumer
  BY <1>8, ObserveRewardType, SaveHistoryType DEF AgentConsumer
<1>9. CASE UNCHANGED vars
  BY <1>9, BrokerFrame, CeleryFrame, ConsumerFrame, BuilderFrame, StoreFrame, AgentFrame
<1> HIDE DEF TypeOK
<1> QED BY <1>1, <1>2, <1>3, <1>4, <1>5, <1>6, <1>7, <1>8, <1>9, NextSteps DEF Steps

(* Every variable of the task path holds a value the code can give it, whatever the number of    *)
(* tasks, classes of workers, retries and failures: no broker task is retried more often than    *)
(* celery's max_retries, and what a queue or a celery event names is a task and a class.          *)
THEOREM TypeCorrect == Spec => []TypeOK
<1> HIDE DEF TypeOK, vars
<1> QED BY InitType, NextType, PTL DEF Spec

-----------------------------------------------------------------------------
(* The state of a trajectory.                                                                    *)

(* Only SaveTrajectory writes a state, and with setnx.                                           *)
LEMMA StateKeptByStep ==
  ASSUME StoreTypeOK, [Next]_vars, NEW k \in Tasks, store[k].state # 0
  PROVE  store'[k].state = store[k].state
<1>1. CASE UNCHANGED store
  BY <1>1
<1>2. ASSUME NEW job \in jobs, RunJob(job) PROVE store'[k].state = store[k].state
  BY <1>2 DEF RunJob, StoreTypeOK
<1>3. CASE SaveTrajectory
  BY <1>3 DEF SaveTrajectory, StoreTypeOK
<1>4. CASE AddNextState
  BY <1>4 DEF AddNextState, HasPrevious, StoreTypeOK
<1>5. CASE UpdateTrajectoryReward
  BY <1>5 DEF UpdateTrajectoryReward, StoreTypeOK
<1>6. \/ UNCHANGED store
      \/ \E job \in jobs : RunJob(job)
      \/ SaveTrajectory \/ AddNextState \/ UpdateTrajectoryReward
  BY NextSteps DEF Steps, StateThread, RewardThread, AgentConsumer, FetchBrokerTask, Raises, RetryOrGiveUp,
         TaskBroker, AnnounceSent, Chooses, ReceiveTask, EndTask, Consume, TakeCreation,
         GetState, SetPrevious, ComputeReward, CheckTrajectoryReward, AreAllTaskExecuted,
         ObserveReward, SaveHistory
<1> QED BY <1>1, <1>2, <1>3, <1>4, <1>5, <1>6

(* What the agent decided on stays in the trajectory: a broker task that celery retries, and     *)
(* whose trajectory the builder creates again, does not replace the state, nor does any write    *)
(* of the agent or of the reward thread.                                                          *)
THEOREM StateNeverReplaced == Spec => StateIsKept
<1>1. TypeOK /\ [Next]_vars =>
        [\A k \in Tasks : store[k].state # 0 => store'[k].state = store[k].state]_vars
  <2> SUFFICES ASSUME TypeOK, [Next]_vars
               PROVE  \A k \in Tasks : store[k].state # 0 => store'[k].state = store[k].state
    OBVIOUS
  <2> HIDE DEF vars
  <2> QED BY StateKeptByStep
<1> HIDE DEF TypeOK, vars
<1> QED BY <1>1, TypeCorrect, PTL DEF Spec, StateIsKept

-----------------------------------------------------------------------------
(* The safety of the task path.                                                                  *)

HIDE DEF TypeOK, Tasks

(* The places of a task.                                                                         *)
EndEvents == [type : {"succeeded", "failed"}, task : Tasks, worker : {HostName(w) : w \in Workers}]
SentEvents == [type : {"sent"}, task : Tasks, worker : {QueueName(w) : w \in Workers}]
Results == [type : {"succeeded", "failed"}, task : Tasks, worker : Workers]

At(stage) == <<stage, NoWorker>>
Stops == {At(s) : s \in {"queued", "fetched", "asked", "gaveUp", "rewarding"}}
           \union ({"sent", "accepted", "ended"} \X Workers)

TasksAt(p) ==
  CASE p[1] = "queued"    -> Range(brokerQueue)
    [] p[1] = "fetched"   -> Range(fetched)
    [] p[1] = "asked"     -> IF broker.at = "request" THEN {broker.task} ELSE {}
    [] p[1] = "gaveUp"    -> gaveUp
    [] p[1] = "sent"      -> Range(workerQueue[p[2]])
    [] p[1] = "accepted"  -> Range(accepted[p[2]])
    [] p[1] = "ended"     -> TasksIn(wire[p[2]], EndEvents)
    [] p[1] = "rewarding" -> TasksIn(rewardQueue, Results)

Places == [p \in Stops |-> TasksAt(p)]

InFlight == UNION {Places[p] : p \in Stops}

(* Who sends what: the broker's child the sends, each worker the events of its own tasks.         *)
Wires ==
  /\ \A i \in DOMAIN wire["child"] : wire["child"][i].type = "sent"
  /\ \A w \in Workers : \A i \in DOMAIN wire[w] : wire[w][i].worker = HostName(w) /\ wire[w][i].type # "sent"

(* No place holds a task twice, and no two places hold the same one.                             *)
NoRepeats ==
  /\ IsInjective(brokerQueue) /\ IsInjective(fetched)
  /\ \A w \in Workers :
       IsInjective(workerQueue[w]) /\ IsInjective(accepted[w]) /\ OnceIn(wire[w], EndEvents)
  /\ OnceIn(rewardQueue, Results)

Apart == \A p, q \in Stops : p # q => Places[p] \intersect Places[q] = {}

(* A step moves one task from one place to another.                                              *)
Moves(k, p, q) ==
  /\ p \in Stops /\ q \in Stops /\ p # q /\ k \in Places[p]
  /\ \A r \in Stops : Places'[r] = IF r = p THEN Places[p] \ {k}
                                   ELSE IF r = q THEN Places[q] \union {k} ELSE Places[r]

LEMMA StopCases ==
  /\ {At("queued"), At("fetched"), At("asked"), At("gaveUp"), At("rewarding")} \subseteq Stops
  /\ \A w \in Workers : {<<"sent", w>>, <<"accepted", w>>, <<"ended", w>>} \subseteq Stops
  /\ \A p \in Stops :
       \/ p \in {At("queued"), At("fetched"), At("asked"), At("gaveUp"), At("rewarding")}
       \/ \E w \in Workers : p \in {<<"sent", w>>, <<"accepted", w>>, <<"ended", w>>}
BY DEF Stops, At

LEMMA PlacesAre ==
  /\ Places[At("queued")] = Range(brokerQueue) /\ Places[At("fetched")] = Range(fetched)
  /\ Places[At("asked")] = IF broker.at = "request" THEN {broker.task} ELSE {}
  /\ Places[At("gaveUp")] = gaveUp
  /\ Places[At("rewarding")] = TasksIn(rewardQueue, Results)
  /\ \A w \in Workers :
       /\ Places[<<"sent", w>>] = Range(workerQueue[w])
       /\ Places[<<"accepted", w>>] = Range(accepted[w])
       /\ Places[<<"ended", w>>] = TasksIn(wire[w], EndEvents)
BY StopCases DEF Places, TasksAt, At

LEMMA PlacesBecome ==
  /\ Places'[At("queued")] = Range(brokerQueue') /\ Places'[At("fetched")] = Range(fetched')
  /\ Places'[At("asked")] = IF broker'.at = "request" THEN {broker'.task} ELSE {}
  /\ Places'[At("gaveUp")] = gaveUp'
  /\ Places'[At("rewarding")] = TasksIn(rewardQueue', Results)
  /\ \A w \in Workers :
       /\ Places'[<<"sent", w>>] = Range(workerQueue'[w])
       /\ Places'[<<"accepted", w>>] = Range(accepted'[w])
       /\ Places'[<<"ended", w>>] = TasksIn(wire'[w], EndEvents)
BY StopCases DEF Places, TasksAt, At


(* Where the tasks are depends on these variables only.                                          *)
placeVars == <<brokerQueue, fetched, broker, gaveUp, workerQueue, accepted, wire, rewardQueue>>

LEMMA PlacesFrame ==
  ASSUME UNCHANGED placeVars
  PROVE  Places' = Places /\ (NoRepeats => NoRepeats') /\ (Wires => Wires') /\ (Apart => Apart')
<1>1. Places' = Places
  BY DEF placeVars, Places, TasksAt
<1>2. (NoRepeats => NoRepeats') /\ (Wires => Wires')
  BY DEF placeVars, NoRepeats, Wires
<1> QED BY <1>1, <1>2 DEF Apart

LEMMA WireTypes ==
  ASSUME TypeOK
  PROVE  /\ wire \in [Senders -> Seq(Events)]
         /\ \A s \in Senders : wire[s] \in Seq(EventsOf(s))
         /\ \A w \in Workers : w \in Senders
         /\ \A w \in Workers :
              EventsOf(w) = [type : {"received", "succeeded", "failed"}, task : Tasks, worker : {HostName(w)}]
<1>1. wire \in [Senders -> Seq(Events)] /\ \A s \in Senders : wire[s] \in Seq(EventsOf(s))
  BY DEF TypeOK, CeleryTypeOK
<1>2. \A w \in Workers : w \in Senders
  BY DEF Senders
<1> QED BY <1>1, <1>2, EventsAre

(* The events of the steps, and whether they end a task.                                         *)
LEMMA EventsSent ==
  ASSUME NEW k \in Tasks, NEW w \in Workers
  PROVE  /\ Event("sent", k, QueueName(w)) \in EventsOf("child") \intersect SentEvents
         /\ Event("received", k, HostName(w)) \in EventsOf(w) \ EndEvents
         /\ \A type \in {"succeeded", "failed"} :
              Event(type, k, HostName(w)) \in EventsOf(w) \intersect EndEvents
BY EventsAre DEF Event, SentEvents, EndEvents

LEMMA EventFetched ==
  ASSUME NEW k \in Tasks PROVE Event("received", k, HostName("broker")) \in EventsOf("broker")
BY EventsAre DEF Event

-----------------------------------------------------------------------------
(* Each step of a task, from one place to the next.                                              *)

LEMMA StopsDiffer ==
  \A w \in Workers : /\ <<"sent", w>> # <<"accepted", w>> /\ <<"accepted", w>> # <<"ended", w>>
                     /\ <<"ended", w>> # At("rewarding") /\ At("asked") # <<"sent", w>>
BY DEF At

LEMMA SamePlaces == ASSUME \A p \in Stops : Places'[p] = Places[p] PROVE Places' = Places
BY DEF Places

LEMMA OnePlace ==
  ASSUME Apart, NEW p \in Stops, NEW q \in Stops, p # q, NEW k \in Places[p]
  PROVE  k \notin Places[q]
BY DEF Apart

LEMMA FetchMoves ==
  ASSUME TypeOK, NoRepeats, Apart, FetchBrokerTask
  PROVE  Moves(Head(brokerQueue), At("queued"), At("fetched")) /\ NoRepeats'
<1> DEFINE k == Head(brokerQueue)
<1>1. brokerQueue \in Seq(Tasks) /\ fetched \in Seq(Tasks) /\ k \in Tasks
  BY SeqFacts DEF FetchBrokerTask, BrokerTypeOK, TypeOK
<1>2. /\ Range(brokerQueue') = Range(brokerQueue) \ {k} /\ IsInjective(brokerQueue')
      /\ k \in Range(brokerQueue)
  BY <1>1, TailRange DEF FetchBrokerTask, NoRepeats
<1>3. Range(fetched') = Range(fetched) \union {k} /\ IsInjective(fetched')
  <2>1. k \notin Range(fetched)
    BY <1>2, PlacesAre, StopCases DEF Apart, At
  <2> QED BY <1>1, <2>1, AppendRange DEF FetchBrokerTask, NoRepeats
<1>4. \A w \in Workers : wire'[w] = wire[w]
  BY WorkersAre DEF FetchBrokerTask, CeleryTypeOK, TypeOK
<1>5. UNCHANGED <<broker, gaveUp, workerQueue, accepted, rewardQueue>>
  BY DEF FetchBrokerTask
<1> HIDE DEF k
<1>6. ASSUME NEW r \in Stops \ {At("queued"), At("fetched")} PROVE Places'[r] = Places[r]
  <2>1. CASE r \in {At("asked"), At("gaveUp"), At("rewarding")}
    BY <1>5, <2>1, PlacesAre, PlacesBecome
  <2>2. CASE \E w \in Workers : r \in {<<"sent", w>>, <<"accepted", w>>, <<"ended", w>>}
    BY <1>4, <1>5, <2>2, PlacesAre, PlacesBecome
  <2> QED BY <2>1, <2>2, StopCases
<1>7. Moves(k, At("queued"), At("fetched"))
  BY <1>2, <1>3, <1>6, PlacesAre, PlacesBecome, StopCases DEF Moves, At
<1>8. NoRepeats'
  BY <1>2, <1>3, <1>4, <1>5 DEF NoRepeats
<1> QED BY <1>7, <1>8 DEF k

LEMMA TaskBrokerMoves ==
  ASSUME TypeOK, NoRepeats, Apart, TaskBroker
  PROVE  Moves(broker'.task, At("fetched"), At("asked")) /\ NoRepeats'
<1>1. PICK i \in DOMAIN fetched :
        /\ broker' = [task |-> fetched[i], at |-> "request"]
        /\ fetched' = [j \in 1..Len(fetched)-1 |-> IF j < i THEN fetched[j] ELSE fetched[j+1]]
  BY DEF TaskBroker
<1> DEFINE k == fetched[i]
<1>2. Range(fetched') = Range(fetched) \ {k} /\ IsInjective(fetched') /\ k \in Range(fetched)
  <2>1. fetched \in Seq(Tasks) /\ IsInjective(fetched)
    BY DEF BrokerTypeOK, TypeOK, NoRepeats
  <2>2. Range(fetched') = Range(fetched) \ {k} /\ IsInjective(fetched')
    BY <1>1, <2>1, WithoutRange
  <2>3. k \in Range(fetched)
    BY DEF Range
  <2> QED BY <2>2, <2>3
<1>3. broker.at # "request" /\ broker'.at = "request" /\ broker'.task = k
  BY <1>1 DEF TaskBroker
<1>4. UNCHANGED <<brokerQueue, gaveUp, workerQueue, accepted, wire, rewardQueue>>
  BY DEF TaskBroker
<1> HIDE DEF k
<1>5. ASSUME NEW r \in Stops \ {At("fetched"), At("asked")} PROVE Places'[r] = Places[r]
  <2>1. CASE r \in {At("queued"), At("gaveUp"), At("rewarding")}
    BY <1>4, <2>1, PlacesAre, PlacesBecome
  <2>2. CASE \E w \in Workers : r \in {<<"sent", w>>, <<"accepted", w>>, <<"ended", w>>}
    BY <1>4, <2>2, PlacesAre, PlacesBecome
  <2> QED BY <2>1, <2>2, StopCases
<1>6. Moves(k, At("fetched"), At("asked"))
  BY <1>2, <1>3, <1>5, PlacesAre, PlacesBecome, StopCases DEF Moves, At
<1>7. NoRepeats'
  BY <1>2, <1>4 DEF NoRepeats
<1> QED BY <1>3, <1>6, <1>7

LEMMA ChooseActionMoves ==
  ASSUME TypeOK, NoRepeats, Apart, NEW w \in Workers, Chooses(w)
  PROVE  Moves(broker.task, At("asked"), <<"sent", w>>) /\ NoRepeats'
<1> DEFINE k == broker.task
<1>1. broker.at = "request" /\ k \in Tasks /\ broker'.at # "request"
  BY WorkersAre DEF Chooses, BrokerTypeOK, TypeOK
<1>2. k \notin Range(workerQueue[w])
  <2>1. At("asked") \in Stops /\ <<"sent", w>> \in Stops /\ At("asked") # <<"sent", w>>
    BY StopCases, StopsDiffer
  <2>2. k \in Places[At("asked")]
    BY <1>1, PlacesAre
  <2> HIDE DEF k
  <2>3. k \notin Places[<<"sent", w>>]
    BY <2>1, <2>2, OnePlace
  <2> QED BY <2>3, PlacesAre
<1>3. /\ Range(workerQueue'[w]) = Range(workerQueue[w]) \union {k} /\ IsInjective(workerQueue'[w])
      /\ \A v \in Workers \ {w} : workerQueue'[v] = workerQueue[v]
  <2>1. workerQueue[w] \in Seq(Tasks) /\ workerQueue \in [Workers -> Seq(Tasks)]
    BY DEF CeleryTypeOK, TypeOK
  <2>2. workerQueue' = [workerQueue EXCEPT ![w] = Append(workerQueue[w], k)]
    BY DEF Chooses
  <2>3. workerQueue'[w] = Append(workerQueue[w], k)
    BY <2>1, <2>2
  <2>4. IsInjective(workerQueue[w])
    BY DEF NoRepeats
  <2>5. Range(workerQueue'[w]) = Range(workerQueue[w]) \union {k} /\ IsInjective(workerQueue'[w])
    BY <1>1, <1>2, <2>1, <2>3, <2>4, AppendRange
  <2> QED BY <2>1, <2>2, <2>5
<1>4. UNCHANGED <<brokerQueue, fetched, gaveUp, accepted, wire, rewardQueue>>
  BY DEF Chooses
<1> HIDE DEF k
<1>5. ASSUME NEW r \in Stops \ {At("asked"), <<"sent", w>>} PROVE Places'[r] = Places[r]
  <2>1. CASE r \in {At("queued"), At("fetched"), At("gaveUp"), At("rewarding")}
    BY <1>4, <2>1, PlacesAre, PlacesBecome
  <2>2. ASSUME NEW v \in Workers, r = <<"sent", v>> PROVE Places'[r] = Places[r]
    <3>1. v \in Workers \ {w}
      BY <2>2
    <3> QED BY <1>3, <2>2, <3>1, PlacesAre, PlacesBecome
  <2>3. ASSUME NEW v \in Workers, r \in {<<"accepted", v>>, <<"ended", v>>}
        PROVE  Places'[r] = Places[r]
    BY <1>4, <2>3, PlacesAre, PlacesBecome
  <2> QED BY <2>1, <2>2, <2>3, StopCases
<1>6. Places[At("asked")] = {k} /\ Places'[At("asked")] = {}
  BY <1>1, PlacesAre, PlacesBecome DEF k
<1>7. Moves(k, At("asked"), <<"sent", w>>)
  BY <1>3, <1>5, <1>6, PlacesAre, PlacesBecome, StopCases DEF Moves, At
<1>8. NoRepeats'
  BY <1>3, <1>4 DEF NoRepeats
<1> QED BY <1>7, <1>8 DEF k

LEMMA RequestFailsMoves ==
  ASSUME TypeOK, NoRepeats, Apart, Raises
  PROVE  /\ \/ Moves(broker.task, At("asked"), At("queued"))
            \/ Moves(broker.task, At("asked"), At("gaveUp"))
         /\ NoRepeats'
<1> DEFINE k == broker.task
<1>1. broker.at = "request" /\ k \in Tasks /\ broker'.at # "request"
  BY DEF Raises, RetryOrGiveUp, BrokerTypeOK, TypeOK
<1>2. k \notin Range(brokerQueue)
  BY <1>1, PlacesAre, StopCases DEF Apart, At
<1>3. UNCHANGED <<fetched, workerQueue, accepted, wire, rewardQueue>>
  BY DEF Raises, RetryOrGiveUp
<1>4. Places[At("asked")] = {k} /\ Places'[At("asked")] = {}
  BY <1>1, PlacesAre, PlacesBecome
<1>5. ASSUME NEW r \in Stops \ {At("asked"), At("queued"), At("gaveUp")} PROVE Places'[r] = Places[r]
  <2>1. CASE r \in {At("fetched"), At("rewarding")}
    BY <1>3, <2>1, PlacesAre, PlacesBecome
  <2>2. ASSUME NEW w \in Workers, r \in {<<"sent", w>>, <<"accepted", w>>, <<"ended", w>>}
        PROVE  Places'[r] = Places[r]
    <3>1. UNCHANGED <<workerQueue[w], accepted[w], wire[w]>>
      BY <1>3
    <3> QED BY <2>2, <3>1, PlacesAre, PlacesBecome
  <2> QED BY <2>1, <2>2, StopCases
<1>6. CASE MayRetry(k)
  <2>1. brokerQueue' = Append(brokerQueue, k) /\ gaveUp' = gaveUp
    BY <1>6 DEF Raises, RetryOrGiveUp
  <2>2. Range(brokerQueue') = Range(brokerQueue) \union {k} /\ IsInjective(brokerQueue')
    BY <1>1, <1>2, <2>1, AppendRange DEF BrokerTypeOK, TypeOK, NoRepeats
  <2>3. NoRepeats'
    BY <1>3, <2>2 DEF NoRepeats
  <2> HIDE DEF k
  <2>4. Moves(k, At("asked"), At("queued"))
    BY <1>4, <1>5, <2>1, <2>2, PlacesAre, PlacesBecome, StopCases DEF Moves, At
  <2> QED BY <2>3, <2>4 DEF k
<1>7. CASE ~MayRetry(k)
  <2>1. brokerQueue' = brokerQueue /\ gaveUp' = gaveUp \union {k}
    BY <1>7 DEF Raises, RetryOrGiveUp
  <2>2. NoRepeats'
    BY <1>3, <2>1 DEF NoRepeats
  <2> HIDE DEF k
  <2>3. Moves(k, At("asked"), At("gaveUp"))
    BY <1>4, <1>5, <2>1, PlacesAre, PlacesBecome, StopCases DEF Moves, At
  <2> QED BY <2>2, <2>3 DEF k
<1> QED BY <1>6, <1>7

(* A process that sends, and the consumer that takes, changes one sequence of the wire.          *)
LEMMA SendAt ==
  ASSUME TypeOK, NEW s \in Senders, NEW e, wire' = [wire EXCEPT ![s] = Append(@, e)]
  PROVE  wire'[s] = Append(wire[s], e) /\ \A t \in Senders \ {s} : wire'[t] = wire[t]
<1>1. DOMAIN wire = Senders
  BY WireTypes
<1> QED BY <1>1

LEMMA TakeAt ==
  ASSUME TypeOK, NEW s \in Senders, wire' = [wire EXCEPT ![s] = Tail(@)]
  PROVE  wire'[s] = Tail(wire[s]) /\ \A t \in Senders \ {s} : wire'[t] = wire[t]
<1>1. DOMAIN wire = Senders
  BY WireTypes
<1> QED BY <1>1

LEMMA AnnounceSentStays ==
  ASSUME TypeOK, AnnounceSent
  PROVE  Places' = Places /\ (NoRepeats => NoRepeats')
<1>1. UNCHANGED <<brokerQueue, fetched, gaveUp, workerQueue, accepted, rewardQueue>>
  BY DEF AnnounceSent
<1>2. \A w \in Workers : wire'[w] = wire[w]
  BY WorkersAre, SendAt DEF AnnounceSent
<1>3. broker.at # "request" /\ broker'.at # "request"
  BY WorkersAre DEF AnnounceSent
<1>4. ASSUME NEW r \in Stops PROVE Places'[r] = Places[r]
  <2>1. CASE r \in {At("queued"), At("fetched"), At("asked"), At("gaveUp"), At("rewarding")}
    BY <1>1, <1>3, <2>1, PlacesAre, PlacesBecome
  <2>2. CASE \E w \in Workers : r \in {<<"sent", w>>, <<"accepted", w>>, <<"ended", w>>}
    BY <1>1, <1>2, <2>2, PlacesAre, PlacesBecome
  <2> QED BY <2>1, <2>2, StopCases
<1>5. Places' = Places
  BY <1>4, SamePlaces
<1>6. NoRepeats => NoRepeats'
  BY <1>1, <1>2 DEF NoRepeats
<1> QED BY <1>5, <1>6

LEMMA ReceiveTaskMoves ==
  ASSUME TypeOK, NoRepeats, Apart, NEW w \in Workers, ReceiveTask(w)
  PROVE  Moves(Head(workerQueue[w]), <<"sent", w>>, <<"accepted", w>>) /\ NoRepeats'
<1> DEFINE k == Head(workerQueue[w])
           e == Event("received", k, HostName(w))
<1>1. /\ workerQueue[w] \in Seq(Tasks) /\ accepted[w] \in Seq(Tasks) /\ workerQueue[w] # <<>>
      /\ k \in Tasks /\ workerQueue \in [Workers -> Seq(Tasks)] /\ accepted \in [Workers -> Seq(Tasks)]
  BY FamilyFacts DEF ReceiveTask, CeleryTypeOK, TypeOK
<1>2. /\ Range(workerQueue'[w]) = Range(workerQueue[w]) \ {k} /\ k \in Range(workerQueue[w])
      /\ IsInjective(workerQueue'[w])
      /\ \A v \in Workers \ {w} : workerQueue'[v] = workerQueue[v]
  <2>1. workerQueue'[w] = Tail(workerQueue[w]) /\ \A v \in Workers \ {w} : workerQueue'[v] = workerQueue[v]
    BY <1>1 DEF ReceiveTask
  <2> QED BY <1>1, <2>1, TailRange DEF NoRepeats
<1>3. k \notin Range(accepted[w])
  <2>1. k \in Places[<<"sent", w>>] /\ Places[<<"accepted", w>>] = Range(accepted[w])
    BY <1>2, PlacesAre
  <2> HIDE DEF k
  <2>2. <<"sent", w>> \in Stops /\ <<"accepted", w>> \in Stops /\ <<"ended", w>> \in Stops
    BY StopCases
  <2> QED BY <2>1, <2>2, OnePlace, StopsDiffer
<1>4. /\ Range(accepted'[w]) = Range(accepted[w]) \union {k} /\ IsInjective(accepted'[w])
      /\ \A v \in Workers \ {w} : accepted'[v] = accepted[v]
  <2>1. accepted'[w] = Append(accepted[w], k) /\ \A v \in Workers \ {w} : accepted'[v] = accepted[v]
    BY <1>1 DEF ReceiveTask
  <2> QED BY <1>1, <1>3, <2>1, AppendRange DEF NoRepeats
<1>5. /\ TasksIn(wire'[w], EndEvents) = TasksIn(wire[w], EndEvents) /\ OnceIn(wire'[w], EndEvents)
      /\ \A v \in Workers \ {w} : wire'[v] = wire[v]
  <2>1. w \in Senders /\ wire[w] \in Seq(EventsOf(w))
    BY WireTypes
  <2>2. e \in EventsOf(w) /\ e \notin EndEvents
    BY <1>1, EventsSent
  <2>3. wire'[w] = Append(wire[w], e) /\ \A v \in Workers \ {w} : wire'[v] = wire[v]
    BY <2>1, WireTypes, SendAt DEF ReceiveTask
  <2>4. OnceIn(wire[w], EndEvents)
    BY DEF NoRepeats
  <2> HIDE DEF e
  <2>5. TasksIn(wire'[w], EndEvents) = TasksIn(wire[w], EndEvents) /\ OnceIn(wire'[w], EndEvents)
    BY <2>1, <2>2, <2>3, <2>4, AppendTasks
  <2> QED BY <2>3, <2>5
<1>6. UNCHANGED <<brokerQueue, fetched, broker, gaveUp, rewardQueue>>
  BY DEF ReceiveTask
<1> HIDE DEF k, e
<1>7. ASSUME NEW r \in Stops \ {<<"sent", w>>, <<"accepted", w>>} PROVE Places'[r] = Places[r]
  <2>1. CASE r \in {At("queued"), At("fetched"), At("asked"), At("gaveUp"), At("rewarding")}
    BY <1>6, <2>1, PlacesAre, PlacesBecome
  <2>2. ASSUME NEW v \in Workers \ {w}, r \in {<<"sent", v>>, <<"accepted", v>>, <<"ended", v>>}
        PROVE  Places'[r] = Places[r]
    <3>1. UNCHANGED <<workerQueue[v], accepted[v], wire[v]>>
      BY <1>2, <1>4, <1>5, <2>2
    <3>2. CASE r = <<"sent", v>>
      BY <3>1, <3>2, PlacesAre, PlacesBecome
    <3>3. CASE r = <<"accepted", v>>
      BY <3>1, <3>3, PlacesAre, PlacesBecome
    <3>4. CASE r = <<"ended", v>>
      BY <3>1, <3>4, PlacesAre, PlacesBecome
    <3> QED BY <2>2, <3>2, <3>3, <3>4
  <2>3. CASE r = <<"ended", w>>
    BY <1>5, <2>3, PlacesAre, PlacesBecome
  <2> QED BY <2>1, <2>2, <2>3, StopCases
<1>8. Moves(k, <<"sent", w>>, <<"accepted", w>>)
  BY <1>2, <1>4, <1>7, PlacesAre, PlacesBecome, StopCases DEF Moves
<1>9. NoRepeats'
  BY <1>2, <1>4, <1>5, <1>6 DEF NoRepeats
<1> QED BY <1>8, <1>9 DEF k

LEMMA EndTaskMoves ==
  ASSUME TypeOK, NoRepeats, Apart, NEW w \in Workers, EndTask(w)
  PROVE  Moves(Head(accepted[w]), <<"accepted", w>>, <<"ended", w>>) /\ NoRepeats'
<1> DEFINE k == Head(accepted[w])
<1>1. PICK type \in {"succeeded", "failed"} :
        wire' = [wire EXCEPT ![w] = Append(@, Event(type, k, HostName(w)))]
  BY DEF EndTask
<1> DEFINE e == Event(type, k, HostName(w))
<1>2. /\ accepted[w] \in Seq(Tasks) /\ accepted[w] # <<>> /\ k \in Tasks
      /\ accepted \in [Workers -> Seq(Tasks)]
  BY FamilyFacts DEF EndTask, CeleryTypeOK, TypeOK
<1>3. /\ Range(accepted'[w]) = Range(accepted[w]) \ {k} /\ k \in Range(accepted[w])
      /\ IsInjective(accepted'[w])
      /\ \A v \in Workers \ {w} : accepted'[v] = accepted[v]
  <2>1. accepted'[w] = Tail(accepted[w]) /\ \A v \in Workers \ {w} : accepted'[v] = accepted[v]
    BY <1>2 DEF EndTask
  <2> QED BY <1>2, <2>1, TailRange DEF NoRepeats
<1>4. k \notin TasksIn(wire[w], EndEvents)
  <2>1. k \in Places[<<"accepted", w>>] /\ Places[<<"ended", w>>] = TasksIn(wire[w], EndEvents)
    BY <1>3, PlacesAre
  <2> HIDE DEF k
  <2>2. <<"sent", w>> \in Stops /\ <<"accepted", w>> \in Stops /\ <<"ended", w>> \in Stops
    BY StopCases
  <2> QED BY <2>1, <2>2, OnePlace, StopsDiffer
<1>5. /\ TasksIn(wire'[w], EndEvents) = TasksIn(wire[w], EndEvents) \union {k}
      /\ OnceIn(wire'[w], EndEvents)
      /\ \A v \in Workers \ {w} : wire'[v] = wire[v]
  <2>1. w \in Senders /\ wire[w] \in Seq(EventsOf(w))
    BY WireTypes
  <2>2. e \in EventsOf(w) /\ e \in EndEvents /\ e.task = k
    BY <1>2, EventsSent DEF Event
  <2>3. wire'[w] = Append(wire[w], e) /\ \A v \in Workers \ {w} : wire'[v] = wire[v]
    BY <1>1, <2>1, SendAt
  <2>4. OnceIn(wire[w], EndEvents)
    BY DEF NoRepeats
  <2> HIDE DEF e, k
  <2> QED BY <1>4, <2>1, <2>2, <2>3, <2>4, AppendTasks
<1>6. UNCHANGED <<brokerQueue, fetched, broker, gaveUp, workerQueue, rewardQueue>>
  BY DEF EndTask
<1> HIDE DEF k, e
<1>7. ASSUME NEW r \in Stops \ {<<"accepted", w>>, <<"ended", w>>} PROVE Places'[r] = Places[r]
  <2>1. CASE r \in {At("queued"), At("fetched"), At("asked"), At("gaveUp"), At("rewarding")}
    BY <1>6, <2>1, PlacesAre, PlacesBecome
  <2>2. ASSUME NEW v \in Workers \ {w}, r \in {<<"accepted", v>>, <<"ended", v>>}
        PROVE  Places'[r] = Places[r]
    <3>1. UNCHANGED <<accepted[v], wire[v]>>
      BY <1>3, <1>5, <2>2
    <3>2. CASE r = <<"accepted", v>>
      BY <3>1, <3>2, PlacesAre, PlacesBecome
    <3>3. CASE r = <<"ended", v>>
      BY <3>1, <3>3, PlacesAre, PlacesBecome
    <3> QED BY <2>2, <3>2, <3>3
  <2>3. ASSUME NEW v \in Workers, r = <<"sent", v>> PROVE Places'[r] = Places[r]
    BY <1>6, <2>3, PlacesAre, PlacesBecome
  <2> QED BY <2>1, <2>2, <2>3, StopCases
<1>8. Moves(k, <<"accepted", w>>, <<"ended", w>>)
  BY <1>3, <1>5, <1>7, PlacesAre, PlacesBecome, StopCases DEF Moves
<1>9. NoRepeats'
  BY <1>3, <1>5, <1>6 DEF NoRepeats
<1> QED BY <1>8, <1>9 DEF k

LEMMA ConsumeOtherStays ==
  ASSUME TypeOK, NoRepeats, NEW s \in Senders, Consume(s), ~OnTaskEnd(Head(wire[s]))
  PROVE  Places' = Places /\ NoRepeats'
<1>1. UNCHANGED <<brokerQueue, fetched, broker, gaveUp, workerQueue, accepted, rewardQueue>>
  BY DEF Consume, OnTaskSent, OnBrokerReceived, OnWorkerReceived
<1>2. Head(wire[s]) \notin EndEvents
  BY DEF Consume, OnTaskSent, OnBrokerReceived, OnWorkerReceived, EndEvents
<1>3. ASSUME NEW w \in Workers
      PROVE  /\ TasksIn(wire'[w], EndEvents) = TasksIn(wire[w], EndEvents)
             /\ OnceIn(wire'[w], EndEvents)
  <2>1. w \in Senders /\ wire[w] \in Seq(EventsOf(w)) /\ OnceIn(wire[w], EndEvents)
    BY WireTypes DEF NoRepeats
  <2>2. CASE s = w
    <3>1. wire[w] # <<>> /\ wire'[w] = Tail(wire[w])
      BY <2>2, TakeAt DEF Consume
    <3> QED BY <1>2, <2>1, <2>2, <3>1, TailTasks
  <2>3. CASE s # w
    BY <2>1, <2>3, TakeAt DEF Consume
  <2> QED BY <2>2, <2>3
<1>4. ASSUME NEW r \in Stops PROVE Places'[r] = Places[r]
  <2>1. CASE r \in {At("queued"), At("fetched"), At("asked"), At("gaveUp"), At("rewarding")}
    BY <1>1, <2>1, PlacesAre, PlacesBecome
  <2>2. ASSUME NEW w \in Workers, r \in {<<"sent", w>>, <<"accepted", w>>, <<"ended", w>>}
        PROVE  Places'[r] = Places[r]
    BY <1>1, <1>3, <2>2, PlacesAre, PlacesBecome
  <2> QED BY <2>1, <2>2, StopCases
<1>5. Places' = Places
  BY <1>4, SamePlaces
<1>6. NoRepeats'
  BY <1>1, <1>3 DEF NoRepeats
<1> QED BY <1>5, <1>6

(* An event at the head of the wire that ends a task comes from the worker it names.             *)
LEMMA EndFromWorker ==
  ASSUME TypeOK, Wires, NEW s \in Senders, Consume(s), OnTaskEnd(Head(wire[s]))
  PROVE  LET e == Head(wire[s])
         IN  /\ s \in Workers /\ e \in EventsOf(s) /\ e \in EndEvents
             /\ WorkerClassOf(e.worker) = s /\ Event(e.type, e.task, s) \in Results
<1> DEFINE e == Head(wire[s])
<1>1. wire[s] # <<>> /\ wire[s] \in Seq(EventsOf(s))
  BY WireTypes DEF Consume
<1>2. e \in EventsOf(s)
  BY <1>1, SeqFacts
<1>3. e.type \in {"succeeded", "failed"}
  BY DEF OnTaskEnd
<1> HIDE DEF e
<1>4. s # "broker" /\ s # "child"
  <2>1. ASSUME s = "broker" PROVE FALSE
    <3>1. e \in [type : {"received"}, task : Tasks, worker : {HostName("broker")}]
      BY <1>2, <2>1, EventsAre
    <3> QED BY <1>3, <3>1
  <2>2. ASSUME s = "child" PROVE FALSE
    <3>1. e \in [type : {"sent"}, task : Tasks, worker : {QueueName(w) : w \in Workers}]
      BY <1>2, <2>2, EventsAre
    <3> QED BY <1>3, <3>1
  <2> QED BY <2>1, <2>2
<1>5. s \in Workers
  BY <1>4 DEF Senders
<1>6. e \in [type : {"received", "succeeded", "failed"}, task : Tasks, worker : {HostName(s)}]
  BY <1>2, <1>5, EventsAre
<1>7. e \in EndEvents
  BY <1>3, <1>5, <1>6 DEF EndEvents
<1>8. Event(e.type, e.task, s) \in Results
  BY <1>3, <1>5, <1>6 DEF Event, Results
<1> QED BY <1>2, <1>5, <1>6, <1>7, <1>8, ClassOfNames DEF e

LEMMA ConsumeEndMoves ==
  ASSUME TypeOK, Wires, NoRepeats, Apart, NEW s \in Senders, Consume(s), OnTaskEnd(Head(wire[s]))
  PROVE  Moves(Head(wire[s]).task, <<"ended", s>>, At("rewarding")) /\ NoRepeats'
<1> DEFINE e == Head(wire[s])
           k == e.task
           res == Event(e.type, k, s)
<1>1. s \in Workers /\ e \in EndEvents /\ res \in Results /\ res.task = k
  BY EndFromWorker DEF Event
<1>2. UNCHANGED <<brokerQueue, fetched, broker, gaveUp, workerQueue, accepted>>
  BY DEF Consume
<1>3. /\ TasksIn(wire'[s], EndEvents) = TasksIn(wire[s], EndEvents) \ {k}
      /\ k \in TasksIn(wire[s], EndEvents) /\ OnceIn(wire'[s], EndEvents)
      /\ \A v \in Workers \ {s} : wire'[v] = wire[v]
  <2>1. wire[s] # <<>> /\ wire[s] \in Seq(EventsOf(s)) /\ OnceIn(wire[s], EndEvents)
    BY <1>1, WireTypes DEF Consume, NoRepeats
  <2>2. wire'[s] = Tail(wire[s]) /\ \A v \in Workers \ {s} : wire'[v] = wire[v]
    BY TakeAt DEF Consume
  <2> QED BY <1>1, <2>1, <2>2, TailTasks
<1>4. k \notin TasksIn(rewardQueue, Results)
  <2>1. k \in Places[<<"ended", s>>] /\ Places[At("rewarding")] = TasksIn(rewardQueue, Results)
    BY <1>1, <1>3, PlacesAre
  <2> HIDE DEF k
  <2> QED BY <1>1, <2>1, OnePlace, StopCases DEF At
<1>5. /\ TasksIn(rewardQueue', Results) = TasksIn(rewardQueue, Results) \union {k}
      /\ OnceIn(rewardQueue', Results)
  <2>1. rewardQueue \in Seq(Results) /\ rewardQueue' = Append(rewardQueue, res)
    BY EndFromWorker DEF OnTaskEnd, ConsumerTypeOK, TypeOK, Results
  <2>2. OnceIn(rewardQueue, Results)
    BY DEF NoRepeats
  <2> HIDE DEF e, res
  <2> QED BY <1>1, <1>4, <2>1, <2>2, AppendTasks
<1> HIDE DEF e, k, res
<1>6. ASSUME NEW r \in Stops \ {<<"ended", s>>, At("rewarding")} PROVE Places'[r] = Places[r]
  <2>1. CASE r \in {At("queued"), At("fetched"), At("asked"), At("gaveUp")}
    BY <1>2, <2>1, PlacesAre, PlacesBecome
  <2>2. ASSUME NEW v \in Workers \ {s}, r = <<"ended", v>> PROVE Places'[r] = Places[r]
    BY <1>3, <2>2, PlacesAre, PlacesBecome
  <2>3. ASSUME NEW v \in Workers, r \in {<<"sent", v>>, <<"accepted", v>>}
        PROVE  Places'[r] = Places[r]
    BY <1>2, <2>3, PlacesAre, PlacesBecome
  <2> QED BY <2>1, <2>2, <2>3, StopCases
<1>7. Moves(k, <<"ended", s>>, At("rewarding"))
  BY <1>1, <1>3, <1>5, <1>6, PlacesAre, PlacesBecome, StopCases DEF Moves, At
<1>8. NoRepeats'
  BY <1>2, <1>3, <1>5 DEF NoRepeats
<1> QED BY <1>7, <1>8 DEF e, k

(* A task leaves its last place for the reward thread.                                           *)
Leaves(k, p) ==
  /\ p \in Stops /\ k \in Places[p]
  /\ \A r \in Stops : Places'[r] = IF r = p THEN Places[p] \ {k} ELSE Places[r]

LEMMA ComputeRewardLeaves ==
  ASSUME TypeOK, NoRepeats, ComputeReward
  PROVE  Leaves(Head(rewardQueue).task, At("rewarding")) /\ NoRepeats'
<1> DEFINE k == Head(rewardQueue).task
<1>1. UNCHANGED <<brokerQueue, fetched, broker, gaveUp, workerQueue, accepted, wire>>
  BY DEF ComputeReward
<1>2. /\ TasksIn(rewardQueue', Results) = TasksIn(rewardQueue, Results) \ {k}
      /\ k \in TasksIn(rewardQueue, Results) /\ OnceIn(rewardQueue', Results)
  <2>1. rewardQueue \in Seq(Results) /\ rewardQueue # <<>> /\ rewardQueue' = Tail(rewardQueue)
    BY DEF ComputeReward, ConsumerTypeOK, TypeOK, Results
  <2>2. OnceIn(rewardQueue, Results) /\ Head(rewardQueue) \in Results
    BY <2>1, SeqFacts DEF NoRepeats
  <2> QED BY <2>1, <2>2, TailTasks
<1> HIDE DEF k
<1>3. ASSUME NEW r \in Stops \ {At("rewarding")} PROVE Places'[r] = Places[r]
  <2>1. CASE r \in {At("queued"), At("fetched"), At("asked"), At("gaveUp")}
    BY <1>1, <2>1, PlacesAre, PlacesBecome
  <2>2. CASE \E w \in Workers : r \in {<<"sent", w>>, <<"accepted", w>>, <<"ended", w>>}
    BY <1>1, <2>2, PlacesAre, PlacesBecome
  <2> QED BY <2>1, <2>2, StopCases
<1>4. Leaves(k, At("rewarding"))
  BY <1>2, <1>3, PlacesAre, PlacesBecome, StopCases DEF Leaves
<1>5. NoRepeats'
  BY <1>1, <1>2 DEF NoRepeats
<1> QED BY <1>4, <1>5 DEF k

LEMMA MoveKeeps ==
  ASSUME Apart, NEW k, NEW p, NEW q, Moves(k, p, q)
  PROVE  Apart' /\ InFlight' = InFlight
<1>1. ASSUME NEW r \in Stops, NEW s \in Stops, r # s PROVE Places'[r] \intersect Places'[s] = {}
  BY <1>1 DEF Moves, Apart
<1>2. ASSUME NEW x PROVE x \in InFlight' <=> x \in InFlight
  <2>1. (x \in InFlight <=> \E r \in Stops : x \in Places[r])
        /\ (x \in InFlight' <=> \E r \in Stops : x \in Places'[r])
    BY DEF InFlight
  <2>2. ASSUME NEW r \in Stops, x \in Places[r] PROVE x \in InFlight'
    <3>1. CASE x = k
      <4>1. q \in Stops /\ k \in Places'[q]
        BY DEF Moves
      <4> QED BY <2>1, <3>1, <4>1
    <3>2. CASE x # k
      <4>1. x \in Places'[r]
        BY <2>2, <3>2 DEF Moves
      <4> QED BY <2>1, <4>1
    <3> QED BY <3>1, <3>2
  <2>3. ASSUME NEW r \in Stops, x \in Places'[r] PROVE x \in InFlight
    <3>1. x \in Places[r] \/ x \in Places[p]
      BY <2>3 DEF Moves
    <3>2. p \in Stops
      BY DEF Moves
    <3> QED BY <2>1, <3>1, <3>2
  <2> QED BY <2>1, <2>2, <2>3
<1> QED BY <1>1, <1>2 DEF Apart

LEMMA LeaveKeeps ==
  ASSUME Apart, NEW k, NEW p, Leaves(k, p)
  PROVE  Apart' /\ InFlight' = InFlight \ {k} /\ k \in InFlight
<1>1. ASSUME NEW r \in Stops, NEW s \in Stops, r # s PROVE Places'[r] \intersect Places'[s] = {}
  BY <1>1 DEF Leaves, Apart
<1>2. p \in Stops /\ k \in Places[p]
  BY DEF Leaves
<1>3. ASSUME NEW x PROVE x \in InFlight' <=> x \in InFlight \ {k}
  <2>1. (x \in InFlight <=> \E r \in Stops : x \in Places[r])
        /\ (x \in InFlight' <=> \E r \in Stops : x \in Places'[r])
    BY DEF InFlight
  <2>2. ASSUME NEW r \in Stops, x \in Places[r], x # k PROVE x \in Places'[r]
    BY <2>2 DEF Leaves
  <2>3. ASSUME NEW r \in Stops, x \in Places'[r] PROVE x \in Places[r] /\ x # k
    BY <2>3 DEF Leaves, Apart
  <2> QED BY <2>1, <2>2, <2>3
<1>4. k \in InFlight
  BY <1>2 DEF InFlight
<1> QED BY <1>1, <1>3, <1>4 DEF Apart

LEMMA PlacesType == ASSUME TypeOK, NEW p \in Stops PROVE Places[p] \subseteq Tasks
<1>1. /\ brokerQueue \in Seq(Tasks) /\ fetched \in Seq(Tasks) /\ gaveUp \subseteq Tasks
      /\ broker.at = "request" => broker.task \in Tasks
      /\ workerQueue \in [Workers -> Seq(Tasks)] /\ accepted \in [Workers -> Seq(Tasks)]
  BY DEF TypeOK, BrokerTypeOK, CeleryTypeOK
<1>2. ASSUME NEW q \in Seq(Tasks) PROVE Range(q) \subseteq Tasks
  BY DEF Range
<1>3. ASSUME NEW q PROVE TasksIn(q, EndEvents) \subseteq Tasks /\ TasksIn(q, Results) \subseteq Tasks
  BY DEF TasksIn, EndEvents, Results
<1>4. CASE p \in {At("queued"), At("fetched"), At("rewarding")}
  BY <1>1, <1>2, <1>3, <1>4, PlacesAre
<1>5. CASE p \in {At("asked"), At("gaveUp")}
  BY <1>1, <1>5, PlacesAre
<1>6. ASSUME NEW w \in Workers, p \in {<<"sent", w>>, <<"accepted", w>>, <<"ended", w>>}
      PROVE  Places[p] \subseteq Tasks
  <2>1. workerQueue[w] \in Seq(Tasks) /\ accepted[w] \in Seq(Tasks)
    BY <1>1
  <2>2. Range(workerQueue[w]) \subseteq Tasks /\ Range(accepted[w]) \subseteq Tasks
        /\ TasksIn(wire[w], EndEvents) \subseteq Tasks
    BY <1>2, <1>3, <2>1
  <2> QED BY <1>6, <2>2, PlacesAre
<1> QED BY <1>4, <1>5, <1>6, StopCases

LEMMA InFlightType ==
  ASSUME TypeOK PROVE InFlight \subseteq Tasks /\ IsFiniteSet(InFlight) /\ Cardinality(InFlight) \in Nat
<1>1. InFlight \in SUBSET Tasks
  BY PlacesType DEF InFlight
<1>2. IsFiniteSet(Tasks)
  BY TaskPathAssumption, FS_Interval DEF Tasks
<1> QED BY <1>1, <1>2, FS_Subset, FS_CardinalityType

(* What the other steps leave where it is.                                                       *)
Moving ==
  \/ FetchBrokerTask \/ TaskBroker \/ AnnounceSent \/ (\E w \in Workers : Chooses(w))
  \/ Raises
  \/ (\E w \in Workers : ReceiveTask(w) \/ EndTask(w))
  \/ (\E s \in Senders : Consume(s)) \/ ComputeReward

LEMMA OthersStay ==
  ASSUME [Next]_vars, ~Moving
  PROVE  UNCHANGED <<placeVars, load, utilization, waiting, taskCompleted>>
<1> USE DEF placeVars
<1>1. CASE \E job \in jobs : RunJob(job)
  BY <1>1 DEF RunJob
<1>2. CASE TakeCreation \/ GetState \/ SaveTrajectory \/ AddNextState \/ SetPrevious
  BY <1>2 DEF TakeCreation, GetState, SaveTrajectory, AddNextState, SetPrevious
<1>3. CASE UpdateTrajectoryReward \/ CheckTrajectoryReward \/ AreAllTaskExecuted
  BY <1>3 DEF UpdateTrajectoryReward, CheckTrajectoryReward, AreAllTaskExecuted
<1>4. CASE AgentConsumer
  BY <1>4 DEF AgentConsumer, ObserveReward, SaveHistory
<1>5. CASE UNCHANGED vars
  BY <1>5
<1> QED BY <1>1, <1>2, <1>3, <1>4, <1>5, NextSteps DEF Moving, Steps, StateThread, RewardThread

(* A task is in one place, and stays in flight until the reward thread takes it.                 *)
LEMMA PlacesStep ==
  ASSUME TypeOK, Wires, NoRepeats, Apart, [Next]_vars
  PROVE  /\ NoRepeats' /\ Apart'
         /\ ~ComputeReward => InFlight' = InFlight
         /\ ComputeReward => LET k == Head(rewardQueue).task
                             IN  InFlight' = InFlight \ {k} /\ k \in InFlight
<1>1. CASE ComputeReward
  BY <1>1, ComputeRewardLeaves, LeaveKeeps
<1>2. ASSUME ~ComputeReward PROVE NoRepeats' /\ Apart' /\ InFlight' = InFlight
  <2>1. CASE FetchBrokerTask \/ TaskBroker \/ Raises
    BY <2>1, FetchMoves, TaskBrokerMoves, RequestFailsMoves, MoveKeeps
  <2>2. CASE \E w \in Workers : Chooses(w) \/ ReceiveTask(w) \/ EndTask(w)
    BY <2>2, ChooseActionMoves, ReceiveTaskMoves, EndTaskMoves, MoveKeeps
  <2>3. CASE AnnounceSent
    BY <2>3, AnnounceSentStays DEF Apart, InFlight
  <2>4. ASSUME NEW s \in Senders, Consume(s) PROVE NoRepeats' /\ Apart' /\ InFlight' = InFlight
    <3> HIDE DEF Senders
    <3>1. CASE OnTaskEnd(Head(wire[s]))
      BY <2>4, <3>1, ConsumeEndMoves, MoveKeeps
    <3>2. CASE ~OnTaskEnd(Head(wire[s]))
      BY <2>4, <3>2, ConsumeOtherStays DEF Apart, InFlight
    <3> QED BY <3>1, <3>2
  <2>5. CASE ~Moving
    BY <2>5, OthersStay, PlacesFrame DEF InFlight
  <2> HIDE DEF Senders
  <2> QED BY <1>2, <2>1, <2>2, <2>3, <2>4, <2>5 DEF Moving
<1> QED BY <1>1, <1>2

LEMMA WiresStep == ASSUME TypeOK, Wires, [Next]_vars PROVE Wires'
<1>1. \A s \in Senders : wire'[s] \in Seq(EventsOf(s))
  BY NextType DEF TypeOK, CeleryTypeOK
<1>2. ASSUME NEW s \in Senders, NEW i \in DOMAIN wire'[s] PROVE wire'[s][i] \in EventsOf(s)
  <2> DEFINE q == wire'[s]
             E == EventsOf(s)
  <2>1. q \in Seq(E) /\ i \in DOMAIN q
    BY <1>1, <1>2
  <2> HIDE DEF q, E
  <2>2. q[i] \in E
    BY <2>1
  <2> QED BY <2>2 DEF q, E
<1>3. ASSUME NEW i \in DOMAIN wire'["child"] PROVE wire'["child"][i].type = "sent"
  <2>1. wire'["child"][i] \in EventsOf("child")
    BY <1>2 DEF Senders
  <2> HIDE DEF Senders
  <2>2. wire'["child"][i] \in [type : {"sent"}, task : Tasks, worker : {QueueName(w) : w \in Workers}]
    BY <2>1, EventsAre
  <2> QED BY <2>2
<1>4. ASSUME NEW w \in Workers, NEW i \in DOMAIN wire'[w]
      PROVE  wire'[w][i].worker = HostName(w) /\ wire'[w][i].type # "sent"
  <2>1. wire'[w][i] \in EventsOf(w)
    BY <1>2 DEF Senders
  <2>2. wire'[w][i] \in
          [type : {"received", "succeeded", "failed"}, task : Tasks, worker : {HostName(w)}]
    BY <2>1, EventsAre
  <2> QED BY <2>2
<1> QED BY <1>3, <1>4 DEF Wires

-----------------------------------------------------------------------------
(* What a worker has told: of a task it received, that it executes it or that it ended it since; *)
(* of a task it has accepted or ended, that it received it first, if the consumer does not know. *)
Told(q, A) ==
  \A i \in DOMAIN q : q[i].type = "received" =>
    \/ q[i].task \in A
    \/ \E j \in DOMAIN q : j > i /\ q[j] \in EndEvents /\ q[j].task = q[i].task

Noticed(q, A, known) ==
  /\ \A k \in A : k \in known \/ \E i \in DOMAIN q : q[i].type = "received" /\ q[i].task = k
  /\ \A i \in DOMAIN q : q[i] \in EndEvents =>
       \/ q[i].task \in known
       \/ \E j \in DOMAIN q : j < i /\ q[j].type = "received" /\ q[j].task = q[i].task

LEMMA TellReceived ==
  ASSUME NEW S, NEW q \in Seq(S), NEW e \in S, e.type = "received", NEW A, NEW known
  PROVE  /\ Told(q, A) => Told(Append(q, e), A \union {e.task})
         /\ Noticed(q, A, known) => Noticed(Append(q, e), A \union {e.task}, known)
<1> DEFINE n == Len(q)
           r == Append(q, e)
<1>1. /\ DOMAIN r = 1..n+1 /\ DOMAIN q = 1..n /\ n \in Nat /\ r[n+1] = e
      /\ \A i \in 1..n : r[i] = q[i]
  BY AppendAt
<1>2. e \notin EndEvents
  BY DEF EndEvents
<1> HIDE DEF n, r
<1>3. ASSUME Told(q, A) PROVE Told(r, A \union {e.task})
  BY <1>1, <1>3 DEF Told
<1>4. ASSUME Noticed(q, A, known) PROVE Noticed(r, A \union {e.task}, known)
  BY <1>1, <1>2, <1>4 DEF Noticed
<1> QED BY <1>3, <1>4 DEF r

LEMMA TellEnd ==
  ASSUME NEW S, NEW q \in Seq(S), NEW e \in S, e \in EndEvents, NEW A, NEW known, e.task \in A
  PROVE  /\ Told(q, A) => Told(Append(q, e), A \ {e.task})
         /\ Noticed(q, A, known) => Noticed(Append(q, e), A \ {e.task}, known)
<1> DEFINE n == Len(q)
           r == Append(q, e)
<1>1. /\ DOMAIN r = 1..n+1 /\ DOMAIN q = 1..n /\ n \in Nat /\ r[n+1] = e
      /\ \A i \in 1..n : r[i] = q[i]
  BY AppendAt
<1>2. e.type # "received"
  BY DEF EndEvents
<1> HIDE DEF n, r
<1>3. ASSUME Told(q, A) PROVE Told(r, A \ {e.task})
  BY <1>1, <1>2, <1>3 DEF Told
<1>4. ASSUME Noticed(q, A, known) PROVE Noticed(r, A \ {e.task}, known)
  BY <1>1, <1>2, <1>4 DEF Noticed
<1> QED BY <1>3, <1>4 DEF r

LEMMA HearHead ==
  ASSUME NEW S, NEW q \in Seq(S), q # <<>>, NEW A, NEW known, NEW more, known \subseteq more,
         Head(q).type = "received" => Head(q).task \in more
  PROVE  /\ Told(q, A) => Told(Tail(q), A)
         /\ Noticed(q, A, known) => Noticed(Tail(q), A, more)
         /\ Noticed(q, A, known) /\ Head(q) \in EndEvents => Head(q).task \in known
<1> DEFINE n == Len(q)
           t == Tail(q)
<1>1. /\ DOMAIN t = 1..n-1 /\ DOMAIN q = 1..n /\ n \in Nat \ {0}
      /\ \A i \in 1..n-1 : t[i] = q[i+1]
      /\ Head(q) = q[1]
  BY TailAt
<1> HIDE DEF n, t
<1>2. \A j \in 2..n : j-1 \in 1..n-1 /\ t[j-1] = q[j]
  BY <1>1
<1>3. ASSUME Told(q, A) PROVE Told(t, A)
  <2> SUFFICES ASSUME NEW i \in 1..n-1, t[i].type = "received", t[i].task \notin A
               PROVE  \E j \in 1..n-1 : j > i /\ t[j] \in EndEvents /\ t[j].task = t[i].task
    BY <1>1 DEF Told
  <2>0. i+1 \in 1..n /\ q[i+1].type = "received" /\ q[i+1].task \notin A
    BY <1>1
  <2>1. PICK j \in 1..n : j > i+1 /\ q[j] \in EndEvents /\ q[j].task = q[i+1].task
    BY <1>1, <1>3, <2>0 DEF Told
  <2>2. j-1 \in 1..n-1 /\ t[j-1] = q[j] /\ j-1 > i
    BY <1>1, <1>2, <2>1
  <2> QED BY <1>1, <2>1, <2>2
<1>4. ASSUME Noticed(q, A, known) PROVE Noticed(t, A, more)
  <2>1. ASSUME NEW k \in A, k \notin more
        PROVE  \E i \in 1..n-1 : t[i].type = "received" /\ t[i].task = k
    <3>1. PICK i \in 1..n : q[i].type = "received" /\ q[i].task = k
      BY <1>1, <1>4, <2>1 DEF Noticed
    <3>2. i # 1
      BY <1>1, <2>1, <3>1
    <3> QED BY <1>1, <1>2, <3>1, <3>2
  <2>2. ASSUME NEW i \in 1..n-1, t[i] \in EndEvents, t[i].task \notin more
        PROVE  \E j \in 1..n-1 : j < i /\ t[j].type = "received" /\ t[j].task = t[i].task
    <3>1. PICK j \in 1..n : j < i+1 /\ q[j].type = "received" /\ q[j].task = q[i+1].task
      BY <1>1, <1>4, <2>2 DEF Noticed
    <3>2. j # 1
      BY <1>1, <2>2, <3>1
    <3>3. j-1 \in 1..n-1 /\ t[j-1] = q[j] /\ j-1 < i
      BY <1>1, <1>2, <3>1, <3>2
    <3> QED BY <1>1, <3>1, <3>3
  <2> QED BY <1>1, <2>1, <2>2 DEF Noticed
<1>5. ASSUME Noticed(q, A, known), q[1] \in EndEvents PROVE q[1].task \in known
  BY <1>1, <1>5 DEF Noticed
<1> QED BY <1>1, <1>3, <1>4, <1>5 DEF t

(* The tasks whose waiting time the consumer knows: the reward thread needs it.                  *)
Known == {k \in Tasks : waiting[k] = "waited"}

Heard ==
  /\ \A w \in Workers : /\ Told(wire[w], Range(accepted[w]))
                        /\ Noticed(wire[w], Range(accepted[w]), Known)
  /\ TasksIn(rewardQueue, Results) \subseteq Known

LEMMA HeardFrame ==
  ASSUME Heard, UNCHANGED <<accepted, waiting, rewardQueue>>, \A w \in Workers : wire'[w] = wire[w]
  PROVE  Heard'
BY DEF Heard, Known

LEMMA ReceiveTaskHeard ==
  ASSUME TypeOK, Heard, NEW w \in Workers, ReceiveTask(w)
  PROVE  Heard'
<1> DEFINE k == Head(workerQueue[w])
           e == Event("received", k, HostName(w))
<1>1. k \in Tasks /\ accepted \in [Workers -> Seq(Tasks)] /\ accepted[w] \in Seq(Tasks)
  BY FamilyFacts DEF ReceiveTask, CeleryTypeOK, TypeOK
<1>2. e.type = "received" /\ e.task = k /\ e \in EventsOf(w) /\ wire[w] \in Seq(EventsOf(w))
  BY <1>1, WireTypes, EventsSent DEF Event
<1>3. wire'[w] = Append(wire[w], e) /\ \A v \in Workers \ {w} : wire'[v] = wire[v]
  BY WireTypes, SendAt DEF ReceiveTask
<1>4. accepted'[w] = Append(accepted[w], k) /\ \A v \in Workers \ {w} : accepted'[v] = accepted[v]
  BY <1>1 DEF ReceiveTask
<1>5. Known' = Known /\ rewardQueue' = rewardQueue
  BY DEF Known, ReceiveTask
<1> HIDE DEF k, e
<1>6. Range(accepted'[w]) = Range(accepted[w]) \union {e.task}
  BY <1>1, <1>2, <1>4, AppendRange
<1>7. /\ Told(wire'[w], Range(accepted'[w])) /\ Noticed(wire'[w], Range(accepted'[w]), Known')
  <2>1. Told(wire[w], Range(accepted[w])) /\ Noticed(wire[w], Range(accepted[w]), Known)
    BY DEF Heard
  <2> QED BY <1>2, <1>3, <1>5, <1>6, <2>1, TellReceived
<1> QED BY <1>3, <1>4, <1>5, <1>7 DEF Heard

LEMMA EndTaskHeard ==
  ASSUME TypeOK, NoRepeats, Heard, NEW w \in Workers, EndTask(w)
  PROVE  Heard'
<1> DEFINE k == Head(accepted[w])
<1>1. PICK type \in {"succeeded", "failed"} :
        wire' = [wire EXCEPT ![w] = Append(@, Event(type, k, HostName(w)))]
  BY DEF EndTask
<1> DEFINE e == Event(type, k, HostName(w))
<1>2. /\ accepted[w] \in Seq(Tasks) /\ accepted[w] # <<>> /\ k \in Tasks
      /\ accepted \in [Workers -> Seq(Tasks)]
  BY FamilyFacts DEF EndTask, CeleryTypeOK, TypeOK
<1>3. e \in EndEvents /\ e.task = k /\ e \in EventsOf(w) /\ wire[w] \in Seq(EventsOf(w))
  BY <1>2, WireTypes, EventsSent DEF Event
<1>4. wire'[w] = Append(wire[w], e) /\ \A v \in Workers \ {w} : wire'[v] = wire[v]
  BY <1>1, WireTypes, SendAt
<1>5. accepted'[w] = Tail(accepted[w]) /\ \A v \in Workers \ {w} : accepted'[v] = accepted[v]
  BY <1>2 DEF EndTask
<1>6. Known' = Known /\ rewardQueue' = rewardQueue
  BY DEF Known, EndTask
<1>7. Range(accepted'[w]) = Range(accepted[w]) \ {e.task} /\ e.task \in Range(accepted[w])
  BY <1>2, <1>3, <1>5, TailRange DEF NoRepeats
<1> HIDE DEF k, e
<1>8. /\ Told(wire'[w], Range(accepted'[w])) /\ Noticed(wire'[w], Range(accepted'[w]), Known')
  <2>1. Told(wire[w], Range(accepted[w])) /\ Noticed(wire[w], Range(accepted[w]), Known)
    BY DEF Heard
  <2>2. /\ Told(Append(wire[w], e), Range(accepted[w]) \ {e.task})
        /\ Noticed(Append(wire[w], e), Range(accepted[w]) \ {e.task}, Known)
    BY <1>3, <1>7, <2>1, TellEnd
  <2> QED BY <1>4, <1>6, <1>7, <2>2
<1> QED BY <1>4, <1>5, <1>6, <1>8 DEF Heard

LEMMA ConsumeHeard ==
  ASSUME TypeOK, Wires, Heard, NEW s \in Senders, Consume(s)
  PROVE  Heard'
<1> DEFINE e == Head(wire[s])
<1>1. wire[s] # <<>> /\ wire[s] \in Seq(EventsOf(s)) /\ e \in EventsOf(s)
  BY WireTypes, SeqFacts DEF Consume
<1>2. wire'[s] = Tail(wire[s]) /\ \A t \in Senders \ {s} : wire'[t] = wire[t]
  BY TakeAt DEF Consume
<1>3. e.task \in Tasks /\ waiting \in [Tasks -> {"unknown", "started", "waited"}]
  BY <1>1, EventsAreEvents DEF Events, ConsumerTypeOK, TypeOK
<1>4. OnTaskSent(e) \/ OnBrokerReceived(s, e) \/ OnWorkerReceived(s, e) \/ OnTaskEnd(e)
  BY DEF Consume
<1>5. accepted' = accepted
  BY DEF Consume
<1> HIDE DEF e, Senders
<1>6. Known \subseteq Known' /\ (e.type = "received" /\ s # "broker" => e.task \in Known')
  BY <1>3, <1>4 DEF Known, OnTaskSent, OnBrokerReceived, OnWorkerReceived, OnTaskEnd
<1>7. ASSUME NEW w \in Workers
      PROVE  /\ Told(wire'[w], Range(accepted[w])) /\ Noticed(wire'[w], Range(accepted[w]), Known')
             /\ s = w /\ e \in EndEvents => e.task \in Known
  <2>1. /\ Told(wire[w], Range(accepted[w])) /\ Noticed(wire[w], Range(accepted[w]), Known)
        /\ w \in Senders /\ w # "broker"
    BY WireTypes, WorkersAre DEF Heard
  <2>2. CASE s = w
    <3>1. e.type = "received" => e.task \in Known'
      BY <1>6, <2>1, <2>2
    <3>2. /\ wire[w] # <<>> /\ wire[w] \in Seq(EventsOf(w)) /\ wire'[w] = Tail(wire[w])
          /\ e = Head(wire[w])
      BY <1>1, <1>2, <2>2 DEF e
    <3>3. /\ Told(Tail(wire[w]), Range(accepted[w]))
          /\ Noticed(Tail(wire[w]), Range(accepted[w]), Known')
          /\ Head(wire[w]) \in EndEvents => Head(wire[w]).task \in Known
      BY <1>6, <2>1, <3>1, <3>2, HearHead
    <3> QED BY <3>2, <3>3
  <2>3. CASE s # w
    <3>1. wire'[w] = wire[w]
      BY <1>2, <2>1, <2>3
    <3> QED BY <1>6, <2>1, <2>3, <3>1 DEF Noticed
  <2> QED BY <2>2, <2>3
<1>8. TasksIn(rewardQueue', Results) \subseteq Known'
  <2>1. CASE OnTaskEnd(e)
    <3> DEFINE r == Event(e.type, e.task, s)
    <3>1. s \in Workers /\ e \in EndEvents /\ r \in Results /\ WorkerClassOf(e.worker) = s
      BY <2>1, EndFromWorker DEF e
    <3>2. e.task \in Known
      BY <1>7, <3>1
    <3>3. rewardQueue \in Seq(Results) /\ rewardQueue' = Append(rewardQueue, r) /\ r.task = e.task
      BY <2>1, <3>1 DEF OnTaskEnd, ConsumerTypeOK, TypeOK, Results, Event
    <3> HIDE DEF r
    <3>4. TasksIn(rewardQueue', Results) = TasksIn(rewardQueue, Results) \union {e.task}
      BY <3>1, <3>3, AppendTasks
    <3> QED BY <1>6, <3>2, <3>4 DEF Heard
  <2>2. CASE ~OnTaskEnd(e)
    <3>1. rewardQueue' = rewardQueue
      BY <1>4, <2>2 DEF OnTaskSent, OnBrokerReceived, OnWorkerReceived
    <3> QED BY <1>6, <3>1 DEF Heard
  <2> QED BY <2>1, <2>2
<1> QED BY <1>5, <1>7, <1>8 DEF Heard

LEMMA ComputeRewardHeard ==
  ASSUME TypeOK, NoRepeats, Heard, ComputeReward
  PROVE  Heard' /\ Head(rewardQueue) \in Results /\ Head(rewardQueue).task \in Known
<1>1. rewardQueue \in Seq(Results) /\ rewardQueue # <<>> /\ rewardQueue' = Tail(rewardQueue)
  BY DEF ComputeReward, ConsumerTypeOK, TypeOK, Results
<1>2. OnceIn(rewardQueue, Results) /\ Head(rewardQueue) \in Results
  BY <1>1, SeqFacts DEF NoRepeats
<1>3. /\ TasksIn(rewardQueue', Results) \subseteq TasksIn(rewardQueue, Results)
      /\ Head(rewardQueue).task \in TasksIn(rewardQueue, Results)
  BY <1>1, <1>2, TailTasks
<1>4. UNCHANGED <<accepted, wire, waiting>>
  BY DEF ComputeReward
<1> QED BY <1>2, <1>3, <1>4 DEF Heard, Known

LEMMA HeardStep == ASSUME TypeOK, Wires, NoRepeats, Heard, [Next]_vars PROVE Heard'
<1>1. CASE \E w \in Workers : ReceiveTask(w) \/ EndTask(w)
  BY <1>1, ReceiveTaskHeard, EndTaskHeard
<1>2. CASE \E s \in Senders : Consume(s)
  <2> HIDE DEF Senders
  <2> QED BY <1>2, ConsumeHeard
<1>3. CASE ComputeReward
  BY <1>3, ComputeRewardHeard
<1>4. CASE FetchBrokerTask \/ AnnounceSent
  <2>1. \A w \in Workers : wire'[w] = wire[w]
    BY <1>4, WorkersAre, SendAt DEF FetchBrokerTask, AnnounceSent
  <2> QED BY <1>4, <2>1, HeardFrame DEF FetchBrokerTask, AnnounceSent
<1>5. CASE TaskBroker \/ (\E w \in Workers : Chooses(w)) \/ Raises \/ ~Moving
  BY <1>5, OthersStay, HeardFrame DEF TaskBroker, Chooses, Raises, RetryOrGiveUp, placeVars
<1> HIDE DEF Senders
<1> QED BY <1>1, <1>2, <1>3, <1>4, <1>5 DEF Moving

-----------------------------------------------------------------------------
(* Every task is in flight or counted by the reward thread, and a task in flight has no reward.  *)
Counted == taskCompleted + Cardinality(InFlight) = NumTasks

RewardOnce ==
  /\ \A k \in InFlight : store[k].reward = NoWorker /\ (rewardThread # Idle => rewardThread.task # k)
  /\ rewardThread.at = "write" => store[rewardThread.task].reward = NoWorker

EndOnce == completions <= 1 /\ (completions = 1 => taskCompleted = NumTasks /\ rewardThread = Idle)

(* No reward is lost: the waiting time is known when the reward thread needs it.                 *)
LEMMA RewardComputed ==
  ASSUME TypeOK, NoRepeats, Heard, ComputeReward
  PROVE  LET e == Head(rewardQueue)
         IN  /\ taskCompleted' = taskCompleted + 1
             /\ rewardThread' = [task |-> e.task, at |-> "write",
                                 reward |-> IF e.type = "failed" THEN NoWorker ELSE e.worker]
<1>1. waiting[Head(rewardQueue).task] = "waited"
  BY ComputeRewardHeard DEF Known
<1> QED BY <1>1 DEF ComputeReward

LEMMA CountedStep ==
  ASSUME TypeOK, Wires, NoRepeats, Apart, Heard, Counted, [Next]_vars
  PROVE  Counted'
<1>1. taskCompleted \in Nat /\ IsFiniteSet(InFlight) /\ Cardinality(InFlight) \in Nat
  BY InFlightType DEF TypeOK, BuilderTypeOK
<1>2. CASE ComputeReward
  <2> DEFINE k == Head(rewardQueue).task
  <2>1. InFlight' = InFlight \ {k} /\ k \in InFlight /\ taskCompleted' = taskCompleted + 1
    BY <1>2, PlacesStep, RewardComputed
  <2> HIDE DEF k
  <2>2. Cardinality(InFlight') = Cardinality(InFlight) - 1
    BY <1>1, <2>1, FS_RemoveElement
  <2> QED BY <1>1, <2>1, <2>2, TaskPathAssumption DEF Counted
<1>3. CASE ~ComputeReward
  <2>1. InFlight' = InFlight
    BY <1>3, PlacesStep
  <2>2. taskCompleted' = taskCompleted
    BY <1>3, OthersStay DEF Moving, FetchBrokerTask, TaskBroker, AnnounceSent, Chooses,
       Raises, RetryOrGiveUp, ReceiveTask, EndTask, Consume
  <2> QED BY <2>1, <2>2 DEF Counted
<1> QED BY <1>2, <1>3

LEMMA RewardWritten ==
  ASSUME TypeOK, UpdateTrajectoryReward
  PROVE  /\ \A k \in Tasks \ {rewardThread.task} : store'[k].reward = store[k].reward
         /\ rewardThread # Idle /\ rewardThread'.at = "check" /\ rewardThread'.task = rewardThread.task
<1>1. rewardThread \in [task : Tasks, at : {"write", "check", "count"}, reward : MaybeWorker]
  BY RewardThreadType DEF UpdateTrajectoryReward, TypeOK
<1> QED BY <1>1 DEF UpdateTrajectoryReward, TypeOK, StoreTypeOK

(* Only the reward thread stores a reward.                                                       *)
LEMMA RewardsFrame ==
  ASSUME TypeOK, [Next]_vars, ~UpdateTrajectoryReward
  PROVE  \A k \in Tasks : store'[k].reward = store[k].reward
<1>1. CASE UNCHANGED store
  BY <1>1
<1>2. ASSUME NEW job \in jobs, RunJob(job) PROVE \A k \in Tasks : store'[k].reward = store[k].reward
  BY <1>2 DEF RunJob, TypeOK, StoreTypeOK
<1>3. CASE SaveTrajectory
  BY <1>3 DEF SaveTrajectory, TypeOK, StoreTypeOK
<1>4. CASE AddNextState
  BY <1>4 DEF AddNextState, HasPrevious, TypeOK, StoreTypeOK
<1>5. UNCHANGED store \/ (\E job \in jobs : RunJob(job)) \/ SaveTrajectory \/ AddNextState
  BY NextSteps DEF Steps, StateThread, RewardThread, AgentConsumer, FetchBrokerTask, Raises, RetryOrGiveUp,
         TaskBroker, AnnounceSent, Chooses, ReceiveTask, EndTask, Consume, TakeCreation,
         GetState, SetPrevious, ComputeReward, CheckTrajectoryReward, AreAllTaskExecuted,
         ObserveReward, SaveHistory
<1> QED BY <1>1, <1>2, <1>3, <1>4, <1>5

LEMMA RewardThreadFrame ==
  ASSUME [Next]_vars, ~RewardThread
  PROVE  UNCHANGED <<rewardThread, taskCompleted, completions>>
<1>1. CASE FetchBrokerTask \/ Raises \/ TaskBroker \/ AnnounceSent
  BY <1>1 DEF FetchBrokerTask, Raises, RetryOrGiveUp, TaskBroker, AnnounceSent
<1>2. CASE \E w \in Workers : Chooses(w) \/ ReceiveTask(w) \/ EndTask(w)
  BY <1>2 DEF Chooses, ReceiveTask, EndTask
<1>3. CASE (\E job \in jobs : RunJob(job)) \/ (\E s \in Senders : Consume(s))
  <2> HIDE DEF Senders
  <2> QED BY <1>3 DEF RunJob, Consume
<1>4. CASE TakeCreation \/ GetState \/ SaveTrajectory \/ AddNextState \/ SetPrevious
  BY <1>4 DEF TakeCreation, GetState, SaveTrajectory, AddNextState, SetPrevious
<1>5. CASE AgentConsumer
  BY <1>5 DEF AgentConsumer, ObserveReward, SaveHistory
<1>6. CASE UNCHANGED vars
  BY <1>6
<1> HIDE DEF Senders
<1> QED BY <1>1, <1>2, <1>3, <1>4, <1>5, <1>6, NextSteps DEF Steps, StateThread

LEMMA RewardOnceStep ==
  ASSUME TypeOK, Wires, NoRepeats, Apart, Heard, RewardOnce, [Next]_vars
  PROVE  RewardOnce'
<1>1. InFlight \subseteq Tasks
  BY InFlightType
<1>2. CASE ComputeReward
  <2> DEFINE k == Head(rewardQueue).task
  <2>1. InFlight' = InFlight \ {k} /\ k \in InFlight
    BY <1>2, PlacesStep
  <2>2. rewardThread'.task = k /\ rewardThread'.at = "write" /\ rewardThread = Idle /\ store' = store
    BY <1>2, RewardComputed DEF ComputeReward
  <2> HIDE DEF k
  <2> QED BY <2>1, <2>2 DEF RewardOnce
<1>3. CASE UpdateTrajectoryReward
  <2>1. InFlight' = InFlight
    BY <1>3, OthersStay, PlacesStep DEF UpdateTrajectoryReward, ComputeReward
  <2>2. rewardThread # Idle /\ rewardThread'.at = "check" /\ rewardThread'.task = rewardThread.task
    BY <1>3, RewardWritten
  <2>3. ASSUME NEW k \in InFlight
        PROVE  store'[k].reward = NoWorker /\ (rewardThread' # Idle => rewardThread'.task # k)
    <3>1. k \in Tasks \ {rewardThread.task} /\ store[k].reward = NoWorker
      BY <1>1, <2>2 DEF RewardOnce
    <3> QED BY <1>3, <2>2, <3>1, RewardWritten
  <2> QED BY <2>1, <2>2, <2>3 DEF RewardOnce
<1>4. CASE CheckTrajectoryReward \/ AreAllTaskExecuted
  <2>1. InFlight' = InFlight /\ store' = store
    BY <1>4, PlacesStep DEF CheckTrajectoryReward, AreAllTaskExecuted, ComputeReward
  <2>2. /\ rewardThread # Idle /\ rewardThread'.at # "write"
        /\ rewardThread' # Idle => rewardThread'.task = rewardThread.task
    <3>1. rewardThread \in [task : Tasks, at : {"write", "check", "count"}, reward : MaybeWorker]
      BY <1>4, RewardThreadType DEF CheckTrajectoryReward, AreAllTaskExecuted, TypeOK
    <3> QED BY <1>4, <3>1 DEF CheckTrajectoryReward, AreAllTaskExecuted
  <2> QED BY <2>1, <2>2 DEF RewardOnce
<1>5. CASE ~RewardThread
  <2>1. InFlight' = InFlight /\ rewardThread' = rewardThread
    BY <1>5, PlacesStep, RewardThreadFrame DEF RewardThread
  <2>2. \A k \in Tasks : store'[k].reward = store[k].reward
    BY <1>5, RewardsFrame DEF RewardThread
  <2>3. rewardThread.at = "write" => rewardThread.task \in Tasks
    BY RewardThreadType DEF TypeOK
  <2> QED BY <1>1, <2>1, <2>2, <2>3 DEF RewardOnce
<1> QED BY <1>2, <1>3, <1>4, <1>5 DEF RewardThread

LEMMA EndOnceStep ==
  ASSUME TypeOK, Wires, NoRepeats, Apart, Heard, Counted, EndOnce, [Next]_vars
  PROVE  EndOnce'
<1>1. completions \in Nat /\ taskCompleted \in Nat
  BY DEF TypeOK, BuilderTypeOK
<1>2. CASE ComputeReward
  <2>1. completions # 1
    <3>1. InFlight # {}
      BY <1>2, PlacesStep
    <3>2. Cardinality(InFlight) # 0 /\ Cardinality(InFlight) \in Nat
      BY <3>1, InFlightType, FS_EmptySet
    <3> QED BY <1>1, <3>2, TaskPathAssumption DEF Counted, EndOnce
  <2> QED BY <1>1, <1>2, <2>1 DEF EndOnce, ComputeReward
<1>3. CASE UpdateTrajectoryReward \/ CheckTrajectoryReward
  BY <1>3 DEF UpdateTrajectoryReward, CheckTrajectoryReward, EndOnce
<1>4. CASE AreAllTaskExecuted
  BY <1>1, <1>4 DEF AreAllTaskExecuted, AllExecuted, EndOnce
<1>5. CASE ~RewardThread
  BY <1>5, RewardThreadFrame DEF EndOnce
<1> QED BY <1>2, <1>3, <1>4, <1>5 DEF RewardThread

(* What the end of the execution means for the places.                                           *)
LEMMA NothingInFlight ==
  ASSUME TypeOK, Wires, Heard, Counted, EndOnce, completions = 1
  PROVE  /\ InFlight = {}
         /\ gaveUp = {} /\ brokerQueue = <<>> /\ fetched = <<>> /\ broker.at # "request"
         /\ rewardQueue = <<>>
         /\ \A w \in Workers : workerQueue[w] = <<>> /\ accepted[w] = <<>> /\ wire[w] = <<>>
<1>1. InFlight = {}
  <2>1. Cardinality(InFlight) = 0
    BY InFlightType, TaskPathAssumption DEF Counted, EndOnce
  <2> QED BY <2>1, InFlightType, FS_EmptySet
<1>2. \A p \in Stops : Places[p] = {}
  BY <1>1 DEF InFlight
<1>3. ASSUME NEW S, NEW q \in Seq(S), Range(q) = {} PROVE q = <<>>
  <2>1. q # <<>> => q[1] \in Range(q)
    BY DEF Range
  <2> QED BY <1>3, <2>1
<1>4. /\ Range(brokerQueue) = {} /\ Range(fetched) = {} /\ gaveUp = {} /\ broker.at # "request"
      /\ TasksIn(rewardQueue, Results) = {}
  BY <1>2, PlacesAre, StopCases
<1>5. brokerQueue = <<>> /\ fetched = <<>>
  BY <1>3, <1>4 DEF TypeOK, BrokerTypeOK
<1>6. rewardQueue = <<>>
  <2>1. rewardQueue \in Seq(Results)
    BY DEF TypeOK, ConsumerTypeOK, Results
  <2>2. rewardQueue # <<>> => 1 \in DOMAIN rewardQueue /\ rewardQueue[1] \in Results
    BY <2>1
  <2> QED BY <1>4, <2>2 DEF TasksIn
<1>7. ASSUME NEW w \in Workers PROVE workerQueue[w] = <<>> /\ accepted[w] = <<>> /\ wire[w] = <<>>
  <2>1. Range(workerQueue[w]) = {} /\ Range(accepted[w]) = {} /\ TasksIn(wire[w], EndEvents) = {}
    BY <1>2, PlacesAre, StopCases
  <2>2. workerQueue[w] \in Seq(Tasks) /\ accepted[w] \in Seq(Tasks)
    BY DEF TypeOK, CeleryTypeOK
  <2>3. wire[w] = <<>>
    <3> DEFINE E == [type : {"received", "succeeded", "failed"}, task : Tasks, worker : {HostName(w)}]
    <3>1. wire[w] \in Seq(E)
      BY WireTypes
    <3> SUFFICES ASSUME wire[w] # <<>> PROVE FALSE
      OBVIOUS
    <3> HIDE DEF E
    <3>2. 1 \in DOMAIN wire[w] /\ wire[w][1] \in E
      BY <3>1
    <3>3. \A i \in DOMAIN wire[w] : wire[w][i] \notin EndEvents
      BY <2>1 DEF TasksIn
    <3>4. wire[w][1].type = "received"
      BY <3>2, <3>3 DEF E, EndEvents
    <3> QED BY <2>1, <3>2, <3>3, <3>4 DEF Heard, Told
  <2> QED BY <1>3, <2>1, <2>2, <2>3
<1> QED BY <1>1, <1>4, <1>5, <1>6, <1>7

-----------------------------------------------------------------------------
(* Whatever names a class of workers for a task.                                                 *)
StandsFor(i, w) == i \in Actions /\ HasQueue(i) /\ QueueOf(i) = w
InJobs(k, w) == \E job \in jobs : job.task = k /\ StandsFor(job.action, w)
InBroker(k, w) == broker.at = w /\ broker.task = k
InWorker(k, w) == k \in Range(workerQueue[w]) \union Range(accepted[w])
InEvents(k, w) ==
  \E s \in Senders : \E i \in DOMAIN wire[s] :
    wire[s][i].task = k /\ WorkerClassOf(wire[s][i].worker) = w
InRewards(k, w) ==
  \/ \E i \in DOMAIN rewardQueue : rewardQueue[i].task = k /\ rewardQueue[i].worker = w
  \/ rewardThread # Idle /\ rewardThread.task = k /\ rewardThread.reward = w
InStore(k, w) == StandsFor(store[k].action, w) \/ store[k].reward = w

Names(k, w) ==
  \/ InJobs(k, w) \/ InBroker(k, w) \/ InWorker(k, w)
  \/ InEvents(k, w) \/ InRewards(k, w) \/ InStore(k, w)

UnsentStops == {At(s) : s \in {"queued", "fetched", "asked", "gaveUp"}}
Unsent == UNION {Places[p] : p \in UnsentStops}

OneWorker ==
  /\ \A k \in Tasks : \A v, w \in Workers : Names(k, v) /\ Names(k, w) => v = w
  /\ \A k \in Unsent : \A w \in Workers : ~Names(k, w)

LEMMA NamesFrame ==
  ASSUME NEW k, NEW w
  PROVE  /\ UNCHANGED jobs => (InJobs(k, w)' <=> InJobs(k, w))
         /\ UNCHANGED broker => (InBroker(k, w)' <=> InBroker(k, w))
         /\ UNCHANGED workerVars => (InWorker(k, w)' <=> InWorker(k, w))
         /\ UNCHANGED wire => (InEvents(k, w)' <=> InEvents(k, w))
         /\ UNCHANGED <<rewardQueue, rewardThread>> => (InRewards(k, w)' <=> InRewards(k, w))
         /\ UNCHANGED store => (InStore(k, w)' <=> InStore(k, w))
BY DEF InJobs, InBroker, InWorker, InEvents, InRewards, InStore

LEMMA SendNames ==
  ASSUME TypeOK, NEW s \in Senders, NEW e, wire' = [wire EXCEPT ![s] = Append(@, e)],
         NEW k, NEW w, InEvents(k, w)'
  PROVE  InEvents(k, w) \/ (e.task = k /\ WorkerClassOf(e.worker) = w)
<1> HIDE DEF Senders
<1>1. PICK t \in Senders : \E i \in DOMAIN wire'[t] : wire'[t][i].task = k /\ WorkerClassOf(wire'[t][i].worker) = w
  BY DEF InEvents
<1>2. CASE t = s
  <2>1. wire'[s] = Append(wire[s], e) /\ wire[s] \in Seq(EventsOf(s) \union {e})
    BY SendAt, WireTypes
  <2>2. \A i \in DOMAIN wire'[s] : wire'[s][i] = e \/ (i \in DOMAIN wire[s] /\ wire'[s][i] = wire[s][i])
    BY <2>1, AppendAt
  <2> QED BY <1>1, <1>2, <2>2 DEF InEvents
<1>3. CASE t # s
  BY <1>1, <1>3, SendAt DEF InEvents
<1> QED BY <1>2, <1>3

LEMMA TakeNames ==
  ASSUME TypeOK, NEW s \in Senders, wire[s] # <<>>, wire' = [wire EXCEPT ![s] = Tail(@)],
         NEW k, NEW w
  PROVE  /\ InEvents(k, w)' => InEvents(k, w)
         /\ Head(wire[s]).task = k /\ WorkerClassOf(Head(wire[s]).worker) = w => InEvents(k, w)
<1> HIDE DEF Senders
<1>1. /\ wire'[s] = Tail(wire[s]) /\ wire[s] \in Seq(EventsOf(s))
      /\ \A t \in Senders \ {s} : wire'[t] = wire[t]
  BY TakeAt, WireTypes
<1>2. /\ \A i \in DOMAIN wire'[s] : i + 1 \in DOMAIN wire[s] /\ wire'[s][i] = wire[s][i+1]
      /\ 1 \in DOMAIN wire[s] /\ Head(wire[s]) = wire[s][1]
  <2> DEFINE q == wire[s]
             r == wire'[s]
  <2>1. /\ DOMAIN r = 1..Len(q)-1 /\ DOMAIN q = 1..Len(q) /\ Len(q) \in Nat \ {0}
        /\ \A i \in 1..Len(q)-1 : r[i] = q[i+1]
        /\ Head(q) = q[1]
    BY <1>1, TailAt
  <2> HIDE DEF q, r
  <2>2. /\ \A i \in DOMAIN r : i + 1 \in DOMAIN q /\ r[i] = q[i+1]
        /\ 1 \in DOMAIN q /\ Head(q) = q[1]
    BY <2>1
  <2> QED BY <2>2 DEF q, r
<1>3. ASSUME InEvents(k, w)' PROVE InEvents(k, w)
  <2>1. PICK t \in Senders : \E i \in DOMAIN wire'[t] : wire'[t][i].task = k /\ WorkerClassOf(wire'[t][i].worker) = w
    BY <1>3 DEF InEvents
  <2>2. CASE t = s
    BY <1>2, <2>1, <2>2 DEF InEvents
  <2>3. CASE t # s
    BY <1>1, <2>1, <2>3 DEF InEvents
  <2> QED BY <2>2, <2>3
<1> QED BY <1>2, <1>3 DEF InEvents

(* A name for a task is made by the answer, and passed on by every other step.                 *)
LEMMA BrokerNames ==
  ASSUME TypeOK, FetchBrokerTask \/ TaskBroker \/ AnnounceSent \/ Raises,
         NEW k \in Tasks, NEW w \in Workers, Names(k, w)'
  PROVE  Names(k, w)
<1>1. UNCHANGED <<workerVars, rewardQueue, rewardThread, store>>
  BY DEF FetchBrokerTask, TaskBroker, AnnounceSent, Raises, RetryOrGiveUp
<1>0. InJobs(k, w)' => InJobs(k, w)
  <2>1. CASE FetchBrokerTask \/ TaskBroker \/ AnnounceSent
    <3>1. UNCHANGED jobs
      BY <2>1 DEF FetchBrokerTask, TaskBroker, AnnounceSent
    <3> QED BY <3>1, NamesFrame
  <2>2. CASE Raises
    <3>1. CASE UNCHANGED jobs
      BY <3>1, NamesFrame
    <3>2. ASSUME NEW i \in Actions, ~HasQueue(i),
                 jobs' = jobs \union {Job(type, broker.task, i) : type \in JobTypes}
          PROVE  InJobs(k, w)' => InJobs(k, w)
      BY <3>2 DEF InJobs, StandsFor, Job
    <3> QED BY <2>2, <3>1, <3>2 DEF Raises
  <2> QED BY <2>1, <2>2
<1>2. w \notin {"idle", "request", "broker", NoWorker}
  BY WorkersAre
<1>3. CASE FetchBrokerTask
  <2> DEFINE e == Event("received", Head(brokerQueue), HostName("broker"))
  <2>1. wire' = [wire EXCEPT !["broker"] = Append(@, e)] /\ WorkerClassOf(e.worker) # w
    BY <1>2, <1>3, ClassOfNames DEF FetchBrokerTask, Event
  <2> HIDE DEF e
  <2>2. InEvents(k, w)' => InEvents(k, w)
    BY <2>1, SendNames
  <2>3. UNCHANGED broker
    BY <1>3 DEF FetchBrokerTask
  <2> QED BY <1>0, <1>1, <2>2, <2>3, NamesFrame DEF Names
<1>4. CASE TaskBroker \/ Raises
  <2>1. ~InBroker(k, w)' /\ UNCHANGED wire
    BY <1>2, <1>4 DEF TaskBroker, Raises, RetryOrGiveUp, InBroker
  <2> QED BY <1>0, <1>1, <2>1, NamesFrame DEF Names
<1>5. CASE AnnounceSent
  <2> DEFINE e == Event("sent", broker.task, QueueName(broker.at))
  <2>1. /\ wire' = [wire EXCEPT !["child"] = Append(@, e)] /\ ~InBroker(k, w)'
        /\ e.task = k /\ WorkerClassOf(e.worker) = w => InBroker(k, w)
    BY <1>2, <1>5, ClassOfNames DEF AnnounceSent, Event, InBroker
  <2> HIDE DEF e
  <2>2. InEvents(k, w)' => InEvents(k, w) \/ InBroker(k, w)
    BY <2>1, SendNames
  <2> QED BY <1>0, <1>1, <2>1, <2>2, NamesFrame DEF Names
<1> QED BY <1>3, <1>4, <1>5

LEMMA ChooseActionNames ==
  ASSUME TypeOK, NEW v \in Workers, Chooses(v), NEW k \in Tasks, NEW w \in Workers, Names(k, w)'
  PROVE  Names(k, w) \/ (w = v /\ k = broker.task)
<1>1. UNCHANGED <<accepted, wire, rewardQueue, rewardThread, store>>
  BY DEF Chooses
<1>2. InJobs(k, w)' => InJobs(k, w) \/ (w = v /\ k = broker.task)
  BY DEF Chooses, InJobs, StandsFor, Job
<1>3. InBroker(k, w)' => w = v /\ k = broker.task
  BY DEF Chooses, InBroker
<1>4. InWorker(k, w)' => InWorker(k, w) \/ (w = v /\ k = broker.task)
  <2>1. /\ workerQueue[v] \in Seq(Tasks) /\ workerQueue \in [Workers -> Seq(Tasks)]
        /\ broker.task \in Tasks
    BY DEF CeleryTypeOK, BrokerTypeOK, Chooses, TypeOK
  <2>2. /\ workerQueue'[v] = Append(workerQueue[v], broker.task)
        /\ \A u \in Workers \ {v} : workerQueue'[u] = workerQueue[u]
    BY <2>1 DEF Chooses
  <2>3. Range(workerQueue'[v]) = Range(workerQueue[v]) \union {broker.task}
    BY <2>1, <2>2, AppendRange
  <2> QED BY <1>1, <2>2, <2>3 DEF InWorker
<1> QED BY <1>1, <1>2, <1>3, <1>4, NamesFrame DEF Names

LEMMA RunJobNames ==
  ASSUME TypeOK, NEW job \in jobs, RunJob(job), NEW k \in Tasks, NEW w \in Workers, Names(k, w)'
  PROVE  Names(k, w)
<1>1. UNCHANGED <<broker, workerVars, wire, rewardQueue, rewardThread>>
  BY DEF RunJob
<1>2. InJobs(k, w)' => InJobs(k, w)
  BY DEF RunJob, InJobs
<1>3. InStore(k, w)' => InStore(k, w) \/ (job.task = k /\ StandsFor(job.action, w))
  BY DEF RunJob, InStore, TypeOK, StoreTypeOK
<1>4. job.task = k /\ StandsFor(job.action, w) => InJobs(k, w)
  BY DEF InJobs
<1> QED BY <1>1, <1>2, <1>3, <1>4, NamesFrame DEF Names

LEMMA WorkerNames ==
  ASSUME TypeOK, NEW v \in Workers, ReceiveTask(v) \/ EndTask(v), NEW k \in Tasks, NEW w \in Workers,
         Names(k, w)'
  PROVE  Names(k, w)
<1>1. UNCHANGED <<broker, jobs, rewardQueue, rewardThread, store>>
  BY DEF ReceiveTask, EndTask
<1>2. /\ workerQueue[v] \in Seq(Tasks) /\ accepted[v] \in Seq(Tasks)
      /\ workerQueue \in [Workers -> Seq(Tasks)] /\ accepted \in [Workers -> Seq(Tasks)]
      /\ v \in Senders
  BY DEF CeleryTypeOK, TypeOK
<1>3. ASSUME NEW q \in Seq(Tasks), q # <<>>
      PROVE  Head(q) \in Tasks /\ Head(q) \in Range(q) /\ Range(Tail(q)) \subseteq Range(q)
  <2>1. /\ DOMAIN Tail(q) = 1..Len(q)-1 /\ DOMAIN q = 1..Len(q) /\ Len(q) \in Nat \ {0}
        /\ \A i \in 1..Len(q)-1 : Tail(q)[i] = q[i+1]
        /\ Head(q) = q[1] /\ Head(q) \in Tasks
    BY <1>3, TailAt
  <2> QED BY <2>1 DEF Range
<1>4. CASE ReceiveTask(v)
  <2> DEFINE l == Head(workerQueue[v])
             e == Event("received", l, HostName(v))
  <2>1. /\ l \in Tasks /\ l \in Range(workerQueue[v]) /\ e.task = l /\ WorkerClassOf(e.worker) = v
        /\ Range(workerQueue'[v]) \subseteq Range(workerQueue[v])
        /\ \A u \in Workers \ {v} : workerQueue'[u] = workerQueue[u] /\ accepted'[u] = accepted[u]
        /\ accepted'[v] = Append(accepted[v], l)
        /\ wire' = [wire EXCEPT ![v] = Append(@, e)]
    BY <1>2, <1>3, <1>4, ClassOfNames DEF ReceiveTask, Event
  <2> HIDE DEF l, e
  <2>2. Range(accepted'[v]) = Range(accepted[v]) \union {l}
    BY <1>2, <2>1, AppendRange
  <2>3. InEvents(k, w)' => InEvents(k, w) \/ (k = l /\ w = v)
    <3>1. InEvents(k, w)' => InEvents(k, w) \/ (e.task = k /\ WorkerClassOf(e.worker) = w)
      BY <1>2, <2>1, SendNames
    <3> QED BY <2>1, <3>1
  <2>4. (InWorker(k, w)' => InWorker(k, w)) /\ (k = l /\ w = v => InWorker(k, w))
    BY <2>1, <2>2 DEF InWorker
  <2> QED BY <1>1, <2>3, <2>4, NamesFrame DEF Names
<1>5. CASE EndTask(v)
  <2> DEFINE l == Head(accepted[v])
  <2>1. PICK e : e.task = l /\ WorkerClassOf(e.worker) = v /\ wire' = [wire EXCEPT ![v] = Append(@, e)]
    BY <1>5, ClassOfNames DEF EndTask, Event
  <2>2. /\ l \in Range(accepted[v]) /\ Range(accepted'[v]) \subseteq Range(accepted[v])
        /\ \A u \in Workers \ {v} : accepted'[u] = accepted[u]
        /\ workerQueue' = workerQueue
    BY <1>2, <1>3, <1>5 DEF EndTask
  <2> HIDE DEF l
  <2>3. InEvents(k, w)' => InEvents(k, w) \/ (k = l /\ w = v)
    <3>1. InEvents(k, w)' => InEvents(k, w) \/ (e.task = k /\ WorkerClassOf(e.worker) = w)
      BY <1>2, <2>1, SendNames
    <3> QED BY <2>1, <3>1
  <2>4. (InWorker(k, w)' => InWorker(k, w)) /\ (k = l /\ w = v => InWorker(k, w))
    BY <2>2 DEF InWorker
  <2> QED BY <1>1, <2>3, <2>4, NamesFrame DEF Names
<1> QED BY <1>4, <1>5

LEMMA ConsumeNames ==
  ASSUME TypeOK, Wires, NEW s \in Senders, Consume(s), NEW k \in Tasks, NEW w \in Workers,
         Names(k, w)'
  PROVE  Names(k, w)
<1> DEFINE e == Head(wire[s])
           r == Event(e.type, e.task, WorkerClassOf(e.worker))
<1>1. UNCHANGED <<broker, jobs, workerVars, rewardThread, store>>
  BY DEF Consume
<1>2. wire[s] # <<>> /\ wire' = [wire EXCEPT ![s] = Tail(@)]
  BY DEF Consume
<1>3. rewardQueue' = rewardQueue \/ (rewardQueue' = Append(rewardQueue, r) /\ r \in Results)
  <2>1. OnTaskEnd(e) => rewardQueue' = Append(rewardQueue, r) /\ r \in Results
    BY EndFromWorker DEF OnTaskEnd
  <2> QED BY <2>1 DEF Consume, OnTaskSent, OnBrokerReceived, OnWorkerReceived
<1>4. rewardQueue \in Seq(Results)
  BY DEF ConsumerTypeOK, TypeOK, Results
<1>5. (InEvents(k, w)' => InEvents(k, w)) /\ (r.task = k /\ r.worker = w => InEvents(k, w))
  BY <1>2, TakeNames DEF Event
<1> HIDE DEF e, r
<1>6. InRewards(k, w)' => InRewards(k, w) \/ (r.task = k /\ r.worker = w)
  <2>1. CASE rewardQueue' = rewardQueue
    BY <1>1, <2>1, NamesFrame
  <2>2. CASE rewardQueue' = Append(rewardQueue, r) /\ r \in Results
    <3>1. \A i \in DOMAIN rewardQueue' : rewardQueue'[i] = r \/ (i \in DOMAIN rewardQueue /\ rewardQueue'[i] = rewardQueue[i])
      BY <1>4, <2>2, AppendAt
    <3> QED BY <1>1, <3>1 DEF InRewards
  <2> QED BY <1>3, <2>1, <2>2
<1> QED BY <1>1, <1>5, <1>6, NamesFrame DEF Names

LEMMA RewardThreadNames ==
  ASSUME TypeOK, RewardThread, NEW k \in Tasks, NEW w \in Workers, Names(k, w)'
  PROVE  Names(k, w)
<1>1. UNCHANGED <<broker, jobs, workerVars, wire>>
  BY DEF RewardThread, ComputeReward, UpdateTrajectoryReward, CheckTrajectoryReward,
         AreAllTaskExecuted
<1>2. w # NoWorker
  BY WorkersAre
<1>3. CASE ComputeReward
  <2>1. rewardQueue \in Seq(Results) /\ rewardQueue # <<>> /\ rewardQueue' = Tail(rewardQueue)
    BY <1>3 DEF ComputeReward, ConsumerTypeOK, TypeOK, Results
  <2>2. /\ \A i \in DOMAIN rewardQueue' : i + 1 \in DOMAIN rewardQueue /\ rewardQueue'[i] = rewardQueue[i+1]
        /\ 1 \in DOMAIN rewardQueue /\ Head(rewardQueue) = rewardQueue[1]
    BY <2>1, TailAt
  <2>3. /\ \A i \in DOMAIN rewardQueue' : \E j \in DOMAIN rewardQueue : rewardQueue'[i] = rewardQueue[j]
        /\ \E j \in DOMAIN rewardQueue : Head(rewardQueue) = rewardQueue[j]
    BY <2>2
  <2>4. InRewards(k, w)' => InRewards(k, w)
    BY <1>2, <1>3, <2>3 DEF ComputeReward, InRewards
  <2>5. store' = store
    BY <1>3 DEF ComputeReward
  <2> QED BY <1>1, <2>4, <2>5, NamesFrame DEF Names
<1>4. CASE UpdateTrajectoryReward
  <2>1. rewardThread \in [task : Tasks, at : {"write", "check", "count"}, reward : MaybeWorker]
    BY <1>4, RewardThreadType DEF UpdateTrajectoryReward, TypeOK
  <2>2. InStore(k, w)' => InStore(k, w) \/ InRewards(k, w)
    BY <1>4, <2>1 DEF UpdateTrajectoryReward, InStore, InRewards, TypeOK, StoreTypeOK
  <2>3. InRewards(k, w)' => InRewards(k, w)
    BY <1>4, <2>1 DEF UpdateTrajectoryReward, InRewards
  <2> QED BY <1>1, <2>2, <2>3, NamesFrame DEF Names
<1>5. CASE CheckTrajectoryReward \/ AreAllTaskExecuted
  <2>1. rewardThread \in [task : Tasks, at : {"write", "check", "count"}, reward : MaybeWorker]
    BY <1>5, RewardThreadType DEF CheckTrajectoryReward, AreAllTaskExecuted, TypeOK
  <2>2. InRewards(k, w)' => InRewards(k, w)
    BY <1>5, <2>1 DEF CheckTrajectoryReward, AreAllTaskExecuted, InRewards
  <2>3. store' = store
    BY <1>5 DEF CheckTrajectoryReward, AreAllTaskExecuted
  <2> QED BY <1>1, <2>2, <2>3, NamesFrame DEF Names
<1> QED BY <1>3, <1>4, <1>5 DEF RewardThread

LEMMA OtherNames ==
  ASSUME TypeOK, StateThread \/ AgentConsumer \/ UNCHANGED vars, NEW k \in Tasks, NEW w \in Workers,
         Names(k, w)'
  PROVE  Names(k, w)
<1>1. UNCHANGED <<broker, jobs, workerVars, wire, rewardQueue, rewardThread>>
  <2>1. CASE StateThread
    BY <2>1 DEF StateThread, TakeCreation, GetState, SaveTrajectory, AddNextState, SetPrevious
  <2>2. CASE AgentConsumer
    BY <2>2 DEF AgentConsumer, ObserveReward, SaveHistory
  <2>3. CASE UNCHANGED vars
    BY <2>3
  <2> QED BY <2>1, <2>2, <2>3
<1>2. InStore(k, w)' => InStore(k, w)
  <2>1. CASE SaveTrajectory
    BY <2>1 DEF SaveTrajectory, InStore, TypeOK, StoreTypeOK
  <2>2. CASE AddNextState
    BY <2>2 DEF AddNextState, HasPrevious, InStore, TypeOK, StoreTypeOK
  <2>3. CASE ~SaveTrajectory /\ ~AddNextState
    <3>1. store' = store
      BY <2>3 DEF StateThread, TakeCreation, GetState, SetPrevious, AgentConsumer, ObserveReward,
                  SaveHistory
    <3> QED BY <3>1, NamesFrame
  <2> QED BY <2>1, <2>2, <2>3
<1> QED BY <1>1, <1>2, NamesFrame DEF Names

LEMMA NamesStep ==
  ASSUME TypeOK, Wires, [Next]_vars, NEW k \in Tasks, NEW w \in Workers, Names(k, w)'
  PROVE  Names(k, w) \/ (Chooses(w) /\ k = broker.task)
<1>1. CASE FetchBrokerTask \/ TaskBroker \/ AnnounceSent \/ Raises
  BY <1>1, BrokerNames
<1>2. CASE \E v \in Workers : Chooses(v)
  BY <1>2, ChooseActionNames
<1>3. CASE (\E job \in jobs : RunJob(job)) \/ (\E v \in Workers : ReceiveTask(v) \/ EndTask(v))
  BY <1>3, RunJobNames, WorkerNames
<1>4. CASE \E s \in Senders : Consume(s)
  <2> HIDE DEF Senders
  <2> QED BY <1>4, ConsumeNames
<1>5. CASE RewardThread \/ StateThread \/ AgentConsumer \/ UNCHANGED vars
  BY <1>5, RewardThreadNames, OtherNames
<1> HIDE DEF Senders, vars
<1> QED BY <1>1, <1>2, <1>3, <1>4, <1>5, NextSteps DEF Steps

(* No task becomes unsent.                                                                       *)
LEMMA MoveUnsent ==
  ASSUME NEW k, NEW p, NEW q, Moves(k, p, q), q \in UnsentStops => p \in UnsentStops
  PROVE  Unsent' \subseteq Unsent
<1>1. UnsentStops \subseteq Stops
  BY StopCases DEF UnsentStops
<1>2. Unsent' = UNION {Places'[r] : r \in UnsentStops}
  BY DEF Unsent, UnsentStops, At
<1>3. ASSUME NEW r \in UnsentStops, NEW x \in Places'[r] PROVE x \in Unsent
  <2>1. x \in Places[r] \/ (r = q /\ x = k /\ k \in Places[p])
    BY <1>1 DEF Moves
  <2> QED BY <2>1 DEF Unsent
<1> QED BY <1>2, <1>3

LEMMA UnsentStep ==
  ASSUME TypeOK, Wires, NoRepeats, Apart, [Next]_vars
  PROVE  Unsent' \subseteq Unsent
<1>0. /\ \A w \in Workers : /\ <<"sent", w>> \notin UnsentStops /\ <<"accepted", w>> \notin UnsentStops
                            /\ <<"ended", w>> \notin UnsentStops
      /\ {At("queued"), At("fetched"), At("asked"), At("gaveUp")} \subseteq UnsentStops
      /\ At("rewarding") \notin UnsentStops
  BY DEF UnsentStops, At
<1>1. Places' = Places => Unsent' = Unsent
  BY DEF Unsent, UnsentStops, At
<1>2. CASE FetchBrokerTask \/ TaskBroker \/ Raises
  BY <1>0, <1>2, FetchMoves, TaskBrokerMoves, RequestFailsMoves, MoveUnsent
<1>3. CASE \E w \in Workers : Chooses(w) \/ ReceiveTask(w) \/ EndTask(w)
  BY <1>0, <1>3, ChooseActionMoves, ReceiveTaskMoves, EndTaskMoves, MoveUnsent
<1>4. CASE AnnounceSent
  BY <1>1, <1>4, AnnounceSentStays
<1>5. ASSUME NEW s \in Senders, Consume(s) PROVE Unsent' \subseteq Unsent
  <2> HIDE DEF Senders
  <2>1. CASE OnTaskEnd(Head(wire[s]))
    BY <1>0, <1>5, <2>1, ConsumeEndMoves, MoveUnsent
  <2>2. CASE ~OnTaskEnd(Head(wire[s]))
    BY <1>1, <1>5, <2>2, ConsumeOtherStays
  <2> QED BY <2>1, <2>2
<1>6. CASE ComputeReward
  <2>1. Leaves(Head(rewardQueue).task, At("rewarding"))
    BY <1>6, ComputeRewardLeaves
  <2>2. \A r \in UnsentStops : Places'[r] = Places[r]
    BY <1>0, <2>1, StopCases DEF Leaves, UnsentStops
  <2> QED BY <2>2 DEF Unsent, UnsentStops, At
<1>7. CASE ~Moving
  BY <1>1, <1>7, OthersStay, PlacesFrame
<1> HIDE DEF Senders
<1> QED BY <1>2, <1>3, <1>4, <1>5, <1>6, <1>7 DEF Moving

LEMMA OneWorkerStep ==
  ASSUME TypeOK, Wires, NoRepeats, Apart, OneWorker, [Next]_vars
  PROVE  OneWorker'
<1>1. ASSUME NEW w \in Workers, Chooses(w)
      PROVE  broker.task \in Tasks /\ broker.task \in Unsent /\ broker.task \notin Unsent'
  <2>1. Moves(broker.task, At("asked"), <<"sent", w>>)
    BY <1>1, ChooseActionMoves
  <2>2. broker.task \in Tasks
    BY <1>1 DEF Chooses, TypeOK, BrokerTypeOK
  <2>3. broker.task \in Unsent
    BY <2>1 DEF Moves, Unsent, UnsentStops
  <2>4. \A r \in UnsentStops : r \in Stops /\ r # <<"sent", w>> /\ broker.task \notin Places'[r]
    <3> TAKE r \in UnsentStops
    <3>1. r \in Stops /\ r # <<"sent", w>>
      BY StopCases DEF UnsentStops, At
    <3>2. r # At("asked") => broker.task \notin Places[r]
      BY <2>1, <3>1 DEF Moves, Apart
    <3> QED BY <2>1, <3>1, <3>2 DEF Moves
  <2>5. Unsent' = UNION {Places'[r] : r \in UnsentStops}
    BY DEF Unsent, UnsentStops, At
  <2> QED BY <2>2, <2>3, <2>4, <2>5
<1>2. ASSUME NEW k \in Tasks, NEW v \in Workers, NEW w \in Workers, Names(k, v)', Names(k, w)'
      PROVE  v = w
  <2>1. CASE Names(k, v) /\ Names(k, w)
    BY <2>1 DEF OneWorker
  <2>2. CASE ~Names(k, v)
    <3>1. Chooses(v) /\ k = broker.task
      BY <1>2, <2>2, NamesStep
    <3> QED BY <1>1, <1>2, <3>1, ChooseActionNames DEF OneWorker
  <2>3. CASE ~Names(k, w)
    <3>1. Chooses(w) /\ k = broker.task
      BY <1>2, <2>3, NamesStep
    <3> QED BY <1>1, <1>2, <3>1, ChooseActionNames DEF OneWorker
  <2> QED BY <2>1, <2>2, <2>3
<1>3. ASSUME NEW k \in Unsent', NEW w \in Workers, Names(k, w)' PROVE FALSE
  <2>1. k \in Unsent /\ k \in Tasks
    <3>1. Unsent \subseteq InFlight
      BY StopCases DEF Unsent, UnsentStops, InFlight
    <3> QED BY <3>1, UnsentStep, InFlightType
  <2>2. Chooses(w) /\ k = broker.task
    BY <1>3, <2>1, NamesStep DEF OneWorker
  <2> QED BY <1>1, <2>2
<1> QED BY <1>2, <1>3 DEF OneWorker

-----------------------------------------------------------------------------
(* The steps by what they move.                                                                  *)
LEMMA StepMoves ==
  ASSUME TypeOK, Wires, NoRepeats, Apart, [Next]_vars
  PROVE  \/ Places' = Places
         \/ Moves(Head(brokerQueue), At("queued"), At("fetched"))
         \/ Moves(broker'.task, At("fetched"), At("asked"))
         \/ Moves(broker.task, At("asked"), At("queued"))
         \/ Moves(broker.task, At("asked"), At("gaveUp"))
         \/ \E w \in Workers : Chooses(w) /\ Moves(broker.task, At("asked"), <<"sent", w>>)
         \/ \E w \in Workers :
              ReceiveTask(w) /\ Moves(Head(workerQueue[w]), <<"sent", w>>, <<"accepted", w>>)
         \/ \E w \in Workers :
              EndTask(w) /\ Moves(Head(accepted[w]), <<"accepted", w>>, <<"ended", w>>)
         \/ \E w \in Workers :
              Consume(w) /\ Moves(Head(wire[w]).task, <<"ended", w>>, At("rewarding"))
         \/ ComputeReward /\ Leaves(Head(rewardQueue).task, At("rewarding"))
<1>1. CASE FetchBrokerTask \/ TaskBroker \/ Raises
  BY <1>1, FetchMoves, TaskBrokerMoves, RequestFailsMoves
<1>2. CASE \E w \in Workers : Chooses(w) \/ ReceiveTask(w) \/ EndTask(w)
  BY <1>2, ChooseActionMoves, ReceiveTaskMoves, EndTaskMoves
<1>3. ASSUME NEW s \in Senders, Consume(s)
      PROVE  \/ Places' = Places
             \/ s \in Workers /\ Moves(Head(wire[s]).task, <<"ended", s>>, At("rewarding"))
  <2> HIDE DEF Senders
  <2> QED BY <1>3, EndFromWorker, ConsumeEndMoves, ConsumeOtherStays
<1>4. CASE AnnounceSent \/ ~Moving
  BY <1>4, AnnounceSentStays, OthersStay, PlacesFrame
<1>5. CASE ComputeReward
  BY <1>5, ComputeRewardLeaves
<1> HIDE DEF Senders
<1> QED BY <1>1, <1>2, <1>3, <1>4, <1>5 DEF Moving

(* A task whose execution is over, as far as a reward, or the lack of one, tells.                *)
Over(k) ==
  \/ \E w \in Workers : k \in Places[<<"ended", w>>]
  \/ k \in Places[At("rewarding")]
  \/ rewardThread # Idle /\ rewardThread.task = k
  \/ store[k].reward # NoWorker

LEMMA OverByStep ==
  ASSUME TypeOK, Wires, NoRepeats, Apart, Heard, [Next]_vars, NEW k \in Tasks, Over(k)'
  PROVE  Over(k) \/ \E w \in Workers : EndTask(w) /\ k = Head(accepted[w])
<1> DEFINE Ending(v) == EndTask(v) /\ k = Head(accepted[v])
<1>0. At("rewarding") \in Stops /\ \A w \in Workers : <<"ended", w>> \in Stops
  BY StopCases
<1>1. ASSUME NEW w \in Workers, k \in Places'[<<"ended", w>>]
      PROVE  k \in Places[<<"ended", w>>] \/ Ending(w)
  <2>1. \A v \in Workers : /\ <<"ended", w>> # <<"sent", v>> /\ <<"ended", w>> # <<"accepted", v>>
                           /\ <<"ended", w>> = <<"ended", v>> => v = w
    OBVIOUS
  <2>2. <<"ended", w>> \notin {At("queued"), At("fetched"), At("asked"), At("gaveUp"), At("rewarding")}
    BY DEF At
  <2> QED BY <1>0, <1>1, <2>1, <2>2, StepMoves DEF Moves, Leaves
<1>2. ASSUME k \in Places'[At("rewarding")]
      PROVE  k \in Places[At("rewarding")] \/ \E w \in Workers : k \in Places[<<"ended", w>>]
  <2>1. \A v \in Workers : At("rewarding") # <<"sent", v>> /\ At("rewarding") # <<"accepted", v>>
                           /\ At("rewarding") # <<"ended", v>>
    BY DEF At
  <2>2. At("rewarding") \notin {At("queued"), At("fetched"), At("asked"), At("gaveUp")}
    BY DEF At
  <2> QED BY <1>0, <1>2, <2>1, <2>2, StepMoves DEF Moves, Leaves
<1>3. ASSUME rewardThread' # Idle, rewardThread'.task = k PROVE Over(k)
  <2>1. CASE ComputeReward
    <3>1. k = Head(rewardQueue).task
      BY <1>3, <2>1, RewardComputed
    <3> QED BY <2>1, <3>1, ComputeRewardLeaves DEF Leaves, Over
  <2>2. CASE UpdateTrajectoryReward \/ CheckTrajectoryReward \/ AreAllTaskExecuted
    <3>1. rewardThread \in [task : Tasks, at : {"write", "check", "count"}, reward : MaybeWorker]
      BY <2>2, RewardThreadType DEF UpdateTrajectoryReward, CheckTrajectoryReward,
         AreAllTaskExecuted, TypeOK
    <3>2. rewardThread # Idle /\ rewardThread.task = k
      BY <1>3, <2>2, <3>1 DEF UpdateTrajectoryReward, CheckTrajectoryReward, AreAllTaskExecuted
    <3> QED BY <3>2 DEF Over
  <2>3. CASE ~RewardThread
    BY <1>3, <2>3, RewardThreadFrame DEF Over
  <2> QED BY <2>1, <2>2, <2>3 DEF RewardThread
<1>4. ASSUME store'[k].reward # NoWorker PROVE Over(k)
  <2>1. CASE UpdateTrajectoryReward
    BY <1>4, <2>1, RewardWritten DEF Over
  <2>2. CASE ~UpdateTrajectoryReward
    BY <1>4, <2>2, RewardsFrame DEF Over
  <2> QED BY <2>1, <2>2
<1>5. \/ \E w \in Workers : k \in Places'[<<"ended", w>>]
      \/ k \in Places'[At("rewarding")]
      \/ rewardThread' # Idle /\ rewardThread'.task = k
      \/ store'[k].reward # NoWorker
  BY DEF Over, At
<1> QED BY <1>1, <1>2, <1>3, <1>4, <1>5 DEF Over

(* Once the execution of a slow task is over, the agent's pool has no job of it.                 *)
Quiet == SlowTasks => \A k \in Tasks : Over(k) => \A job \in jobs : job.task # k

LEMMA AskedNotOver ==
  ASSUME TypeOK, Apart, RewardOnce, broker.at = "request"
  PROVE  ~Over(broker.task)
<1>1. broker.task \in Places[At("asked")]
  BY PlacesAre
<1>2. broker.task \in InFlight
  BY <1>1, StopCases DEF InFlight
<1>3. broker.task \notin Places[At("rewarding")] /\ \A w \in Workers : broker.task \notin Places[<<"ended", w>>]
  BY <1>1, StopCases DEF Apart, At
<1> QED BY <1>2, <1>3 DEF RewardOnce, Over

(* Jobs come with an answer, of which the broker makes something or nothing, and go one by one.  *)
Answered(i) == jobs' = jobs \union {Job(type, broker.task, i) : type \in JobTypes}

LEMMA JobsStep ==
  ASSUME [Next]_vars
  PROVE  \/ UNCHANGED jobs
         \/ \E job \in jobs : RunJob(job) /\ jobs' = jobs \ {job}
         \/ (\E w \in Workers : Chooses(w)) /\ \E i \in Actions : HasQueue(i) /\ Answered(i)
         \/ Raises /\ \E i \in Actions : ~HasQueue(i) /\ Answered(i)
<1>1. ASSUME NEW w \in Workers, Chooses(w) PROVE \E i \in Actions : HasQueue(i) /\ Answered(i)
  BY <1>1 DEF Chooses, Answered
<1>2. Raises => UNCHANGED jobs \/ \E i \in Actions : ~HasQueue(i) /\ Answered(i)
  BY DEF Raises, Answered
<1>3. \/ UNCHANGED jobs
      \/ \E job \in jobs : RunJob(job)
      \/ (\E w \in Workers : Chooses(w)) \/ Raises
  BY NextSteps DEF Steps, StateThread, RewardThread, AgentConsumer, FetchBrokerTask,
         TaskBroker, AnnounceSent, ReceiveTask, EndTask, Consume, TakeCreation,
         GetState, SaveTrajectory, AddNextState, SetPrevious, ComputeReward, UpdateTrajectoryReward,
         CheckTrajectoryReward, AreAllTaskExecuted, ObserveReward, SaveHistory
<1> QED BY <1>1, <1>2, <1>3 DEF RunJob

LEMMA AnswerEndsNothing ==
  ASSUME TypeOK, (\E w \in Workers : Chooses(w)) \/ Raises
  PROVE  broker.at = "request" /\ \A v \in Workers : ~EndTask(v)
<1>1. broker.at = "request" /\ accepted' = accepted
  BY DEF Chooses, Raises, RetryOrGiveUp
<1>2. ASSUME NEW v \in Workers, EndTask(v) PROVE FALSE
  <2> DEFINE q == accepted[v]
  <2>1. q \in Seq(Tasks) /\ q # <<>> /\ accepted'[v] = Tail(q)
    BY <1>2 DEF EndTask, TypeOK, CeleryTypeOK
  <2>2. accepted'[v] = q
    BY <1>1
  <2> HIDE DEF q
  <2>3. Len(Tail(q)) = Len(q) - 1 /\ Len(q) \in Nat
    BY <2>1
  <2> QED BY <2>1, <2>2, <2>3
<1> QED BY <1>1, <1>2

LEMMA QuietStep ==
  ASSUME TypeOK, Wires, NoRepeats, Apart, Heard, RewardOnce, Quiet, [Next]_vars
  PROVE  Quiet'
<1> SUFFICES ASSUME SlowTasks, NEW k \in Tasks, Over(k)', NEW job \in jobs' PROVE job.task # k
  BY DEF Quiet
<1>1. CASE (\E w \in Workers : Chooses(w)) \/ Raises
  <2>1. job \in jobs \/ job.task = broker.task
    BY <1>1 DEF Chooses, Raises, Job
  <2>2. Over(k) /\ ~Over(broker.task)
    BY <1>1, AnswerEndsNothing, OverByStep, AskedNotOver
  <2> QED BY <2>1, <2>2 DEF Quiet
<1>2. CASE ~((\E w \in Workers : Chooses(w)) \/ Raises)
  <2>1. jobs' \subseteq jobs
    BY <1>2, JobsStep
  <2>2. CASE Over(k)
    BY <2>1, <2>2 DEF Quiet
  <2>3. ASSUME NEW w \in Workers, EndTask(w), k = Head(accepted[w]) PROVE job.task # k
    BY <2>1, <2>3 DEF EndTask, Prepared
  <2> QED BY <2>2, <2>3, OverByStep
<1> QED BY <1>1, <1>2

-----------------------------------------------------------------------------
(* A task that was sent has the writes of the agent, or the job that makes each.                 *)
Chosen(k) == \E w \in Workers : Names(k, w)
HasJob(type, k) == \E i \in Actions : Job(type, k, i) \in jobs
Done(type, k) ==
  CASE type = "action" -> store[k].action # NoAction
    [] type = "record" -> k \in records
    [] type = "entry"  -> entries[k] # "none"

JobsLeft == \A k \in Tasks : Chosen(k) => \A type \in JobTypes : HasJob(type, k) \/ Done(type, k)

(* What a step does to the trajectories: one part of one of them.                                *)
LEMMA StoreStep ==
  ASSUME [Next]_vars
  PROVE  \/ UNCHANGED store
         \/ \E job \in jobs : RunJob(job) /\ job.type = "action"
         \/ SaveTrajectory \/ (AddNextState /\ HasPrevious) \/ UpdateTrajectoryReward
<1>1. \A job \in jobs : RunJob(job) /\ job.type # "action" => UNCHANGED store
  BY DEF RunJob
<1>2. AddNextState /\ ~HasPrevious => UNCHANGED store
  BY DEF AddNextState
<1>3. \/ UNCHANGED store
      \/ \E job \in jobs : RunJob(job)
      \/ SaveTrajectory \/ AddNextState \/ UpdateTrajectoryReward
  BY NextSteps DEF Steps, StateThread, RewardThread, AgentConsumer, FetchBrokerTask, Raises, RetryOrGiveUp,
         TaskBroker, AnnounceSent, Chooses, ReceiveTask, EndTask, Consume, TakeCreation,
         GetState, SetPrevious, ComputeReward, CheckTrajectoryReward, AreAllTaskExecuted,
         ObserveReward, SaveHistory
<1> QED BY <1>1, <1>2, <1>3

LEMMA ActionKept ==
  ASSUME TypeOK, [Next]_vars, NEW k \in Tasks, store[k].action # NoAction
  PROVE  store'[k].action # NoAction
<1>1. ASSUME NEW job \in jobs, RunJob(job), job.type = "action" PROVE store'[k].action # NoAction
  <2>1. job.action # NoAction
    BY ActionsAre DEF TypeOK, AgentTypeOK
  <2> QED BY <1>1, <2>1 DEF RunJob, TypeOK, StoreTypeOK
<1>2. CASE SaveTrajectory
  BY <1>2 DEF SaveTrajectory, TypeOK, StoreTypeOK
<1>3. CASE AddNextState
  BY <1>3 DEF AddNextState, TypeOK, StoreTypeOK
<1>4. CASE UpdateTrajectoryReward
  BY <1>4 DEF UpdateTrajectoryReward, TypeOK, StoreTypeOK
<1>5. CASE UNCHANGED store
  BY <1>5
<1> QED BY <1>1, <1>2, <1>3, <1>4, <1>5, StoreStep

LEMMA RecordsKept ==
  ASSUME TypeOK, [Next]_vars, NEW k \in Tasks
  PROVE  (k \in records => k \in records') /\ (entries[k] # "none" => entries'[k] # "none")
<1>1. ASSUME NEW job \in jobs, RunJob(job)
      PROVE  (k \in records => k \in records') /\ (entries[k] # "none" => entries'[k] # "none")
  BY <1>1 DEF RunJob, TypeOK, AgentTypeOK
<1>2. CASE ObserveReward
  BY <1>2 DEF ObserveReward, TypeOK, AgentTypeOK
<1>3. UNCHANGED <<records, entries>> \/ (\E job \in jobs : RunJob(job)) \/ ObserveReward
  BY NextSteps DEF Steps, StateThread, RewardThread, AgentConsumer, FetchBrokerTask, Raises, RetryOrGiveUp,
         TaskBroker, AnnounceSent, Chooses, ReceiveTask, EndTask, Consume, TakeCreation,
         GetState, SaveTrajectory, AddNextState, SetPrevious, ComputeReward, UpdateTrajectoryReward,
         CheckTrajectoryReward, AreAllTaskExecuted, SaveHistory
<1> QED BY <1>1, <1>2, <1>3

LEMMA DoneKept ==
  ASSUME TypeOK, [Next]_vars, NEW k \in Tasks, NEW type \in JobTypes, Done(type, k)
  PROVE  Done(type, k)'
<1>1. CASE type = "action"
  BY <1>1, ActionKept DEF Done
<1>2. CASE type = "record"
  BY <1>2, RecordsKept DEF Done
<1>3. CASE type = "entry"
  BY <1>3, RecordsKept DEF Done
<1> QED BY <1>1, <1>2, <1>3 DEF JobTypes

LEMMA RunJobDone ==
  ASSUME TypeOK, NEW job \in jobs, RunJob(job)
  PROVE  Done(job.type, job.task)'
<1>1. job.type \in JobTypes /\ job.task \in Tasks /\ job.action # NoAction
  BY ActionsAre DEF TypeOK, AgentTypeOK
<1>2. CASE job.type = "action"
  BY <1>1, <1>2 DEF RunJob, Done, TypeOK, StoreTypeOK
<1>3. CASE job.type = "record"
  BY <1>1, <1>3 DEF RunJob, Done
<1>4. CASE job.type = "entry"
  BY <1>1, <1>4 DEF RunJob, Done, TypeOK, AgentTypeOK
<1> QED BY <1>1, <1>2, <1>3, <1>4 DEF JobTypes

(* A job stays until it is run.                                                                  *)
LEMMA JobsKept ==
  ASSUME [Next]_vars
  PROVE  jobs \subseteq jobs' \/ \E job \in jobs : RunJob(job) /\ jobs' = jobs \ {job}
BY JobsStep DEF Answered

LEMMA JobsLeftStep == ASSUME TypeOK, Wires, JobsLeft, [Next]_vars PROVE JobsLeft'
<1> SUFFICES ASSUME NEW k \in Tasks, Chosen(k)', NEW type \in JobTypes
             PROVE  (HasJob(type, k) \/ Done(type, k))'
  BY DEF JobsLeft
<1>1. ASSUME NEW w \in Workers, Chooses(w), k = broker.task PROVE HasJob(type, k)'
  BY <1>1 DEF Chooses, HasJob
<1>2. CASE Chosen(k)
  <2>1. CASE Done(type, k)
    BY <2>1, DoneKept
  <2>2. CASE HasJob(type, k)
    <3>1. PICK i \in Actions : Job(type, k, i) \in jobs
      BY <2>2 DEF HasJob
    <3>2. CASE Job(type, k, i) \in jobs'
      BY <3>2 DEF HasJob
    <3>3. CASE Job(type, k, i) \notin jobs'
      <4>1. RunJob(Job(type, k, i))
        BY <3>1, <3>3, JobsKept
      <4>2. Job(type, k, i).type = type /\ Job(type, k, i).task = k
        BY DEF Job
      <4> QED BY <3>1, <4>1, <4>2, RunJobDone
    <3> QED BY <3>2, <3>3
  <2> QED BY <1>2, <2>1, <2>2 DEF JobsLeft
<1>3. CASE ~Chosen(k)
  BY <1>1, <1>3, NamesStep DEF Chosen
<1> QED BY <1>2, <1>3

-----------------------------------------------------------------------------
(* If tasks are slow, an action that the broker has no class for does not outlast the retry.     *)
Recalled == Places[At("queued")] \union Places[At("fetched")] \union Places[At("gaveUp")]

Stands(k) ==
  \/ \E job \in jobs : job.type = "action" /\ job.task = k /\ HasQueue(job.action)
  \/ store[k].action \in Actions /\ HasQueue(store[k].action)

Available ==
  SlowTasks =>
    /\ \A job \in jobs : ~HasQueue(job.action) => job.task \in Recalled
    /\ \A k \in Tasks : Chosen(k) => Stands(k)

LEMMA RecalledBecomes ==
  Recalled' = Places'[At("queued")] \union Places'[At("fetched")] \union Places'[At("gaveUp")]
BY DEF Recalled, At

LEMMA RecalledStep ==
  ASSUME TypeOK, Wires, NoRepeats, Apart, SlowTasks, [Next]_vars, NEW job \in jobs, job.task \in Recalled
  PROVE  job.task \in Recalled'
<1>1. CASE FetchBrokerTask
  BY <1>1, FetchMoves, RecalledBecomes, StopCases DEF Moves, Recalled
<1>2. CASE TaskBroker
  <2>1. job.task # broker'.task
    BY <1>2 DEF TaskBroker
  <2> QED BY <1>2, <2>1, TaskBrokerMoves, RecalledBecomes, StopCases DEF Moves, Recalled
<1>3. CASE Raises
  BY <1>3, RequestFailsMoves, RecalledBecomes, StopCases DEF Moves, Recalled, At
<1>4. CASE ~FetchBrokerTask /\ ~TaskBroker /\ ~Raises
  <2>1. UNCHANGED <<brokerQueue, fetched, gaveUp>>
    <3>1. CASE AnnounceSent \/ (\E w \in Workers : Chooses(w) \/ ReceiveTask(w) \/ EndTask(w))
      BY <3>1 DEF AnnounceSent, Chooses, ReceiveTask, EndTask
    <3>2. CASE (\E s \in Senders : Consume(s)) \/ ComputeReward
      <4> HIDE DEF Senders
      <4> QED BY <3>2 DEF Consume, ComputeReward
    <3>3. CASE ~Moving
      BY <3>3, OthersStay DEF placeVars
    <3> HIDE DEF Senders
    <3> QED BY <1>4, <3>1, <3>2, <3>3 DEF Moving
  <2>2. Recalled' = Recalled
    BY <2>1, PlacesAre, PlacesBecome, RecalledBecomes DEF Recalled
  <2> QED BY <2>2
<1> QED BY <1>1, <1>2, <1>3, <1>4

LEMMA ActionWritten ==
  ASSUME TypeOK, [Next]_vars, NEW k \in Tasks
  PROVE  \/ store'[k].action = store[k].action
         \/ \E job \in jobs : RunJob(job) /\ job.type = "action" /\ job.task = k
                              /\ store'[k].action = job.action
<1>1. ASSUME NEW job \in jobs, RunJob(job), job.type = "action"
      PROVE  \/ store'[k].action = store[k].action
             \/ job.task = k /\ store'[k].action = job.action
  BY <1>1 DEF RunJob, TypeOK, StoreTypeOK
<1>2. CASE SaveTrajectory \/ AddNextState \/ UpdateTrajectoryReward
  BY <1>2 DEF SaveTrajectory, AddNextState, UpdateTrajectoryReward, TypeOK, StoreTypeOK
<1> QED BY <1>1, <1>2, StoreStep

LEMMA AvailableStep ==
  ASSUME TypeOK, Wires, NoRepeats, Apart, OneWorker, Available, [Next]_vars
  PROVE  Available'
<1> SUFFICES ASSUME SlowTasks
             PROVE  /\ \A job \in jobs' : ~HasQueue(job.action) => job.task \in Recalled'
                    /\ \A k \in Tasks : Chosen(k)' => Stands(k)'
  BY DEF Available
<1>1. ASSUME NEW job \in jobs', ~HasQueue(job.action) PROVE job.task \in Recalled'
  <2>1. CASE job \in jobs
    BY <1>1, <2>1, RecalledStep DEF Available
  <2>2. CASE job \notin jobs
    <3>1. Raises /\ job.task = broker.task
      BY <1>1, <2>2, JobsStep DEF Answered, Job
    <3> QED BY <3>1, RequestFailsMoves, RecalledBecomes, StopCases DEF Moves, At
  <2> QED BY <2>1, <2>2
<1>2. ASSUME NEW k \in Tasks, Chosen(k)' PROVE Stands(k)'
  <2>1. CASE ~Chosen(k)
    <3>1. PICK w \in Workers : Chooses(w) /\ k = broker.task
      BY <1>2, <2>1, NamesStep DEF Chosen
    <3>2. PICK i \in Actions : HasQueue(i) /\ Answered(i)
      BY <3>1 DEF Chooses, Answered
    <3>3. LET job == Job("action", k, i)
          IN  job \in jobs' /\ job.type = "action" /\ job.task = k /\ HasQueue(job.action)
      BY <3>1, <3>2 DEF Answered, Job, JobTypes
    <3> QED BY <3>3 DEF Stands
  <2>2. CASE Chosen(k)
    <3>1. Stands(k)
      BY <2>2 DEF Available
    <3>2. ASSUME NEW job \in jobs, RunJob(job), job.type = "action", job.task = k
          PROVE  job.action \in Actions /\ HasQueue(job.action)
      <4>1. k \notin Recalled
        BY <2>2 DEF Recalled, Chosen, OneWorker, Unsent, UnsentStops
      <4> QED BY <3>2, <4>1 DEF Available, TypeOK, AgentTypeOK
    <3>3. CASE store[k].action \in Actions /\ HasQueue(store[k].action)
      BY <3>2, <3>3, ActionWritten DEF Stands
    <3>4. ASSUME NEW job \in jobs, job.type = "action", job.task = k, HasQueue(job.action)
          PROVE  Stands(k)'
      <4>1. CASE job \in jobs'
        BY <3>4, <4>1 DEF Stands
      <4>2. CASE job \notin jobs'
        <5>1. RunJob(job)
          BY <4>2, JobsKept
        <5>2. store'[k].action = job.action
          BY <3>4, <5>1 DEF RunJob, TypeOK, StoreTypeOK
        <5> QED BY <3>2, <3>4, <5>1, <5>2 DEF Stands
      <4> QED BY <4>1, <4>2
    <3> QED BY <3>1, <3>3, <3>4 DEF Stands
  <2> QED BY <2>1, <2>2
<1> QED BY <1>1, <1>2

LEMMA RewardFollows ==
  ASSUME TypeOK, OneWorker, Quiet, Available PROVE RewardOfTheAction
<1> SUFFICES ASSUME NEW k \in Tasks, IsComplete(store[k])
             PROVE  LET i == store[k].action
                        label == ActionSpace[i]
                    IN  \/ store[k].reward = label
                        \/ label \notin Workers /\ i \in DOMAIN BrokerClasses
                           /\ store[k].reward = BrokerClasses[i]
                        \/ ~SlowTasks /\ label \notin Workers /\ i \notin DOMAIN BrokerClasses
  BY DEF RewardOfTheAction
<1> DEFINE i == store[k].action
<1>1. store[k].reward \in Workers /\ i \in Actions
  BY DEF TypeOK, StoreTypeOK, IsComplete
<1> HIDE DEF i
<1>2. i \in DOMAIN BrokerClasses <=> i <= Len(BrokerClasses)
  BY <1>1, ActionsAre
<1>3. Names(k, store[k].reward) /\ Chosen(k)
  BY <1>1 DEF Names, InStore, Chosen
<1>4. CASE HasQueue(i)
  <2>1. QueueOf(i) \in Workers /\ Names(k, QueueOf(i))
    BY <1>1, <1>4, QueueType DEF Names, InStore, StandsFor, i
  <2>2. store[k].reward = QueueOf(i)
    BY <1>1, <1>3, <2>1 DEF OneWorker
  <2> QED BY <1>2, <1>4, <2>2 DEF HasQueue, QueueOf, i
<1>5. CASE ~HasQueue(i)
  <2>1. ~SlowTasks
    <3>1. Over(k)
      BY <1>1, WorkersAre DEF Over
    <3> QED BY <1>3, <1>5, <3>1 DEF Quiet, Available, Stands, i
  <2> QED BY <1>2, <1>5, <2>1 DEF HasQueue, i
<1> QED BY <1>4, <1>5

-----------------------------------------------------------------------------
(* Notices: what is announced is complete and stays so, each once, and is learned once.          *)
Reading == stateThread.at \in {"save", "next", "check"} => readings >= 1

Completed == [type : {"completed"}, task : Tasks, worker : {NoWorker}]

Notices ==
  /\ \A k \in notified : IsComplete(store[k])
  /\ OnceIn(agentInbox, Completed)
  /\ TasksIn(agentInbox, Completed) \subseteq notified
  /\ \A k \in Tasks : learned[k] # 0 =>
       learned[k] = 1 /\ k \in notified /\ k \notin TasksIn(agentInbox, Completed)

LEMMA StateThreadFrame ==
  ASSUME [Next]_vars, ~StateThread PROVE UNCHANGED <<stateThread, readings, previous>>
<1>1. CASE FetchBrokerTask \/ Raises \/ TaskBroker \/ AnnounceSent
  BY <1>1 DEF FetchBrokerTask, Raises, RetryOrGiveUp, TaskBroker, AnnounceSent
<1>2. CASE \E w \in Workers : Chooses(w) \/ ReceiveTask(w) \/ EndTask(w)
  BY <1>2 DEF Chooses, ReceiveTask, EndTask
<1>3. CASE (\E job \in jobs : RunJob(job)) \/ (\E s \in Senders : Consume(s))
  <2> HIDE DEF Senders
  <2> QED BY <1>3 DEF RunJob, Consume
<1>4. CASE RewardThread
  BY <1>4 DEF RewardThread, ComputeReward, UpdateTrajectoryReward, CheckTrajectoryReward,
              AreAllTaskExecuted
<1>5. CASE AgentConsumer
  BY <1>5 DEF AgentConsumer, ObserveReward, SaveHistory
<1>6. CASE UNCHANGED vars
  BY <1>6
<1> HIDE DEF Senders
<1> QED BY <1>1, <1>2, <1>3, <1>4, <1>5, <1>6, NextSteps DEF Steps

LEMMA ReadingStep == ASSUME TypeOK, Reading, [Next]_vars PROVE Reading'
<1>1. readings \in Nat /\ stateThread \in [task : MaybeTask, at : {"idle", "wait", "save", "next", "check"}]
  BY DEF TypeOK, BuilderTypeOK
<1>2. CASE TakeCreation
  BY <1>2 DEF TakeCreation, Reading
<1>3. CASE GetState
  BY <1>1, <1>3 DEF GetState, Reading
<1>4. CASE SaveTrajectory \/ AddNextState \/ SetPrevious
  BY <1>1, <1>4 DEF SaveTrajectory, AddNextState, SetPrevious, Reading
<1>5. CASE ~StateThread
  BY <1>5, StateThreadFrame DEF Reading
<1> QED BY <1>2, <1>3, <1>4, <1>5 DEF StateThread

LEMMA CompleteKept ==
  ASSUME TypeOK, Reading, RewardOnce, [Next]_vars, NEW k \in Tasks, IsComplete(store[k])
  PROVE  IsComplete(store'[k])
<1>1. store'[k].state # 0
  BY StateKeptByStep DEF IsComplete, TypeOK
<1>2. store'[k].action # NoAction
  BY ActionKept DEF IsComplete
<1>3. store'[k].reward # NoWorker
  <2>1. CASE UpdateTrajectoryReward
    <3>1. k # rewardThread.task
      BY <2>1 DEF UpdateTrajectoryReward, RewardOnce, IsComplete
    <3> QED BY <2>1, <3>1, RewardWritten DEF IsComplete
  <2>2. CASE ~UpdateTrajectoryReward
    BY <2>2, RewardsFrame DEF IsComplete
  <2> QED BY <2>1, <2>2
<1>4. store'[k].next # 0
  <2>1. ASSUME NEW job \in jobs, RunJob(job) PROVE store'[k].next = store[k].next
    BY <2>1 DEF RunJob, TypeOK, StoreTypeOK
  <2>2. CASE SaveTrajectory \/ UpdateTrajectoryReward \/ UNCHANGED store
    BY <2>2 DEF SaveTrajectory, UpdateTrajectoryReward, TypeOK, StoreTypeOK, IsComplete
  <2>3. CASE AddNextState
    <3>1. readings # 0
      BY <2>3 DEF AddNextState, Reading
    <3> QED BY <2>3, <3>1 DEF AddNextState, TypeOK, StoreTypeOK, IsComplete
  <2> QED BY <2>1, <2>2, <2>3, StoreStep DEF IsComplete
<1> QED BY <1>1, <1>2, <1>3, <1>4 DEF IsComplete

Inbox == Completed \union [type : {"executed"}, task : {NoTask}, worker : {NoWorker}]

LEMMA NotifyNotices ==
  ASSUME TypeOK, Notices, NEW k \in Tasks, NotifyIfComplete(k), UNCHANGED <<store, learned>>
  PROVE  Notices'
<1>1. agentInbox \in Seq(Inbox)
  BY DEF TypeOK, AgentTypeOK, Inbox, Completed
<1>2. CASE IsComplete(store[k]) /\ k \notin notified
  <2> DEFINE e == Event("completed", k, NoWorker)
  <2>1. notified' = notified \union {k} /\ agentInbox' = Append(agentInbox, e)
    BY <1>2 DEF NotifyIfComplete
  <2>2. e \in Inbox /\ e \in Completed /\ e.task = k
    BY DEF Event, Inbox, Completed
  <2> HIDE DEF e
  <2>3. /\ TasksIn(agentInbox', Completed) = TasksIn(agentInbox, Completed) \union {k}
        /\ OnceIn(agentInbox', Completed)
    <3>1. OnceIn(agentInbox, Completed) /\ k \notin TasksIn(agentInbox, Completed)
      BY <1>2 DEF Notices
    <3> QED BY <1>1, <2>1, <2>2, <3>1, AppendTasks
  <2> QED BY <1>2, <2>1, <2>3 DEF Notices
<1>3. CASE ~(IsComplete(store[k]) /\ k \notin notified)
  BY <1>3 DEF NotifyIfComplete, Notices
<1> QED BY <1>2, <1>3

(* The store enters Notices only by what it says of complete trajectories.                       *)
LEMMA NoticesFrame ==
  ASSUME Notices, UNCHANGED <<notified, agentInbox, learned>>, notified \subseteq Tasks,
         \A k \in Tasks : IsComplete(store[k]) => IsComplete(store'[k])
  PROVE  Notices'
BY DEF Notices

LEMMA ObserveRewardNotices ==
  ASSUME TypeOK, Notices, ObserveReward
  PROVE  /\ Notices'
         /\ LET k == Head(agentInbox).task
            IN  k \in notified /\ learned[k] = 0 /\ learned' = [learned EXCEPT ![k] = 1]
<1> DEFINE k == Head(agentInbox).task
<1>1. agentInbox \in Seq(Inbox) /\ agentInbox # <<>> /\ agentInbox' = Tail(agentInbox)
  BY DEF ObserveReward, TypeOK, AgentTypeOK, Inbox, Completed
<1>2. Head(agentInbox) \in Completed
  <2>1. Head(agentInbox) \in Inbox
    BY <1>1, SeqFacts
  <2> QED BY <2>1 DEF ObserveReward, Inbox
<1>3. OnceIn(agentInbox, Completed)
  BY DEF Notices
<1>4. /\ k \in TasksIn(agentInbox, Completed) /\ OnceIn(agentInbox', Completed)
      /\ TasksIn(agentInbox', Completed) = TasksIn(agentInbox, Completed) \ {k}
  BY <1>1, <1>2, <1>3, TailTasks
<1>5. k \in Tasks /\ learned \in [Tasks -> Nat] /\ learned' = [learned EXCEPT ![k] = @ + 1]
  BY <1>2 DEF ObserveReward, TypeOK, AgentTypeOK, Completed
<1>6. UNCHANGED <<notified, store>>
  BY DEF ObserveReward
<1> HIDE DEF k
<1>7. k \in notified /\ learned[k] = 0
  BY <1>4, <1>5 DEF Notices
<1>8. learned' = [learned EXCEPT ![k] = 1]
  <2>1. learned[k] + 1 = 1
    BY <1>7
  <2> QED BY <1>5, <2>1
<1> QED BY <1>3, <1>4, <1>5, <1>6, <1>7, <1>8 DEF Notices, k

LEMMA NoticesStep ==
  ASSUME TypeOK, Reading, RewardOnce, Notices, [Next]_vars
  PROVE  Notices'
<1>0. agentInbox \in Seq(Inbox) /\ notified \subseteq Tasks
  BY DEF TypeOK, AgentTypeOK, BuilderTypeOK, Inbox, Completed
<1>1. CASE SetPrevious
  <2>1. CASE HasPrevious
    <3>1. previous \in Tasks /\ NotifyIfComplete(previous) /\ UNCHANGED <<store, learned>>
      BY <1>1, <2>1 DEF SetPrevious, HasPrevious, TypeOK, BuilderTypeOK
    <3> QED BY <3>1, NotifyNotices
  <2>2. CASE ~HasPrevious
    BY <1>0, <1>1, <2>2, NoticesFrame DEF SetPrevious
  <2> QED BY <2>1, <2>2
<1>2. CASE CheckTrajectoryReward
  <2>1. rewardThread.task \in Tasks
    BY <1>2, RewardThreadType DEF CheckTrajectoryReward, TypeOK
  <2> QED BY <1>2, <2>1, NotifyNotices DEF CheckTrajectoryReward
<1>3. CASE AreAllTaskExecuted
  <2>1. CASE AllExecuted
    <3> DEFINE e == Event("executed", NoTask, NoWorker)
    <3>1. agentInbox' = Append(agentInbox, e) /\ UNCHANGED <<notified, learned, store>>
      BY <1>3, <2>1 DEF AreAllTaskExecuted
    <3>2. e \in Inbox /\ e \notin Completed
      BY DEF Event, Inbox, Completed
    <3> HIDE DEF e
    <3>3. /\ TasksIn(agentInbox', Completed) = TasksIn(agentInbox, Completed)
          /\ OnceIn(agentInbox', Completed)
      <4>1. OnceIn(agentInbox, Completed)
        BY DEF Notices
      <4> QED BY <1>0, <3>1, <3>2, <4>1, AppendTasks
    <3> QED BY <3>1, <3>3 DEF Notices
  <2>2. CASE ~AllExecuted
    BY <1>0, <1>3, <2>2, NoticesFrame DEF AreAllTaskExecuted
  <2> QED BY <2>1, <2>2
<1>4. CASE ObserveReward
  BY <1>4, ObserveRewardNotices
<1>5. CASE SaveHistory
  <2>1. agentInbox # <<>> /\ agentInbox' = Tail(agentInbox) /\ UNCHANGED <<notified, learned, store>>
        /\ Head(agentInbox) \notin Completed
    BY <1>5 DEF SaveHistory, Completed
  <2>2. /\ TasksIn(agentInbox', Completed) = TasksIn(agentInbox, Completed)
        /\ OnceIn(agentInbox', Completed)
    <3>1. OnceIn(agentInbox, Completed)
      BY DEF Notices
    <3> QED BY <1>0, <2>1, <3>1, TailTasks
  <2> QED BY <2>1, <2>2 DEF Notices
<1>6. CASE UNCHANGED <<notified, agentInbox, learned>>
  BY <1>0, <1>6, CompleteKept, NoticesFrame
<1>7. \/ UNCHANGED <<notified, agentInbox, learned>> \/ SetPrevious \/ CheckTrajectoryReward
      \/ AreAllTaskExecuted \/ ObserveReward \/ SaveHistory
  BY NextSteps DEF Steps, StateThread, RewardThread, AgentConsumer, FetchBrokerTask, Raises, RetryOrGiveUp,
         TaskBroker, AnnounceSent, Chooses, RunJob, ReceiveTask, EndTask, Consume, TakeCreation,
         GetState, SaveTrajectory, AddNextState, ComputeReward, UpdateTrajectoryReward
<1> QED BY <1>1, <1>2, <1>3, <1>4, <1>5, <1>6, <1>7

(* A slow task is learned from when the jobs of the pool are over.                               *)
LEMMA LearnedRecorded ==
  ASSUME TypeOK, Quiet, JobsLeft, Notices, SlowTasks PROVE LearnedHasRecord
<1> SUFFICES ASSUME NEW k \in Tasks, learned[k] > 0 PROVE k \in records
  BY DEF LearnedHasRecord
<1>1. IsComplete(store[k])
  BY DEF Notices
<1>2. Over(k) /\ store[k].reward \in Workers
  BY <1>1 DEF IsComplete, Over, TypeOK, StoreTypeOK
<1>3. Chosen(k)
  BY <1>2 DEF Chosen, Names, InStore
<1>4. ~HasJob("record", k)
  BY <1>2 DEF Quiet, HasJob, Job
<1> QED BY <1>3, <1>4 DEF JobsLeft, JobTypes, Done

-----------------------------------------------------------------------------
(* The steps of the task path as steps of the life of trajectories.                              *)
LifeParts == {"state", "action", "next", "reward"}

LEMMA StoreOnePart ==
  ASSUME StoreTypeOK, StoreTypeOK', NEW k \in Tasks, NEW p \in LifeParts,
         \A l \in Tasks \ {k} : store'[l] = store[l],
         StoredParts(store'[k]) = StoredParts(store[k]) \union {p},
         UNCHANGED <<notified, learned>>
  PROVE  Life!Next
<1> DEFINE parts == [l \in Tasks |-> StoredParts(store[l])]
<1>1. parts' = [parts EXCEPT ![k] = @ \union {p}]
  <2>1. \A l \in Tasks : parts'[l] = IF l = k THEN parts[l] \union {p} ELSE parts[l]
    OBVIOUS
  <2> QED BY <2>1
<1>2. Life!Store(k, p)
  BY <1>1 DEF Life!Store
<1> QED BY <1>2 DEF Life!Next, LifeParts

LEMMA StoreParts ==
  ASSUME NEW t, NEW u, t \in [state : Nat, action : MaybeAction, next : Nat, reward : MaybeWorker]
  PROVE  /\ \A n \in Nat \ {0} : u = [t EXCEPT !.state = n] => StoredParts(u) = StoredParts(t) \union {"state"}
         /\ \A n \in Nat \ {0} : u = [t EXCEPT !.next = n] => StoredParts(u) = StoredParts(t) \union {"next"}
         /\ \A i \in Actions : u = [t EXCEPT !.action = i] => StoredParts(u) = StoredParts(t) \union {"action"}
         /\ \A w \in Workers : u = [t EXCEPT !.reward = w] => StoredParts(u) = StoredParts(t) \union {"reward"}
BY WorkersAre, ActionsAre DEF StoredParts

(* What the other variables do leaves trajectories as they are.                                  *)
LEMMA LifeFrame == UNCHANGED <<store, notified, learned>> => UNCHANGED Life!vars
BY DEF Life!vars

LEMMA RunJobLives ==
  ASSUME TypeOK, TypeOK', NEW job \in jobs, RunJob(job) PROVE [Life!Next]_(Life!vars)
<1>1. UNCHANGED <<notified, learned>>
  BY DEF RunJob
<1>2. CASE job.type = "action"
  <2>1. job.task \in Tasks /\ job.action \in Actions
    BY DEF TypeOK, AgentTypeOK
  <2>2. /\ store'[job.task] = [store[job.task] EXCEPT !.action = job.action]
        /\ \A l \in Tasks \ {job.task} : store'[l] = store[l]
    BY <1>2, <2>1 DEF RunJob, TypeOK, StoreTypeOK
  <2>3. StoredParts(store'[job.task]) = StoredParts(store[job.task]) \union {"action"}
    <3>1. store[job.task] \in [state : Nat, action : MaybeAction, next : Nat, reward : MaybeWorker]
      BY <2>1 DEF TypeOK, StoreTypeOK
    <3> QED BY <2>1, <2>2, <3>1, StoreParts
  <2> QED BY <1>1, <2>1, <2>2, <2>3, StoreOnePart DEF LifeParts, TypeOK
<1>3. CASE job.type # "action"
  BY <1>1, <1>3, LifeFrame DEF RunJob
<1> QED BY <1>2, <1>3

LEMMA SaveTrajectoryLives ==
  ASSUME TypeOK, TypeOK', Reading, SaveTrajectory PROVE [Life!Next]_(Life!vars)
<1> DEFINE k == stateThread.task
<1>1. UNCHANGED <<notified, learned>>
  BY DEF SaveTrajectory
<1>2. k \in Tasks \/ k = NoTask
  BY DEF TypeOK, BuilderTypeOK
<1>3. CASE k \in Tasks /\ store[k].state = 0
  <2>1. readings \in Nat \ {0}
    BY DEF SaveTrajectory, Reading, TypeOK, BuilderTypeOK
  <2>2. /\ store'[k] = [store[k] EXCEPT !.state = readings]
        /\ \A l \in Tasks \ {k} : store'[l] = store[l]
    BY <1>3 DEF SaveTrajectory, TypeOK, StoreTypeOK
  <2>3. StoredParts(store'[k]) = StoredParts(store[k]) \union {"state"}
    <3>1. store[k] \in [state : Nat, action : MaybeAction, next : Nat, reward : MaybeWorker]
      BY <1>3 DEF TypeOK, StoreTypeOK
    <3> QED BY <2>1, <2>2, <3>1, StoreParts
  <2> HIDE DEF k
  <2> QED BY <1>1, <1>3, <2>2, <2>3, StoreOnePart DEF LifeParts, TypeOK
<1>4. CASE ~(k \in Tasks /\ store[k].state = 0)
  <2>1. store' = store
    <3>1. CASE k \in Tasks
      BY <1>4, <3>1 DEF SaveTrajectory, TypeOK, StoreTypeOK
    <3>2. CASE k \notin Tasks
      <4>1. k \notin DOMAIN store
        BY <3>2 DEF TypeOK, StoreTypeOK
      <4> QED BY <4>1 DEF SaveTrajectory, TypeOK, StoreTypeOK
    <3> QED BY <3>1, <3>2
  <2> QED BY <1>1, <2>1, LifeFrame
<1> QED BY <1>3, <1>4

LEMMA AddNextStateLives ==
  ASSUME TypeOK, TypeOK', Reading, AddNextState PROVE [Life!Next]_(Life!vars)
<1>1. UNCHANGED <<notified, learned>>
  BY DEF AddNextState
<1>2. CASE HasPrevious
  <2>1. previous \in Tasks /\ readings \in Nat \ {0}
    BY <1>2 DEF AddNextState, HasPrevious, Reading, TypeOK, BuilderTypeOK
  <2>2. /\ store'[previous] = [store[previous] EXCEPT !.next = readings]
        /\ \A l \in Tasks \ {previous} : store'[l] = store[l]
    BY <1>2, <2>1 DEF AddNextState, TypeOK, StoreTypeOK
  <2>3. StoredParts(store'[previous]) = StoredParts(store[previous]) \union {"next"}
    <3>1. store[previous] \in [state : Nat, action : MaybeAction, next : Nat, reward : MaybeWorker]
      BY <2>1 DEF TypeOK, StoreTypeOK
    <3> QED BY <2>1, <2>2, <3>1, StoreParts
  <2> QED BY <1>1, <2>1, <2>2, <2>3, StoreOnePart DEF LifeParts, TypeOK
<1>3. CASE ~HasPrevious
  BY <1>1, <1>3, LifeFrame DEF AddNextState
<1> QED BY <1>2, <1>3

LEMMA UpdateTrajectoryRewardLives ==
  ASSUME TypeOK, TypeOK', RewardOnce, UpdateTrajectoryReward PROVE [Life!Next]_(Life!vars)
<1> DEFINE k == rewardThread.task
<1>1. UNCHANGED <<notified, learned>>
  BY DEF UpdateTrajectoryReward
<1>2. rewardThread \in [task : Tasks, at : {"write", "check", "count"}, reward : MaybeWorker]
  BY RewardThreadType DEF UpdateTrajectoryReward, TypeOK
<1>3. store[k] \in [state : Nat, action : MaybeAction, next : Nat, reward : MaybeWorker]
  BY <1>2 DEF TypeOK, StoreTypeOK
<1>4. /\ store'[k] = [store[k] EXCEPT !.reward = rewardThread.reward]
      /\ \A l \in Tasks \ {k} : store'[l] = store[l]
  BY <1>2 DEF UpdateTrajectoryReward, TypeOK, StoreTypeOK
<1>5. CASE rewardThread.reward \in Workers
  <2>1. StoredParts(store'[k]) = StoredParts(store[k]) \union {"reward"}
    BY <1>3, <1>4, <1>5, StoreParts
  <2> QED BY <1>1, <1>2, <1>4, <2>1, StoreOnePart DEF LifeParts, TypeOK
<1>6. CASE rewardThread.reward = NoWorker
  <2>1. store[k].reward = NoWorker
    BY DEF UpdateTrajectoryReward, RewardOnce
  <2>2. store'[k] = store[k]
    BY <1>3, <1>4, <1>6, <2>1
  <2>3. store' = store
    BY <1>4, <2>2 DEF TypeOK, StoreTypeOK
  <2> QED BY <1>1, <2>3, LifeFrame
<1> QED BY <1>2, <1>5, <1>6

LEMMA NotifyLives ==
  ASSUME TypeOK, NEW k \in Tasks, NotifyIfComplete(k), UNCHANGED <<store, learned>>
  PROVE  [Life!Next]_(Life!vars)
<1>1. CASE IsComplete(store[k]) /\ k \notin notified
  <2>1. StoredParts(store[k]) = {"state", "action", "next", "reward"}
    BY <1>1 DEF IsComplete, StoredParts
  <2>2. Life!Announce(k)
    BY <1>1, <2>1 DEF NotifyIfComplete, Life!Announce
  <2> QED BY <2>2 DEF Life!Next
<1>2. CASE ~(IsComplete(store[k]) /\ k \notin notified)
  BY <1>2, LifeFrame DEF NotifyIfComplete
<1> QED BY <1>1, <1>2

LEMMA LifeStep ==
  ASSUME TypeOK, TypeOK', Reading, RewardOnce, Notices, [Next]_vars
  PROVE  [Life!Next]_(Life!vars)
<1>1. CASE (\E job \in jobs : RunJob(job)) \/ SaveTrajectory \/ AddNextState \/ UpdateTrajectoryReward
  BY <1>1, RunJobLives, SaveTrajectoryLives, AddNextStateLives, UpdateTrajectoryRewardLives
<1>2. CASE SetPrevious
  <2>1. CASE HasPrevious
    <3>1. previous \in Tasks /\ NotifyIfComplete(previous) /\ UNCHANGED <<store, learned>>
      BY <1>2, <2>1 DEF SetPrevious, HasPrevious, TypeOK, BuilderTypeOK
    <3> QED BY <3>1, NotifyLives
  <2>2. CASE ~HasPrevious
    BY <1>2, <2>2, LifeFrame DEF SetPrevious
  <2> QED BY <2>1, <2>2
<1>3. CASE CheckTrajectoryReward
  <2>1. rewardThread.task \in Tasks
    BY <1>3, RewardThreadType DEF CheckTrajectoryReward, TypeOK
  <2> QED BY <1>3, <2>1, NotifyLives DEF CheckTrajectoryReward
<1>4. CASE ObserveReward
  <2> DEFINE k == Head(agentInbox).task
  <2>1. k \in notified /\ learned[k] = 0 /\ learned' = [learned EXCEPT ![k] = 1]
    BY <1>4, ObserveRewardNotices
  <2>2. k \in Tasks /\ UNCHANGED <<store, notified>>
    BY <1>4, <2>1 DEF ObserveReward, TypeOK, BuilderTypeOK
  <2> HIDE DEF k
  <2>3. Life!Learn(k)
    BY <2>1, <2>2 DEF Life!Learn
  <2> QED BY <2>2, <2>3 DEF Life!Next
<1>5. CASE UNCHANGED <<store, notified, learned>>
  BY <1>5, LifeFrame
<1>6. \/ UNCHANGED <<store, notified, learned>> \/ (\E job \in jobs : RunJob(job)) \/ SaveTrajectory
      \/ AddNextState \/ UpdateTrajectoryReward \/ SetPrevious \/ CheckTrajectoryReward
      \/ ObserveReward
  BY NextSteps DEF Steps, StateThread, RewardThread, AgentConsumer, FetchBrokerTask, Raises, RetryOrGiveUp,
         TaskBroker, AnnounceSent, Chooses, ReceiveTask, EndTask, Consume, TakeCreation,
         GetState, ComputeReward, AreAllTaskExecuted, SaveHistory
<1> QED BY <1>1, <1>2, <1>3, <1>4, <1>5, <1>6

LEMMA LifeInit == Init => Life!Init
BY DEF Init, Life!Init, StoredParts, Missing

(* What is announced is complete, and what is learned is announced: LearnedOnceAndComplete is    *)
(* not inductive without the announcement between the two.                                       *)
LifeInv ==
  /\ Life!TypeOK
  /\ \A k \in notified : StoredParts(store[k]) = LifeParts
  /\ \A k \in Tasks : learned[k] # 0 => learned[k] = 1 /\ k \in notified

LEMMA LifeInitInv == Life!Init => LifeInv
BY DEF Life!Init, LifeInv, Life!TypeOK

LEMMA LifeNextInv == LifeInv /\ [Life!Next]_(Life!vars) => LifeInv'
<1> DEFINE parts == [k \in Tasks |-> StoredParts(store[k])]
<1> SUFFICES ASSUME LifeInv, [Life!Next]_(Life!vars) PROVE LifeInv'
  OBVIOUS
<1>1. /\ parts \in [Tasks -> SUBSET LifeParts] /\ notified \subseteq Tasks /\ learned \in [Tasks -> Nat]
      /\ \A k \in notified : parts[k] = LifeParts
      /\ \A k \in Tasks : learned[k] # 0 => learned[k] = 1 /\ k \in notified
  BY DEF LifeInv, Life!TypeOK, LifeParts
<1>2. ASSUME /\ parts' \in [Tasks -> SUBSET LifeParts] /\ notified' \subseteq Tasks /\ learned' \in [Tasks -> Nat]
             /\ \A k \in notified' : parts'[k] = LifeParts
             /\ \A k \in Tasks : learned'[k] # 0 => learned'[k] = 1 /\ k \in notified'
      PROVE  LifeInv'
  BY <1>2 DEF LifeInv, Life!TypeOK, LifeParts
<1>3. CASE \E k \in Tasks : \E p \in LifeParts : Life!Store(k, p)
  <2>1. PICK k \in Tasks, p \in LifeParts : /\ parts' = [parts EXCEPT ![k] = @ \union {p}]
                                           /\ UNCHANGED <<notified, learned>>
    BY <1>3 DEF Life!Store
  <2> HIDE DEF parts
  <2>2. parts' \in [Tasks -> SUBSET LifeParts] /\ \A l \in notified : parts'[l] = LifeParts
    BY <1>1, <2>1
  <2> QED BY <1>1, <1>2, <2>1, <2>2
<1>4. CASE \E k \in Tasks : Life!Announce(k)
  <2>1. PICK k \in Tasks : /\ parts[k] = LifeParts /\ notified' = notified \union {k}
                           /\ parts' = parts /\ learned' = learned
    BY <1>4 DEF Life!Announce, LifeParts
  <2> HIDE DEF parts
  <2> QED BY <1>1, <1>2, <2>1
<1>5. CASE \E k \in Tasks : Life!Learn(k)
  <2>1. PICK k \in Tasks : /\ k \in notified /\ learned' = [learned EXCEPT ![k] = 1]
                           /\ parts' = parts /\ notified' = notified
    BY <1>5 DEF Life!Learn
  <2> HIDE DEF parts
  <2>2. learned' \in [Tasks -> Nat] /\ \A l \in Tasks : learned'[l] # 0 => learned'[l] = 1 /\ l \in notified
    BY <1>1, <2>1
  <2> QED BY <1>1, <1>2, <2>1, <2>2
<1>6. CASE UNCHANGED Life!vars
  <2>1. parts' = parts /\ notified' = notified /\ learned' = learned
    BY <1>6 DEF Life!vars
  <2> HIDE DEF parts
  <2> QED BY <1>1, <1>2, <2>1
<1> QED BY <1>3, <1>4, <1>5, <1>6 DEF Life!Next, LifeParts

-----------------------------------------------------------------------------
(* The chain of trajectories: the states are readings, and a trajectory that has a next state    *)
(* has its own from an earlier reading.                                                          *)
Chain ==
  /\ stateThread.at # "idle" => stateThread.task \in Tasks
  /\ stateThread.at \in {"next", "check"} => store[stateThread.task].state # 0
  /\ \A k \in Tasks : /\ store[k].state <= readings
                      /\ store[k].next # 0 => store[k].state # 0 /\ store[k].state < store[k].next
  /\ previous # NoTask =>
       /\ store[previous].state # 0
       /\ stateThread.at \in {"save", "next"} => store[previous].state < readings

(* Only the state thread writes states and next states.                                          *)
LEMMA ChainFrame ==
  ASSUME TypeOK, [Next]_vars, ~SaveTrajectory, ~AddNextState, NEW k \in Tasks
  PROVE  store'[k].state = store[k].state /\ store'[k].next = store[k].next
<1>1. ASSUME NEW job \in jobs, RunJob(job)
      PROVE  store'[k].state = store[k].state /\ store'[k].next = store[k].next
  BY <1>1 DEF RunJob, TypeOK, StoreTypeOK
<1>2. CASE UpdateTrajectoryReward
  BY <1>2 DEF UpdateTrajectoryReward, TypeOK, StoreTypeOK
<1> QED BY <1>1, <1>2, StoreStep

LEMMA SavedTrajectory ==
  ASSUME TypeOK, Chain, SaveTrajectory
  PROVE  LET k == stateThread.task
         IN  /\ k \in Tasks
             /\ store'[k].state = (IF store[k].state = 0 THEN readings ELSE store[k].state)
             /\ store'[k].next = store[k].next
             /\ \A l \in Tasks \ {k} : store'[l] = store[l]
             /\ stateThread' = [stateThread EXCEPT !.at = "next"]
             /\ UNCHANGED <<readings, previous>>
<1>1. stateThread.task \in Tasks
  BY DEF SaveTrajectory, Chain
<1> QED BY <1>1 DEF SaveTrajectory, TypeOK, StoreTypeOK

LEMMA AddedNextState ==
  ASSUME TypeOK, AddNextState
  PROVE  /\ \A k \in Tasks :
              /\ store'[k].state = store[k].state
              /\ store'[k].next = (IF k = previous THEN readings ELSE store[k].next)
         /\ stateThread' = [stateThread EXCEPT !.at = "check"]
         /\ UNCHANGED <<readings, previous>>
<1>1. stateThread' = [stateThread EXCEPT !.at = "check"] /\ UNCHANGED <<readings, previous>>
  BY DEF AddNextState
<1>2. CASE HasPrevious
  BY <1>1, <1>2 DEF AddNextState, TypeOK, StoreTypeOK, BuilderTypeOK
<1>3. CASE ~HasPrevious
  <2>1. store' = store /\ previous = NoTask
    BY <1>3 DEF AddNextState, HasPrevious
  <2>2. \A k \in Tasks : k # previous
    BY <2>1 DEF Tasks
  <2> QED BY <1>1, <2>1, <2>2
<1> QED BY <1>2, <1>3

LEMMA ChainStep == ASSUME TypeOK, Reading, Chain, [Next]_vars PROVE Chain'
<1>1. /\ readings \in Nat /\ previous \in MaybeTask
      /\ stateThread \in [task : MaybeTask, at : {"idle", "wait", "save", "next", "check"}]
      /\ \A k \in Tasks : store[k].state \in Nat /\ store[k].next \in Nat
  BY DEF TypeOK, BuilderTypeOK, StoreTypeOK
<1>2. CASE TakeCreation
  <2>1. Head(stateQueue) \in Tasks
    BY <1>2, SeqFacts DEF TakeCreation, TypeOK, ConsumerTypeOK
  <2>2. /\ stateThread' = [task |-> Head(stateQueue), at |-> "wait"]
        /\ UNCHANGED <<store, readings, previous>>
    BY <1>2 DEF TakeCreation
  <2> QED BY <2>1, <2>2 DEF Chain
<1>3. CASE GetState
  <2>1. /\ stateThread.at = "wait" /\ stateThread' = [stateThread EXCEPT !.at = "save"]
        /\ readings' = readings + 1 /\ UNCHANGED <<store, previous>>
    BY <1>3 DEF GetState
  <2>2. \A k \in Tasks : store[k].state < readings + 1
    BY <1>1 DEF Chain
  <2> QED BY <1>1, <2>1, <2>2 DEF Chain
<1>4. CASE SaveTrajectory
  <2> DEFINE k == stateThread.task
  <2>1. stateThread'.at = "next" /\ stateThread'.task = k /\ stateThread.at = "save" /\ readings >= 1
    BY <1>1, <1>4, SavedTrajectory DEF SaveTrajectory, Reading
  <2>2. \A l \in Tasks : /\ store'[l].next = store[l].next
                         /\ store'[l].state = IF l = k /\ store[l].state = 0 THEN readings ELSE store[l].state
    BY <1>4, SavedTrajectory
  <2>3. k \in Tasks /\ UNCHANGED <<readings, previous>>
    BY <1>4, SavedTrajectory
  <2> HIDE DEF k
  <2>4. \A l \in Tasks : store[l].state # 0 => store'[l].state = store[l].state
    BY <2>2
  <2>5. store'[k].state # 0
    BY <2>1, <2>2, <2>3
  <2>6. ASSUME NEW l \in Tasks
        PROVE  /\ store'[l].state <= readings
               /\ store'[l].next # 0 => store'[l].state # 0 /\ store'[l].state < store'[l].next
    BY <1>1, <2>2, <2>4 DEF Chain
  <2>7. previous # NoTask => store'[previous].state # 0 /\ store'[previous].state < readings
    BY <1>1, <2>1, <2>4 DEF Chain
  <2> QED BY <2>1, <2>3, <2>5, <2>6, <2>7 DEF Chain
<1>5. CASE AddNextState
  <2>1. stateThread'.at = "check" /\ stateThread'.task = stateThread.task /\ stateThread.at = "next"
    BY <1>1, <1>5, AddedNextState DEF AddNextState
  <2>2. /\ \A l \in Tasks :
             /\ store'[l].state = store[l].state
             /\ store'[l].next = (IF l = previous THEN readings ELSE store[l].next)
        /\ UNCHANGED <<readings, previous>>
    BY <1>5, AddedNextState
  <2>3. NoTask \notin Tasks
    BY DEF Tasks
  <2>4. ASSUME NEW l \in Tasks
        PROVE  /\ store'[l].state <= readings
               /\ store'[l].next # 0 => store'[l].state # 0 /\ store'[l].state < store'[l].next
    <3>1. CASE l = previous
      BY <2>1, <2>2, <2>3, <3>1 DEF Chain
    <3>2. CASE l # previous
      BY <2>2, <3>2 DEF Chain
    <3> QED BY <3>1, <3>2
  <2>5. stateThread.task \in Tasks /\ store'[stateThread.task].state # 0
    BY <2>1, <2>2 DEF Chain
  <2>6. previous # NoTask => store'[previous].state # 0
    BY <1>1, <2>2 DEF Chain
  <2> QED BY <2>1, <2>2, <2>4, <2>5, <2>6 DEF Chain
<1>6. CASE SetPrevious
  <2>1. /\ stateThread.at = "check" /\ stateThread' = Idle /\ previous' = stateThread.task
        /\ UNCHANGED <<store, readings>>
    BY <1>6 DEF SetPrevious
  <2> QED BY <2>1 DEF Chain
<1>7. CASE ~StateThread
  <2>1. UNCHANGED <<stateThread, readings, previous>>
    BY <1>7, StateThreadFrame
  <2>2. \A k \in Tasks : store'[k].state = store[k].state /\ store'[k].next = store[k].next
    BY <1>7, ChainFrame DEF StateThread
  <2> QED BY <1>1, <2>1, <2>2 DEF Chain
<1> QED BY <1>2, <1>3, <1>4, <1>5, <1>6, <1>7 DEF StateThread

(* Without a retry each task is created once: it is in one place before its creation.            *)
Announced == TasksIn(wire["broker"], EventsOf("broker"))
InHand == IF stateThread.at \in {"wait", "save"} THEN {stateThread.task} ELSE {}

Uncreated ==
  /\ OnceIn(wire["broker"], EventsOf("broker")) /\ IsInjective(stateQueue)
  /\ Range(brokerQueue) \intersect (Announced \union Range(stateQueue) \union InHand) = {}
  /\ Announced \intersect (Range(stateQueue) \union InHand) = {}
  /\ Range(stateQueue) \intersect InHand = {}
  /\ \A k \in Range(brokerQueue) \union Announced \union Range(stateQueue) \union InHand :
       k \in Tasks => store[k].state = 0

NextIsNext ==
  /\ stateThread.at \in {"next", "check"} => store[stateThread.task].state = readings
  /\ previous # NoTask =>
       store[previous].state + (IF stateThread.at \in {"save", "next", "check"} THEN 1 ELSE 0) = readings
  /\ \A k \in Tasks : store[k].next # 0 => store[k].next = store[k].state + 1

Straight == failures = 0 => Uncreated /\ NextIsNext

LEMMA NextIsNextStep ==
  ASSUME TypeOK, Reading, Chain, Uncreated, NextIsNext, [Next]_vars
  PROVE  NextIsNext'
<1>1. /\ readings \in Nat /\ previous \in MaybeTask
      /\ stateThread \in [task : MaybeTask, at : {"idle", "wait", "save", "next", "check"}]
      /\ \A k \in Tasks : store[k].state \in Nat /\ store[k].next \in Nat
  BY DEF TypeOK, BuilderTypeOK, StoreTypeOK
<1>2. CASE TakeCreation
  <2>1. /\ stateThread.at = "idle" /\ stateThread'.at = "wait"
        /\ UNCHANGED <<store, readings, previous>>
    BY <1>2 DEF TakeCreation
  <2> QED BY <2>1 DEF NextIsNext
<1>3. CASE GetState
  <2>1. /\ stateThread.at = "wait" /\ stateThread'.at = "save"
        /\ readings' = readings + 1 /\ UNCHANGED <<store, previous>>
    BY <1>1, <1>3 DEF GetState
  <2> QED BY <1>1, <2>1 DEF NextIsNext
<1>4. CASE SaveTrajectory
  <2> DEFINE k == stateThread.task
  <2>1. stateThread'.at = "next" /\ stateThread'.task = k /\ stateThread.at = "save" /\ readings >= 1
    BY <1>1, <1>4, SavedTrajectory DEF SaveTrajectory, Reading
  <2>2. k \in Tasks /\ UNCHANGED <<readings, previous>>
    BY <1>4, SavedTrajectory
  <2>3. store[k].state = 0
    BY <2>1, <2>2 DEF Uncreated, InHand
  <2>4. \A l \in Tasks : /\ store'[l].next = store[l].next
                         /\ store'[l].state = IF l = k THEN readings ELSE store[l].state
    BY <1>4, <2>3, SavedTrajectory
  <2> HIDE DEF k
  <2>5. store[k].next = 0 /\ (previous # NoTask => previous # k /\ previous \in Tasks)
    BY <1>1, <2>2, <2>3 DEF Chain
  <2>6. \A l \in Tasks : store'[l].next # 0 => store'[l].next = store'[l].state + 1
    BY <2>4, <2>5 DEF NextIsNext
  <2>7. store'[k].state = readings
    BY <2>2, <2>4
  <2>8. previous # NoTask => store'[previous].state + 1 = readings
    BY <2>1, <2>4, <2>5 DEF NextIsNext
  <2> QED BY <2>1, <2>2, <2>6, <2>7, <2>8 DEF NextIsNext
<1>5. CASE AddNextState
  <2>1. stateThread'.at = "check" /\ stateThread'.task = stateThread.task /\ stateThread.at = "next"
    BY <1>1, <1>5, AddedNextState DEF AddNextState
  <2>2. stateThread.task \in Tasks
    BY <2>1 DEF Chain
  <2>3. /\ \A l \in Tasks :
             /\ store'[l].state = store[l].state
             /\ store'[l].next = (IF l = previous THEN readings ELSE store[l].next)
        /\ UNCHANGED <<readings, previous>>
    BY <1>5, AddedNextState
  <2>4. NoTask \notin Tasks
    BY DEF Tasks
  <2>5. previous # NoTask => previous \in Tasks /\ readings = store[previous].state + 1
    BY <1>1, <2>1 DEF NextIsNext
  <2>6. \A l \in Tasks : store'[l].next # 0 => store'[l].next = store'[l].state + 1
    BY <2>3, <2>4, <2>5 DEF NextIsNext
  <2>7. store'[stateThread.task].state = readings
    BY <2>1, <2>2, <2>3 DEF NextIsNext
  <2> QED BY <2>1, <2>3, <2>5, <2>6, <2>7 DEF NextIsNext
<1>6. CASE SetPrevious
  <2>1. /\ stateThread.at = "check" /\ stateThread' = Idle /\ previous' = stateThread.task
        /\ UNCHANGED <<store, readings>>
    BY <1>6 DEF SetPrevious
  <2>2. stateThread.task \in Tasks
    BY <2>1 DEF Chain
  <2> QED BY <1>1, <2>1, <2>2 DEF NextIsNext
<1>7. CASE ~StateThread
  <2>1. UNCHANGED <<stateThread, readings, previous>>
    BY <1>7, StateThreadFrame
  <2>2. \A k \in Tasks : store'[k].state = store[k].state /\ store'[k].next = store[k].next
    BY <1>7, ChainFrame DEF StateThread
  <2>3. stateThread.at \in {"next", "check"} => stateThread.task \in Tasks
    BY DEF Chain
  <2> QED BY <1>1, <2>1, <2>2, <2>3 DEF NextIsNext
<1> QED BY <1>2, <1>3, <1>4, <1>5, <1>6, <1>7 DEF StateThread

(* The tasks to be created, as sets and states only.                                             *)
LEMMA UncreatedFrame ==
  ASSUME Uncreated, wire'["broker"] = wire["broker"], UNCHANGED <<brokerQueue, stateQueue>>,
         InHand' = InHand, \A k \in Tasks : store'[k].state = store[k].state
  PROVE  Uncreated'
BY EventsAre DEF Uncreated, Announced

LEMMA FetchUncreated ==
  ASSUME TypeOK, NoRepeats, Uncreated, FetchBrokerTask
  PROVE  Uncreated'
<1> DEFINE k == Head(brokerQueue)
           e == Event("received", k, HostName("broker"))
<1>1. /\ brokerQueue \in Seq(Tasks) /\ brokerQueue # <<>> /\ k \in Tasks /\ IsInjective(brokerQueue)
      /\ brokerQueue' = Tail(brokerQueue)
  BY SeqFacts DEF FetchBrokerTask, BrokerTypeOK, TypeOK, NoRepeats
<1>2. e \in EventsOf("broker") /\ e.task = k
  BY <1>1, EventsAre DEF Event
<1>3. wire'["broker"] = Append(wire["broker"], e) /\ wire["broker"] \in Seq(EventsOf("broker"))
  BY WireTypes, SendAt DEF FetchBrokerTask
<1>4. UNCHANGED <<stateQueue, stateThread, store>>
  BY DEF FetchBrokerTask
<1> HIDE DEF k, e
<1>5. Range(brokerQueue') = Range(brokerQueue) \ {k} /\ k \in Range(brokerQueue)
  BY <1>1, TailRange DEF k
<1>6. /\ Announced' = Announced \union {k}
      /\ OnceIn(wire'["broker"], EventsOf("broker"))
  <2>1. k \notin Announced /\ OnceIn(wire["broker"], EventsOf("broker"))
    BY <1>5 DEF Uncreated
  <2>2. /\ TasksIn(wire'["broker"], EventsOf("broker"))
             = TasksIn(wire["broker"], EventsOf("broker")) \union {k}
        /\ OnceIn(wire'["broker"], EventsOf("broker"))
    BY <1>2, <1>3, <2>1, AppendTasks DEF Announced
  <2> QED BY <2>2, EventsAre DEF Announced
<1>7. InHand' = InHand
  BY <1>4 DEF InHand
<1>8. OnceIn(wire["broker"], EventsOf("broker"))'
  BY <1>6, EventsAre DEF OnceIn
<1> QED BY <1>4, <1>5, <1>6, <1>7, <1>8 DEF Uncreated

LEMMA ConsumeUncreated ==
  ASSUME TypeOK, Uncreated, Consume("broker")
  PROVE  Uncreated'
<1> DEFINE e == Head(wire["broker"])
           k == e.task
<1>1. /\ wire["broker"] # <<>> /\ wire["broker"] \in Seq(EventsOf("broker"))
      /\ e \in EventsOf("broker")
  BY WireTypes, SeqFacts DEF Consume
<1>2. wire'["broker"] = Tail(wire["broker"])
  BY TakeAt DEF Consume
<1>3. k \in Tasks /\ e.type = "received"
  <2>1. e \in [type : {"received"}, task : Tasks, worker : {HostName("broker")}]
    BY <1>1, EventsAre
  <2> QED BY <2>1
<1>4. stateQueue' = Append(stateQueue, k)
  BY <1>3 DEF Consume, OnTaskSent, OnBrokerReceived, OnWorkerReceived, OnTaskEnd
<1>5. UNCHANGED <<brokerQueue, stateThread, store>>
  BY DEF Consume
<1>6. /\ TasksIn(wire'["broker"], EventsOf("broker")) = Announced \ {k} /\ k \in Announced
      /\ OnceIn(wire'["broker"], EventsOf("broker"))
  BY <1>1, <1>2, TailTasks DEF Uncreated, Announced
<1>7. stateQueue \in Seq(Tasks) /\ IsInjective(stateQueue) /\ k \notin Range(stateQueue)
  BY <1>6 DEF Uncreated, TypeOK, ConsumerTypeOK
<1> HIDE DEF e, k
<1>8. Range(stateQueue') = Range(stateQueue) \union {k} /\ IsInjective(stateQueue')
  BY <1>3, <1>4, <1>7, AppendRange
<1>9. Announced' = Announced \ {k} /\ OnceIn(wire["broker"], EventsOf("broker"))'
  BY <1>6, EventsAre DEF Announced, OnceIn
<1>10. InHand' = InHand
  BY <1>5 DEF InHand
<1> QED BY <1>5, <1>6, <1>8, <1>9, <1>10 DEF Uncreated

LEMMA TakeCreationUncreated ==
  ASSUME TypeOK, Uncreated, TakeCreation
  PROVE  Uncreated'
<1> DEFINE k == Head(stateQueue)
<1>1. /\ stateQueue \in Seq(Tasks) /\ stateQueue # <<>> /\ IsInjective(stateQueue)
      /\ stateQueue' = Tail(stateQueue)
  BY DEF TakeCreation, TypeOK, ConsumerTypeOK, Uncreated
<1>2. /\ Range(stateQueue') = Range(stateQueue) \ {k} /\ k \in Range(stateQueue)
      /\ IsInjective(stateQueue')
  BY <1>1, TailRange
<1>3. InHand = {} /\ InHand' = {k} /\ UNCHANGED <<brokerQueue, wire, store>>
  BY DEF TakeCreation, InHand
<1> HIDE DEF k
<1>4. Announced' = Announced /\ OnceIn(wire["broker"], EventsOf("broker"))'
  BY <1>3, EventsAre DEF Announced, OnceIn, Uncreated
<1> QED BY <1>2, <1>3, <1>4 DEF Uncreated

LEMMA SaveUncreated ==
  ASSUME TypeOK, Chain, Uncreated, SaveTrajectory
  PROVE  Uncreated'
<1> DEFINE k == stateThread.task
<1>1. /\ InHand = {k} /\ InHand' = {} /\ UNCHANGED <<brokerQueue, wire, stateQueue>>
  <2>1. stateThread.at = "save"
    BY DEF SaveTrajectory
  <2>2. stateThread'.at = "next"
    BY <2>1, SavedTrajectory DEF TypeOK, BuilderTypeOK
  <2> QED BY <2>1, <2>2 DEF SaveTrajectory, InHand
<1>2. \A l \in Tasks \ {k} : store'[l] = store[l]
  BY SavedTrajectory
<1> HIDE DEF k
<1>3. Announced' = Announced /\ OnceIn(wire["broker"], EventsOf("broker"))'
  BY <1>1, EventsAre DEF Announced, OnceIn, Uncreated
<1> QED BY <1>1, <1>2, <1>3 DEF Uncreated

LEMMA UncreatedStep ==
  ASSUME TypeOK, NoRepeats, Chain, Uncreated, [Next]_vars, ~Raises
  PROVE  Uncreated'
<1>1. CASE FetchBrokerTask \/ TakeCreation \/ SaveTrajectory
  BY <1>1, FetchUncreated, TakeCreationUncreated, SaveUncreated
<1>2. ASSUME NEW s \in Senders, Consume(s) PROVE Uncreated'
  <2> HIDE DEF Senders
  <2>1. CASE s = "broker"
    BY <1>2, <2>1, ConsumeUncreated
  <2>2. CASE s # "broker"
    <3>1. "broker" \in Senders
      BY DEF Senders
    <3>2. wire'["broker"] = wire["broker"] /\ UNCHANGED <<brokerQueue, stateThread, store>>
      BY <1>2, <2>2, <3>1, TakeAt DEF Consume
    <3>3. stateQueue' = stateQueue
      BY <1>2, <2>2 DEF Consume, OnTaskSent, OnBrokerReceived, OnWorkerReceived, OnTaskEnd
    <3> QED BY <3>2, <3>3, UncreatedFrame DEF InHand
  <2> QED BY <2>1, <2>2
<1>3. CASE AnnounceSent \/ \E w \in Workers : ReceiveTask(w)
  <2>1. wire'["broker"] = wire["broker"]
    <3>1. PICK s \in Workers \union {"child"} : \E e : wire' = [wire EXCEPT ![s] = Append(@, e)]
      BY <1>3 DEF AnnounceSent, ReceiveTask
    <3>2. s \in Senders /\ "broker" \in Senders \ {s}
      BY WorkersAre
    <3> HIDE DEF Senders
    <3> QED BY <3>1, <3>2, SendAt
  <2>2. UNCHANGED <<brokerQueue, stateQueue, stateThread, store>>
    BY <1>3 DEF AnnounceSent, ReceiveTask
  <2> QED BY <2>1, <2>2, UncreatedFrame DEF InHand
<1>4. ASSUME NEW w \in Workers, EndTask(w) PROVE Uncreated'
  <2>1. wire'["broker"] = wire["broker"]
    <3>1. PICK e : wire' = [wire EXCEPT ![w] = Append(@, e)]
      BY <1>4 DEF EndTask
    <3>2. w \in Senders /\ "broker" \in Senders \ {w}
      BY WorkersAre
    <3> HIDE DEF Senders
    <3> QED BY <3>1, <3>2, SendAt
  <2>2. UNCHANGED <<brokerQueue, stateQueue, stateThread, store>>
    BY <1>4 DEF EndTask
  <2> QED BY <2>1, <2>2, UncreatedFrame DEF InHand
<1>5. CASE AddNextState
  <2>1. UNCHANGED <<wire, brokerQueue, stateQueue>> /\ InHand = {} /\ InHand' = {}
    <3>1. stateThread.at = "next" /\ stateThread'.at = "check"
      BY <1>5, AddedNextState DEF AddNextState, TypeOK, BuilderTypeOK
    <3> QED BY <1>5, <3>1 DEF AddNextState, InHand
  <2> QED BY <1>5, <2>1, AddedNextState, UncreatedFrame
<1>6. CASE TaskBroker \/ (\E w \in Workers : Chooses(w)) \/ (\E job \in jobs : RunJob(job))
           \/ RewardThread \/ AgentConsumer \/ UNCHANGED vars
  <2>1. UNCHANGED <<wire, brokerQueue, stateQueue, stateThread>>
    BY <1>6 DEF TaskBroker, Chooses, RunJob, RewardThread, AgentConsumer, ComputeReward,
                UpdateTrajectoryReward, CheckTrajectoryReward, AreAllTaskExecuted, ObserveReward,
                SaveHistory
  <2>2. (~SaveTrajectory /\ ~AddNextState) \/ \A k \in Tasks : store'[k].state = store[k].state
    <3>1. CASE SaveTrajectory
      BY <2>1, <3>1, SavedTrajectory DEF SaveTrajectory, TypeOK, BuilderTypeOK
    <3>2. CASE AddNextState
      BY <3>2, AddedNextState
    <3> QED BY <3>1, <3>2
  <2> QED BY <2>1, <2>2, ChainFrame, UncreatedFrame DEF InHand
<1>7. CASE GetState \/ SetPrevious
  <2>1. UNCHANGED <<wire, brokerQueue, stateQueue, store>> /\ InHand' = InHand
    <3>1. CASE GetState
      <4>1. stateThread.at = "wait" /\ stateThread'.at = "save" /\ stateThread'.task = stateThread.task
        BY <3>1 DEF GetState, TypeOK, BuilderTypeOK
      <4> QED BY <3>1, <4>1 DEF GetState, InHand
    <3>2. CASE SetPrevious
      BY <3>2 DEF SetPrevious, InHand
    <3> QED BY <1>7, <3>1, <3>2
  <2> QED BY <2>1, UncreatedFrame
<1> HIDE DEF Senders
<1> QED BY <1>1, <1>2, <1>3, <1>4, <1>5, <1>6, <1>7, NextSteps DEF Steps, StateThread

LEMMA StraightStep ==
  ASSUME TypeOK, NoRepeats, Reading, Chain, Straight, [Next]_vars
  PROVE  Straight'
<1> SUFFICES ASSUME failures' = 0 PROVE Uncreated' /\ NextIsNext'
  BY DEF Straight
<1>1. failures \in Nat
  BY TaskPathAssumption DEF TypeOK, BrokerTypeOK
<1>2. ~Raises
  BY <1>1 DEF Raises, RetryOrGiveUp
<1>3. failures = 0
  BY <1>2, NextSteps DEF Steps, StateThread, RewardThread, AgentConsumer, FetchBrokerTask,
         TaskBroker, AnnounceSent, Chooses, RunJob, ReceiveTask, EndTask, Consume, TakeCreation,
         GetState, SaveTrajectory, AddNextState, SetPrevious, ComputeReward, UpdateTrajectoryReward,
         CheckTrajectoryReward, AreAllTaskExecuted, ObserveReward, SaveHistory
<1> QED BY <1>2, <1>3, UncreatedStep, NextIsNextStep DEF Straight

LEMMA ChainOrdered == ASSUME TypeOK, Chain, Straight PROVE ChainInOrder
BY DEF ChainInOrder, Chain, Straight, NextIsNext, TypeOK, StoreTypeOK

-----------------------------------------------------------------------------
(* Sends the consumer has not seen: each of another task, and if tasks are slow each of a task   *)
(* that is still in the queue of its worker or in the worker.                                    *)
SentTo(w) == [type : {"sent"}, task : Tasks, worker : {QueueName(w)}]
Unannounced(w) ==
  TasksIn(wire["child"], SentTo(w)) \union (IF broker.at = w THEN {broker.task} ELSE {})
Pending(w) == Range(workerQueue[w]) \union Range(accepted[w])

Sending ==
  /\ OnceIn(wire["child"], SentEvents)
  /\ broker.at \in Workers => broker.task \notin TasksIn(wire["child"], SentEvents)
  /\ SlowTasks => \A w \in Workers : Unannounced(w) \subseteq Pending(w)

LEMMA ChildEvents ==
  ASSUME TypeOK, Wires
  PROVE  /\ wire["child"] \in Seq(SentEvents)
         /\ \A k : k \in TasksIn(wire["child"], SentEvents) =>
              \E w \in Workers : InEvents(k, w)
<1>1. wire["child"] \in Seq(EventsOf("child"))
  BY WireTypes
<1>2. \A i \in DOMAIN wire["child"] : wire["child"][i] \in SentEvents
  <2> TAKE i \in DOMAIN wire["child"]
  <2>1. wire["child"][i] \in EventsOf("child")
    BY <1>1
  <2> QED BY <2>1, EventsAre DEF SentEvents
<1>3. wire["child"] \in Seq(SentEvents)
  BY <1>1, <1>2
<1>4. ASSUME NEW k \in TasksIn(wire["child"], SentEvents) PROVE \E w \in Workers : InEvents(k, w)
  <2>1. PICK i \in DOMAIN wire["child"] : wire["child"][i] \in SentEvents /\ wire["child"][i].task = k
    BY DEF TasksIn
  <2>2. PICK w \in Workers : wire["child"][i].worker = QueueName(w)
    BY <2>1 DEF SentEvents
  <2>3. WorkerClassOf(wire["child"][i].worker) = w /\ "child" \in Senders
    BY <2>2, ClassOfNames
  <2> HIDE DEF Senders
  <2> QED BY <2>1, <2>3 DEF InEvents
<1> QED BY <1>3, <1>4

(* Only the child's steps, and the consumer's on its events, change what is unannounced.         *)
LEMMA ChildFrame ==
  ASSUME TypeOK, [Next]_vars, ~AnnounceSent, ~Consume("child"), ~ \E w \in Workers : Chooses(w)
  PROVE  /\ wire'["child"] = wire["child"]
         /\ \/ broker' = broker
            \/ broker.at \notin Workers /\ broker'.at \notin Workers
<1>1. CASE FetchBrokerTask \/ \E w \in Workers : ReceiveTask(w) \/ EndTask(w)
  <2>1. PICK s \in Workers \union {"broker"} : \E e : wire' = [wire EXCEPT ![s] = Append(@, e)]
    BY <1>1 DEF FetchBrokerTask, ReceiveTask, EndTask
  <2>2. s \in Senders /\ "child" \in Senders \ {s}
    BY WorkersAre
  <2>3. broker' = broker
    BY <1>1 DEF FetchBrokerTask, ReceiveTask, EndTask
  <2> HIDE DEF Senders
  <2> QED BY <2>1, <2>2, <2>3, SendAt
<1>2. ASSUME NEW s \in Senders \ {"child"}, Consume(s)
      PROVE  wire'["child"] = wire["child"] /\ broker' = broker
  <2>1. "child" \in Senders
    OBVIOUS
  <2> HIDE DEF Senders
  <2> QED BY <1>2, <2>1, TakeAt DEF Consume
<1>3. CASE TaskBroker \/ Raises
  BY <1>3, WorkersAre DEF TaskBroker, Raises, RetryOrGiveUp
<1>4. CASE StateThread \/ RewardThread \/ AgentConsumer \/ (\E job \in jobs : RunJob(job))
           \/ UNCHANGED vars
  BY <1>4 DEF StateThread, RewardThread, AgentConsumer, RunJob, TakeCreation, GetState, SaveTrajectory,
              AddNextState, SetPrevious, ComputeReward, UpdateTrajectoryReward, CheckTrajectoryReward,
              AreAllTaskExecuted, ObserveReward, SaveHistory
<1> HIDE DEF Senders
<1> QED BY <1>1, <1>2, <1>3, <1>4, NextSteps DEF Steps

LEMMA PendingPlaces ==
  \A w \in Workers : /\ Pending(w) = Places[<<"sent", w>>] \union Places[<<"accepted", w>>]
                     /\ Pending(w)' = Places'[<<"sent", w>>] \union Places'[<<"accepted", w>>]
BY PlacesAre, PlacesBecome DEF Pending

(* A task leaves the queue of a worker, and the worker, when it ends.                            *)
LEMMA PendingStep ==
  ASSUME TypeOK, Wires, NoRepeats, Apart, [Next]_vars, NEW w \in Workers, NEW k \in Pending(w)
  PROVE  k \in Pending(w)' \/ \E v \in Workers : EndTask(v) /\ k = Head(accepted[v])
<1>1. PICK r \in {<<"sent", w>>, <<"accepted", w>>} : k \in Places[r]
  BY PendingPlaces
<1>2. <<"sent", w>> \in Stops /\ <<"accepted", w>> \in Stops
  BY StopCases
<1>3. /\ r \notin {At("queued"), At("fetched"), At("asked"), At("gaveUp"), At("rewarding")}
      /\ \A v \in Workers : r # <<"ended", v>> /\ (v # w => r # <<"sent", v>> /\ r # <<"accepted", v>>)
  BY DEF At
<1>4. \/ k \in Places'[r]
      \/ k \in Places'[<<"accepted", w>>]
      \/ \E v \in Workers : EndTask(v) /\ k = Head(accepted[v])
  <2>1. CASE \E v \in Workers :
               ReceiveTask(v) /\ Moves(Head(workerQueue[v]), <<"sent", v>>, <<"accepted", v>>)
    BY <1>1, <1>2, <1>3, <2>1 DEF Moves
  <2>2. CASE \E v \in Workers :
               EndTask(v) /\ Moves(Head(accepted[v]), <<"accepted", v>>, <<"ended", v>>)
    BY <1>1, <1>2, <1>3, <2>2 DEF Moves
  <2>3. CASE \E v \in Workers : Consume(v) /\ Moves(Head(wire[v]).task, <<"ended", v>>, At("rewarding"))
    BY <1>1, <1>2, <1>3, <2>3 DEF Moves
  <2>4. CASE \E v \in Workers : Chooses(v) /\ Moves(broker.task, At("asked"), <<"sent", v>>)
    BY <1>1, <1>2, <1>3, <2>4 DEF Moves
  <2>5. CASE \/ Moves(Head(brokerQueue), At("queued"), At("fetched"))
             \/ Moves(broker'.task, At("fetched"), At("asked"))
             \/ Moves(broker.task, At("asked"), At("queued"))
             \/ Moves(broker.task, At("asked"), At("gaveUp"))
    BY <1>1, <1>2, <1>3, <2>5 DEF Moves
  <2>6. CASE Places' = Places \/ Leaves(Head(rewardQueue).task, At("rewarding"))
    BY <1>1, <1>2, <1>3, <2>6 DEF Leaves
  <2> QED BY <2>1, <2>2, <2>3, <2>4, <2>5, <2>6, StepMoves
<1> QED BY <1>1, <1>4, PendingPlaces

LEMMA SentToParts ==
  ASSUME NEW q \in Seq(SentEvents), NEW w \in Workers
  PROVE  /\ TasksIn(q, SentTo(w)) \subseteq TasksIn(q, SentEvents)
         /\ OnceIn(q, SentEvents) => OnceIn(q, SentTo(w))
BY DEF TasksIn, OnceIn, SentTo, SentEvents

LEMMA ChooseActionSending ==
  ASSUME TypeOK, Wires, NoRepeats, Apart, OneWorker, Sending, NEW w \in Workers, Chooses(w)
  PROVE  Sending'
<1> DEFINE k == broker.task
<1>1. broker.at = "request" /\ broker'.at = w /\ broker'.task = k /\ wire' = wire
  BY DEF Chooses
<1>2. k \in Unsent
  BY <1>1, PlacesAre DEF Unsent, UnsentStops
<1>3. k \notin TasksIn(wire["child"], SentEvents)
  BY <1>2, ChildEvents DEF OneWorker, Names
<1>4. ASSUME SlowTasks, NEW v \in Workers PROVE Unannounced(v)' \subseteq Pending(v)'
  <2>1. Unannounced(v)' \subseteq Unannounced(v) \union (IF v = w THEN {k} ELSE {})
    BY <1>1 DEF Unannounced, SentTo
  <2>2. Pending(v) \subseteq Pending(v)' /\ k \in Pending(w)'
    <3>1. Moves(k, At("asked"), <<"sent", w>>)
      BY ChooseActionMoves
    <3>2. <<"sent", v>> \in Stops /\ <<"accepted", v>> \in Stops /\ <<"sent", w>> \in Stops
      BY StopCases
    <3>3. At("asked") # <<"sent", v>> /\ At("asked") # <<"accepted", v>>
      BY DEF At
    <3> HIDE DEF k
    <3>4. /\ Places[<<"sent", v>>] \subseteq Places'[<<"sent", v>>]
          /\ Places[<<"accepted", v>>] \subseteq Places'[<<"accepted", v>>]
          /\ k \in Places'[<<"sent", w>>]
      BY <3>1, <3>2, <3>3 DEF Moves
    <3> QED BY <3>4, PendingPlaces
  <2> QED BY <1>4, <2>1, <2>2 DEF Sending
<1>5. broker'.task \notin TasksIn(wire'["child"], SentEvents) /\ OnceIn(wire'["child"], SentEvents)
  BY <1>1, <1>3 DEF Sending
<1>6. /\ OnceIn(wire["child"], SentEvents)'
      /\ broker'.task \notin TasksIn(wire["child"], SentEvents)'
  BY <1>5 DEF OnceIn, TasksIn, SentEvents
<1> QED BY <1>4, <1>6 DEF Sending

LEMMA AnnounceSentSending ==
  ASSUME TypeOK, Wires, Sending, AnnounceSent
  PROVE  Sending'
<1> DEFINE k == broker.task
           e == Event("sent", k, QueueName(broker.at))
           q == wire["child"]
<1>1. broker.at \in Workers /\ broker'.at \notin Workers /\ k \in Tasks
  BY WorkersAre DEF AnnounceSent, TypeOK, BrokerTypeOK
<1>2. e \in SentEvents /\ e.task = k /\ e.worker = QueueName(broker.at)
  BY <1>1 DEF Event, SentEvents
<1>3. q \in Seq(SentEvents) /\ wire'["child"] = Append(q, e)
  BY ChildEvents, SendAt DEF AnnounceSent
<1>4. k \notin TasksIn(q, SentEvents) /\ OnceIn(q, SentEvents)
  BY <1>1 DEF Sending
<1>5. UNCHANGED <<workerQueue, accepted>>
  BY DEF AnnounceSent
<1> HIDE DEF k, e, q
<1>6. OnceIn(wire'["child"], SentEvents)
  BY <1>2, <1>3, <1>4, AppendTasks
<1>7. ASSUME NEW v \in Workers PROVE Unannounced(v)' = Unannounced(v)
  <2>1. Unannounced(v)' = TasksIn(wire'["child"], SentTo(v))
    BY <1>1 DEF Unannounced, SentTo
  <2>2. Unannounced(v) = TasksIn(q, SentTo(v)) \union (IF broker.at = v THEN {k} ELSE {})
    BY DEF Unannounced, q, k
  <2>3. CASE broker.at = v
    <3>1. e \in SentTo(v)
      BY <1>2, <2>3 DEF SentTo, SentEvents
    <3> QED BY <1>2, <1>3, <2>1, <2>2, <2>3, <3>1, AppendTasks
  <2>4. CASE broker.at # v
    <3>1. e \notin SentTo(v)
      BY <1>2, <2>4, ClassOfNames DEF SentTo
    <3> QED BY <1>2, <1>3, <2>1, <2>2, <2>4, <3>1, AppendTasks
  <2> QED BY <2>3, <2>4
<1>8. \A v \in Workers : Pending(v)' = Pending(v)
  BY <1>5 DEF Pending
<1>9. OnceIn(wire["child"], SentEvents)'
  BY <1>6 DEF OnceIn, SentEvents
<1> QED BY <1>1, <1>7, <1>8, <1>9 DEF Sending

LEMMA ConsumeChildSending ==
  ASSUME TypeOK, Wires, Sending, Consume("child")
  PROVE  Sending'
<1> DEFINE q == wire["child"]
<1>1. q \in Seq(SentEvents) /\ q # <<>> /\ wire'["child"] = Tail(q)
  BY ChildEvents, TakeAt DEF Consume
<1>2. OnceIn(q, SentEvents)
  BY DEF Sending
<1>3. UNCHANGED <<workerQueue, accepted, broker>>
  BY DEF Consume
<1> HIDE DEF q
<1>4. /\ OnceIn(wire'["child"], SentEvents)
      /\ TasksIn(wire'["child"], SentEvents) \subseteq TasksIn(q, SentEvents)
  BY <1>1, <1>2, TailTasks
<1>5. ASSUME NEW v \in Workers PROVE Unannounced(v)' \subseteq Unannounced(v)
  <2>1. TasksIn(wire'["child"], SentTo(v)) \subseteq TasksIn(q, SentTo(v))
    BY <1>1, <1>2, SentToParts, TailTasks
  <2>2. Unannounced(v)' = TasksIn(wire'["child"], SentTo(v)) \union (IF broker'.at = v THEN {broker'.task} ELSE {})
    BY DEF Unannounced, SentTo
  <2> QED BY <1>3, <2>1, <2>2 DEF Unannounced, q
<1>6. \A v \in Workers : Pending(v)' = Pending(v)
  BY <1>3 DEF Pending
<1>7. /\ OnceIn(wire["child"], SentEvents)'
      /\ TasksIn(wire["child"], SentEvents)' \subseteq TasksIn(q, SentEvents)
  BY <1>4 DEF OnceIn, TasksIn, SentEvents
<1> QED BY <1>3, <1>5, <1>6, <1>7 DEF Sending, q

LEMMA SendingStep ==
  ASSUME TypeOK, Wires, NoRepeats, Apart, OneWorker, Sending, [Next]_vars
  PROVE  Sending'
<1>1. CASE (\E w \in Workers : Chooses(w)) \/ AnnounceSent \/ Consume("child")
  BY <1>1, ChooseActionSending, AnnounceSentSending, ConsumeChildSending
<1>2. CASE ~AnnounceSent /\ ~Consume("child") /\ ~ \E w \in Workers : Chooses(w)
  <2>1. /\ wire'["child"] = wire["child"]
        /\ broker' = broker \/ (broker.at \notin Workers /\ broker'.at \notin Workers)
    BY <1>2, ChildFrame
  <2>2. \A w \in Workers : Unannounced(w)' = Unannounced(w)
    BY <2>1 DEF Unannounced, SentTo
  <2>3. ASSUME SlowTasks, NEW w \in Workers, NEW k \in Unannounced(w) PROVE k \in Pending(w)'
    <3>1. k \in Pending(w)
      BY <2>3 DEF Sending
    <3>2. ASSUME NEW v \in Workers, EndTask(v), k = Head(accepted[v]) PROVE FALSE
      <4>1. (\A i \in DOMAIN wire["child"] : wire["child"][i].task # k)
            /\ (broker.at \in Workers => broker.task # k)
        BY <2>3, <3>2 DEF EndTask, Prepared
      <4> QED BY <2>3, <4>1 DEF Unannounced, TasksIn
    <3> QED BY <3>1, <3>2, PendingStep
  <2>4. /\ OnceIn(wire["child"], SentEvents)'
        /\ TasksIn(wire["child"], SentEvents)' = TasksIn(wire["child"], SentEvents)
    BY <2>1 DEF Sending, OnceIn, TasksIn, SentEvents
  <2> QED BY <2>1, <2>2, <2>3, <2>4 DEF Sending
<1> QED BY <1>1, <1>2

-----------------------------------------------------------------------------
(* The load of a worker, as the events under way correct it.                                     *)
WorkerEvents ==
  [type : {"received", "succeeded", "failed"}, task : Tasks, worker : {HostName(w) : w \in Workers}]

LEMMA SeqOfMore == ASSUME NEW S, NEW T, S \subseteq T, NEW q \in Seq(S) PROVE q \in Seq(T)
OBVIOUS

LEMMA OwnEvents == ASSUME TypeOK, Wires, NEW w \in Workers PROVE wire[w] \in Seq(WorkerEvents)
<1>1. wire[w] \in Seq(EventsOf(w))
  BY WireTypes
<1>2. EventsOf(w) \subseteq WorkerEvents
  <2>1. EventsOf(w) = [type : {"received", "succeeded", "failed"}, task : Tasks, worker : {HostName(w)}]
    BY EventsAre
  <2>2. HostName(w) \in {HostName(v) : v \in Workers}
    OBVIOUS
  <2> SUFFICES ASSUME NEW e \in EventsOf(w) PROVE e \in WorkerEvents
    OBVIOUS
  <2>3. e \in [type : {"received", "succeeded", "failed"}, task : Tasks, worker : {HostName(w)}]
    BY <2>1
  <2> QED BY <2>2, <2>3 DEF WorkerEvents
<1> QED BY <1>1, <1>2, SeqOfMore

(* What Sent and Ended count, before a step and after it.                                        *)
LEMMA SentCounts ==
  ASSUME NEW w \in Workers
  PROVE  /\ wire["child"] \in Seq(SentEvents) => Sent(w) = Count(wire["child"], SentTo(w))
         /\ wire'["child"] \in Seq(SentEvents) => Sent(w)' = Count(wire'["child"], SentTo(w))
<1>1. ASSUME NEW q \in Seq(SentEvents)
      PROVE  {i \in DOMAIN q : q[i].worker = QueueName(w)} = {i \in DOMAIN q : q[i] \in SentTo(w)}
  <2>1. \A i \in DOMAIN q : q[i] \in SentEvents
    OBVIOUS
  <2> QED BY <2>1 DEF SentTo, SentEvents
<1> QED BY <1>1 DEF Sent, Count

LEMMA EndedCounts ==
  ASSUME NEW w \in Workers
  PROVE  /\ wire[w] \in Seq(WorkerEvents) => Ended(w) = Count(wire[w], EndEvents)
         /\ wire'[w] \in Seq(WorkerEvents) => Ended(w)' = Count(wire'[w], EndEvents)
<1>1. ASSUME NEW q \in Seq(WorkerEvents)
      PROVE  {i \in DOMAIN q : q[i].type # "received"} = {i \in DOMAIN q : q[i] \in EndEvents}
  <2>1. \A i \in DOMAIN q : q[i] \in WorkerEvents
    OBVIOUS
  <2>2. \A i \in DOMAIN q : q[i].type # "received" <=> q[i] \in EndEvents
    <3> TAKE i \in DOMAIN q
    <3>1. q[i] \in WorkerEvents
      BY <2>1
    <3> QED BY <3>1 DEF WorkerEvents, EndEvents
  <2> QED BY <2>2
<1> QED BY <1>1 DEF Ended, Count

LEMMA CountsType ==
  ASSUME TypeOK, Wires, NEW w \in Workers
  PROVE  /\ Sent(w) \in Nat /\ Ended(w) \in Nat /\ load[w] \in Int /\ utilization[w] \in Nat
         /\ Len(workerQueue[w]) \in Nat /\ Len(accepted[w]) \in Nat
<1>1. wire["child"] \in Seq(SentEvents) /\ wire[w] \in Seq(WorkerEvents)
  BY ChildEvents, OwnEvents
<1>2. Sent(w) \in Nat /\ Ended(w) \in Nat
  BY <1>1, CountType, SentCounts, EndedCounts
<1>3. workerQueue[w] \in Seq(Tasks) /\ accepted[w] \in Seq(Tasks)
  BY DEF TypeOK, CeleryTypeOK
<1> QED BY <1>2, <1>3 DEF TypeOK, ConsumerTypeOK

(* If tasks are slow, no more sends are unannounced than tasks are in the queue and the worker.  *)
LEMMA SendsPending ==
  ASSUME TypeOK, Wires, NoRepeats, Apart, Sending, SlowTasks, NEW w \in Workers
  PROVE  /\ Sent(w) \in Nat
         /\ Sent(w) + (IF broker.at = w THEN 1 ELSE 0) <= Len(workerQueue[w]) + Len(accepted[w])
<1> DEFINE S == TasksIn(wire["child"], SentTo(w))
           A == Range(workerQueue[w])
           B == Range(accepted[w])
           m == Len(workerQueue[w])
           n == Len(accepted[w])
           b == IF broker.at = w THEN 1 ELSE 0
<1>1. wire["child"] \in Seq(SentEvents) /\ OnceIn(wire["child"], SentTo(w)) /\ S \subseteq TasksIn(wire["child"], SentEvents)
  BY ChildEvents, SentToParts DEF Sending
<1>2. Cardinality(S) = Sent(w) /\ IsFiniteSet(S) /\ Sent(w) \in Nat
  BY <1>1, CountTasks, CountType, SentCounts
<1>3. /\ Cardinality(A) = m /\ IsFiniteSet(A) /\ Cardinality(B) = n /\ IsFiniteSet(B)
      /\ m \in Nat /\ n \in Nat
  <2>1. workerQueue[w] \in Seq(Tasks) /\ accepted[w] \in Seq(Tasks)
    BY DEF TypeOK, CeleryTypeOK
  <2>2. IsInjective(workerQueue[w]) /\ IsInjective(accepted[w])
    BY DEF NoRepeats
  <2>3. Len(workerQueue[w]) \in Nat /\ Len(accepted[w]) \in Nat
    BY <2>1
  <2> QED BY <2>1, <2>2, <2>3, LenRange
<1>4. Unannounced(w) \subseteq A \union B
  BY DEF Sending, Pending
<1>5. IsFiniteSet(A \union B) /\ Cardinality(A \union B) <= m + n
  <2> HIDE DEF A, B, m, n
  <2>1. /\ IsFiniteSet(A \union B)
        /\ Cardinality(A \union B) = Cardinality(A) + Cardinality(B) - Cardinality(A \cap B)
    BY <1>3, FS_Union
  <2>2. IsFiniteSet(A \cap B) /\ Cardinality(A \cap B) \in Nat
    <3>1. A \cap B \in SUBSET A
      OBVIOUS
    <3> QED BY <1>3, <3>1, FS_Subset, FS_CardinalityType
  <2> QED BY <1>3, <2>1, <2>2
<1>6. Cardinality(Unannounced(w)) = Sent(w) + (IF broker.at = w THEN 1 ELSE 0)
  <2>1. CASE broker.at = w
    <3>1. Unannounced(w) = S \union {broker.task} /\ broker.task \notin S
      BY <1>1, <2>1 DEF Unannounced, Sending
    <3> HIDE DEF S
    <3> QED BY <1>2, <2>1, <3>1, FS_AddElement
  <2>2. CASE broker.at # w
    <3>1. Unannounced(w) = S
      BY <2>2 DEF Unannounced
    <3> QED BY <1>2, <2>2, <3>1
  <2> QED BY <2>1, <2>2
<1>7. Cardinality(Unannounced(w)) <= Cardinality(A \union B)
  <2> HIDE DEF A, B
  <2>1. Unannounced(w) \in SUBSET (A \union B)
    BY <1>4
  <2> QED BY <1>5, <2>1, FS_Subset
<1>8. Cardinality(A \union B) \in Nat
  BY <1>5, FS_CardinalityType
<1>9. b \in Nat /\ Cardinality(Unannounced(w)) = Sent(w) + b
  BY <1>6
<1> HIDE DEF A, B, S, m, n, b
<1>10. Sent(w) + b <= m + n
  BY <1>2, <1>3, <1>5, <1>7, <1>8, <1>9
<1> QED BY <1>2, <1>10 DEF m, n, b

(* LoadAccounts of one worker.                                                                   *)
Asking(w) == IF broker.at = w THEN 1 ELSE 0

Balanced(w) ==
  /\ load[w] + Sent(w) + Asking(w) = Len(workerQueue[w]) + Len(accepted[w]) + Ended(w)
  /\ SlowTasks => utilization[w] = load[w]

LEMMA LoadIsBalance == LoadAccounts <=> \A w \in Workers : Balanced(w)
BY DEF LoadAccounts, Balanced, Asking

(* A step that changes both sides by as much keeps the balance.                                  *)
Changes(w, dl, ds, da, dq, dx, de) ==
  /\ load'[w] = load[w] + dl /\ Sent(w)' = Sent(w) + ds /\ Asking(w)' = Asking(w) + da
  /\ Len(workerQueue'[w]) = Len(workerQueue[w]) + dq /\ Len(accepted'[w]) = Len(accepted[w]) + dx
  /\ Ended(w)' = Ended(w) + de

LEMMA BalanceMoves ==
  ASSUME TypeOK, Wires, NEW w \in Workers, Balanced(w),
         NEW dl \in Int, NEW ds \in Int, NEW da \in Int, NEW dq \in Int, NEW dx \in Int, NEW de \in Int,
         Changes(w, dl, ds, da, dq, dx, de), dl + ds + da = dq + dx + de,
         SlowTasks => utilization'[w] = load'[w]
  PROVE  Balanced(w)'
<1> DEFINE m == Len(workerQueue[w])
           n == Len(accepted[w])
           s == Sent(w)
           d == Ended(w)
           a == Asking(w)
           l == load[w]
<1>1. m \in Int /\ n \in Int /\ s \in Int /\ d \in Int /\ a \in Int /\ l \in Int
  BY CountsType DEF Asking
<1>2. l + s + a = m + n + d
  BY DEF Balanced
<1> HIDE DEF m, n, s, d, a, l
<1>3. (l + dl) + (s + ds) + (a + da) = (m + dq) + (n + dx) + (d + de)
  BY <1>1, <1>2
<1>4. load'[w] + Sent(w)' + Asking(w)' = Len(workerQueue'[w]) + Len(accepted'[w]) + Ended(w)'
  BY <1>3 DEF m, n, s, d, a, l, Changes
<1> QED BY <1>4 DEF Balanced

LEMMA BalanceFrame ==
  ASSUME NEW w, Balanced(w), wire'["child"] = wire["child"], wire'[w] = wire[w],
         UNCHANGED <<load[w], utilization[w], workerQueue[w], accepted[w]>>,
         broker'.at = w <=> broker.at = w
  PROVE  Balanced(w)'
BY DEF Balanced, Asking, Sent, Ended

LEMMA ChooseActionLoad ==
  ASSUME TypeOK, Wires, NEW v \in Workers, Chooses(v), NEW w \in Workers, Balanced(w)
  PROVE  Balanced(w)'
<1>1. UNCHANGED <<wire, load, utilization, accepted>> /\ broker.at = "request" /\ broker'.at = v
  BY DEF Chooses
<1>2. CASE w = v
  <2>1. Len(workerQueue'[w]) = Len(workerQueue[w]) + 1
    BY <1>2 DEF Chooses, TypeOK, CeleryTypeOK
  <2>2. Sent(w)' = Sent(w) /\ Ended(w)' = Ended(w)
    BY <1>1 DEF Sent, Ended
  <2>3. Asking(w)' = Asking(w) + 1
    BY <1>1, <1>2, WorkersAre DEF Asking
  <2>4. Changes(w, 0, 0, 1, 1, 0, 0)
    BY <1>1, <2>1, <2>2, <2>3, CountsType DEF Changes
  <2>5. SlowTasks => utilization'[w] = load'[w]
    BY <1>1 DEF Balanced
  <2>6. 0 \in Int /\ 1 \in Int /\ 0 + 0 + 1 = 1 + 0 + 0
    OBVIOUS
  <2> QED BY <2>4, <2>5, <2>6, BalanceMoves, Zenon
<1>3. CASE w # v
  <2>1. workerQueue'[w] = workerQueue[w]
    BY <1>3 DEF Chooses, TypeOK, CeleryTypeOK
  <2>2. broker.at # w /\ broker'.at # w
    BY <1>1, <1>3, WorkersAre
  <2> QED BY <1>1, <2>1, <2>2, BalanceFrame
<1> QED BY <1>2, <1>3

LEMMA AnnounceSentLoad ==
  ASSUME TypeOK, Wires, AnnounceSent, NEW w \in Workers, Balanced(w)
  PROVE  Balanced(w)'
<1> DEFINE e == Event("sent", broker.task, QueueName(broker.at))
           b == IF broker.at = w THEN 1 ELSE 0
<1>1. /\ UNCHANGED <<workerQueue, accepted, load, utilization>>
      /\ broker.at \in Workers /\ broker'.at \notin Workers /\ broker.task \in Tasks
  BY WorkersAre DEF AnnounceSent, TypeOK, BrokerTypeOK
<1>2. e \in SentEvents /\ e.worker = QueueName(broker.at)
  BY <1>1 DEF Event, SentEvents
<1>3. /\ wire["child"] \in Seq(SentEvents) /\ wire'["child"] = Append(wire["child"], e)
      /\ wire'[w] = wire[w]
  BY ChildEvents, WorkersAre, SendAt DEF AnnounceSent
<1>4. (e \in SentTo(w) <=> broker.at = w) /\ b \in {0, 1}
  BY <1>2, ClassOfNames DEF SentTo, SentEvents
<1>5. Asking(w) = b /\ Asking(w)' = b + (-b)
  BY <1>1 DEF Asking
<1> HIDE DEF e
<1>6. Sent(w)' = Sent(w) + b
  <2>1. Count(wire'["child"], SentTo(w)) = Count(wire["child"], SentTo(w)) + (IF e \in SentTo(w) THEN 1 ELSE 0)
    BY <1>2, <1>3, AppendCount
  <2>2. wire'["child"] \in Seq(SentEvents)
    BY <1>2, <1>3
  <2> QED BY <1>3, <1>4, <2>1, <2>2, SentCounts
<1> HIDE DEF b
<1>7. Ended(w)' = Ended(w)
  BY <1>3 DEF Ended
<1>8. Changes(w, 0, b, -b, 0, 0, 0)
  BY <1>1, <1>4, <1>5, <1>6, <1>7, CountsType DEF Changes
<1>9. SlowTasks => utilization'[w] = load'[w]
  BY <1>1 DEF Balanced
<1>10. 0 \in Int /\ b \in Int /\ -b \in Int /\ 0 + b + (-b) = 0 + 0 + 0
  BY <1>4
<1> QED BY <1>8, <1>9, <1>10, BalanceMoves, Zenon

LEMMA ReceiveTaskLoad ==
  ASSUME TypeOK, Wires, NEW v \in Workers, ReceiveTask(v), NEW w \in Workers, Balanced(w)
  PROVE  Balanced(w)'
<1> DEFINE k == Head(workerQueue[v])
           e == Event("received", k, HostName(v))
<1>1. UNCHANGED <<broker, load, utilization>>
  BY DEF ReceiveTask
<1>2. /\ wire'[v] = Append(wire[v], e) /\ (w # v => wire'[w] = wire[w])
      /\ wire'["child"] = wire["child"]
  <2>1. v \in Senders /\ w \in Senders /\ "child" \in Senders \ {v} /\ wire' = [wire EXCEPT ![v] = Append(@, e)]
    BY WorkersAre DEF ReceiveTask
  <2> HIDE DEF Senders, e
  <2> QED BY <2>1, SendAt
<1>3. CASE w = v
  <2>1. /\ workerQueue[v] \in Seq(Tasks) /\ accepted[v] \in Seq(Tasks) /\ workerQueue[v] # <<>>
        /\ workerQueue'[v] = Tail(workerQueue[v]) /\ accepted'[v] = Append(accepted[v], k)
        /\ k \in Tasks
    BY SeqFacts DEF ReceiveTask, TypeOK, CeleryTypeOK
  <2>2. e \in WorkerEvents /\ e \notin EndEvents /\ wire[v] \in Seq(WorkerEvents)
    BY <2>1, OwnEvents DEF Event, WorkerEvents, EndEvents
  <2> HIDE DEF e, k
  <2>3. Len(workerQueue'[v]) = Len(workerQueue[v]) + (-1) /\ Len(accepted'[v]) = Len(accepted[v]) + 1
    BY <2>1
  <2>4. wire'[v] \in Seq(WorkerEvents) /\ Count(wire'[v], EndEvents) = Count(wire[v], EndEvents) + 0
    BY <1>2, <2>2, AppendCount
  <2>5. Ended(v)' = Ended(v) + 0
    BY <2>2, <2>4, EndedCounts
  <2>6. Sent(v)' = Sent(v) /\ Asking(v)' = Asking(v)
    BY <1>1, <1>2 DEF Sent, Asking
  <2>8. Changes(v, 0, 0, 0, -1, 1, 0)
    BY <1>1, <2>3, <2>5, <2>6, CountsType DEF Changes, Asking
  <2>7. SlowTasks => utilization'[v] = load'[v]
    BY <1>1, <1>3 DEF Balanced
  <2>9. 0 \in Int /\ 1 \in Int /\ -1 \in Int /\ 0 + 0 + 0 = -1 + 1 + 0
    OBVIOUS
  <2>10. Balanced(v)
    BY <1>3
  <2>11. Balanced(v)'
    BY <2>7, <2>8, <2>9, <2>10, BalanceMoves, Zenon
  <2> QED BY <1>3, <2>11
<1>4. CASE w # v
  <2>1. workerQueue'[w] = workerQueue[w] /\ accepted'[w] = accepted[w]
    BY <1>4 DEF ReceiveTask, TypeOK, CeleryTypeOK
  <2> QED BY <1>1, <1>2, <1>4, <2>1, BalanceFrame
<1> QED BY <1>3, <1>4

LEMMA EndTaskLoad ==
  ASSUME TypeOK, Wires, NEW v \in Workers, EndTask(v), NEW w \in Workers, Balanced(w)
  PROVE  Balanced(w)'
<1> DEFINE k == Head(accepted[v])
<1>0. PICK type \in {"succeeded", "failed"} : wire' = [wire EXCEPT ![v] = Append(@, Event(type, k, HostName(v)))]
  BY DEF EndTask
<1> DEFINE e == Event(type, k, HostName(v))
<1>1. UNCHANGED <<broker, load, utilization, workerQueue>>
  BY DEF EndTask
<1>2. /\ wire'[v] = Append(wire[v], e) /\ (w # v => wire'[w] = wire[w])
      /\ wire'["child"] = wire["child"]
  <2>1. v \in Senders /\ w \in Senders /\ "child" \in Senders \ {v} /\ wire' = [wire EXCEPT ![v] = Append(@, e)]
    BY <1>0, WorkersAre
  <2> HIDE DEF Senders, e
  <2> QED BY <2>1, SendAt
<1>3. CASE w = v
  <2>1. /\ accepted[v] \in Seq(Tasks) /\ accepted[v] # <<>> /\ accepted'[v] = Tail(accepted[v])
        /\ k \in Tasks
    BY SeqFacts DEF EndTask, TypeOK, CeleryTypeOK
  <2>2. e \in WorkerEvents /\ e \in EndEvents /\ wire[v] \in Seq(WorkerEvents)
    BY <2>1, OwnEvents DEF Event, WorkerEvents, EndEvents
  <2> HIDE DEF e, k
  <2>3. Len(accepted'[v]) = Len(accepted[v]) + (-1)
    BY <2>1
  <2>4. wire'[v] \in Seq(WorkerEvents) /\ Count(wire'[v], EndEvents) = Count(wire[v], EndEvents) + 1
    BY <1>2, <2>2, AppendCount
  <2>5. Ended(v)' = Ended(v) + 1
    BY <2>2, <2>4, EndedCounts
  <2>6. Sent(v)' = Sent(v) /\ Asking(v)' = Asking(v)
    BY <1>1, <1>2 DEF Sent, Asking
  <2>8. Changes(v, 0, 0, 0, 0, -1, 1)
    BY <1>1, <2>3, <2>5, <2>6, CountsType DEF Changes, Asking
  <2>7. SlowTasks => utilization'[v] = load'[v]
    BY <1>1, <1>3 DEF Balanced
  <2> QED BY <1>3, <2>7, <2>8, BalanceMoves
<1>4. CASE w # v
  <2>1. accepted'[w] = accepted[w]
    BY <1>4 DEF EndTask, TypeOK, CeleryTypeOK
  <2> QED BY <1>1, <1>2, <1>4, <2>1, BalanceFrame
<1> QED BY <1>3, <1>4

(* An event that is neither a send nor an end leaves the load alone.                             *)
LEMMA ReceivedLoad ==
  ASSUME TypeOK, Wires, NEW s \in Senders, Consume(s), Head(wire[s]).type = "received",
         NEW w \in Workers, Balanced(w)
  PROVE  Balanced(w)'
<1> DEFINE e == Head(wire[s])
<1>1. wire[s] # <<>> /\ wire'[s] = Tail(wire[s]) /\ \A t \in Senders \ {s} : wire'[t] = wire[t]
  BY TakeAt DEF Consume
<1>2. UNCHANGED <<broker, workerQueue, accepted, load, utilization>>
  BY DEF Consume, OnTaskSent, OnBrokerReceived, OnWorkerReceived, OnTaskEnd
<1>3. s # "child"
  <2>1. ASSUME s = "child" PROVE FALSE
    <3>1. e \in SentEvents
      BY <1>1, <2>1, ChildEvents, SeqFacts
    <3> QED BY <3>1 DEF SentEvents
  <2> QED BY <2>1
<1>4. wire'["child"] = wire["child"]
  BY <1>1, <1>3
<1>5. CASE s = w
  <2>1. wire[w] \in Seq(WorkerEvents) /\ e \notin EndEvents
    BY OwnEvents DEF EndEvents
  <2>2. wire'[w] \in Seq(WorkerEvents) /\ Count(wire'[w], EndEvents) = Count(wire[w], EndEvents)
    <3>1. Count(wire[w], EndEvents) = Count(Tail(wire[w]), EndEvents) + 0
      BY <1>1, <1>5, <2>1, TailCount
    <3>2. Tail(wire[w]) \in Seq(WorkerEvents)
      BY <1>1, <1>5, <2>1, SeqFacts
    <3>3. Count(Tail(wire[w]), EndEvents) \in Nat
      BY <3>2, CountType
    <3>4. wire'[w] = Tail(wire[w]) /\ Count(wire[w], EndEvents) \in Nat
      BY <1>1, <1>5, <2>1, CountType
    <3> QED BY <3>1, <3>2, <3>3, <3>4
  <2>3. Ended(w)' = Ended(w)
    BY <2>1, <2>2, EndedCounts
  <2>4. Sent(w)' = Sent(w)
    BY <1>4 DEF Sent
  <2> QED BY <1>2, <2>3, <2>4 DEF Balanced, Asking
<1>6. CASE s # w
  <2>1. wire'[w] = wire[w]
    <3> HIDE DEF Senders
    <3>1. w \in Senders
      BY DEF Senders
    <3> QED BY <1>1, <1>6, <3>1
  <2> QED BY <1>2, <1>4, <2>1, BalanceFrame
<1> QED BY <1>5, <1>6

LEMMA SentLoad ==
  ASSUME TypeOK, Wires, NEW s \in Senders, Consume(s), OnTaskSent(Head(wire[s])),
         NEW w \in Workers, Balanced(w)
  PROVE  Balanced(w)'
<1> DEFINE e == Head(wire[s])
<1>1. wire[s] # <<>> /\ wire'[s] = Tail(wire[s]) /\ \A t \in Senders \ {s} : wire'[t] = wire[t]
  BY TakeAt DEF Consume
<1>2. e.type = "sent" /\ UNCHANGED <<broker, workerQueue, accepted>>
  BY DEF Consume, OnTaskSent
<1>3. s = "child"
  <2>1. wire[s] \in Seq(EventsOf(s))
    BY WireTypes
  <2>2. e \in EventsOf(s) /\ (s \in Workers => wire[s] \in Seq(WorkerEvents))
    BY <1>1, <2>1, SeqFacts, OwnEvents
  <2>3. s \in Workers => e \in WorkerEvents
    BY <1>1, <2>2, SeqFacts
  <2>4. s # "broker"
    <3>1. s = "broker" => e \in [type : {"received"}, task : Tasks, worker : {HostName("broker")}]
      BY <2>2, EventsAre
    <3> QED BY <1>2, <3>1
  <2> QED BY <1>2, <2>3, <2>4 DEF WorkerEvents
<1>4. wire["child"] \in Seq(SentEvents) /\ wire'["child"] \in Seq(SentEvents) /\ e \in SentEvents
  <2>1. wire["child"] \in Seq(SentEvents) /\ wire["child"] # <<>>
    BY <1>1, <1>3, ChildEvents
  <2>2. Tail(wire["child"]) \in Seq(SentEvents) /\ Head(wire["child"]) \in SentEvents
    BY <2>1, SeqFacts
  <2> QED BY <1>1, <1>3, <2>1, <2>2
<1>5. Count(wire["child"], SentTo(w)) = Count(wire'["child"], SentTo(w)) + (IF e \in SentTo(w) THEN 1 ELSE 0)
  BY <1>1, <1>3, <1>4, TailCount
<1>6. Count(wire'["child"], SentTo(w)) \in Nat
  BY <1>4, CountType
<1>7. wire'[w] = wire[w]
  <2>1. w \in Senders \ {s}
    BY <1>3, WorkersAre
  <2> HIDE DEF Senders
  <2> QED BY <1>1, <2>1
<1> DEFINE c == WorkerClassOf(e.worker)
<1>8. /\ load' = [load EXCEPT ![c] = @ + 1]
      /\ utilization' = [utilization EXCEPT ![c] = Max0(@ + 1)]
  BY DEF OnTaskSent, UpdateWorkersState
<1>13. PICK v \in Workers : e.worker = QueueName(v) /\ c = v
  BY <1>4, ClassOfNames DEF SentEvents
<1>9. load \in [Workers -> Int] /\ utilization \in [Workers -> Nat] /\ c \in Workers
  BY <1>13 DEF TypeOK, ConsumerTypeOK
<1>10. e \in SentTo(w) <=> c = w
  BY <1>4, <1>13, ClassOfNames DEF SentTo, SentEvents
<1> HIDE DEF c
<1>11. CASE c = w
  <2>1. load'[w] = load[w] + 1 /\ utilization'[w] = utilization[w] + 1
    BY <1>8, <1>9, <1>11 DEF Max0
  <2>2. Sent(w)' = Sent(w) + (-1)
    <3>1. Sent(w) = Count(wire["child"], SentTo(w)) /\ Sent(w)' = Count(wire'["child"], SentTo(w))
      BY <1>4, SentCounts
    <3>2. Count(wire["child"], SentTo(w)) = Count(wire'["child"], SentTo(w)) + 1
      BY <1>5, <1>10, <1>11
    <3> QED BY <1>6, <3>1, <3>2
  <2>3. Ended(w)' = Ended(w) /\ Asking(w)' = Asking(w)
    BY <1>2, <1>7 DEF Ended, Asking
  <2>4. Changes(w, 1, -1, 0, 0, 0, 0)
    BY <1>2, <2>1, <2>2, <2>3, CountsType DEF Changes, Asking
  <2>5. SlowTasks => utilization'[w] = load'[w]
    BY <2>1 DEF Balanced
  <2>6. 0 \in Int /\ 1 \in Int /\ -1 \in Int /\ 1 + (-1) + 0 = 0 + 0 + 0
    OBVIOUS
  <2> QED BY <2>4, <2>5, <2>6, BalanceMoves, Zenon
<1>12. CASE c # w
  <2>1. load'[w] = load[w] /\ utilization'[w] = utilization[w]
    BY <1>8, <1>9, <1>12
  <2>2. Sent(w)' = Sent(w)
    <3>1. Sent(w) = Count(wire["child"], SentTo(w)) /\ Sent(w)' = Count(wire'["child"], SentTo(w))
      BY <1>4, SentCounts
    <3>2. Count(wire["child"], SentTo(w)) = Count(wire'["child"], SentTo(w)) + 0
      BY <1>5, <1>10, <1>12
    <3> QED BY <1>6, <3>1, <3>2
  <2>3. Ended(w)' = Ended(w) /\ Asking(w)' = Asking(w)
    BY <1>2, <1>7 DEF Ended, Asking
  <2> QED BY <1>2, <2>1, <2>2, <2>3 DEF Balanced
<1> QED BY <1>11, <1>12

(* The end that is seen was sent after its send was seen, if tasks are slow: the load is positive. *)
LEMMA EndLoad ==
  ASSUME TypeOK, Wires, NoRepeats, Apart, Sending, NEW s \in Senders, Consume(s),
         OnTaskEnd(Head(wire[s])), NEW w \in Workers, Balanced(w)
  PROVE  Balanced(w)'
<1> DEFINE e == Head(wire[s])
<1>1. wire[s] # <<>> /\ wire'[s] = Tail(wire[s]) /\ \A t \in Senders \ {s} : wire'[t] = wire[t]
  BY TakeAt DEF Consume
<1>2. UNCHANGED <<broker, workerQueue, accepted>>
  BY DEF Consume
<1>3. s \in Workers /\ e \in EndEvents /\ WorkerClassOf(e.worker) = s
  BY EndFromWorker
<1>4. wire'["child"] = wire["child"]
  <2>1. "child" \in Senders \ {s}
    BY <1>3, WorkersAre
  <2> HIDE DEF Senders
  <2> QED BY <1>1, <2>1
<1>5. load' = [load EXCEPT ![s] = @ + (-1)] /\ utilization' = [utilization EXCEPT ![s] = Max0(@ + (-1))]
  BY <1>3 DEF OnTaskEnd, UpdateWorkersState
<1>6. load \in [Workers -> Int] /\ utilization \in [Workers -> Nat]
  BY DEF TypeOK, ConsumerTypeOK
<1>7. Sent(w)' = Sent(w) /\ Asking(w)' = Asking(w)
  BY <1>2, <1>4 DEF Sent, Asking
<1>8. CASE s = w
  <2>1. wire[w] \in Seq(WorkerEvents) /\ wire'[w] \in Seq(WorkerEvents)
    <3>1. wire[w] \in Seq(WorkerEvents) /\ wire[w] # <<>>
      BY <1>1, <1>8, OwnEvents
    <3>2. Tail(wire[w]) \in Seq(WorkerEvents)
      BY <3>1, SeqFacts
    <3> QED BY <1>1, <1>8, <3>1, <3>2
  <2>2. Count(wire[w], EndEvents) = Count(wire'[w], EndEvents) + 1
    BY <1>1, <1>3, <1>8, <2>1, TailCount
  <2>3. Count(wire'[w], EndEvents) \in Nat
    BY <2>1, CountType
  <2>4. Ended(w)' = Ended(w) + (-1) /\ Ended(w) >= 1
    <3>1. Ended(w) = Count(wire[w], EndEvents) /\ Ended(w)' = Count(wire'[w], EndEvents)
      BY <2>1, EndedCounts
    <3> QED BY <2>2, <2>3, <3>1
  <2>5. load'[w] = load[w] + (-1)
    BY <1>5, <1>6, <1>8
  <2>6. ASSUME SlowTasks PROVE utilization'[w] = load'[w]
    <3> DEFINE m == Len(workerQueue[w])
               n == Len(accepted[w])
               z == Sent(w)
               d == Ended(w)
               a == Asking(w)
               l == load[w]
    <3>1. m \in Int /\ n \in Int /\ z \in Int /\ d \in Int /\ a \in Int /\ l \in Int
      BY CountsType DEF Asking
    <3>2. l + z + a = m + n + d
      BY DEF Balanced
    <3>3. z + a <= m + n
      BY <2>6, SendsPending DEF Asking
    <3>4. d >= 1
      BY <2>4
    <3> HIDE DEF m, n, z, d, a, l
    <3>5. l >= 1
      BY <3>1, <3>2, <3>3, <3>4
    <3>6. utilization[w] >= 1 /\ utilization[w] = load[w]
      BY <2>6, <3>5 DEF l, Balanced
    <3>7. utilization'[w] = utilization[w] + (-1)
      BY <1>5, <1>6, <1>8, <3>6 DEF Max0
    <3> QED BY <2>5, <3>6, <3>7
  <2>7. Changes(w, -1, 0, 0, 0, 0, -1)
    BY <1>2, <1>7, <2>4, <2>5, CountsType DEF Changes, Asking
  <2>8. 0 \in Int /\ -1 \in Int /\ -1 + 0 + 0 = 0 + 0 + (-1)
    OBVIOUS
  <2> QED BY <2>6, <2>7, <2>8, BalanceMoves, Zenon
<1>9. CASE s # w
  <2>1. load'[w] = load[w] /\ utilization'[w] = utilization[w]
    BY <1>5, <1>6, <1>9
  <2>2. wire'[w] = wire[w]
    <3>1. w \in Senders \ {s}
      BY <1>9
    <3> HIDE DEF Senders
    <3> QED BY <1>1, <3>1
  <2>3. Ended(w)' = Ended(w)
    BY <2>2 DEF Ended
  <2> QED BY <1>2, <1>7, <2>1, <2>3 DEF Balanced
<1> QED BY <1>8, <1>9

LEMMA LoadStep ==
  ASSUME TypeOK, Wires, NoRepeats, Apart, Sending, LoadAccounts, [Next]_vars
  PROVE  LoadAccounts'
<1>1. ASSUME NEW w \in Workers PROVE Balanced(w)'
  <2>1. Balanced(w)
    BY LoadIsBalance
  <2>2. CASE (\E v \in Workers : Chooses(v)) \/ AnnounceSent \/ \E v \in Workers : ReceiveTask(v) \/ EndTask(v)
    BY <2>1, <2>2, ChooseActionLoad, AnnounceSentLoad, ReceiveTaskLoad, EndTaskLoad
  <2>3. ASSUME NEW s \in Senders, Consume(s) PROVE Balanced(w)'
    <3>1. \/ Head(wire[s]).type = "received"
          \/ OnTaskSent(Head(wire[s])) \/ OnTaskEnd(Head(wire[s]))
      BY <2>3 DEF Consume, OnBrokerReceived, OnWorkerReceived
    <3> QED BY <2>1, <2>3, <3>1, ReceivedLoad, SentLoad, EndLoad
  <2>4. CASE FetchBrokerTask
    <3>1. UNCHANGED <<broker, load, utilization, workerQueue, accepted>>
      BY <2>4 DEF FetchBrokerTask
    <3>2. wire'["child"] = wire["child"] /\ wire'[w] = wire[w]
      <4>1. /\ "broker" \in Senders /\ {"child", w} \subseteq Senders \ {"broker"}
            /\ wire' = [wire EXCEPT !["broker"] = Append(@, Event("received", Head(brokerQueue), HostName("broker")))]
        BY <2>4, WorkersAre DEF FetchBrokerTask
      <4> HIDE DEF Senders
      <4> QED BY <4>1, SendAt
    <3> QED BY <2>1, <3>1, <3>2, BalanceFrame
  <2>5. CASE TaskBroker \/ Raises
    <3>1. UNCHANGED <<wire, load, utilization, workerQueue, accepted>> /\ broker.at \notin Workers
          /\ broker'.at \notin Workers
      BY <2>5, WorkersAre DEF TaskBroker, Raises, RetryOrGiveUp
    <3> QED BY <2>1, <3>1, BalanceFrame
  <2>6. CASE StateThread \/ RewardThread \/ AgentConsumer \/ (\E job \in jobs : RunJob(job)) \/ UNCHANGED vars
    <3>1. UNCHANGED <<wire, load, utilization, workerQueue, accepted, broker>>
      BY <2>6 DEF StateThread, RewardThread, AgentConsumer, RunJob, TakeCreation, GetState,
                  SaveTrajectory, AddNextState, SetPrevious, ComputeReward, UpdateTrajectoryReward,
                  CheckTrajectoryReward, AreAllTaskExecuted, ObserveReward, SaveHistory
    <3> QED BY <2>1, <3>1, BalanceFrame
  <2> HIDE DEF Senders
  <2> QED BY <2>2, <2>3, <2>4, <2>5, <2>6, NextSteps DEF Steps
<1> QED BY <1>1 DEF LoadAccounts, Balanced, Asking

-----------------------------------------------------------------------------
(* The history of the run: when its end is announced, the state thread has nothing left to do    *)
(* and every complete trajectory was announced before.                                           *)
(* No retry, an agent that decides on the state, and tasks slower than the threads.              *)
OnTime == SlowTasks /\ NeedState /\ failures = 0

(* A task that has been executed.                                                                *)
BeforeEnd == {At(s) : s \in {"queued", "fetched", "asked", "gaveUp"}} \union ({"sent", "accepted"} \X Workers)
Past(k) == k \in Tasks /\ \A p \in BeforeEnd : k \notin Places[p]

(* The agent chose on the state, so the trajectory of a task that was sent is there, and the     *)
(* state thread is done with it when the task ends.                                              *)
Created ==
  NeedState => \A k \in Tasks : Chosen(k) => store[k].state # 0

Passed ==
  OnTime => \A k \in Tasks : Past(k) => /\ store[k].state # 0
                                        /\ stateThread.at # "idle" => stateThread.task # k

(* Every trajectory but the last has a next state, or the state thread is about to write it.     *)
Linked ==
  /\ stateThread.at = "check" /\ previous # NoTask => store[previous].next # 0
  /\ \A k \in Tasks : store[k].state # 0 =>
       \/ store[k].next # 0 \/ k = previous
       \/ stateThread.at \in {"next", "check"} /\ stateThread.task = k

(* A complete trajectory was announced, or one of the two threads is about to.                   *)
Announcing ==
  SlowTasks => \A k \in Tasks : IsComplete(store[k]) =>
    \/ k \in notified
    \/ stateThread.at = "check" /\ k = previous
    \/ rewardThread.at = "check" /\ k = rewardThread.task

(* The agent has still to hear of it, or has put the reward into the entry of the history.       *)
Rewarding ==
  SlowTasks => \A k \in notified : k \in TasksIn(agentInbox, Completed) \/ entries[k] = "rewarded"

(* The end of the execution is the last the agent hears, and its history has every notice.       *)
LastWord ==
  OnTime =>
    /\ \A i \in DOMAIN agentInbox : agentInbox[i].type = "executed" =>
         i = Len(agentInbox) /\ completions = 1 /\ ~history.saved
    /\ history.saved => completions = 1 /\ agentInbox = <<>> /\ notified \subseteq history.rewards

LEMMA OnTimeBefore == ASSUME TypeOK, [Next]_vars, failures' = 0 PROVE failures = 0
<1>1. UNCHANGED failures \/ Raises
  BY NextSteps DEF Steps, StateThread, RewardThread, AgentConsumer, FetchBrokerTask, TaskBroker, RunJob,
         AnnounceSent, Chooses, ReceiveTask, EndTask, Consume, TakeCreation, GetState,
         SaveTrajectory, AddNextState, SetPrevious, ComputeReward, UpdateTrajectoryReward,
         CheckTrajectoryReward, AreAllTaskExecuted, ObserveReward, SaveHistory
<1>2. failures \in Nat
  BY TaskPathAssumption DEF TypeOK, BrokerTypeOK
<1> QED BY <1>1, <1>2 DEF Raises, RetryOrGiveUp

LEMMA CreatedStep == ASSUME TypeOK, Wires, Created, [Next]_vars PROVE Created'
<1> SUFFICES ASSUME NeedState, NEW k \in Tasks, Chosen(k)' PROVE store'[k].state # 0
  BY DEF Created
<1>1. StoreTypeOK
  BY DEF TypeOK
<1>2. PICK w \in Workers : Names(k, w)'
  BY DEF Chosen
<1>3. CASE Names(k, w)
  <2>1. store[k].state # 0
    BY <1>3 DEF Created, Chosen
  <2> QED BY <1>1, <2>1, StateKeptByStep
<1>4. CASE Chooses(w) /\ k = broker.task
  <2>1. store[k].state # 0
    BY <1>4 DEF Chooses, HasState
  <2> QED BY <1>1, <2>1, StateKeptByStep
<1> QED BY <1>2, <1>3, <1>4, NamesStep

LEMMA BeforeEndStops == BeforeEnd \subseteq Stops
BY DEF BeforeEnd, Stops, At

(* The execution of a task is what makes it past.                                                *)
LEMMA PastStep ==
  ASSUME TypeOK, Wires, NoRepeats, Apart, [Next]_vars, NEW k \in Tasks, Past(k)'
  PROVE  Past(k) \/ \E w \in Workers : EndTask(w) /\ k = Head(accepted[w])
<1> SUFFICES ASSUME NEW p \in BeforeEnd, k \in Places[p],
                    ~ \E w \in Workers : EndTask(w) /\ k = Head(accepted[w])
             PROVE  \E q \in BeforeEnd : k \in Places'[q]
  BY DEF Past
<1>1. p \in Stops
  BY BeforeEndStops
<1>2. /\ {At("queued"), At("fetched"), At("asked"), At("gaveUp")} \subseteq BeforeEnd
      /\ \A w \in Workers : /\ <<"sent", w>> \in BeforeEnd /\ <<"accepted", w>> \in BeforeEnd
                            /\ p # <<"ended", w>>
      /\ p # At("rewarding")
  BY DEF BeforeEnd, At
<1>3. \A x, a, b : Moves(x, a, b) /\ (x = k /\ a = p => b \in BeforeEnd) => \E q \in BeforeEnd : k \in Places'[q]
  <2> TAKE x, a, b
  <2> HAVE Moves(x, a, b) /\ (x = k /\ a = p => b \in BeforeEnd)
  <2>1. CASE x = k /\ a = p
    BY <2>1 DEF Moves
  <2>2. CASE ~(x = k /\ a = p)
    <3>1. k \in Places'[p]
      BY <1>1, <2>2 DEF Moves
    <3> QED BY <3>1
  <2> QED BY <2>1, <2>2
<1>4. CASE \E w \in Workers :
             EndTask(w) /\ Moves(Head(accepted[w]), <<"accepted", w>>, <<"ended", w>>)
  BY <1>3, <1>4
<1>5. CASE \E w \in Workers : Consume(w) /\ Moves(Head(wire[w]).task, <<"ended", w>>, At("rewarding"))
  BY <1>2, <1>3, <1>5
<1>6. CASE \/ \E w \in Workers : Chooses(w) /\ Moves(broker.task, At("asked"), <<"sent", w>>)
           \/ \E w \in Workers :
                ReceiveTask(w) /\ Moves(Head(workerQueue[w]), <<"sent", w>>, <<"accepted", w>>)
  BY <1>2, <1>3, <1>6
<1>7. CASE \/ Moves(Head(brokerQueue), At("queued"), At("fetched"))
           \/ Moves(broker'.task, At("fetched"), At("asked"))
           \/ Moves(broker.task, At("asked"), At("queued"))
           \/ Moves(broker.task, At("asked"), At("gaveUp"))
  BY <1>2, <1>3, <1>7
<1>8. CASE Places' = Places \/ (ComputeReward /\ Leaves(Head(rewardQueue).task, At("rewarding")))
  <2>1. k \in Places'[p]
    BY <1>1, <1>2, <1>8 DEF Leaves
  <2> QED BY <2>1
<1> QED BY <1>4, <1>5, <1>6, <1>7, <1>8, StepMoves

LEMMA HeadInRange == ASSUME NEW S, NEW q \in Seq(S), q # <<>> PROVE Head(q) \in Range(q)
BY TailAt DEF Range

(* The task of the state thread.                                                                 *)
LEMMA StateThreadTask ==
  ASSUME TypeOK, [Next]_vars, stateThread'.at # "idle"
  PROVE  \/ stateThread.at # "idle" /\ stateThread'.task = stateThread.task
         \/ TakeCreation /\ stateThread'.task \in Range(stateQueue)
<1>1. CASE TakeCreation
  <2>1. stateQueue \in Seq(Tasks) /\ stateQueue # <<>> /\ stateThread'.task = Head(stateQueue)
    BY <1>1 DEF TakeCreation, TypeOK, ConsumerTypeOK
  <2> QED BY <1>1, <2>1, HeadInRange
<1>2. CASE GetState \/ SaveTrajectory \/ AddNextState
  BY <1>2 DEF GetState, SaveTrajectory, AddNextState, TypeOK, BuilderTypeOK
<1>3. CASE SetPrevious
  BY <1>3 DEF SetPrevious
<1>4. CASE UNCHANGED stateThread
  BY <1>4
<1> QED BY <1>1, <1>2, <1>3, <1>4, StateThreadFrame DEF StateThread

LEMMA PassedStep ==
  ASSUME TypeOK, Wires, NoRepeats, Apart, Created, Straight, Passed, [Next]_vars
  PROVE  Passed'
<1> SUFFICES ASSUME OnTime', NEW k \in Tasks, Past(k)'
             PROVE  store'[k].state # 0 /\ (stateThread'.at # "idle" => stateThread'.task # k)
  BY DEF Passed
<1>1. OnTime /\ StoreTypeOK
  BY OnTimeBefore DEF OnTime, TypeOK
<1>2. Uncreated
  BY <1>1 DEF Straight, OnTime
<1>3. CASE Past(k)
  <2>1. store[k].state # 0 /\ (stateThread.at # "idle" => stateThread.task # k)
    BY <1>1, <1>3 DEF Passed
  <2>2. k \notin Range(stateQueue)
    BY <1>2, <2>1 DEF Uncreated
  <2> QED BY <1>1, <2>1, <2>2, StateKeptByStep, StateThreadTask
<1>4. ASSUME NEW w \in Workers, EndTask(w), k = Head(accepted[w])
      PROVE  store'[k].state # 0 /\ (stateThread'.at # "idle" => stateThread'.task # k)
  <2>1. k \in Range(accepted[w])
    <3>1. accepted[w] \in Seq(Tasks) /\ accepted[w] # <<>>
      BY <1>4 DEF EndTask, TypeOK, CeleryTypeOK
    <3> QED BY <1>4, <3>1, HeadInRange
  <2>2. Chosen(k)
    BY <2>1 DEF Chosen, Names, InWorker
  <2>3. store[k].state # 0
    BY <1>1, <2>2 DEF Created, OnTime
  <2>4. stateThread' = stateThread /\ store' = store /\ Prepared(k)
    BY <1>1, <1>4 DEF EndTask, OnTime
  <2>5. stateThread.at = "wait" => stateThread.task # k
    BY <1>2, <2>3 DEF Uncreated, InHand
  <2> QED BY <2>3, <2>4, <2>5 DEF Prepared
<1> QED BY <1>3, <1>4, PastStep

LEMMA LinkedStep ==
  ASSUME TypeOK, Reading, Chain, Linked, [Next]_vars
  PROVE  Linked'
<1>1. CASE SaveTrajectory
  <2>1. stateThread'.at = "next" /\ stateThread'.task = stateThread.task /\ stateThread.at = "save"
        /\ previous' = previous
    BY <1>1, SavedTrajectory DEF SaveTrajectory, TypeOK, BuilderTypeOK
  <2>2. ASSUME NEW k \in Tasks, k # stateThread.task PROVE store'[k] = store[k]
    BY <1>1, <2>2, SavedTrajectory
  <2> QED BY <2>1, <2>2 DEF Linked
<1>2. CASE AddNextState
  <2>1. stateThread'.at = "check" /\ stateThread'.task = stateThread.task /\ stateThread.at = "next"
        /\ previous' = previous
    BY <1>2, AddedNextState DEF AddNextState, TypeOK, BuilderTypeOK
  <2>2. \A k \in Tasks : store'[k].state = store[k].state
                         /\ store'[k].next = (IF k = previous THEN readings ELSE store[k].next)
    BY <1>2, AddedNextState
  <2>3. readings # 0 /\ previous \in MaybeTask
    BY <2>1 DEF Reading, TypeOK, BuilderTypeOK
  <2> QED BY <2>1, <2>2, <2>3 DEF Linked
<1>3. CASE SetPrevious
  <2>1. stateThread'.at = "idle" /\ previous' = stateThread.task /\ UNCHANGED store /\ stateThread.at = "check"
    BY <1>3 DEF SetPrevious
  <2>2. \A k \in Tasks : k # NoTask
    BY DEF Tasks
  <2> QED BY <2>1, <2>2 DEF Linked
<1>4. CASE TakeCreation \/ GetState
  <2>1. stateThread.at \in {"idle", "wait"} /\ stateThread'.at \in {"wait", "save"} /\ UNCHANGED <<store, previous>>
    BY <1>4 DEF TakeCreation, GetState, TypeOK, BuilderTypeOK
  <2> QED BY <2>1 DEF Linked
<1>5. CASE ~StateThread
  <2>1. UNCHANGED <<stateThread, previous>>
    BY <1>5, StateThreadFrame
  <2>2. \A k \in Tasks : store'[k].state = store[k].state /\ store'[k].next = store[k].next
    BY <1>5, ChainFrame DEF StateThread
  <2>3. previous \in MaybeTask
    BY DEF TypeOK, BuilderTypeOK
  <2> QED BY <2>1, <2>2, <2>3 DEF Linked
<1> QED BY <1>1, <1>2, <1>3, <1>4, <1>5 DEF StateThread

LEMMA NotifiedGrows == ASSUME [Next]_vars PROVE notified \subseteq notified'
BY NextSteps DEF Steps, StateThread, RewardThread, AgentConsumer, FetchBrokerTask, Raises, RetryOrGiveUp,
       TaskBroker, AnnounceSent, Chooses, RunJob, ReceiveTask, EndTask, Consume, TakeCreation,
       GetState, SaveTrajectory, AddNextState, SetPrevious, ComputeReward, UpdateTrajectoryReward,
       CheckTrajectoryReward, AreAllTaskExecuted, ObserveReward, SaveHistory, NotifyIfComplete

(* The two threads that complete trajectories check before they go on.                           *)
LEMMA CheckedStep ==
  ASSUME TypeOK, [Next]_vars
  PROVE  /\ stateThread.at = "check" /\ previous \in Tasks /\ IsComplete(store[previous]) =>
              previous \in notified' \/ UNCHANGED <<stateThread, previous>>
         /\ rewardThread.at = "check" /\ IsComplete(store[rewardThread.task]) =>
              rewardThread.task \in notified' \/ UNCHANGED rewardThread
<1>1. ASSUME stateThread.at = "check", previous \in Tasks, IsComplete(store[previous])
      PROVE  previous \in notified' \/ UNCHANGED <<stateThread, previous>>
  <2>1. CASE SetPrevious
    <3>1. NotifyIfComplete(previous)
      BY <1>1, <2>1 DEF SetPrevious, HasPrevious, Tasks
    <3> QED BY <1>1, <3>1 DEF NotifyIfComplete
  <2>2. CASE ~StateThread
    BY <2>2, StateThreadFrame
  <2>3. ~TakeCreation /\ ~GetState /\ ~SaveTrajectory /\ ~AddNextState
    BY <1>1 DEF TakeCreation, GetState, SaveTrajectory, AddNextState
  <2> QED BY <2>1, <2>2, <2>3 DEF StateThread
<1>2. ASSUME rewardThread.at = "check", IsComplete(store[rewardThread.task])
      PROVE  rewardThread.task \in notified' \/ UNCHANGED rewardThread
  <2>1. CASE CheckTrajectoryReward
    BY <1>2, <2>1 DEF CheckTrajectoryReward, NotifyIfComplete
  <2>2. CASE ~RewardThread
    BY <2>2, RewardThreadFrame
  <2>3. ~ComputeReward /\ ~UpdateTrajectoryReward /\ ~AreAllTaskExecuted
    BY <1>2 DEF ComputeReward, UpdateTrajectoryReward, AreAllTaskExecuted
  <2> QED BY <2>1, <2>2, <2>3 DEF RewardThread
<1> QED BY <1>1, <1>2

(* The step that completes a trajectory.                                                         *)
LEMMA CompletedBy ==
  ASSUME TypeOK, Chain, Quiet, SlowTasks, [Next]_vars, NEW k \in Tasks,
         ~IsComplete(store[k]), IsComplete(store'[k])
  PROVE  \/ stateThread'.at = "check" /\ k = previous'
         \/ rewardThread'.at = "check" /\ k = rewardThread'.task
<1>1. ASSUME NEW job \in jobs, RunJob(job), job.type = "action" PROVE FALSE
  <2>1. store' = [store EXCEPT ![job.task].action = job.action] /\ store \in [Tasks -> [state : Nat, action : MaybeAction, next : Nat, reward : MaybeWorker]]
    BY <1>1 DEF RunJob, TypeOK, StoreTypeOK
  <2>2. job.task = k
    BY <2>1
  <2>3. store[k].reward # NoWorker
    BY <2>1 DEF IsComplete
  <2> QED BY <2>2, <2>3 DEF Quiet, Over
<1>2. ~SaveTrajectory
  <2> SUFFICES ASSUME SaveTrajectory PROVE FALSE
    OBVIOUS
  <2>1. k = stateThread.task
    BY SavedTrajectory
  <2>2. store'[k].next = store[k].next /\ store[k].state # 0 => store'[k] = store[k]
    BY <2>1 DEF SaveTrajectory, TypeOK, StoreTypeOK
  <2>3. store[k].state = 0 => store[k].next = 0
    BY DEF Chain
  <2>4. store'[k].next = store[k].next
    BY <2>1, SavedTrajectory
  <2> QED BY <2>2, <2>3, <2>4 DEF IsComplete
<1>3. CASE AddNextState /\ HasPrevious
  <2>1. k = previous
    BY <1>3 DEF AddNextState, TypeOK, StoreTypeOK
  <2>2. stateThread'.at = "check" /\ previous' = previous
    BY <1>3 DEF AddNextState, TypeOK, BuilderTypeOK
  <2> QED BY <2>1, <2>2
<1>4. CASE UpdateTrajectoryReward
  <2>1. k = rewardThread.task
    BY <1>4 DEF UpdateTrajectoryReward, TypeOK, StoreTypeOK
  <2> QED BY <1>4, <2>1, RewardWritten
<1> QED BY <1>1, <1>2, <1>3, <1>4, StoreStep

LEMMA AnnouncingStep ==
  ASSUME TypeOK, Chain, Quiet, Announcing, [Next]_vars
  PROVE  Announcing'
<1> SUFFICES ASSUME SlowTasks, NEW k \in Tasks, IsComplete(store'[k])
             PROVE  \/ k \in notified'
                    \/ stateThread'.at = "check" /\ k = previous'
                    \/ rewardThread'.at = "check" /\ k = rewardThread'.task
  BY DEF Announcing
<1>1. CASE IsComplete(store[k])
  <2>1. \/ k \in notified
        \/ stateThread.at = "check" /\ k = previous
        \/ rewardThread.at = "check" /\ k = rewardThread.task
    BY <1>1 DEF Announcing
  <2> QED BY <1>1, <2>1, NotifiedGrows, CheckedStep
<1>2. CASE ~IsComplete(store[k])
  BY <1>2, CompletedBy
<1> QED BY <1>1, <1>2

(* The announcements in the inbox of the agent.                                                  *)
LEMMA NotifyInbox ==
  ASSUME TypeOK, NEW k \in Tasks, NotifyIfComplete(k)
  PROVE  /\ TasksIn(agentInbox, Completed) \subseteq TasksIn(agentInbox', Completed)
         /\ notified' \subseteq notified \union TasksIn(agentInbox', Completed)
<1>1. CASE IsComplete(store[k]) /\ k \notin notified
  <2> DEFINE e == Event("completed", k, NoWorker)
  <2>1. notified' = notified \union {k} /\ agentInbox' = Append(agentInbox, e)
    BY <1>1 DEF NotifyIfComplete
  <2>2. e \in Inbox /\ e \in Completed /\ e.task = k /\ agentInbox \in Seq(Inbox)
    BY DEF Event, Inbox, Completed, TypeOK, AgentTypeOK
  <2> HIDE DEF e
  <2>3. TasksIn(agentInbox', Completed) = TasksIn(agentInbox, Completed) \union {k}
    BY <2>1, <2>2, AppendTasks
  <2> QED BY <2>1, <2>3
<1>2. CASE ~(IsComplete(store[k]) /\ k \notin notified)
  BY <1>2 DEF NotifyIfComplete
<1> QED BY <1>1, <1>2

LEMMA InboxStep ==
  ASSUME TypeOK, Notices, [Next]_vars
  PROVE  /\ notified' \subseteq notified \union TasksIn(agentInbox', Completed)
         /\ \A k \in TasksIn(agentInbox, Completed) :
              k \in TasksIn(agentInbox', Completed) \/ (ObserveReward /\ k = Head(agentInbox).task)
<1>0. agentInbox \in Seq(Inbox) /\ OnceIn(agentInbox, Completed)
  BY DEF Inbox, Completed, TypeOK, AgentTypeOK, Notices
<1>1. CASE SetPrevious
  <2>1. CASE HasPrevious
    <3>1. previous \in Tasks /\ NotifyIfComplete(previous)
      BY <1>1, <2>1 DEF SetPrevious, HasPrevious, TypeOK, BuilderTypeOK
    <3> QED BY <3>1, NotifyInbox
  <2>2. CASE ~HasPrevious
    BY <1>1, <2>2 DEF SetPrevious
  <2> QED BY <2>1, <2>2
<1>2. CASE CheckTrajectoryReward
  <2>1. rewardThread.task \in Tasks /\ NotifyIfComplete(rewardThread.task)
    BY <1>2, RewardThreadType DEF CheckTrajectoryReward, TypeOK
  <2> QED BY <2>1, NotifyInbox
<1>3. CASE AreAllTaskExecuted /\ AllExecuted
  <2> DEFINE e == Event("executed", NoTask, NoWorker)
  <2>1. agentInbox' = Append(agentInbox, e) /\ UNCHANGED notified /\ e \in Inbox /\ e \notin Completed
    BY <1>3 DEF AreAllTaskExecuted, Event, Inbox, Completed
  <2> HIDE DEF e
  <2>2. TasksIn(agentInbox', Completed) = TasksIn(agentInbox, Completed)
    BY <1>0, <2>1, AppendTasks
  <2> QED BY <2>1, <2>2
<1>4. CASE ObserveReward \/ SaveHistory
  <2>1. agentInbox # <<>> /\ agentInbox' = Tail(agentInbox) /\ UNCHANGED notified
    BY <1>4 DEF ObserveReward, SaveHistory
  <2>2. Head(agentInbox) \in Completed => ObserveReward
    BY <1>4 DEF SaveHistory, Completed
  <2>3. \/ TasksIn(agentInbox', Completed) = TasksIn(agentInbox, Completed)
        \/ Head(agentInbox) \in Completed
           /\ TasksIn(agentInbox', Completed) = TasksIn(agentInbox, Completed) \ {Head(agentInbox).task}
    BY <1>0, <2>1, TailTasks
  <2> QED BY <2>1, <2>2, <2>3
<1>5. CASE UNCHANGED <<notified, agentInbox>>
  BY <1>5
<1>6. \/ UNCHANGED <<notified, agentInbox>> \/ SetPrevious \/ CheckTrajectoryReward
      \/ (AreAllTaskExecuted /\ AllExecuted) \/ ObserveReward \/ SaveHistory
  BY NextSteps DEF Steps, StateThread, RewardThread, AgentConsumer, FetchBrokerTask, Raises, RetryOrGiveUp,
         TaskBroker, AnnounceSent, Chooses, RunJob, ReceiveTask, EndTask, Consume, TakeCreation,
         GetState, SaveTrajectory, AddNextState, ComputeReward, UpdateTrajectoryReward, AreAllTaskExecuted
<1> QED BY <1>1, <1>2, <1>3, <1>4, <1>5, <1>6

(* What a slow task leaves behind once its trajectory is complete: no job, and everything the    *)
(* jobs write.                                                                                   *)
LEMMA RewardedIsDone ==
  ASSUME TypeOK, Quiet, JobsLeft, SlowTasks, NEW k \in Tasks, store[k].reward # NoWorker
  PROVE  (\A job \in jobs : job.task # k) /\ \A type \in JobTypes : Done(type, k)
<1>1. Over(k) /\ store[k].reward \in Workers
  BY DEF Over, TypeOK, StoreTypeOK
<1>2. \A job \in jobs : job.task # k
  BY <1>1 DEF Quiet
<1>3. Chosen(k)
  BY <1>1 DEF Chosen, Names, InStore
<1>4. \A type \in JobTypes : ~HasJob(type, k)
  BY <1>2 DEF HasJob, Job
<1> QED BY <1>2, <1>3, <1>4 DEF JobsLeft

LEMMA RewardingStep ==
  ASSUME TypeOK, Quiet, JobsLeft, Notices, Rewarding, [Next]_vars
  PROVE  Rewarding'
<1>1. ASSUME SlowTasks, NEW k \in notified'
      PROVE  k \in TasksIn(agentInbox', Completed) \/ entries'[k] = "rewarded"
  <2>1. CASE k \notin notified
    BY <2>1, InboxStep
  <2>2. CASE k \in notified /\ k \in TasksIn(agentInbox, Completed)
    <3>1. CASE ObserveReward /\ k = Head(agentInbox).task
      <4>1. k \in Tasks /\ store[k].reward # NoWorker
        BY <2>2 DEF Notices, IsComplete, TypeOK, BuilderTypeOK
      <4>2. k \in records /\ entries[k] # "none"
        BY <1>1, <4>1, RewardedIsDone DEF Done, JobTypes
      <4> QED BY <3>1, <4>1, <4>2 DEF ObserveReward, TypeOK, AgentTypeOK
    <3> QED BY <2>2, <3>1, InboxStep
  <2>3. CASE k \in notified /\ entries[k] = "rewarded"
    <3>1. k \in Tasks /\ store[k].reward # NoWorker
      BY <2>3 DEF Notices, IsComplete, TypeOK, BuilderTypeOK
    <3>2. ASSUME NEW job \in jobs, RunJob(job) PROVE entries'[k] = entries[k]
      <4>1. job.task # k
        BY <1>1, <3>1, RewardedIsDone
      <4> QED BY <3>1, <3>2, <4>1 DEF RunJob, TypeOK, AgentTypeOK
    <3>3. CASE ObserveReward
      BY <2>3, <3>1, <3>3 DEF ObserveReward, TypeOK, AgentTypeOK
    <3>4. UNCHANGED entries \/ ObserveReward \/ \E job \in jobs : RunJob(job)
      BY NextSteps DEF Steps, StateThread, RewardThread, AgentConsumer, FetchBrokerTask, Raises, RetryOrGiveUp,
             TaskBroker, AnnounceSent, Chooses, ReceiveTask, EndTask, Consume, TakeCreation,
             GetState, SaveTrajectory, AddNextState, SetPrevious, ComputeReward, UpdateTrajectoryReward,
             CheckTrajectoryReward, AreAllTaskExecuted, SaveHistory
    <3> QED BY <2>3, <3>2, <3>3, <3>4
  <2> QED BY <1>1, <2>1, <2>2, <2>3 DEF Rewarding
<1>2. ASSUME NEW k \in notified', k \in TasksIn(agentInbox', Completed)
      PROVE  k \in TasksIn(agentInbox, Completed)'
  BY <1>2 DEF TasksIn, Completed
<1> QED BY <1>1, <1>2 DEF Rewarding

(* At the end of the execution both threads of the builder are through.                          *)
LEMMA AtTheEnd ==
  ASSUME TypeOK, Wires, Heard, Counted, EndOnce, Chain, Passed, Announcing, OnTime, completions = 1
  PROVE  /\ stateThread.at = "idle" /\ rewardThread = Idle
         /\ \A k \in Tasks : Past(k) /\ store[k].state # 0 /\ (IsComplete(store[k]) => k \in notified)
<1>1. \A k \in Tasks : Past(k)
  BY NothingInFlight, BeforeEndStops DEF Past, InFlight
<1>2. stateThread.at = "idle" /\ \A k \in Tasks : store[k].state # 0
  BY <1>1 DEF Passed, Chain
<1>3. rewardThread = Idle
  BY DEF EndOnce
<1> QED BY <1>1, <1>2, <1>3 DEF Announcing, OnTime

LEMMA LastWordStep ==
  ASSUME TypeOK, Wires, Heard, Counted, EndOnce, EndOnce', Chain, Passed, Announcing, Rewarding,
         LastWord, [Next]_vars
  PROVE  LastWord'
<1> SUFFICES ASSUME OnTime'
             PROVE  /\ \A i \in DOMAIN agentInbox' : agentInbox'[i].type = "executed" =>
                         i = Len(agentInbox') /\ completions' = 1 /\ ~history'.saved
                    /\ history'.saved => /\ completions' = 1 /\ agentInbox' = <<>>
                                         /\ notified' \subseteq history'.rewards
  BY DEF LastWord
<1>0. OnTime /\ SlowTasks /\ agentInbox \in Seq(Inbox) /\ completions \in {0, 1}
  BY OnTimeBefore DEF OnTime, Inbox, Completed, TypeOK, AgentTypeOK, BuilderTypeOK, EndOnce
<1>1. /\ \A i \in DOMAIN agentInbox : agentInbox[i].type = "executed" =>
           i = Len(agentInbox) /\ completions = 1 /\ ~history.saved
      /\ history.saved => completions = 1 /\ agentInbox = <<>> /\ notified \subseteq history.rewards
  BY <1>0 DEF LastWord
<1>2. ASSUME UNCHANGED <<completions, history>>, completions = 0, NEW e \in Inbox,
             e.type = "completed", agentInbox' = Append(agentInbox, e)
      PROVE  /\ \A i \in DOMAIN agentInbox' : agentInbox'[i].type # "executed"
             /\ ~history'.saved
  BY <1>0, <1>1, <1>2, AppendAt
<1>3. CASE SetPrevious \/ CheckTrajectoryReward
  <2>1. completions = 0
    BY <1>0, <1>3, AtTheEnd DEF SetPrevious, CheckTrajectoryReward
  <2>2. UNCHANGED <<completions, history>>
    BY <1>3 DEF SetPrevious, CheckTrajectoryReward
  <2>3. agentInbox' = agentInbox
        \/ \E k \in Tasks : agentInbox' = Append(agentInbox, Event("completed", k, NoWorker))
    BY <1>3, RewardThreadType DEF SetPrevious, CheckTrajectoryReward, NotifyIfComplete, HasPrevious, TypeOK,
                                  BuilderTypeOK
  <2>4. CASE agentInbox' = agentInbox
    BY <1>1, <2>1, <2>2, <2>4
  <2>5. ASSUME NEW k \in Tasks, agentInbox' = Append(agentInbox, Event("completed", k, NoWorker))
        PROVE  (\A i \in DOMAIN agentInbox' : agentInbox'[i].type # "executed") /\ ~history'.saved
    <3>1. Event("completed", k, NoWorker) \in Inbox /\ Event("completed", k, NoWorker).type = "completed"
      BY DEF Event, Inbox, Completed
    <3> QED BY <1>2, <2>1, <2>2, <2>5, <3>1
  <2> QED BY <2>3, <2>4, <2>5
<1>4. CASE AreAllTaskExecuted /\ AllExecuted
  <2> DEFINE e == Event("executed", NoTask, NoWorker)
  <2>1. completions' = completions + 1 /\ agentInbox' = Append(agentInbox, e) /\ UNCHANGED history
        /\ e \in Inbox
    BY <1>4 DEF AreAllTaskExecuted, Event, Inbox
  <2>2. completions = 0 /\ completions' = 1
    BY <1>0, <2>1 DEF EndOnce
  <2> HIDE DEF e
  <2>3. DOMAIN agentInbox' = 1..Len(agentInbox)+1 /\ Len(agentInbox') = Len(agentInbox) + 1
        /\ \A i \in DOMAIN agentInbox : agentInbox'[i] = agentInbox[i]
        /\ DOMAIN agentInbox = 1..Len(agentInbox) /\ Len(agentInbox) \in Nat
    BY <1>0, <2>1, AppendAt
  <2>4. \A i \in DOMAIN agentInbox : agentInbox[i].type # "executed"
    BY <1>1, <2>2
  <2>5. \A i \in DOMAIN agentInbox' : i \in DOMAIN agentInbox \/ i = Len(agentInbox')
    BY <2>3
  <2>6. ~history'.saved
    BY <1>1, <2>1, <2>2
  <2> QED BY <2>2, <2>3, <2>4, <2>5, <2>6
<1>5. CASE ObserveReward \/ SaveHistory
  <2>1. agentInbox # <<>> /\ agentInbox' = Tail(agentInbox) /\ UNCHANGED <<notified, completions>>
    BY <1>5 DEF ObserveReward, SaveHistory
  <2>2. /\ DOMAIN agentInbox' = 1..Len(agentInbox)-1 /\ DOMAIN agentInbox = 1..Len(agentInbox)
        /\ Len(agentInbox) \in Nat \ {0} /\ Len(agentInbox') = Len(agentInbox) - 1
        /\ \A i \in 1..Len(agentInbox)-1 : agentInbox'[i] = agentInbox[i+1]
        /\ Head(agentInbox) = agentInbox[1]
    BY <1>0, <2>1, TailAt
  <2>3. ~history.saved
    BY <1>1, <2>1
  <2>4. CASE ObserveReward
    <3>1. history' = history
      BY <2>4 DEF ObserveReward
    <3>2. ASSUME NEW i \in DOMAIN agentInbox', agentInbox'[i].type = "executed"
          PROVE  i = Len(agentInbox') /\ completions' = 1
      <4>1. i + 1 \in DOMAIN agentInbox /\ agentInbox[i+1].type = "executed" /\ i \in Int
        BY <2>2, <3>2
      <4>2. i + 1 = Len(agentInbox) /\ completions = 1
        BY <1>1, <4>1
      <4>3. completions' = 1
        BY <2>1, <4>2
      <4> DEFINE m == Len(agentInbox)
                 n == Len(agentInbox')
      <4>4. i + 1 = m /\ n = m - 1 /\ m \in Nat
        BY <2>2, <4>2
      <4> HIDE DEF m, n
      <4>5. i = n
        BY <4>1, <4>4
      <4> QED BY <4>3, <4>5 DEF n
    <3> QED BY <2>3, <3>1, <3>2
  <2>5. CASE SaveHistory
    <3>1. Len(agentInbox) = 1 /\ completions = 1 /\ agentInbox[1].type = "executed"
      <4>1. 1 \in DOMAIN agentInbox
        BY <2>2
      <4>2. Head(agentInbox).type = "executed"
        BY <2>5 DEF SaveHistory
      <4>3. agentInbox[1].type = "executed"
        BY <2>2, <4>2
      <4>4. 1 = Len(agentInbox) /\ completions = 1
        BY <1>1, <4>1, <4>3
      <4> QED BY <4>3, <4>4
    <3>2. agentInbox' = <<>>
      BY <1>0, <2>1, <3>1
    <3>3. TasksIn(agentInbox, Completed) = {}
      BY <2>2, <3>1 DEF TasksIn, Completed
    <3>4. notified \subseteq Tasks /\ \A k \in notified : entries[k] = "rewarded"
      BY <1>0, <3>3 DEF Rewarding, TypeOK, BuilderTypeOK
    <3>5. history'.rewards = {k \in Tasks : entries[k] = "rewarded"}
      BY <2>5 DEF SaveHistory
    <3> QED BY <2>1, <3>1, <3>2, <3>4, <3>5
  <2> QED BY <1>5, <2>4, <2>5
<1>6. CASE UNCHANGED <<notified, agentInbox, completions, history>>
  BY <1>1, <1>6
<1>7. \/ UNCHANGED <<notified, agentInbox, completions, history>> \/ SetPrevious \/ CheckTrajectoryReward
      \/ (AreAllTaskExecuted /\ AllExecuted) \/ ObserveReward \/ SaveHistory
  BY NextSteps DEF Steps, StateThread, RewardThread, AgentConsumer, FetchBrokerTask, Raises, RetryOrGiveUp,
         TaskBroker, AnnounceSent, Chooses, RunJob, ReceiveTask, EndTask, Consume, TakeCreation,
         GetState, SaveTrajectory, AddNextState, ComputeReward, UpdateTrajectoryReward, AreAllTaskExecuted
<1> QED BY <1>3, <1>4, <1>5, <1>6, <1>7

LEMMA HistorySaved ==
  ASSUME TypeOK, Wires, Heard, Counted, EndOnce, Chain, Quiet, JobsLeft, Passed, Linked, Announcing,
         LastWord, SlowTasks
  PROVE  HistoryIsComplete
<1> SUFFICES ASSUME history.saved, failures = 0, NeedState, NEW k \in Tasks,
                    store[k].reward # NoWorker, k # previous
             PROVE  k \in history.rewards
  BY DEF HistoryIsComplete
<1>1. OnTime
  BY DEF OnTime
<1>2. completions = 1 /\ notified \subseteq history.rewards
  BY <1>1 DEF LastWord
<1>3. stateThread.at = "idle" /\ store[k].state # 0 /\ (IsComplete(store[k]) => k \in notified)
  BY <1>1, <1>2, AtTheEnd
<1>4. store[k].next # 0
  BY <1>3 DEF Linked
<1>5. store[k].action # NoAction
  BY RewardedIsDone DEF Done, JobTypes
<1> QED BY <1>2, <1>3, <1>4, <1>5 DEF IsComplete

-----------------------------------------------------------------------------
(* The invariant of the task path, and what follows from it.                                     *)
Rests == broker.at = "idle" => broker = Idle

LEMMA RestsStep == ASSUME Rests, [Next]_vars PROVE Rests'
<1>1. CASE \E w \in Workers : Chooses(w)
  BY <1>1, WorkersAre DEF Chooses, Rests
<1>2. CASE TaskBroker \/ AnnounceSent \/ Raises
  BY <1>2 DEF TaskBroker, AnnounceSent, Raises, RetryOrGiveUp, Rests
<1>3. CASE UNCHANGED broker
  BY <1>3 DEF Rests
<1>4. (\E w \in Workers : Chooses(w)) \/ TaskBroker \/ AnnounceSent \/ Raises \/ UNCHANGED broker
  BY NextSteps DEF Steps, StateThread, RewardThread, AgentConsumer, FetchBrokerTask, RunJob, ReceiveTask,
         EndTask, Consume, TakeCreation, GetState, SaveTrajectory, AddNextState, SetPrevious,
         ComputeReward, UpdateTrajectoryReward, CheckTrajectoryReward, AreAllTaskExecuted,
         ObserveReward, SaveHistory
<1> QED BY <1>1, <1>2, <1>3, <1>4

(* The parts of the invariant: where tasks are; rewards and the end of the execution; what the   *)
(* agent decides and learns; the states of trajectories; the load; the history.                  *)
TasksInv == TypeOK /\ Wires /\ NoRepeats /\ Apart
RewardsInv == Heard /\ Counted /\ RewardOnce /\ EndOnce
AgentInv == OneWorker /\ JobsLeft /\ Quiet /\ Available /\ Notices
StatesInv == Reading /\ Chain /\ Straight
LoadInv == Rests /\ Sending /\ LoadAccounts
HistoryInv == Created /\ Passed /\ Linked /\ Announcing /\ Rewarding /\ LastWord
IInv == TasksInv /\ RewardsInv /\ AgentInv /\ StatesInv /\ LoadInv /\ HistoryInv

LEMMA InitPlaces ==
  ASSUME Init
  PROVE  /\ Places[At("queued")] = Tasks
         /\ \A p \in Stops : p # At("queued") => Places[p] = {}
         /\ InFlight = Tasks
<1>1. Range(brokerQueue) = Tasks
  BY DEF Init, Range
<1>2. /\ Range(fetched) = {} /\ broker.at = "idle" /\ gaveUp = {} /\ TasksIn(rewardQueue, Results) = {}
      /\ \A w \in Workers : /\ Range(workerQueue[w]) = {} /\ Range(accepted[w]) = {}
                            /\ TasksIn(wire[w], EndEvents) = {}
  BY DEF Init, Range, TasksIn
<1>3. \A p \in Stops : p # At("queued") => Places[p] = {}
  <2> TAKE p \in Stops
  <2>1. CASE p \in {At("fetched"), At("asked"), At("gaveUp"), At("rewarding")}
    BY <1>2, <2>1, PlacesAre
  <2>2. CASE \E w \in Workers : p \in {<<"sent", w>>, <<"accepted", w>>, <<"ended", w>>}
    BY <1>2, <2>2, PlacesAre
  <2> QED BY <2>1, <2>2, StopCases
<1>4. Places[At("queued")] = Tasks /\ At("queued") \in Stops
  BY <1>1, PlacesAre, StopCases
<1> QED BY <1>3, <1>4 DEF InFlight

LEMMA InitTasksInv == ASSUME Init PROVE TasksInv
<1>1. TypeOK
  BY InitType
<1>2. Wires
  BY DEF Init, Wires
<1>3. NoRepeats
  BY DEF Init, NoRepeats, IsInjective, OnceIn
<1>4. Apart
  BY InitPlaces DEF Apart
<1> QED BY <1>1, <1>2, <1>3, <1>4 DEF TasksInv

LEMMA InitRewardsInv == ASSUME Init PROVE RewardsInv
<1>1. Heard
  BY DEF Init, Heard, Told, Noticed, TasksIn, Range
<1>2. Counted
  <2>1. Cardinality(Tasks) = NumTasks
    <3>1. 1 \in Int /\ NumTasks \in Int /\ ~(1 > NumTasks) /\ NumTasks - 1 + 1 = NumTasks
      BY TaskPathAssumption
    <3>2. Cardinality(1..NumTasks) = NumTasks - 1 + 1
      BY <3>1, FS_Interval
    <3> QED BY <3>1, <3>2 DEF Tasks
  <2>2. InFlight = Tasks /\ taskCompleted = 0 /\ NumTasks \in Nat
    BY InitPlaces, TaskPathAssumption DEF Init
  <2> QED BY <2>1, <2>2 DEF Counted
<1>3. RewardOnce
  BY InitPlaces DEF Init, RewardOnce, Missing
<1>4. EndOnce
  BY DEF Init, EndOnce
<1> QED BY <1>1, <1>2, <1>3, <1>4 DEF RewardsInv

LEMMA InitNames == ASSUME Init, NEW k \in Tasks, NEW w \in Workers PROVE ~Names(k, w)
<1>1. ~InJobs(k, w) /\ ~InBroker(k, w)
  BY WorkersAre DEF Init, Idle, InJobs, InBroker
<1>2. ~InWorker(k, w) /\ ~InEvents(k, w) /\ ~InRewards(k, w)
  BY DEF Init, InWorker, InEvents, InRewards, Range
<1>3. ~InStore(k, w)
  <2>1. store[k].action = NoAction /\ store[k].reward = NoWorker
    BY DEF Init, Missing
  <2> QED BY <2>1, ActionsAre, WorkersAre DEF InStore, StandsFor, NoWorker
<1> QED BY <1>1, <1>2, <1>3 DEF Names

LEMMA InitAgentInv == ASSUME Init PROVE AgentInv
<1>1. \A k \in Tasks : \A w \in Workers : ~Names(k, w)
  BY InitNames
<1>2. Unsent \subseteq Tasks
  BY InitPlaces, StopCases DEF Unsent, UnsentStops
<1>3. OneWorker /\ JobsLeft
  BY <1>1, <1>2 DEF OneWorker, JobsLeft, Chosen
<1>4. Quiet
  BY DEF Init, Quiet
<1>5. Notices
  BY DEF Init, Notices, OnceIn, TasksIn
<1>6. Available
  BY <1>1 DEF Init, Available, Chosen
<1> QED BY <1>3, <1>4, <1>5, <1>6 DEF AgentInv

LEMMA InitStatesInv == ASSUME Init PROVE StatesInv
<1>1. Reading /\ Chain
  BY DEF Init, Reading, Chain, Missing
<1>2. Uncreated
  BY DEF Init, Uncreated, Announced, InHand, OnceIn, TasksIn, IsInjective, Range, Missing
<1>3. NextIsNext
  BY DEF Init, NextIsNext, Missing
<1> QED BY <1>1, <1>2, <1>3 DEF StatesInv, Straight

LEMMA InitLoadInv == ASSUME Init PROVE LoadInv
<1>1. Rests
  BY DEF Init, Rests
<1>2. Sending
  BY WorkersAre DEF Init, Sending, OnceIn, TasksIn, Unannounced
<1>3. ASSUME NEW w \in Workers PROVE Balanced(w)
  <2>1. wire["child"] = <<>> /\ wire[w] = <<>> /\ workerQueue[w] = <<>> /\ accepted[w] = <<>>
        /\ load[w] = 0 /\ utilization[w] = 0 /\ broker.at # w
    BY WorkersAre DEF Init
  <2>2. Sent(w) = 0 /\ Ended(w) = 0
    <3>1. /\ {i \in DOMAIN wire["child"] : wire["child"][i].worker = QueueName(w)} = {}
          /\ {i \in DOMAIN wire[w] : wire[w][i].type # "received"} = {}
      BY <2>1
    <3> QED BY <3>1, FS_EmptySet DEF Sent, Ended
  <2>3. Asking(w) = 0 /\ Len(workerQueue[w]) = 0 /\ Len(accepted[w]) = 0
    BY <2>1 DEF Asking
  <2> QED BY <2>1, <2>2, <2>3 DEF Balanced
<1> QED BY <1>1, <1>2, <1>3, LoadIsBalance DEF LoadInv

LEMMA InitHistoryInv == ASSUME Init PROVE HistoryInv
<1>1. \A k \in Tasks : ~Chosen(k)
  BY InitNames DEF Chosen
<1>2. \A k \in Tasks : ~Past(k)
  BY InitPlaces DEF Past, BeforeEnd
<1>3. Created /\ Passed
  BY <1>1, <1>2 DEF Created, Passed
<1>4. Linked /\ Announcing
  BY DEF Init, Linked, Announcing, IsComplete, Missing
<1>5. Rewarding /\ LastWord
  BY DEF Init, Rewarding, LastWord
<1> QED BY <1>3, <1>4, <1>5 DEF HistoryInv

LEMMA InitInv == Init => IInv
BY InitTasksInv, InitRewardsInv, InitAgentInv, InitStatesInv, InitLoadInv, InitHistoryInv DEF IInv

LEMMA NextInv == IInv /\ [Next]_vars => IInv'
<1> SUFFICES ASSUME IInv, [Next]_vars PROVE IInv'
  OBVIOUS
<1> USE DEF IInv, TasksInv, RewardsInv, AgentInv, StatesInv, LoadInv, HistoryInv
<1>1. TypeOK'
  BY NextType
<1>2. Wires' /\ NoRepeats' /\ Apart'
  BY WiresStep, PlacesStep
<1>3. Heard' /\ Counted' /\ RewardOnce' /\ EndOnce'
  BY HeardStep, CountedStep, RewardOnceStep, EndOnceStep
<1>4. OneWorker' /\ JobsLeft' /\ Quiet' /\ Available' /\ Notices'
  BY OneWorkerStep, JobsLeftStep, QuietStep, AvailableStep, NoticesStep
<1>5. Reading' /\ Chain' /\ Straight'
  BY ReadingStep, ChainStep, StraightStep
<1>6. Rests' /\ Sending' /\ LoadAccounts'
  BY RestsStep, SendingStep, LoadStep
<1>7. Created' /\ Passed' /\ Linked' /\ Announcing' /\ Rewarding' /\ LastWord'
  BY <1>3, CreatedStep, PassedStep, LinkedStep, AnnouncingStep, RewardingStep, LastWordStep
<1> QED BY <1>1, <1>2, <1>3, <1>4, <1>5, <1>6, <1>7

(* The invariant holds in every reachable state.                                                 *)
THEOREM TasksInvariant == Spec => []IInv
BY InitInv, NextInv, PTL DEF Spec

(* The reward thread announces the end of the execution (are_all_task_executed) at most once, and *)
(* then no task was given up by celery, and none is queued, executed or waiting for its reward,  *)
(* however often celery retried the broker's tasks.                                              *)
THEOREM ExecutionEndsOnce == Spec => []NothingLeftToExecute
<1>1. IInv => NothingLeftToExecute
  <2> SUFFICES ASSUME IInv PROVE NothingLeftToExecute
    OBVIOUS
  <2>1. TypeOK /\ Wires /\ Heard /\ Counted /\ EndOnce /\ Rests /\ Sending
    BY DEF IInv, TasksInv, RewardsInv, LoadInv
  <2>2. completions <= 1
    BY <2>1 DEF EndOnce
  <2>3. ASSUME completions = 1, SlowTasks PROVE broker = Idle
    <3>1. broker.at # "request" /\ \A w \in Workers : workerQueue[w] = <<>> /\ accepted[w] = <<>>
      BY <2>1, <2>3, NothingInFlight
    <3>2. \A w \in Workers : Pending(w) = {}
      BY <3>1 DEF Pending, Range
    <3>3. broker.at \notin Workers
      BY <2>1, <2>3, <3>2 DEF Sending, Unannounced
    <3> QED BY <2>1, <3>1, <3>3 DEF Rests, TypeOK, BrokerTypeOK
  <2> QED BY <2>1, <2>2, <2>3, NothingInFlight DEF NothingLeftToExecute
<1> QED BY <1>1, TasksInvariant, PTL

(* The load the celery consumer keeps of each class of workers is the number of tasks in its     *)
(* queue and in its worker, corrected by the events under way; if no task ends before its send   *)
(* was seen, the utilization, which is cut off at zero, is the same number.                       *)
THEOREM LoadIsAccounted == Spec => []LoadAccounts
<1>1. IInv => LoadAccounts
  BY DEF IInv, LoadInv
<1> QED BY <1>1, TasksInvariant, PTL

(* The reward stored in a complete trajectory was computed for the class of workers the agent's  *)
(* action stands for in the broker: the class of the action's label, or the one at its index if  *)
(* the broker does not know the label.  The one comes from the host name in a celery event, the  *)
(* other is an index written by the agent's pool; an action that stands for no class, which the  *)
(* retry of the broker's task replaces, is not in a complete trajectory if tasks are slow.       *)
THEOREM RewardMatchesAction == Spec => []RewardOfTheAction
<1>1. IInv => RewardOfTheAction
  BY RewardFollows DEF IInv, TasksInv, AgentInv
<1> QED BY <1>1, TasksInvariant, PTL

(* If a task takes longer than the jobs the agent's thread pool makes for it, the agent finds    *)
(* the validation record of whatever it learns from; observe_reward raises without one.          *)
THEOREM RecordBeforeLearning == Spec => [](SlowTasks => LearnedHasRecord)
<1>1. IInv => (SlowTasks => LearnedHasRecord)
  BY LearnedRecorded DEF IInv, TasksInv, AgentInv
<1> QED BY <1>1, TasksInvariant, PTL

(* The next state of a trajectory is read after its own, and without a retry it is the reading   *)
(* right after: the trajectory builder links each trajectory to the one created next.            *)
THEOREM StatesInOrder == Spec => []ChainInOrder
<1>1. IInv => ChainInOrder
  BY ChainOrdered DEF IInv, TasksInv, StatesInv
<1> QED BY <1>1, TasksInvariant, PTL

(* If a task takes longer than the threads that prepare it, the agent saves a history that has   *)
(* the reward of every rewarded trajectory but the last created, when no broker task was retried  *)
(* and the agent decides on the state.                                                           *)
THEOREM HistorySavedComplete == Spec => [](SlowTasks => HistoryIsComplete)
<1>1. IInv => (SlowTasks => HistoryIsComplete)
  BY HistorySaved DEF IInv, TasksInv, RewardsInv, AgentInv, StatesInv, HistoryInv
<1> QED BY <1>1, TasksInvariant, PTL

(* The task path implements the life of trajectories: whatever the seven threads do, parts are   *)
(* stored and never taken back, a completion is announced once and only of a complete            *)
(* trajectory, and the agent learns from it once and only then.                                  *)
THEOREM TrajectoriesLive == Spec => ImplementsLife
<1>1. IInv /\ IInv' /\ [Next]_vars => [Life!Next]_(Life!vars)
  BY LifeStep DEF IInv, TasksInv, RewardsInv, AgentInv, StatesInv
<1> QED BY <1>1, LifeInit, TasksInvariant, PTL DEF Spec, ImplementsLife, Life!Spec

(* The agent observes a trajectory at most once, although it keeps no record of what it has      *)
(* observed, and reads a complete one: what TrajectoryLife says of any trajectories holds of      *)
(* those of the task path, which implements it.                                                  *)
THEOREM LearnedOnce == Spec => []Life!LearnedOnceAndComplete
<1>1. LifeInv => Life!LearnedOnceAndComplete
  <2> SUFFICES ASSUME LifeInv PROVE Life!LearnedOnceAndComplete
    OBVIOUS
  <2>1. learned \in [Tasks -> Nat]
    BY DEF LifeInv, Life!TypeOK
  <2>2. \A k \in Tasks : learned[k] <= 1 /\ (learned[k] = 1 => StoredParts(store[k]) = LifeParts)
    BY <2>1 DEF LifeInv
  <2> QED BY <2>2 DEF Life!LearnedOnceAndComplete, LifeParts
<1>2. Life!Spec => []LifeInv
  BY LifeInitInv, LifeNextInv, PTL DEF Life!Spec
<1> QED BY <1>1, <1>2, TrajectoriesLive, PTL DEF ImplementsLife

=============================================================================
