--------------------------- MODULE LearningProofs ---------------------------
(***************************************************************************)
(* That the agent keeps up: theorems about Learning, for any number of     *)
(* actions and tasks, any configurations and any order of the rewards.     *)
(*                                                                         *)
(* What each part of LearningKeepsUp needs:                                *)
(*   LRU       the table of an agent says where in the run an action was   *)
(*             taken last (InTurn).  An action is taken again only when    *)
(*             all others have been taken since, or else more actions      *)
(*             would have smaller numbers than there are such numbers      *)
(*   LinUCB    an action has attempts when it was chosen (Attempted)       *)
(*   target    the optimisation steps since the last update of the target  *)
(*             network are fewer than the rewards since then (Behind)      *)
(*   replay    is inductive as it stands                                   *)
(* A record is written once, by the one job there is of its task (Jobs).   *)
(*                                                                         *)
(* And that the validation at the end of a run is right.  Records and      *)
(* checkpoints are those of the steps of the run, whoever is late          *)
(* (Numbered); so at the end the records are in the order of the tasks     *)
(* (EntriesAre), and each turn of the loop over them keeps what has been   *)
(* put together so far the sums of the intervals (TurnBuilt).              *)
(***************************************************************************)
EXTENDS Learning, Sums, SequenceTheorems

Choice == [action : Actions, how : Reasons]

Types ==
  /\ config \in Configs
  /\ t \in Nat /\ nObs \in Nat /\ weights \in Nat /\ target \in Nat
  /\ attempts \in [Actions -> Nat] /\ table \in [Actions -> Nat]
  /\ choices \in Seq(Choice) /\ Len(choices) <= NumTasks
  /\ replay \in Seq(Tasks) /\ observed \in Seq(Tasks)
  /\ Range(replay) \subseteq Range(observed) /\ Range(observed) \subseteq DOMAIN choices
  /\ lesson \in [chooser : Nat, evaluator : Nat]
  /\ records \in [Tasks -> [step : Nat, reward : Int]]

RecordJob(k) == \E job \in pool : job.type = "record" /\ job.task = k

(* A choice has one job that writes its record, until it is written. *)
Jobs ==
  /\ pool \subseteq [type : {"record", "checkpoint"}, task : Nat, step : Nat \ {0}]
  /\ \A job \in pool :
       /\ job.type = "record" => job.task \in DOMAIN choices
       /\ job.type = "checkpoint" => job.step % config.frequency = 0
       /\ \A other \in pool :
            job.type = "record" /\ other.type = "record" /\ job.task = other.task => job = other
  /\ \A k \in Tasks :
       /\ records[k].step = 0 => records[k] = NoRecord
       /\ records[k] = NoRecord <=> k \notin DOMAIN choices \/ RecordJob(k)
  /\ \A c \in checkpoints : c.step % config.frequency = 0 /\ c.content.t \in 0..nObs

(* The table of LRU: how many tasks ago an action was taken. *)
LastTaken(a) ==
  /\ table[a] <= Len(choices)
  /\ table[a] < Len(choices) => choices[Len(choices) - table[a]].action = a
  /\ \A i \in DOMAIN choices : Len(choices) - table[a] < i => choices[i].action # a
InTurn == config.type = "lru" => \A a \in Actions : LastTaken(a)

Chosen(a) == \E k \in DOMAIN choices : choices[k].action = a
Attempted ==
  config.type = "lin-ucb" /\ ~Loads(config) => \A a \in Actions : attempts[a] # 0 <=> Chosen(a)

(* The rewards since the target network could last be updated. *)
Since == IF nObs % config.update = 0 THEN config.update ELSE nObs % config.update
Behind ==
  /\ target <= weights /\ weights - target < Since
  /\ config.type \notin DQNTypes \/ Len(replay) < config.batch => weights = target
  /\ lesson.evaluator <= lesson.chooser

IInv == Types /\ Jobs /\ InTurn /\ Attempted /\ Behind /\ ReplayKeepsUp /\ NoActionIsForgotten

-----------------------------------------------------------------------------
(* Numbers and sequences.                                                   *)

(* The remainder of the next number. *)
LEMMA NextRemainder ==
  ASSUME NEW n \in Nat, NEW m \in Nat \ {0}
  PROVE  /\ n % m \in 0..m-1
         /\ (n + 1) % m = IF n % m = m - 1 THEN 0 ELSE (n % m) + 1
<1> DEFINE q == n \div m
           r == n % m
           p == (n + 1) \div m
           s == (n + 1) % m
<1>1. q \in Int /\ r \in 0..m-1 /\ n = m * q + r
  OBVIOUS
<1>2. p \in Int /\ s \in 0..m-1 /\ n + 1 = m * p + s
  OBVIOUS
<1> HIDE DEF q, r, p, s
<1>3. m * p - m * q = r + 1 - s
  BY <1>1, <1>2
<1>4. m * (p - q) = r + 1 - s
  BY <1>1, <1>2, <1>3
<1>5. p = q \/ p = q + 1
  <2>1. CASE p < q
    <3>1. p - q <= -1 /\ p - q \in Int
      BY <1>1, <1>2, <2>1
    <3>2. m * (p - q) <= -m
      BY <3>1
    <3> QED BY <1>1, <1>2, <1>4, <3>2
  <2>2. CASE p > q + 1
    <3>1. p - q >= 2 /\ p - q \in Int
      BY <1>1, <1>2, <2>2
    <3>2. m * (p - q) >= m + m
      BY <3>1
    <3> QED BY <1>1, <1>2, <1>4, <3>2
  <2> QED BY <1>1, <1>2, <2>1, <2>2
<1>6. ASSUME p = q PROVE s = IF r = m - 1 THEN 0 ELSE r + 1
  <2>1. s = r + 1
    BY <1>1, <1>2, <1>3, <1>6
  <2> QED BY <1>1, <1>2, <2>1
<1>7. ASSUME p = q + 1 PROVE s = IF r = m - 1 THEN 0 ELSE r + 1
  <2>1. m * (p - q) = m
    BY <1>1, <1>2, <1>7
  <2>2. s = r + 1 - m
    BY <1>1, <1>2, <1>4, <2>1
  <2> QED BY <1>1, <1>2, <2>2
<1>8. r \in 0..m-1 /\ s = IF r = m - 1 THEN 0 ELSE r + 1
  BY <1>1, <1>5, <1>6, <1>7
<1> QED BY <1>8 DEF r, s

LEMMA SeqIs ==
  ASSUME NEW S, NEW q \in Seq(S)
  PROVE  /\ Len(q) \in Nat /\ DOMAIN q = 1..Len(q) /\ (q = <<>> <=> Len(q) = 0)
         /\ \A i \in DOMAIN q : q[i] \in S /\ q[i] \in Range(q)
         /\ Range(q) \subseteq S
<1>1. Len(q) \in Nat /\ q \in [1..Len(q) -> S] /\ DOMAIN q = 1..Len(q) /\ (q = <<>> <=> Len(q) = 0)
  BY LenProperties, EmptySeq
<1> QED BY <1>1 DEF Range

LEMMA AppendIs ==
  ASSUME NEW S, NEW q \in Seq(S), NEW x \in S
  PROVE  /\ Append(q, x) \in Seq(S) /\ Len(Append(q, x)) = Len(q) + 1
         /\ DOMAIN Append(q, x) = 1..Len(q) + 1
         /\ Append(q, x)[Len(q) + 1] = x
         /\ \A i \in 1..Len(q) : Append(q, x)[i] = q[i]
         /\ Range(Append(q, x)) = Range(q) \union {x}
<1>1. /\ Append(q, x) \in Seq(S) /\ Len(Append(q, x)) = Len(q) + 1 /\ Len(q) \in Nat
      /\ DOMAIN q = 1..Len(q) /\ DOMAIN Append(q, x) = 1..Len(q) + 1
      /\ Append(q, x)[Len(q) + 1] = x
      /\ \A i \in 1..Len(q) : Append(q, x)[i] = q[i]
  BY AppendProperties, LenProperties
<1>2. Range(Append(q, x)) = Range(q) \union {x}
  BY <1>1 DEF Range
<1> QED BY <1>1, <1>2

(* Fewer than n + 1 numbers below n. *)
LEMMA NotThatMany ==
  ASSUME NEW n \in Nat, NEW f \in [1..n + 1 -> 0..n-1]
  PROVE  \E a, b \in 1..n + 1 : a # b /\ f[a] = f[b]
<1> SUFFICES ASSUME \A a, b \in 1..n + 1 : f[a] = f[b] => a = b PROVE FALSE
  OBVIOUS
<1>1. f \in Injection(1..n + 1, 0..n-1)
  BY DEF Injection, IsInjective
<1>2. /\ IsFiniteSet(0..n-1) /\ Cardinality(0..n-1) = n
      /\ Cardinality(1..n + 1) = n + 1
  <2>1. IsFiniteSet(0..n-1) /\ Cardinality(0..n-1) = IF 0 > n - 1 THEN 0 ELSE (n - 1) - 0 + 1
    BY FS_Interval
  <2>2. Cardinality(1..n + 1) = IF 1 > n + 1 THEN 0 ELSE (n + 1) - 1 + 1
    BY FS_Interval
  <2> QED BY <2>1, <2>2
<1>3. Cardinality(1..n + 1) <= Cardinality(0..n-1)
  BY <1>1, <1>2, FS_Injection
<1> QED BY <1>2, <1>3

-----------------------------------------------------------------------------
(* The constants, and the actions an agent may take.                        *)

LEMMA ConfigIs ==
  ASSUME config \in Configs
  PROVE  /\ config.frequency \in Nat \ {0} /\ config.update \in Nat \ {0} /\ config.batch \in Nat
         /\ config.capacity \in (Nat \ {0}) \union {-1}
         /\ config.multiplier \in Int /\ config.limit \subseteq Int
BY LearningAssumption

LEMMA CheapestIs ==
  ASSUME NEW u \in [Actions -> 0..1]
  PROVE  Cheapest(u) \in Actions
<1>1. Actions = 1..NumActions /\ NumActions \in Nat \ {0}
  BY LearningAssumption DEF Actions
<1>2. PICK m \in 0..1 : (\E a \in Actions : u[a] = m) /\ \A a \in Actions : m <= u[a]
  <2>1. CASE \E a \in Actions : u[a] = 0
    BY <2>1
  <2>2. CASE \A a \in Actions : u[a] # 0
    <3>1. \A a \in Actions : u[a] = 1
      BY <2>2
    <3>2. 1 \in Actions
      BY <1>1
    <3> QED BY <3>1, <3>2
  <2> QED BY <2>1, <2>2
<1> DEFINE T == {a \in Actions : u[a] = m}
<1>3. T \in SUBSET Nat /\ T # {}
  BY <1>1, <1>2
<1>4. PICK a \in T : \A b \in T : a <= b
  BY <1>3, LeastElement
<1>5. a \in Actions /\ u[a] = m /\ \A b \in Actions : u[b] = m => a <= b
  BY <1>4
<1>6. \A b \in 1..a-1 : b \in Actions /\ ~(a <= b)
  BY <1>1, <1>5
<1>7. \A b \in 1..a-1 : u[a] < u[b]
  <2> TAKE b \in 1..a-1
  <2>1. b \in Actions /\ u[b] # m
    BY <1>5, <1>6
  <2>2. m <= u[b] /\ u[b] \in 0..1
    BY <1>2, <2>1
  <2> QED BY <1>2, <1>5, <2>1, <2>2
<1>8. (\A b \in Actions : u[a] <= u[b]) /\ (\A b \in 1..a-1 : u[a] < u[b])
  BY <1>2, <1>5, <1>7
<1>9. \E c \in Actions : (\A b \in Actions : u[c] <= u[b]) /\ (\A b \in 1..c-1 : u[c] < u[b])
  BY <1>5, <1>8
<1> QED BY <1>9 DEF Cheapest

LEMMA CandidatesAre ==
  ASSUME NEW how \in Reasons, NEW a \in Candidates(how)
  PROVE  /\ a \in Actions
         /\ config.type = "lru" => a \in LongestUnused
         /\ config.type = "lin-ucb" /\ how # "bootstrap" => a \in Untried \/ Untried = {}
<1>0. Untried \in SUBSET Nat /\ Untried \subseteq Actions /\ LongestUnused \subseteq Actions
  BY LearningAssumption DEF Untried, LongestUnused, Actions
<1>1. CASE how = "bootstrap"
  <2>1. config.type \notin {"lru", "e-pvm"} /\ a \in Actions
    BY <1>1 DEF Candidates
  <2> QED BY <1>1, <2>1
<1>2. CASE how = "unused"
  <2>1. config.type = "lru" /\ a \in LongestUnused
    BY <1>2 DEF Candidates
  <2> QED BY <1>0, <2>1
<1>3. CASE how = "cheapest"
  <2>1. config.type = "e-pvm" /\ \E u \in [Actions -> 0..1] : a = Cheapest(u)
    BY <1>3 DEF Candidates
  <2> QED BY <2>1, CheapestIs
<1>4. CASE how \notin {"bootstrap", "unused", "cheapest"}
  <2>1. a \in PolicyCandidates(how)
    BY <1>4 DEF Candidates
  <2>2. CASE how \in {"random", "explored", "greedy"}
    <3>1. config.type \notin {"lru", "lin-ucb"} /\ a \in Actions
      BY <2>1, <2>2 DEF PolicyCandidates, DQNTypes
    <3> QED BY <3>1
  <2>3. CASE how = "untried"
    <3>1. /\ config.type = "lin-ucb" /\ Untried # {}
          /\ a = CHOOSE b \in Untried : \A c \in Untried : b <= c
      BY <2>1, <2>3 DEF PolicyCandidates
    <3>2. a \in Untried
      BY <1>0, <3>1, LeastElement
    <3> QED BY <1>0, <3>1, <3>2
  <2>4. CASE how = "confident"
    <3>1. config.type = "lin-ucb" /\ Untried = {} /\ a \in Actions
      BY <2>1, <2>4 DEF PolicyCandidates
    <3> QED BY <3>1
  <2> QED BY <1>4, <2>2, <2>3, <2>4 DEF Reasons
<1> QED BY <1>1, <1>2, <1>3, <1>4

-----------------------------------------------------------------------------
(* The initial states.                                                      *)

(* One more reward. *)
LEMMA SinceIs ==
  ASSUME nObs \in Nat, config.update \in Nat \ {0}
  PROVE  /\ Since \in Nat \ {0} /\ Since <= config.update
         /\ nObs' = nObs + 1 /\ config' = config =>
              /\ nObs % config.update = 0 => Since' \in Nat \ {0}
              /\ nObs % config.update # 0 => Since' = Since + 1
<1> DEFINE n == nObs
           m == config.update
<1>1. n \in Nat /\ m \in Nat \ {0}
  OBVIOUS
<1>2. Since = IF n % m = 0 THEN m ELSE n % m
  BY DEF Since
<1>3. ASSUME nObs' = nObs + 1, config' = config
      PROVE  Since' = IF (n + 1) % m = 0 THEN m ELSE (n + 1) % m
  BY <1>3 DEF Since
<1> HIDE DEF n, m
<1>4. n % m \in 0..m-1 /\ (n + 1) % m = IF n % m = m - 1 THEN 0 ELSE (n % m) + 1
  BY <1>1, NextRemainder
<1> DEFINE r == n % m
           s == (n + 1) % m
<1>5. r \in 0..m-1 /\ s = IF r = m - 1 THEN 0 ELSE r + 1
  BY <1>4
<1>6. Since = (IF r = 0 THEN m ELSE r) /\ (nObs' = nObs + 1 /\ config' = config => Since' = IF s = 0 THEN m ELSE s)
  BY <1>2, <1>3
<1>7. nObs % config.update = r /\ config.update = m
  BY DEF n, m
<1> HIDE DEF r, s
<1>8. Since \in Nat \ {0} /\ Since <= m
  BY <1>1, <1>5, <1>6
<1>9. ASSUME nObs' = nObs + 1, config' = config
      PROVE  (r = 0 => Since' \in Nat \ {0}) /\ (r # 0 => Since' = Since + 1)
  BY <1>1, <1>5, <1>6, <1>9
<1> QED BY <1>7, <1>8, <1>9

LEMMA NoElements == Range(<<>>) = {} /\ Len(<<>>) = 0 /\ DOMAIN <<>> = {} /\ \A S : <<>> \in Seq(S)
BY DEF Range

LEMMA InitInv == ASSUME Init PROVE IInv
<1> DEFINE model == IF Loads(config) THEN AgentModel(config) ELSE NewModel
<1>1. config \in Configs /\ Zeros \in [Actions -> Nat]
  BY DEF Init, Zeros
<1>2. /\ model.t \in Nat /\ model.weights \in Nat /\ model.attempts \in [Actions -> Nat]
      /\ ~Loads(config) => model.attempts = Zeros
  <2>1. CASE model = LoadedModel /\ Loads(config)
    BY <2>1, LearningAssumption DEF Actions
  <2>2. CASE model = NewModel
    BY <1>1, <2>2 DEF NewModel
  <2> QED BY <2>1, <2>2 DEF AgentModel
<1> HIDE DEF model
<1>3. t = model.t /\ nObs = model.t /\ attempts = model.attempts /\ weights = model.weights /\ target = model.weights
  BY DEF Init, model
<1>4. /\ table = Zeros /\ choices = <<>> /\ replay = <<>> /\ observed = <<>> /\ pool = {} /\ checkpoints = {}
      /\ lesson = [chooser |-> 0, evaluator |-> 0] /\ records = [k \in Tasks |-> NoRecord]
  BY DEF Init
<1>5. Types
  <2>1. NumTasks \in Nat
    BY LearningAssumption
  <2>2. records \in [Tasks -> [step : Nat, reward : Int]]
    BY <1>4 DEF NoRecord, NoReward
  <2>3. lesson \in [chooser : Nat, evaluator : Nat]
    BY <1>4
  <2> QED BY <1>1, <1>2, <1>3, <1>4, <2>1, <2>2, <2>3, NoElements DEF Types
<1>6. Jobs
  BY <1>4, NoElements DEF Jobs, RecordJob, NoRecord
<1>7. InTurn
  BY <1>4, NoElements DEF InTurn, LastTaken, Zeros
<1>8. Attempted
  BY <1>2, <1>3, <1>4, NoElements DEF Attempted, Chosen, Zeros
<1>9. Behind
  <2>1. Since \in Nat \ {0}
    BY <1>1, <1>2, <1>3, ConfigIs, SinceIs
  <2>2. weights = target /\ weights \in Nat /\ lesson.chooser = 0 /\ lesson.evaluator = 0
    BY <1>2, <1>3, <1>4
  <2> QED BY <2>1, <2>2 DEF Behind
<1>10. ReplayKeepsUp
  <2>1. config.capacity # -1 => 0 < config.capacity
    BY <1>1, ConfigIs
  <2> QED BY <1>4, <2>1, NoElements DEF ReplayKeepsUp
<1>11. NoActionIsForgotten
  BY <1>4, NoElements DEF NoActionIsForgotten
<1> QED BY <1>5, <1>6, <1>7, <1>8, <1>9, <1>10, <1>11 DEF IInv

-----------------------------------------------------------------------------
(* A choice.                                                                *)

(* The choices so far stay as they are. *)
LEMMA ChoiceIs ==
  ASSUME Types, ChooseAction
  PROVE  \E how \in Reasons, a \in Actions :
           /\ a \in Candidates(how)
           /\ choices' = Append(choices, [action |-> a, how |-> how])
           /\ attempts' = [attempts EXCEPT ![a] = @ + 1]
           /\ table' = (IF config.type = "lru" THEN UnusedSince(a) ELSE table)
           /\ choices' \in Seq(Choice) /\ Len(choices') = Len(choices) + 1 /\ Len(choices) \in Nat
           /\ DOMAIN choices = 1..Len(choices) /\ DOMAIN choices' = 1..Len(choices) + 1
           /\ choices'[Len(choices) + 1].action = a /\ choices'[Len(choices) + 1].how = how
           /\ \A i \in DOMAIN choices : i \in DOMAIN choices' /\ choices'[i] = choices[i]
<1>1. PICK how \in Reasons, a \in Actions :
        /\ a \in Candidates(how)
        /\ choices' = Append(choices, [action |-> a, how |-> how])
        /\ attempts' = [attempts EXCEPT ![a] = @ + 1]
        /\ table' = IF config.type = "lru" THEN UnusedSince(a) ELSE table
  <2>1. PICK how \in Reasons : \E a \in Candidates(how) :
          /\ choices' = Append(choices, [action |-> a, how |-> how])
          /\ attempts' = [attempts EXCEPT ![a] = @ + 1]
          /\ table' = IF config.type = "lru" THEN UnusedSince(a) ELSE table
    BY DEF ChooseAction
  <2> QED BY <2>1, CandidatesAre
<1> DEFINE x == [action |-> a, how |-> how]
<1>3. x \in Choice /\ x.action = a /\ x.how = how
  BY DEF Choice
<1> HIDE DEF x
<1>4. choices' = Append(choices, x) /\ choices \in Seq(Choice)
  BY <1>1 DEF x, Types
<1>5. /\ choices' \in Seq(Choice) /\ Len(choices') = Len(choices) + 1 /\ Len(choices) \in Nat
      /\ DOMAIN choices = 1..Len(choices) /\ DOMAIN choices' = 1..Len(choices) + 1
      /\ choices'[Len(choices) + 1] = x
      /\ \A i \in 1..Len(choices) : choices'[i] = choices[i]
  BY <1>3, <1>4, AppendIs, SeqIs
<1>6. \A i \in DOMAIN choices : i \in DOMAIN choices' /\ choices'[i] = choices[i]
  BY <1>5
<1> QED BY <1>1, <1>3, <1>5, <1>6

LEMMA ChooseTypes == ASSUME IInv, ChooseAction PROVE Types' /\ Jobs'
<1> USE DEF IInv
<1>1. PICK how \in Reasons, a \in Actions :
           /\ attempts' = [attempts EXCEPT ![a] = @ + 1]
           /\ table' = (IF config.type = "lru" THEN UnusedSince(a) ELSE table)
           /\ choices' \in Seq(Choice) /\ Len(choices') = Len(choices) + 1 /\ Len(choices) \in Nat
           /\ DOMAIN choices = 1..Len(choices) /\ DOMAIN choices' = 1..Len(choices) + 1
  BY ChoiceIs
<1>2. /\ Len(choices) < NumTasks /\ t' = t + 1 /\ NumTasks \in Nat
      /\ UNCHANGED <<config, nObs, replay, weights, target, lesson, records, observed, checkpoints>>
  BY LearningAssumption DEF ChooseAction, netVars
<1>3. Types'
  <2>1. attempts' \in [Actions -> Nat]
    BY <1>1 DEF Types
  <2>2. table' \in [Actions -> Nat]
    <3>1. UnusedSince(a) \in [Actions -> Nat]
      BY DEF UnusedSince, Types
    <3> QED BY <1>1, <3>1 DEF Types
  <2>3. Len(choices') <= NumTasks
    BY <1>1, <1>2
  <2>4. t' \in Nat
    BY <1>2 DEF Types
  <2>5. DOMAIN choices \subseteq DOMAIN choices'
    BY <1>1
  <2> QED BY <1>1, <1>2, <2>1, <2>2, <2>3, <2>4, <2>5 DEF Types
<1> DEFINE new == [type |-> "record", task |-> Len(choices) + 1, step |-> t + 1]
           point == [type |-> "checkpoint", task |-> 0, step |-> t + 1]
<1>4. /\ new.type = "record" /\ new.task = Len(choices) + 1 /\ point.type = "checkpoint" /\ point.step = t + 1
      /\ new \in [type : {"record", "checkpoint"}, task : Nat, step : Nat \ {0}]
      /\ point \in [type : {"record", "checkpoint"}, task : Nat, step : Nat \ {0}]
  BY <1>1 DEF Types
<1>5. pool' = pool \union {new} \union (IF Checkpointed(t + 1) THEN {point} ELSE {})
  BY DEF ChooseAction
<1> HIDE DEF new, point
<1>6. /\ new \in pool' /\ pool \subseteq pool'
      /\ \A job \in pool' : job \in pool \/ job = new \/ (job = point /\ Checkpointed(t + 1))
  BY <1>5
<1>7. \A job \in pool : job.type = "record" => job.task \in 1..Len(choices)
  BY <1>1 DEF Jobs
<1>8. pool' \subseteq [type : {"record", "checkpoint"}, task : Nat, step : Nat \ {0}]
  BY <1>4, <1>6 DEF Jobs
<1>9. ASSUME NEW job \in pool'
      PROVE  /\ job.type = "record" => job.task \in DOMAIN choices'
             /\ job.type = "checkpoint" => job.step % config'.frequency = 0
             /\ \A other \in pool' :
                  job.type = "record" /\ other.type = "record" /\ job.task = other.task => job = other
  <2>1. job.type = "record" => job.task \in DOMAIN choices'
    BY <1>1, <1>4, <1>6, <1>7
  <2>2. job.type = "checkpoint" => job.step % config'.frequency = 0
    BY <1>2, <1>4, <1>6 DEF Jobs, Checkpointed
  <2>3. \A other \in pool' : job.type = "record" /\ other.type = "record" /\ job.task = other.task => job = other
    <3> SUFFICES ASSUME NEW other \in pool', job.type = "record", other.type = "record", job.task = other.task
                 PROVE  job = other
      OBVIOUS
    <3>1. (job \in pool \/ job = new) /\ (other \in pool \/ other = new)
      BY <1>4, <1>6
    <3>2. CASE job \in pool /\ other \in pool
      BY <3>2 DEF Jobs
    <3>3. Len(choices) + 1 \notin 1..Len(choices)
      BY <1>1
    <3> QED BY <1>4, <1>7, <3>1, <3>2, <3>3
  <2> QED BY <2>1, <2>2, <2>3
<1>10. ASSUME NEW k \in Tasks
       PROVE  records'[k] = NoRecord <=> k \notin DOMAIN choices' \/ RecordJob(k)'
  <2>1. k \in Nat /\ records' = records /\ (records[k] = NoRecord <=> k \notin DOMAIN choices \/ RecordJob(k))
    BY <1>2 DEF Jobs, Tasks
  <2>2. CASE k = Len(choices) + 1
    <3>1. RecordJob(k)'
      BY <1>4, <1>6, <2>2 DEF RecordJob
    <3>2. k \notin DOMAIN choices
      BY <1>1, <2>2
    <3> QED BY <2>1, <3>1, <3>2
  <2>3. CASE k # Len(choices) + 1
    <3>1. k \in DOMAIN choices <=> k \in DOMAIN choices'
      BY <1>1, <2>1, <2>3
    <3>2. RecordJob(k)' <=> RecordJob(k)
      BY <1>4, <1>6, <2>3 DEF RecordJob
    <3> QED BY <2>1, <3>1, <3>2
  <2> QED BY <2>2, <2>3
<1>11. Jobs'
  BY <1>2, <1>8, <1>9, <1>10 DEF Jobs
<1> QED BY <1>3, <1>11

LEMMA ChooseInTurn == ASSUME IInv, ChooseAction PROVE InTurn' /\ Attempted'
<1> USE DEF IInv
<1> DEFINE n == Len(choices)
<1>1. PICK how \in Reasons, a \in Actions :
           /\ attempts' = [attempts EXCEPT ![a] = @ + 1]
           /\ table' = (IF config.type = "lru" THEN UnusedSince(a) ELSE table)
           /\ Len(choices') = n + 1 /\ n \in Nat
           /\ DOMAIN choices = 1..n /\ DOMAIN choices' = 1..n + 1
           /\ choices'[n + 1].action = a
           /\ \A i \in DOMAIN choices : i \in DOMAIN choices' /\ choices'[i] = choices[i]
  BY ChoiceIs
<1>2. config' = config
  BY DEF ChooseAction
<1>3. table \in [Actions -> Nat] /\ attempts \in [Actions -> Nat]
  BY DEF Types
<1> HIDE DEF n
<1>4. ASSUME config.type = "lru", NEW b \in Actions PROVE LastTaken(b)'
  <2>1. LastTaken(b) /\ table[b] \in Nat
    BY <1>3, <1>4 DEF InTurn
  <2>2. table'[b] = IF b = a THEN 0 ELSE table[b] + 1
    BY <1>1, <1>4 DEF UnusedSince
  <2>3. CASE b = a
    <3>1. table'[b] = 0 /\ Len(choices') = n + 1
      BY <1>1, <2>2, <2>3
    <3> QED BY <1>1, <2>3, <3>1 DEF LastTaken
  <2>4. CASE b # a
    <3>0. table'[b] = table[b] + 1 /\ Len(choices') = n + 1
      BY <1>1, <2>2, <2>4
    <3>t. table[b] \in Nat /\ n \in Nat /\ table[b] <= n
      BY <1>1, <2>1 DEF LastTaken, n
    <3>1. /\ table'[b] = table[b] + 1 /\ Len(choices') = n + 1
          /\ Len(choices') - table'[b] = n - table[b]
      BY <3>0, <3>t
    <3>2. table'[b] <= Len(choices')
      BY <3>0, <3>t
    <3>3. ASSUME table'[b] < Len(choices') PROVE choices'[n - table[b]].action = b
      <4>1. table[b] < n /\ n - table[b] \in DOMAIN choices
        BY <1>1, <2>1, <3>1, <3>3
      <4> QED BY <1>1, <2>1, <4>1 DEF LastTaken, n
    <3>4. ASSUME NEW i \in DOMAIN choices', n - table[b] < i PROVE choices'[i].action # b
      <4>1. CASE i = n + 1
        BY <1>1, <2>4, <4>1
      <4>2. CASE i # n + 1
        <5>1. i \in DOMAIN choices
          BY <1>1, <4>2
        <5> QED BY <1>1, <2>1, <3>4, <5>1 DEF LastTaken, n
      <4> QED BY <4>1, <4>2
    <3> QED BY <3>1, <3>2, <3>3, <3>4 DEF LastTaken
  <2> QED BY <2>3, <2>4
<1>5. ASSUME config.type = "lin-ucb" /\ ~Loads(config), NEW b \in Actions
      PROVE  attempts'[b] # 0 <=> Chosen(b)'
  <2>1. (attempts[b] # 0 <=> Chosen(b)) /\ attempts[b] \in Nat
    BY <1>3, <1>5 DEF Attempted
  <2>2. CASE b = a
    <3>1. attempts'[b] = attempts[b] + 1
      BY <1>1, <1>3, <2>2
    <3>2. Chosen(b)'
      <4>1. n + 1 \in DOMAIN choices'
        BY <1>1
      <4> QED BY <1>1, <2>2, <4>1 DEF Chosen
    <3> QED BY <2>1, <3>1, <3>2
  <2>3. CASE b # a
    <3>1. attempts'[b] = attempts[b]
      BY <1>1, <1>3, <2>3
    <3>2. \A i \in DOMAIN choices' : i \in DOMAIN choices \/ i = n + 1
      BY <1>1
    <3>3. Chosen(b)' <=> Chosen(b)
      BY <1>1, <2>3, <3>2 DEF Chosen
    <3> QED BY <2>1, <3>1, <3>3
  <2> QED BY <2>2, <2>3
<1>6. InTurn'
  BY <1>2, <1>4 DEF InTurn
<1>7. Attempted'
  BY <1>2, <1>5 DEF Attempted, Loads
<1> QED BY <1>6, <1>7

LEMMA ChooseForgetsNone == ASSUME IInv, ChooseAction PROVE NoActionIsForgotten'
<1> USE DEF IInv
<1> DEFINE n == Len(choices)
<1>1. PICK how \in Reasons, a \in Actions :
           /\ a \in Candidates(how)
           /\ n \in Nat /\ DOMAIN choices = 1..n /\ DOMAIN choices' = 1..n + 1
           /\ choices'[n + 1].action = a /\ choices'[n + 1].how = how
           /\ \A i \in DOMAIN choices : i \in DOMAIN choices' /\ choices'[i] = choices[i]
  BY ChoiceIs
<1>2. config' = config
  BY DEF ChooseAction
<1>3. Actions = 1..NumActions /\ NumActions \in Nat \ {0} /\ table \in [Actions -> Nat]
  BY LearningAssumption DEF Actions, Types
<1>4. /\ config.type = "lru" => a \in LongestUnused
      /\ config.type = "lin-ucb" /\ how # "bootstrap" => a \in Untried \/ Untried = {}
  BY <1>1, CandidatesAre
<1>5. \A i, j \in DOMAIN choices' : i < j => i \in DOMAIN choices /\ (j \in DOMAIN choices \/ j = n + 1)
  BY <1>1
<1>6. ASSUME config.type = "lru", NEW i \in DOMAIN choices', NEW j \in DOMAIN choices',
             i < j, j < i + NumActions
      PROVE  choices'[i].action # choices'[j].action
  <2>1. CASE j \in DOMAIN choices
    BY <1>1, <1>5, <1>6, <2>1 DEF NoActionIsForgotten
  <2>2. CASE j = n + 1
    <3> SUFFICES ASSUME choices[i].action = a PROVE FALSE
      BY <1>1, <1>5, <1>6, <2>2
    <3>1. i \in 1..n /\ i \in DOMAIN choices /\ n + 1 < i + NumActions
      BY <1>1, <1>5, <1>6, <2>2
    <3>2. \A b \in Actions : LastTaken(b) /\ table[b] \in Nat /\ table[b] <= table[a]
      BY <1>3, <1>4, <1>6 DEF InTurn, LongestUnused
    <3>3. ~(n - table[a] < i)
      BY <3>1, <3>2 DEF LastTaken, n
    <3> HIDE DEF n
    <3>4. \A b \in Actions : table[b] <= n - i /\ table[b] < n /\ table[b] <= NumActions - 2
      <4>1. table[a] \in Nat /\ table[a] <= n - i
        BY <1>1, <3>1, <3>2, <3>3
      <4> TAKE b \in Actions
      <4>2. table[b] \in Nat /\ table[b] <= table[a]
        BY <3>2
      <4> QED BY <1>1, <1>3, <3>1, <4>1, <4>2
    <3>5. \A b, c \in Actions : table[b] = table[c] => b = c
      BY <3>2, <3>4 DEF LastTaken, n
    <3> DEFINE m == NumActions - 1
    <3>6. m \in Nat /\ Actions = 1..m + 1 /\ table \in [1..m + 1 -> 0..m-1]
      <4>1. \A b \in Actions : table[b] \in 0..m-1
        BY <1>3, <3>2, <3>4
      <4>2. 1..m + 1 = Actions /\ m \in Nat
        BY <1>3
      <4> QED BY <1>3, <4>1, <4>2
    <3> HIDE DEF m
    <3>7. \E b, c \in 1..m + 1 : b # c /\ table[b] = table[c]
      BY <3>6, NotThatMany
    <3> QED BY <3>5, <3>6, <3>7
  <2> QED BY <1>5, <1>6, <2>1, <2>2
<1>7. ASSUME config.type = "lin-ucb" /\ ~Loads(config), NEW i \in DOMAIN choices', NEW j \in DOMAIN choices',
             i < j, choices'[j].how # "bootstrap", choices'[i].action = choices'[j].action, NEW b \in Actions
      PROVE  \E k \in 1..j-1 : choices'[k].action = b
  <2>1. CASE j \in DOMAIN choices
    <3>1. PICK k \in 1..j-1 : choices[k].action = b
      BY <1>1, <1>5, <1>7, <2>1 DEF NoActionIsForgotten
    <3>2. k \in DOMAIN choices
      BY <1>1, <2>1
    <3> QED BY <1>1, <3>1, <3>2
  <2>2. CASE j = n + 1
    <3>1. how # "bootstrap" /\ i \in DOMAIN choices /\ choices[i].action = a
      BY <1>1, <1>5, <1>7, <2>2
    <3>2. Chosen(a)
      BY <3>1 DEF Chosen
    <3>3. a \notin Untried
      BY <1>7, <3>2 DEF Untried, Attempted
    <3>4. attempts[b] # 0
      BY <1>4, <1>7, <3>1, <3>3 DEF Untried
    <3>5. PICK k \in DOMAIN choices : choices[k].action = b
      BY <1>7, <3>4 DEF Attempted, Chosen
    <3>6. k \in 1..j-1 /\ choices'[k].action = b
      BY <1>1, <2>2, <3>5
    <3> QED BY <3>6
  <2> QED BY <1>5, <1>7, <2>1, <2>2
<1>8. Loads(config') = Loads(config)
  BY <1>2
<1>9. config'.type = "lru" =>
        \A i, j \in DOMAIN choices' :
          i < j /\ j < i + NumActions => choices'[i].action # choices'[j].action
  BY <1>2, <1>6
<1>10. config'.type = "lin-ucb" /\ ~Loads(config') =>
        \A i, j \in DOMAIN choices' :
          i < j /\ choices'[j].how # "bootstrap" /\ choices'[i].action = choices'[j].action
            => \A b \in Actions : \E k \in 1..j-1 : choices'[k].action = b
  BY <1>2, <1>7, <1>8
<1> QED BY <1>9, <1>10 DEF NoActionIsForgotten

LEMMA ChooseInv == ASSUME IInv, ChooseAction PROVE IInv'
<1>1. UNCHANGED <<config, nObs, replay, weights, target, lesson, observed>>
  BY DEF ChooseAction, netVars
<1>2. Behind' /\ ReplayKeepsUp'
  BY <1>1 DEF IInv, Behind, Since, ReplayKeepsUp
<1> QED BY <1>2, ChooseTypes, ChooseInTurn, ChooseForgetsNone DEF IInv

-----------------------------------------------------------------------------
(* The jobs of the pool.                                                    *)

(* What a step that neither chooses nor observes leaves as it is. *)
LEMMA ElsewhereInv ==
  ASSUME IInv, UNCHANGED <<config, agentVars, choices, netVars, observed>>,
         records' \in [Tasks -> [step : Nat, reward : Int]], Jobs'
  PROVE  IInv'
<1> USE DEF IInv, agentVars, netVars
<1>1. Types'
  BY DEF Types
<1>2. InTurn' /\ Attempted' /\ NoActionIsForgotten'
  <2>1. InTurn'
    BY DEF InTurn, LastTaken
  <2>2. Attempted'
    BY DEF Attempted, Chosen, Loads
  <2>3. NoActionIsForgotten'
    BY DEF NoActionIsForgotten, Loads
  <2> QED BY <2>1, <2>2, <2>3
<1>3. Behind' /\ ReplayKeepsUp'
  BY DEF Behind, Since, ReplayKeepsUp
<1> QED BY <1>1, <1>2, <1>3

LEMMA CreateRecordInv == ASSUME IInv, CreateRecord PROVE IInv'
<1> USE DEF IInv
<1>1. PICK job \in pool :
        /\ job.type = "record" /\ pool' = pool \ {job}
        /\ records' = [records EXCEPT ![job.task] = [step |-> job.step, reward |-> NoReward]]
  BY DEF CreateRecord
<1>2. UNCHANGED <<config, agentVars, choices, netVars, observed, checkpoints>>
  BY DEF CreateRecord
<1>3. /\ job.task \in DOMAIN choices /\ job.task \in Tasks /\ job.step \in Nat \ {0}
      /\ \A other \in pool : other.type = "record" /\ other.task = job.task => other = job
  <2>1. job.task \in DOMAIN choices /\ job.step \in Nat \ {0}
    BY <1>1 DEF Jobs
  <2>2. DOMAIN choices = 1..Len(choices) /\ Len(choices) \in Nat /\ Len(choices) <= NumTasks /\ NumTasks \in Nat
    BY SeqIs, LearningAssumption DEF Types
  <2>3. job.task \in Tasks
    BY <2>1, <2>2 DEF Tasks
  <2> QED BY <1>1, <2>1, <2>3 DEF Jobs
<1>4. /\ records \in [Tasks -> [step : Nat, reward : Int]]
      /\ records' \in [Tasks -> [step : Nat, reward : Int]]
      /\ \A k \in Tasks : records'[k] = IF k = job.task THEN [step |-> job.step, reward |-> NoReward] ELSE records[k]
  BY <1>1, <1>3 DEF Types, NoReward
<1>5. \A k \in Tasks :
        /\ records'[k].step = 0 => records'[k] = NoRecord
        /\ records'[k] = NoRecord <=> k \notin DOMAIN choices \/ RecordJob(k)'
  <2> TAKE k \in Tasks
  <2>1. CASE k = job.task
    <3>1. records'[k].step # 0 /\ records'[k] # NoRecord
      BY <1>3, <1>4, <2>1 DEF NoRecord
    <3>2. ~RecordJob(k)'
      BY <1>1, <1>3, <2>1 DEF RecordJob
    <3> QED BY <1>3, <2>1, <3>1, <3>2
  <2>2. CASE k # job.task
    <3>1. RecordJob(k)' <=> RecordJob(k)
      BY <1>1, <2>2 DEF RecordJob
    <3> QED BY <1>4, <2>2, <3>1 DEF Jobs
  <2> QED BY <2>1, <2>2
<1>6. Jobs'
  BY <1>1, <1>2, <1>5 DEF Jobs, agentVars
<1> QED BY <1>2, <1>4, <1>6, ElsewhereInv

LEMMA SaveCheckpointInv == ASSUME IInv, SaveCheckpoint PROVE IInv'
<1> USE DEF IInv
<1>1. PICK job \in pool :
        /\ job.type = "checkpoint" /\ pool' = pool \ {job}
        /\ checkpoints' = checkpoints \union {[step |-> job.step, content |-> Content]}
  BY DEF SaveCheckpoint
<1>2. UNCHANGED <<config, agentVars, choices, netVars, records, observed>>
  BY DEF SaveCheckpoint
<1>3. \A k \in Tasks : RecordJob(k)' <=> RecordJob(k)
  BY <1>1 DEF RecordJob
<1>4. \A c \in checkpoints' : c.step % config.frequency = 0 /\ c.content.t \in 0..nObs
  <2>1. job.step % config.frequency = 0 /\ nObs \in 0..nObs
    BY <1>1 DEF Jobs, Types
  <2> QED BY <1>1, <2>1 DEF Jobs, Content
<1>5. Jobs'
  BY <1>1, <1>2, <1>3, <1>4 DEF Jobs, agentVars
<1> QED BY <1>2, <1>5, ElsewhereInv DEF Types

LEMMA RestInv == ASSUME IInv, EndRun \/ UNCHANGED vars PROVE IInv'
<1>1. UNCHANGED <<config, agentVars, choices, netVars, pool, records, observed, checkpoints>>
  BY DEF EndRun, vars
<1>2. Jobs'
  BY <1>1 DEF IInv, Jobs, RecordJob, agentVars
<1> QED BY <1>1, <1>2, ElsewhereInv DEF IInv, Types

-----------------------------------------------------------------------------
(* A reward.                                                                *)

(* What becomes of the replay. *)
LEMMA PushIs ==
  ASSUME Types, ReplayKeepsUp, config' = config,
         NEW k \in Tasks, k \notin Range(observed), PushExperience(k), observed' = Append(observed, k)
  PROVE  /\ replay' \in Seq(Tasks) /\ Range(replay') \subseteq Range(replay) \union {k}
         /\ Len(replay) <= Len(replay') /\ ReplayKeepsUp'
<1>1. /\ Len(observed) \in Nat /\ observed' \in Seq(Tasks) /\ Len(observed') = Len(observed) + 1
      /\ observed' # <<>> /\ Last(observed') = k
  <2>1. /\ Len(observed) \in Nat /\ observed' \in Seq(Tasks) /\ Len(observed') = Len(observed) + 1
        /\ observed'[Len(observed) + 1] = k
    BY AppendIs, SeqIs DEF Types
  <2>2. Last(observed') = k
    BY <2>1 DEF Last
  <2> QED BY <2>1, <2>2, SeqIs
<1>2. /\ replay \in Seq(Tasks) /\ Len(replay) \in Nat /\ DOMAIN replay = 1..Len(replay)
      /\ k \notin Range(replay) /\ \A i \in DOMAIN replay : replay[i] \in Range(replay) /\ replay[i] # k
  <2>1. replay \in Seq(Tasks) /\ k \notin Range(replay)
    BY DEF Types
  <2> QED BY <2>1, SeqIs
<1>3. CASE config.type \notin DQNTypes
  <2>1. replay' = replay
    BY <1>3 DEF PushExperience
  <2>2. ReplayKeepsUp'
    BY <1>3 DEF ReplayKeepsUp
  <2> QED BY <1>2, <2>1, <2>2
<1>4. ASSUME config.type \in DQNTypes PROVE replay' \in Pushed(k) /\ config.capacity \in (Nat \ {0}) \union {-1}
  BY <1>4, ConfigIs DEF PushExperience, Types
<1>5. CASE config.type \in DQNTypes /\ (Len(replay) < config.capacity \/ config.capacity = -1)
  <2>1. replay' = Append(replay, k)
    BY <1>4, <1>5 DEF Pushed
  <2>2. /\ replay' \in Seq(Tasks) /\ Len(replay') = Len(replay) + 1 /\ DOMAIN replay' = 1..Len(replay) + 1
        /\ replay'[Len(replay) + 1] = k /\ (\A i \in 1..Len(replay) : replay'[i] = replay[i])
        /\ Range(replay') = Range(replay) \union {k}
    BY <1>2, <2>1, AppendIs
  <2>3. Len(replay) = IF config.capacity = -1 \/ Len(observed) < config.capacity
                      THEN Len(observed) ELSE config.capacity
    BY <1>5 DEF ReplayKeepsUp
  <2>4. Len(replay') = IF config.capacity = -1 \/ Len(observed') < config.capacity
                       THEN Len(observed') ELSE config.capacity
    BY <1>1, <1>2, <1>4, <1>5, <2>2, <2>3
  <2>5. ASSUME NEW i \in DOMAIN replay', NEW j \in DOMAIN replay', replay'[i] = replay'[j] PROVE i = j
    <3>1. (i \in DOMAIN replay \/ i = Len(replay) + 1) /\ (j \in DOMAIN replay \/ j = Len(replay) + 1)
      BY <1>2, <2>2
    <3>2. CASE i \in DOMAIN replay /\ j \in DOMAIN replay
      <4>1. replay[i] = replay[j]
        BY <1>2, <2>2, <2>5, <3>2
      <4> QED BY <1>5, <3>2, <4>1 DEF ReplayKeepsUp
    <3>3. CASE i \in DOMAIN replay <=> j \notin DOMAIN replay
      BY <1>2, <2>2, <2>5, <3>1, <3>3
    <3> QED BY <3>1, <3>2, <3>3
  <2>6. Last(observed') \in Range(replay')
    BY <1>1, <2>2
  <2>7. ReplayKeepsUp'
    BY <2>4, <2>5, <2>6 DEF ReplayKeepsUp
  <2> QED BY <1>2, <2>2, <2>7
<1>6. CASE config.type \in DQNTypes /\ ~(Len(replay) < config.capacity \/ config.capacity = -1)
  <2>1. PICK i \in DOMAIN replay : replay' = [replay EXCEPT ![i] = k]
    BY <1>4, <1>6 DEF Pushed, Replaced
  <2>2. /\ replay' \in Seq(Tasks) /\ Len(replay') = Len(replay) /\ DOMAIN replay' = DOMAIN replay
        /\ replay'[i] = k /\ \A j \in DOMAIN replay : j # i => replay'[j] = replay[j]
    <3>1. replay \in [1..Len(replay) -> Tasks]
      BY <1>2, LenProperties
    <3>2. replay' \in [1..Len(replay) -> Tasks] /\ replay' \in Seq(Tasks)
      BY <1>2, <2>1, <3>1
    <3> QED BY <1>2, <2>1, <3>1, <3>2, LenProperties
  <2>3. Range(replay') \subseteq Range(replay) \union {k} /\ k \in Range(replay')
    BY <1>2, <2>2 DEF Range
  <2>4. Len(replay) = (IF config.capacity = -1 \/ Len(observed) < config.capacity
                       THEN Len(observed) ELSE config.capacity)
    BY <1>6 DEF ReplayKeepsUp
  <2>5. Len(replay') = IF config.capacity = -1 \/ Len(observed') < config.capacity
                       THEN Len(observed') ELSE config.capacity
    BY <1>1, <1>2, <1>4, <1>6, <2>2, <2>4
  <2>6. \A a, b \in DOMAIN replay' : replay'[a] = replay'[b] => a = b
    <3>1. \A a, b \in DOMAIN replay : replay[a] = replay[b] => a = b
      BY <1>6 DEF ReplayKeepsUp
    <3> QED BY <1>2, <2>2, <3>1
  <2>7. ReplayKeepsUp'
    BY <1>1, <2>3, <2>5, <2>6 DEF ReplayKeepsUp
  <2> QED BY <1>2, <2>2, <2>3, <2>7
<1> QED BY <1>3, <1>5, <1>6

(* What becomes of the networks. *)
LEMMA LearnIs ==
  ASSUME Types, Behind, config' = config, ObserveDelayedAction,
         Len(replay) \in Nat, Len(replay') \in Nat, Len(replay) <= Len(replay')
  PROVE  /\ nObs' \in Nat /\ nObs <= nObs' /\ weights' \in Nat /\ target' \in Nat
         /\ lesson' \in [chooser : Nat, evaluator : Nat] /\ Behind'
<1>1. /\ nObs \in Nat /\ weights \in Nat /\ target \in Nat /\ lesson \in [chooser : Nat, evaluator : Nat]
      /\ config.update \in Nat \ {0} /\ config.batch \in Nat
      /\ target <= weights /\ weights - target < Since /\ lesson.evaluator <= lesson.chooser
      /\ config.type \notin DQNTypes \/ Len(replay) < config.batch => weights = target
  BY ConfigIs DEF Types, Behind
<1>2. /\ Since \in Nat \ {0}
      /\ nObs' = nObs + 1 => /\ nObs % config.update = 0 => Since' \in Nat \ {0}
                             /\ nObs % config.update # 0 => Since' = Since + 1
  BY <1>1, SinceIs
<1>3. nObs' = nObs + 1 => Since' \in Nat \ {0}
  BY <1>2
<1>4. CASE UNCHANGED <<nObs, weights, target, lesson>>
  <2>1. Since' = Since
    BY <1>4 DEF Since
  <2>2. config'.type \notin DQNTypes \/ Len(replay') < config'.batch => weights' = target'
    BY <1>1, <1>4
  <2>3. Behind'
    BY <1>1, <1>4, <2>1, <2>2 DEF Behind
  <2> QED BY <1>1, <1>4, <2>3
<1>5. CASE /\ nObs' = nObs + 1 /\ UNCHANGED <<weights, target, lesson>>
           /\ config.type \notin DQNTypes \/ Len(replay) < config.batch
  <2>1. weights = target /\ Since' \in Nat \ {0}
    BY <1>1, <1>3, <1>5
  <2>2. target' <= weights' /\ weights' - target' < Since' /\ weights' = target'
    BY <1>1, <1>5, <2>1
  <2>3. Behind'
    BY <1>1, <1>5, <2>2 DEF Behind
  <2> QED BY <1>1, <1>5, <2>3
<1>6. CASE config.type \in DQNTypes /\ Optimize /\ ~(Len(replay) < config.batch)
  <2>1. /\ nObs' = nObs + 1 /\ weights' = weights + 1
        /\ target' = IF nObs % config.update = 0 THEN weights + 1 ELSE target
        /\ lesson' = [chooser |-> IF config.type = "dqn" THEN target ELSE weights, evaluator |-> target]
    BY <1>6 DEF Optimize
  <2>2. lesson' \in [chooser : Nat, evaluator : Nat] /\ lesson'.evaluator <= lesson'.chooser
    BY <1>1, <2>1
  <2>3. target' <= weights' /\ weights' - target' < Since' /\ weights' \in Nat /\ target' \in Nat
    <3>1. CASE nObs % config.update = 0
      <4>1. target' = weights + 1 /\ Since' \in Nat \ {0}
        BY <1>3, <2>1, <3>1
      <4> QED BY <1>1, <2>1, <4>1
    <3>2. CASE nObs % config.update # 0
      <4>1. target' = target /\ Since' = Since + 1
        BY <1>2, <2>1, <3>2
      <4> QED BY <1>1, <1>2, <2>1, <4>1
    <3> QED BY <3>1, <3>2
  <2>4. ~(config'.type \notin DQNTypes \/ Len(replay') < config'.batch)
    BY <1>1, <1>6
  <2>5. Behind'
    BY <2>2, <2>3, <2>4 DEF Behind
  <2> QED BY <1>1, <2>1, <2>2, <2>3, <2>5
<1> QED
  <2>1. CASE config.type \in DQNTypes /\ Train
    <3>1. Optimize
      BY <2>1 DEF ObserveDelayedAction
    <3> QED BY <1>5, <1>6, <2>1, <3>1 DEF Optimize
  <2>2. CASE config.type \in DQNTypes \union {"lin-ucb"} /\ ~Train
    BY <1>4, <2>2 DEF ObserveDelayedAction
  <2>3. CASE ~(config.type \in DQNTypes /\ Train) /\ ~(config.type \in DQNTypes \union {"lin-ucb"} /\ ~Train)
    <3>1. CountReward /\ config.type \notin DQNTypes
      BY <2>3 DEF ObserveDelayedAction
    <3> QED BY <1>5, <3>1 DEF CountReward
  <2> QED BY <2>1, <2>2, <2>3

LEMMA ObserveRewardInv == ASSUME IInv, ObserveReward PROVE IInv'
<1> USE DEF IInv
<1>1. PICK k \in DOMAIN choices, r \in Rewards :
        /\ k \notin Range(observed) /\ records[k] # NoRecord
        /\ ObserveDelayedAction /\ PushExperience(k) /\ UpdateRecord(k, r) /\ observed' = Append(observed, k)
  BY DEF ObserveReward
<1>2. UNCHANGED <<config, t, attempts, table, choices, pool, checkpoints>>
  BY DEF ObserveReward
<1>3. k \in Tasks /\ Range(observed) \subseteq DOMAIN choices
  <2>1. DOMAIN choices = 1..Len(choices) /\ Len(choices) \in Nat /\ Len(choices) <= NumTasks /\ NumTasks \in Nat
    BY SeqIs, LearningAssumption DEF Types
  <2> QED BY <2>1 DEF Tasks, Types
<1>4. /\ replay' \in Seq(Tasks) /\ Range(replay') \subseteq Range(replay) \union {k}
      /\ Len(replay) <= Len(replay') /\ ReplayKeepsUp' /\ Len(replay) \in Nat /\ Len(replay') \in Nat
  <2>1. /\ replay' \in Seq(Tasks) /\ Range(replay') \subseteq Range(replay) \union {k}
        /\ Len(replay) <= Len(replay') /\ ReplayKeepsUp'
    BY <1>1, <1>2, <1>3, PushIs
  <2>2. replay \in Seq(Tasks)
    BY DEF Types
  <2> QED BY <2>1, <2>2, SeqIs
<1>5. /\ nObs' \in Nat /\ nObs <= nObs' /\ weights' \in Nat /\ target' \in Nat
      /\ lesson' \in [chooser : Nat, evaluator : Nat] /\ Behind'
  BY <1>1, <1>2, <1>4, LearnIs
<1>6. observed' \in Seq(Tasks) /\ Range(observed') = Range(observed) \union {k}
  BY <1>1, <1>3, AppendIs DEF Types
<1>7. /\ records' \in [Tasks -> [step : Nat, reward : Int]]
      /\ \A j \in Tasks : records'[j].step = records[j].step /\ (j # k => records'[j] = records[j])
  <2>1. MultiplyReward(r) \in Int
    <3>1. /\ r \in Int /\ config.multiplier \in Int /\ config.limit \subseteq Int
      BY ConfigIs, LearningAssumption DEF Types
    <3>2. config.limit # {} => (CHOOSE l \in config.limit : TRUE) \in Int
      BY <3>1
    <3> QED BY <3>1, <3>2 DEF MultiplyReward
  <2>2. records' = records \/ records' = [records EXCEPT ![k].reward = MultiplyReward(r)]
    BY <1>1 DEF UpdateRecord
  <2>3. records \in [Tasks -> [step : Nat, reward : Int]]
    BY DEF Types
  <2> HIDE DEF MultiplyReward
  <2> QED BY <1>3, <2>1, <2>2, <2>3
<1>8. Types'
  <2>1. Range(replay') \subseteq Range(observed')
    BY <1>4, <1>6 DEF Types
  <2>2. Range(observed') \subseteq DOMAIN choices'
    BY <1>2, <1>3, <1>6
  <2> QED BY <1>2, <1>4, <1>5, <1>6, <1>7, <2>1, <2>2 DEF Types
<1>9. Jobs'
  <2>1. \A j \in Tasks : RecordJob(j)' <=> RecordJob(j)
    BY <1>2 DEF RecordJob
  <2>2. \A j \in Tasks : /\ records'[j].step = 0 => records'[j] = NoRecord
                         /\ records'[j] = NoRecord <=> records[j] = NoRecord
    <3> TAKE j \in Tasks
    <3>1. CASE j = k
      <4>1. records[k].step # 0 /\ records'[k].step # 0
        BY <1>1, <1>3, <1>7 DEF Jobs
      <4>2. records'[k] # NoRecord
        BY <4>1 DEF NoRecord
      <4> QED BY <1>1, <3>1, <4>1, <4>2
    <3>2. CASE j # k
      BY <1>7, <3>2 DEF Jobs
    <3> QED BY <3>1, <3>2
  <2>3. \A c \in checkpoints' : c.step % config'.frequency = 0 /\ c.content.t \in 0..nObs'
    <3> TAKE c \in checkpoints'
    <3>1. c.step % config'.frequency = 0 /\ c.content.t \in 0..nObs
      BY <1>2 DEF Jobs
    <3>2. nObs \in Nat
      BY DEF Types
    <3> QED BY <1>5, <3>1, <3>2
  <2> QED BY <1>2, <2>1, <2>2, <2>3 DEF Jobs
<1>10. InTurn' /\ Attempted' /\ NoActionIsForgotten'
  <2>1. InTurn'
    BY <1>2 DEF InTurn, LastTaken
  <2>2. Attempted'
    BY <1>2 DEF Attempted, Chosen, Loads
  <2>3. NoActionIsForgotten'
    BY <1>2 DEF NoActionIsForgotten, Loads
  <2> QED BY <2>1, <2>2, <2>3
<1> QED BY <1>4, <1>5, <1>8, <1>9, <1>10

-----------------------------------------------------------------------------
(* The steps of a run.                                                      *)

(* The steps of a run begin after those of the model it was loaded with.                         *)
Before == t - Len(choices)
Steps(from, to) == {s \in Nat : from < s /\ s <= to /\ s % config.frequency = 0}
Pointed(s) ==
  \/ \E c \in checkpoints : c.step = s
  \/ \E job \in pool : job.type = "checkpoint" /\ job.step = s

(* Records and checkpoints are those of the steps so far, whatever the pool has left to write.   *)
Numbered ==
  /\ Before \in Nat
  /\ \A job \in pool : job.type = "record" => job.step = Before + job.task
  /\ \A k \in Tasks : records[k] # NoRecord => records[k].step = Before + k
  /\ \A i, j \in DOMAIN observed : observed[i] = observed[j] => i = j
  /\ \A s \in Nat : Pointed(s) <=> Train /\ s \in Steps(Before, t)
  /\ \A c \in checkpoints : c.step \in Nat

(* The end of the run: nothing is left to choose and nothing to write.                           *)
Ended == Len(choices) = NumTasks /\ pool = {}

LEMMA InitNumbered == ASSUME Init PROVE Numbered
<1>1. IInv
  BY InitInv
<1>2. /\ choices = <<>> /\ observed = <<>> /\ pool = {} /\ checkpoints = {} /\ saved = <<>>
      /\ \A k \in Tasks : records[k] = NoRecord
  BY DEF Init
<1>3. t \in Nat /\ Before = t
  BY <1>1, <1>2, NoElements DEF IInv, Types, Before
<1>4. \A s \in Nat : ~(Before < s /\ s <= t)
  BY <1>3
<1> QED BY <1>2, <1>3, <1>4, NoElements DEF Numbered, Pointed, Steps

(* Another step.                                                                                 *)
LEMMA ChooseNumbered == ASSUME IInv, Numbered, ChooseAction PROVE Numbered'
<1> USE DEF IInv
<1>1. Len(choices') = Len(choices) + 1 /\ Len(choices) \in Nat
  BY ChoiceIs
<1>2. /\ t' = t + 1 /\ t \in Nat /\ Before \in Nat
      /\ UNCHANGED <<config, records, observed, checkpoints>>
  BY DEF ChooseAction, netVars, Types, Numbered
<1>3. Before' = Before /\ Before + (Len(choices) + 1) = t + 1 /\ Before <= t
  BY <1>1, <1>2 DEF Before
<1> DEFINE new == [type |-> "record", task |-> Len(choices) + 1, step |-> t + 1]
           point == [type |-> "checkpoint", task |-> 0, step |-> t + 1]
<1>4. /\ new.type = "record" /\ new.task = Len(choices) + 1 /\ new.step = t + 1
      /\ point.type = "checkpoint" /\ point.step = t + 1
  OBVIOUS
<1>5. pool' = pool \union {new} \union (IF Checkpointed(t + 1) THEN {point} ELSE {})
  BY DEF ChooseAction
<1> HIDE DEF new, point
<1>6. \A job \in pool' : job.type = "record" => job.step = Before' + job.task
  BY <1>3, <1>4, <1>5 DEF Numbered
<1>7. ASSUME NEW s \in Nat PROVE Pointed(s)' <=> Train' /\ s \in Steps(Before, t)'
  <2>1. Pointed(s)' <=> Pointed(s) \/ (Checkpointed(t + 1) /\ s = t + 1)
    BY <1>2, <1>4, <1>5 DEF Pointed
  <2>2. Train' <=> Train
    BY <1>2 DEF Train
  <2>3. s \in Steps(Before, t)' <=> s \in Steps(Before, t) \/ (s = t + 1 /\ s % config.frequency = 0)
    BY <1>2, <1>3 DEF Steps
  <2>4. Pointed(s) <=> Train /\ s \in Steps(Before, t)
    BY DEF Numbered
  <2> QED BY <2>1, <2>2, <2>3, <2>4 DEF Checkpointed
<1> QED BY <1>2, <1>3, <1>6, <1>7 DEF Numbered

(* A job that is done.                                                                           *)
LEMMA CreateRecordNumbered == ASSUME IInv, Numbered, CreateRecord PROVE Numbered'
<1> USE DEF IInv
<1>1. PICK job \in pool :
        /\ job.type = "record" /\ pool' = pool \ {job}
        /\ records' = [records EXCEPT ![job.task] = [step |-> job.step, reward |-> NoReward]]
  BY DEF CreateRecord
<1>2. UNCHANGED <<config, t, choices, observed, checkpoints>>
  BY DEF CreateRecord, agentVars
<1>3. Before' = Before /\ (Train' <=> Train) /\ job.step = Before + job.task
  BY <1>1, <1>2 DEF Before, Train, Numbered
<1>4. \A k \in Tasks : records'[k] # NoRecord => records'[k].step = Before + k
  BY <1>1, <1>3 DEF Numbered, Types
<1>5. \A s \in Nat : Pointed(s)' <=> Pointed(s)
  BY <1>1, <1>2 DEF Pointed
<1>6. Steps(Before, t)' = Steps(Before, t)
  BY <1>2, <1>3 DEF Steps
<1>7. \A other \in pool' : other \in pool
  BY <1>1
<1> QED BY <1>2, <1>3, <1>4, <1>5, <1>6, <1>7 DEF Numbered

LEMMA SaveCheckpointNumbered == ASSUME IInv, Numbered, SaveCheckpoint PROVE Numbered'
<1> USE DEF IInv
<1>1. PICK job \in pool :
        /\ job.type = "checkpoint" /\ pool' = pool \ {job}
        /\ checkpoints' = checkpoints \union {[step |-> job.step, content |-> Content]}
  BY DEF SaveCheckpoint
<1>2. UNCHANGED <<config, t, choices, observed, records>>
  BY DEF SaveCheckpoint, agentVars
<1>3. Before' = Before /\ (Train' <=> Train) /\ job.step \in Nat
  BY <1>1, <1>2 DEF Before, Train, Jobs
<1>4. \A c \in checkpoints' : c \in checkpoints \/ c.step = job.step
  BY <1>1
<1>5. \E c \in checkpoints' : c.step = job.step
  <2> DEFINE new == [step |-> job.step, content |-> Content]
  <2>1. new.step = job.step
    OBVIOUS
  <2> HIDE DEF new
  <2>2. new \in checkpoints'
    BY <1>1 DEF new
  <2> QED BY <2>1, <2>2
<1>6. \A s \in Nat : Pointed(s)' <=> Pointed(s)
  <2> TAKE s \in Nat
  <2>1. Pointed(s) <=> \/ \E c \in checkpoints : c.step = s
                       \/ \E j \in pool \ {job} : j.type = "checkpoint" /\ j.step = s
                       \/ s = job.step
    BY <1>1 DEF Pointed
  <2>2. (\E c \in checkpoints' : c.step = s) <=> (\E c \in checkpoints : c.step = s) \/ s = job.step
    BY <1>1, <1>4, <1>5
  <2> QED BY <1>1, <2>1, <2>2 DEF Pointed
<1>7. Steps(Before, t)' = Steps(Before, t)
  BY <1>2, <1>3 DEF Steps
<1>8. \A other \in pool' : other \in pool
  BY <1>1
<1> QED BY <1>2, <1>3, <1>4, <1>6, <1>7, <1>8 DEF Numbered

(* A reward is observed once.                                                                    *)
LEMMA ObserveRewardNumbered == ASSUME IInv, Numbered, ObserveReward PROVE Numbered'
<1> USE DEF IInv
<1>1. PICK k \in DOMAIN choices, r \in Rewards :
        /\ k \notin Range(observed) /\ records[k] # NoRecord
        /\ UpdateRecord(k, r) /\ observed' = Append(observed, k)
  BY DEF ObserveReward
<1>2. UNCHANGED <<config, t, choices, pool, checkpoints>>
  BY DEF ObserveReward
<1>3. Before' = Before /\ (Train' <=> Train)
  BY <1>2 DEF Before, Train
<1>4. k \in Tasks
  <2>1. DOMAIN choices = 1..Len(choices) /\ Len(choices) \in Nat /\ Len(choices) <= NumTasks /\ NumTasks \in Nat
    BY SeqIs, LearningAssumption DEF Types
  <2> QED BY <2>1 DEF Tasks
<1>5. /\ DOMAIN observed' = 1..Len(observed) + 1 /\ Len(observed) \in Nat /\ DOMAIN observed = 1..Len(observed)
      /\ observed'[Len(observed) + 1] = k /\ \A i \in 1..Len(observed) : observed'[i] = observed[i]
  BY <1>1, <1>4, AppendIs, SeqIs DEF Types
<1>6. \A i \in DOMAIN observed : observed[i] # k
  BY <1>1 DEF Range
<1>7. \A i, j \in DOMAIN observed' : observed'[i] = observed'[j] => i = j
  BY <1>5, <1>6 DEF Numbered
<1>8. \A j \in Tasks : records'[j].step = records[j].step /\ (records'[j] # NoRecord => records[j] # NoRecord)
  <2> HIDE DEF MultiplyReward
  <2>1. records' = records \/ records' = [records EXCEPT ![k].reward = MultiplyReward(r)]
    BY <1>1 DEF UpdateRecord
  <2>2. records \in [Tasks -> [step : Nat, reward : Int]]
    BY DEF Types
  <2>3. \A j \in Tasks : records'[j] = records[j] \/ (j = k /\ records'[j].step = records[j].step)
    BY <2>1, <2>2
  <2> QED BY <1>1, <2>3
<1>9. \A s \in Nat : Pointed(s)' <=> Pointed(s)
  BY <1>2 DEF Pointed
<1>10. Steps(Before, t)' = Steps(Before, t)
  BY <1>2, <1>3 DEF Steps
<1> QED BY <1>2, <1>3, <1>7, <1>8, <1>9, <1>10 DEF Numbered

LEMMA RestNumbered == ASSUME Numbered, EndRun \/ UNCHANGED vars PROVE Numbered'
<1>1. UNCHANGED <<config, t, choices, pool, records, observed, checkpoints>>
  BY DEF EndRun, vars, agentVars
<1> QED BY <1>1 DEF Numbered, Pointed, Steps, Before, Train

-----------------------------------------------------------------------------
(* The records in order: with nothing left to write, all are there, and each is as many steps in  *)
(* as its task.                                                                                   *)

LEMMA UpToIs == ASSUME NEW n \in Nat PROVE IsFiniteSet(1..n) /\ Cardinality(1..n) = n
<1>1. IsFiniteSet(1..n) /\ Cardinality(1..n) = IF 1 > n THEN 0 ELSE n - 1 + 1
  BY FS_Interval
<1> QED BY <1>1

LEMMA AllChosen ==
  ASSUME IInv, Numbered, Ended
  PROVE  /\ Len(choices) = NumTasks /\ t - NumTasks \in Nat /\ Before = t - NumTasks
         /\ \A k \in Tasks : /\ records[k] \in [step : Nat, reward : Int]
                            /\ records[k] # NoRecord /\ records[k].step = t - NumTasks + k
<1> USE DEF IInv
<1>1. DOMAIN choices = 1..Len(choices) /\ NumTasks \in Nat
  BY SeqIs, LearningAssumption DEF Types
<1>2. Len(choices) = NumTasks
  BY DEF Ended
<1>3. Before = t - NumTasks /\ t - NumTasks \in Nat
  BY <1>2 DEF Before, Numbered
<1>4. ASSUME NEW k \in Tasks
      PROVE  /\ records[k] \in [step : Nat, reward : Int]
             /\ records[k] # NoRecord /\ records[k].step = t - NumTasks + k
  <2>1. k \in DOMAIN choices /\ ~RecordJob(k)
    BY <1>1, <1>2 DEF Tasks, Ended, RecordJob
  <2>2. records[k] # NoRecord
    BY <2>1 DEF Jobs
  <2> QED BY <1>3, <2>2 DEF Types, Numbered
<1> QED BY <1>2, <1>3, <1>4

LEMMA EntriesAre ==
  ASSUME NumTasks \in Nat, NEW b \in Nat,
         \A k \in Tasks : records[k] # NoRecord /\ records[k].step = b + k
  PROVE  RecordsInOrder = [k \in Tasks |-> records[k]]
<1> DEFINE written == {records[k] : k \in Tasks} \ {NoRecord}
           UpTo(r) == {s \in written : s.step <= r.step}
<1>1. written = {records[k] : k \in Tasks}
  OBVIOUS
<1>2. \A j, k \in Tasks : records[j] = records[k] => j = k
  BY DEF Tasks
<1>3. ASSUME NEW n \in 0..NumTasks
      PROVE  /\ IsFiniteSet({records[k] : k \in 1..n})
             /\ Cardinality({records[k] : k \in 1..n}) = n
  <2> DEFINE f == [k \in 1..n |-> records[k]]
             R == {records[k] : k \in 1..n}
  <2>1. f \in Bijection(1..n, R)
    <3>1. \A j, k \in 1..n : j \in Tasks /\ k \in Tasks
      BY DEF Tasks
    <3>2. f \in Injection(1..n, R)
      BY <1>2, <3>1 DEF Injection, IsInjective
    <3>3. f \in Surjection(1..n, R)
      BY DEF Surjection
    <3> QED BY <3>2, <3>3 DEF Bijection
  <2>2. n \in Nat /\ IsFiniteSet(1..n) /\ Cardinality(1..n) = n
    BY UpToIs
  <2> HIDE DEF f, R
  <2>3. IsFiniteSet(R) /\ Cardinality(R) = n
    BY <2>1, <2>2, FS_Bijection DEF ExistsBijection
  <2> QED BY <2>3 DEF R
<1>4. Cardinality(written) = NumTasks
  <2>1. NumTasks \in 0..NumTasks /\ written = {records[k] : k \in 1..NumTasks}
    BY <1>1 DEF Tasks
  <2> HIDE DEF written
  <2> QED BY <1>3, <2>1
<1>5. ASSUME NEW k \in Tasks PROVE Cardinality(UpTo(records[k])) = k
  <2>1. UpTo(records[k]) = {records[j] : j \in 1..k}
    BY <1>1 DEF Tasks
  <2>2. k \in 0..NumTasks
    BY DEF Tasks
  <2> HIDE DEF UpTo
  <2> QED BY <1>3, <2>1, <2>2
<1>6. ASSUME NEW k \in Tasks PROVE (CHOOSE r \in written : Cardinality(UpTo(r)) = k) = records[k]
  <2>1. records[k] \in written /\ Cardinality(UpTo(records[k])) = k
    BY <1>1, <1>5
  <2>2. \A r \in written : Cardinality(UpTo(r)) = k => r = records[k]
    <3> HIDE DEF UpTo
    <3> QED BY <1>1, <1>5
  <2> HIDE DEF UpTo, written
  <2> QED BY <2>1, <2>2
<1>7. RecordsInOrder = [i \in 1..Cardinality(written) |-> CHOOSE r \in written : Cardinality(UpTo(r)) = i]
  BY DEF RecordsInOrder
<1> HIDE DEF written, UpTo
<1> QED BY <1>4, <1>6, <1>7 DEF Tasks

-----------------------------------------------------------------------------
(* The multiples of a number.                                               *)

LEMMA Multiples ==
  ASSUME NEW n \in Nat, NEW m \in Nat \ {0}
  PROVE  /\ n \div m \in Nat /\ n % m \in 0..m-1
         /\ n - (n % m) = (n \div m) * m
         /\ \A j \in Nat : j * m <= n <=> j <= n \div m
<1> DEFINE q == n \div m
           r == n % m
<1>1. q \in Int /\ r \in 0..m-1 /\ n = m * q + r
  OBVIOUS
<1>2. q \in Nat
  OBVIOUS
<1> HIDE DEF q, r
<1>3. n - r = q * m
  BY <1>1, <1>2
<1>4. ASSUME NEW j \in Nat PROVE j * m <= n <=> j <= q
  <2>1. CASE j <= q
    <3>1. q - j \in Nat
      BY <1>2, <2>1
    <3>2. (q - j) * m \in Nat /\ (q - j) * m = q * m - j * m /\ j * m \in Nat /\ q * m \in Nat
      BY <1>2, <3>1
    <3> QED BY <1>1, <1>3, <2>1, <3>2
  <2>2. CASE j > q
    <3>1. j - q - 1 \in Nat
      BY <1>2, <2>2
    <3>2. (j - q - 1) * m \in Nat /\ (j - q - 1) * m = j * m - q * m - m /\ j * m \in Nat /\ q * m \in Nat
      BY <1>2, <3>1
    <3> QED BY <1>1, <1>2, <1>3, <2>2, <3>2
  <2> QED BY <1>2, <2>1, <2>2
<1>5. q \in Nat /\ r \in 0..m-1 /\ n - r = q * m /\ \A j \in Nat : j * m <= n <=> j <= q
  BY <1>1, <1>2, <1>3, <1>4
<1> QED BY <1>5 DEF q, r

LEMMA MultipleIs ==
  ASSUME NEW j \in Nat, NEW m \in Nat \ {0}
  PROVE  j * m \in Nat /\ (j * m) % m = 0 /\ (j * m) \div m = j
<1> DEFINE n == j * m
<1>1. n \in Nat
  OBVIOUS
<1> HIDE DEF n
<1>2. /\ n \div m \in Nat /\ n % m \in 0..m-1 /\ n - (n % m) = (n \div m) * m
      /\ \A i \in Nat : i * m <= n <=> i <= n \div m
  BY <1>1, Multiples
<1> DEFINE q == n \div m
           r == n % m
<1>3. q \in Nat /\ r \in 0..m-1 /\ n - r = q * m /\ \A i \in Nat : i * m <= n <=> i <= q
  BY <1>2
<1> HIDE DEF q, r
<1>4. n = j * m
  BY DEF n
<1>5. j <= q
  BY <1>1, <1>3, <1>4
<1>6. q <= j
  <2> SUFFICES ASSUME q > j PROVE FALSE
    BY <1>3
  <2>1. q - j - 1 \in Nat
    BY <1>3
  <2>2. (q - j - 1) * m \in Nat /\ (q - j - 1) * m = q * m - j * m - m /\ q * m \in Nat
    BY <1>3, <2>1
  <2> QED BY <1>1, <1>3, <1>4, <2>2
<1>7. q = j /\ r = 0
  BY <1>3, <1>4, <1>5, <1>6
<1> QED BY <1>1, <1>7 DEF n, q, r

(* The next number: a new multiple, or the last one is the same. *)
LEMMA NextMultiple ==
  ASSUME NEW n \in Nat, NEW m \in Nat \ {0}
  PROVE  /\ (n + 1) % m = 0 =>
              (n + 1) \div m = n \div m + 1 /\ n % m = m - 1 /\ n + 1 = (n \div m + 1) * m
         /\ (n + 1) % m # 0 =>
              (n + 1) \div m = n \div m /\ (n + 1) % m = (n % m) + 1
<1> DEFINE q == n \div m
           r == n % m
           p == (n + 1) \div m
           s == (n + 1) % m
<1>1. /\ q \in Nat /\ r \in 0..m-1 /\ n - r = q * m
      /\ p \in Nat /\ s \in 0..m-1 /\ (n + 1) - s = p * m
      /\ s = IF r = m - 1 THEN 0 ELSE r + 1
  <2>1. q \in Nat /\ r \in 0..m-1 /\ n - r = q * m
    BY Multiples
  <2>2. p \in Nat /\ s \in 0..m-1 /\ (n + 1) - s = p * m
    <3>1. n + 1 \in Nat
      OBVIOUS
    <3> QED BY <3>1, Multiples
  <2>3. s = IF r = m - 1 THEN 0 ELSE r + 1
    BY NextRemainder
  <2> QED BY <2>1, <2>2, <2>3
<1> HIDE DEF q, r, p, s
<1>2. q * m \in Nat /\ p * m \in Nat /\ (q + 1) * m = q * m + m
  BY <1>1
<1>3. CASE s = 0
  <2>1. r = m - 1 /\ p * m = (q + 1) * m
    BY <1>1, <1>2, <1>3
  <2>2. p = q + 1
    <3>1. (p * m) \div m = p /\ ((q + 1) * m) \div m = q + 1
      BY <1>1, MultipleIs
    <3> QED BY <2>1, <3>1
  <2>3. n + 1 = (q + 1) * m
    BY <1>1, <1>2, <1>3, <2>1
  <2> QED BY <1>3, <2>1, <2>2, <2>3 DEF q, r, p, s
<1>4. CASE s # 0
  <2>1. s = r + 1 /\ p * m = q * m
    BY <1>1, <1>2, <1>4
  <2>2. p = q
    <3>1. (p * m) \div m = p /\ (q * m) \div m = q
      BY <1>1, MultipleIs
    <3> QED BY <2>1, <3>1
  <2> QED BY <1>4, <2>1, <2>2 DEF q, r, p, s
<1> QED BY <1>3, <1>4

-----------------------------------------------------------------------------
(* The loop over the records, as a function that goes from one to the next. *)

Put(current, i, reward) == IF reward = NoReward THEN current ELSE [current EXCEPT ![i] = reward]
Start == [data |-> <<>>, current |-> EmptyInterval, i |-> 1, max |-> 0, best |-> 1]
Turn(before, n) ==
  LET now == Put(before.current, before.i, RecordsInOrder[n].reward)
  IN IF RecordsInOrder[n].step % config.frequency = 0
     THEN [data |-> Append(before.data, now), current |-> EmptyInterval, i |-> 1,
           max |-> IF SumFunction(now) > before.max THEN SumFunction(now) ELSE before.max,
           best |-> IF SumFunction(now) > before.max THEN Len(before.data) + 1 ELSE before.best]
     ELSE [before EXCEPT !.current = now, !.i = @ + 1]
Turns(n, loop) == loop = [m \in 0..n |-> IF m = 0 THEN Start ELSE Turn(loop[m - 1], m)]
Loop == CHOOSE loop : Turns(Len(RecordsInOrder), loop)

LEMMA ValidationIsLast == Validation = Loop[Len(RecordsInOrder)]
BY DEF Validation, Loop, Turns, Turn, Start, Put

LEMMA LoopExists == ASSUME NEW N \in Nat PROVE \E loop : Turns(N, loop)
<1> DEFINE Bad == {n \in Nat : ~\E loop : Turns(n, loop)}
<1>1. Bad = {}
  <2> SUFFICES ASSUME Bad # {} PROVE FALSE
    OBVIOUS
  <2>1. PICK n \in Bad : \A m \in Bad : n <= m
    BY LeastElement
  <2>2. CASE n = 0
    <3> DEFINE g == [m \in 0..0 |-> Start]
    <3>1. Turns(0, g)
      <4>1. g = [m \in 0..0 |-> IF m = 0 THEN Start ELSE Turn(g[m - 1], m)]
        <5>1. \A m \in 0..0 : m = 0
          OBVIOUS
        <5> HIDE DEF Turn
        <5> QED BY <5>1
      <4> HIDE DEF g
      <4> QED BY <4>1 DEF Turns
    <3> QED BY <3>1, <2>2, <2>1
  <2>3. CASE n # 0
    <3>1. n \in Nat /\ n - 1 \in Nat
      BY <2>1, <2>3
    <3>2. PICK g : Turns(n - 1, g)
      <4>1. n - 1 \notin Bad
        <5> HIDE DEF Bad
        <5> QED BY <3>1, <2>1
      <4> QED BY <4>1, <3>1
    <3> DEFINE h == [m \in 0..n |-> IF m = 0 THEN Start ELSE Turn(g[m - 1], m)]
    <3>3. \A m \in 0..n-1 : h[m] = g[m]
      <4>1. g = [m \in 0..n-1 |-> IF m = 0 THEN Start ELSE Turn(g[m - 1], m)]
        BY <3>2 DEF Turns
      <4> TAKE m \in 0..n-1
      <4>2. m \in 0..n
        BY <3>1
      <4>3. g[m] = IF m = 0 THEN Start ELSE Turn(g[m - 1], m)
        BY <4>1
      <4> QED BY <4>2, <4>3
    <3>4. Turns(n, h)
      <4>1. \A m \in 0..n : m # 0 => h[m - 1] = g[m - 1]
        <5> TAKE m \in 0..n
        <5>1. m # 0 => m - 1 \in 0..n-1
          BY <3>1
        <5> HIDE DEF h
        <5> QED BY <5>1, <3>3
      <4>2. \A m \in 0..n : (IF m = 0 THEN Start ELSE Turn(g[m - 1], m)) = (IF m = 0 THEN Start ELSE Turn(h[m - 1], m))
        <5> HIDE DEF h
        <5> QED BY <4>1
      <4>3. h = [m \in 0..n |-> IF m = 0 THEN Start ELSE Turn(g[m - 1], m)]
        OBVIOUS
      <4> HIDE DEF h
      <4> QED BY <4>2, <4>3 DEF Turns
    <3> QED BY <3>4, <2>1
  <2> QED BY <2>2, <2>3
<1> QED BY <1>1

LEMMA LoopIs ==
  ASSUME Len(RecordsInOrder) \in Nat
  PROVE  /\ Loop[0] = Start
         /\ \A n \in 0..Len(RecordsInOrder) : n # 0 => Loop[n] = Turn(Loop[n - 1], n)
<1>1. Turns(Len(RecordsInOrder), Loop)
  BY LoopExists DEF Loop
<1> DEFINE loop == Loop
<1>2. loop = [m \in 0..Len(RecordsInOrder) |-> IF m = 0 THEN Start ELSE Turn(loop[m - 1], m)]
  BY <1>1 DEF Turns
<1> HIDE DEF loop
<1>3. /\ loop[0] = Start
      /\ \A n \in 0..Len(RecordsInOrder) : n # 0 => loop[n] = Turn(loop[n - 1], n)
  BY <1>2
<1> QED BY <1>3 DEF loop

-----------------------------------------------------------------------------
(* What the loop has put together after n records, the first of which is of step b + 1.           *)

Reward(k) == IF records[k].reward = NoReward THEN 0 ELSE records[k].reward
Within(first, last, b) == [k \in Tasks |-> IF b + k \in first..last THEN Reward(k) ELSE 0]
Quotient(n) == n \div config.frequency
Ends(b, i) == (Quotient(b) + i) * config.frequency
Floor(n) == n - (n % config.frequency)

Interval == [1..config.frequency -> Int]
Built(x, n, b) ==
  /\ x = [data |-> x.data, current |-> x.current, i |-> x.i, max |-> x.max, best |-> x.best]
  /\ x.i \in 1..((b + n) % config.frequency) + 1
  /\ x.current \in Interval /\ \A j \in 1..config.frequency : x.i <= j => x.current[j] = 0
  /\ SumFunction(x.current) = SumFunction(Within(Floor(b + n) + 1, b + n, b))
  /\ x.data \in Seq(Interval) /\ Len(x.data) = Quotient(b + n) - Quotient(b)
  /\ \A i \in 1..Len(x.data) :
       SumFunction(x.data[i]) = SumFunction(Within(Ends(b, i) - config.frequency + 1, Ends(b, i), b))

LEMMA BuiltFrom ==
  ASSUME NEW x, NEW n, NEW b, NEW p, p = b + n,
         x = [data |-> x.data, current |-> x.current, i |-> x.i, max |-> x.max, best |-> x.best],
         x.i \in 1..(p % config.frequency) + 1,
         x.current \in Interval, \A j \in 1..config.frequency : x.i <= j => x.current[j] = 0,
         SumFunction(x.current) = SumFunction(Within(Floor(p) + 1, p, b)),
         x.data \in Seq(Interval), Len(x.data) = Quotient(p) - Quotient(b),
         \A i \in 1..Len(x.data) :
           SumFunction(x.data[i]) = SumFunction(Within(Ends(b, i) - config.frequency + 1, Ends(b, i), b))
  PROVE  Built(x, n, b)
<1> DEFINE w == Within(Floor(p) + 1, p, b)
<1>1. SumFunction(x.current) = SumFunction(w) /\ w = Within(Floor(b + n) + 1, b + n, b)
  OBVIOUS
<1> HIDE DEF w
<1>2. SumFunction(x.current) = SumFunction(Within(Floor(b + n) + 1, b + n, b))
  BY <1>1
<1> QED BY <1>2 DEF Built

(* What the end of the run gives the loop. *)
Ordered(b) ==
  /\ NumTasks \in Nat /\ b \in Nat /\ config.frequency \in Nat \ {0}
  /\ \A k \in Tasks : records[k].step = b + k /\ records[k].reward \in Int
  /\ RecordsInOrder = [k \in Tasks |-> records[k]]

LEMMA WithinType ==
  ASSUME NEW b, Ordered(b), NEW first, NEW last
  PROVE  Within(first, last, b) \in [Tasks -> Int] /\ IsFiniteSet(Tasks)
<1>1. \A k \in Tasks : Reward(k) \in Int
  BY DEF Ordered, Reward
<1>2. IsFiniteSet(Tasks)
  BY UpToIs DEF Ordered, Tasks
<1> QED BY <1>1, <1>2 DEF Within

LEMMA NothingWithin ==
  ASSUME NEW b, Ordered(b), NEW n \in Nat
  PROVE  SumFunction(Within(n + 1, n, b)) = 0 /\ SumFunction(EmptyInterval) = 0
<1>1. Within(n + 1, n, b) \in [Tasks -> {0}]
  <2>1. \A k \in Tasks : b + k \notin (n + 1)..n
    BY DEF Ordered, Tasks
  <2> QED BY <2>1 DEF Within
<1>2. IsFiniteSet(Tasks) /\ IsFiniteSet(1..config.frequency)
  BY UpToIs DEF Ordered, Tasks
<1>3. EmptyInterval \in [1..config.frequency -> {0}]
  BY DEF EmptyInterval
<1> QED BY <1>1, <1>2, <1>3, SumOfZeros

LEMMA StartBuilt == ASSUME NEW b, Ordered(b) PROVE Built(Start, 0, b)
<1>1. b \in Nat /\ config.frequency \in Nat \ {0} /\ b + 0 = b
  BY DEF Ordered
<1>2. b % config.frequency \in Nat /\ Quotient(b) \in Nat
  <2>1. b % config.frequency \in 0..config.frequency-1 /\ b \div config.frequency \in Nat
    BY <1>1, Multiples
  <2> QED BY <1>1, <2>1 DEF Quotient
<1>3. EmptyInterval \in Interval /\ \A j \in 1..config.frequency : EmptyInterval[j] = 0
  BY DEF EmptyInterval, Interval
<1>4. SumFunction(Within(Floor(b) + 1, b, b)) = 0 /\ SumFunction(EmptyInterval) = 0
  <2>1. Within(Floor(b) + 1, b, b) = Within(b + 1, b, b)
    <3>1. \A k \in Tasks : b + k \notin (Floor(b) + 1)..b /\ b + k \notin (b + 1)..b
      BY <1>1 DEF Ordered, Tasks
    <3> QED BY <3>1 DEF Within
  <2> QED BY <1>1, <2>1, NothingWithin
<1>5. /\ Start.i = 1 /\ Start.current = EmptyInterval /\ Start.data = <<>>
  BY DEF Start
<1>6. Len(<<>>) = 0 /\ <<>> \in Seq(Interval) /\ 1..0 = {} /\ Quotient(b) - Quotient(b) = 0
  BY <1>2
<1>7. Start = [data |-> Start.data, current |-> Start.current, i |-> Start.i, max |-> Start.max, best |-> Start.best]
  BY DEF Start
<1>8. Start.i \in 1..(b % config.frequency) + 1
  BY <1>2, <1>5
<1> HIDE DEF Start
<1> QED BY <1>1, <1>3, <1>4, <1>5, <1>6, <1>7, <1>8, BuiltFrom

(* One record more in the interval that is filled.                                               *)
LEMMA PutBuilt ==
  ASSUME NEW b, Ordered(b), NEW n \in Nat, n + 1 \in Tasks, NEW x, Built(x, n, b)
  PROVE  LET now == Put(x.current, x.i, RecordsInOrder[n + 1].reward)
         IN /\ now \in Interval /\ x.i \in 1..config.frequency
            /\ \A j \in 1..config.frequency : x.i < j => now[j] = 0
            /\ SumFunction(now) = SumFunction(Within(Floor(b + n) + 1, b + n + 1, b))
<1> DEFINE f == config.frequency
           r == records[n + 1].reward
           now == Put(x.current, x.i, r)
           old == Within(Floor(b + n) + 1, b + n, b)
           new == Within(Floor(b + n) + 1, b + n + 1, b)
<1>1. /\ b \in Nat /\ f \in Nat \ {0} /\ r \in Int /\ RecordsInOrder[n + 1].reward = r
  BY DEF Ordered
<1>2. (b + n) % f \in 0..f-1 /\ b + n \in Nat
  <2>1. b + n \in Nat
    BY <1>1
  <2> QED BY <1>1, <2>1, Multiples
<1>3. x.i \in 1..f /\ x.current \in [1..f -> Int] /\ \A j \in 1..f : x.i <= j => x.current[j] = 0
  <2>1. /\ x.i \in 1..((b + n) % f) + 1 /\ x.current \in [1..f -> Int]
        /\ \A j \in 1..f : x.i <= j => x.current[j] = 0
    BY DEF Built, Interval
  <2> QED BY <1>1, <1>2, <2>1
<1>4. /\ now \in [1..f -> Int] /\ now[x.i] = Reward(n + 1)
      /\ \A j \in 1..f : j # x.i => now[j] = x.current[j]
  BY <1>1, <1>3 DEF Put, Reward
<1>5. IsFiniteSet(1..f)
  BY <1>1, UpToIs
<1>6. SumFunction(now) = SumFunction(x.current) + now[x.i] - x.current[x.i]
  <2> DEFINE S == 1..f
             g == x.current
             i == x.i
  <2>1. /\ IsFiniteSet(S) /\ g \in [S -> Int] /\ now \in [S -> Int] /\ i \in S
        /\ \A j \in S : j # i => now[j] = g[j]
    BY <1>3, <1>4, <1>5
  <2> HIDE DEF S, g, i, now
  <2>2. SumFunction(now) = SumFunction(g) + now[i] - g[i]
    BY <2>1, SumChanges
  <2> QED BY <2>2 DEF g, i
<1>7. x.current[x.i] = 0 /\ SumFunction(x.current) \in Int /\ Reward(n + 1) \in Int
  <2>1. SumFunction(x.current) \in Int
    <3> HIDE DEF f
    <3> QED BY <1>3, <1>5, SumType
  <2> QED BY <1>1, <1>3, <2>1 DEF Reward
<1>8. SumFunction(now) = SumFunction(x.current) + Reward(n + 1)
  <2> HIDE DEF now
  <2> QED BY <1>4, <1>6, <1>7
<1>9. old \in [Tasks -> Int] /\ new \in [Tasks -> Int] /\ IsFiniteSet(Tasks)
  BY WithinType
<1>10. Floor(b + n) \in Int /\ Floor(b + n) <= b + n
  BY <1>2 DEF Floor
<1>11. \A k \in Tasks : k # n + 1 => (b + k \in (Floor(b + n) + 1)..(b + n + 1) <=> b + k \in (Floor(b + n) + 1)..(b + n))
  BY <1>1, <1>10 DEF Tasks
<1>12. /\ b + (n + 1) \in (Floor(b + n) + 1)..(b + n + 1)
       /\ b + (n + 1) \notin (Floor(b + n) + 1)..(b + n)
  BY <1>1, <1>10
<1>13. /\ \A k \in Tasks : k # n + 1 => new[k] = old[k]
       /\ new[n + 1] = Reward(n + 1) /\ old[n + 1] = 0
  BY <1>11, <1>12 DEF Within
<1>14. SumFunction(new) = SumFunction(old) + new[n + 1] - old[n + 1]
  <2> HIDE DEF new, old
  <2> QED BY <1>9, <1>13, SumChanges
<1>15. SumFunction(x.current) = SumFunction(old)
  BY DEF Built
<1>16. SumFunction(now) = SumFunction(new)
  <2> HIDE DEF now, new, old
  <2> QED BY <1>7, <1>8, <1>13, <1>14, <1>15
<1>17. \A j \in 1..f : x.i < j => now[j] = 0
  <2> HIDE DEF now
  <2> QED BY <1>3, <1>4
<1> QED BY <1>1, <1>3, <1>4, <1>16, <1>17 DEF Interval

(* One turn: the interval that is complete becomes data, or is filled further.                   *)
LEMMA TurnBuilt ==
  ASSUME NEW b, Ordered(b), NEW n \in Nat, n + 1 \in Tasks, NEW x, Built(x, n, b)
  PROVE  Built(Turn(x, n + 1), n + 1, b)
<1> DEFINE f == config.frequency
           m == b + n
           now == Put(x.current, x.i, RecordsInOrder[n + 1].reward)
           y == Turn(x, n + 1)
<1>1. /\ b \in Nat /\ f \in Nat \ {0} /\ m \in Nat /\ b + (n + 1) = m + 1 /\ b + n + 1 = m + 1
      /\ RecordsInOrder[n + 1].step = m + 1
  BY DEF Ordered
<1>2. /\ now \in Interval /\ x.i \in 1..f /\ \A j \in 1..f : x.i < j => now[j] = 0
      /\ SumFunction(now) = SumFunction(Within(Floor(m) + 1, m + 1, b))
  BY <1>1, PutBuilt
<1>3. /\ x.i \in 1..(m % f) + 1 /\ x.data \in Seq(Interval) /\ Len(x.data) = Quotient(m) - Quotient(b)
      /\ \A i \in 1..Len(x.data) :
           SumFunction(x.data[i]) = SumFunction(Within(Ends(b, i) - f + 1, Ends(b, i), b))
  BY DEF Built
<1>4. /\ m \div f \in Nat /\ m % f \in 0..f-1 /\ b \div f \in Nat
      /\ (m + 1) % f = 0 =>
           (m + 1) \div f = m \div f + 1 /\ m % f = f - 1 /\ m + 1 = (m \div f + 1) * f
      /\ (m + 1) % f # 0 =>
           (m + 1) \div f = m \div f /\ (m + 1) % f = (m % f) + 1
  <2>1. m \div f \in Nat /\ m % f \in 0..f-1 /\ b \div f \in Nat
    BY <1>1, Multiples
  <2> HIDE DEF m, f
  <2> QED BY <1>1, <2>1, NextMultiple
<1>5. Len(x.data) \in Nat
  BY <1>3, LenProperties
<1> HIDE DEF now
<1>6. CASE (m + 1) % f = 0
  <2>1. /\ y.data = Append(x.data, now) /\ y.current = EmptyInterval /\ y.i = 1
        /\ y = [data |-> y.data, current |-> y.current, i |-> y.i, max |-> y.max, best |-> y.best]
    BY <1>1, <1>6 DEF Turn, now
  <2>2. /\ y.data \in Seq(Interval) /\ Len(y.data) = Len(x.data) + 1 /\ y.data[Len(x.data) + 1] = now
        /\ \A i \in 1..Len(x.data) : y.data[i] = x.data[i]
    <3> DEFINE d == x.data
               e == y.data
    <3>1. d \in Seq(Interval) /\ now \in Interval /\ e = Append(d, now)
      BY <1>2, <1>3, <2>1
    <3> HIDE DEF d, e
    <3>2. /\ e \in Seq(Interval) /\ Len(e) = Len(d) + 1 /\ e[Len(d) + 1] = now
          /\ \A i \in 1..Len(d) : e[i] = d[i]
      BY <3>1, AppendIs
    <3> QED BY <3>2 DEF d, e
  <2>3. Quotient(m + 1) = Quotient(m) + 1 /\ Quotient(m) \in Nat /\ Quotient(b) \in Nat
    BY <1>4, <1>6 DEF Quotient
  <2>4. Len(y.data) = Quotient(m + 1) - Quotient(b)
    BY <1>3, <1>5, <2>2, <2>3
  <2>5. Ends(b, Len(x.data) + 1) = m + 1
    <3>1. Quotient(b) + (Len(x.data) + 1) = Quotient(m) + 1
      BY <1>3, <1>5, <2>3
    <3> QED BY <1>4, <1>6, <3>1 DEF Ends, Quotient
  <2>6. Floor(m) + 1 = (m + 1) - f + 1 /\ Floor(m + 1) = m + 1
    <3>1. Floor(m) = m - (f - 1) /\ Floor(m + 1) = (m + 1) - 0
      BY <1>4, <1>6 DEF Floor
    <3>2. m \in Int /\ f \in Int
      BY <1>1
    <3> HIDE DEF m, f
    <3> QED BY <3>1, <3>2
  <2>7. \A i \in 1..Len(y.data) :
           SumFunction(y.data[i]) = SumFunction(Within(Ends(b, i) - f + 1, Ends(b, i), b))
    <3> TAKE i \in 1..Len(y.data)
    <3>1. CASE i \in 1..Len(x.data)
      BY <1>3, <2>2, <3>1
    <3>2. CASE i = Len(x.data) + 1
      BY <1>2, <2>2, <2>5, <2>6, <3>2
    <3> QED BY <1>5, <2>2, <3>1, <3>2
  <2>8. SumFunction(EmptyInterval) = 0 /\ SumFunction(Within(Floor(m + 1) + 1, m + 1, b)) = 0
    BY <1>1, <2>6, NothingWithin
  <2>9. EmptyInterval \in Interval /\ \A j \in 1..f : EmptyInterval[j] = 0
    BY DEF EmptyInterval, Interval
  <2>10. y.i \in 1..((m + 1) % f) + 1
    BY <1>6, <2>1
  <2>11. SumFunction(y.current) = SumFunction(Within(Floor(m + 1) + 1, m + 1, b))
    BY <2>1, <2>8
  <2> HIDE DEF y, m
  <2>12. Built(y, n + 1, b)
    BY <1>1, <2>1, <2>2, <2>4, <2>7, <2>9, <2>10, <2>11, BuiltFrom
  <2> QED BY <2>12 DEF y
<1>7. CASE (m + 1) % f # 0
  <2>1. /\ y.data = x.data /\ y.current = now /\ y.i = x.i + 1
        /\ y = [data |-> y.data, current |-> y.current, i |-> y.i, max |-> y.max, best |-> y.best]
    <3>1. x = [data |-> x.data, current |-> x.current, i |-> x.i, max |-> x.max, best |-> x.best]
      BY DEF Built
    <3>2. y = [x EXCEPT !.current = now, !.i = @ + 1]
      BY <1>1, <1>7 DEF Turn, now
    <3>3. y = [data |-> x.data, current |-> now, i |-> x.i + 1, max |-> x.max, best |-> x.best]
      <4> HIDE DEF y
      <4> QED BY <3>1, <3>2
    <3> HIDE DEF y
    <3> QED BY <3>3
  <2>2. Quotient(m + 1) = Quotient(m) /\ Floor(m + 1) = Floor(m) /\ (m + 1) % f = (m % f) + 1
    <3>1. m \in Nat /\ m % f \in 0..f-1 /\ (m + 1) % f = (m % f) + 1 /\ (m + 1) \div f = m \div f
      BY <1>1, <1>4, <1>7
    <3>2. Floor(m + 1) = (m + 1) - ((m % f) + 1) /\ Floor(m) = m - (m % f)
      BY <3>1 DEF Floor
    <3> DEFINE r == m % f
    <3>3. r \in Int /\ m \in Int /\ (m + 1) - (r + 1) = m - r
      <4>1. r \in Int /\ m \in Int
        BY <1>1, <1>4
      <4> HIDE DEF r, m
      <4> QED BY <4>1
    <3> QED BY <3>1, <3>2, <3>3 DEF Quotient
  <2>3. y.i \in 1..((m + 1) % f) + 1
    BY <1>3, <1>4, <2>1, <2>2
  <2>4. \A j \in 1..f : y.i <= j => y.current[j] = 0
    <3>1. \A j \in 1..f : x.i + 1 <= j => x.i < j
      BY <1>1, <1>2
    <3> QED BY <1>2, <2>1, <3>1
  <2>5. /\ y.current \in Interval /\ y.data \in Seq(Interval) /\ Len(y.data) = Quotient(m + 1) - Quotient(b)
        /\ \A i \in 1..Len(y.data) :
             SumFunction(y.data[i]) = SumFunction(Within(Ends(b, i) - f + 1, Ends(b, i), b))
        /\ SumFunction(y.current) = SumFunction(Within(Floor(m + 1) + 1, m + 1, b))
    BY <1>2, <1>3, <2>1, <2>2
  <2> HIDE DEF y, m
  <2>6. Built(y, n + 1, b)
    BY <1>1, <2>1, <2>3, <2>4, <2>5, BuiltFrom
  <2> QED BY <2>6 DEF y
<1> QED BY <1>6, <1>7

-----------------------------------------------------------------------------
(* The end of the run. *)

DataByStep(data, seen) ==
  /\ Train => {c.step : c \in checkpoints} = {End(i) : i \in DOMAIN data}
  /\ \A i \in DOMAIN data :
       SumFunction(data[i]) = SumFunction([k \in Tasks |->
         IF /\ records[k].step \in End(i) - config.frequency + 1 .. End(i)
            /\ k \in seen /\ records[k].reward # NoReward
         THEN records[k].reward ELSE 0])

(* What was not observed has no reward, and what is observed after the end was not seen by it.    *)
Unrewarded == \A k \in Tasks : k \notin Range(observed) => records[k].reward = NoReward
Judged ==
  /\ Unrewarded
  /\ saved # <<>> =>
       Ended /\ saved[1].seen \subseteq Range(observed) /\ DataByStep(saved[1].data, saved[1].seen)

LEMMA LoopBuilt ==
  ASSUME NEW b, Ordered(b)
  PROVE  Built(Validation, NumTasks, b)
<1>1. NumTasks \in Nat /\ Len(RecordsInOrder) = NumTasks
  <2>1. NumTasks \in Nat /\ RecordsInOrder = [k \in 1..NumTasks |-> records[k]]
    BY DEF Ordered, Tasks
  <2> QED BY <2>1
<1>2. Loop[0] = Start /\ \A n \in 0..NumTasks : n # 0 => Loop[n] = Turn(Loop[n - 1], n)
  BY <1>1, LoopIs
<1> DEFINE Bad == {n \in 0..NumTasks : ~Built(Loop[n], n, b)}
<1>3. Bad = {}
  <2> SUFFICES ASSUME Bad # {} PROVE FALSE
    OBVIOUS
  <2>1. PICK n \in Bad : \A m \in Bad : n <= m
    <3>1. Bad \in SUBSET Nat
      OBVIOUS
    <3> HIDE DEF Bad
    <3> QED BY <3>1, LeastElement
  <2>2. n # 0
    BY <1>2, <2>1, StartBuilt
  <2>3. n - 1 \in Nat /\ n - 1 \in 0..NumTasks /\ n \in Tasks /\ (n - 1) + 1 = n
    BY <1>1, <2>1, <2>2 DEF Tasks
  <2>4. Built(Loop[n - 1], n - 1, b)
    <3>1. n - 1 \notin Bad
      <4>1. ~(n <= n - 1)
        BY <2>3
      <4> HIDE DEF Bad
      <4> QED BY <2>1, <4>1
    <3> QED BY <2>3, <3>1
  <2>5. Built(Turn(Loop[n - 1], (n - 1) + 1), (n - 1) + 1, b)
    BY <2>3, <2>4, TurnBuilt
  <2>6. Built(Loop[n], n, b)
    BY <1>2, <2>1, <2>2, <2>3, <2>5
  <2> QED BY <2>1, <2>6
<1>4. NumTasks \in 0..NumTasks /\ Validation = Loop[NumTasks]
  BY <1>1, ValidationIsLast
<1> QED BY <1>3, <1>4

(* The checkpoints are of the steps that are multiples of the frequency.                         *)
LEMMA CheckpointSteps ==
  ASSUME NEW b \in Nat, b <= t, t \in Nat, config.frequency \in Nat \ {0}, b = t - NumTasks
  PROVE  Steps(b, t) = {End(i) : i \in 1..(Quotient(t) - Quotient(b))}
<1> DEFINE f == config.frequency
           q == Quotient(b)
           p == Quotient(t)
<1>1. /\ q \in Nat /\ \A j \in Nat : j * f <= b <=> j <= q
      /\ p \in Nat /\ \A j \in Nat : j * f <= t <=> j <= p
  <2>1. q \in Nat /\ \A j \in Nat : j * f <= b <=> j <= q
    BY Multiples DEF Quotient
  <2>2. p \in Nat /\ \A j \in Nat : j * f <= t <=> j <= p
    BY Multiples DEF Quotient
  <2> QED BY <2>1, <2>2
<1>2. \A i \in Nat : End(i) = (q + i) * f
  BY DEF End, Quotient
<1> HIDE DEF q, p
<1>3. ASSUME NEW s \in Steps(b, t) PROVE \E i \in 1..(p - q) : s = End(i)
  <2>1. s \in Nat /\ b < s /\ s <= t /\ s % f = 0
    BY DEF Steps
  <2>2. s \div f \in Nat /\ s - (s % f) = (s \div f) * f
    BY <2>1, Multiples
  <2> DEFINE j == s \div f
  <2>3. j \in Nat /\ s = j * f
    BY <2>1, <2>2
  <2> HIDE DEF j
  <2>4. ~(j <= q) /\ j <= p
    <3>1. ~(j * f <= b) /\ j * f <= t
      BY <2>1, <2>3
    <3> QED BY <1>1, <2>3, <3>1
  <2>5. j - q \in 1..(p - q) /\ j - q \in Nat /\ q + (j - q) = j
    BY <1>1, <2>3, <2>4
  <2>6. End(j - q) = s
    BY <1>2, <2>3, <2>5
  <2> QED BY <2>5, <2>6
<1>4. ASSUME NEW i \in 1..(p - q) PROVE End(i) \in Steps(b, t)
  <2>1. i \in Nat /\ q + i \in Nat /\ ~(q + i <= q) /\ q + i <= p
    BY <1>1
  <2> DEFINE j == q + i
  <2>2. j \in Nat /\ ~(j <= q) /\ j <= p /\ End(i) = j * f
    BY <1>2, <2>1
  <2> HIDE DEF j
  <2>3. j * f \in Nat /\ (j * f) % f = 0
    BY <2>2, MultipleIs
  <2>4. ~(j * f <= b) /\ j * f <= t
    BY <1>1, <2>2
  <2>5. b < j * f
    BY <2>3, <2>4
  <2> QED BY <2>2, <2>3, <2>4, <2>5 DEF Steps
<1> QED BY <1>3, <1>4 DEF p, q

LEMMA ValidationJudges ==
  ASSUME IInv, Numbered, Unrewarded, Ended
  PROVE  DataByStep(Validation.data, Range(observed))
<1> DEFINE b == t - NumTasks
           f == config.frequency
           x == Validation
<1>1. /\ b \in Nat /\ Before = b /\ NumTasks \in Nat /\ f \in Nat \ {0} /\ b + NumTasks = t /\ t \in Nat /\ b <= t
      /\ \A k \in Tasks : records[k] \in [step : Nat, reward : Int] /\ records[k] # NoRecord /\ records[k].step = b + k
  <2>1. /\ b \in Nat /\ Before = b
        /\ \A k \in Tasks : records[k] \in [step : Nat, reward : Int] /\ records[k] # NoRecord /\ records[k].step = b + k
    BY AllChosen
  <2>2. NumTasks \in Nat /\ f \in Nat \ {0} /\ t \in Nat
    BY LearningAssumption, ConfigIs DEF IInv, Types
  <2>3. b + NumTasks = t /\ b <= t
    BY <2>2
  <2> QED BY <2>1, <2>2, <2>3
<1> HIDE DEF b
<1>2. Ordered(b)
  <2>1. RecordsInOrder = [k \in Tasks |-> records[k]]
    BY <1>1, EntriesAre
  <2> QED BY <1>1, <2>1 DEF Ordered
<1>3. Built(x, NumTasks, b)
  BY <1>2, LoopBuilt
<1>4. /\ x.data \in Seq(Interval) /\ Len(x.data) = Quotient(t) - Quotient(b)
      /\ \A i \in 1..Len(x.data) :
           SumFunction(x.data[i]) = SumFunction(Within(Ends(b, i) - f + 1, Ends(b, i), b))
  BY <1>1, <1>3 DEF Built
<1>5. DOMAIN x.data = 1..(Quotient(t) - Quotient(b))
  <2> DEFINE d == x.data
  <2>1. d \in Seq(Interval)
    BY <1>4
  <2> HIDE DEF d
  <2>2. DOMAIN d = 1..Len(d)
    BY <2>1, SeqIs
  <2> QED BY <1>4, <2>2 DEF d
<1>6. ASSUME Train PROVE {c.step : c \in checkpoints} = {End(i) : i \in DOMAIN x.data}
  <2>1. Steps(b, t) = {End(i) : i \in DOMAIN x.data}
    BY <1>1, <1>5, CheckpointSteps DEF b
  <2>2. \A s \in Nat : (\E c \in checkpoints : c.step = s) <=> s \in Steps(b, t)
    BY <1>1, <1>6 DEF Numbered, Pointed, Ended
  <2>3. \A c \in checkpoints : c.step \in Nat
    BY DEF Numbered
  <2>4. {c.step : c \in checkpoints} = Steps(b, t)
    BY <2>2, <2>3 DEF Steps
  <2> QED BY <2>1, <2>4
<1>7. ASSUME NEW i \in DOMAIN x.data
      PROVE  Within(Ends(b, i) - f + 1, Ends(b, i), b)
               = [k \in Tasks |->
                    IF /\ records[k].step \in End(i) - f + 1 .. End(i)
                       /\ k \in Range(observed) /\ records[k].reward # NoReward
                    THEN records[k].reward ELSE 0]
  <2>1. Ends(b, i) = End(i)
    BY DEF Ends, End, Quotient, b
  <2>2. \A k \in Tasks : k \in Range(observed) \/ records[k].reward = NoReward
    BY DEF Unrewarded
  <2> QED BY <1>1, <2>1, <2>2 DEF Within, Reward
<1>8. \A i \in DOMAIN x.data : i \in 1..Len(x.data)
  BY <1>4, <1>5
<1> HIDE DEF x
<1> QED BY <1>4, <1>6, <1>7, <1>8 DEF DataByStep, x

(* A reward that comes now leaves those that were there as they are.                              *)
LEMMA OthersKept ==
  ASSUME IInv, Unrewarded, ObserveReward
  PROVE  /\ \A k \in Range(observed) : k \in Tasks => records'[k] = records[k]
         /\ \A k \in Tasks : records'[k].step = records[k].step
         /\ Range(observed) \subseteq Range(observed') /\ Unrewarded'
<1> USE DEF IInv
<1>1. PICK k \in DOMAIN choices, r \in Rewards :
        k \notin Range(observed) /\ UpdateRecord(k, r) /\ observed' = Append(observed, k)
  BY DEF ObserveReward
<1>2. k \in Tasks
  <2>1. DOMAIN choices = 1..Len(choices) /\ Len(choices) \in Nat /\ Len(choices) <= NumTasks /\ NumTasks \in Nat
    BY SeqIs, LearningAssumption DEF Types
  <2> QED BY <2>1 DEF Tasks
<1>3. Range(observed') = Range(observed) \union {k}
  BY <1>1, <1>2, AppendIs DEF Types
<1>4. \A j \in Tasks : records'[j] = records[j] \/ (j = k /\ records'[j].step = records[j].step)
  <2> HIDE DEF MultiplyReward
  <2>1. records' = records \/ records' = [records EXCEPT ![k].reward = MultiplyReward(r)]
    BY <1>1 DEF UpdateRecord
  <2>2. records \in [Tasks -> [step : Nat, reward : Int]]
    BY DEF Types
  <2> QED BY <2>1, <2>2
<1> QED BY <1>1, <1>3, <1>4 DEF Unrewarded

LEMMA NextJudged == ASSUME IInv, Numbered, Judged, [Next]_vars PROVE Judged'
<1>1. CASE EndRun
  <2>1. UNCHANGED <<config, t, choices, pool, records, observed, checkpoints>>
    BY <1>1 DEF EndRun, agentVars
  <2>2. Ended /\ saved'[1].data = Validation.data /\ saved'[1].seen = Range(observed)
    BY <1>1 DEF EndRun, Ended
  <2>3. DataByStep(Validation.data, Range(observed))
    BY <2>2, ValidationJudges DEF Judged
  <2>4. Ended' /\ Unrewarded'
    BY <2>1, <2>2 DEF Ended, Unrewarded, Judged
  <2>5. DataByStep(saved[1].data, saved[1].seen)'
    BY <2>1, <2>2, <2>3 DEF DataByStep, End, Train
  <2> QED BY <2>1, <2>2, <2>4, <2>5 DEF Judged
<1>2. CASE UNCHANGED vars
  BY <1>2 DEF vars, agentVars, Judged, Ended, Unrewarded, DataByStep, End, Train
<1>3. CASE ObserveReward
  <2>1. UNCHANGED <<config, t, choices, pool, checkpoints, saved>>
    BY <1>3 DEF ObserveReward
  <2>2. /\ \A k \in Range(observed) : k \in Tasks => records'[k] = records[k]
        /\ \A k \in Tasks : records'[k].step = records[k].step
        /\ Range(observed) \subseteq Range(observed') /\ Unrewarded'
    BY <1>3, OthersKept DEF Judged
  <2>3. ASSUME saved # <<>> PROVE DataByStep(saved[1].data, saved[1].seen)'
    <3> DEFINE data == saved[1].data
               seen == saved[1].seen
               Here(i, k) == IF /\ records[k].step \in End(i) - config.frequency + 1 .. End(i)
                                /\ k \in seen /\ records[k].reward # NoReward
                             THEN records[k].reward ELSE 0
               Then(i, k) == IF /\ records'[k].step \in End(i) - config.frequency + 1 .. End(i)
                                /\ k \in seen /\ records'[k].reward # NoReward
                             THEN records'[k].reward ELSE 0
    <3>1. DataByStep(data, seen) /\ seen \subseteq Range(observed)
      BY <2>3 DEF Judged
    <3>2. data' = data /\ seen' = seen /\ (Train' <=> Train) /\ \A i : End(i)' = End(i)
      BY <2>1 DEF Train, End
    <3>3. \A i : \A k \in Tasks : Here(i, k) = Then(i, k)
      BY <2>2, <3>1
    <3>4. \A i : [k \in Tasks |-> Here(i, k)] = [k \in Tasks |-> Then(i, k)]
      BY <3>3
    <3>5. \A i \in DOMAIN data : SumFunction(data[i]) = SumFunction([k \in Tasks |-> Then(i, k)])
      <4> TAKE i \in DOMAIN data
      <4>1. SumFunction(data[i]) = SumFunction([k \in Tasks |-> Here(i, k)])
        BY <3>1 DEF DataByStep
      <4> QED BY <3>4, <4>1
    <3>6. Train => {c.step : c \in checkpoints} = {End(i) : i \in DOMAIN data}
      BY <3>1 DEF DataByStep
    <3>7. DataByStep(data, seen)' <=>
            /\ Train => {c.step : c \in checkpoints} = {End(i) : i \in DOMAIN data}
            /\ \A i \in DOMAIN data : SumFunction(data[i]) = SumFunction([k \in Tasks |-> Then(i, k)])
      BY <2>1, <3>2 DEF DataByStep, End, Train
    <3> QED BY <3>5, <3>6, <3>7
  <2>4. Ended' <=> Ended
    BY <2>1 DEF Ended
  <2> QED BY <2>1, <2>2, <2>3, <2>4 DEF Judged
<1>4. CASE ChooseAction \/ CreateRecord \/ SaveCheckpoint
  <2>1. saved' = saved /\ observed' = observed
    BY <1>4 DEF ChooseAction, CreateRecord, SaveCheckpoint
  <2>2. saved = <<>>
    BY <1>4 DEF ChooseAction, CreateRecord, SaveCheckpoint, Judged, Ended
  <2>3. Unrewarded'
    <3>1. records' = records \/ \E job \in pool : records' = [records EXCEPT ![job.task] = [step |-> job.step, reward |-> NoReward]]
      BY <1>4 DEF ChooseAction, CreateRecord, SaveCheckpoint
    <3>2. records \in [Tasks -> [step : Nat, reward : Int]]
      BY DEF IInv, Types
    <3>3. \A k \in Tasks : records'[k] = records[k] \/ records'[k].reward = NoReward
      <4> TAKE k \in Tasks
      <4>1. ASSUME NEW job \in pool,
                   records' = [records EXCEPT ![job.task] = [step |-> job.step, reward |-> NoReward]]
            PROVE  records'[k] = records[k] \/ records'[k].reward = NoReward
        <5>1. CASE job.task = k
          <6>1. records'[k] = [step |-> job.step, reward |-> NoReward]
            BY <3>2, <4>1, <5>1
          <6> QED BY <6>1
        <5>2. CASE job.task # k
          BY <3>2, <4>1, <5>2
        <5> QED BY <5>1, <5>2
      <4> QED BY <3>1, <4>1
    <3> QED BY <2>1, <3>3 DEF Unrewarded, Judged
  <2> QED BY <2>1, <2>2, <2>3 DEF Judged
<1> QED BY <1>1, <1>2, <1>3, <1>4 DEF Next

-----------------------------------------------------------------------------
(* The theorems.                                                            *)

(* The inductive invariant of the agent, whatever its type and configuration.                    *)
THEOREM LearningInvariant == Spec => []IInv
<1>1. Init => IInv
  BY InitInv
<1>2. IInv /\ [Next]_vars => IInv'
  BY ChooseInv, CreateRecordInv, SaveCheckpointInv, ObserveRewardInv, RestInv DEF Next
<1> QED BY <1>1, <1>2, PTL DEF Spec

(* Every variable of an agent holds a value the code can give it; every choice has a record or   *)
(* one to be written, and the replay holds only what was observed (choose_action, create_record). *)
THEOREM TypeCorrect == Spec => []TypeOK
<1>1. IInv => TypeOK
  <2> SUFFICES ASSUME IInv PROVE TypeOK
    OBVIOUS
  <2>1. DOMAIN choices \subseteq Tasks
    <3>1. DOMAIN choices = 1..Len(choices) /\ Len(choices) \in Nat /\ Len(choices) <= NumTasks /\ NumTasks \in Nat
      BY SeqIs, LearningAssumption DEF IInv, Types
    <3> QED BY <3>1 DEF Tasks
  <2>2. \A k \in DOMAIN choices : records[k] = NoRecord <=> \E job \in pool : job.type = "record" /\ job.task = k
    BY <2>1 DEF IInv, Jobs, RecordJob
  <2> QED BY <2>2 DEF IInv, Types, Jobs, TypeOK, Choice
<1> QED BY <1>1, LearningInvariant, PTL

(* The agent keeps up with the rewards and forgets no action, in whatever order the rewards come: *)
(* the replay holds as many experiences as it may and the last one (ExperienceReplay.push), the   *)
(* target network is never 'update' steps behind (_optimize), and the choices of LRU and LinUCB   *)
(* come round (_choose_action).                                                                   *)
THEOREM KeepsUp == Spec => []LearningKeepsUp
<1>1. IInv => LearningKeepsUp
  <2> SUFFICES ASSUME IInv PROVE LearningKeepsUp
    OBVIOUS
  <2>1. target <= weights /\ weights - target < config.update /\ lesson.evaluator <= lesson.chooser
    <3>1. /\ config.update \in Nat \ {0} /\ nObs \in Nat /\ weights \in Nat /\ target \in Nat
      BY ConfigIs DEF IInv, Types
    <3>2. Since \in Nat /\ Since <= config.update
      BY <3>1, SinceIs
    <3>3. target <= weights /\ weights - target < Since /\ lesson.evaluator <= lesson.chooser
      BY DEF IInv, Behind
    <3> QED BY <3>1, <3>2, <3>3
  <2> QED BY <2>1 DEF IInv, LearningKeepsUp, TargetFollows
<1> QED BY <1>1, LearningInvariant, PTL

(* The validation is right when it is saved: its intervals are those of the checkpoints, and each *)
(* has the rewards of the steps that led to its checkpoint, as far as they came by the end of the *)
(* run, in whatever order they came and the records and the checkpoints were written              *)
(* (compute_validation_reward).                                                                  *)
THEOREM ValidationIsByStep == Spec => []ValidationByStep
<1>1. Init => Numbered /\ Judged
  <2>1. Init => saved = <<>> /\ Unrewarded
    BY DEF Init, Unrewarded, NoRecord
  <2> QED BY <2>1, InitNumbered DEF Judged
<1>2. IInv /\ Numbered /\ Judged /\ [Next]_vars => Numbered' /\ Judged'
  BY ChooseNumbered, CreateRecordNumbered, SaveCheckpointNumbered, ObserveRewardNumbered, RestNumbered,
     NextJudged DEF Next
<1>3. Judged => ValidationByStep
  BY DEF Judged, DataByStep, ValidationByStep
<1> QED BY <1>1, <1>2, <1>3, LearningInvariant, PTL DEF Spec

=============================================================================
