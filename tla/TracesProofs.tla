---------------------------- MODULE TracesProofs ----------------------------
(***************************************************************************)
(* Nothing that was read of the traces is lost, every job becomes a task,  *)
(* and what is exported can be asked for: for any files and any number of  *)
(* threads and of processes, which do any steps in any order, with any     *)
(* downloads that fail and the cleaner and the export whenever they may    *)
(* be run. The invariant says                                              *)
(*   Queued     what is still to be taken in a step is what the step is    *)
(*              about, and that each thread is in it;                      *)
(*   Stored     a document has the hash of its event in a process that has *)
(*              begun, and no two of one hash differ, so that the copies   *)
(*              the cleaner removes are those of what it keeps;            *)
(*   ReadSoFar  an event of a file that is being read is saved, still to   *)
(*              be read, or in the batch, and what was looked up of a      *)
(*              batch is saved or among what is to be inserted;            *)
(*   Extracted  a job that has ended is in its class, or the class is to   *)
(*              be extracted;                                              *)
(*   Rows       the rows are numbered by their start, and so is what is    *)
(*              exported.                                                  *)
(* Loops and orders are recursive functions, that is, chosen ones: that    *)
(* there are any to choose is shown first (LoopsExist in Sums, and         *)
(* OrdersExist), by a least number of turns, or a smallest set, for which  *)
(* there would be none.                                                    *)
(***************************************************************************)
EXTENDS TraceDataset, Sums, SequenceTheorems

-----------------------------------------------------------------------------
(* Sets by their subsets. *)

(* Sets, each of which has what those with one element less have. *)
LEMMA BySubsets ==
  ASSUME NEW S, IsFiniteSet(S), NEW P,
         \A T \in SUBSET S : (\A x \in T : T \ {x} \in P) => T \in P
  PROVE  \A T \in SUBSET S : T \in P
<1> DEFINE Bad == {T \in SUBSET S : T \notin P}
<1> SUFFICES ASSUME Bad # {} PROVE FALSE
  OBVIOUS
<1>1. PICK T \in Bad : \A U \in SUBSET S : Cardinality(U) < Cardinality(T) => U \notin Bad
  <2>1. Bad \in SUBSET SUBSET S
    OBVIOUS
  <2> HIDE DEF Bad
  <2> QED BY <2>1, SmallestSet
<1>2. T \in SUBSET S /\ T \notin P
  OBVIOUS
<1>3. ASSUME NEW x \in T PROVE T \ {x} \in P
  <2>1. IsFiniteSet(T) /\ T \ {x} \in SUBSET S
    BY <1>2, FS_Subset
  <2>2. Cardinality(T \ {x}) = Cardinality(T) - 1 /\ Cardinality(T) \in Nat
    BY <2>1, <1>3, FS_RemoveElement, FS_CardinalityType
  <2>3. Cardinality(T \ {x}) < Cardinality(T)
    <3> DEFINE a == Cardinality(T \ {x})  b == Cardinality(T)
    <3> HIDE DEF a, b
    <3>1. a = b - 1 /\ b \in Nat
      BY <2>2 DEF a, b
    <3>2. a < b
      BY <3>1
    <3> QED BY <3>2 DEF a, b
  <2>4. T \ {x} \notin Bad
    BY <2>1, <2>3, <1>1
  <2> QED BY <2>1, <2>4
<1> QED BY <1>2, <1>3

-----------------------------------------------------------------------------
(* Orders by a key. *)

Ordered(S, key, q) ==
  /\ q \in Seq(S) /\ Len(q) = Cardinality(S) /\ Range(q) = S
  /\ \A m, n \in 1..Len(q) : m < n => key[q[m]] <= key[q[n]]

Lasts(T, key) == {y \in T : \A z \in T : key[z] <= key[y]}
Lengthened(T, key, f) == IF T = {} THEN {<<>>}
                         ELSE UNION {{Append(order, x) : order \in f[T \ {x}]} : x \in Lasts(T, key)}
OrdersAre(S, key, f) == f = [T \in SUBSET S |-> Lengthened(T, key, f)]

(* the sets of at most n elements have their orders *)
LEMMA OrdersExist ==
  ASSUME NEW S, IsFiniteSet(S), NEW key
  PROVE  \E f : OrdersAre(S, key, f)
<1> DEFINE Few(n) == {T \in SUBSET S : Cardinality(T) <= n}
           Up(n, f) == f = [T \in Few(n) |-> Lengthened(T, key, f)]
           N == Cardinality(S)
           P == {n \in 0..N : \E f : Up(n, f)}
<1>1. N \in Nat /\ \A T \in SUBSET S : Cardinality(T) \in Nat /\ Cardinality(T) <= N
  BY FS_CardinalityType, FS_Subset
<1>2. 0 \in P
  <2> DEFINE g == [T \in Few(0) |-> {<<>>}]
  <2>1. \A T \in Few(0) : T = {}
    <3> TAKE T \in Few(0)
    <3>1. IsFiniteSet(T) /\ Cardinality(T) = 0
      BY <1>1, FS_Subset
    <3> QED BY <3>1, FS_EmptySet
  <2>2. \A T \in Few(0) : Lengthened(T, key, g) = {<<>>}
    BY <2>1 DEF Lengthened
  <2>3. g = [T \in Few(0) |-> Lengthened(T, key, g)]
    <3> HIDE DEF Few
    <3>1. \A T \in Few(0) : g[T] = {<<>>}
      OBVIOUS
    <3> HIDE DEF g
    <3>2. g = [T \in Few(0) |-> {<<>>}]
      BY DEF g
    <3> QED BY <3>2, <2>2
  <2>4. Up(0, g)
    BY <2>3
  <2>5. 0 \in 0..N
    BY <1>1
  <2> HIDE DEF Up, g
  <2> QED BY <2>4, <2>5
<1>3. ASSUME NEW n \in 0..N, n # N, n \in P PROVE n + 1 \in P
  <2>1. PICK g : Up(n, g)
    BY <1>3
  <2>2. n + 1 \in 0..N /\ n \in Nat
    BY <1>3, <1>1
  <2> DEFINE h == [T \in Few(n + 1) |-> Lengthened(T, key, g)]
  <2>3. ASSUME NEW T \in Few(n + 1), NEW x \in T PROVE h[T \ {x}] = g[T \ {x}]
    <3> DEFINE U == T \ {x}
    <3>1. IsFiniteSet(T) /\ U \in SUBSET S
      BY FS_Subset
    <3>2. Cardinality(U) = Cardinality(T) - 1 /\ Cardinality(T) \in Nat /\ Cardinality(T) <= n + 1
      BY <3>1, <2>3, FS_RemoveElement, FS_CardinalityType
    <3>3. Cardinality(U) <= n /\ Cardinality(U) <= n + 1
      <4> DEFINE a == Cardinality(U)  b == Cardinality(T)
      <4> HIDE DEF a, b
      <4>1. a = b - 1 /\ b \in Nat /\ b <= n + 1
        BY <3>2 DEF a, b
      <4>2. a <= n /\ a <= n + 1
        BY <4>1, <2>2
      <4> QED BY <4>2 DEF a
    <3>4. U \in Few(n) /\ U \in Few(n + 1)
      BY <3>1, <3>3
    <3> HIDE DEF U, Few
    <3>5. g[U] = Lengthened(U, key, g)
      BY <3>4, <2>1
    <3>6. h[U] = Lengthened(U, key, g)
      BY <3>4
    <3> QED BY <3>5, <3>6 DEF U
  <2>4. ASSUME NEW T \in Few(n + 1) PROVE Lengthened(T, key, h) = Lengthened(T, key, g)
    <3>1. \A x \in Lasts(T, key) : h[T \ {x}] = g[T \ {x}]
      <4>1. Lasts(T, key) \subseteq T
        BY DEF Lasts
      <4> HIDE DEF h, Few
      <4> QED BY <4>1, <2>3
    <3> HIDE DEF h
    <3> QED BY <3>1 DEF Lengthened
  <2>5. Up(n + 1, h)
    <3> HIDE DEF Few
    <3>1. h = [T \in Few(n + 1) |-> Lengthened(T, key, g)]
      OBVIOUS
    <3> HIDE DEF h
    <3> QED BY <3>1, <2>4
  <2> HIDE DEF Up
  <2> QED BY <2>2, <2>5
<1>4. N \in P
  <2> HIDE DEF P, N
  <2> QED BY <1>1, <1>2, <1>3, CountUp
<1>5. PICK f : Up(N, f)
  BY <1>4
<1>6. Few(N) = SUBSET S
  BY <1>1
<1> QED BY <1>5, <1>6 DEF OrdersAre

LEMMA RangeOfAppend ==
  ASSUME NEW S, NEW q \in Seq(S), NEW x \in S
  PROVE  /\ Append(q, x) \in Seq(S) /\ Len(Append(q, x)) = Len(q) + 1
         /\ Range(Append(q, x)) = Range(q) \union {x}
         /\ Append(q, x)[Len(q) + 1] = x /\ \A i \in 1..Len(q) : Append(q, x)[i] = q[i]
<1>1. /\ Append(q, x) \in Seq(S) /\ Len(Append(q, x)) = Len(q) + 1 /\ Len(q) \in Nat
      /\ DOMAIN q = 1..Len(q) /\ DOMAIN Append(q, x) = 1..Len(q) + 1
      /\ Append(q, x)[Len(q) + 1] = x
      /\ \A i \in 1..Len(q) : Append(q, x)[i] = q[i]
  BY AppendProperties, LenProperties
<1>2. Range(Append(q, x)) = Range(q) \union {x}
  BY <1>1 DEF Range
<1> QED BY <1>1, <1>2

LEMMA OrdersAreOrdered ==
  ASSUME NEW S, IsFiniteSet(S), NEW key \in [S -> Int], NEW q \in OrdersBy(S, key)
  PROVE  Ordered(S, key, q)
<1> DEFINE f == CHOOSE g : OrdersAre(S, key, g)
<1>1. q \in f[S]
  <2>1. OrdersBy(S, key) = f[S]
    BY DEF OrdersBy, OrdersAre, Lengthened, Lasts
  <2> QED BY <2>1
<1>2. OrdersAre(S, key, f)
  BY OrdersExist
<1> HIDE DEF f
<1> DEFINE P == {T \in SUBSET S : \A o \in f[T] : Ordered(T, key, o)}
<1>3. ASSUME NEW T \in SUBSET S, \A x \in T : T \ {x} \in P PROVE T \in P
  <2> SUFFICES ASSUME NEW o \in f[T] PROVE Ordered(T, key, o)
    OBVIOUS
  <2>1. f[T] = Lengthened(T, key, f)
    BY <1>2 DEF OrdersAre
  <2>2. CASE T = {}
    <3>1. o = <<>>
      BY <2>1, <2>2 DEF Lengthened
    <3>2. <<>> \in Seq(T) /\ Len(<<>>) = 0 /\ Range(<<>>) = {} /\ Cardinality(T) = 0
      BY <2>2, FS_EmptySet, EmptySeq DEF Range
    <3> QED BY <3>1, <3>2, <2>2 DEF Ordered
  <2>3. CASE T # {}
    <3>a. o \in UNION {{Append(order, x) : order \in f[T \ {x}]} : x \in Lasts(T, key)}
      BY <2>1, <2>3, Zenon DEF Lengthened
    <3>0. PICK x \in Lasts(T, key) : \E p \in f[T \ {x}] : o = Append(p, x)
      BY <3>a, Zenon
    <3>1. PICK p \in f[T \ {x}] : o = Append(p, x)
      BY <3>0
    <3>2. x \in T /\ \A z \in T : key[z] <= key[x]
      BY DEF Lasts
    <3>3. Ordered(T \ {x}, key, p)
      BY <3>1, <3>2, <1>3
    <3>4. p \in Seq(T) /\ Len(p) = Cardinality(T \ {x}) /\ Range(p) = T \ {x}
      BY <3>3, SeqMonotonic DEF Ordered
    <3>5. Cardinality(T \ {x}) = Cardinality(T) - 1 /\ Cardinality(T) \in Nat
      BY <3>2, FS_Subset, FS_RemoveElement, FS_CardinalityType
    <3>6. /\ o \in Seq(T) /\ Len(o) = Len(p) + 1 /\ Range(o) = Range(p) \union {x}
          /\ o[Len(p) + 1] = x /\ \A i \in 1..Len(p) : o[i] = p[i]
      <4>1. /\ Append(p, x) \in Seq(T) /\ Len(Append(p, x)) = Len(p) + 1
            /\ Range(Append(p, x)) = Range(p) \union {x}
            /\ Append(p, x)[Len(p) + 1] = x /\ \A i \in 1..Len(p) : Append(p, x)[i] = p[i]
        <5>1. x \in T /\ p \in Seq(T)
          BY <3>2, <3>4
        <5> HIDE DEF P
        <5> HIDE <1>2, <1>3
        <5> QED BY <5>1, RangeOfAppend
      <4> QED BY <4>1, <3>1, Zenon
    <3>7. Len(o) = Cardinality(T) /\ Range(o) = T
      <4> DEFINE a == Cardinality(T)  b == Cardinality(T \ {x})
      <4> HIDE DEF a, b
      <4>1. Len(o) = b + 1 /\ b = a - 1 /\ a \in Nat
        BY <3>4, <3>5, <3>6 DEF a, b
      <4>2. Len(o) = a
        BY <4>1
      <4> QED BY <4>2, <3>2, <3>4, <3>6 DEF a
    <3>8. ASSUME NEW m \in 1..Len(o), NEW n \in 1..Len(o), m < n PROVE key[o[m]] <= key[o[n]]
      <4>1. Len(p) \in Nat /\ m \in 1..Len(p)
        BY <3>4, <3>6, <3>8, LenProperties
      <4>2. o[m] = p[m] /\ o[m] \in T
        BY <4>1, <3>4, <3>6, ElementOfSeq
      <4>3. CASE n = Len(p) + 1
        BY <4>2, <4>3, <3>2, <3>6
      <4>4. CASE n # Len(p) + 1
        <5>1. n \in 1..Len(p)
          BY <4>1, <4>4, <3>6
        <5> QED BY <5>1, <4>1, <3>3, <3>6, <3>8 DEF Ordered
      <4> QED BY <4>3, <4>4
    <3> QED BY <3>6, <3>7, <3>8 DEF Ordered
  <2> QED BY <2>2, <2>3
<1>4. S \in P
  <2> HIDE DEF P
  <2> QED BY <1>3, BySubsets
<1> QED BY <1>1, <1>4

-----------------------------------------------------------------------------
(* Sequences. *)

LEMMA RangeWithin ==
  ASSUME NEW f, NEW g, \A i \in DOMAIN f : \E j \in DOMAIN g : f[i] = g[j]
  PROVE  Range(f) \subseteq Range(g)
BY DEF Range

LEMMA RangeWithinTwo ==
  ASSUME NEW f, NEW g, NEW h,
         \A i \in DOMAIN f : (\E j \in DOMAIN g : f[i] = g[j]) \/ (\E j \in DOMAIN h : f[i] = h[j])
  PROVE  Range(f) \subseteq Range(g) \union Range(h)
BY DEF Range

LEMMA RangeOfConcat ==
  ASSUME NEW S, NEW p \in Seq(S), NEW q \in Seq(S)
  PROVE  /\ p \o q \in Seq(S)
         /\ Range(p \o q) = Range(p) \union Range(q)
<1> DEFINE c == p \o q
           m == Len(p)
           n == Len(q)
<1>1. c \in Seq(S) /\ m \in Nat /\ n \in Nat /\ DOMAIN p = 1..m /\ DOMAIN q = 1..n /\ DOMAIN c = 1..m + n
  BY ConcatProperties, LenProperties
<1>2. \A i \in 1..m + n : c[i] = IF i <= m THEN p[i] ELSE q[i - m]
  BY ConcatProperties
<1> HIDE DEF c, m, n
<1>3. /\ \A i \in 1..m : i \in 1..m + n /\ c[i] = p[i]
      /\ \A i \in 1..n : m + i \in 1..m + n /\ c[m + i] = q[i]
      /\ \A i \in 1..m + n : i \in 1..m \/ (i - m \in 1..n /\ c[i] = q[i - m])
  <2>1. \A i \in 1..m : i \in 1..m + n /\ c[i] = p[i]
    BY <1>1, <1>2
  <2>2. ASSUME NEW i \in 1..n PROVE m + i \in 1..m + n /\ c[m + i] = q[i]
    <3>1. m + i \in 1..m + n /\ ~(m + i <= m) /\ (m + i) - m = i
      BY <1>1
    <3> QED BY <3>1, <1>2
  <2>3. \A i \in 1..m + n : i \in 1..m \/ (i - m \in 1..n /\ c[i] = q[i - m])
    BY <1>1, <1>2
  <2> QED BY <2>1, <2>2, <2>3
<1>4. Range(c) = Range(p) \union Range(q)
  <2>1. \A i \in DOMAIN c : (\E j \in DOMAIN p : c[i] = p[j]) \/ (\E j \in DOMAIN q : c[i] = q[j])
    BY <1>1, <1>3
  <2>2. \A i \in DOMAIN p : \E j \in DOMAIN c : p[i] = c[j]
    BY <1>1, <1>3
  <2>3. \A i \in DOMAIN q : \E j \in DOMAIN c : q[i] = c[j]
    BY <1>1, <1>3
  <2>4. Range(c) \subseteq Range(p) \union Range(q)
    BY <2>1, RangeWithinTwo
  <2>5. Range(p) \subseteq Range(c)
    BY <2>2, RangeWithin
  <2>6. Range(q) \subseteq Range(c)
    BY <2>3, RangeWithin
  <2> QED BY <2>4, <2>5, <2>6
<1> QED BY <1>1, <1>4 DEF c

LEMMA HeadAndTail ==
  ASSUME NEW S, NEW q \in Seq(S), q # <<>>
  PROVE  /\ Head(q) \in S /\ Tail(q) \in Seq(S) /\ Len(q) \in Nat \ {0} /\ Head(q) = q[1]
         /\ Range(q) = {Head(q)} \union Range(Tail(q)) /\ Len(Tail(q)) = Len(q) - 1
         /\ \A i \in 1..Len(q) : i # 1 => i - 1 \in 1..Len(q) - 1 /\ Tail(q)[i - 1] = q[i]
<1>1. Len(q) \in Nat \ {0} /\ DOMAIN q = 1..Len(q)
  BY LenProperties, EmptySeq
<1>2. /\ Head(q) \in S /\ Tail(q) \in Seq(S) /\ Head(q) = q[1] /\ Len(Tail(q)) = Len(q) - 1
      /\ \A i \in 1..Len(Tail(q)) : Tail(q)[i] = q[i + 1]
  BY <1>1, HeadTailProperties
<1>3. DOMAIN Tail(q) = 1..Len(q) - 1
  BY <1>1, <1>2, LenProperties
<1>4. ASSUME NEW i \in 1..Len(q), i # 1 PROVE i - 1 \in 1..Len(q) - 1 /\ Tail(q)[i - 1] = q[i]
  <2>1. i - 1 \in 1..Len(q) - 1 /\ (i - 1) + 1 = i
    BY <1>1, <1>4
  <2> QED BY <2>1, <1>2
<1>5. \A i \in 1..Len(q) - 1 : i + 1 \in 1..Len(q) /\ Tail(q)[i] = q[i + 1]
  BY <1>1, <1>2
<1>6. Range(q) = {Head(q)} \union Range(Tail(q))
  <2>1. \A i \in DOMAIN Tail(q) : \E j \in DOMAIN q : Tail(q)[i] = q[j]
    BY <1>1, <1>3, <1>5
  <2>2. Range(Tail(q)) \subseteq Range(q)
    BY <2>1, RangeWithin
  <2>3. Head(q) \in Range(q)
    BY <1>1, <1>2 DEF Range
  <2>4. \A i \in DOMAIN q : q[i] = Head(q) \/ \E j \in DOMAIN Tail(q) : q[i] = Tail(q)[j]
    BY <1>1, <1>2, <1>3, <1>4
  <2>5. Range(q) \subseteq {Head(q)} \union Range(Tail(q))
    BY <2>4 DEF Range
  <2> QED BY <2>2, <2>3, <2>5
<1> QED BY <1>1, <1>2, <1>4, <1>6

(* A sequence is cut in two. *)
LEMMA CutInTwo ==
  ASSUME NEW S, NEW q \in Seq(S), NEW n \in 0..Len(q)
  PROVE  /\ SubSeq(q, 1, n) \in Seq(S) /\ SubSeq(q, n + 1, Len(q)) \in Seq(S)
         /\ Len(SubSeq(q, 1, n)) = n /\ Len(SubSeq(q, n + 1, Len(q))) = Len(q) - n
         /\ Range(q) = Range(SubSeq(q, 1, n)) \union Range(SubSeq(q, n + 1, Len(q)))
<1> DEFINE k == Len(q)
           a == SubSeq(q, 1, n)
           b == SubSeq(q, n + 1, k)
<1>1. k \in Nat /\ DOMAIN q = 1..k /\ \A i \in 1..k : q[i] \in S
  BY LenProperties, ElementOfSeq
<1>2. n \in Int /\ n + 1 \in Int /\ k \in Int /\ 1..n \subseteq 1..k /\ n + 1..k \subseteq 1..k
  BY <1>1
<1>3. a \in Seq(S) /\ Len(a) = IF 1 <= n THEN n - 1 + 1 ELSE 0
  BY <1>1, <1>2, SubSeqProperties
<1>4. b \in Seq(S) /\ Len(b) = IF n + 1 <= k THEN k - (n + 1) + 1 ELSE 0
  BY <1>1, <1>2, SubSeqProperties
<1>5. Len(a) = n /\ Len(b) = k - n
  <2> HIDE DEF a, b
  <2>1. n + 1 <= k => k - (n + 1) + 1 = k - n
    BY <1>1
  <2>0. n \in Nat /\ n <= k
    BY <1>1
  <2>2. ~(n + 1 <= k) => k - n = 0
    <3>1. k \in Nat
      BY <1>1
    <3> HIDE DEF k
    <3> QED BY <3>1, <2>0
  <2>3. Len(b) = k - n
    BY <1>4, <2>1, <2>2
  <2>4. Len(a) = n
    BY <1>1, <1>3
  <2> QED BY <2>3, <2>4
<1>6. \A i \in 1..n : a[i] = q[i]
  <2> TAKE i \in 1..n
  <2>1. i \in 1..(n - 1 + 1) /\ 1 + i - 1 = i
    BY <1>1
  <2> QED BY <1>1, <1>2, <2>1 DEF SubSeq
<1>7. \A i \in 1..k - n : b[i] = q[n + i]
  <2> TAKE i \in 1..k - n
  <2>1. i \in 1..(k - (n + 1) + 1) /\ (n + 1) + i - 1 = n + i
    BY <1>1
  <2> QED BY <1>1, <1>2, <2>1 DEF SubSeq
<1>8. DOMAIN a = 1..n /\ DOMAIN b = 1..k - n
  BY <1>3, <1>4, <1>5, LenProperties
<1> HIDE DEF a, b, k
<1>9. \A i \in 1..k : i \in 1..n \/ (i - n \in 1..k - n /\ n + (i - n) = i)
  BY <1>1
<1>10. \A i \in 1..k - n : n + i \in 1..k
  BY <1>1
<1>11. Range(q) = Range(a) \union Range(b)
  <2>1. \A i \in DOMAIN q : (\E j \in DOMAIN a : q[i] = a[j]) \/ (\E j \in DOMAIN b : q[i] = b[j])
    BY <1>1, <1>6, <1>7, <1>8, <1>9
  <2>2. \A i \in DOMAIN a : \E j \in DOMAIN q : a[i] = q[j]
    BY <1>1, <1>2, <1>6, <1>8
  <2>3. \A i \in DOMAIN b : \E j \in DOMAIN q : b[i] = q[j]
    BY <1>1, <1>7, <1>8, <1>10
  <2>4. Range(q) \subseteq Range(a) \union Range(b)
    BY <2>1, RangeWithinTwo
  <2>5. Range(a) \subseteq Range(q)
    BY <2>2, RangeWithin
  <2>6. Range(b) \subseteq Range(q)
    BY <2>3, RangeWithin
  <2> QED BY <2>4, <2>5, <2>6
<1> QED BY <1>3, <1>4, <1>5, <1>11 DEF a, b, k

-----------------------------------------------------------------------------
(* What the files hold. *)

Everything(s) == {Event(s, line) : line \in Lines(s)}

LEMMA LinesAre ==
  ASSUME NEW s \in {2, 3}, NEW file \in DOMAIN Files[s]
  PROVE  /\ Files[s][file] \in Seq(Lines(s)) /\ Len(Files[s][file]) \in Nat
         /\ DOMAIN Files[s][file] = 1..Len(Files[s][file])
<1>1. Files[s] \in Seq(Seq(Lines(s)))
  BY TracesAssumption
<1>2. Files[s][file] \in Seq(Lines(s))
  BY <1>1, LenProperties, ElementOfSeq
<1> QED BY <1>2, LenProperties

(* The events of a file depend on the first collection, when they are read for the second. *)
AcceptedWith(ids, s, line) ==
  /\ line.type \in AcceptedTypes
  /\ IF s = 2 THEN ~line.parent /\ MaxPerMachine \in {"any", line.machines}
     ELSE line.job /\ line.id \in ids

EventsWith(ids, s, file) ==
  LET lines == Files[s][file]
      Loop[n \in 0..Len(lines)] ==
        IF n = 0 THEN <<>>
        ELSE IF AcceptedWith(ids, s, lines[n]) THEN Append(Loop[n - 1], Event(s, lines[n])) ELSE Loop[n - 1]
  IN Loop[Len(lines)]

LEMMA EventsInIs ==
  ASSUME NEW s, NEW file
  PROVE  /\ EventsIn(s, file) = EventsWith(CollectionIds, s, file)
         /\ EventsIn(s, file)' = EventsWith(CollectionIds', s, file)
BY DEF EventsIn, EventsWith, Accepted, AcceptedWith

TurnsOf(ids, s, file, S) ==
  [x \in (1..Len(Files[s][file])) \X S |->
     IF AcceptedWith(ids, s, Files[s][file][x[1]]) THEN Append(x[2], Event(s, Files[s][file][x[1]])) ELSE x[2]]

LEMMA EventsWithIs ==
  ASSUME NEW ids, NEW s \in {2, 3}, NEW file \in DOMAIN Files[s]
  PROVE  LET N == Len(Files[s][file])
             S == Seq(Everything(s))
         IN \E loop : IsLoop(loop, N, S, <<>>, TurnsOf(ids, s, file, S)) /\ EventsWith(ids, s, file) = loop[N]
<1> DEFINE lines == Files[s][file]
           N == Len(lines)
           S == Seq(Everything(s))
           Turn(n, q) == IF AcceptedWith(ids, s, lines[n]) THEN Append(q, Event(s, lines[n])) ELSE q
           turn == TurnsOf(ids, s, file, S)
           Is0(loop) == loop = [n \in 0..N |-> IF n = 0 THEN <<>>
                                               ELSE IF AcceptedWith(ids, s, lines[n]) THEN Append(loop[n - 1], Event(s, lines[n]))
                                               ELSE loop[n - 1]]
<1>1. N \in Nat /\ lines \in Seq(Lines(s)) /\ DOMAIN lines = 1..N
  BY LinesAre
<1>2. ASSUME NEW n \in 1..N, NEW q \in S PROVE Turn(n, q) \in S
  <2>1. lines[n] \in Lines(s)
    BY <1>1, ElementOfSeq
  <2>2. Event(s, lines[n]) \in Everything(s)
    BY <2>1 DEF Everything
  <2>3. Append(q, Event(s, lines[n])) \in S
    BY <2>2, AppendProperties
  <2> QED BY <2>3
<1>0. turn = [x \in (1..N) \X S |-> Turn(x[1], x[2])]
  BY DEF TurnsOf
<1>3. turn \in [(1..N) \X S -> S]
  <2> HIDE DEF Turn, S, N, turn
  <2> QED BY <1>0, <1>2
<1>4. <<>> \in S
  BY EmptySeq
<1>a. PICK loop : IsLoop(loop, N, S, <<>>, turn)
  <2> HIDE DEF turn, S, N
  <2> QED BY <1>1, <1>3, <1>4, LoopsExist
<1>5. /\ loop \in [0..N -> S]
      /\ loop[0] = <<>> /\ \A n \in 0..N : n # 0 => loop[n] = turn[<<n, loop[n - 1]>>]
  <2> HIDE DEF turn, S, N
  <2> QED BY <1>a DEF IsLoop
<1>6. Is0(loop)
  <2>1. ASSUME NEW n \in 0..N, n # 0 PROVE turn[<<n, loop[n - 1]>>] = Turn(n, loop[n - 1])
    <3>1. n \in 1..N /\ n - 1 \in 0..N
      BY <1>1, <2>1
    <3>2. loop[n - 1] \in S
      BY <1>5, <3>1
    <3> HIDE DEF Turn, S, N, turn
    <3> QED BY <3>1, <3>2, <1>0
  <2> HIDE DEF turn, N
  <2>2. \A n \in 0..N : loop[n] = IF n = 0 THEN <<>> ELSE Turn(n, loop[n - 1])
    BY <1>5, <2>1
  <2> QED BY <1>5, <2>2
<1> DEFINE chosen == CHOOSE f : Is0(f)
<1>7. EventsWith(ids, s, file) = chosen[N]
  BY DEF EventsWith
<1>8. Is0(chosen)
  <2> HIDE DEF Is0
  <2> QED BY <1>6
<1> HIDE DEF chosen
<1> DEFINE P == {n \in 0..N : chosen[n] = loop[n]}
<1>9. chosen[0] = <<>> /\ \A n \in 0..N : n # 0 => chosen[n] = Turn(n, chosen[n - 1])
  <2>1. chosen = [n \in 0..N |-> IF n = 0 THEN <<>> ELSE Turn(n, chosen[n - 1])]
    BY <1>8
  <2> HIDE DEF Turn, N
  <2>2. \A n \in 0..N : chosen[n] = IF n = 0 THEN <<>> ELSE Turn(n, chosen[n - 1])
    BY <2>1
  <2> QED BY <1>1, <2>2
<1>b. loop[0] = <<>> /\ \A n \in 0..N : n # 0 => loop[n] = Turn(n, loop[n - 1])
  <2>1. loop = [n \in 0..N |-> IF n = 0 THEN <<>> ELSE Turn(n, loop[n - 1])]
    BY <1>6
  <2> HIDE DEF Turn, N
  <2>2. \A n \in 0..N : loop[n] = IF n = 0 THEN <<>> ELSE Turn(n, loop[n - 1])
    BY <2>1
  <2> QED BY <1>1, <2>2
<1>10. 0 \in P
  <2> HIDE DEF N, S
  <2> QED BY <1>1, <1>9, <1>b
<1>11. ASSUME NEW n \in 0..N, n # N, n \in P PROVE n + 1 \in P
  <2>1. n + 1 \in 0..N /\ n + 1 # 0 /\ (n + 1) - 1 = n /\ chosen[n] = loop[n]
    BY <1>1, <1>11
  <2> HIDE DEF Turn, S, N
  <2>2. chosen[n + 1] = Turn(n + 1, chosen[n]) /\ loop[n + 1] = Turn(n + 1, loop[n])
    BY <2>1, <1>9, <1>b
  <2> QED BY <2>1, <2>2
<1>12. N \in P
  <2> HIDE DEF P, N
  <2>1. N \in Nat
    BY <1>1
  <2>2. 0..N \subseteq P
    BY <2>1, <1>10, <1>11, CountUp
  <2> QED BY <2>1, <2>2
<1> QED BY <1>a, <1>7, <1>12

LEMMA EventsInAre ==
  ASSUME NEW s \in {2, 3}, NEW file \in DOMAIN Files[s]
  PROVE  EventsIn(s, file) \in Seq(Everything(s))
<1> DEFINE N == Len(Files[s][file])
           S == Seq(Everything(s))
<1>1. PICK loop : /\ IsLoop(loop, N, S, <<>>, TurnsOf(CollectionIds, s, file, S))
                  /\ EventsWith(CollectionIds, s, file) = loop[N]
  BY EventsWithIs
<1>2. N \in Nat /\ loop \in [0..N -> S]
  BY <1>1, LinesAre DEF IsLoop
<1>3. loop[N] \in S
  <2> HIDE DEF N, S
  <2> QED BY <1>2
<1> QED BY <1>1, <1>3, EventsInIs

LEMMA SameEvents ==
  ASSUME NEW s \in {2, 3}, NEW file \in DOMAIN Files[s], s = 2 \/ CollectionIds' = CollectionIds
  PROVE  EventsIn(s, file)' = EventsIn(s, file)
<1>1. CASE CollectionIds' = CollectionIds
  BY <1>1, EventsInIs
<1>2. CASE s = 2
  <2> DEFINE N == Len(Files[s][file])
             S == Seq(Everything(s))
             turn == TurnsOf(CollectionIds, s, file, S)
  <2>1. PICK a : IsLoop(a, N, S, <<>>, turn) /\ EventsWith(CollectionIds, s, file) = a[N]
    BY EventsWithIs
  <2>2. PICK b : /\ IsLoop(b, N, S, <<>>, TurnsOf(CollectionIds', s, file, S))
                 /\ EventsWith(CollectionIds', s, file) = b[N]
    BY EventsWithIs
  <2>3. TurnsOf(CollectionIds', s, file, S) = turn
    <3>1. \A line : AcceptedWith(CollectionIds', 2, line) = AcceptedWith(CollectionIds, 2, line)
      BY DEF AcceptedWith
    <3> QED BY <3>1, <1>2 DEF TurnsOf
  <2>4. N \in Nat
    BY LinesAre
  <2>5. a[N] = b[N]
    <3> HIDE DEF N, S, turn
    <3> QED BY <2>1, <2>2, <2>3, <2>4, LoopsAreOne
  <2> QED BY <2>1, <2>2, <2>5, EventsInIs
<1> QED BY <1>1, <1>2

-----------------------------------------------------------------------------
(* The tasks of a class: what the loop over the events of its jobs has noted after n of them. *)

Of(order, n) == order[n][1].event
JobIds == {e.id : e \in Everything(2)}
Times == [start : Int, end : Int]
Jobs == UNION {[I -> Times] : I \in SUBSET JobIds}
Noted == [jobs : Jobs, ids : Seq(JobIds)]

Is(e, id, type) == e.id = id /\ e.type = type
LastIs(order, n, id, type, v) ==
  \/ v = None /\ \A i \in 1..n : ~Is(Of(order, i), id, type)
  \/ \E i \in 1..n : /\ Is(Of(order, i), id, type) /\ v = Of(order, i).time
                     /\ \A j \in 1..n : i < j => ~Is(Of(order, j), id, type)

NotedSoFar(order, n, acc) ==
  /\ acc \in Noted /\ DOMAIN acc.jobs = {Of(order, i).id : i \in 1..n}
  /\ Range(acc.ids) \subseteq DOMAIN acc.jobs
  /\ \A id \in DOMAIN acc.jobs :
       /\ LastIs(order, n, id, "SCHEDULE", acc.jobs[id].start)
       /\ LastIs(order, n, id, "FINISH", acc.jobs[id].end)
       /\ acc.jobs[id].start # None /\ acc.jobs[id].end # None => id \in Range(acc.ids)

LEMMA EventOfClass ==
  ASSUME NEW e \in Everything(2)
  PROVE  e.id \in JobIds /\ e.time \in Nat
<1>1. PICK line \in Lines(2) : e = Event(2, line)
  BY DEF Everything
<1>2. e.time = line.time
  BY <1>1 DEF Event
<1> QED BY <1>2, TracesAssumption DEF JobIds

LEMMA ListJobIs ==
  ASSUME NEW acc \in Noted, NEW e \in Everything(2), Range(acc.ids) \subseteq DOMAIN acc.jobs
  PROVE  LET new == ListJob(acc, e)
             known == e.id \in DOMAIN acc.jobs
         IN /\ new \in Noted /\ DOMAIN new.jobs = DOMAIN acc.jobs \union {e.id}
            /\ \A id \in DOMAIN acc.jobs : id # e.id => new.jobs[id] = acc.jobs[id]
            /\ new.jobs[e.id].start = IF e.type = "SCHEDULE" THEN e.time
                                      ELSE IF known THEN acc.jobs[e.id].start ELSE None
            /\ new.jobs[e.id].end = IF e.type = "FINISH" THEN e.time
                                    ELSE IF known THEN acc.jobs[e.id].end ELSE None
            /\ Range(acc.ids) \subseteq Range(new.ids) /\ Range(new.ids) \subseteq Range(acc.ids) \union {e.id}
            /\ known /\ new.jobs[e.id].start # None /\ new.jobs[e.id].end # None => e.id \in Range(new.ids)
<1> DEFINE known == e.id \in DOMAIN acc.jobs
           before == IF known THEN acc.jobs[e.id] ELSE [start |-> None, end |-> None]
           job == [start |-> IF e.type = "SCHEDULE" THEN e.time ELSE before.start,
                   end |-> IF e.type = "FINISH" THEN e.time ELSE before.end]
           completed == job.start # None /\ job.end # None
           jobs == [id \in DOMAIN acc.jobs \union {e.id} |-> IF id = e.id THEN job ELSE acc.jobs[id]]
           ids == IF known /\ completed THEN Append(acc.ids, e.id) ELSE acc.ids
<1>1. ListJob(acc, e) = [jobs |-> jobs, ids |-> ids]
  BY DEF ListJob
<1>2. e.id \in JobIds /\ e.time \in Int /\ None \in Int
  BY EventOfClass DEF None
<1>3. PICK I \in SUBSET JobIds : acc.jobs \in [I -> Times]
  BY DEF Noted, Jobs
<1>4. acc.ids \in Seq(JobIds)
  BY DEF Noted
<1>5. before \in Times
  BY <1>2, <1>3 DEF Times
<1>6. job \in Times
  BY <1>2, <1>5 DEF Times
<1>7. jobs \in [I \union {e.id} -> Times]
  <2> HIDE DEF job
  <2> QED BY <1>3, <1>6
<1>8. jobs \in Jobs
  <2> HIDE DEF jobs
  <2>1. I \union {e.id} \in SUBSET JobIds
    BY <1>2
  <2> QED BY <1>7, <2>1 DEF Jobs
<1>9. /\ ids \in Seq(JobIds) /\ Range(acc.ids) \subseteq Range(ids) /\ Range(ids) \subseteq Range(acc.ids) \union {e.id}
      /\ known /\ completed => e.id \in Range(ids)
  <2> HIDE DEF completed, known
  <2> QED BY <1>2, <1>4, RangeOfAppend
<1>10. /\ jobs[e.id] = job /\ DOMAIN jobs = DOMAIN acc.jobs \union {e.id}
       /\ \A id \in DOMAIN acc.jobs : id # e.id => jobs[id] = acc.jobs[id]
  <2> HIDE DEF job
  <2> QED OBVIOUS
<1>11. /\ job.start = IF e.type = "SCHEDULE" THEN e.time ELSE IF known THEN acc.jobs[e.id].start ELSE None
       /\ job.end = IF e.type = "FINISH" THEN e.time ELSE IF known THEN acc.jobs[e.id].end ELSE None
  OBVIOUS
<1>12. [jobs |-> jobs, ids |-> ids] \in Noted
  <2> HIDE DEF jobs, ids
  <2> QED BY <1>8, <1>9 DEF Noted
<1> HIDE DEF jobs, ids, job
<1> QED BY <1>1, <1>9, <1>10, <1>11, <1>12

LEMMA LastOfMore ==
  ASSUME NEW order, NEW n \in Nat, NEW id, NEW type, NEW v, NEW w,
         LastIs(order, n, id, type, v),
         w = IF Is(Of(order, n + 1), id, type) THEN Of(order, n + 1).time ELSE v
  PROVE  LastIs(order, n + 1, id, type, w)
<1>1. \A i \in 1..n + 1 : i \in 1..n \/ i = n + 1
  OBVIOUS
<1>2. n + 1 \in 1..n + 1 /\ \A j \in 1..n + 1 : ~(n + 1 < j)
  OBVIOUS
<1>3. \A i \in 1..n : i \in 1..n + 1
  OBVIOUS
<1>4. CASE Is(Of(order, n + 1), id, type)
  BY <1>2, <1>4 DEF LastIs
<1>5. CASE ~Is(Of(order, n + 1), id, type)
  <2>1. CASE v = None /\ \A i \in 1..n : ~Is(Of(order, i), id, type)
    BY <1>1, <1>5, <2>1 DEF LastIs
  <2>2. CASE \E i \in 1..n : /\ Is(Of(order, i), id, type) /\ v = Of(order, i).time
                             /\ \A j \in 1..n : i < j => ~Is(Of(order, j), id, type)
    BY <1>1, <1>3, <1>5, <2>2 DEF LastIs
  <2> QED BY <2>1, <2>2 DEF LastIs
<1> QED BY <1>4, <1>5

LEMMA NotedOneMore ==
  ASSUME NEW order, NEW n \in Nat, NEW acc, NotedSoFar(order, n, acc), Of(order, n + 1) \in Everything(2)
  PROVE  NotedSoFar(order, n + 1, ListJob(acc, Of(order, n + 1)))
<1> DEFINE e == Of(order, n + 1)
           new == ListJob(acc, e)
           known == e.id \in DOMAIN acc.jobs
<1>1. /\ acc \in Noted /\ DOMAIN acc.jobs = {Of(order, i).id : i \in 1..n}
      /\ Range(acc.ids) \subseteq DOMAIN acc.jobs
      /\ \A id \in DOMAIN acc.jobs :
           /\ LastIs(order, n, id, "SCHEDULE", acc.jobs[id].start)
           /\ LastIs(order, n, id, "FINISH", acc.jobs[id].end)
           /\ acc.jobs[id].start # None /\ acc.jobs[id].end # None => id \in Range(acc.ids)
  BY DEF NotedSoFar
<1>2. /\ new \in Noted /\ DOMAIN new.jobs = DOMAIN acc.jobs \union {e.id}
      /\ \A id \in DOMAIN acc.jobs : id # e.id => new.jobs[id] = acc.jobs[id]
      /\ new.jobs[e.id].start = IF e.type = "SCHEDULE" THEN e.time
                                ELSE IF known THEN acc.jobs[e.id].start ELSE None
      /\ new.jobs[e.id].end = IF e.type = "FINISH" THEN e.time
                              ELSE IF known THEN acc.jobs[e.id].end ELSE None
      /\ Range(acc.ids) \subseteq Range(new.ids) /\ Range(new.ids) \subseteq Range(acc.ids) \union {e.id}
      /\ known /\ new.jobs[e.id].start # None /\ new.jobs[e.id].end # None => e.id \in Range(new.ids)
  BY <1>1, ListJobIs
<1> HIDE DEF new
<1>3. DOMAIN new.jobs = {Of(order, i).id : i \in 1..n + 1}
  <2>1. \A i \in 1..n + 1 : i \in 1..n \/ i = n + 1
    OBVIOUS
  <2>2. n + 1 \in 1..n + 1 /\ \A i \in 1..n : i \in 1..n + 1
    OBVIOUS
  <2> QED BY <1>1, <1>2, <2>1, <2>2
<1>4. Range(new.ids) \subseteq DOMAIN new.jobs
  BY <1>1, <1>2
<1>5. ~known => LastIs(order, n, e.id, "SCHEDULE", None) /\ LastIs(order, n, e.id, "FINISH", None)
  <2> SUFFICES ASSUME ~known PROVE \A i \in 1..n : Of(order, i).id # e.id
    BY DEF LastIs, Is
  <2> QED BY <1>1
<1>6. ASSUME NEW id \in DOMAIN new.jobs
      PROVE  /\ LastIs(order, n + 1, id, "SCHEDULE", new.jobs[id].start)
             /\ LastIs(order, n + 1, id, "FINISH", new.jobs[id].end)
             /\ new.jobs[id].start # None /\ new.jobs[id].end # None => id \in Range(new.ids)
  <2>1. CASE id # e.id
    <3>1. id \in DOMAIN acc.jobs /\ new.jobs[id] = acc.jobs[id]
      BY <1>2, <2>1
    <3>2. ~Is(e, id, "SCHEDULE") /\ ~Is(e, id, "FINISH")
      BY <2>1 DEF Is
    <3>3. LastIs(order, n + 1, id, "SCHEDULE", new.jobs[id].start)
      BY <3>1, <3>2, <1>1, LastOfMore
    <3>4. LastIs(order, n + 1, id, "FINISH", new.jobs[id].end)
      BY <3>1, <3>2, <1>1, LastOfMore
    <3> QED BY <3>1, <3>3, <3>4, <1>1, <1>2
  <2>2. CASE id = e.id
    <3> DEFINE a == IF known THEN acc.jobs[e.id].start ELSE None
               b == IF known THEN acc.jobs[e.id].end ELSE None
    <3>1. LastIs(order, n, id, "SCHEDULE", a) /\ LastIs(order, n, id, "FINISH", b)
      BY <2>2, <1>1, <1>5
    <3>2. /\ new.jobs[id].start = IF Is(e, id, "SCHEDULE") THEN e.time ELSE a
          /\ new.jobs[id].end = IF Is(e, id, "FINISH") THEN e.time ELSE b
      BY <1>2, <2>2 DEF Is
    <3> HIDE DEF a, b
    <3>3. LastIs(order, n + 1, id, "SCHEDULE", new.jobs[id].start)
      BY <3>1, <3>2, LastOfMore
    <3>4. LastIs(order, n + 1, id, "FINISH", new.jobs[id].end)
      BY <3>1, <3>2, LastOfMore
    <3>5. ~known => ~(new.jobs[id].start # None /\ new.jobs[id].end # None)
      BY <2>2, <1>2
    <3> QED BY <3>3, <3>4, <3>5, <2>2, <1>2
  <2> QED BY <2>1, <2>2
<1>7. NotedSoFar(order, n + 1, new)
  BY <1>2, <1>3, <1>4, <1>6 DEF NotedSoFar
<1> QED BY <1>7 DEF new

LEMMA ListedTasksAre ==
  ASSUME NEW order, Len(order) \in Nat, \A n \in 1..Len(order) : Of(order, n) \in Everything(2)
  PROVE  \E all : /\ NotedSoFar(order, Len(order), all)
                  /\ ListedTasks(order) =
                       [i \in DOMAIN all.ids |->
                          [id |-> all.ids[i], start |-> all.jobs[all.ids[i]].start,
                           end |-> all.jobs[all.ids[i]].end, cpus |-> Cpus(all.ids[i])]]
<1> DEFINE N == Len(order)
           first == [jobs |-> <<>>, ids |-> <<>>]
           Turn(n, acc) == ListJob(acc, Of(order, n))
           Good == {acc \in Noted : Range(acc.ids) \subseteq DOMAIN acc.jobs}
           turn == [x \in (1..N) \X Good |-> Turn(x[1], x[2])]
           Is0(loop) == loop = [n \in 0..N |-> IF n = 0 THEN [jobs |-> <<>>, ids |-> <<>>]
                                               ELSE ListJob(loop[n - 1], order[n][1].event)]
<1>1. N \in Nat
  OBVIOUS
<1>2. first \in Good /\ NotedSoFar(order, 0, first)
  <2>1. <<>> \in [{} -> Times] /\ DOMAIN <<>> = {} /\ Range(<<>>) = {}
    BY DEF Range
  <2>2. <<>> \in Jobs
    BY <2>1 DEF Jobs
  <2>3. <<>> \in Seq(JobIds)
    BY EmptySeq
  <2>4. first \in Noted /\ DOMAIN first.jobs = {} /\ Range(first.ids) = {}
    BY <2>1, <2>2, <2>3 DEF Noted
  <2>5. {Of(order, i).id : i \in 1..0} = {}
    OBVIOUS
  <2> HIDE DEF first
  <2> QED BY <2>4, <2>5 DEF NotedSoFar
<1>3. ASSUME NEW n \in 1..N, NEW acc \in Good PROVE Turn(n, acc) \in Good
  <2>1. Of(order, n) \in Everything(2)
    OBVIOUS
  <2>2. acc \in Noted /\ Range(acc.ids) \subseteq DOMAIN acc.jobs
    OBVIOUS
  <2> DEFINE new == ListJob(acc, Of(order, n))
  <2>3. /\ new \in Noted /\ DOMAIN new.jobs = DOMAIN acc.jobs \union {Of(order, n).id}
        /\ Range(new.ids) \subseteq Range(acc.ids) \union {Of(order, n).id}
    BY <2>1, <2>2, ListJobIs
  <2> HIDE DEF new
  <2>4. new \in Noted /\ Range(new.ids) \subseteq DOMAIN new.jobs
    BY <2>2, <2>3
  <2> QED BY <2>4 DEF new
<1>4. turn \in [(1..N) \X Good -> Good]
  <2> HIDE DEF Turn, Good, N
  <2> QED BY <1>3
<1>5. PICK loop : IsLoop(loop, N, Good, first, turn)
  <2> HIDE DEF turn, Good, N, first
  <2> QED BY <1>1, <1>2, <1>4, LoopsExist
<1>6. /\ loop \in [0..N -> Good]
      /\ loop[0] = first /\ \A n \in 0..N : n # 0 => loop[n] = turn[<<n, loop[n - 1]>>]
  <2> HIDE DEF turn, Good, N, first
  <2> QED BY <1>5 DEF IsLoop
<1>7. Is0(loop)
  <2>1. ASSUME NEW n \in 0..N, n # 0 PROVE turn[<<n, loop[n - 1]>>] = Turn(n, loop[n - 1])
    <3>1. n \in 1..N /\ n - 1 \in 0..N
      BY <1>1, <2>1
    <3>2. loop[n - 1] \in Good
      BY <1>6, <3>1
    <3> HIDE DEF Turn, Good, N
    <3> QED BY <3>1, <3>2
  <2> HIDE DEF turn, N, Good, first
  <2>2. \A n \in 0..N : loop[n] = IF n = 0 THEN first ELSE Turn(n, loop[n - 1])
    BY <1>6, <2>1
  <2>3. loop = [n \in 0..N |-> IF n = 0 THEN first ELSE Turn(n, loop[n - 1])]
    <3> HIDE DEF Turn
    <3> QED BY <1>6, <2>2
  <2> QED BY <2>3 DEF first, Of
<1> DEFINE noted == CHOOSE f : Is0(f)
           all == noted[N]
<1>8. ListedTasks(order) = [i \in DOMAIN all.ids |->
                              [id |-> all.ids[i], start |-> all.jobs[all.ids[i]].start,
                               end |-> all.jobs[all.ids[i]].end, cpus |-> Cpus(all.ids[i])]]
  BY DEF ListedTasks
<1>9. Is0(noted)
  <2> HIDE DEF Is0
  <2> QED BY <1>7
<1> HIDE DEF noted
<1>10. noted[0] = first /\ \A n \in 0..N : n # 0 => noted[n] = Turn(n, noted[n - 1])
  <2>1. noted = [n \in 0..N |-> IF n = 0 THEN first ELSE Turn(n, noted[n - 1])]
    BY <1>9 DEF Of
  <2> HIDE DEF Turn, N, first
  <2>2. \A n \in 0..N : noted[n] = IF n = 0 THEN first ELSE Turn(n, noted[n - 1])
    BY <2>1
  <2> QED BY <1>1, <2>2
<1> DEFINE P == {n \in 0..N : NotedSoFar(order, n, noted[n])}
<1>11. 0 \in P
  <2> HIDE DEF N, first
  <2> QED BY <1>1, <1>2, <1>10
<1>12. ASSUME NEW n \in 0..N, n # N, n \in P PROVE n + 1 \in P
  <2>1. n \in Nat /\ n + 1 \in 0..N /\ n + 1 \in 1..N /\ n + 1 # 0 /\ (n + 1) - 1 = n
    BY <1>1, <1>12
  <2>2. Of(order, n + 1) \in Everything(2)
    BY <2>1
  <2>3. noted[n + 1] = Turn(n + 1, noted[n])
    <3> HIDE DEF Turn, N, first
    <3> QED BY <2>1, <1>10
  <2>4. NotedSoFar(order, n, noted[n])
    BY <1>12
  <2>5. NotedSoFar(order, n + 1, noted[n + 1])
    BY <2>1, <2>2, <2>3, <2>4, NotedOneMore
  <2> HIDE DEF N
  <2> QED BY <2>1, <2>5
<1>13. NotedSoFar(order, N, noted[N])
  <2> HIDE DEF P, N
  <2>1. 0..N \subseteq P
    BY <1>1, <1>11, <1>12, CountUp
  <2>2. N \in P
    BY <2>1, <1>1
  <2> QED BY <2>2 DEF P
<1> QED BY <1>8, <1>13

(* Every job with a start and an end is a task, from its last start to its last end. *)
LEMMA JobsAreTasks ==
  ASSUME NEW order, Len(order) \in Nat, \A n \in 1..Len(order) : Of(order, n) \in Everything(2)
  PROVE  /\ ListedTasks(order) \in Seq(Range(ListedTasks(order)))
         /\ \A task \in Range(ListedTasks(order)) : task.start \in Int /\ task.end \in Int
         /\ \A i, j \in 1..Len(order) :
              /\ Of(order, i).type = "SCHEDULE" /\ Of(order, j).type = "FINISH"
              /\ Of(order, i).id = Of(order, j).id
              => \E task \in Range(ListedTasks(order)) :
                   /\ task.id = Of(order, i).id
                   /\ \E k \in 1..Len(order) : /\ Is(Of(order, k), task.id, "SCHEDULE") /\ task.start = Of(order, k).time
                                               /\ \A l \in 1..Len(order) : k < l => ~Is(Of(order, l), task.id, "SCHEDULE")
                   /\ \E k \in 1..Len(order) : /\ Is(Of(order, k), task.id, "FINISH") /\ task.end = Of(order, k).time
                                               /\ \A l \in 1..Len(order) : k < l => ~Is(Of(order, l), task.id, "FINISH")
<1> DEFINE N == Len(order)
           tasks == ListedTasks(order)
<1>1. PICK all : /\ NotedSoFar(order, N, all)
                 /\ tasks = [i \in DOMAIN all.ids |->
                               [id |-> all.ids[i], start |-> all.jobs[all.ids[i]].start,
                                end |-> all.jobs[all.ids[i]].end, cpus |-> Cpus(all.ids[i])]]
  BY ListedTasksAre
<1>2. /\ all \in Noted /\ DOMAIN all.jobs = {Of(order, i).id : i \in 1..N}
      /\ Range(all.ids) \subseteq DOMAIN all.jobs
      /\ \A id \in DOMAIN all.jobs :
           /\ LastIs(order, N, id, "SCHEDULE", all.jobs[id].start)
           /\ LastIs(order, N, id, "FINISH", all.jobs[id].end)
           /\ all.jobs[id].start # None /\ all.jobs[id].end # None => id \in Range(all.ids)
  BY <1>1 DEF NotedSoFar
<1> HIDE DEF tasks
<1>3. all.ids \in Seq(JobIds) /\ Len(all.ids) \in Nat /\ DOMAIN all.ids = 1..Len(all.ids)
  BY <1>2, LenProperties DEF Noted
<1>4. tasks \in Seq(Range(tasks))
  <2>1. DOMAIN tasks = 1..Len(all.ids)
    BY <1>1, <1>3
  <2>2. tasks \in [1..Len(all.ids) -> Range(tasks)]
    <3>1. tasks = [i \in 1..Len(all.ids) |-> tasks[i]]
      BY <1>1, <1>3
    <3>2. \A i \in 1..Len(all.ids) : tasks[i] \in Range(tasks)
      BY <2>1 DEF Range
    <3> QED BY <3>1, <3>2
  <2> QED BY <2>2, <1>3, SeqDef
<1>5. ASSUME NEW i \in DOMAIN all.ids
      PROVE  /\ tasks[i] \in Range(tasks) /\ tasks[i].id = all.ids[i] /\ all.ids[i] \in DOMAIN all.jobs
             /\ tasks[i].start = all.jobs[all.ids[i]].start /\ tasks[i].end = all.jobs[all.ids[i]].end
  <2>1. DOMAIN tasks = DOMAIN all.ids
    BY <1>1
  <2>2. tasks[i] \in Range(tasks)
    BY <2>1 DEF Range
  <2>3. all.ids[i] \in Range(all.ids)
    BY DEF Range
  <2>4. all.ids[i] \in DOMAIN all.jobs
    BY <2>3, <1>2
  <2> QED BY <1>1, <2>2, <2>4
<1>6. PICK I \in SUBSET JobIds : all.jobs \in [I -> Times]
  BY <1>2 DEF Noted, Jobs
<1>7. \A task \in Range(tasks) : task.start \in Int /\ task.end \in Int
  <2> TAKE task \in Range(tasks)
  <2>1. PICK i \in DOMAIN all.ids : task = tasks[i]
    BY <1>1 DEF Range
  <2> QED BY <2>1, <1>5, <1>6 DEF Times
<1>8. ASSUME NEW i \in 1..N, NEW j \in 1..N,
             Of(order, i).type = "SCHEDULE", Of(order, j).type = "FINISH", Of(order, i).id = Of(order, j).id
      PROVE  \E task \in Range(tasks) :
               /\ task.id = Of(order, i).id
               /\ \E k \in 1..N : /\ Is(Of(order, k), task.id, "SCHEDULE") /\ task.start = Of(order, k).time
                                  /\ \A l \in 1..N : k < l => ~Is(Of(order, l), task.id, "SCHEDULE")
               /\ \E k \in 1..N : /\ Is(Of(order, k), task.id, "FINISH") /\ task.end = Of(order, k).time
                                  /\ \A l \in 1..N : k < l => ~Is(Of(order, l), task.id, "FINISH")
  <2> DEFINE id == Of(order, i).id
  <2>1. id \in DOMAIN all.jobs
    BY <1>2
  <2>2. Is(Of(order, i), id, "SCHEDULE") /\ Is(Of(order, j), id, "FINISH")
    BY <1>8 DEF Is
  <2> HIDE DEF id
  <2>3. \E k \in 1..N : /\ Is(Of(order, k), id, "SCHEDULE") /\ all.jobs[id].start = Of(order, k).time
                        /\ \A l \in 1..N : k < l => ~Is(Of(order, l), id, "SCHEDULE")
    BY <2>1, <2>2, <1>2 DEF LastIs
  <2>4. \E k \in 1..N : /\ Is(Of(order, k), id, "FINISH") /\ all.jobs[id].end = Of(order, k).time
                        /\ \A l \in 1..N : k < l => ~Is(Of(order, l), id, "FINISH")
    BY <2>1, <2>2, <1>2 DEF LastIs
  <2>5. all.jobs[id].start # None /\ all.jobs[id].end # None
    <3>1. \A k \in 1..N : Of(order, k).time \in Nat
      BY EventOfClass
    <3> QED BY <3>1, <2>3, <2>4 DEF None
  <2>6. PICK n \in DOMAIN all.ids : all.ids[n] = id
    BY <2>1, <2>5, <1>2 DEF Range
  <2>7. /\ tasks[n] \in Range(tasks) /\ tasks[n].id = id
        /\ tasks[n].start = all.jobs[id].start /\ tasks[n].end = all.jobs[id].end
    BY <2>6, <1>5
  <2>8. /\ \E k \in 1..N : /\ Is(Of(order, k), id, "SCHEDULE") /\ tasks[n].start = Of(order, k).time
                           /\ \A l \in 1..N : k < l => ~Is(Of(order, l), id, "SCHEDULE")
        /\ \E k \in 1..N : /\ Is(Of(order, k), id, "FINISH") /\ tasks[n].end = Of(order, k).time
                           /\ \A l \in 1..N : k < l => ~Is(Of(order, l), id, "FINISH")
    BY <2>3, <2>4, <2>7
  <2> QED BY <2>7, <2>8 DEF id
<1> QED BY <1>4, <1>7, <1>8 DEF tasks

-----------------------------------------------------------------------------
(* The rows of the dataset. *)

IsClass(c) ==
  /\ c.tasks \in Seq(Range(c.tasks))
  /\ \A task \in Range(c.tasks) : task.start \in Int /\ task.end \in Int

Row(C, Indexes) == [class : 1..NumClasses, start : Int, end : Int, cpus : C, index : Indexes]
NewRows(C) == Seq(Row(C, {0}))

LEMMA RowsOfIn ==
  ASSUME NEW C, NEW c, IsClass(c), \A task \in Range(c.tasks) : task.cpus \in C, NEW class \in 1..NumClasses
  PROVE  RowsOf(c.tasks, class) \in NewRows(C)
<1> DEFINE tasks == c.tasks
           N == Len(tasks)
           rows == RowsOf(tasks, class)
<1>1. N \in Nat /\ DOMAIN tasks = 1..N /\ \A i \in 1..N : tasks[i] \in Range(tasks)
  BY LenProperties, ElementOfSeq DEF IsClass
<1>2. \A i \in 1..N : tasks[i].start \in Int /\ tasks[i].end \in Int /\ tasks[i].cpus \in C
  BY <1>1 DEF IsClass
<1>3. rows \in [1..N -> Row(C, {0})]
  BY <1>1, <1>2 DEF RowsOf, Row
<1> QED BY <1>1, <1>3, SeqDef DEF NewRows

LEMMA AddClassIn ==
  ASSUME NEW C, NEW c, IsClass(c), \A task \in Range(c.tasks) : task.cpus \in C,
         NEW acc \in [counter : 1..NumClasses, rows : NewRows(C), inserted : NewRows(C)]
  PROVE  AddClass(acc, c.tasks) \in [counter : 1..NumClasses, rows : NewRows(C), inserted : NewRows(C)]
<1> DEFINE new == RowsOf(c.tasks, acc.counter)
           rows == acc.rows \o new
<1>1. new \in NewRows(C)
  BY RowsOfIn
<1>2. rows \in NewRows(C) /\ acc.inserted \o rows \in NewRows(C)
  <2>1. rows \in NewRows(C)
    BY <1>1, ConcatProperties DEF NewRows
  <2> HIDE DEF rows
  <2> QED BY <2>1, ConcatProperties DEF NewRows
<1>3. <<>> \in NewRows(C)
  BY EmptySeq DEF NewRows
<1>4. (IF acc.counter + 1 <= NumClasses THEN acc.counter + 1 ELSE acc.counter) \in 1..NumClasses
  BY TracesAssumption
<1>5. AddClass(acc, c.tasks) = [counter |-> IF acc.counter + 1 <= NumClasses THEN acc.counter + 1 ELSE acc.counter,
                                rows |-> IF Len(rows) > RowBatch THEN <<>> ELSE rows,
                                inserted |-> IF Len(rows) > RowBatch THEN acc.inserted \o rows ELSE acc.inserted]
  BY DEF AddClass
<1> HIDE DEF rows
<1> QED BY <1>2, <1>3, <1>4, <1>5

LEMMA InsertedIn ==
  ASSUME NEW C, NEW order, Len(order) \in Nat,
         \A n \in 1..Len(order) : IsClass(order[n][1]) /\ \A task \in Range(order[n][1].tasks) : task.cpus \in C
  PROVE  Inserted(order) \in NewRows(C)
<1> DEFINE N == Len(order)
           S == [counter : 1..NumClasses, rows : NewRows(C), inserted : NewRows(C)]
           first == [counter |-> 1, rows |-> <<>>, inserted |-> <<>>]
           Turn(n, acc) == AddClass(acc, order[n][1].tasks)
           turn == [x \in (1..N) \X S |-> Turn(x[1], x[2])]
           Is0(loop) == loop = [n \in 0..N |-> IF n = 0 THEN [counter |-> 1, rows |-> <<>>, inserted |-> <<>>]
                                               ELSE AddClass(loop[n - 1], order[n][1].tasks)]
<1>1. N \in Nat
  OBVIOUS
<1>2. first \in S
  <2>1. <<>> \in NewRows(C)
    BY EmptySeq DEF NewRows
  <2> QED BY <2>1, TracesAssumption
<1>3. ASSUME NEW n \in 1..N, NEW acc \in S PROVE Turn(n, acc) \in S
  BY AddClassIn
<1>4. turn \in [(1..N) \X S -> S]
  <2> HIDE DEF Turn, S, N
  <2> QED BY <1>3
<1>5. PICK loop : IsLoop(loop, N, S, first, turn)
  <2> HIDE DEF turn, S, N, first
  <2> QED BY <1>1, <1>2, <1>4, LoopsExist
<1>6. /\ loop \in [0..N -> S]
      /\ loop[0] = first /\ \A n \in 0..N : n # 0 => loop[n] = turn[<<n, loop[n - 1]>>]
  <2> HIDE DEF turn, S, N, first
  <2> QED BY <1>5 DEF IsLoop
<1>7. Is0(loop)
  <2>1. ASSUME NEW n \in 0..N, n # 0 PROVE turn[<<n, loop[n - 1]>>] = Turn(n, loop[n - 1])
    <3>1. n \in 1..N /\ n - 1 \in 0..N
      BY <1>1, <2>1
    <3>2. loop[n - 1] \in S
      BY <1>6, <3>1
    <3> HIDE DEF Turn, S, N
    <3> QED BY <3>1, <3>2
  <2> HIDE DEF turn, N, S, first
  <2>2. \A n \in 0..N : loop[n] = IF n = 0 THEN first ELSE Turn(n, loop[n - 1])
    BY <1>6, <2>1
  <2>3. loop = [n \in 0..N |-> IF n = 0 THEN first ELSE Turn(n, loop[n - 1])]
    <3> HIDE DEF Turn
    <3> QED BY <1>6, <2>2
  <2> QED BY <2>3 DEF first
<1> DEFINE added == CHOOSE f : Is0(f)
<1>8. Inserted(order) = added[N].inserted
  BY DEF Inserted
<1>9. Is0(added)
  <2> HIDE DEF Is0
  <2> QED BY <1>7
<1> HIDE DEF added
<1>10. added[0] = first /\ \A n \in 0..N : n # 0 => added[n] = Turn(n, added[n - 1])
  <2>1. added = [n \in 0..N |-> IF n = 0 THEN first ELSE Turn(n, added[n - 1])]
    BY <1>9
  <2> HIDE DEF Turn, N, first
  <2>2. \A n \in 0..N : added[n] = IF n = 0 THEN first ELSE Turn(n, added[n - 1])
    BY <2>1
  <2> QED BY <1>1, <2>2
<1> DEFINE P == {n \in 0..N : added[n] \in S}
<1>11. 0 \in P
  <2> HIDE DEF N, first, S
  <2> QED BY <1>1, <1>2, <1>10
<1>12. ASSUME NEW n \in 0..N, n # N, n \in P PROVE n + 1 \in P
  <2>1. n \in Nat /\ n + 1 \in 0..N /\ n + 1 \in 1..N /\ n + 1 # 0 /\ (n + 1) - 1 = n /\ added[n] \in S
    BY <1>1, <1>12
  <2> HIDE DEF Turn, N, first, S
  <2>2. added[n + 1] = Turn(n + 1, added[n])
    BY <2>1, <1>10
  <2>3. added[n + 1] \in S
    BY <2>1, <2>2, <1>3
  <2> QED BY <2>1, <2>3
<1>13. added[N] \in S
  <2> HIDE DEF P, N, S
  <2>1. 0..N \subseteq P
    BY <1>1, <1>11, <1>12, CountUp
  <2>2. N \in P
    BY <2>1, <1>1
  <2> QED BY <2>2 DEF P
<1> QED BY <1>8, <1>13

-----------------------------------------------------------------------------
(* Bags. *)

IsBag(b) == b \in [DOMAIN b -> Nat \ {0}] /\ IsFiniteSet(DOMAIN b)

LEMMA BagOfMore ==
  ASSUME NEW b, IsBag(b), NEW x
  PROVE  IsBag(b (+) SetToBag({x})) /\ DOMAIN (b (+) SetToBag({x})) = DOMAIN b \union {x}
<1> DEFINE c == b (+) SetToBag({x})
<1>1. DOMAIN c = DOMAIN b \union {x}
  BY DEF SetToBag, (+)
<1>2. c \in [DOMAIN b \union {x} -> Nat \ {0}]
  BY DEF SetToBag, (+), IsBag
<1>3. IsFiniteSet(DOMAIN b \union {x})
  BY FS_AddElement DEF IsBag
<1> HIDE DEF c
<1>4. IsBag(c)
  BY <1>1, <1>2, <1>3 DEF IsBag
<1> QED BY <1>1, <1>4 DEF c

LEMMA CopiesAre ==
  ASSUME NEW b, IsBag(b)
  PROVE  /\ IsFiniteSet(Copies(b))
         /\ \A c \in Copies(b) : c[1] \in DOMAIN b /\ c[2] \in 1..b[c[1]] /\ c = <<c[1], c[2]>>
         /\ \A x \in DOMAIN b : <<x, 1>> \in Copies(b)
<1>1. Copies(b) = UNION {{x} \X (1..b[x]) : x \in DOMAIN b}
  BY DEF Copies, BagToSet
<1>2. ASSUME NEW x \in DOMAIN b PROVE IsFiniteSet({x} \X (1..b[x])) /\ 1 \in 1..b[x]
  <2>1. b[x] \in Nat \ {0}
    BY DEF IsBag
  <2>2. IsFiniteSet({x}) /\ IsFiniteSet(1..b[x])
    <3>1. 1 \in Int /\ b[x] \in Int
      BY <2>1
    <3>2. IsFiniteSet(1..b[x])
      BY <3>1, FS_Interval
    <3> QED BY <3>2, FS_Singleton
  <2> QED BY <2>1, <2>2, FS_Product
<1> DEFINE f == [x \in DOMAIN b |-> {x} \X (1..b[x])]
<1>3. IsFiniteSet(Range(f)) /\ UNION Range(f) = Copies(b)
  <2>1. Range(f) = {{x} \X (1..b[x]) : x \in DOMAIN b}
    BY DEF Range
  <2>2. IsFiniteSet(DOMAIN b)
    BY DEF IsBag
  <2>3. f \in Surjection(DOMAIN b, Range(f))
    BY DEF Surjection, Range
  <2> HIDE DEF f
  <2>4. IsFiniteSet(Range(f))
    BY <2>2, <2>3, FS_Surjection
  <2> QED BY <2>1, <2>4, <1>1
<1>4. \A T \in Range(f) : IsFiniteSet(T)
  BY <1>2 DEF Range
<1> HIDE DEF f
<1>5. IsFiniteSet(UNION Range(f))
  BY <1>3, <1>4, FS_UNION
<1>6. IsFiniteSet(Copies(b))
  BY <1>3, <1>5
<1>7. ASSUME NEW c \in Copies(b) PROVE c[1] \in DOMAIN b /\ c[2] \in 1..b[c[1]] /\ c = <<c[1], c[2]>>
  <2>1. PICK x \in DOMAIN b : c \in {x} \X (1..b[x])
    BY <1>1
  <2> QED BY <2>1
<1>8. ASSUME NEW x \in DOMAIN b PROVE <<x, 1>> \in Copies(b)
  <2>1. <<x, 1>> \in {x} \X (1..b[x])
    BY <1>2
  <2> QED BY <2>1, <1>1
<1> QED BY <1>6, <1>7, <1>8

-----------------------------------------------------------------------------
(* The invariant. *)

Working(s) ==
  [phase : {"read", "look", "again", "insert"}, file : DOMAIN Files[s], rest : Seq(Everything(s)),
   batch : Seq(Everything(s)), last : BOOLEAN, at : Nat \ {0}, found : Seq(Everything(s))]

Types ==
  /\ process \in 0..Len(Plans) /\ step \in {0, 2, 3, 4, 5, 6} /\ steps \in Seq(2..6) /\ faults \in 0..MaxFaults
  /\ InProcess => process # 0
  /\ thread \in [Threads -> {Free} \union (IF step \in {2, 3} THEN Working(step) ELSE {})]
  /\ DOMAIN collections = {2, 3} /\ DOMAIN expected = {2, 3} /\ tidy \subseteq {2, 3}
  /\ jobTypes \in [isolated : Nat, no_relationship : Nat, children : Nat, sequential : Nat]

Queued ==
  /\ step = 0 => queue = <<>>
  /\ step \in {2, 3} => queue \in Seq(DOMAIN Files[step])
  /\ step = 4 => queue \in Seq(Names)
  /\ step = 5 => queue \in {<<"extract", "index">>, <<"index">>, <<>>}
  /\ step = 6 => queue \in Seq(DOMAIN Files[2])

(* A hash is that of an event in one process.  No process that is on its way has seen one of its *)
(* documents cleaned, so that no two documents of one hash differ in that.                       *)
IsDocument(s, d) ==
  /\ d = [event |-> d.event, hash |-> <<d.event, d.hash[2]>>, cleaned |-> d.cleaned]
  /\ d.event \in Everything(s) /\ d.hash[2] \in 1..process /\ d.cleaned \in BOOLEAN
  /\ InProcess /\ d.cleaned => d.hash[2] # process

Stored ==
  \A s \in {2, 3} :
    /\ IsBag(collections[s]) /\ \A d \in Documents(s) : IsDocument(s, d)
    /\ \A c, d \in Documents(s) : c.hash = d.hash => c = d
    /\ s \in tidy => \A d \in Documents(s) : collections[s][d] = 1

(* An event of the file a thread is reading is saved, or still to be read, or in its batch; and  *)
(* what it has looked up of the batch is saved or found to be new.                               *)
Reading(s, th) ==
  /\ Range(EventsIn(s, th.file)) \subseteq Events(s) \union Range(th.rest) \union Range(th.batch)
  /\ th.phase = "read" => Range(th.batch) \subseteq Events(s)
  /\ th.phase \in {"look", "again"} =>
       /\ th.at \in 1..Len(th.batch)
       /\ \A i \in 1..Len(th.batch) : i < th.at => th.batch[i] \in Events(s) \union Range(th.found)
  /\ th.phase = "insert" => th.found # <<>> /\ Range(th.batch) \subseteq Events(s) \union Range(th.found)
  /\ th.last /\ th.phase # "read" => th.rest = <<>>

ReadSoFar == EventsKept /\ \A t \in Threads : thread[t] # Free => Reading(step, thread[t])

(* A job with a start and an end is listed in its class, or its class is still to be extracted.  *)
Finished(d, e) == d.type = "SCHEDULE" /\ e.type = "FINISH" /\ d.id = e.id /\ d.name = e.name
Extracted ==
  /\ IsBag(classes) /\ \A c \in DOMAIN classes : IsClass(c)
  /\ step = 4 => \A d, e \in Events(2) : Finished(d, e) => d.name \in Range(queue) \/ JobListed(d)

(* The rows are numbered by their start, but for the time in which there are new ones.           *)
Indexed ==
  /\ \A n \in 1..Len(dataset) : dataset[n].index = n - 1
  /\ \A m, n \in 1..Len(dataset) : m < n => dataset[m].start <= dataset[n].start
Rows ==
  /\ \E C : dataset \in Seq(Row(C, Nat))
  /\ \A n \in 1..Len(dataset) : dataset[n].index < Len(dataset)
  /\ (step = 5 /\ queue = <<"index">>) \/ Indexed
  /\ ExportedInOrder

IInv == Types /\ Queued /\ Stored /\ ReadSoFar /\ Extracted /\ Rows

-----------------------------------------------------------------------------
(* What is true at the beginning. *)

LEMMA NoDocuments == IsBag(EmptyBag) /\ DOMAIN EmptyBag = {}
<1>1. EmptyBag = [e \in {} |-> 1]
  BY DEF EmptyBag, SetToBag
<1>2. DOMAIN EmptyBag = {} /\ EmptyBag \in [{} -> Nat \ {0}]
  BY <1>1
<1> QED BY <1>2, FS_EmptySet DEF IsBag

LEMMA InitInv == ASSUME TracesInit PROVE IInv
<1> USE DEF TracesInit
<1>1. Types
  <2>1. <<>> \in Seq(2..6)
    BY EmptySeq
  <2>2. Len(Plans) \in Nat /\ MaxFaults \in Nat
    BY TracesAssumption, LenProperties
  <2> QED BY <2>1, <2>2 DEF Types, InProcess, NoJobs
<1>2. Queued
  BY EmptySeq DEF Queued
<1>3. \A s \in {2, 3} : collections[s] = EmptyBag /\ Documents(s) = {} /\ expected[s] = {} /\ Events(s) = {}
  BY NoDocuments DEF Documents, BagToSet, Events
<1>4. Stored
  BY <1>3, NoDocuments DEF Stored
<1>5. ReadSoFar
  BY <1>3 DEF ReadSoFar, EventsKept
<1>6. Extracted
  BY NoDocuments DEF Extracted
<1>7. Rows
  <2>1. dataset \in Seq(Row({}, Nat)) /\ Len(dataset) = 0 /\ Range(dataset) = {}
    BY EmptySeq DEF Range
  <2>2. 1..Len(dataset) = {}
    BY <2>1
  <2>3. DOMAIN exported = {}
    OBVIOUS
  <2>4. Cardinality(DOMAIN exported) = 0
    BY <2>3, FS_EmptySet
  <2>5. DOMAIN exported = 0..Cardinality(DOMAIN exported) - 1
    BY <2>3, <2>4
  <2>6. ExportedInOrder
    BY <2>3, <2>5 DEF ExportedInOrder
  <2> QED BY <2>1, <2>2, <2>6 DEF Rows, Indexed
<1> QED BY <1>1, <1>2, <1>4, <1>5, <1>6, <1>7 DEF IInv

-----------------------------------------------------------------------------
(* Steps of a process, and the types. *)

LEMMA NoneWorks ==
  ASSUME Types, ~InProcess \/ step \notin {2, 3} \/ AllFree
  PROVE  thread \in [Threads -> {Free}]
BY DEF Types, InProcess, AllFree

LEMMA NamesAreFinite == ASSUME Stored PROVE IsFiniteSet(Names)
<1> DEFINE f == [d \in Documents(2) |-> d.event.name]
<1>1. IsFiniteSet(Documents(2))
  BY DEF Stored, IsBag, Documents, BagToSet
<1>2. f \in Surjection(Documents(2), Names)
  BY DEF Surjection, Names
<1> HIDE DEF f
<1> QED BY <1>1, <1>2, FS_Surjection

LEMMA AllOf ==
  ASSUME NEW S, IsFiniteSet(S), NEW q \in SetToSeqs(S)
  PROVE  q \in Seq(S) /\ Range(q) = S
<1> DEFINE N == Cardinality(S)
<1>1. N \in Nat
  BY FS_CardinalityType
<1>2. q \in [1..N -> S] /\ \A i, j \in 1..N : i # j => q[i] # q[j]
  BY DEF SetToSeqs
<1>3. q \in Seq(S)
  BY <1>1, <1>2, SeqDef
<1>4. q \in Injection(1..N, S)
  <2> HIDE DEF N
  <2> QED BY <1>2 DEF Injection, IsInjective
<1>5. IsFiniteSet(1..N) /\ Cardinality(1..N) = N
  <2> HIDE DEF N
  <2>1. 1 \in Int /\ N \in Int
    BY <1>1
  <2>2. Cardinality(1..N) = IF 1 > N THEN 0 ELSE N - 1 + 1
    BY <2>1, FS_Interval
  <2> QED BY <1>1, <2>1, <2>2, FS_Interval
<1>6. q \in Surjection(1..N, S)
  BY <1>4, <1>5, FS_Injection
<1>7. Range(q) = S
  <2> HIDE DEF N
  <2> QED BY <1>2, <1>6 DEF Surjection, Range
<1> QED BY <1>3, <1>7

LEMMA WorkIs ==
  ASSUME Stored, NEW s \in 2..6, NEW q \in Work(s)
  PROVE  /\ s \in {2, 3} => q \in Seq(DOMAIN Files[s])
         /\ s = 4 => q \in Seq(Names) /\ Range(q) = Names
         /\ s = 5 => q = <<"extract", "index">>
         /\ s = 6 => q \in Seq(DOMAIN Files[2])
<1>1. \A r \in {2, 3} : [i \in DOMAIN Files[r] |-> i] \in Seq(DOMAIN Files[r])
  <2> TAKE r \in {2, 3}
  <2>1. Len(Files[r]) \in Nat /\ DOMAIN Files[r] = 1..Len(Files[r])
    BY TracesAssumption, LenProperties
  <2>2. [i \in DOMAIN Files[r] |-> i] \in [1..Len(Files[r]) -> DOMAIN Files[r]]
    BY <2>1
  <2> QED BY <2>1, <2>2, SeqDef
<1>2. CASE s \in {2, 3}
  BY <1>1, <1>2 DEF Work
<1>3. CASE s = 4
  BY <1>3, NamesAreFinite, AllOf DEF Work
<1>4. CASE s = 5
  BY <1>4 DEF Work
<1>5. CASE s = 6
  BY <1>1, <1>5 DEF Work
<1> QED BY <1>2, <1>3, <1>4, <1>5

LEMMA BeginStepIs ==
  ASSUME Types, Stored, NEW todo \in Seq(2..6), BeginStep(todo), UNCHANGED collections
  PROVE  /\ step' \in {0, 2, 3, 4, 5, 6} /\ steps' \in Seq(2..6) /\ Queued'
         /\ jobTypes' \in [isolated : Nat, no_relationship : Nat, children : Nat, sequential : Nat]
         /\ step' = 4 => Range(queue') = Names
         /\ step' = 5 => queue' = <<"extract", "index">>
<1>1. UNCHANGED Names
  BY DEF Names, Documents
<1>2. CASE todo = <<>>
  <2>1. step' = 0 /\ steps' = <<>> /\ queue' = <<>> /\ jobTypes' = jobTypes
    BY <1>2 DEF BeginStep
  <2>2. steps' \in Seq(2..6)
    BY <2>1, EmptySeq
  <2> QED BY <2>1, <2>2 DEF Types, Queued
<1>3. CASE todo # <<>>
  <2>1. step' = Head(todo) /\ steps' = Tail(todo) /\ queue' \in Work(Head(todo)) /\ jobTypes' \in {NoJobs, jobTypes}
    BY <1>3 DEF BeginStep
  <2>2. step' \in 2..6 /\ steps' \in Seq(2..6)
    BY <1>3, <2>1, HeadAndTail
  <2>3. /\ step' \in {2, 3} => queue' \in Seq(DOMAIN Files[step'])
        /\ step' = 4 => queue' \in Seq(Names) /\ Range(queue') = Names
        /\ step' = 5 => queue' = <<"extract", "index">>
        /\ step' = 6 => queue' \in Seq(DOMAIN Files[2])
    BY <2>1, <2>2, WorkIs
  <2>4. jobTypes' \in [isolated : Nat, no_relationship : Nat, children : Nat, sequential : Nat]
    BY <2>1 DEF Types, NoJobs
  <2>5. Queued'
    BY <1>1, <2>2, <2>3 DEF Queued
  <2> QED BY <2>2, <2>3, <2>4, <2>5
<1> QED BY <1>2, <1>3

LEMMA StartProcessIs ==
  ASSUME Types, Stored, StartProcess
  PROVE  /\ Types' /\ Queued' /\ process' = process + 1 /\ ~InProcess
         /\ step' = 4 => Range(queue') = Names
         /\ step' = 5 => queue' = <<"extract", "index">>
<1>1. PICK plan \in Plans[process + 1] : BeginStep(plan)
  BY DEF StartProcess
<1>2. /\ process < Len(Plans) /\ process' = process + 1 /\ ~InProcess
      /\ UNCHANGED <<thread, dataVars, classes, dataset, exported, faults>>
  BY DEF StartProcess
<1>3. Len(Plans) \in Nat /\ process \in Nat /\ process + 1 \in 1..Len(Plans)
  BY <1>2, TracesAssumption, LenProperties DEF Types
<1>4. plan \in Seq(2..6)
  <2>1. Plans[process + 1] \in SUBSET Seq(2..6)
    BY <1>3, TracesAssumption, ElementOfSeq
  <2> QED BY <2>1
<1>5. /\ step' \in {0, 2, 3, 4, 5, 6} /\ steps' \in Seq(2..6) /\ Queued'
      /\ jobTypes' \in [isolated : Nat, no_relationship : Nat, children : Nat, sequential : Nat]
      /\ step' = 4 => Range(queue') = Names
      /\ step' = 5 => queue' = <<"extract", "index">>
  BY <1>1, <1>2, <1>4, BeginStepIs DEF dataVars
<1>6. thread \in [Threads -> {Free}]
  BY <1>2, NoneWorks
<1>7. Types'
  BY <1>2, <1>3, <1>5, <1>6 DEF Types, InProcess, dataVars
<1> QED BY <1>2, <1>5, <1>7

LEMMA EndStepIs ==
  ASSUME Types, Stored, EndStep
  PROVE  /\ Types' /\ Queued' /\ thread \in [Threads -> {Free}] /\ queue = <<>> /\ InProcess
         /\ step' = 4 => Range(queue') = Names
         /\ step' = 5 => queue' = <<"extract", "index">>
<1>1. /\ InProcess /\ queue = <<>> /\ AllFree /\ BeginStep(steps)
      /\ UNCHANGED <<process, thread, dataVars, classes, dataset, exported, faults>>
  BY DEF EndStep
<1>2. steps \in Seq(2..6)
  BY DEF Types
<1>3. /\ step' \in {0, 2, 3, 4, 5, 6} /\ steps' \in Seq(2..6) /\ Queued'
      /\ jobTypes' \in [isolated : Nat, no_relationship : Nat, children : Nat, sequential : Nat]
      /\ step' = 4 => Range(queue') = Names
      /\ step' = 5 => queue' = <<"extract", "index">>
  BY <1>1, <1>2, BeginStepIs DEF dataVars
<1>4. thread \in [Threads -> {Free}]
  BY <1>1, NoneWorks
<1>5. Types'
  BY <1>1, <1>3, <1>4 DEF Types, InProcess, dataVars
<1> QED BY <1>1, <1>3, <1>4, <1>5

-----------------------------------------------------------------------------
(* What a step leaves as it is. *)

LEMMA SameDocuments ==
  ASSUME UNCHANGED collections
  PROVE  /\ \A s : Documents(s)' = Documents(s) /\ Events(s)' = Events(s)
         /\ Names' = Names /\ CollectionIds' = CollectionIds
BY DEF Documents, Events, Names, CollectionIds

LEMMA StoredStays ==
  ASSUME Types, Stored, UNCHANGED <<collections, tidy>>,
         (process' = process /\ (InProcess' => InProcess)) \/ process' = process + 1
  PROVE  Stored'
<1>1. process \in Nat
  BY TracesAssumption, LenProperties DEF Types
<1>2. \A s : Documents(s)' = Documents(s)
  BY SameDocuments
<1>3. ASSUME NEW s \in {2, 3}, NEW d \in Documents(s) PROVE IsDocument(s, d)'
  <2>1. IsDocument(s, d)
    BY DEF Stored
  <2> QED BY <2>1, <1>1 DEF IsDocument, InProcess
<1>4. ASSUME NEW s \in {2, 3}
      PROVE  /\ IsBag(collections[s])' /\ \A d \in Documents(s)' : IsDocument(s, d)'
             /\ \A c, d \in Documents(s)' : c.hash = d.hash => c = d
             /\ s \in tidy' => \A d \in Documents(s)' : collections'[s][d] = 1
  <2>1. /\ IsBag(collections[s])
        /\ \A c, d \in Documents(s) : c.hash = d.hash => c = d
        /\ s \in tidy => \A d \in Documents(s) : collections[s][d] = 1
    BY DEF Stored
  <2>2. IsBag(collections[s])'
    BY <2>1 DEF IsBag
  <2> QED BY <2>1, <2>2, <1>2, <1>3
<1> QED BY <1>4 DEF Stored

LEMMA NoneReads ==
  ASSUME ReadSoFar, UNCHANGED <<collections, expected>>, thread' \in [Threads -> {Free}]
  PROVE  ReadSoFar'
<1>1. EventsKept'
  BY SameDocuments DEF ReadSoFar, EventsKept
<1> QED BY <1>1 DEF ReadSoFar

LEMMA ExtractedStays ==
  ASSUME Extracted, UNCHANGED classes,
         step' = 4 => /\ UNCHANGED collections
                      /\ (step = 4 /\ queue' = queue) \/ Range(queue') = Names
  PROVE  Extracted'
<1>1. IsBag(classes)' /\ \A c \in DOMAIN classes' : IsClass(c)
  BY DEF Extracted, IsBag
<1>2. ASSUME step' = 4, NEW d \in Events(2)', NEW e \in Events(2)', Finished(d, e)
      PROVE  d.name \in Range(queue') \/ JobListed(d)'
  <2>1. UNCHANGED collections /\ Events(2)' = Events(2)
    BY <1>2, SameDocuments
  <2>2. CASE step = 4 /\ queue' = queue
    <3>1. d.name \in Range(queue) \/ JobListed(d)
      BY <1>2, <2>1, <2>2 DEF Extracted
    <3>2. JobListed(d)' = JobListed(d)
      BY <2>1 DEF JobListed, Latest, BagToSet
    <3> QED BY <2>2, <3>1, <3>2
  <2>3. CASE Range(queue') = Names
    BY <2>1, <2>3 DEF Events, Names
  <2> QED BY <1>2, <2>2, <2>3
<1> QED BY <1>1, <1>2 DEF Extracted

LEMMA RowsStay ==
  ASSUME Rows, UNCHANGED <<dataset, exported>>,
         ~(step = 5 /\ queue = <<"index">>) \/ UNCHANGED <<step, queue>>
  PROVE  Rows'
BY DEF Rows, Indexed, ExportedInOrder

-----------------------------------------------------------------------------
(* The processes begin and end their steps. *)

LEMMA StartProcessInv == ASSUME IInv, StartProcess PROVE IInv'
<1>1. /\ Types' /\ Queued' /\ process' = process + 1 /\ ~InProcess
      /\ step' = 4 => Range(queue') = Names
  BY StartProcessIs DEF IInv
<1>2. UNCHANGED <<thread, collections, expected, tidy, classes, dataset, exported>>
  BY DEF StartProcess, dataVars
<1>3. thread \in [Threads -> {Free}]
  BY <1>1, NoneWorks DEF IInv
<1>4. Stored'
  BY <1>1, <1>2, StoredStays DEF IInv
<1>5. ReadSoFar'
  BY <1>2, <1>3, NoneReads DEF IInv
<1>6. Extracted'
  BY <1>1, <1>2, ExtractedStays DEF IInv
<1>7. Rows'
  BY <1>1, <1>2, RowsStay DEF IInv, InProcess
<1> QED BY <1>1, <1>4, <1>5, <1>6, <1>7 DEF IInv

LEMMA EndStepInv == ASSUME IInv, EndStep PROVE IInv'
<1>1. /\ Types' /\ Queued' /\ thread \in [Threads -> {Free}] /\ queue = <<>> /\ InProcess
      /\ step' = 4 => Range(queue') = Names
  BY EndStepIs DEF IInv
<1>2. UNCHANGED <<process, thread, collections, expected, tidy, classes, dataset, exported>>
  BY DEF EndStep, dataVars
<1>4. Stored'
  BY <1>1, <1>2, StoredStays DEF IInv
<1>5. ReadSoFar'
  BY <1>1, <1>2, NoneReads DEF IInv
<1>6. Extracted'
  BY <1>1, <1>2, ExtractedStays DEF IInv
<1>7. Rows'
  BY <1>1, <1>2, RowsStay DEF IInv
<1> QED BY <1>1, <1>4, <1>5, <1>6, <1>7 DEF IInv

-----------------------------------------------------------------------------
(* The threads that save events. *)

(* One thread goes on, the others read what they have read. *)
LEMMA OneGoes ==
  ASSUME Types, ReadSoFar, step \in {2, 3}, step' = step, NEW t \in Threads,
         NEW new \in {Free} \union Working(step), thread' = [thread EXCEPT ![t] = new],
         Events(step) \subseteq Events(step)', step = 2 \/ CollectionIds' = CollectionIds,
         EventsKept', new # Free => Reading(step, new)'
  PROVE  thread' \in [Threads -> {Free} \union Working(step)] /\ ReadSoFar'
<1>1. thread \in [Threads -> {Free} \union Working(step)]
  BY DEF Types
<1>2. thread' \in [Threads -> {Free} \union Working(step)]
  BY <1>1
<1>3. ASSUME NEW u \in Threads, thread'[u] # Free PROVE Reading(step, thread[u])'
  <2>1. CASE u = t
    <3>1. thread'[u] = new
      BY <1>1, <2>1
    <3> QED BY <3>1, <1>3 DEF Reading
  <2>2. CASE u # t
    <3>1. thread'[u] = thread[u] /\ thread[u] # Free
      BY <1>1, <1>3, <2>2
    <3>2. Reading(step, thread[u]) /\ thread[u] \in Working(step)
      BY <3>1, <1>1 DEF ReadSoFar
    <3>3. EventsIn(step, thread[u].file)' = EventsIn(step, thread[u].file)
      <4>1. thread[u].file \in DOMAIN Files[step]
        BY <3>2 DEF Working
      <4> QED BY <3>1, <4>1, SameEvents
    <3> QED BY <3>1, <3>2, <3>3 DEF Reading
  <2> QED BY <2>1, <2>2
<1> QED BY <1>2, <1>3 DEF ReadSoFar

LEMMA TakeFileIs ==
  ASSUME Types, Queued, step \in {2, 3, 6}, NEW t \in Threads, NEW begun, TakeFile(t, begun)
  PROVE  /\ UNCHANGED <<process, step, steps>> /\ thread[t] = Free
         /\ thread' = thread \/ thread' = [thread EXCEPT ![t] = begun]
         /\ faults' \in 0..MaxFaults /\ Queued' /\ InProcess
         /\ Head(queue) \in DOMAIN Files[IF step = 6 THEN 2 ELSE step]
<1>1. /\ thread[t] = Free /\ queue # <<>> /\ queue' = Tail(queue)
      /\ thread' = [thread EXCEPT ![t] = begun] \/ thread' = thread
      /\ faults' = faults \/ (faults < MaxFaults /\ faults' = faults + 1)
      /\ UNCHANGED <<process, step, steps>>
  BY DEF TakeFile
<1>2. faults' \in 0..MaxFaults
  BY <1>1, TracesAssumption DEF Types
<1>3. \A S : queue \in Seq(S) => Head(queue) \in S /\ Tail(queue) \in Seq(S)
  BY <1>1, HeadAndTail
<1>4. Queued'
  BY <1>1, <1>3 DEF Queued
<1> QED BY <1>1, <1>2, <1>3, <1>4 DEF Queued, InProcess

LEMMA TakeEventsInv == ASSUME IInv, NEW t \in Threads, TakeEvents(t) PROVE IInv'
<1> DEFINE begun(f) == [phase |-> "read", file |-> f, rest |-> EventsIn(step, f), batch |-> <<>>,
                        last |-> FALSE, at |-> 1, found |-> <<>>]
<1>0. PICK file : file = Head(queue)
  OBVIOUS
<1>1. PICK new : /\ new = (IF DividesByZero(Files[step][file]) THEN Free ELSE begun(file))
                 /\ step \in {2, 3} /\ TakeFile(t, new)
                 /\ UNCHANGED <<collections, expected, tidy, classes, dataset, jobTypes, exported>>
  BY <1>0 DEF TakeEvents, dataVars, resultVars
<1>2. /\ UNCHANGED <<process, step, steps>> /\ thread[t] = Free
      /\ thread' = thread \/ thread' = [thread EXCEPT ![t] = new]
      /\ faults' \in 0..MaxFaults /\ Queued' /\ InProcess
      /\ file \in DOMAIN Files[step]
  BY <1>0, <1>1, TakeFileIs DEF IInv
<1>3. EventsIn(step, file) \in Seq(Everything(step))
  BY <1>1, <1>2, EventsInAre
<1>4. new \in {Free} \union Working(step)
  <2>1. begun(file) \in Working(step)
    BY <1>2, <1>3, EmptySeq DEF Working
  <2> QED BY <2>1, <1>1
<1>5. /\ CollectionIds' = CollectionIds /\ \A s : Events(s)' = Events(s)
      /\ EventsIn(step, file)' = EventsIn(step, file)
  BY <1>1, <1>2, SameDocuments, SameEvents
<1>6. new # Free => Reading(step, new)'
  <2> SUFFICES ASSUME new # Free PROVE Reading(step, new)'
    OBVIOUS
  <2>1. /\ new.phase = "read" /\ new.file = file /\ new.rest = EventsIn(step, file) /\ new.batch = <<>>
        /\ new.last = FALSE
    BY <1>1
  <2>2. Range(<<>>) = {}
    BY DEF Range
  <2> QED BY <2>1, <2>2, <1>5 DEF Reading
<1>7. EventsKept'
  BY <1>1, <1>5 DEF IInv, ReadSoFar, EventsKept
<1>8. thread' = [thread EXCEPT ![t] = thread'[t]] /\ thread'[t] \in {Free, new}
  BY <1>1, <1>2 DEF IInv, Types
<1>9. PICK now : now = thread'[t] /\ now \in {Free, new}
  BY <1>8
<1>10. thread' \in [Threads -> {Free} \union Working(step)] /\ ReadSoFar'
  BY <1>1, <1>2, <1>4, <1>5, <1>6, <1>7, <1>8, <1>9, OneGoes DEF IInv
<1>11. Types'
  BY <1>1, <1>2, <1>10 DEF IInv, Types, InProcess
<1>12. Stored' /\ Extracted' /\ Rows'
  <2>1. Stored'
    BY <1>1, <1>2, StoredStays DEF IInv, InProcess
  <2>2. Extracted'
    BY <1>1, <1>2, ExtractedStays DEF IInv
  <2>3. Rows'
    BY <1>1, <1>2, RowsStay DEF IInv
  <2> QED BY <2>1, <2>2, <2>3
<1> QED BY <1>2, <1>10, <1>11, <1>12 DEF IInv

LEMMA ThreadWorks ==
  ASSUME Types, ReadSoFar, NEW t \in Threads, thread[t].phase \in {"read", "look", "again", "insert"}
  PROVE  /\ step \in {2, 3} /\ InProcess /\ thread[t] # Free
         /\ thread[t] \in Working(step) /\ Reading(step, thread[t])
<1>1. thread[t] # Free
  BY DEF Free
<1>2. step \in {2, 3} /\ thread[t] \in Working(step)
  BY <1>1 DEF Types
<1> QED BY <1>1, <1>2 DEF ReadSoFar, InProcess

LEMMA GoesInv ==
  ASSUME IInv, NEW t \in Threads, thread[t].phase \in {"read", "look", "again", "insert"},
         NEW new \in {Free} \union Working(step), Goes(t, new), UNCHANGED <<collections, tidy, WorkVars>>,
         new # Free => Reading(step, new),
         \/ UNCHANGED expected
         \/ ReadToEnd(thread[t].file) /\ Range(EventsIn(step, thread[t].file)) \subseteq Events(step)
  PROVE  IInv'
<1>1. /\ step \in {2, 3} /\ InProcess
      /\ UNCHANGED <<process, step, steps, queue, classes, dataset, jobTypes, exported, faults>>
      /\ thread' = [thread EXCEPT ![t] = new]
  BY ThreadWorks DEF IInv, WorkVars, resultVars, Goes
<1>2. /\ CollectionIds' = CollectionIds /\ Names' = Names /\ \A s : Events(s)' = Events(s)
  BY SameDocuments
<1>3. new # Free => Reading(step, new)'
  <2> SUFFICES ASSUME new # Free PROVE Reading(step, new)'
    OBVIOUS
  <2>1. new.file \in DOMAIN Files[step]
    BY DEF Working
  <2>2. EventsIn(step, new.file)' = EventsIn(step, new.file)
    BY <1>1, <1>2, <2>1, SameEvents
  <2> QED BY <1>1, <1>2, <2>2 DEF Reading
<1>4. EventsKept'
  <2>1. DOMAIN expected = {2, 3}
    BY DEF IInv, Types
  <2>2. EventsKept
    BY DEF IInv, ReadSoFar
  <2>3. CASE UNCHANGED expected
    BY <1>2, <2>2, <2>3 DEF EventsKept
  <2>4. CASE /\ expected' = [expected EXCEPT ![step] = @ \union Range(EventsIn(step, thread[t].file))]
             /\ Range(EventsIn(step, thread[t].file)) \subseteq Events(step)
    BY <1>1, <1>2, <2>1, <2>2, <2>4 DEF EventsKept
  <2> QED BY <2>3, <2>4 DEF ReadToEnd
<1>5. thread' \in [Threads -> {Free} \union Working(step)] /\ ReadSoFar'
  BY <1>1, <1>2, <1>3, <1>4, OneGoes DEF IInv
<1>6. DOMAIN expected' = {2, 3}
  BY DEF IInv, Types, ReadToEnd
<1>7. Types'
  BY <1>1, <1>5, <1>6 DEF IInv, Types, InProcess
<1>8. Queued'
  BY <1>1, <1>2 DEF IInv, Queued
<1>9. Stored' /\ Extracted' /\ Rows'
  <2>1. Stored'
    BY <1>1, StoredStays DEF IInv, InProcess
  <2>2. Extracted'
    BY <1>1, ExtractedStays DEF IInv
  <2>3. Rows'
    BY <1>1, RowsStay DEF IInv
  <2> QED BY <2>1, <2>2, <2>3
<1> QED BY <1>5, <1>7, <1>8, <1>9 DEF IInv

LEMMA MinOfTwo == ASSUME NEW a \in Int, NEW b \in Int PROVE Min({a, b}) = IF a <= b THEN a ELSE b
BY DEF Min

LEMMA MaxOfTwo == ASSUME NEW a \in Int, NEW b \in Int PROVE Max({a, b}) = IF a <= b THEN b ELSE a
BY DEF Max

(* How many lines are read up to the next save. *)
LEMMA LinesRead ==
  ASSUME NEW S, NEW rest \in Seq(S), NEW batch \in Seq(S), NEW s \in {2, 3}, NEW n,
         n = IF s = 2 THEN Len(rest) ELSE Min({Len(rest), Max({BatchSize + 1 - Len(batch), 1})})
  PROVE  /\ n \in 0..Len(rest) /\ Len(rest) \in Nat /\ Len(batch) \in Nat
         /\ n = 0 => Len(rest) = 0
         /\ s = 2 \/ Len(batch) + n <= BatchSize => n = Len(rest)
<1>1. Len(rest) \in Nat /\ Len(batch) \in Nat /\ BatchSize \in Nat
  BY LenProperties, TracesAssumption
<1>2. CASE s = 2
  BY <1>1, <1>2
<1>3. CASE s = 3
  <2> DEFINE few == Max({BatchSize + 1 - Len(batch), 1})
  <2>1. few = IF BatchSize + 1 - Len(batch) <= 1 THEN 1 ELSE BatchSize + 1 - Len(batch)
    BY <1>1, MaxOfTwo
  <2>2. few \in Nat \ {0} /\ few >= BatchSize + 1 - Len(batch)
    BY <1>1, <2>1
  <2> HIDE DEF few
  <2>3. n = Min({Len(rest), few})
    BY <1>3 DEF few
  <2>4. n = IF Len(rest) <= few THEN Len(rest) ELSE few
    BY <1>1, <2>2, <2>3, MinOfTwo
  <2> QED BY <1>1, <1>3, <2>2, <2>4
<1> QED BY <1>2, <1>3

LEMMA ReadInv == ASSUME IInv, NEW t \in Threads, Read(t) PROVE IInv'
<1>0. PICK th : th = thread[t]
  OBVIOUS
<1>1. th.phase = "read"
  BY <1>0 DEF Read
<1>2. step \in {2, 3} /\ th \in Working(step) /\ Reading(step, th)
  BY <1>0, <1>1, ThreadWorks DEF IInv
<1>3. PICK s : s = step
  OBVIOUS
<1> DEFINE few == BatchSize + 1 - Len(th.batch)
           n == IF s = 2 THEN Len(th.rest) ELSE Min({Len(th.rest), Max({few, 1})})
           longer == th.batch \o SubSeq(th.rest, 1, n)
           left == SubSeq(th.rest, n + 1, Len(th.rest))
           last == s = 2 \/ Len(longer) <= BatchSize \/ th.rest = <<>>
           new == [th EXCEPT !.rest = left, !.batch = longer, !.last = last, !.phase = "look", !.at = 1, !.found = <<>>]
           S == Everything(s)
<1>4. /\ \/ longer = <<>> /\ ReadToEnd(th.file) /\ Goes(t, Free)
         \/ longer # <<>> /\ UNCHANGED expected /\ Goes(t, new)
      /\ UNCHANGED <<collections, tidy, WorkVars>>
  BY <1>0, <1>3 DEF Read
<1>5. th.rest \in Seq(S) /\ th.batch \in Seq(S)
  BY <1>2, <1>3 DEF Working
<1> HIDE DEF S
<1>6. /\ n \in 0..Len(th.rest) /\ Len(th.rest) \in Nat /\ Len(th.batch) \in Nat
      /\ n = 0 => Len(th.rest) = 0
      /\ s = 2 \/ Len(th.batch) + n <= BatchSize => n = Len(th.rest)
  BY <1>2, <1>3, <1>5, LinesRead
<1> HIDE DEF n
<1>7. /\ SubSeq(th.rest, 1, n) \in Seq(S) /\ left \in Seq(S)
      /\ Len(SubSeq(th.rest, 1, n)) = n /\ Len(left) = Len(th.rest) - n
      /\ Range(th.rest) = Range(SubSeq(th.rest, 1, n)) \union Range(left)
  BY <1>5, <1>6, CutInTwo
<1>8. longer \in Seq(S) /\ Len(longer) = Len(th.batch) + n
  <2> DEFINE cut == SubSeq(th.rest, 1, n)
  <2> HIDE DEF cut
  <2>1. cut \in Seq(S) /\ Len(cut) = n
    BY <1>7 DEF cut
  <2>2. th.batch \o cut \in Seq(S) /\ Len(th.batch \o cut) = Len(th.batch) + Len(cut)
    BY <2>1, <1>5, ConcatProperties
  <2> QED BY <2>1, <2>2 DEF cut
<1>9. Range(longer) = Range(th.batch) \union Range(SubSeq(th.rest, 1, n))
  <2> DEFINE cut == SubSeq(th.rest, 1, n)
  <2> HIDE DEF cut
  <2>1. cut \in Seq(S)
    BY <1>7 DEF cut
  <2>2. Range(th.batch \o cut) = Range(th.batch) \union Range(cut)
    BY <2>1, <1>5, RangeOfConcat
  <2> QED BY <2>2 DEF cut
<1> HIDE DEF longer, left
<1>10. CASE longer = <<>>
  <2>1. Len(longer) = 0
    BY <1>10
  <2>2. n = 0 /\ Len(th.batch) = 0 /\ Len(th.rest) = 0
    BY <2>1, <1>6, <1>8
  <2>3. th.batch = <<>> /\ th.rest = <<>>
    BY <2>2, <1>5, EmptySeq
  <2>4. Range(<<>>) = {}
    BY DEF Range
  <2>5. Range(EventsIn(step, thread[t].file)) \subseteq Events(step)
    BY <1>0, <1>2, <2>3, <2>4 DEF Reading
  <2>6. ReadToEnd(thread[t].file) /\ Goes(t, Free) /\ UNCHANGED <<collections, tidy, WorkVars>>
    BY <1>0, <1>4, <1>10
  <2> QED BY <1>0, <1>1, <2>5, <2>6, GoesInv
<1>11. CASE longer # <<>>
  <2>1. last => left = <<>>
    <3> SUFFICES ASSUME last PROVE Len(left) = 0
      BY <1>7, EmptySeq
    <3>1. CASE s = 2 \/ Len(longer) <= BatchSize
      BY <3>1, <1>6, <1>7, <1>8
    <3>2. CASE th.rest = <<>>
      <4>1. Len(th.rest) = 0
        BY <3>2
      <4> QED BY <4>1, <1>6, <1>7
    <3> QED BY <3>1, <3>2
  <2>2. PICK l \in BOOLEAN : l = last
    OBVIOUS
  <2>a. PICK now : now = new
    OBVIOUS
  <2>3. now = [th EXCEPT !.rest = left, !.batch = longer, !.last = l, !.phase = "look", !.at = 1, !.found = <<>>]
    <3> HIDE DEF last
    <3> QED BY <2>2, <2>a
  <2> HIDE DEF last
  <2>4. /\ now.rest = left /\ now.batch = longer /\ now.last = l /\ now.phase = "look" /\ now.at = 1
        /\ now.found = <<>> /\ now.file = th.file /\ now \in Working(step)
    <3>1. <<>> \in Seq(S) /\ S = Everything(step)
      BY <1>3, EmptySeq DEF S
    <3>2. th \in [phase : {"read", "look", "again", "insert"}, file : DOMAIN Files[step], rest : Seq(S),
                  batch : Seq(S), last : BOOLEAN, at : Nat \ {0}, found : Seq(S)]
      BY <1>2, <3>1 DEF Working
    <3>3. left \in Seq(S) /\ longer \in Seq(S)
      BY <1>7, <1>8
    <3>a. now = [phase |-> "look", file |-> th.file, rest |-> left, batch |-> longer, last |-> l, at |-> 1,
                 found |-> <<>>]
      BY <2>3, <3>2
    <3>b. th.file \in DOMAIN Files[step]
      BY <3>2
    <3>4. now \in [phase : {"read", "look", "again", "insert"}, file : DOMAIN Files[step], rest : Seq(S),
                   batch : Seq(S), last : BOOLEAN, at : Nat \ {0}, found : Seq(S)]
      BY <2>2, <3>1, <3>3, <3>a, <3>b
    <3>5. /\ now.rest = left /\ now.batch = longer /\ now.last = l /\ now.phase = "look" /\ now.at = 1
          /\ now.found = <<>> /\ now.file = th.file
      BY <2>3, <3>2
    <3> QED BY <3>1, <3>4, <3>5 DEF Working
  <2>5. Len(longer) \in Nat \ {0}
    BY <1>8, <1>11, EmptySeq, LenProperties
  <2>6. Reading(step, now)
    <3>1. Range(EventsIn(step, now.file)) \subseteq Events(step) \union Range(now.rest) \union Range(now.batch)
      BY <1>2, <1>7, <1>9, <2>4 DEF Reading
    <3>2. now.at \in 1..Len(now.batch) /\ \A i \in 1..Len(now.batch) : ~(i < now.at)
      BY <2>4, <2>5
    <3> QED BY <2>1, <2>2, <2>4, <3>1, <3>2 DEF Reading
  <2>7. Goes(t, now) /\ UNCHANGED expected /\ UNCHANGED <<collections, tidy, WorkVars>>
    BY <1>4, <1>11, <2>a
  <2> QED BY <1>0, <1>1, <2>4, <2>6, <2>7, GoesInv
<1> QED BY <1>10, <1>11

(* A thread that goes on with its batch. *)
WithBatch(th, p, a, f) ==
  [phase |-> p, file |-> th.file, rest |-> th.rest, batch |-> th.batch, last |-> th.last, at |-> a, found |-> f]

LEMMA WithBatchIs ==
  ASSUME NEW s, NEW th \in Working(s), NEW p \in {"read", "look", "again", "insert"}, NEW a \in Nat \ {0},
         NEW f \in Seq(Everything(s))
  PROVE  /\ WithBatch(th, p, a, f) \in Working(s)
         /\ th = WithBatch(th, th.phase, th.at, th.found)
         /\ th.batch \in Seq(Everything(s)) /\ th.found \in Seq(Everything(s)) /\ th.at \in Nat \ {0}
         /\ th.rest \in Seq(Everything(s)) /\ th.last \in BOOLEAN /\ th.file \in DOMAIN Files[s]
         /\ th.phase \in {"read", "look", "again", "insert"}
BY DEF Working, WithBatch

(* What is looked up of a batch is saved, or new. *)
LEMMA LookedUp ==
  ASSUME Types, Stored, step \in {2, 3}, NEW th \in Working(step), NEW event \in Everything(step), NEW found,
         found = IF Hash(event) \notin {d.hash : d \in Documents(step)} THEN Append(th.found, event) ELSE th.found
  PROVE  /\ found \in Seq(Everything(step)) /\ Range(th.found) \subseteq Range(found)
         /\ event \in Events(step) \union Range(found)
<1>1. th.found \in Seq(Everything(step))
  BY DEF Working
<1>2. /\ Append(th.found, event) \in Seq(Everything(step))
      /\ Range(Append(th.found, event)) = Range(th.found) \union {event}
  BY <1>1, RangeOfAppend
<1>3. CASE Hash(event) \notin {d.hash : d \in Documents(step)}
  BY <1>2, <1>3
<1>4. CASE Hash(event) \in {d.hash : d \in Documents(step)}
  <2>1. PICK d \in Documents(step) : d.hash = <<event, process>>
    BY <1>4 DEF Hash
  <2>2. d = [event |-> d.event, hash |-> <<d.event, d.hash[2]>>, cleaned |-> d.cleaned]
    BY DEF Stored, IsDocument
  <2>3. d.hash = <<d.event, d.hash[2]>>
    BY <2>2
  <2>4. event = d.event
    BY <2>1, <2>3
  <2>5. event \in Events(step)
    BY <2>4 DEF Events
  <2> QED BY <1>1, <1>4, <2>5
<1> QED BY <1>3, <1>4

LEMMA LookInv == ASSUME IInv, NEW t \in Threads, Look(t) PROVE IInv'
<1>0. PICK th : th = thread[t]
  OBVIOUS
<1>1. th.phase \in {"look", "again"}
  BY <1>0 DEF Look
<1>2. step \in {2, 3} /\ th \in Working(step) /\ Reading(step, th)
  BY <1>0, <1>1, ThreadWorks DEF IInv
<1>3. PICK event : event = th.batch[th.at]
  OBVIOUS
<1>4. PICK found : found = IF Hash(event) \notin {d.hash : d \in Documents(step)} THEN Append(th.found, event)
                           ELSE th.found
  OBVIOUS
<1>5. PICK next : next = [th EXCEPT !.at = @ + 1, !.found = found]
  OBVIOUS
<1>6. /\ CASE th.at < Len(th.batch) -> Goes(t, next) /\ UNCHANGED expected
           [] th.at = Len(th.batch) /\ next.found = <<>> ->
                IF th.phase = "look" THEN Saved(t, next) ELSE Goes(t, Free) /\ UNCHANGED expected
           [] OTHER ->
                /\ UNCHANGED expected
                /\ Goes(t, IF step = 3 /\ th.phase = "look"
                           THEN [next EXCEPT !.phase = "again", !.at = 1, !.found = <<>>]
                           ELSE [next EXCEPT !.phase = "insert"])
      /\ UNCHANGED <<collections, tidy, WorkVars>>
  <2>1. next = [th EXCEPT !.at = @ + 1,
                          !.found = IF Hash(event) \notin {d.hash : d \in Documents(step)} THEN Append(@, event) ELSE @]
    BY <1>4, <1>5
  <2> QED BY <1>0, <1>3, <2>1 DEF Look
<1>7. /\ th.at \in 1..Len(th.batch) /\ Len(th.batch) \in Nat /\ DOMAIN th.batch = 1..Len(th.batch)
      /\ \A i \in 1..Len(th.batch) : i < th.at => th.batch[i] \in Events(step) \union Range(th.found)
      /\ event \in Everything(step)
  <2>1. th.batch \in Seq(Everything(step))
    BY <1>2 DEF Working
  <2>2. /\ th.at \in 1..Len(th.batch)
        /\ \A i \in 1..Len(th.batch) : i < th.at => th.batch[i] \in Events(step) \union Range(th.found)
    BY <1>1, <1>2 DEF Reading
  <2> QED BY <1>3, <2>1, <2>2, LenProperties, ElementOfSeq
<1>8. /\ found \in Seq(Everything(step)) /\ Range(th.found) \subseteq Range(found)
      /\ event \in Events(step) \union Range(found)
  BY <1>2, <1>4, <1>7, LookedUp DEF IInv
<1>9. \A i \in 1..Len(th.batch) : i < th.at + 1 => th.batch[i] \in Events(step) \union Range(found)
  <2> SUFFICES ASSUME NEW i \in 1..Len(th.batch), i < th.at + 1
               PROVE  th.batch[i] \in Events(step) \union Range(found)
    OBVIOUS
  <2>1. i < th.at \/ i = th.at
    BY <1>7
  <2> QED BY <2>1, <1>3, <1>7, <1>8
<1>10. th.at = Len(th.batch) => Range(th.batch) \subseteq Events(step) \union Range(found)
  BY <1>7, <1>9 DEF Range
<1>11. next = WithBatch(th, th.phase, th.at + 1, found)
  BY <1>2, <1>5 DEF Working, WithBatch
<1>12. \A p \in {"read", "look", "again", "insert"}, a \in Nat \ {0}, f \in Seq(Everything(step)) :
          /\ WithBatch(th, p, a, f) \in Working(step)
          /\ WithBatch(th, p, a, f).phase = p /\ WithBatch(th, p, a, f).at = a /\ WithBatch(th, p, a, f).found = f
          /\ WithBatch(th, p, a, f).file = th.file /\ WithBatch(th, p, a, f).rest = th.rest
          /\ WithBatch(th, p, a, f).batch = th.batch /\ WithBatch(th, p, a, f).last = th.last
  BY <1>2, WithBatchIs DEF WithBatch
<1>13. /\ Range(EventsIn(step, th.file)) \subseteq Events(step) \union Range(th.rest) \union Range(th.batch)
       /\ th.last => th.rest = <<>>
  BY <1>1, <1>2 DEF Reading
<1>14. Range(<<>>) = {} /\ <<>> \in Seq(Everything(step))
  BY EmptySeq DEF Range
<1>15. CASE th.at < Len(th.batch)
  <2>1. th.at + 1 \in Nat \ {0} /\ th.at + 1 \in 1..Len(th.batch)
    BY <1>7, <1>15
  <2>2. next \in Working(step) /\ Reading(step, next)
    BY <1>1, <1>8, <1>9, <1>11, <1>12, <1>13, <2>1 DEF Reading
  <2>3. Goes(t, next) /\ UNCHANGED expected /\ UNCHANGED <<collections, tidy, WorkVars>>
    BY <1>6, <1>15
  <2> QED BY <1>0, <1>1, <2>2, <2>3, GoesInv
<1>16. CASE th.at = Len(th.batch) /\ found = <<>>
  <2>0. th.at + 1 \in Nat \ {0} /\ ~(th.at < Len(th.batch))
    BY <1>7, <1>16
  <2>1. next.found = <<>> /\ next.last = th.last /\ next.file = th.file
    BY <1>11, <1>16 DEF WithBatch
  <2>2. Range(th.batch) \subseteq Events(step)
    BY <1>10, <1>14, <1>16
  <2>3. /\ IF th.phase = "look" THEN Saved(t, next) ELSE Goes(t, Free) /\ UNCHANGED expected
        /\ UNCHANGED <<collections, tidy, WorkVars>>
    BY <1>6, <1>16, <2>0, <2>1
  <2>4. CASE th.phase = "look" /\ ~th.last
    <3>1. PICK now : now = WithBatch(th, "read", th.at + 1, found)
      OBVIOUS
    <3>2. now = [next EXCEPT !.phase = "read"]
      BY <3>1, <1>11 DEF WithBatch
    <3>3. now \in Working(step) /\ Reading(step, now)
      BY <1>8, <1>12, <1>13, <2>0, <2>2, <2>4, <3>1 DEF Reading
    <3>4. Goes(t, now) /\ UNCHANGED expected /\ UNCHANGED <<collections, tidy, WorkVars>>
      BY <2>1, <2>3, <2>4, <3>2 DEF Saved
    <3> QED BY <1>0, <1>1, <3>3, <3>4, GoesInv
  <2>5. CASE th.phase = "look" /\ th.last
    <3>1. Goes(t, Free) /\ ReadToEnd(th.file) /\ UNCHANGED <<collections, tidy, WorkVars>>
      BY <2>1, <2>3, <2>5 DEF Saved
    <3>2. Range(EventsIn(step, th.file)) \subseteq Events(step)
      BY <1>13, <1>14, <2>2, <2>5
    <3> QED BY <1>0, <1>1, <3>1, <3>2, GoesInv
  <2>6. CASE th.phase # "look"
    <3>1. Goes(t, Free) /\ UNCHANGED expected /\ UNCHANGED <<collections, tidy, WorkVars>>
      BY <2>3, <2>6
    <3> QED BY <1>0, <1>1, <3>1, GoesInv
  <2> QED BY <2>4, <2>5, <2>6
<1>17. CASE th.at = Len(th.batch) /\ found # <<>>
  <2>0. th.at + 1 \in Nat \ {0} /\ ~(th.at < Len(th.batch)) /\ 1 \in 1..Len(th.batch) /\ 1 \in Nat \ {0}
    BY <1>7, <1>17
  <2>1. next.found # <<>>
    BY <1>1, <1>8, <1>11, <1>12, <1>17, <2>0
  <2>2. PICK now : now = IF step = 3 /\ th.phase = "look" THEN WithBatch(th, "again", 1, <<>>)
                         ELSE WithBatch(th, "insert", th.at + 1, found)
    OBVIOUS
  <2>3. now = IF step = 3 /\ th.phase = "look" THEN [next EXCEPT !.phase = "again", !.at = 1, !.found = <<>>]
              ELSE [next EXCEPT !.phase = "insert"]
    BY <2>2, <1>11 DEF WithBatch
  <2>4. Goes(t, now) /\ UNCHANGED expected /\ UNCHANGED <<collections, tidy, WorkVars>>
    BY <1>6, <1>17, <2>0, <2>1, <2>3
  <2>5. now \in Working(step) /\ Reading(step, now)
    <3>1. CASE step = 3 /\ th.phase = "look"
      <4>1. \A i \in 1..Len(th.batch) : ~(i < 1)
        BY <1>7
      <4>2. now = WithBatch(th, "again", 1, <<>>)
        BY <2>2, <3>1
      <4>3. /\ now \in Working(step) /\ now.phase = "again" /\ now.at = 1 /\ now.file = th.file
            /\ now.rest = th.rest /\ now.batch = th.batch /\ now.last = th.last
        <5>1. "again" \in {"read", "look", "again", "insert"}
          OBVIOUS
        <5>2. WithBatch(th, "again", 1, <<>>) \in Working(step)
          BY <1>2, <1>14, <2>0, <5>1, WithBatchIs, Zenon
        <5> QED BY <4>2, <5>2 DEF WithBatch
      <4>4. now.at \in 1..Len(now.batch) /\ \A i \in 1..Len(now.batch) : ~(i < now.at)
        BY <2>0, <4>1, <4>3
      <4> QED BY <1>13, <4>3, <4>4 DEF Reading
    <3>2. CASE ~(step = 3 /\ th.phase = "look")
      <4>1. now = WithBatch(th, "insert", th.at + 1, found)
        BY <2>2, <3>2
      <4>2. /\ now \in Working(step) /\ now.phase = "insert" /\ now.found = found /\ now.file = th.file
            /\ now.rest = th.rest /\ now.batch = th.batch /\ now.last = th.last
        BY <1>8, <1>12, <2>0, <4>1
      <4>3. Range(th.batch) \subseteq Events(step) \union Range(found)
        BY <1>10, <1>17
      <4> QED BY <1>13, <1>17, <4>2, <4>3 DEF Reading
    <3> QED BY <3>1, <3>2
  <2> QED BY <1>0, <1>1, <2>4, <2>5, GoesInv
<1> QED BY <1>7, <1>15, <1>16, <1>17

(* One document more is stored, of no other hash. *)
LEMMA StoredOneMore ==
  ASSUME Types, Stored, step \in {2, 3}, NEW event \in Everything(step),
         collections' = [collections EXCEPT ![step] =
                         @ (+) SetToBag({[event |-> event, hash |-> Hash(event), cleaned |-> FALSE]})],
         tidy' = tidy \ {step}, UNCHANGED <<process, step>>
  PROVE  /\ Stored' /\ DOMAIN collections' = {2, 3}
         /\ Events(step)' = Events(step) \union {event}
         /\ \A s \in {2, 3} : s # step => Documents(s)' = Documents(s) /\ Events(s)' = Events(s)
<1> DEFINE doc == [event |-> event, hash |-> <<event, process>>, cleaned |-> FALSE]
<1>1. DOMAIN collections = {2, 3} /\ process \in Nat \ {0} /\ InProcess
  BY TracesAssumption, LenProperties DEF Types, InProcess
<1>2. /\ DOMAIN collections' = {2, 3} /\ collections'[step] = collections[step] (+) SetToBag({doc})
      /\ \A s \in {2, 3} : s # step => collections'[s] = collections[s]
  BY <1>1 DEF Hash
<1>3. /\ IsBag(collections'[step]) /\ DOMAIN collections'[step] = DOMAIN collections[step] \union {doc}
  <2> HIDE DEF doc
  <2>1. IsBag(collections[step])
    BY DEF Stored
  <2> DEFINE b == collections[step]
  <2>2. /\ IsBag(b (+) SetToBag({doc})) /\ DOMAIN (b (+) SetToBag({doc})) = DOMAIN b \union {doc}
    <3> HIDE DEF b
    <3>1. IsBag(b)
      BY <2>1 DEF b
    <3> QED BY <3>1, BagOfMore
  <2> QED BY <2>2, <1>2
<1>4. Documents(step)' = Documents(step) \union {doc}
  BY <1>3 DEF Documents, BagToSet
<1>5. \A s \in {2, 3} : s # step => Documents(s)' = Documents(s) /\ Events(s)' = Events(s)
  BY <1>2 DEF Documents, Events
<1>6. Events(step)' = Events(step) \union {event}
  <2>1. doc.event = event
    OBVIOUS
  <2> HIDE DEF doc
  <2>2. UNCHANGED step
    OBVIOUS
  <2>3. Events(step)' = {d.event : d \in Documents(step) \union {doc}}
    BY <1>4, <2>2 DEF Events
  <2> QED BY <2>1, <2>3 DEF Events
<1>7. /\ \A s \in {2, 3} : \A d \in Documents(s) : IsDocument(s, d)
      /\ \A s \in {2, 3} : \A c, d \in Documents(s) : c.hash = d.hash => c = d
  BY DEF Stored
<1>8. ASSUME NEW d \in Documents(step), d.hash = doc.hash PROVE d = doc
  <2>1. IsDocument(step, d)
    BY <1>7
  <2>2. d.hash = <<event, process>>
    BY <1>8
  <2>3. d = [event |-> d.event, hash |-> <<d.event, d.hash[2]>>, cleaned |-> d.cleaned] /\ d.cleaned \in BOOLEAN
    BY <2>1 DEF IsDocument
  <2>4. d.hash[2] = process
    BY <2>2
  <2>5. ~d.cleaned
    BY <2>1, <2>4, <1>1 DEF IsDocument
  <2>6. d.cleaned = FALSE
    BY <2>3, <2>5
  <2>7. d.hash = <<d.event, d.hash[2]>>
    BY <2>3
  <2>8. d.event = event
    BY <2>2, <2>7
  <2> QED BY <2>3, <2>4, <2>6, <2>8
<1>9. ASSUME NEW s \in {2, 3}, NEW d \in Documents(s)' PROVE IsDocument(s, d)'
  <2>1. CASE d \in Documents(s)
    <3>1. IsDocument(s, d)
      BY <1>7, <2>1
    <3> QED BY <3>1 DEF IsDocument, InProcess
  <2>2. CASE d \notin Documents(s)
    <3>1. s = step /\ d = doc
      BY <1>4, <1>5, <2>2
    <3>2. doc.hash[2] = process /\ doc.cleaned = FALSE /\ doc.event = event
      OBVIOUS
    <3>3. process \in 1..process
      BY <1>1
    <3> QED BY <3>1, <3>2, <3>3 DEF IsDocument, InProcess
  <2> QED BY <2>1, <2>2
<1>10. ASSUME NEW s \in {2, 3}, NEW c \in Documents(s)', NEW d \in Documents(s)', c.hash = d.hash PROVE c = d
  <2>1. CASE s = step
    <3> HIDE DEF doc
    <3>1. c \in Documents(step) \union {doc} /\ d \in Documents(step) \union {doc}
      BY <1>4, <2>1
    <3> QED BY <1>7, <1>8, <1>10, <3>1
  <2>2. CASE s # step
    BY <1>5, <1>7, <1>10, <2>2
  <2> QED BY <2>1, <2>2
<1>11. ASSUME NEW s \in {2, 3}
       PROVE  /\ IsBag(collections[s])'
              /\ s \in tidy' => \A d \in Documents(s)' : collections'[s][d] = 1
  <2>1. CASE s = step
    <3>1. s \notin tidy'
      BY <2>1
    <3> QED BY <1>3, <2>1, <3>1 DEF IsBag
  <2>2. CASE s # step
    <3>1. /\ IsBag(collections[s])
          /\ s \in tidy => \A d \in Documents(s) : collections[s][d] = 1
      BY DEF Stored
    <3> QED BY <1>2, <1>5, <2>2, <3>1 DEF IsBag
  <2> QED BY <2>1, <2>2
<1>12. Stored'
  BY <1>9, <1>10, <1>11 DEF Stored
<1> QED BY <1>2, <1>5, <1>6, <1>12

LEMMA InsertInv == ASSUME IInv, NEW t \in Threads, Insert(t) PROVE IInv'
<1>0. PICK th : th = thread[t]
  OBVIOUS
<1>1. th.phase = "insert"
  BY <1>0 DEF Insert
<1>2. step \in {2, 3} /\ th \in Working(step) /\ Reading(step, th) /\ InProcess
  BY <1>0, <1>1, ThreadWorks DEF IInv
<1>3. PICK event : event = Head(th.found)
  OBVIOUS
<1>4. PICK next : next = [th EXCEPT !.found = Tail(@)]
  OBVIOUS
<1>5. /\ collections' = [collections EXCEPT ![step] =
                         @ (+) SetToBag({[event |-> event, hash |-> Hash(event), cleaned |-> FALSE]})]
      /\ tidy' = tidy \ {step}
      /\ IF next.found # <<>> THEN Goes(t, next) /\ UNCHANGED expected
         ELSE Saved(t, [next EXCEPT !.batch = <<>>])
      /\ UNCHANGED WorkVars
  BY <1>0, <1>3, <1>4 DEF Insert
<1>6. UNCHANGED <<process, step, steps, queue, classes, dataset, jobTypes, exported, faults>>
  BY <1>5 DEF WorkVars, resultVars
<1>7. th.found \in Seq(Everything(step)) /\ th.found # <<>>
  BY <1>1, <1>2 DEF Working, Reading
<1>8. /\ event \in Everything(step) /\ Tail(th.found) \in Seq(Everything(step))
      /\ Range(th.found) = {event} \union Range(Tail(th.found))
  BY <1>3, <1>7, HeadAndTail
<1>9. /\ Stored' /\ DOMAIN collections' = {2, 3}
      /\ Events(step)' = Events(step) \union {event}
      /\ \A s \in {2, 3} : s # step => Documents(s)' = Documents(s) /\ Events(s)' = Events(s)
  BY <1>2, <1>5, <1>6, <1>8, StoredOneMore DEF IInv
<1>10. /\ Range(th.batch) \subseteq Events(step)' \union Range(Tail(th.found))
       /\ Range(EventsIn(step, th.file)) \subseteq Events(step)' \union Range(th.rest) \union Range(th.batch)
       /\ th.last => th.rest = <<>>
  BY <1>1, <1>2, <1>8, <1>9 DEF Reading
<1>11. /\ step = 2 \/ CollectionIds' = CollectionIds
       /\ th.file \in DOMAIN Files[step] /\ EventsIn(step, th.file)' = EventsIn(step, th.file)
  <2>1. step = 2 \/ CollectionIds' = CollectionIds
    BY <1>2, <1>9 DEF CollectionIds
  <2>2. th.file \in DOMAIN Files[step]
    BY <1>2 DEF Working
  <2> QED BY <1>2, <1>6, <2>1, <2>2, SameEvents
<1>12. Range(<<>>) = {} /\ <<>> \in Seq(Everything(step))
  BY EmptySeq DEF Range
<1> DEFINE Done(new) == /\ new \in {Free} \union Working(step) /\ Goes(t, new)
                        /\ new # Free => Reading(step, new)'
                        /\ \/ UNCHANGED expected
                           \/ ReadToEnd(th.file) /\ Range(EventsIn(step, th.file)) \subseteq Events(step)'
<1>13. \E new : Done(new)
  <2>1. CASE Tail(th.found) # <<>>
    <3>1. next \in Working(step) /\ next = WithBatch(th, "insert", th.at, Tail(th.found))
      <4>1. next = WithBatch(th, "insert", th.at, Tail(th.found))
        BY <1>1, <1>2, <1>4 DEF Working, WithBatch
      <4>2. th.at \in Nat \ {0}
        BY <1>2 DEF Working
      <4> QED BY <1>2, <1>8, <4>1, <4>2, WithBatchIs
    <3>2. Reading(step, next)'
      <4>1. /\ next.phase = "insert" /\ next.found = Tail(th.found) /\ next.file = th.file /\ next.rest = th.rest
            /\ next.batch = th.batch /\ next.last = th.last
        BY <3>1 DEF WithBatch
      <4> QED BY <1>6, <1>10, <1>11, <2>1, <4>1 DEF Reading
    <3>3. next.found # <<>>
      BY <2>1, <3>1 DEF WithBatch
    <3>4. Goes(t, next) /\ UNCHANGED expected
      BY <1>5, <3>3
    <3> QED BY <3>1, <3>2, <3>4
  <2>2. CASE Tail(th.found) = <<>>
    <3>1. next.found = <<>> /\ next.last = th.last /\ next.file = th.file
      BY <1>2, <1>4, <2>2 DEF Working
    <3>2. PICK over : over = [next EXCEPT !.batch = <<>>]
      OBVIOUS
    <3>3. over.last = th.last /\ over.file = th.file
      BY <1>2, <1>4, <3>2 DEF Working
    <3>4. Saved(t, over)
      BY <1>5, <3>1, <3>2
    <3>5. Range(th.batch) \subseteq Events(step)'
      BY <1>10, <1>12, <2>2
    <3>6. CASE th.last
      <4>1. Goes(t, Free) /\ ReadToEnd(th.file)
        BY <3>3, <3>4, <3>6 DEF Saved
      <4>2. Range(EventsIn(step, th.file)) \subseteq Events(step)'
        BY <1>10, <1>12, <3>5, <3>6
      <4> QED BY <4>1, <4>2
    <3>7. CASE ~th.last
      <4>1. PICK new : new = [over EXCEPT !.phase = "read"]
        OBVIOUS
      <4>2. Goes(t, new) /\ UNCHANGED expected
        BY <3>3, <3>4, <3>7, <4>1 DEF Saved
      <4>3. new = [phase |-> "read", file |-> th.file, rest |-> th.rest, batch |-> <<>>, last |-> th.last,
                   at |-> th.at, found |-> <<>>]
        BY <1>2, <1>4, <2>2, <3>2, <4>1 DEF Working
      <4>4. new \in Working(step)
        <5>1. /\ th.file \in DOMAIN Files[step] /\ th.rest \in Seq(Everything(step)) /\ th.last \in BOOLEAN
              /\ th.at \in Nat \ {0}
          BY <1>2 DEF Working
        <5> QED BY <1>12, <4>3, <5>1 DEF Working
      <4>5. Reading(step, new)'
        <5>1. new.phase = "read" /\ new.batch = <<>> /\ new.rest = th.rest /\ new.file = th.file
          BY <4>3
        <5> QED BY <1>6, <1>10, <1>11, <1>12, <3>5, <5>1 DEF Reading
      <4> QED BY <4>2, <4>4, <4>5
    <3> QED BY <3>6, <3>7
  <2> QED BY <2>1, <2>2
<1>14. PICK new : Done(new)
  BY <1>13
<1>15. EventsKept' /\ DOMAIN expected' = {2, 3}
  <2>1. DOMAIN expected = {2, 3}
    BY DEF IInv, Types
  <2>2. \A s \in {2, 3} : expected[s] \subseteq Events(s)'
    <3>1. EventsKept
      BY DEF IInv, ReadSoFar
    <3>2. ASSUME NEW s \in {2, 3} PROVE expected[s] \subseteq Events(s)'
      <4>1. expected[s] \subseteq Events(s)
        BY <3>1 DEF EventsKept
      <4>2. CASE s = step
        <5>1. Events(s)' = Events(s) \union {event}
          BY <1>6, <1>9, <4>2
        <5> QED BY <4>1, <5>1
      <4>3. CASE s # step
        BY <1>9, <4>1, <4>3
      <4> QED BY <4>2, <4>3
    <3> QED BY <3>2
  <2>3. CASE UNCHANGED expected
    BY <2>1, <2>2, <2>3 DEF EventsKept
  <2>4. CASE /\ expected' = [expected EXCEPT ![step] = @ \union Range(EventsIn(step, th.file))]
             /\ Range(EventsIn(step, th.file)) \subseteq Events(step)'
    BY <1>2, <1>6, <2>1, <2>2, <2>4 DEF EventsKept
  <2> QED BY <1>14, <2>3, <2>4 DEF ReadToEnd
<1>16. thread' \in [Threads -> {Free} \union Working(step)] /\ ReadSoFar'
  <2>1. thread' = [thread EXCEPT ![t] = new]
    BY <1>14 DEF Goes
  <2>2. Events(step) \subseteq Events(step)'
    BY <1>9
  <2> QED BY <1>2, <1>6, <1>11, <1>14, <1>15, <2>1, <2>2, OneGoes DEF IInv
<1>17. Types'
  BY <1>2, <1>5, <1>6, <1>9, <1>15, <1>16 DEF IInv, Types, InProcess
<1>18. Queued'
  BY <1>2, <1>6 DEF IInv, Queued
<1>19. Extracted'
  BY <1>2, <1>6, ExtractedStays DEF IInv
<1>20. Rows'
  BY <1>6, RowsStay DEF IInv
<1> QED BY <1>9, <1>16, <1>17, <1>18, <1>19, <1>20 DEF IInv

-----------------------------------------------------------------------------
(* The steps that save nothing. *)

LEMMA CountJobsInv == ASSUME IInv, NEW t \in Threads, CountJobs(t) PROVE IInv'
<1>0. PICK file : file = Head(queue)
  OBVIOUS
<1> DEFINE lines == Files[2][file]
           A == {i \in DOMAIN lines : Isolated(lines[i])}
           B == {i \in DOMAIN lines : Unrelated(lines[i])}
           C == {i \in DOMAIN lines : lines[i].parent}
           D == {i \in DOMAIN lines : lines[i].after}
<1>1. /\ step = 6 /\ TakeFile(t, Free)
      /\ UNCHANGED <<collections, expected, tidy, classes, dataset, exported>>
      /\ jobTypes' = IF DividesByZero(lines) \/ faults' # faults THEN jobTypes
                     ELSE [isolated |-> jobTypes.isolated + Cardinality(A),
                           no_relationship |-> jobTypes.no_relationship + Cardinality(B),
                           children |-> jobTypes.children + Cardinality(C),
                           sequential |-> jobTypes.sequential + Cardinality(D)]
  BY <1>0 DEF CountJobs, dataVars
<1>2. /\ UNCHANGED <<process, step, steps>> /\ thread[t] = Free
      /\ thread' = thread \/ thread' = [thread EXCEPT ![t] = Free]
      /\ faults' \in 0..MaxFaults /\ Queued' /\ InProcess /\ file \in DOMAIN Files[2]
  BY <1>0, <1>1, TakeFileIs DEF IInv
<1>3. \A T \in SUBSET DOMAIN lines : Cardinality(T) \in Nat
  <2>1. DOMAIN lines = 1..Len(lines) /\ Len(lines) \in Nat
    BY <1>2, LinesAre
  <2>2. IsFiniteSet(DOMAIN lines)
    <3>1. 1 \in Int /\ Len(lines) \in Int
      BY <2>1
    <3> HIDE DEF lines
    <3> QED BY <2>1, <3>1, FS_Interval
  <2> QED BY <2>2, FS_Subset, FS_CardinalityType
<1>4. Cardinality(A) \in Nat /\ Cardinality(B) \in Nat /\ Cardinality(C) \in Nat /\ Cardinality(D) \in Nat
  BY <1>3
<1> HIDE DEF A, B, C, D
<1>5. jobTypes' \in [isolated : Nat, no_relationship : Nat, children : Nat, sequential : Nat]
  BY <1>1, <1>4 DEF IInv, Types
<1>6. thread \in [Threads -> {Free}] /\ thread' \in [Threads -> {Free}]
  BY <1>1, <1>2, NoneWorks DEF IInv
<1>7. Types'
  BY <1>1, <1>2, <1>5, <1>6 DEF IInv, Types, InProcess
<1>8. Stored'
  BY <1>1, <1>2, StoredStays DEF IInv, InProcess
<1>9. ReadSoFar'
  BY <1>1, <1>6, NoneReads DEF IInv
<1>10. Extracted'
  BY <1>1, <1>2, ExtractedStays DEF IInv
<1>11. Rows'
  BY <1>1, <1>2, RowsStay DEF IInv
<1> QED BY <1>2, <1>7, <1>8, <1>9, <1>10, <1>11 DEF IInv

(* An event that is saved is in every order of the events of its class. *)
EventsOf(name) == {doc \in Copies(collections[2]) : doc[1].event.name = name}

LEMMA EventsAreListed ==
  ASSUME Stored, NEW name, NEW of, of = EventsOf(name),
         NEW key, NEW order, Ordered(of, key, order)
  PROVE  /\ Len(order) \in Nat
         /\ \A n \in 1..Len(order) : /\ Of(order, n) \in Everything(2) /\ Of(order, n) \in Events(2)
                                     /\ Of(order, n).name = name
         /\ \A d \in Events(2) : d.name = name => \E n \in 1..Len(order) : Of(order, n) = d
<1>1. order \in Seq(of) /\ Range(order) = of /\ Len(order) \in Nat /\ DOMAIN order = 1..Len(order)
  BY LenProperties DEF Ordered
<1>2. IsBag(collections[2]) /\ \A d \in Documents(2) : IsDocument(2, d)
  BY DEF Stored
<1>3. Documents(2) = DOMAIN collections[2]
  BY DEF Documents, BagToSet
<1>4. ASSUME NEW n \in 1..Len(order)
      PROVE  Of(order, n) \in Everything(2) /\ Of(order, n) \in Events(2) /\ Of(order, n).name = name
  <2>1. order[n] \in of
    BY <1>1, ElementOfSeq
  <2>2. order[n] \in Copies(collections[2]) /\ order[n][1].event.name = name
    BY <2>1 DEF EventsOf
  <2>3. order[n][1] \in Documents(2)
    BY <2>2, <1>2, <1>3, CopiesAre
  <2>4. Of(order, n) \in Events(2)
    BY <2>3 DEF Events, Of
  <2>5. Of(order, n) \in Everything(2)
    BY <2>3, <1>2 DEF IsDocument, Of
  <2> QED BY <2>2, <2>4, <2>5 DEF Of
<1>5. ASSUME NEW d \in Events(2), d.name = name PROVE \E n \in 1..Len(order) : Of(order, n) = d
  <2>1. PICK doc \in Documents(2) : d = doc.event
    BY DEF Events
  <2>2. <<doc, 1>> \in of
    <3>1. <<doc, 1>> \in Copies(collections[2])
      BY <2>1, <1>2, <1>3, CopiesAre
    <3>2. <<doc, 1>>[1] = doc
      OBVIOUS
    <3> QED BY <3>1, <3>2, <2>1, <1>5 DEF EventsOf
  <2>3. PICK n \in 1..Len(order) : order[n] = <<doc, 1>>
    BY <1>1, <2>2 DEF Range
  <2> QED BY <2>1, <2>3 DEF Of
<1> QED BY <1>1, <1>4, <1>5

LEMMA MaxIs ==
  ASSUME NEW T \in SUBSET Int, NEW v \in T, \A w \in T : w <= v
  PROVE  Max(T) = v
<1> DEFINE m == CHOOSE x \in T : \A y \in T : x >= y
<1>1. \A y \in T : v >= y
  OBVIOUS
<1>2. m \in T /\ \A y \in T : m >= y
  BY <1>1
<1>3. m = v
  <2> HIDE DEF m
  <2> QED BY <1>2
<1> QED BY <1>3 DEF Max

LEMMA LatestIs ==
  ASSUME Stored, NEW name, NEW of, of = EventsOf(name),
         NEW order, Ordered(of, [doc \in of |-> doc[1].event.time], order),
         NEW d \in Events(2), d.name = name, NEW type, NEW k \in 1..Len(order), Is(Of(order, k), d.id, type),
         \A l \in 1..Len(order) : k < l => ~Is(Of(order, l), d.id, type)
  PROVE  Latest(d, type) = Of(order, k).time
<1> DEFINE T == {x.time : x \in {y \in Events(2) : y.name = d.name /\ y.id = d.id /\ y.type = type}}
           v == Of(order, k).time
           key == [doc \in of |-> doc[1].event.time]
<1>1. /\ Len(order) \in Nat
      /\ \A n \in 1..Len(order) : /\ Of(order, n) \in Everything(2) /\ Of(order, n) \in Events(2)
                                  /\ Of(order, n).name = name
      /\ \A e \in Events(2) : e.name = name => \E n \in 1..Len(order) : Of(order, n) = e
  <2>1. Ordered(of, key, order)
    OBVIOUS
  <2> HIDE DEF key
  <2> QED BY <2>1, EventsAreListed
<1>2. \A n \in 1..Len(order) : order[n] \in of /\ key[order[n]] = Of(order, n).time
  <2>1. order \in Seq(of)
    BY DEF Ordered
  <2>2. \A n \in 1..Len(order) : order[n] \in of
    BY <2>1, ElementOfSeq
  <2> QED BY <2>2 DEF Of
<1>3. v \in T
  BY <1>1 DEF Is
<1>4. ASSUME NEW w \in T PROVE w \in Int /\ w <= v
  <2>1. PICK y \in Events(2) : y.name = d.name /\ y.id = d.id /\ y.type = type /\ w = y.time
    OBVIOUS
  <2>2. PICK n \in 1..Len(order) : Of(order, n) = y
    BY <2>1, <1>1
  <2>3. ~(k < n)
    BY <2>1, <2>2 DEF Is
  <2>4. w \in Nat /\ v \in Nat
    BY <2>1, <2>2, <1>1, EventOfClass
  <2>5. CASE n = k
    BY <2>1, <2>2, <2>4, <2>5
  <2>6. CASE n < k
    <3>1. key[order[n]] <= key[order[k]]
      <4> HIDE DEF key
      <4> QED BY <2>6 DEF Ordered, key
    <3> QED BY <3>1, <1>2, <2>1, <2>2, <2>4
  <2>7. n = k \/ n < k
    BY <2>3, <1>1
  <2> QED BY <2>5, <2>6, <2>7
<1>5. Max(T) = v
  <2>1. T \in SUBSET Int
    BY <1>4
  <2> HIDE DEF T, v
  <2> QED BY <2>1, <1>3, <1>4, MaxIs
<1>6. Latest(d, type) = Max(T)
  BY DEF Latest
<1> QED BY <1>5, <1>6

LEMMA ProcessTaskClassInv == ASSUME IInv, NEW t \in Threads, ProcessTaskClass(t) PROVE IInv'
<1>0. PICK name : name = Head(queue)
  OBVIOUS
<1>1. PICK of : of = EventsOf(name)
  OBVIOUS
<1> DEFINE key == [doc \in of |-> doc[1].event.time]
<1>2. /\ step = 4 /\ queue # <<>> /\ queue' = Tail(queue)
      /\ UNCHANGED <<process, step, steps, thread, collections, expected, tidy, dataset, jobTypes, exported, faults>>
  BY DEF ProcessTaskClass, dataVars
<1>3. PICK order \in OrdersBy(of, key) :
         classes' = IF ListedTasks(order) = <<>> THEN classes
                    ELSE classes (+) SetToBag({[name |-> name, tasks |-> ListedTasks(order)]})
  BY <1>0, <1>1 DEF ProcessTaskClass, EventsOf
<1>4. PICK tasks : tasks = ListedTasks(order)
  OBVIOUS
<1>5. Stored /\ Types /\ Extracted
  BY DEF IInv
<1>6. Ordered(of, key, order)
  <2>1. IsBag(collections[2])
    BY <1>5 DEF Stored
  <2>2. IsFiniteSet(of)
    BY <1>1, <2>1, CopiesAre, FS_Subset DEF EventsOf
  <2>3. key \in [of -> Int]
    <3>1. ASSUME NEW doc \in of PROVE doc[1].event.time \in Int
      <4>1. doc[1] \in Documents(2)
        BY <1>1, <2>1, CopiesAre DEF Documents, BagToSet, EventsOf
      <4>2. doc[1].event \in Everything(2)
        BY <4>1, <1>5 DEF Stored, IsDocument
      <4> QED BY <4>2, EventOfClass
    <3> QED BY <3>1
  <2> HIDE DEF key
  <2> QED BY <2>2, <2>3, OrdersAreOrdered
<1>7. /\ Len(order) \in Nat
      /\ \A n \in 1..Len(order) : /\ Of(order, n) \in Everything(2) /\ Of(order, n) \in Events(2)
                                  /\ Of(order, n).name = name
      /\ \A e \in Events(2) : e.name = name => \E n \in 1..Len(order) : Of(order, n) = e
  <2> HIDE DEF key
  <2> QED BY <1>1, <1>5, <1>6, EventsAreListed
<1>8. /\ tasks \in Seq(Range(tasks))
      /\ \A task \in Range(tasks) : task.start \in Int /\ task.end \in Int
  BY <1>4, <1>7, JobsAreTasks
<1>9. PICK c : c = [name |-> name, tasks |-> tasks]
  OBVIOUS
<1>10. IsClass(c) /\ c.name = name /\ c.tasks = tasks
  BY <1>8, <1>9 DEF IsClass
<1>11. /\ IsBag(classes') /\ DOMAIN classes' = IF tasks = <<>> THEN DOMAIN classes ELSE DOMAIN classes \union {c}
  <2>1. IsBag(classes)
    BY <1>5 DEF Extracted
  <2>2. IsBag(classes (+) SetToBag({c})) /\ DOMAIN (classes (+) SetToBag({c})) = DOMAIN classes \union {c}
    BY <2>1, BagOfMore
  <2> QED BY <1>3, <1>4, <1>9, <2>1, <2>2
<1>12. Documents(2)' = Documents(2) /\ Events(2)' = Events(2) /\ Names' = Names
  BY <1>2, SameDocuments
<1>13. \A d, type : Latest(d, type)' = Latest(d, type)
  BY <1>12 DEF Latest
<1>14. /\ name \in Names /\ Tail(queue) \in Seq(Names) /\ Range(queue) = {name} \union Range(Tail(queue))
  <2>1. queue \in Seq(Names)
    BY <1>2 DEF IInv, Queued
  <2> QED BY <1>0, <1>2, <2>1, HeadAndTail
<1>15. ASSUME NEW d \in Events(2), NEW e \in Events(2), Finished(d, e), d.name = name PROVE JobListed(d)'
  <2>1. PICK i \in 1..Len(order) : Of(order, i) = d
    BY <1>7, <1>15
  <2>2. PICK j \in 1..Len(order) : Of(order, j) = e
    BY <1>7, <1>15 DEF Finished
  <2>3. PICK task \in Range(tasks) :
          /\ task.id = d.id
          /\ \E k \in 1..Len(order) : /\ Is(Of(order, k), task.id, "SCHEDULE") /\ task.start = Of(order, k).time
                                      /\ \A l \in 1..Len(order) : k < l => ~Is(Of(order, l), task.id, "SCHEDULE")
          /\ \E k \in 1..Len(order) : /\ Is(Of(order, k), task.id, "FINISH") /\ task.end = Of(order, k).time
                                      /\ \A l \in 1..Len(order) : k < l => ~Is(Of(order, l), task.id, "FINISH")
    <3>1. Of(order, i).type = "SCHEDULE" /\ Of(order, j).type = "FINISH" /\ Of(order, i).id = Of(order, j).id
      BY <2>1, <2>2, <1>15 DEF Finished
    <3> QED BY <3>1, <2>1, <1>4, <1>7, JobsAreTasks
  <2>4. task.start = Latest(d, "SCHEDULE")
    <3>1. PICK k \in 1..Len(order) : /\ Is(Of(order, k), d.id, "SCHEDULE") /\ task.start = Of(order, k).time
                                     /\ \A l \in 1..Len(order) : k < l => ~Is(Of(order, l), d.id, "SCHEDULE")
      BY <2>3
    <3> QED BY <3>1, <1>1, <1>5, <1>6, <1>15, LatestIs
  <2>5. task.end = Latest(d, "FINISH")
    <3>1. PICK k \in 1..Len(order) : /\ Is(Of(order, k), d.id, "FINISH") /\ task.end = Of(order, k).time
                                     /\ \A l \in 1..Len(order) : k < l => ~Is(Of(order, l), d.id, "FINISH")
      BY <2>3
    <3> QED BY <3>1, <1>1, <1>5, <1>6, <1>15, LatestIs
  <2>6. c \in BagToSet(classes')
    <3>1. tasks # <<>>
      <4>1. Range(<<>>) = {}
        BY DEF Range
      <4> QED BY <2>3, <4>1
    <3> QED BY <3>1, <1>11 DEF BagToSet
  <2> QED BY <1>10, <1>13, <1>15, <2>3, <2>4, <2>5, <2>6 DEF JobListed
<1>16. ASSUME NEW d, JobListed(d) PROVE JobListed(d)'
  <2>1. BagToSet(classes) \subseteq BagToSet(classes')
    BY <1>11 DEF BagToSet
  <2> QED BY <1>13, <1>16, <2>1 DEF JobListed
<1>17. Extracted'
  <2>1. \A x \in DOMAIN classes' : IsClass(x)
    BY <1>5, <1>10, <1>11 DEF Extracted
  <2>2. ASSUME NEW d \in Events(2), NEW e \in Events(2), Finished(d, e)
        PROVE  d.name \in Range(queue') \/ JobListed(d)'
    <3>1. d.name \in Range(queue) \/ JobListed(d)
      BY <1>2, <1>5, <2>2 DEF Extracted
    <3> QED BY <3>1, <1>2, <1>14, <1>15, <1>16, <2>2
  <2> QED BY <1>11, <1>12, <2>1, <2>2 DEF Extracted, IsBag
<1>18. Types'
  BY <1>2, <1>5 DEF Types, InProcess
<1>19. Queued'
  BY <1>2, <1>12, <1>14 DEF Queued
<1>20. Stored'
  BY <1>2, <1>5, StoredStays DEF InProcess
<1>21. ReadSoFar'
  BY <1>2, NoneWorks, NoneReads DEF IInv
<1>22. Rows'
  BY <1>2, RowsStay DEF IInv
<1> QED BY <1>17, <1>18, <1>19, <1>20, <1>21, <1>22 DEF IInv

LEMMA ExtractDatasetInv == ASSUME IInv, ExtractDataset PROVE IInv'
<1> DEFINE key == [class \in Copies(classes) |-> - Len(class[1].tasks)]
<1>1. /\ step = 5 /\ queue # <<>> /\ Head(queue) = "extract" /\ queue' = Tail(queue)
      /\ UNCHANGED <<process, step, steps, thread, collections, expected, tidy, classes, jobTypes, exported, faults>>
  BY DEF ExtractDataset, dataVars
<1>2. PICK order \in OrdersBy(Copies(classes), key) : dataset' = dataset \o Inserted(order)
  BY DEF ExtractDataset
<1>3. Types /\ Queued /\ Stored /\ ReadSoFar /\ Extracted /\ Rows
  BY DEF IInv
<1>4. queue = <<"extract", "index">> /\ queue' = <<"index">>
  <2>1. Head(<<"index">>) # "extract"
    OBVIOUS
  <2>2. Tail(<<"extract", "index">>) = <<"index">>
    OBVIOUS
  <2> QED BY <1>1, <1>3, <2>1, <2>2 DEF Queued
<1>5. IsBag(classes) /\ \A c \in DOMAIN classes : IsClass(c)
  BY <1>3 DEF Extracted
<1>6. Ordered(Copies(classes), key, order)
  <2>1. ASSUME NEW class \in Copies(classes) PROVE - Len(class[1].tasks) \in Int
    <3>1. IsClass(class[1])
      BY <1>5, CopiesAre
    <3>2. Len(class[1].tasks) \in Nat
      BY <3>1, LenProperties DEF IsClass
    <3> QED BY <3>2
  <2>2. key \in [Copies(classes) -> Int] /\ IsFiniteSet(Copies(classes))
    BY <2>1, <1>5, CopiesAre
  <2> HIDE DEF key
  <2> QED BY <2>2, OrdersAreOrdered
<1>7. PICK D : D = {task.cpus : task \in UNION {Range(c.tasks) : c \in DOMAIN classes}}
  OBVIOUS
<1>8. /\ Len(order) \in Nat
      /\ \A n \in 1..Len(order) : IsClass(order[n][1]) /\ \A task \in Range(order[n][1].tasks) : task.cpus \in D
  <2>1. order \in Seq(Copies(classes))
    BY <1>6 DEF Ordered
  <2>2. \A n \in 1..Len(order) : order[n][1] \in DOMAIN classes
    BY <2>1, <1>5, ElementOfSeq, CopiesAre
  <2> QED BY <2>1, <2>2, <1>5, <1>7, LenProperties
<1>9. PICK added : added = Inserted(order) /\ added \in Seq(Row(D, {0}))
  BY <1>8, InsertedIn DEF NewRows
<1>10. PICK C : dataset \in Seq(Row(C, Nat))
  BY <1>3 DEF Rows
<1>11. dataset \in Seq(Row(C \union D, Nat)) /\ added \in Seq(Row(C \union D, Nat))
  <2>1. Row(C, Nat) \subseteq Row(C \union D, Nat) /\ Row(D, {0}) \subseteq Row(C \union D, Nat)
    BY DEF Row
  <2> QED BY <1>9, <1>10, <2>1, SeqMonotonic
<1>12. dataset' = dataset \o added
  BY <1>2, <1>9
<1>13. dataset' \in Seq(Row(C \union D, Nat)) /\ Range(dataset') = Range(dataset) \union Range(added)
  BY <1>11, <1>12, RangeOfConcat
<1> DEFINE m == Len(dataset)
           k == Len(added)
<1>14. /\ m \in Nat /\ k \in Nat /\ Len(dataset') = m + k
       /\ \A n \in 1..m + k : dataset'[n] = IF n <= m THEN dataset[n] ELSE added[n - m]
  BY <1>11, <1>12, ConcatProperties, LenProperties
<1>15. ASSUME NEW n \in 1..Len(dataset') PROVE dataset'[n].index < Len(dataset')
  <2> HIDE DEF m, k
  <2>1. n \in 1..m + k
    BY <1>14
  <2>2. CASE n <= m
    <3>1. n \in 1..m /\ dataset'[n] = dataset[n]
      BY <1>14, <2>1, <2>2
    <3>2. dataset[n].index < m
      BY <1>3, <3>1 DEF Rows, m
    <3>3. dataset[n].index \in Nat
      <4>1. dataset[n] \in Row(C, Nat)
        BY <1>10, <3>1, ElementOfSeq DEF m
      <4> QED BY <4>1 DEF Row
    <3> QED BY <1>14, <3>1, <3>2, <3>3
  <2>3. CASE ~(n <= m)
    <3>1. n - m \in 1..k /\ dataset'[n] = added[n - m] /\ m + k > 0
      BY <1>14, <2>1, <2>3
    <3>2. added[n - m] \in Row(D, {0})
      BY <1>9, <3>1, ElementOfSeq DEF k
    <3> QED BY <1>14, <3>1, <3>2 DEF Row
  <2> QED BY <2>2, <2>3
<1>16. Rows'
  <2>1. ExportedInOrder'
    BY <1>1, <1>3, <1>13 DEF Rows, ExportedInOrder
  <2> QED BY <1>1, <1>4, <1>13, <1>15, <2>1 DEF Rows
<1>17. Types'
  BY <1>1, <1>3 DEF Types, InProcess
<1>18. Queued'
  BY <1>1, <1>4 DEF Queued
<1>19. Stored'
  BY <1>1, <1>3, StoredStays DEF InProcess
<1>20. ReadSoFar'
  BY <1>1, <1>3, NoneWorks, NoneReads
<1>21. Extracted'
  BY <1>1, <1>3, ExtractedStays
<1> QED BY <1>16, <1>17, <1>18, <1>19, <1>20, <1>21 DEF IInv

LEMMA UpdateDatasetIndexInv == ASSUME IInv, UpdateDatasetIndex PROVE IInv'
<1> DEFINE N == Len(dataset)
           key == [i \in DOMAIN dataset |-> dataset[i].start]
<1>1. /\ step = 5 /\ queue # <<>> /\ Head(queue) = "index" /\ queue' = Tail(queue)
      /\ UNCHANGED <<process, step, steps, thread, collections, expected, tidy, classes, jobTypes, exported, faults>>
  BY DEF UpdateDatasetIndex, dataVars
<1>2. PICK order \in OrdersBy(DOMAIN dataset, key) :
         dataset' = [n \in DOMAIN order |-> [dataset[order[n]] EXCEPT !.index = n - 1]]
  BY DEF UpdateDatasetIndex, Ranked
<1>3. Types /\ Queued /\ Stored /\ ReadSoFar /\ Extracted /\ Rows
  BY DEF IInv
<1>4. queue' = <<>>
  <2>1. Head(<<"extract", "index">>) # "index" /\ Tail(<<"index">>) = <<>>
    OBVIOUS
  <2> QED BY <1>1, <1>3, <2>1 DEF Queued
<1>5. PICK C : dataset \in Seq(Row(C, Nat))
  BY <1>3 DEF Rows
<1>6. /\ N \in Nat /\ DOMAIN dataset = 1..N
      /\ \A i \in 1..N : dataset[i] \in Row(C, Nat) /\ dataset[i].start \in Int
  <2>1. \A i \in 1..N : dataset[i] \in Row(C, Nat)
    BY <1>5, ElementOfSeq
  <2> QED BY <1>5, <2>1, LenProperties DEF Row
<1>7. Ordered(1..N, key, order)
  <2>1. key \in [1..N -> Int] /\ 1 \in Int /\ N \in Int
    BY <1>6
  <2> HIDE DEF key, N
  <2>2. IsFiniteSet(1..N)
    BY <2>1, FS_Interval
  <2> QED BY <1>2, <1>6, <2>1, <2>2, OrdersAreOrdered
<1>8. /\ order \in Seq(1..N) /\ Len(order) = N /\ Range(order) = 1..N /\ DOMAIN order = 1..N
      /\ \A i \in 1..N : order[i] \in 1..N
      /\ \A i, j \in 1..N : i < j => dataset[order[i]].start <= dataset[order[j]].start
  <2> HIDE DEF N
  <2>1. order \in Seq(1..N) /\ Len(order) = Cardinality(1..N) /\ Range(order) = 1..N
    BY <1>7 DEF Ordered
  <2>2. Cardinality(1..N) = N
    <3>1. 1 \in Int /\ N \in Int
      BY <1>6
    <3>2. Cardinality(1..N) = IF 1 > N THEN 0 ELSE N - 1 + 1
      BY <3>1, FS_Interval
    <3> QED BY <1>6, <3>2
  <2>3. DOMAIN order = 1..N /\ \A i \in 1..N : order[i] \in 1..N
    BY <2>1, <2>2, LenProperties, ElementOfSeq
  <2>4. \A i, j \in 1..N : i < j => key[order[i]] <= key[order[j]]
    <3> HIDE DEF key
    <3> QED BY <1>7, <2>1, <2>2 DEF Ordered
  <2> QED BY <1>6, <2>1, <2>2, <2>3, <2>4
<1>9. \A n \in 1..N : /\ dataset'[n] \in Row(C, Nat) /\ dataset'[n].index = n - 1
                      /\ dataset'[n].start = dataset[order[n]].start /\ dataset'[n].end = dataset[order[n]].end
  <2> TAKE n \in 1..N
  <2>1. dataset'[n] = [dataset[order[n]] EXCEPT !.index = n - 1]
    BY <1>2, <1>8
  <2>2. dataset[order[n]] \in Row(C, Nat) /\ n - 1 \in Nat
    BY <1>6, <1>8
  <2> HIDE DEF N
  <2> QED BY <2>1, <2>2 DEF Row
<1>10. dataset' \in Seq(Row(C, Nat)) /\ Len(dataset') = N /\ DOMAIN dataset' = 1..N
  <2>1. DOMAIN dataset' = 1..N /\ dataset' = [n \in 1..N |-> dataset'[n]]
    BY <1>2, <1>8
  <2>2. dataset' \in [1..N -> Row(C, Nat)]
    <3> HIDE DEF N
    <3> QED BY <1>9, <2>1
  <2> HIDE DEF N
  <2>3. dataset' \in Seq(Row(C, Nat))
    BY <1>6, <2>2, SeqDef
  <2> QED BY <1>6, <2>1, <2>3, LenProperties
<1>11. Indexed'
  <2> HIDE DEF N
  <2>1. \A n \in 1..N : dataset'[n].index = n - 1
    BY <1>9
  <2>2. ASSUME NEW i \in 1..N, NEW j \in 1..N, i < j PROVE dataset'[i].start <= dataset'[j].start
    <3>1. dataset'[i].start = dataset[order[i]].start /\ dataset'[j].start = dataset[order[j]].start
      BY <1>9
    <3>2. dataset[order[i]].start <= dataset[order[j]].start
      BY <1>8, <2>2
    <3> QED BY <3>1, <3>2
  <2> QED BY <1>10, <2>1, <2>2 DEF Indexed
<1>12. ExportedInOrder'
  <2> HIDE DEF N
  <2> SUFFICES ASSUME \A r \in Range(dataset') : r.end - r.start > 1
               PROVE  \A r \in Range(dataset) : r.end - r.start > 1
    BY <1>1, <1>3 DEF Rows, ExportedInOrder
  <2> TAKE r \in Range(dataset)
  <2>1. PICK i \in 1..N : r = dataset[i]
    BY <1>6 DEF Range
  <2>2. PICK n \in 1..N : order[n] = i
    BY <1>8, <2>1 DEF Range
  <2>3. dataset'[n] \in Range(dataset')
    BY <1>10 DEF Range
  <2>4. dataset'[n].end - dataset'[n].start > 1
    BY <2>3
  <2> QED BY <2>1, <2>2, <2>4, <1>9
<1>13. Rows'
  <2>1. \A n \in 1..Len(dataset') : dataset'[n].index < Len(dataset')
    <3> HIDE DEF N
    <3> QED BY <1>6, <1>9, <1>10
  <2> QED BY <1>10, <1>11, <1>12, <2>1 DEF Rows
<1>14. Types'
  BY <1>1, <1>3 DEF Types, InProcess
<1>15. Queued'
  BY <1>1, <1>4 DEF Queued
<1>16. Stored'
  BY <1>1, <1>3, StoredStays DEF InProcess
<1>17. ReadSoFar'
  BY <1>1, <1>3, NoneWorks, NoneReads
<1>18. Extracted'
  BY <1>1, <1>3, ExtractedStays
<1> QED BY <1>13, <1>14, <1>15, <1>16, <1>17, <1>18 DEF IInv

LEMMA CleanInv == ASSUME IInv, NEW s \in {2, 3}, Clean(s) PROVE IInv'
<1> DEFINE docs == collections[s]
           Cleaned(d) == [d EXCEPT !.cleaned = @ \/ (~d.cleaned /\ docs[d] > 1)]
           kept == {Cleaned(d) : d \in DOMAIN docs}
<1>1. /\ ~InProcess /\ collections' = [collections EXCEPT ![s] = SetToBag(kept)] /\ tidy' = tidy \union {s}
      /\ UNCHANGED <<process, step, steps, queue, thread, expected, classes, dataset, jobTypes, exported, faults>>
  BY DEF Clean, resultVars
<1>2. Types /\ Queued /\ Stored /\ ReadSoFar /\ Extracted /\ Rows
  BY DEF IInv
<1>3. DOMAIN collections' = {2, 3} /\ collections'[s] = SetToBag(kept)
      /\ \A r \in {2, 3} : r # s => collections'[r] = collections[r]
  BY <1>1, <1>2 DEF Types
<1>4. /\ IsBag(docs) /\ Documents(s) = DOMAIN docs /\ \A d \in DOMAIN docs : IsDocument(s, d)
      /\ \A c, d \in DOMAIN docs : c.hash = d.hash => c = d
  BY <1>2 DEF Stored, Documents, BagToSet
<1>5. ASSUME NEW d \in DOMAIN docs
      PROVE  /\ Cleaned(d).event = d.event /\ Cleaned(d).hash = d.hash
             /\ Cleaned(d) = [event |-> d.event, hash |-> <<d.event, d.hash[2]>>, cleaned |-> Cleaned(d).cleaned]
             /\ Cleaned(d).cleaned \in BOOLEAN
  <2>1. /\ d = [event |-> d.event, hash |-> <<d.event, d.hash[2]>>, cleaned |-> d.cleaned]
        /\ d.cleaned \in BOOLEAN
    BY <1>4 DEF IsDocument
  <2>2. PICK b \in BOOLEAN : b = (d.cleaned \/ (~d.cleaned /\ docs[d] > 1))
    BY <2>1
  <2>3. Cleaned(d) = [event |-> d.event, hash |-> <<d.event, d.hash[2]>>, cleaned |-> b]
    <3>1. Cleaned(d) = [d EXCEPT !.cleaned = b]
      BY <2>2
    <3> QED BY <2>1, <3>1
  <2>4. d.hash = <<d.event, d.hash[2]>>
    BY <2>1
  <2> HIDE DEF Cleaned
  <2> QED BY <2>3, <2>4
<1>6. /\ collections'[s] = [d \in kept |-> 1] /\ DOMAIN collections'[s] = kept /\ Documents(s)' = kept
      /\ IsBag(collections[s])'
  <2> HIDE DEF kept
  <2>1. collections'[s] = [d \in kept |-> 1]
    BY <1>3 DEF SetToBag
  <2>2. IsFiniteSet(kept)
    <3> DEFINE f == [d \in DOMAIN docs |-> Cleaned(d)]
    <3>1. f \in Surjection(DOMAIN docs, kept)
      BY DEF Surjection, kept
    <3>2. IsFiniteSet(DOMAIN docs)
      BY <1>4 DEF IsBag
    <3> HIDE DEF f
    <3> QED BY <3>1, <3>2, FS_Surjection
  <2>3. DOMAIN collections'[s] = kept /\ collections'[s] \in [kept -> Nat \ {0}]
    BY <2>1
  <2> QED BY <2>1, <2>2, <2>3 DEF IsBag, Documents, BagToSet
<1>7. ASSUME NEW d \in kept PROVE IsDocument(s, d)'
  <2>1. PICK c \in DOMAIN docs : d = Cleaned(c)
    OBVIOUS
  <2>2. IsDocument(s, c)
    BY <1>4
  <2>3. /\ d.event = c.event /\ d.hash = c.hash
        /\ d = [event |-> c.event, hash |-> <<c.event, c.hash[2]>>, cleaned |-> d.cleaned] /\ d.cleaned \in BOOLEAN
    BY <1>5, <2>1
  <2> HIDE DEF Cleaned, kept
  <2> QED BY <1>1, <2>2, <2>3 DEF IsDocument, InProcess
<1>8. ASSUME NEW c \in kept, NEW d \in kept, c.hash = d.hash PROVE c = d
  <2>1. PICK a \in DOMAIN docs : c = Cleaned(a)
    OBVIOUS
  <2>2. PICK b \in DOMAIN docs : d = Cleaned(b)
    OBVIOUS
  <2>3. a = b
    BY <1>4, <1>5, <1>8, <2>1, <2>2
  <2> QED BY <2>1, <2>2, <2>3
<1>9. Stored'
  <2>1. ASSUME NEW r \in {2, 3}
        PROVE  /\ IsBag(collections[r])' /\ \A d \in Documents(r)' : IsDocument(r, d)'
               /\ \A c, d \in Documents(r)' : c.hash = d.hash => c = d
               /\ r \in tidy' => \A d \in Documents(r)' : collections'[r][d] = 1
    <3>1. CASE r = s
      <4> HIDE DEF kept
      <4>1. IsBag(collections[r])' /\ Documents(r)' = kept /\ \A d \in kept : collections'[r][d] = 1
        BY <1>6, <3>1
      <4>2. \A d \in kept : IsDocument(r, d)'
        BY <1>7, <3>1
      <4> QED BY <4>1, <4>2, <1>8
    <3>2. CASE r # s
      <4>1. collections'[r] = collections[r] /\ Documents(r)' = Documents(r)
        BY <1>3, <3>2 DEF Documents
      <4>2. /\ IsBag(collections[r]) /\ \A d \in Documents(r) : IsDocument(r, d)
            /\ \A c, d \in Documents(r) : c.hash = d.hash => c = d
            /\ r \in tidy => \A d \in Documents(r) : collections[r][d] = 1
        BY <1>2 DEF Stored
      <4>3. \A d \in Documents(r) : IsDocument(r, d)'
        BY <1>1, <4>2 DEF IsDocument, InProcess
      <4>4. r \in tidy' => r \in tidy
        BY <1>1, <3>2
      <4> QED BY <4>1, <4>2, <4>3, <4>4 DEF IsBag
    <3> QED BY <3>1, <3>2
  <2> QED BY <2>1 DEF Stored
<1>10. \A r \in {2, 3} : Events(r)' = Events(r)
  <2> TAKE r \in {2, 3}
  <2>1. CASE r = s
    <3>a. \A e \in kept : \E d \in DOMAIN docs : e.event = d.event
      <4> TAKE e \in kept
      <4>1. PICK d \in DOMAIN docs : e = Cleaned(d)
        OBVIOUS
      <4>2. e.event = d.event
        BY <1>5, <4>1
      <4> HIDE DEF kept, Cleaned
      <4> QED BY <4>2
    <3>b. \A d \in DOMAIN docs : \E e \in kept : e.event = d.event
      <4> TAKE d \in DOMAIN docs
      <4>1. Cleaned(d) \in kept /\ Cleaned(d).event = d.event
        BY <1>5
      <4> HIDE DEF kept, Cleaned
      <4> QED BY <4>1
    <3> HIDE DEF kept
    <3>1. {d.event : d \in kept} = {d.event : d \in DOMAIN docs}
      BY <3>a, <3>b
    <3> QED BY <1>4, <1>6, <2>1, <3>1 DEF Events
  <2>2. CASE r # s
    BY <1>3, <2>2 DEF Events, Documents
  <2> QED BY <2>1, <2>2
<1>11. ReadSoFar'
  <2>1. thread \in [Threads -> {Free}]
    BY <1>1, <1>2, NoneWorks
  <2>2. EventsKept'
    BY <1>1, <1>2, <1>10 DEF ReadSoFar, EventsKept
  <2> QED BY <1>1, <2>1, <2>2 DEF ReadSoFar
<1>12. Extracted'
  BY <1>1, <1>2, ExtractedStays DEF InProcess
<1>13. Rows'
  BY <1>1, <1>2, RowsStay
<1>14. Types'
  <2>1. tidy' \subseteq {2, 3}
    BY <1>1, <1>2 DEF Types
  <2> QED BY <1>1, <1>2, <1>3, <2>1 DEF Types, InProcess
<1>15. Queued'
  BY <1>1, <1>2 DEF Queued, InProcess
<1> QED BY <1>9, <1>11, <1>12, <1>13, <1>14, <1>15 DEF IInv

LEMMA ExportInv == ASSUME IInv, Export PROVE IInv'
<1> DEFINE N == Len(dataset)
           rows == {r \in Range(dataset) : r.end - r.start > 1}
           indexes == {r.index : r \in rows}
           Row0(n) == CHOOSE r \in rows : r.index = n
           later(n) == {m \in indexes : m > n}
           next(n) == IF later(n) = {} THEN 0 ELSE Row0(Min(later(n))).start - Row0(n).start
<1>1. /\ ~InProcess
      /\ exported' = [n \in indexes |-> [class |-> Row0(n).class, duration |-> Row0(n).end - Row0(n).start,
                                         next |-> next(n)]]
      /\ UNCHANGED <<process, step, steps, queue, thread, collections, expected, tidy, classes, dataset, jobTypes, faults>>
  BY DEF Export, dataVars
<1>2. Types /\ Queued /\ Stored /\ ReadSoFar /\ Extracted /\ Rows
  BY DEF IInv
<1>3. Indexed
  BY <1>1, <1>2 DEF Rows, InProcess
<1>4. PICK C : dataset \in Seq(Row(C, Nat))
  BY <1>2 DEF Rows
<1>5. /\ N \in Nat /\ DOMAIN dataset = 1..N
      /\ \A i \in 1..N : dataset[i] \in Row(C, Nat) /\ dataset[i].start \in Int
  <2>1. \A i \in 1..N : dataset[i] \in Row(C, Nat)
    BY <1>4, ElementOfSeq
  <2> QED BY <1>4, <2>1, LenProperties DEF Row
<1>6. ASSUME \A r \in Range(dataset) : r.end - r.start > 1
      PROVE  /\ DOMAIN exported' = 0..Cardinality(DOMAIN exported') - 1
             /\ \A n \in DOMAIN exported' : exported'[n].next >= 0
  <2>1. rows = Range(dataset)
    BY <1>6
  <2> HIDE DEF rows
  <2>2. \A i \in 1..N : dataset[i] \in rows /\ dataset[i].index = i - 1
    BY <2>1, <1>3, <1>5 DEF Range, Indexed
  <2>3. \A r \in rows : \E i \in 1..N : r = dataset[i]
    BY <2>1, <1>5 DEF Range
  <2>4. indexes = 0..N - 1
    <3> HIDE DEF N
    <3>1. \A n \in indexes : n \in 0..N - 1
      BY <1>5, <2>2, <2>3
    <3>2. ASSUME NEW n \in 0..N - 1 PROVE n \in indexes
      <4>1. n + 1 \in 1..N /\ (n + 1) - 1 = n
        BY <1>5
      <4>2. dataset[n + 1] \in rows /\ dataset[n + 1].index = n
        BY <2>2, <4>1
      <4> QED BY <4>2
    <3> QED BY <3>1, <3>2
  <2> HIDE DEF indexes
  <2>5. ASSUME NEW n \in 0..N - 1 PROVE Row0(n) = dataset[n + 1] /\ n + 1 \in 1..N
    <3> HIDE DEF N
    <3>1. n + 1 \in 1..N /\ (n + 1) - 1 = n
      BY <1>5
    <3>2. dataset[n + 1] \in rows /\ dataset[n + 1].index = n
      BY <2>2, <3>1
    <3>3. ASSUME NEW r \in rows, r.index = n PROVE r = dataset[n + 1]
      <4>1. PICK i \in 1..N : r = dataset[i]
        BY <2>3
      <4>2. i - 1 = n
        BY <2>2, <3>3, <4>1
      <4>3. i = n + 1
        BY <4>2, <1>5
      <4> QED BY <4>1, <4>3
    <3>4. Row0(n) \in rows /\ Row0(n).index = n
      BY <3>2
    <3> HIDE DEF Row0
    <3> QED BY <3>1, <3>3, <3>4
  <2> HIDE DEF Row0
  <2>6. ASSUME NEW n \in 0..N - 1 PROVE next(n) >= 0
    <3>1. CASE later(n) = {}
      BY <3>1
    <3>2. CASE later(n) # {}
      <4>1. later(n) \in SUBSET Nat /\ later(n) \subseteq 0..N - 1 /\ \A m \in later(n) : m > n
        BY <2>4
      <4> HIDE DEF later, N
      <4>2. \E x \in later(n) : \A y \in later(n) : x <= y
        BY <3>2, <4>1, LeastElement
      <4>3. Min(later(n)) \in later(n)
        BY <4>2 DEF Min
      <4>4. PICK m : m = Min(later(n)) /\ m \in 0..N - 1 /\ m > n
        BY <4>1, <4>3
      <4>5. Row0(m) = dataset[m + 1] /\ m + 1 \in 1..N /\ Row0(n) = dataset[n + 1] /\ n + 1 \in 1..N
        BY <2>5, <4>4
      <4>6. n + 1 < m + 1
        BY <4>4
      <4>7. dataset[n + 1].start <= dataset[m + 1].start
        BY <1>3, <4>5, <4>6 DEF Indexed, N
      <4>8. dataset[m + 1].start - dataset[n + 1].start >= 0
        BY <1>5, <4>5, <4>7
      <4> QED BY <3>2, <4>4, <4>5, <4>8
    <3> QED BY <3>1, <3>2
  <2> HIDE DEF next, N
  <2>7. DOMAIN exported' = 0..N - 1 /\ \A n \in 0..N - 1 : exported'[n].next = next(n)
    BY <1>1, <2>4
  <2>8. Cardinality(0..N - 1) = N
    <3>1. 0 \in Int /\ N - 1 \in Int
      BY <1>5
    <3>2. Cardinality(0..N - 1) = IF 0 > N - 1 THEN 0 ELSE (N - 1) - 0 + 1
      BY <3>1, FS_Interval
    <3> QED BY <1>5, <3>2
  <2> QED BY <2>6, <2>7, <2>8
<1>7. Rows'
  <2>1. ExportedInOrder'
    <3> HIDE DEF N, rows, indexes, next
    <3> QED BY <1>1, <1>6 DEF ExportedInOrder
  <2> QED BY <1>1, <1>2, <2>1 DEF Rows, Indexed
<1>8. Types'
  BY <1>1, <1>2 DEF Types, InProcess
<1>9. Queued'
  BY <1>1, <1>2 DEF Queued, InProcess
<1>10. Stored'
  BY <1>1, <1>2, StoredStays DEF InProcess
<1>11. ReadSoFar'
  BY <1>1, <1>2, NoneWorks, NoneReads
<1>12. Extracted'
  BY <1>1, <1>2, ExtractedStays DEF InProcess
<1> QED BY <1>7, <1>8, <1>9, <1>10, <1>11, <1>12 DEF IInv

-----------------------------------------------------------------------------
(* The theorems. *)

LEMMA StutterInv == ASSUME IInv, UNCHANGED traceVars PROVE IInv'
<1>1. UNCHANGED <<process, step, steps, queue, thread, collections, expected, tidy, classes, dataset, jobTypes, exported, faults>>
  BY DEF traceVars, dataVars, resultVars
<1>2. Types /\ Queued /\ Stored /\ ReadSoFar /\ Extracted /\ Rows
  BY DEF IInv
<1>3. Types'
  BY <1>1, <1>2 DEF Types, InProcess
<1>4. Queued'
  BY <1>1, <1>2, SameDocuments DEF Queued
<1>5. Stored'
  BY <1>1, <1>2, StoredStays DEF InProcess
<1>6. /\ CollectionIds' = CollectionIds /\ \A s : Events(s)' = Events(s)
  BY <1>1, SameDocuments
<1>7. ReadSoFar'
  <2>1. EventsKept'
    BY <1>1, <1>2, <1>6 DEF ReadSoFar, EventsKept
  <2>2. ASSUME NEW t \in Threads, thread[t] # Free PROVE Reading(step, thread[t])'
    <3>1. step \in {2, 3} /\ thread[t] \in Working(step) /\ Reading(step, thread[t])
      BY <1>2, <2>2 DEF Types, ReadSoFar
    <3>2. thread[t].file \in DOMAIN Files[step]
      BY <3>1 DEF Working
    <3>3. EventsIn(step, thread[t].file)' = EventsIn(step, thread[t].file)
      BY <1>1, <1>6, <3>1, <3>2, SameEvents
    <3> QED BY <1>1, <1>6, <3>1, <3>3 DEF Reading
  <2> QED BY <1>1, <2>1, <2>2 DEF ReadSoFar
<1>8. Extracted'
  BY <1>1, <1>2, ExtractedStays
<1>9. Rows'
  BY <1>1, <1>2, RowsStay
<1> QED BY <1>3, <1>4, <1>5, <1>7, <1>8, <1>9 DEF IInv

LEMMA NextInv == ASSUME IInv, [TracesNext]_traceVars PROVE IInv'
<1>1. CASE StartProcess
  BY <1>1, StartProcessInv
<1>2. CASE EndStep
  BY <1>2, EndStepInv
<1>3. ASSUME NEW t \in Threads, TakeEvents(t) PROVE IInv'
  BY <1>3, TakeEventsInv
<1>4. ASSUME NEW t \in Threads, Read(t) PROVE IInv'
  BY <1>4, ReadInv
<1>5. ASSUME NEW t \in Threads, Look(t) PROVE IInv'
  BY <1>5, LookInv
<1>6. ASSUME NEW t \in Threads, Insert(t) PROVE IInv'
  BY <1>6, InsertInv
<1>7. ASSUME NEW t \in Threads, ProcessTaskClass(t) PROVE IInv'
  BY <1>7, ProcessTaskClassInv
<1>8. ASSUME NEW t \in Threads, CountJobs(t) PROVE IInv'
  BY <1>8, CountJobsInv
<1>9. CASE ExtractDataset
  BY <1>9, ExtractDatasetInv
<1>10. CASE UpdateDatasetIndex
  BY <1>10, UpdateDatasetIndexInv
<1>11. ASSUME NEW s \in {2, 3}, Clean(s) PROVE IInv'
  BY <1>11, CleanInv
<1>12. CASE Export
  BY <1>12, ExportInv
<1>13. CASE UNCHANGED traceVars
  BY <1>13, StutterInv
<1> QED BY <1>1, <1>2, <1>3, <1>4, <1>5, <1>6, <1>7, <1>8, <1>9, <1>10, <1>11, <1>12, <1>13 DEF TracesNext

(* Whatever the steps, the cleaner and the export leave, every variable holds a value the code can give it. *)
THEOREM TracesTypeCorrect == TracesSpec => []TracesTypeOK
<1>1. IInv => TracesTypeOK
  <2> SUFFICES ASSUME IInv PROVE TracesTypeOK
    OBVIOUS
  <2>1. Types /\ Stored /\ Rows
    BY DEF IInv
  <2>2. \A t \in Threads : thread[t] = Free \/ thread[t].phase \in {"read", "look", "again", "insert"}
    BY <2>1 DEF Types, Working
  <2>3. \A s \in {2, 3} : \A d \in Documents(s) : d.cleaned \in BOOLEAN
    BY <2>1 DEF Stored, IsDocument
  <2>4. \A r \in Range(dataset) : r.class \in 1..NumClasses /\ r.index \in 0..Len(dataset) - 1
    <3> TAKE r \in Range(dataset)
    <3>1. PICK C : dataset \in Seq(Row(C, Nat))
      BY <2>1 DEF Rows
    <3>2. Len(dataset) \in Nat /\ DOMAIN dataset = 1..Len(dataset)
      BY <3>1, LenProperties
    <3>3. PICK n \in 1..Len(dataset) : r = dataset[n]
      BY <3>2 DEF Range
    <3>4. r \in Row(C, Nat)
      BY <3>1, <3>3, ElementOfSeq
    <3>5. r.index < Len(dataset)
      BY <2>1, <3>3 DEF Rows
    <3>6. r.index \in Nat /\ r.class \in 1..NumClasses
      BY <3>4 DEF Row
    <3> QED BY <3>2, <3>5, <3>6
  <2>5. \A sort \in DOMAIN jobTypes : jobTypes[sort] \in Nat
    BY <2>1 DEF Types
  <2> QED BY <2>1, <2>2, <2>3, <2>4, <2>5 DEF TracesTypeOK, Types
<1> QED BY <1>1, InitInv, NextInv, PTL DEF TracesSpec

(* However the threads of any number of processes interleave, and the cleaner is run between them, no *)
(* event that was read is lost, every job becomes a task, and what is exported can be asked for.      *)
THEOREM DatasetTrue == TracesSpec => []DatasetIsTrue
<1>1. IInv => DatasetIsTrue
  <2> SUFFICES ASSUME IInv PROVE DatasetIsTrue
    OBVIOUS
  <2>1. Types /\ Stored /\ ReadSoFar /\ Extracted /\ Rows
    BY DEF IInv
  <2>2. EventsKept /\ ExportedInOrder
    BY <2>1 DEF ReadSoFar, Rows
  <2>3. CleanedOnce
    <3> SUFFICES ASSUME NEW s \in tidy, NEW c \in Copies(collections[s]), NEW d \in Copies(collections[s]),
                        c[1].hash = d[1].hash
                 PROVE  c = d
      BY DEF CleanedOnce
    <3>1. s \in {2, 3}
      BY <2>1 DEF Types
    <3>2. /\ IsBag(collections[s]) /\ Documents(s) = DOMAIN collections[s]
          /\ \A x, y \in Documents(s) : x.hash = y.hash => x = y
          /\ \A x \in Documents(s) : collections[s][x] = 1
      BY <2>1, <3>1 DEF Stored, Documents, BagToSet
    <3>3. /\ c[1] \in DOMAIN collections[s] /\ c[2] \in 1..collections[s][c[1]] /\ c = <<c[1], c[2]>>
          /\ d[1] \in DOMAIN collections[s] /\ d[2] \in 1..collections[s][d[1]] /\ d = <<d[1], d[2]>>
      BY <3>2, CopiesAre
    <3>4. c[1] = d[1]
      BY <3>2, <3>3
    <3>5. c[2] \in 1..1 /\ d[2] \in 1..1
      BY <3>2, <3>3
    <3>6. c[2] = d[2]
      BY <3>5
    <3> QED BY <3>3, <3>4, <3>6
  <2>4. JobsListed
    <3>1. Range(<<>>) = {}
      BY DEF Range
    <3> QED BY <2>1, <3>1 DEF Extracted, JobsListed, Finished
  <2> QED BY <2>2, <2>3, <2>4 DEF DatasetIsTrue
<1> QED BY <1>1, InitInv, NextInv, PTL DEF TracesSpec
=============================================================================
