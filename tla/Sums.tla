-------------------------------- MODULE Sums --------------------------------
(***************************************************************************)
(* Sums of integers over finite sets.  SumFunction folds over a domain,    *)
(* taking one element after the other, in an order nobody knows.  What a   *)
(* sum is does not depend on it: SumChanges says by how much a sum changes *)
(* with one of its terms, and SumOfZeros what a sum of nothing is.  There  *)
(* is no induction over sets here but the smallest counterexample.  And    *)
(* what the other proofs need of counting up (CountUp) and of loops, which *)
(* are recursive functions: that there is one, and one only (LoopsExist,   *)
(* LoopsAreOne).                                                           *)
(***************************************************************************)
EXTENDS Integers, Functions, FiniteSetTheorems, WellFoundedInduction, TLAPS

LEMMA LeastElement == ASSUME NEW T \in SUBSET Nat, T # {} PROVE \E x \in T : \A y \in T : x <= y
<1>1. \E x \in T : \A y \in T : ~(<<y, x>> \in OpToRel(<, Nat))
  BY NatLessThanWellFounded, WFMin, Zenon
<1>2. PICK x \in T : \A y \in T : ~(<<y, x>> \in OpToRel(<, Nat))
  BY <1>1
<1>3. \A y \in T : ~(y < x)
  BY <1>2 DEF OpToRel
<1> QED BY <1>3

LEMMA CountUp ==
  ASSUME NEW N \in Nat, NEW P, 0 \in P, \A n \in 0..N : n # N /\ n \in P => n + 1 \in P
  PROVE  0..N \subseteq P
<1> DEFINE Bad == {n \in 0..N : n \notin P}
<1> SUFFICES ASSUME Bad # {} PROVE FALSE
  OBVIOUS
<1>1. PICK n \in Bad : \A m \in Bad : n <= m
  <2>1. Bad \in SUBSET Nat
    OBVIOUS
  <2> QED BY <2>1, LeastElement
<1>2. n \in 0..N /\ n \notin P /\ n # 0
  OBVIOUS
<1>3. n - 1 \in 0..N /\ n - 1 # N /\ (n - 1) + 1 = n
  BY <1>2
<1>4. n - 1 \in P
  BY <1>1, <1>3
<1> QED BY <1>2, <1>3, <1>4

(* A loop whose turns stay within a set. *)
IsLoop(loop, N, S, start, turn) ==
  /\ loop \in [0..N -> S] /\ loop[0] = start
  /\ \A n \in 0..N : n # 0 => loop[n] = turn[<<n, loop[n - 1]>>]

LEMMA LoopsExist ==
  ASSUME NEW N \in Nat, NEW S, NEW start \in S, NEW turn \in [(1..N) \X S -> S]
  PROVE  \E loop : IsLoop(loop, N, S, start, turn)
<1> DEFINE Loops(m) == {loop \in [0..m -> S] :
                          /\ loop[0] = start
                          /\ \A n \in 0..m : n # 0 => loop[n] = turn[<<n, loop[n - 1]>>]}
           P == {m \in 0..N : Loops(m) # {}}
<1>1. 0 \in P
  <2>1. [n \in 0..0 |-> start] \in Loops(0)
    OBVIOUS
  <2> QED BY <2>1
<1>2. ASSUME NEW m \in 0..N, m # N, m \in P PROVE m + 1 \in P
  <2>1. PICK g : g \in Loops(m)
    BY <1>2
  <2>2. m + 1 \in 1..N /\ m \in 0..m /\ m \in Nat
    BY <1>2
  <2> DEFINE h == [n \in 0..(m + 1) |-> IF n = m + 1 THEN turn[<<m + 1, g[m]>>] ELSE g[n]]
  <2>3. g \in [0..m -> S] /\ g[0] = start /\ \A n \in 0..m : n # 0 => g[n] = turn[<<n, g[n - 1]>>]
    BY <2>1
  <2>4. \A n \in 0..(m + 1) : n # m + 1 => n \in 0..m
    BY <2>2
  <2>5. turn[<<m + 1, g[m]>>] \in S
    <3>1. <<m + 1, g[m]>> \in (1..N) \X S
      BY <2>2, <2>3
    <3> QED BY <3>1
  <2>6. h \in [0..(m + 1) -> S]
    BY <2>3, <2>4, <2>5
  <2>7. h[0] = start
    BY <2>2, <2>3
  <2>8. ASSUME NEW n \in 0..(m + 1), n # 0 PROVE h[n] = turn[<<n, h[n - 1]>>]
    <3>1. n - 1 \in 0..m /\ n - 1 \in 0..(m + 1) /\ n - 1 # m + 1
      BY <2>2, <2>8
    <3>2. h[n - 1] = g[n - 1]
      BY <3>1
    <3>3. CASE n = m + 1
      <4>1. n - 1 = m /\ h[n] = turn[<<m + 1, g[m]>>]
        BY <3>3, <2>2
      <4> QED BY <4>1, <3>2, <3>3
    <3>4. CASE n # m + 1
      <4>1. n \in 0..m /\ h[n] = g[n]
        BY <3>4, <2>4
      <4> QED BY <4>1, <3>2, <2>3, <2>8
    <3> QED BY <3>3, <3>4
  <2> HIDE DEF h
  <2>9. h \in Loops(m + 1)
    BY <2>6, <2>7, <2>8
  <2> QED BY <2>9, <2>2
<1>3. N \in P
  <2> HIDE DEF P
  <2> QED BY <1>1, <1>2, CountUp
<1>4. PICK loop : loop \in Loops(N)
  BY <1>3
<1> QED BY <1>4 DEF IsLoop

LEMMA LoopsAreOne ==
  ASSUME NEW N \in Nat, NEW S, NEW start, NEW turn,
         NEW a, IsLoop(a, N, S, start, turn), NEW b, IsLoop(b, N, S, start, turn)
  PROVE  a[N] = b[N]
<1> DEFINE P == {n \in 0..N : a[n] = b[n]}
<1>1. 0 \in P
  BY DEF IsLoop
<1>2. ASSUME NEW n \in 0..N, n # N, n \in P PROVE n + 1 \in P
  <2>1. n + 1 \in 0..N /\ n + 1 # 0 /\ (n + 1) - 1 = n /\ a[n] = b[n]
    BY <1>2
  <2>2. a[n + 1] = turn[<<n + 1, a[(n + 1) - 1]>>] /\ b[n + 1] = turn[<<n + 1, b[(n + 1) - 1]>>]
    BY <2>1 DEF IsLoop
  <2> QED BY <2>1, <2>2
<1>3. N \in P
  <2> HIDE DEF P
  <2> QED BY <1>1, <1>2, CountUp
<1> QED BY <1>3

(* A set of subsets of a finite set that is not empty has a member of the least size. *)
LEMMA SmallestSet ==
  ASSUME NEW S, IsFiniteSet(S), NEW B \in SUBSET SUBSET S, B # {}
  PROVE  \E s \in B : \A t \in SUBSET S : Cardinality(t) < Cardinality(s) => t \notin B
<1> DEFINE N == {Cardinality(s) : s \in B}
<1>1. N \in SUBSET Nat
  BY FS_Subset, FS_CardinalityType
<1>2. N # {}
  OBVIOUS
<1>3. PICK n \in N : \A m \in N : n <= m
  BY <1>1, <1>2, LeastElement
<1>4. PICK s \in B : n = Cardinality(s)
  BY <1>3
<1>5. ASSUME NEW t \in B PROVE ~(Cardinality(t) < Cardinality(s))
  <2>1. Cardinality(t) \in N
    OBVIOUS
  <2> QED BY <2>1, <1>1, <1>3, <1>4
<1> QED BY <1>5

SomeOf(s) == CHOOSE x \in s : TRUE
(* the sums of the subsets of the domain, of which SumFunction takes the last *)
Follows(f, iter) ==
  iter = [s \in SUBSET DOMAIN f |-> IF s = {} THEN 0 ELSE f[SomeOf(s)] + iter[s \ {SomeOf(s)}]]
SumsOf(f) == CHOOSE iter : Follows(f, iter)

LEMMA SumIsLast == ASSUME NEW f PROVE SumFunction(f) = SumsOf(f)[DOMAIN f]
BY DEF SumFunction, SumFunctionOnSet, SumsOf, Follows, SomeOf, FoldFunctionOnSet, MapThenFoldSet

LEMMA SomeOfIn == ASSUME NEW s, s # {} PROVE SomeOf(s) \in s
BY DEF SomeOf

LEMMA Without ==
  ASSUME NEW S, IsFiniteSet(S), NEW s \in SUBSET S, s # {}
  PROVE  /\ s \ {SomeOf(s)} \in SUBSET S
         /\ Cardinality(s \ {SomeOf(s)}) \in Nat /\ Cardinality(s) \in Nat
         /\ Cardinality(s \ {SomeOf(s)}) = Cardinality(s) - 1
BY SomeOfIn, FS_Subset, FS_RemoveElement, FS_CardinalityType

(* The sums exist: those of the sets of at most n members give those of one member more. *)
LEMMA SumsExist ==
  ASSUME NEW f, IsFiniteSet(DOMAIN f)
  PROVE  \E iter : Follows(f, iter)
<1> DEFINE S == DOMAIN f
           Few(n) == {s \in SUBSET S : Cardinality(s) <= n}
           Up(n, iter) == iter = [s \in Few(n) |-> IF s = {} THEN 0 ELSE f[SomeOf(s)] + iter[s \ {SomeOf(s)}]]
           Bad == {n \in Nat : ~\E iter : Up(n, iter)}
<1>1. Bad = {}
  <2> SUFFICES ASSUME Bad # {} PROVE FALSE
    OBVIOUS
  <2>1. PICK n \in Bad : \A m \in Bad : n <= m
    BY LeastElement
  <2>2. CASE n = 0
    <3> DEFINE g == [s \in Few(0) |-> 0]
    <3>1. \A s \in Few(0) : s = {}
      BY FS_Subset, FS_EmptySet, FS_CardinalityType
    <3>2. Up(0, g)
      BY <3>1
    <3> QED BY <3>2, <2>2, <2>1
  <2>3. CASE n # 0
    <3>1. n \in Nat /\ n - 1 \in Nat
      BY <2>1, <2>3
    <3>2. PICK g : Up(n - 1, g)
      <4>1. n - 1 \notin Bad
        <5> HIDE DEF Bad
        <5> QED BY <3>1, <2>1
      <4> HIDE DEF Up
      <4> QED BY <4>1, <3>1
    <3> DEFINE h == [s \in Few(n) |-> IF s = {} THEN 0 ELSE f[SomeOf(s)] + g[s \ {SomeOf(s)}]]
    <3>3. ASSUME NEW s \in Few(n), s # {} PROVE h[s \ {SomeOf(s)}] = g[s \ {SomeOf(s)}]
      <4> DEFINE t == s \ {SomeOf(s)}
      <4>1. t \in Few(n - 1) /\ t \in Few(n)
        <5>1. s \in SUBSET S /\ Cardinality(s) <= n
          BY <3>3
        <5>2. /\ t \in SUBSET S /\ Cardinality(t) \in Nat /\ Cardinality(s) \in Nat
              /\ Cardinality(t) = Cardinality(s) - 1
          BY <5>1, <3>3, Without
        <5> HIDE DEF t
        <5> QED BY <5>1, <5>2, <3>1
      <4>2. g[t] = IF t = {} THEN 0 ELSE f[SomeOf(t)] + g[t \ {SomeOf(t)}]
        <5> HIDE DEF t, Few
        <5> QED BY <4>1, <3>2
      <4>3. h[t] = IF t = {} THEN 0 ELSE f[SomeOf(t)] + g[t \ {SomeOf(t)}]
        <5> HIDE DEF t, Few
        <5> QED BY <4>1
      <4> QED BY <4>2, <4>3
    <3>4. Up(n, h)
      <4> HIDE DEF Few
      <4>1. \A s \in Few(n) : (IF s = {} THEN 0 ELSE f[SomeOf(s)] + g[s \ {SomeOf(s)}])
                               = (IF s = {} THEN 0 ELSE f[SomeOf(s)] + h[s \ {SomeOf(s)}])
        <5> HIDE DEF h
        <5> QED BY <3>3
      <4>2. h = [s \in Few(n) |-> IF s = {} THEN 0 ELSE f[SomeOf(s)] + g[s \ {SomeOf(s)}]]
        OBVIOUS
      <4> HIDE DEF h
      <4> QED BY <4>1, <4>2
    <3> QED BY <3>4, <2>1
  <2> QED BY <2>2, <2>3
<1>2. Cardinality(S) \in Nat /\ Few(Cardinality(S)) = SUBSET S
  BY FS_CardinalityType, FS_Subset
<1>3. PICK iter : Up(Cardinality(S), iter)
  BY <1>1, <1>2
<1>4. Follows(f, iter)
  BY <1>2, <1>3 DEF Follows
<1> QED BY <1>4

LEMMA SumsFollow ==
  ASSUME NEW f, IsFiniteSet(DOMAIN f)
  PROVE  /\ SumsOf(f)[{}] = 0
         /\ \A s \in SUBSET DOMAIN f : s # {} => SumsOf(f)[s] = f[SomeOf(s)] + SumsOf(f)[s \ {SomeOf(s)}]
<1>1. Follows(f, SumsOf(f))
  BY SumsExist DEF SumsOf
<1>2. ASSUME NEW s \in SUBSET DOMAIN f
      PROVE  SumsOf(f)[s] = IF s = {} THEN 0 ELSE f[SomeOf(s)] + SumsOf(f)[s \ {SomeOf(s)}]
  <2> DEFINE iter == SumsOf(f)
  <2>1. iter = [t \in SUBSET DOMAIN f |-> IF t = {} THEN 0 ELSE f[SomeOf(t)] + iter[t \ {SomeOf(t)}]]
    BY <1>1 DEF Follows
  <2> HIDE DEF iter
  <2>2. iter[s] = IF s = {} THEN 0 ELSE f[SomeOf(s)] + iter[s \ {SomeOf(s)}]
    BY <2>1
  <2> QED BY <2>2 DEF iter
<1> QED BY <1>2

(* Sums of integers are integers, and of natural numbers natural. *)
LEMMA SumType ==
  ASSUME NEW S, IsFiniteSet(S), NEW f \in [S -> Int]
  PROVE  SumFunction(f) \in Int /\ ((\A k \in S : f[k] >= 0) => SumFunction(f) >= 0)
<1> DEFINE Good(s) == SumsOf(f)[s] \in Int /\ ((\A k \in S : f[k] >= 0) => SumsOf(f)[s] >= 0)
           Bad == {s \in SUBSET S : ~Good(s)}
<1>1. Bad = {}
  <2> SUFFICES ASSUME Bad # {} PROVE FALSE
    OBVIOUS
  <2>1. PICK s \in Bad : \A t \in SUBSET S : Cardinality(t) < Cardinality(s) => t \notin Bad
    <3>1. Bad \in SUBSET SUBSET S
      OBVIOUS
    <3> HIDE DEF Bad
    <3> QED BY <3>1, SmallestSet
  <2>2. CASE s = {}
    BY <2>1, <2>2, SumsFollow
  <2>3. CASE s # {}
    <3> DEFINE t == s \ {SomeOf(s)}
    <3>1. Good(t)
      BY <2>1, <2>3, Without
    <3>2. SumsOf(f)[s] = f[SomeOf(s)] + SumsOf(f)[t]
      BY <2>1, <2>3, SumsFollow
    <3>3. SomeOf(s) \in S /\ f[SomeOf(s)] \in Int
      BY <2>1, <2>3, SomeOfIn
    <3>4. Good(s)
      <4> HIDE DEF t
      <4> QED BY <3>1, <3>2, <3>3
    <3> QED BY <3>4, <2>1
  <2> QED BY <2>2, <2>3
<1>2. S \in SUBSET S /\ DOMAIN f = S
  OBVIOUS
<1> QED BY <1>1, <1>2, SumIsLast

(* A sum changes by what one of its terms changes. *)
LEMMA SumChanges ==
  ASSUME NEW S, IsFiniteSet(S), NEW f \in [S -> Int], NEW g \in [S -> Int], NEW k \in S,
         \A j \in S : j # k => g[j] = f[j]
  PROVE  SumFunction(g) = SumFunction(f) + g[k] - f[k]
<1> DEFINE Good(s) == /\ SumsOf(f)[s] \in Int
                      /\ SumsOf(g)[s] = SumsOf(f)[s] + (IF k \in s THEN g[k] - f[k] ELSE 0)
           Bad == {s \in SUBSET S : ~Good(s)}
<1>1. Bad = {}
  <2> SUFFICES ASSUME Bad # {} PROVE FALSE
    OBVIOUS
  <2>1. PICK s \in Bad : \A t \in SUBSET S : Cardinality(t) < Cardinality(s) => t \notin Bad
    <3>1. Bad \in SUBSET SUBSET S
      OBVIOUS
    <3> HIDE DEF Bad
    <3> QED BY <3>1, SmallestSet
  <2>2. CASE s = {}
    BY <2>1, <2>2, SumsFollow
  <2>3. CASE s # {}
    <3> DEFINE t == s \ {SomeOf(s)}
    <3>1. Good(t)
      BY <2>1, <2>3, Without
    <3>2. /\ SumsOf(f)[s] = f[SomeOf(s)] + SumsOf(f)[t]
          /\ SumsOf(g)[s] = g[SomeOf(s)] + SumsOf(g)[t]
      BY <2>1, <2>3, SumsFollow
    <3>3. SomeOf(s) \in S /\ f[SomeOf(s)] \in Int /\ g[SomeOf(s)] \in Int /\ f[k] \in Int /\ g[k] \in Int
      BY <2>1, <2>3, SomeOfIn
    <3>4. k \in s <=> (k \in t \/ k = SomeOf(s))
      BY <2>1, <2>3, SomeOfIn
    <3>5. k \in t => k # SomeOf(s)
      OBVIOUS
    <3>6. SomeOf(s) # k => g[SomeOf(s)] = f[SomeOf(s)]
      BY <3>3
    <3>7. Good(s)
      <4> HIDE DEF t
      <4> QED BY <3>1, <3>2, <3>3, <3>4, <3>5, <3>6
    <3> QED BY <3>7, <2>1
  <2> QED BY <2>2, <2>3
<1>2. S \in SUBSET S /\ DOMAIN f = S /\ DOMAIN g = S
  OBVIOUS
<1>3. Good(S)
  BY <1>1, <1>2
<1> QED BY <1>3, <1>2, SumIsLast

(* A sum of nothing but zeros. *)
LEMMA SumOfZeros ==
  ASSUME NEW S, IsFiniteSet(S), NEW f \in [S -> {0}]
  PROVE  SumFunction(f) = 0
<1> DEFINE Bad == {s \in SUBSET S : SumsOf(f)[s] # 0}
<1>1. Bad = {}
  <2> SUFFICES ASSUME Bad # {} PROVE FALSE
    OBVIOUS
  <2>1. PICK s \in Bad : \A t \in SUBSET S : Cardinality(t) < Cardinality(s) => t \notin Bad
    <3>1. Bad \in SUBSET SUBSET S
      OBVIOUS
    <3> HIDE DEF Bad
    <3> QED BY <3>1, SmallestSet
  <2>2. CASE s = {}
    BY <2>1, <2>2, SumsFollow
  <2>3. CASE s # {}
    <3>1. SumsOf(f)[s \ {SomeOf(s)}] = 0
      BY <2>1, <2>3, Without
    <3>2. SumsOf(f)[s] = f[SomeOf(s)] + SumsOf(f)[s \ {SomeOf(s)}]
      BY <2>1, <2>3, SumsFollow
    <3>3. f[SomeOf(s)] = 0
      BY <2>1, <2>3, SomeOfIn
    <3> QED BY <3>1, <3>2, <3>3, <2>1
  <2> QED BY <2>2, <2>3
<1>2. S \in SUBSET S /\ DOMAIN f = S
  OBVIOUS
<1> QED BY <1>1, <1>2, SumIsLast

=============================================================================
