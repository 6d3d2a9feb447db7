------------------------------- MODULE Recursion ------------------------------
(***************************************************************************)
(* Induction and recursion over the natural numbers, for the proofs about  *)
(* what loops compute: an induction on a set of numbers, and functions     *)
(* that exist because a start and a step are given. The theorems of the    *)
(* library take an operator for what is shown by induction; here it is a   *)
(* set, and for what is computed a function.                               *)
(***************************************************************************)
EXTENDS Integers, WellFoundedInduction, FiniteSetTheorems, TLAPS

(* A set of natural numbers that is not empty has a least element.          *)
LEMMA LeastNatural ==
  ASSUME NEW T \in SUBSET Nat, T # {}
  PROVE  \E x \in T : \A y \in T : x <= y
<1> DEFINE F == {0..n : n \in T}
           R == StrictSubsetOrdering(Nat)
<1>1. IsWellFoundedOn(R, FiniteSubsetsOf(Nat))
  BY FS_StrictSubsetOrderingWellFounded
<1>2. F \subseteq FiniteSubsetsOf(Nat)
  <2> SUFFICES ASSUME NEW n \in T PROVE 0..n \in FiniteSubsetsOf(Nat)
    OBVIOUS
  <2>1. IsFiniteSet(0..n)
    BY FS_Interval
  <2>2. 0..n \subseteq Nat
    OBVIOUS
  <2> QED
    BY <2>1, <2>2 DEF FiniteSubsetsOf
<1>3. F # {}
  OBVIOUS
<1> HIDE DEF R
<1>4. \E X \in F : \A Y \in F : <<Y, X>> \notin R
  BY <1>1, <1>2, <1>3, WFMin
<1>5. PICK n \in T : \A Y \in F : <<Y, 0..n>> \notin R
  BY <1>4
<1>6. ASSUME NEW y \in T, y < n PROVE FALSE
  <2>1. 0..y \subseteq 0..n /\ n \in 0..n /\ n \notin 0..y
    BY <1>6
  <2>2. <<0..y, 0..n>> \in R
    BY <2>1 DEF R, StrictSubsetOrdering
  <2> QED
    BY <1>5, <2>2
<1> QED
  BY <1>6

(* Induction: a set that has 0, and with each number the next, has all      *)
(* natural numbers. To show P(n) of all n, take for S the numbers that have *)
(* P.                                                                       *)
THEOREM SetInduction ==
  ASSUME NEW S, 0 \in S, \A n \in Nat : n \in S => n + 1 \in S
  PROVE  Nat \subseteq S
<1> SUFFICES ASSUME Nat \ S # {} PROVE FALSE
  OBVIOUS
<1>1. PICK x \in Nat \ S : \A y \in Nat \ S : x <= y
  BY LeastNatural
<1>2. x # 0 /\ x - 1 \in Nat
  BY <1>1
<1>3. x - 1 \in S
  BY <1>1, <1>2
<1> QED
  BY <1>1, <1>2, <1>3

(* f holds the values of the first n rounds of a loop without a bound.      *)
Runs(f, S, a, g, n) ==
  /\ f \in [0..n -> S]
  /\ f[0] = a
  /\ \A i \in 0..(n - 1) : f[i + 1] = g[<<i, f[i]>>]

(* A run of n rounds can be continued by one.                               *)
LEMMA RunExtends ==
  ASSUME NEW S, NEW a \in S, NEW g \in [Nat \X S -> S], NEW n \in Nat,
         NEW f, Runs(f, S, a, g, n)
  PROVE  \E h : Runs(h, S, a, g, n + 1)
<1> DEFINE h == [i \in 0..(n + 1) |-> IF i = n + 1 THEN g[<<n, f[n]>>] ELSE f[i]]
<1>1. f[n] \in S /\ g[<<n, f[n]>>] \in S
  BY DEF Runs
<1>2. h \in [0..(n + 1) -> S]
  BY <1>1 DEF Runs
<1>3. h[0] = a
  BY DEF Runs
<1>4. ASSUME NEW i \in 0..n PROVE h[i + 1] = g[<<i, h[i]>>]
  <2>1. h[i] = f[i]
    OBVIOUS
  <2>2. CASE i = n
    <3>1. h[n + 1] = g[<<n, f[n]>>]
      OBVIOUS
    <3> HIDE DEF h
    <3> QED
      BY <2>1, <2>2, <3>1
  <2>3. CASE i # n
    <3>1. i \in 0..(n - 1) /\ i + 1 \in 0..n /\ i + 1 # n + 1
      BY <2>3
    <3>2. f[i + 1] = g[<<i, f[i]>>]
      BY <3>1 DEF Runs
    <3>3. h[i + 1] = f[i + 1]
      BY <3>1
    <3> HIDE DEF h
    <3> QED
      BY <2>1, <3>2, <3>3
  <2> QED
    BY <2>2, <2>3
<1> HIDE DEF h
<1>5. n + 1 - 1 = n
  OBVIOUS
<1>6. Runs(h, S, a, g, n + 1)
  BY <1>2, <1>3, <1>4, <1>5 DEF Runs
<1> QED
  BY <1>6

(* There are runs of any number of rounds.                                  *)
LEMMA RunsExist ==
  ASSUME NEW S, NEW a \in S, NEW g \in [Nat \X S -> S], NEW n \in Nat
  PROVE  \E f : Runs(f, S, a, g, n)
<1> DEFINE N == {m \in Nat : \E f : Runs(f, S, a, g, m)}
<1>1. 0 \in N
  <2>1. Runs([i \in 0..0 |-> a], S, a, g, 0)
    BY DEF Runs
  <2> QED
    BY <2>1
<1>2. \A m \in Nat : m \in N => m + 1 \in N
  BY RunExtends
<1> HIDE DEF N
<1>3. Nat \subseteq N
  BY <1>1, <1>2, SetInduction
<1> QED
  BY <1>3 DEF N

(* Two runs have the same values as far as they both go.                    *)
LEMMA RunsAgree ==
  ASSUME NEW S, NEW a \in S, NEW g \in [Nat \X S -> S],
         NEW m \in Nat, NEW n \in Nat, NEW f, NEW h,
         Runs(f, S, a, g, m), Runs(h, S, a, g, n)
  PROVE  \A i \in Nat : i <= m /\ i <= n => f[i] = h[i]
<1> DEFINE N == {i \in Nat : i <= m /\ i <= n => f[i] = h[i]}
<1>1. 0 \in N
  BY DEF Runs
<1>2. ASSUME NEW i \in Nat, i \in N PROVE i + 1 \in N
  <2> SUFFICES ASSUME i + 1 <= m, i + 1 <= n PROVE f[i + 1] = h[i + 1]
    OBVIOUS
  <2>1. i \in 0..(m - 1) /\ i \in 0..(n - 1)
    OBVIOUS
  <2>2. f[i] = h[i]
    BY <1>2, <2>1
  <2> QED
    BY <2>1, <2>2 DEF Runs
<1> HIDE DEF N
<1>3. Nat \subseteq N
  BY <1>1, <1>2, SetInduction
<1> QED
  BY <1>3 DEF N

(* f is what such a loop computes, round by round.                          *)
Iterates(f, S, a, g) ==
  /\ f \in [Nat -> S]
  /\ f[0] = a
  /\ \A n \in Nat : f[n + 1] = g[<<n, f[n]>>]

(* A start and a step define a function on the natural numbers.             *)
THEOREM PrimitiveRecursion ==
  ASSUME NEW S, NEW a \in S, NEW g \in [Nat \X S -> S]
  PROVE  \E f : Iterates(f, S, a, g)
<1> DEFINE r(n) == CHOOSE h : Runs(h, S, a, g, n)
           f == [n \in Nat |-> r(n)[n]]
<1>1. ASSUME NEW n \in Nat PROVE Runs(r(n), S, a, g, n)
  BY RunsExist
<1> HIDE DEF r
<1>2. f \in [Nat -> S]
  BY <1>1 DEF Runs
<1>3. f[0] = a
  BY <1>1 DEF Runs
<1>4. ASSUME NEW n \in Nat PROVE f[n + 1] = g[<<n, f[n]>>]
  <2>1. Runs(r(n), S, a, g, n) /\ Runs(r(n + 1), S, a, g, n + 1)
    BY <1>1
  <2>2. \A i \in Nat : i <= n + 1 /\ i <= n => r(n + 1)[i] = r(n)[i]
    <3>1. n + 1 \in Nat
      OBVIOUS
    <3> QED
      BY <2>1, <3>1, RunsAgree
  <2>3. r(n + 1)[n + 1] = g[<<n, r(n + 1)[n]>>]
    BY <2>1 DEF Runs
  <2> QED
    BY <2>2, <2>3
<1> HIDE DEF f
<1>5. Iterates(f, S, a, g)
  BY <1>2, <1>3, <1>4 DEF Iterates
<1> QED
  BY <1>5

(* Induction up to a bound.                                                 *)
THEOREM RangeInduction ==
  ASSUME NEW n \in Nat, NEW S, 0 \in S,
         \A k \in 1..n : k - 1 \in S => k \in S
  PROVE  0..n \subseteq S
<1> DEFINE T == {k \in Nat : k <= n => k \in S}
<1>1. 0 \in T
  OBVIOUS
<1>2. ASSUME NEW k \in Nat, k \in T PROVE k + 1 \in T
  <2> SUFFICES ASSUME k + 1 <= n PROVE k + 1 \in S
    OBVIOUS
  <2>1. k + 1 \in 1..n /\ k + 1 - 1 = k /\ k \in S
    BY <1>2
  <2> QED
    BY <2>1
<1> HIDE DEF T
<1>3. Nat \subseteq T
  BY <1>1, <1>2, SetInduction
<1> QED
  BY <1>3 DEF T

(* f is a loop of n rounds: it starts with a, and round k makes f[k] of     *)
(* what the round before has left.                                          *)
Loops(f, n, S, a, g) ==
  /\ f \in [0..n -> S]
  /\ f[0] = a
  /\ \A k \in 1..n : f[k] = g[<<k, f[k - 1]>>]

(* A start and a step define a loop of n rounds.                            *)
THEOREM LoopExists ==
  ASSUME NEW S, NEW n \in Nat, NEW a \in S, NEW g \in [(1..n) \X S -> S]
  PROVE  \E f : Loops(f, n, S, a, g)
<1> DEFINE G == [x \in Nat \X S |-> IF x[1] < n THEN g[<<x[1] + 1, x[2]>>] ELSE a]
<1>1. G \in [Nat \X S -> S]
  <2> SUFFICES ASSUME NEW i \in Nat, NEW x \in S, i < n
               PROVE  g[<<i + 1, x>>] \in S
    OBVIOUS
  <2>1. i + 1 \in 1..n
    OBVIOUS
  <2> QED
    BY <2>1
<1>2. \A i \in Nat, x \in S : i < n => G[<<i, x>>] = g[<<i + 1, x>>]
  OBVIOUS
<1> HIDE DEF G
<1>3. PICK f : Runs(f, S, a, G, n)
  BY <1>1, RunsExist
<1>4. ASSUME NEW k \in 1..n PROVE f[k] = g[<<k, f[k - 1]>>]
  <2>1. k - 1 \in 0..(n - 1) /\ k - 1 \in 0..n /\ k - 1 \in Nat /\ k - 1 < n /\ k - 1 + 1 = k
    OBVIOUS
  <2>2. f[k - 1] \in S
    BY <1>3, <2>1 DEF Runs
  <2>3. f[k - 1 + 1] = G[<<k - 1, f[k - 1]>>]
    BY <1>3, <2>1 DEF Runs
  <2>4. G[<<k - 1, f[k - 1]>>] = g[<<k - 1 + 1, f[k - 1]>>]
    BY <1>2, <2>1, <2>2
  <2> QED
    BY <2>1, <2>3, <2>4
<1>5. Loops(f, n, S, a, g)
  BY <1>3, <1>4 DEF Loops, Runs
<1> QED
  BY <1>5
===============================================================================
