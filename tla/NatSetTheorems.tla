--------------------------- MODULE NatSetTheorems ---------------------------
(***************************************************************************)
(* Facts about sets of naturals that the proofs about pruning need, and    *)
(* induction over an interval, stated with a set in place of a predicate:  *)
(* what is proved for every number is that the set of the numbers it holds *)
(* of is the whole interval.                                               *)
(* Least elements come from the well-foundedness of strict inclusion of    *)
(* finite sets, which the library states without an operator parameter.    *)
(***************************************************************************)
EXTENDS Integers, FiniteSets, FiniteSetTheorems, TLAPS

\* A non-empty set of naturals has a least element: the intervals 0..x of its
\* elements have a minimal one under strict inclusion.
LEMMA LeastElement ==
    ASSUME NEW T \in SUBSET Nat, T # {}
    PROVE  \E x \in T : \A y \in T : x <= y
  <1>1. PICK n \in T : n \in Nat
    OBVIOUS
  <1> DEFINE R == StrictSubsetOrdering(0..n)
             F == {0..x : x \in {y \in T : y <= n}}
  <1>2. IsWellFoundedOn(R, FiniteSubsetsOf(0..n))
    BY FS_StrictSubsetOrderingWellFounded
  <1>3. F \subseteq FiniteSubsetsOf(0..n)
    <2>1. IsFiniteSet(0..n)
      BY <1>1, FS_Interval
    <2>2. FiniteSubsetsOf(0..n) = SUBSET (0..n)
      BY <2>1, FS_FiniteSubsetsOfFinite
    <2> QED
      BY <1>1, <2>2
  <1>4. F # {}
    BY <1>1
  <1> HIDE DEF R, F
  <1>5. PICK I \in F : \A J \in F : <<J, I>> \notin R
    BY <1>2, <1>3, <1>4, WFMin
  <1>6. PICK x \in T : x <= n /\ I = 0..x
    BY <1>5 DEF F
  <1>7. \A y \in T : y <= n => ~(y < x)
    <2> SUFFICES ASSUME NEW y \in T, y <= n, y < x PROVE FALSE
      OBVIOUS
    <2>1. 0..y \in F
      BY DEF F
    <2>2. 0..y \subseteq 0..x /\ 0..y # 0..x /\ 0..x \subseteq 0..n
      <3>1. x \in 0..x /\ x \notin 0..y
        OBVIOUS
      <3> QED
        BY <1>1, <1>6, <3>1
    <2>3. <<0..y, 0..x>> \in R
      BY <2>2 DEF R, StrictSubsetOrdering
    <2> QED
      BY <1>5, <1>6, <2>1, <2>3
  <1>8. x \in Nat /\ n \in Nat
    BY <1>1
  <1> QED
    BY <1>1, <1>6, <1>7, <1>8

\* A set of integers between -1 and a bound has a greatest element.
LEMMA GreatestElement ==
    ASSUME NEW n \in Nat, NEW S \in SUBSET (-1..n), S # {}
    PROVE  \E x \in S : \A y \in S : y <= x
  <1> DEFINE T == {n - x : x \in S}
  <1>1. \A x \in S : n - x \in Nat /\ x \in Int /\ n - x \in T
    OBVIOUS
  <1>2. T \in SUBSET Nat /\ T # {}
    BY <1>1
  <1>3. PICK d \in T : \A e \in T : d <= e
    <2> HIDE DEF T
    <2> QED
      BY <1>2, LeastElement
  <1>4. PICK x \in S : d = n - x
    BY <1>3
  <1>5. \A y \in S : y <= x
    <2> TAKE y \in S
    <2>1. n - x <= n - y /\ x \in Int /\ y \in Int
      BY <1>1, <1>3, <1>4
    <2> QED
      BY <2>1
  <1> QED
    BY <1>5

\* Induction: a set that contains the first number of an interval and with
\* each number the next one contains the interval.
LEMMA IntervalInduction ==
    ASSUME NEW a \in Nat, NEW b \in Nat, NEW S,
           a \in S, \A i \in a..(b - 1) : i \in S => i + 1 \in S
    PROVE  \A i \in a..b : i \in S
  <1> DEFINE T == {i \in a..b : i \notin S}
  <1> SUFFICES ASSUME T # {} PROVE FALSE
    OBVIOUS
  <1>1. PICK x \in T : \A y \in T : x <= y
    <2>1. T \in SUBSET Nat
      OBVIOUS
    <2> QED
      BY <2>1, LeastElement
  <1>2. x \in a..b /\ x \notin S /\ x # a
    OBVIOUS
  <1>3. x - 1 \in a..b /\ x - 1 \notin T
    BY <1>1, <1>2
  <1>4. x - 1 \in a..(b - 1) /\ x - 1 \in S /\ (x - 1) + 1 = x
    BY <1>2, <1>3
  <1> QED
    BY <1>2, <1>4

\* A function that each next value is computed for from the one before exists:
\* what a recursive function over the prefixes of a sequence is.
Steps(step, n, R) == \A i \in 1..n : \A x \in R : step[i][x] \in R

Iterates(f, base, step, n, R) ==
    /\ f[0] = base
    /\ \A i \in 0..n : f[i] \in R
    /\ \A i \in 1..n : f[i] = step[i][f[i - 1]]

LEMMA PrefixRecursion ==
    ASSUME NEW n \in Nat, NEW R, NEW base \in R, NEW step, Steps(step, n, R)
    PROVE  \E f : Iterates(f, base, step, n, R)
  <1> USE DEF Steps, Iterates
  <1> DEFINE Good(k, f) == Iterates(f, base, step, k, R)
             S == {k \in 0..n : \E f : Good(k, f)}
  <1>1. 0 \in S
    <2> DEFINE f == [i \in 0..0 |-> base]
    <2>1. Good(0, f)
      OBVIOUS
    <2> HIDE DEF f, Iterates
    <2> QED
      BY <2>1
  <1>2. ASSUME NEW k \in 0..(n - 1), k \in S PROVE k + 1 \in S
    <2>1. PICK f : Good(k, f)
      BY <1>2
    <2> DEFINE g == [i \in 0..(k + 1) |-> IF i = k + 1 THEN step[k + 1][f[k]] ELSE f[i]]
    <2>2. g[0] = base /\ \A i \in 0..k : g[i] = f[i]
      BY <2>1
    <2>3. \A i \in 0..(k + 1) : g[i] \in R
      BY <2>1
    <2>4. ASSUME NEW i \in 1..(k + 1) PROVE g[i] = step[i][g[i - 1]]
      <3>1. i - 1 \in 0..k /\ g[i - 1] = f[i - 1]
        BY <2>2
      <3>2. CASE i = k + 1
        BY <3>1, <3>2
      <3>3. CASE i \in 1..k
        BY <2>1, <2>2, <3>1, <3>3
      <3> QED
        BY <3>2, <3>3
    <2> HIDE DEF g
    <2>6. Good(k + 1, g)
      BY <2>2, <2>3, <2>4
    <2> HIDE DEF Iterates
    <2> QED
      BY <2>6
  <1> HIDE DEF S
  <1>3. \A i \in 0..n : i \in S
    BY <1>1, <1>2, IntervalInduction
  <1>4. n \in S
    BY <1>3
  <1> QED
    BY <1>4 DEF S

\* There is one such function only.
LEMMA PrefixUnique ==
    ASSUME NEW n \in Nat, NEW R, NEW base \in R, NEW step, Steps(step, n, R),
           NEW f, f[0] = base, \A i \in 1..n : f[i - 1] \in R => f[i] = step[i][f[i - 1]]
    PROVE  Iterates(f, base, step, n, R)
  <1> DEFINE S == {k \in 0..n : f[k] \in R}
  <1>1. 0 \in S
    OBVIOUS
  <1>2. ASSUME NEW k \in 0..(n - 1), k \in S PROVE k + 1 \in S
    <2>1. k + 1 \in 1..n /\ (k + 1) - 1 = k
      OBVIOUS
    <2> QED
      BY <1>2, <2>1 DEF Steps
  <1> HIDE DEF S
  <1>3. \A k \in 0..n : k \in S
    BY <1>1, <1>2, IntervalInduction
  <1>4. \A k \in 0..n : f[k] \in R
    BY <1>3 DEF S
  <1>5. \A i \in 1..n : i - 1 \in 0..n
    OBVIOUS
  <1> QED
    BY <1>4, <1>5 DEF Iterates

\* Two functions whose next values agree when the values before do.
LEMMA PrefixAgree ==
    ASSUME NEW n \in Nat, NEW f, NEW h, f[0] = h[0],
           \A i \in 1..n : f[i - 1] = h[i - 1] => f[i] = h[i]
    PROVE  f[n] = h[n]
  <1> DEFINE S == {k \in 0..n : f[k] = h[k]}
  <1>1. 0 \in S
    OBVIOUS
  <1>2. ASSUME NEW k \in 0..(n - 1), k \in S PROVE k + 1 \in S
    <2>1. k + 1 \in 1..n /\ (k + 1) - 1 = k
      OBVIOUS
    <2> QED
      BY <1>2, <2>1
  <1> HIDE DEF S
  <1>3. \A k \in 0..n : k \in S
    BY <1>1, <1>2, IntervalInduction
  <1>4. n \in S
    BY <1>3
  <1> QED
    BY <1>4 DEF S

\* Of a finite set of naturals, the elements with fewer than k smaller ones
\* are all of the set, or at least k of them.
LEMMA FirstElements ==
    ASSUME NEW P \in SUBSET Nat, IsFiniteSet(P), NEW k \in Nat
    PROVE  LET S == {v \in P : Cardinality({u \in P : u < v}) < k}
           IN  S = P \/ k <= Cardinality(S)
  <1> DEFINE S == {v \in P : Cardinality({u \in P : u < v}) < k}
  <1> SUFFICES ASSUME S # P PROVE k <= Cardinality(S)
    OBVIOUS
  <1>1. PICK v \in P \ S : \A w \in P \ S : v <= w
    BY LeastElement
  <1> DEFINE Below == {u \in P : u < v}
  <1>2. IsFiniteSet(Below) /\ IsFiniteSet(S) /\ Cardinality(Below) \in Nat /\ Cardinality(S) \in Nat
    BY FS_Subset, FS_CardinalityType
  <1>3. k <= Cardinality(Below)
    BY <1>1, <1>2
  <1>4. Below \subseteq S
    <2> SUFFICES ASSUME NEW u \in P, u < v, u \notin S PROVE FALSE
      BY DEF Below
    <2>1. u \in P \ S /\ u \in Nat /\ v \in Nat
      BY <1>1
    <2>2. v <= u
      BY <1>1, <2>1
    <2> QED
      BY <2>1, <2>2
  <1>5. Cardinality(Below) <= Cardinality(S)
    BY <1>2, <1>4, FS_Subset
  <1> HIDE DEF S, Below
  <1> QED
    BY <1>2, <1>3, <1>5
=============================================================================
