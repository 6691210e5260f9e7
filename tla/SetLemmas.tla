------------------------------ MODULE SetLemmas ------------------------------
(***************************************************************************)
(* Facts about finite sets that the proofs of several modules rest on.     *)
(*                                                                         *)
(* Each is proved by a least counterexample: the finite subsets of a set   *)
(* are well-founded, so among those that violate a claim there is one all  *)
(* of whose proper subsets satisfy it.                                     *)
(***************************************************************************)
EXTENDS Integers, FiniteSetTheorems, WellFoundedInduction, TLAPS

\* Of the subsets of a finite set that have a property there is a smallest.
LEMMA SmallestSubset ==
  ASSUME NEW S, IsFiniteSet(S), NEW C, C \subseteq SUBSET S, C # {}
  PROVE  \E T \in C : \A U \in C : U \subseteq T => U = T
<1>1. IsWellFoundedOn(StrictSubsetOrdering(S), FiniteSubsetsOf(S))
  BY FS_StrictSubsetOrderingWellFounded
<1>2. C \subseteq FiniteSubsetsOf(S)
  BY FS_Subset DEF FiniteSubsetsOf
<1>3. PICK T \in C : \A U \in C : ~(<<U, T>> \in StrictSubsetOrdering(S))
  BY <1>1, <1>2, WFMin
<1>4. ASSUME NEW U \in C, U \subseteq T, U # T PROVE FALSE
  <2>1. <<U, T>> \in (SUBSET S) \X (SUBSET S)
    BY <1>3
  <2>2. <<U, T>> \in StrictSubsetOrdering(S)
    BY <1>4, <2>1 DEF StrictSubsetOrdering
  <2> QED
    BY <1>3, <2>2
<1> QED
  BY <1>3, <1>4

\* The values of a function of numbers on a finite set have a highest one.
LEMMA FiniteMaximum ==
  ASSUME NEW S, IsFiniteSet(S), S # {}, NEW f, \A x \in S : f[x] \in Int
  PROVE  \E x \in S : \A y \in S : f[y] <= f[x]
<1> DEFINE Has(T) == \E x \in T : \A y \in T : f[y] <= f[x]
           C == {T \in SUBSET S : T # {} /\ ~Has(T)}
<1>0. SUFFICES ASSUME ~Has(S) PROVE FALSE
  OBVIOUS
<1>1. S \in C
  BY <1>0
<1>2. PICK T \in C : \A U \in C : U \subseteq T => U = T
  <2>1. C \subseteq SUBSET S /\ C # {}
    BY <1>1
  <2> HIDE DEF C
  <2> QED
    BY <2>1, SmallestSubset
<1>3. PICK x \in T : TRUE
  BY <1>2
<1>4. T \ {x} \notin C
  BY <1>2, <1>3
<1>5. CASE T = {x}
  BY <1>2, <1>5
<1>6. CASE T # {x}
  <2>1. PICK m \in T \ {x} : \A y \in T \ {x} : f[y] <= f[m]
    BY <1>3, <1>4, <1>6
  <2>2. f[x] \in Int /\ f[m] \in Int /\ \A y \in T : f[y] \in Int
    BY <1>2, <1>3, <2>1
  <2>3. CASE f[x] <= f[m]
    BY <1>2, <2>1, <2>3
  <2>4. CASE f[m] <= f[x]
    BY <1>2, <1>3, <2>1, <2>2, <2>4
  <2> QED
    BY <2>2, <2>3, <2>4
<1> QED
  BY <1>5, <1>6

\* A set of natural numbers has a least one.
LEMMA LeastNumber ==
  ASSUME NEW C, C \subseteq Nat, C # {}
  PROVE  \E k \in C : \A n \in C : k <= n
<1>1. PICK top \in C : TRUE
  OBVIOUS
<1>0. top \in Nat /\ \A n \in C : n \in Nat
  BY <1>1
<1> DEFINE S == {n \in C : n <= top}
<1>2. S \subseteq 0..top /\ S # {}
  <2>1. top \in S
    BY <1>0, <1>1
  <2>2. \A n \in S : n \in 0..top
    BY <1>0
  <2> QED
    BY <2>1, <2>2
<1>3. IsFiniteSet(S)
  <2>1. IsFiniteSet(0..top)
    BY <1>0, FS_Interval
  <2> HIDE DEF S
  <2> QED
    BY <1>2, <2>1, FS_Subset
<1> DEFINE f == [n \in S |-> -n]
<1>4. \A n \in S : f[n] = -n /\ f[n] \in Int
  BY <1>0
<1>5. \E k \in S : \A n \in S : f[n] <= f[k]
  <2> HIDE DEF f, S
  <2> QED
    BY <1>2, <1>3, <1>4, FiniteMaximum
<1>6. PICK k \in S : \A n \in S : -n <= -k
  BY <1>4, <1>5
<1>7. \A n \in C : k <= n
  BY <1>0, <1>6
<1> QED
  BY <1>7

(***************************************************************************)
(* Functions that are defined by recursion.  The value at x follows from   *)
(* that at prev[x], which is at a lower level.                             *)
(***************************************************************************)

\* The recursion over D ends in done, after at most top steps.
Ends(D, level, top, done, prev) ==
  /\ top \in Nat /\ level \in [D -> 0..top] /\ prev \in [D -> D]
  /\ \A x \in D : x \notin done => level[prev[x]] < level[x]

\* Its values are in V.
HasValues(D, V, base, step) == base \in [D -> V] /\ step \in [D \X V -> V]

\* There is a function that satisfies the equation: one that satisfies it up to
\* a level gives one that does up to the next.
LEMMA Recursion ==
  ASSUME NEW D, NEW V, NEW top, NEW level, NEW done, NEW base, NEW prev, NEW step,
         Ends(D, level, top, done, prev), HasValues(D, V, base, step)
  PROVE  \E f \in [D -> V] :
           \A x \in D : f[x] = IF x \in done THEN base[x] ELSE step[<<x, f[prev[x]]>>]
<1> DEFINE Upto(f, n) == \A x \in D : level[x] <= n =>
                           f[x] = IF x \in done THEN base[x] ELSE step[<<x, f[prev[x]]>>]
           C == {n \in Nat : ~\E f \in [D -> V] : Upto(f, n)}
<1>0. /\ top \in Nat /\ level \in [D -> 0..top] /\ prev \in [D -> D]
      /\ \A x \in D : x \notin done => level[prev[x]] < level[x]
      /\ base \in [D -> V] /\ step \in [D \X V -> V]
  BY DEF Ends, HasValues
<1>1. \E f \in [D -> V] : Upto(f, top)
  <2> SUFFICES ASSUME C # {} PROVE FALSE
    BY <1>0
  <2>1. PICK n \in C : \A k \in C : n <= k
    <3> HIDE DEF C
    <3>1. C \subseteq Nat
      BY DEF C
    <3> QED
      BY <3>1, LeastNumber
  <2>2. CASE n = 0
    <3>1. Upto(base, 0)
      BY <1>0
    <3> QED
      BY <1>0, <2>1, <2>2, <3>1
  <2>3. CASE n # 0
    <3>1. n \in Nat /\ n - 1 \in Nat /\ ~(n <= n - 1)
      BY <2>1, <2>3
    <3>2. n - 1 \notin C
      BY <2>1, <3>1
    <3>3. PICK f \in [D -> V] : Upto(f, n - 1)
      BY <3>1, <3>2
    <3> DEFINE g == [x \in D |-> IF x \in done THEN base[x] ELSE step[<<x, f[prev[x]]>>]]
    <3>4. g \in [D -> V]
      BY <1>0
    <3>5. ASSUME NEW x \in D, level[x] <= n - 1 PROVE g[x] = f[x]
      BY <3>3, <3>5
    <3>6. ASSUME NEW x \in D, level[x] <= n, x \notin done PROVE g[prev[x]] = f[prev[x]]
      <4>1. level[prev[x]] <= n - 1 /\ prev[x] \in D
        BY <1>0, <3>1, <3>6
      <4> QED
        BY <3>5, <4>1
    <3>7. ASSUME NEW x \in D, level[x] <= n
          PROVE  g[x] = IF x \in done THEN base[x] ELSE step[<<x, g[prev[x]]>>]
      <4>1. CASE x \in done
        BY <4>1
      <4>2. CASE x \notin done
        <5>1. g[x] = step[<<x, f[prev[x]]>>]
          BY <4>2
        <5>2. g[prev[x]] = f[prev[x]]
          BY <3>6, <3>7, <4>2
        <5> QED
          BY <4>2, <5>1, <5>2
      <4> QED
        BY <4>1, <4>2
    <3> HIDE DEF g
    <3>8. Upto(g, n)
      BY <3>7
    <3> QED
      BY <2>1, <3>4, <3>8
  <2> QED
    BY <2>2, <2>3
<1>2. PICK f \in [D -> V] : Upto(f, top)
  BY <1>1
<1> QED
  BY <1>0, <1>2

\* What holds of the values where the recursion ends, and is kept by a step, holds
\* of every value.
LEMMA RecursionKeeps ==
  ASSUME NEW D, NEW level, NEW top, NEW done, NEW prev, Ends(D, level, top, done, prev),
         NEW Good, Good \subseteq D, NEW x \in D,
         \A y \in D : y \in done => y \in Good,
         \A y \in D : y \notin done /\ prev[y] \in Good => y \in Good
  PROVE  x \in Good
<1> SUFFICES ASSUME x \notin Good PROVE FALSE
  OBVIOUS
<1> DEFINE C == {level[y] : y \in D \ Good}
<1>0. /\ top \in Nat /\ level \in [D -> 0..top] /\ prev \in [D -> D]
      /\ \A y \in D : y \notin done => level[prev[y]] < level[y]
  BY DEF Ends
<1>1. C \subseteq Nat /\ C # {}
  BY <1>0
<1>2. PICK k \in C : \A n \in C : k <= n
  <2> HIDE DEF C
  <2> QED
    BY <1>1, LeastNumber
<1>3. PICK y \in D \ Good : k = level[y]
  BY <1>2
<1>4. y \notin done /\ level[prev[y]] < level[y] /\ prev[y] \in D
  BY <1>0, <1>3
<1>5. prev[y] \notin Good
  BY <1>3, <1>4
<1>6. level[prev[y]] \in C
  BY <1>4, <1>5
<1>7. level[y] <= level[prev[y]] /\ level[y] \in Nat /\ level[prev[y]] \in Nat
  BY <1>0, <1>2, <1>3, <1>4, <1>6
<1> QED
  BY <1>4, <1>7

(***************************************************************************)
(* Sorting.  R holds the pairs of an order that is total on S.             *)
(***************************************************************************)

\* A non-empty finite set has a last element.
LEMMA LastElement ==
  ASSUME NEW S, IsFiniteSet(S), S # {}, NEW R,
         \A x, y \in S : x # y => <<x, y>> \in R \/ <<y, x>> \in R,
         \A x, y, z \in S : <<x, y>> \in R /\ <<y, z>> \in R => <<x, z>> \in R
  PROVE  \E x \in S : \A y \in S \ {x} : <<y, x>> \in R
<1> DEFINE Has(T) == \E x \in T : \A y \in T \ {x} : <<y, x>> \in R
           C == {T \in SUBSET S : T # {} /\ ~Has(T)}
<1>0. SUFFICES ASSUME ~Has(S) PROVE FALSE
  OBVIOUS
<1>1. S \in C
  BY <1>0
<1>2. PICK T \in C : \A U \in C : U \subseteq T => U = T
  <2>1. C \subseteq SUBSET S /\ C # {}
    BY <1>1
  <2> HIDE DEF C
  <2> QED
    BY <2>1, SmallestSubset
<1>3. PICK x \in T : TRUE
  BY <1>2
<1>4. T \ {x} \notin C
  <2>1. T \ {x} \subseteq T /\ T \ {x} # T
    BY <1>3
  <2> HIDE DEF C
  <2> QED
    BY <1>2, <2>1
<1>5. CASE T = {x}
  BY <1>2, <1>5
<1>6. CASE T # {x}
  <2>1. PICK m \in T \ {x} : \A y \in (T \ {x}) \ {m} : <<y, m>> \in R
    BY <1>2, <1>3, <1>4, <1>6
  <2>2. T \in SUBSET S /\ ~Has(T)
    BY <1>2
  <2>3. CASE <<x, m>> \in R
    <3>1. \A y \in T \ {m} : <<y, m>> \in R
      BY <2>1, <2>3
    <3> QED
      BY <2>1, <2>2, <3>1
  <2>4. CASE <<m, x>> \in R
    <3>1. \A y \in T \ {x} : <<y, x>> \in R
      BY <1>3, <2>1, <2>2, <2>4
    <3> QED
      BY <1>3, <2>2, <3>1
  <2> QED
    BY <1>3, <2>1, <2>2, <2>3, <2>4
<1> QED
  BY <1>5, <1>6

\* A finite set can be sorted.
LEMMA Sortable ==
  ASSUME NEW S, IsFiniteSet(S), NEW R,
         \A x, y \in S : x # y => <<x, y>> \in R \/ <<y, x>> \in R,
         \A x, y, z \in S : <<x, y>> \in R /\ <<y, z>> \in R => <<x, z>> \in R
  PROVE  \E q \in [1..Cardinality(S) -> S] : \A i, j \in DOMAIN q : i < j => <<q[i], q[j]>> \in R
<1> DEFINE Has(T) == \E q \in [1..Cardinality(T) -> T] :
                       \A i, j \in DOMAIN q : i < j => <<q[i], q[j]>> \in R
           C == {T \in SUBSET S : ~Has(T)}
<1>0. SUFFICES ASSUME S \in C PROVE FALSE
  OBVIOUS
<1>2. PICK T \in C : \A U \in C : U \subseteq T => U = T
  <2>1. C \subseteq SUBSET S /\ C # {}
    BY <1>0
  <2> HIDE DEF C
  <2> QED
    BY <2>1, SmallestSubset
<1>3. T \in SUBSET S /\ ~Has(T) /\ IsFiniteSet(T)
  BY <1>2, FS_Subset
<1>4. T # {}
  <2> SUFFICES ASSUME T = {} PROVE FALSE
    OBVIOUS
  <2>1. 1..Cardinality(T) = {}
    BY FS_EmptySet
  <2> DEFINE q == [i \in 1..Cardinality(T) |-> i]
  <2>2. q \in [1..Cardinality(T) -> T] /\ DOMAIN q = {}
    BY <2>1
  <2> HIDE DEF q
  <2>3. Has(T)
    BY <2>2
  <2> QED
    BY <1>3, <2>3
<1>5. PICK m \in T : \A y \in T \ {m} : <<y, m>> \in R
  <2>1. /\ \A x, y \in T : x # y => <<x, y>> \in R \/ <<y, x>> \in R
        /\ \A x, y, z \in T : <<x, y>> \in R /\ <<y, z>> \in R => <<x, z>> \in R
    BY <1>3
  <2> QED
    BY <1>3, <1>4, <2>1, LastElement
<1> DEFINE U == T \ {m}
           n == Cardinality(T)
<1>6. Has(U)
  <2>1. U \notin C
    BY <1>2, <1>5
  <2>2. U \in SUBSET S
    BY <1>3
  <2> HIDE DEF U
  <2> QED
    BY <2>1, <2>2
<1>7. n \in Nat /\ Cardinality(U) = n - 1 /\ Cardinality(U) \in Nat
  BY <1>3, <1>5, FS_RemoveElement, FS_CardinalityType
<1> HIDE DEF n
<1>8. PICK q \in [1..(n-1) -> U] : \A i, j \in DOMAIN q : i < j => <<q[i], q[j]>> \in R
  BY <1>6, <1>7
<1> DEFINE p == [i \in 1..n |-> IF i = n THEN m ELSE q[i]]
<1>9. \A i \in 1..n : i # n => i \in 1..(n-1)
  BY <1>7
<1>10. p \in [1..n -> T]
  <2>1. ASSUME NEW i \in 1..n, i # n PROVE q[i] \in T
    BY <1>8, <1>9, <2>1
  <2> QED
    BY <1>5, <2>1
<1>11. ASSUME NEW i \in 1..n, NEW j \in 1..n, i < j PROVE <<p[i], p[j]>> \in R
  <2>1. i # n /\ i \in 1..(n-1)
    BY <1>7, <1>9, <1>11
  <2>2. p[i] = q[i] /\ q[i] \in U
    BY <1>8, <2>1
  <2>3. CASE j = n
    BY <1>5, <2>2, <2>3
  <2>4. CASE j # n
    BY <1>8, <1>9, <1>11, <2>1, <2>2, <2>4
  <2> QED
    BY <2>3, <2>4
<1> HIDE DEF p
<1>12. Has(T)
  <2>1. DOMAIN p = 1..n
    BY <1>10
  <2> QED
    BY <1>10, <1>11, <2>1 DEF n
<1> QED
  BY <1>3, <1>12

\* Sorted by a strict order, it is all there.
LEMMA SortedHasAll ==
  ASSUME NEW S, IsFiniteSet(S), NEW q \in [1..Cardinality(S) -> S],
         \A i, j \in 1..Cardinality(S) : i < j => q[i] # q[j]
  PROVE  \A x \in S : \E i \in 1..Cardinality(S) : q[i] = x
<1> DEFINE n == Cardinality(S)
<1>1. n \in Nat
  BY FS_CardinalityType
<1>2. IsFiniteSet(1..n) /\ Cardinality(1..n) = n
  BY <1>1, FS_Interval
<1>3. \A i, j \in 1..n : q[i] = q[j] => i = j
  BY <1>1
<1>4. q \in Injection(1..n, S)
  BY <1>3 DEF Injection, IsInjective
<1>5. q \in Surjection(1..n, S)
  <2> HIDE DEF n
  <2>1. Cardinality(1..n) = Cardinality(S)
    BY <1>2 DEF n
  <2> QED
    BY <1>2, <1>4, <2>1, FS_Injection
<1> QED
  BY <1>5 DEF Surjection
=============================================================================
