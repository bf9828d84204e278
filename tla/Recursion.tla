----------------------------- MODULE Recursion -----------------------------
(* What the proofs about recursive functions need: that they are defined, and *)
(* that of the arguments for which a claim fails there is a least one.        *)
EXTENDS Integers, FiniteSetTheorems, TLAPS

\* A set of numbers up to n that is not empty has a least one.
LEMMA LeastOf ==
  ASSUME NEW n \in Nat, NEW T \in SUBSET (0..n), T # {}
  PROVE  \E x \in T : \A y \in 0..x - 1 : y \notin T
<1> DEFINE W == {0..k : k \in T}
<1>1. IsFiniteSet(0..n)
  BY FS_Interval
<1>2. FiniteSubsetsOf(0..n) = SUBSET (0..n)
  BY <1>1, FS_FiniteSubsetsOfFinite
<1>3. IsWellFoundedOn(StrictSubsetOrdering(0..n), SUBSET (0..n))
  BY <1>2, FS_StrictSubsetOrderingWellFounded
<1>4. W \subseteq SUBSET (0..n) /\ W # {}
  <2>1. \A k \in T : 0..k \in SUBSET (0..n)
    OBVIOUS
  <2>2. PICK k \in T : TRUE
    OBVIOUS
  <2>3. 0..k \in W
    OBVIOUS
  <2>4. \A u \in W : u \in SUBSET (0..n)
    BY <2>1
  <2> HIDE DEF W
  <2> QED BY <2>3, <2>4
<1>5. PICK w \in W : \A u \in W : ~(<<u, w>> \in StrictSubsetOrdering(0..n))
  <2> HIDE DEF W
  <2> QED BY <1>3, <1>4, WFMin
<1>6. PICK x \in T : w = 0..x
  OBVIOUS
<1>7. ASSUME NEW y \in 0..x - 1, y \in T PROVE FALSE
  <2>1. 0..y \in W /\ 0..y \in SUBSET (0..n) /\ w \in SUBSET (0..n)
    BY <1>4, <1>7
  <2>2. 0..y \subseteq w /\ 0..y # w
    <3>1. x \in 0..x /\ x \notin 0..y
      BY <1>7
    <3> QED BY <1>6, <1>7, <3>1
  <2> QED BY <1>5, <2>1, <2>2 DEF StrictSubsetOrdering
<1> QED BY <1>7

\* Induction up to n: a set that holds 0, and each number after one that it holds.
LEMMA EachUpTo ==
  ASSUME NEW n \in Nat, NEW S, 0 \in S, \A i \in 1..n : i - 1 \in S => i \in S
  PROVE  \A i \in 0..n : i \in S
<1> DEFINE T == {i \in 0..n : i \notin S}
<1> SUFFICES ASSUME T # {} PROVE FALSE
  OBVIOUS
<1>1. T \in SUBSET (0..n)
  OBVIOUS
<1> HIDE DEF T
<1>2. PICK i \in T : \A j \in 0..i - 1 : j \notin T
  BY <1>1, LeastOf
<1>3. i \in 0..n /\ i \notin S
  BY DEF T
<1>4. i # 0
  BY <1>3
<1>5. i \in 1..n /\ i - 1 \in 0..n /\ i - 1 \in 0..i - 1
  BY <1>3, <1>4
<1>6. i - 1 \in S
  BY <1>2, <1>5 DEF T
<1> QED BY <1>3, <1>5, <1>6

\* g is v at 0, and at i what F makes of it at i - 1.
Iterates(g, n, v, F) == g[0] = v /\ \A i \in 1..n : g[i] = F[i][g[i - 1]]

\* What is defined from 0 up to n by recursion is defined.
LEMMA Recursion ==
  ASSUME NEW n \in Nat, NEW V, NEW v \in V, NEW F \in [1..n -> [V -> V]]
  PROVE  \E g \in [0..n -> V] : Iterates(g, n, v, F)
<1> DEFINE Good(k, g) == g[0] = v /\ \A i \in 1..k : g[i] = F[i][g[i - 1]]
           T == {k \in 0..n : ~\E g \in [0..k -> V] : Good(k, g)}
<1>0. n \in 0..n
  OBVIOUS
<1> SUFFICES ASSUME T # {} PROVE FALSE
  <2> HIDE DEF Good
  <2>1. n \notin T => \E g \in [0..n -> V] : Good(n, g)
    BY <1>0
  <2> QED BY <2>1 DEF Good, Iterates
<1>1. T \in SUBSET (0..n)
  OBVIOUS
<1> HIDE DEF T
<1>2. PICK k \in T : \A j \in 0..k - 1 : j \notin T
  BY <1>1, LeastOf
<1>3. k \in 0..n /\ ~\E g \in [0..k -> V] : Good(k, g)
  BY DEF T
<1>4. k # 0
  <2> SUFFICES ASSUME k = 0 PROVE FALSE OBVIOUS
  <2> DEFINE g == [i \in 0..k |-> v]
  <2>1. g \in [0..k -> V] /\ g[0] = v
    OBVIOUS
  <2> HIDE DEF g
  <2>2. \A i \in 1..k : FALSE
    OBVIOUS
  <2>3. Good(k, g)
    BY <2>1, <2>2
  <2> HIDE DEF Good
  <2> QED BY <1>3, <2>1, <2>3
<1>5. PICK g \in [0..k - 1 -> V] : Good(k - 1, g)
  <2>1. k - 1 \in 0..k - 1 /\ k - 1 \in 0..n
    BY <1>3, <1>4
  <2> HIDE DEF Good
  <2> QED BY <1>2, <2>1 DEF T
<1> DEFINE h == [i \in 0..k |-> IF i = k THEN F[k][g[k - 1]] ELSE g[i]]
<1>6. F[k][g[k - 1]] \in V
  <2>1. F[k] \in [V -> V] /\ g[k - 1] \in V
    BY <1>3, <1>4
  <2> QED BY <2>1
<1>7. h \in [0..k -> V]
  BY <1>3, <1>4, <1>6
<1>8. Good(k, h)
  BY <1>3, <1>4, <1>5
<1> HIDE DEF h, Good
<1> QED BY <1>3, <1>7, <1>8
=============================================================================
