--------------------------- MODULE BoundedInduction ---------------------------
(***************************************************************************)
(* Induction over the numbers up to a bound, with a set in place of a      *)
(* predicate.                                                              *)
(***************************************************************************)
EXTENDS Integers, WellFoundedInduction, TLAPS

\* A set of numbers that is not empty has a least one.
LEMMA LeastNumber ==
    ASSUME NEW T, T \subseteq Nat, T # {}
    PROVE  \E x \in T : \A y \in T : x <= y
<1> DEFINE R == OpToRel(<, Nat)
<1>1. IsWellFoundedOn(R, Nat)
  BY NatLessThanWellFounded
<1>2. \A x, y \in Nat : <<x, y>> \in R <=> x < y
  BY DEF OpToRel
<1> HIDE DEF R
<1>3. PICK x \in T : \A y \in T : ~(<<y, x>> \in R)
  BY <1>1, WFMin
<1>4. \A y \in T : y \in Nat /\ x \in Nat /\ ~(y < x)
  BY <1>2, <1>3
<1> QED
  BY <1>4

\* A set that has 0 and goes on up to n has n.
LEMMA InductionUpTo ==
    ASSUME NEW S, NEW n \in Nat, 0 \in S, \A m \in 0..(n - 1) : m \in S => m + 1 \in S
    PROVE  n \in S
<1> DEFINE T == {m \in 0..n : m \notin S}
<1>1. CASE T = {}
  BY <1>1
<1>2. CASE T # {}
  <2>1. T \subseteq Nat
    OBVIOUS
  <2> HIDE DEF T
  <2>2. PICK m \in T : \A y \in T : m <= y
    BY <1>2, <2>1, LeastNumber
  <2> USE DEF T
  <2>3. m \in 0..n /\ m # 0 /\ m \notin S
    BY <2>2
  <2>4. m - 1 \in 0..(n - 1) /\ (m - 1) + 1 = m
    BY <2>3
  <2>5. m - 1 \notin S
    BY <2>3, <2>4
  <2>6. m - 1 \in T
    BY <2>4, <2>5
  <2>7. m <= m - 1
    BY <2>2, <2>6
  <2> QED
    BY <2>3, <2>7
<1> QED
  BY <1>1, <1>2

\* A step that can always be taken can be taken n times.
LEMMA Iteration ==
    ASSUME NEW X, NEW x \in X, NEW n \in Nat, NEW step \in [1..n -> [X -> X]]
    PROVE  \E f \in [0..n -> X] : f[0] = x /\ \A i \in 1..n : f[i] = step[i][f[i - 1]]
<1> DEFINE Is(f, m) == f[0] = x /\ \A i \in 1..m : f[i] = step[i][f[i - 1]]
           S == {m \in 0..n : \E f \in [0..m -> X] : Is(f, m)}
<1>1. 0 \in S
  <2>1. [i \in 0..0 |-> x] \in [0..0 -> X] /\ Is([i \in 0..0 |-> x], 0)
    OBVIOUS
  <2> HIDE DEF Is
  <2> QED
    BY <2>1
<1>2. ASSUME NEW m \in 0..(n - 1), m \in S PROVE m + 1 \in S
  <2>1. PICK f \in [0..m -> X] : Is(f, m)
    BY <1>2
  <2> DEFINE y == step[m + 1][f[m]]
             g == [i \in 0..(m + 1) |-> IF i = m + 1 THEN y ELSE f[i]]
  <2>2. m \in Nat /\ m + 1 \in 1..n /\ m + 1 \in 0..n /\ f[m] \in X
    OBVIOUS
  <2>3. y \in X
    BY <2>2
  <2> HIDE DEF y
  <2>4. g \in [0..(m + 1) -> X]
    BY <2>2, <2>3
  <2>5. g[0] = x
    BY <2>1, <2>2
  <2>6. ASSUME NEW i \in 1..(m + 1) PROVE g[i] = step[i][g[i - 1]]
    <3>1. CASE i = m + 1
      <4>1. i - 1 = m /\ m \in 0..(m + 1) /\ m # m + 1 /\ i \in 0..(m + 1)
        BY <2>2, <3>1
      <4> QED
        BY <3>1, <4>1 DEF y
    <3>2. CASE i # m + 1
      <4>1. i \in 1..m /\ i - 1 \in 0..(m + 1) /\ i - 1 # m + 1 /\ i \in 0..(m + 1)
        BY <2>2, <3>2
      <4> QED
        BY <2>1, <3>2, <4>1
    <3> QED
      BY <3>1, <3>2
  <2> HIDE DEF g
  <2>7. Is(g, m + 1)
    BY <2>5, <2>6
  <2> HIDE DEF Is
  <2> QED
    BY <2>2, <2>4, <2>7
<1>3. n \in S
  <2> HIDE DEF S
  <2> QED
    BY <1>1, <1>2, InductionUpTo
<1> QED
  BY <1>3

=============================================================================
