----------------------------- MODULE Recursion -----------------------------
(***************************************************************************)
(* Induction and recursion over the natural numbers, stated for sets and   *)
(* functions so that the provers can instantiate them: the loops of the    *)
(* code that walk a list, a path or a page directory are functions defined *)
(* by recursion.                                                           *)
(***************************************************************************)
EXTENDS Integers, WellFoundedInduction, TLAPS

(***************************************************************************)
(* A nonempty set of naturals has a least element.                         *)
(***************************************************************************)
LEMMA NatMin ==
    ASSUME NEW T, T \subseteq Nat, T # {}
    PROVE  \E m \in T : \A k \in T : m <= k
<1> DEFINE R == OpToRel(<, Nat)
<1>1. IsWellFoundedOn(R, Nat)
  BY NatLessThanWellFounded
<1>2. \A x, y \in Nat : x < y => <<x, y>> \in R
  BY DEF OpToRel
<1> HIDE DEF R
<1>3. PICK m \in T : \A k \in T : ~ (<<k, m>> \in R)
  BY <1>1, WFMin
<1>4. ASSUME NEW k \in T PROVE m <= k
  <2>1. k \in Nat /\ m \in Nat
    OBVIOUS
  <2>2. ~ (k < m)
    BY <1>2, <1>3, <2>1, Zenon
  <2> QED BY <2>1, <2>2
<1> QED BY <1>3, <1>4

(***************************************************************************)
(* A set that holds the first number of an interval, and with a number the *)
(* next, holds the interval.                                               *)
(***************************************************************************)
LEMMA IntervalInduction ==
    ASSUME NEW a \in Nat, NEW b \in Nat, NEW T, a \in T,
           \A i \in a .. b : i < b /\ i \in T => i + 1 \in T, a <= b
    PROVE  \A i \in a .. b : i \in T
<1> DEFINE U == (a .. b) \ T
<1> SUFFICES ASSUME U # {} PROVE FALSE
  OBVIOUS
<1>1. U \subseteq Nat
  OBVIOUS
<1> HIDE DEF U
<1>2. PICK m \in U : \A k \in U : m <= k
  BY <1>1, NatMin
<1>3. m \in a .. b /\ m \notin T /\ m # a
  BY DEF U
<1>4. m - 1 \in a .. b /\ m - 1 < b /\ m - 1 \notin U
  BY <1>1, <1>2, <1>3
<1>5. m - 1 \in T
  BY <1>4 DEF U
<1> QED BY <1>3, <1>4, <1>5

(***************************************************************************)
(* Iterating a step function f from a, n times.                            *)
(***************************************************************************)
LEMMA PrimitiveRecursion ==
    ASSUME NEW S, NEW a \in S, NEW n \in Nat, NEW f \in [1 .. n -> [S -> S]]
    PROVE  \E g \in [0 .. n -> S] :
              g[0] = a /\ \A i \in 1 .. n : g[i] = f[i][g[i-1]]
<1> DEFINE Iterates(m, g) ==
             g \in [0 .. m -> S] /\ g[0] = a /\ \A i \in 1 .. m : g[i] = f[i][g[i-1]]
           T == {m \in 0 .. n : \E g \in [0 .. m -> S] : Iterates(m, g)}
<1>1. 0 \in T
  <2> DEFINE g == [i \in 0 .. 0 |-> a]
  <2>1. Iterates(0, g)
    OBVIOUS
  <2>2. 0 \in 0 .. n /\ g \in [0 .. 0 -> S]
    OBVIOUS
  <2> HIDE DEF Iterates, g
  <2> QED BY <2>1, <2>2
<1>2. ASSUME NEW m \in 0 .. n, m < n, m \in T PROVE m + 1 \in T
  <2>1. PICK g \in [0 .. m -> S] : Iterates(m, g)
    BY <1>2
  <2> DEFINE h == [i \in 0 .. m + 1 |-> IF i = m + 1 THEN f[m + 1][g[m]] ELSE g[i]]
  <2>2. m + 1 \in 1 .. n /\ m \in 0 .. m
    BY <1>2
  <2>3. f[m + 1][g[m]] \in S
    BY <2>2
  <2>4. h \in [0 .. m + 1 -> S]
    BY <2>3
  <2>5. h[0] = a
    BY <2>1, <2>2
  <2>6. ASSUME NEW i \in 1 .. m + 1 PROVE h[i] = f[i][h[i-1]]
    <3>1. CASE i = m + 1
      <4>1. h[i] = f[m + 1][g[m]] /\ i - 1 = m /\ m \in 0 .. m + 1 /\ m # m + 1
        BY <3>1, <2>2
      <4>2. h[m] = g[m]
        BY <4>1
      <4> QED BY <3>1, <4>1, <4>2
    <3>2. CASE i # m + 1
      <4>1. i \in 1 .. m /\ i - 1 \in 0 .. m + 1 /\ i \in 0 .. m + 1 /\ i - 1 # m + 1
        BY <3>2, <2>2
      <4>2. h[i] = g[i] /\ h[i-1] = g[i-1]
        BY <3>2, <4>1
      <4> QED BY <2>1, <4>1, <4>2
    <3> QED BY <3>1, <3>2
  <2>7. Iterates(m + 1, h)
    <3> HIDE DEF h
    <3> QED BY <2>4, <2>5, <2>6
  <2>8. m + 1 \in 0 .. n
    BY <2>2
  <2> HIDE DEF Iterates, h
  <2> QED BY <2>4, <2>7, <2>8
<1> HIDE DEF T
<1>3. \A i \in 0 .. n : i \in T
  <2>1. 0 \in Nat /\ 0 <= n
    OBVIOUS
  <2> QED BY <1>1, <1>2, <2>1, IntervalInduction
<1>4. n \in T
  BY <1>3
<1> QED BY <1>4 DEF T
=============================================================================
