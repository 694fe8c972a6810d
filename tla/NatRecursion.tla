----------------------------- MODULE NatRecursion -----------------------------
(***************************************************************************)
(* Facts about numbers and functions the proofs need: induction over a set *)
(* of natural numbers, and functions that are defined by recursion over an *)
(* interval.  They are stated with sets and functions in the place of      *)
(* operators, so that they can be cited.                                   *)
(***************************************************************************)
EXTENDS Integers, WellFoundedInduction, TLAPS

\* A set of natural numbers that is not empty has a least element.
LEMMA LeastNat ==
    ASSUME NEW T \in SUBSET Nat, T # {}
    PROVE  \E x \in T : \A y \in T : x <= y
<1> DEFINE R == OpToRel(<, Nat)
<1>1. IsWellFoundedOn(R, Nat)
  BY NatLessThanWellFounded
<1>2. \A x, y \in Nat : x < y => <<x, y>> \in R
  BY DEF OpToRel
<1> HIDE DEF R
<1>3. PICK x \in T : \A y \in T : <<y, x>> \notin R
  BY <1>1, WFMin
<1>4. \A y \in T : ~ (y < x)
  BY <1>2, <1>3
<1>q. QED
  BY <1>4

\* One that has a bound has a greatest.
LEMMA GreatestNat ==
    ASSUME NEW n \in Nat, NEW T \in SUBSET (0..n), T # {}
    PROVE  \E x \in T : \A y \in T : y <= x
<1> DEFINE U == {i \in 0..n : n - i \in T}
<1>1. U \in SUBSET Nat
  OBVIOUS
<1>2. \A y \in T : n - y \in U
  OBVIOUS
<1> HIDE DEF U
<1>3. U # {}
  BY <1>2
<1>4. PICK i \in U : \A j \in U : i <= j
  BY <1>1, <1>3, LeastNat
<1>5. n - i \in T
  BY <1>4 DEF U
<1>6. \A y \in T : y <= n - i
  BY <1>1, <1>2, <1>4
<1>q. QED
  BY <1>5, <1>6

\* Induction up to a bound: what holds of 0, and with a number of the next one, holds
\* of every number up to the bound.
LEMMA SetInduction ==
    ASSUME NEW n \in Nat, NEW T,
           0 \in T, \A i \in 1..n : i - 1 \in T => i \in T
    PROVE  \A i \in 0..n : i \in T
<1> DEFINE Bad == {i \in 0..n : i \notin T}
<1>1. SUFFICES ASSUME Bad # {} PROVE FALSE
  OBVIOUS
<1>2. Bad \in SUBSET Nat
  OBVIOUS
<1>3. PICK i \in Bad : \A j \in Bad : i <= j
  <2> HIDE DEF Bad
  <2>q. QED
    BY <1>1, <1>2, LeastNat
<1>4. i \in 1..n
  BY <1>3
<1>5. i - 1 \in 0..n /\ i - 1 \notin Bad
  BY <1>3, <1>4
<1>6. i - 1 \in T
  BY <1>5
<1>q. QED
  BY <1>3, <1>4, <1>6

\* A function whose value at i is a step from its value at i - 1.
Recursion(f, S, start, n, step) ==
    /\ f \in [0..n -> S]
    /\ f[0] = start
    /\ \A i \in 1..n : f[i] = step[<<f[i - 1], i>>]

\* A step from values and indices to values, taken n times, gives such a function.
LEMMA RecursionExists ==
    ASSUME NEW S, NEW start \in S, NEW n \in Nat, NEW step \in [S \X (1..n) -> S]
    PROVE  \E f : Recursion(f, S, start, n, step)
<1> DEFINE Goes(f, k) ==
        f[0] = start /\ \A i \in 1..k : f[i] = step[<<f[i - 1], i>>]
<1> DEFINE T == {k \in 0..n : \E f \in [0..k -> S] : Goes(f, k)}
<1>1. 0 \in T
  <2> DEFINE f == [i \in 0..0 |-> start]
  <2>1. f \in [0..0 -> S] /\ Goes(f, 0)
    OBVIOUS
  <2> HIDE DEF f
  <2>2. \E g \in [0..0 -> S] : Goes(g, 0)
    BY <2>1
  <2>3. 0 \in 0..n
    OBVIOUS
  <2> HIDE DEF Goes
  <2>q. QED
    BY <2>2, <2>3
<1>2. ASSUME NEW k \in 1..n, k - 1 \in T PROVE k \in T
  <2>1. PICK g \in [0..(k - 1) -> S] : Goes(g, k - 1)
    BY <1>2
  <2>2. /\ k \in Nat /\ k # 0 /\ k - 1 \in 0..(k - 1) /\ <<g[k - 1], k>> \in S \X (1..n)
        /\ 0 \in 0..(k - 1)
    BY <1>2
  <2> DEFINE f == [i \in 0..k |-> IF i = k THEN step[<<g[k - 1], k>>] ELSE g[i]]
  <2>3. f \in [0..k -> S]
    BY <2>2
  <2>4. f[0] = start
    BY <2>1, <2>2
  <2>5. ASSUME NEW i \in 1..k PROVE f[i] = step[<<f[i - 1], i>>]
    <3>1. CASE i = k
      BY <2>2, <3>1
    <3>2. CASE i # k
      <4>1. i \in 1..(k - 1) /\ i - 1 \in 0..(k - 1) /\ i - 1 # k /\ i \in 0..k
        BY <2>2, <3>2
      <4>2. f[i] = g[i] /\ f[i - 1] = g[i - 1]
        BY <2>2, <3>2, <4>1
      <4>q. QED
        BY <2>1, <4>1, <4>2
    <3>q. QED
      BY <3>1, <3>2
  <2>6. Goes(f, k)
    BY <2>4, <2>5
  <2> HIDE DEF f
  <2>q. QED
    BY <1>2, <2>3, <2>6
<1>3. n \in T
  <2> HIDE DEF T
  <2>q. QED
    BY <1>1, <1>2, SetInduction
<1>q. QED
  BY <1>3 DEF Recursion
=============================================================================
