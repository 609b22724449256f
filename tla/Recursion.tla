------------------------------ MODULE Recursion ------------------------------
(***************************************************************************)
(* Induction over the natural numbers by sets instead of predicates, and   *)
(* the existence of the recursive functions on 0..n that sums, values and  *)
(* positions in the other modules are defined by.                          *)
(***************************************************************************)
EXTENDS Integers, WellFoundedInduction, TLAPS

(* The order of the natural numbers is well founded.                       *)
LEMMA Below == IsWellFoundedOn({ss \in Nat \X Nat : ss[1] < ss[2]}, Nat)
  BY NatLessThanWellFounded DEF OpToRel

(* A set of natural numbers with an element has a least one.               *)
LEMMA Least ==
  ASSUME NEW T \in SUBSET Nat, T # {}
  PROVE  \E n \in T : \A m \in T : n <= m
<1> DEFINE R == {ss \in Nat \X Nat : ss[1] < ss[2]}
<1>1. IsWellFoundedOn(R, Nat)
  BY Below
<1> HIDE DEF R
<1>2. PICK n \in T : \A m \in T : ~(<<m, n>> \in R)
  BY <1>1, WFMin, Zenon
<1>3. \A m \in T : ~(m < n)
  BY <1>2 DEF R
<1> QED
  BY <1>3

(* A set that has 0 and the successor of each of its elements has every    *)
(* natural number.                                                         *)
LEMMA Inductive ==
  ASSUME NEW T, 0 \in T, \A n \in Nat : n \in T => n + 1 \in T
  PROVE  \A n \in Nat : n \in T
<1> DEFINE Rest == {n \in Nat : n \notin T}
<1> SUFFICES ASSUME Rest # {} PROVE FALSE
  OBVIOUS
<1>1. PICK n \in Rest : \A m \in Rest : n <= m
  BY Least
<1>2. n # 0 /\ n - 1 \in Nat /\ n - 1 \notin Rest
  BY <1>1
<1> QED
  BY <1>1, <1>2

(* The same up to a bound.                                                 *)
LEMMA InductiveUpTo ==
  ASSUME NEW n \in Nat, NEW T, 0 \in T,
         \A i \in 1..n : i - 1 \in T => i \in T
  PROVE  \A i \in 0..n : i \in T
<1> DEFINE U == {i \in Nat : i \in 0..n => i \in T}
<1>1. 0 \in U
  OBVIOUS
<1>2. ASSUME NEW i \in Nat, i \in U PROVE i + 1 \in U
  <2> SUFFICES ASSUME i + 1 \in 0..n PROVE i + 1 \in T
    OBVIOUS
  <2>1. i \in T /\ i + 1 \in 1..n /\ (i + 1) - 1 = i
    BY <1>2
  <2> QED
    BY <2>1
<1> HIDE DEF U
<1>3. \A i \in Nat : i \in U
  BY <1>1, <1>2, Inductive
<1> QED
  BY <1>3 DEF U

(* f is the function on 0..n that the base and the step define.            *)
Computes(f, n, base, step) ==
  f[0] = base /\ \A i \in 1..n : f[i] = step[<<i, f[i - 1]>>]

(* There is one for every base and step.                                   *)
LEMMA Recursive ==
  ASSUME NEW n \in Nat, NEW S, NEW base \in S, NEW step \in [(1..n) \X S -> S]
  PROVE  \E f \in [0..n -> S] : Computes(f, n, base, step)
<1> DEFINE Obeys(f, k) ==
             f[0] = base /\ \A i \in 1..k : f[i] = step[<<i, f[i - 1]>>]
           T == {k \in 0..n : \E f \in [0..k -> S] : Obeys(f, k)}
<1>1. 0 \in T
  <2> DEFINE f == [i \in 0..0 |-> base]
  <2>1. f \in [0..0 -> S] /\ Obeys(f, 0)
    OBVIOUS
  <2> HIDE DEF f, Obeys
  <2>2. \E h \in [0..0 -> S] : Obeys(h, 0)
    BY <2>1
  <2> QED
    BY <2>2
<1>2. ASSUME NEW k \in 1..n, k - 1 \in T PROVE k \in T
  <2>1. PICK g \in [0..(k - 1) -> S] : Obeys(g, k - 1)
    BY <1>2
  <2> DEFINE f == [i \in 0..k |-> IF i = k THEN step[<<k, g[k - 1]>>] ELSE g[i]]
  <2>2. step[<<k, g[k - 1]>>] \in S
    OBVIOUS
  <2>3. f \in [0..k -> S]
    BY <2>2
  <2>4. f[k] = step[<<k, g[k - 1]>>] /\ \A i \in 0..(k - 1) : f[i] = g[i]
    OBVIOUS
  <2> HIDE DEF f
  <2>5. f[0] = base
    BY <2>1, <2>4
  <2>6. ASSUME NEW i \in 1..k PROVE f[i] = step[<<i, f[i - 1]>>]
    <3>1. CASE i = k
      BY <2>4, <3>1
    <3>2. CASE i # k
      <4>1. i \in 1..(k - 1) /\ i - 1 \in 0..(k - 1)
        BY <3>2
      <4> QED
        BY <2>1, <2>4, <4>1
    <3> QED
      BY <3>1, <3>2
  <2>7. Obeys(f, k)
    BY <2>5, <2>6
  <2> HIDE DEF Obeys
  <2>8. \E h \in [0..k -> S] : Obeys(h, k)
    BY <2>3, <2>7
  <2> QED
    BY <2>8
<1> HIDE DEF T
<1>3. n \in T
  BY <1>1, <1>2, InductiveUpTo
<1> QED
  BY <1>3 DEF T, Computes
=============================================================================
