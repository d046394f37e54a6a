---------------------------- MODULE NatRecursion ----------------------------
(***************************************************************************)
(* Induction over the naturals, and functions defined by recursion on them, *)
(* stated about sets: what is to hold of every number is a set of numbers   *)
(* here, and what a recursive definition computes is a function.  The       *)
(* component modules define their loops over lists by such functions.       *)
(***************************************************************************)
EXTENDS Integers, WellFoundedInduction, TLAPS

\* The strict order of the naturals.
Below == {pair \in Nat \X Nat : pair[1] < pair[2]}

\* It is well founded: the library's fact about <, with the order as a set.
LEMMA BelowIsWellFounded == IsWellFoundedOn(Below, Nat)
BY NatLessThanWellFounded DEF OpToRel, Below

\* Every set of naturals that is not empty has a least element.
LEMMA LeastNat ==
  ASSUME NEW T, T \subseteq Nat, T # {}
  PROVE  \E x \in T : \A y \in T : x <= y
<1>1. PICK x \in T : \A y \in T : ~ (<<y, x>> \in Below)
  BY BelowIsWellFounded, WFMin
<1>2. \A y \in T : ~ (y < x)
  BY <1>1 DEF Below
<1> QED
  BY <1>2

\* Induction: a set that holds 0, and with a number the next one, holds all.
LEMMA InductionOnNat ==
  ASSUME NEW T, 0 \in T, \A i \in Nat : i \in T => i + 1 \in T
  PROVE  Nat \subseteq T
<1>1. SUFFICES ASSUME Nat \ T # {}
               PROVE  FALSE
  OBVIOUS
<1>2. PICK x \in Nat \ T : \A y \in Nat \ T : x <= y
  BY <1>1, LeastNat
<1>3. x # 0 /\ x - 1 \in Nat
  BY <1>2
<1>4. x - 1 \in T
  BY <1>2, <1>3
<1>5. (x - 1) + 1 = x
  BY <1>2
<1> QED
  BY <1>2, <1>3, <1>4, <1>5

\* The same from 0 to n: what holds of 0, and with i - 1 of i, holds of n.
LEMMA InductionUpTo ==
  ASSUME NEW n \in Nat, NEW T, 0 \in T, \A i \in 1..n : i - 1 \in T => i \in T
  PROVE  0..n \subseteq T
<1> DEFINE U == {i \in Nat : i <= n => i \in T}
<1>1. 0 \in U
  OBVIOUS
<1>2. ASSUME NEW i \in Nat, i \in U
      PROVE  i + 1 \in U
  <2>1. (i + 1) - 1 = i /\ (i + 1 <= n => i + 1 \in 1..n)
    OBVIOUS
  <2> QED
    BY <1>2, <2>1
<1>3. Nat \subseteq U
  <2> HIDE DEF U
  <2> QED
    BY <1>1, <1>2, InductionOnNat
<1> QED
  BY <1>3

\* The recursion equation of a function on 0..n.
FollowsStep(f, base, step, n) ==
  f = [i \in 0..n |-> IF i = 0 THEN base ELSE step[<<i, f[i - 1]>>]]

\* Recursion: a start and a step determine a function on 0..n.
LEMMA RecursionOnNat ==
  ASSUME NEW S, NEW base \in S, NEW step \in [Nat \X S -> S], NEW n \in Nat
  PROVE  \E f \in [0..n -> S] : FollowsStep(f, base, step, n)
<1> DEFINE T == {k \in Nat : \E f \in [0..k -> S] : FollowsStep(f, base, step, k)}
<1>1. 0 \in T
  <2> DEFINE f == [i \in 0..0 |-> base]
  <2>1. f \in [0..0 -> S]
    OBVIOUS
  <2>2. FollowsStep(f, base, step, 0)
    BY DEF FollowsStep
  <2> QED
    BY <2>1, <2>2
<1>2. ASSUME NEW k \in Nat, k \in T
      PROVE  k + 1 \in T
  <2>1. PICK f \in [0..k -> S] : FollowsStep(f, base, step, k)
    BY <1>2
  <2>2. f = [i \in 0..k |-> IF i = 0 THEN base ELSE step[<<i, f[i - 1]>>]]
    BY <2>1 DEF FollowsStep
  <2> DEFINE g == [i \in 0..(k + 1) |-> IF i = k + 1 THEN step[<<k + 1, f[k]>>] ELSE f[i]]
  <2>3. step[<<k + 1, f[k]>>] \in S
    <3>1. f[k] \in S
      BY <2>1
    <3> QED
      BY <3>1
  <2>4. g \in [0..(k + 1) -> S]
    BY <2>1, <2>3
  <2>5. g[0] = base
    BY <2>2
  <2>6. ASSUME NEW i \in 1..(k + 1)
        PROVE  g[i] = step[<<i, g[i - 1]>>]
    <3>1. i - 1 \in 0..k /\ i - 1 # k + 1 /\ i - 1 \in 0..(k + 1)
      OBVIOUS
    <3>2. g[i - 1] = f[i - 1]
      BY <3>1
    <3>3. CASE i = k + 1
      <4>1. i - 1 = k
        BY <3>3
      <4>2. g[i] = step[<<k + 1, f[k]>>]
        BY <3>3
      <4> HIDE DEF g
      <4> QED
        BY <3>2, <3>3, <4>1, <4>2
    <3>4. CASE i # k + 1
      <4>1. i \in 0..k /\ i # 0 /\ g[i] = f[i]
        BY <3>4
      <4>2. f[i] = step[<<i, f[i - 1]>>]
        BY <2>2, <4>1
      <4> QED
        BY <3>2, <4>1, <4>2
    <3> QED
      BY <3>3, <3>4
  <2>7. FollowsStep(g, base, step, k + 1)
    <3> HIDE DEF g
    <3>1. \A i \in 0..(k + 1) : g[i] = IF i = 0 THEN base ELSE step[<<i, g[i - 1]>>]
      BY <2>5, <2>6
    <3> QED
      BY <2>4, <3>1 DEF FollowsStep
  <2> QED
    BY <2>4, <2>7
<1>3. Nat \subseteq T
  <2> HIDE DEF T
  <2> QED
    BY <1>1, <1>2, InductionOnNat
<1> QED
  BY <1>3
=============================================================================
