----------------------------- MODULE LoopLemmas -----------------------------
(***************************************************************************)
(* What the proofs need of a loop in the code that carries a value along a *)
(* sequence and is written as a recursive function over its index: that    *)
(* the function exists, and induction over the index. The induction is     *)
(* over sets, from the least number principle.                             *)
(***************************************************************************)
EXTENDS Integers, Sequences, WellFoundedInduction, TLAPS

\* A set of natural numbers that is not empty has a least member.
LEMMA LeastNat ==
  ASSUME NEW T, T \subseteq Nat, T # {}
  PROVE  \E n \in T : \A m \in T : n <= m
<1> DEFINE R == OpToRel(<, Nat)
<1>1. IsWellFoundedOn(R, Nat)
  BY NatLessThanWellFounded
<1>2. \A x, y \in Nat : x < y => <<x, y>> \in R
  BY Zenon DEF OpToRel
<1> HIDE DEF R
<1>3. PICK n \in T : \A m \in T : ~ (<<m, n>> \in R)
  BY <1>1, WFMin
<1>4. \A m \in T : ~(m < n)
  BY <1>2, <1>3
<1>5. QED
  BY <1>4

\* Induction up to a bound: a set of indexes that holds 0, and with an index
\* below the bound the next, holds all.
LEMMA IndexInduction ==
  ASSUME NEW n \in Nat, NEW I, I \subseteq 0 .. n, 0 \in I,
         \A i \in 0 .. n - 1 : i \in I => i + 1 \in I
  PROVE  I = 0 .. n
<1> DEFINE T == {i \in 0 .. n : i \notin I}
<1>1. SUFFICES ASSUME T # {} PROVE FALSE
  OBVIOUS
<1>2. T \subseteq Nat
  OBVIOUS
<1>3. PICK k \in T : \A m \in T : k <= m
  <2> HIDE DEF T
  <2> QED
    BY <1>1, <1>2, LeastNat
<1>4. k # 0 /\ k - 1 \in 0 .. n - 1 /\ k - 1 \notin T
  BY <1>3
<1>5. QED
  BY <1>3, <1>4

\* The values a loop carries: F[<<a, b>>] is what it makes of the value a at the
\* element b, from x on.
Carries(F, x, s, g) ==
  g = [i \in 0 .. Len(s) |-> IF i = 0 THEN x ELSE F[<<g[i - 1], s[i]>>]]

\* A loop along a sequence has its values, each of the loop's type.
LEMMA LoopExists ==
  ASSUME NEW A, NEW B, NEW F \in [A \X B -> A], NEW x \in A, NEW s \in Seq(B)
  PROVE  \E g \in [0 .. Len(s) -> A] : Carries(F, x, s, g)
<1> DEFINE Up(g, n) == /\ g \in [0 .. n -> A]
                       /\ \A i \in 0 .. n : g[i] = IF i = 0 THEN x ELSE F[<<g[i - 1], s[i]>>]
           I == {n \in 0 .. Len(s) : \E g : Up(g, n)}
<1>1. Len(s) \in Nat /\ \A i \in 1 .. Len(s) : s[i] \in B
  OBVIOUS
<1>2. \E g : Up(g, 0)
  <2>1. Up([i \in 0 .. 0 |-> x], 0)
    OBVIOUS
  <2> HIDE DEF Up
  <2> QED
    BY <2>1
<1>3. ASSUME NEW n \in 0 .. Len(s) - 1, \E g : Up(g, n) PROVE \E g : Up(g, n + 1)
  <2>1. PICK g : Up(g, n)
    <3> HIDE DEF Up
    <3> QED
      BY <1>3
  <2> DEFINE v == F[<<g[n], s[n + 1]>>]
             h == [i \in 0 .. n + 1 |-> IF i = n + 1 THEN v ELSE g[i]]
  <2>2. g[n] \in A /\ s[n + 1] \in B
    BY <1>1, <2>1
  <2>3. v \in A
    BY <2>2
  <2> HIDE DEF v
  <2>4. h \in [0 .. n + 1 -> A]
    BY <2>1, <2>3
  <2>5. ASSUME NEW i \in 0 .. n + 1
        PROVE  h[i] = IF i = 0 THEN x ELSE F[<<h[i - 1], s[i]>>]
    <3>1. CASE i = n + 1
      <4>1. h[n + 1] = v
        OBVIOUS
      <4>2. h[n] = g[n] /\ n + 1 # 0 /\ (n + 1) - 1 = n
        OBVIOUS
      <4>3. v = F[<<h[n], s[n + 1]>>]
        BY <4>2 DEF v
      <4> HIDE DEF h
      <4> QED
        BY <3>1, <4>1, <4>2, <4>3
    <3>2. CASE i \in 0 .. n
      <4>1. h[i] = g[i] /\ (i # 0 => h[i - 1] = g[i - 1])
        BY <3>2
      <4>2. g[i] = IF i = 0 THEN x ELSE F[<<g[i - 1], s[i]>>]
        BY <2>1, <3>2
      <4> HIDE DEF h
      <4> QED
        BY <4>1, <4>2
    <3> QED
      BY <3>1, <3>2
  <2>6. Up(h, n + 1)
    BY <2>4, <2>5
  <2> HIDE DEF Up
  <2> QED
    BY <2>6
<1>4. I = 0 .. Len(s)
  <2> HIDE DEF Up
  <2>1. 0 \in I /\ I \subseteq 0 .. Len(s)
    BY <1>1, <1>2
  <2>2. \A n \in 0 .. Len(s) - 1 : n \in I => n + 1 \in I
    BY <1>1, <1>3
  <2> HIDE DEF I
  <2> QED
    BY <1>1, <2>1, <2>2, IndexInduction
<1>5. PICK g : Up(g, Len(s))
  <2> HIDE DEF Up
  <2> QED
    BY <1>1, <1>4
<1>6. QED
  BY <1>5 DEF Carries

=============================================================================
