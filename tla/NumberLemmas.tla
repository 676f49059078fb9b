---------------------------- MODULE NumberLemmas ----------------------------
(***************************************************************************)
(* Natural numbers: the least one of a set, and induction over a set,      *)
(* which, unlike the library's over an operator, the provers can           *)
(* instantiate.                                                            *)
(***************************************************************************)
EXTENDS Integers, WellFoundedInduction, TLAPS

\* A set of numbers has a least one, and a bounded one a greatest.
LEMMA Least ==
    ASSUME NEW I \in SUBSET Nat, I # {}
    PROVE  \E i \in I : \A j \in I : i <= j
  <1>. DEFINE R == OpToRel(<, Nat)
  <1>1. \E i \in I : \A j \in I : <<j, i>> \notin R
    <2>1. I \subseteq Nat /\ IsWellFoundedOn(R, Nat)
      BY NatLessThanWellFounded
    <2>. HIDE DEF R
    <2>. QED
      BY <2>1, WFMin
  <1>2. \A i, j \in Nat : <<j, i>> \in R <=> j < i
    BY DEF OpToRel
  <1>. HIDE DEF R
  <1>3. \A i, j \in I : <<j, i>> \notin R => i <= j
    BY <1>2
  <1>. QED
    BY <1>1, <1>3

LEMMA Extremes ==
    ASSUME NEW n \in Nat, NEW I \in SUBSET (1 .. n), I # {}
    PROVE  /\ \E i \in I : \A j \in I : i <= j
           /\ \E i \in I : \A j \in I : j <= i
  <1>1. \E i \in I : \A j \in I : i <= j
    <2>1. I \in SUBSET Nat
      OBVIOUS
    <2>. QED
      BY <2>1, Least
  <1>2. \E i \in I : \A j \in I : j <= i
    <2>. DEFINE D == {d \in 0 .. n : n - d \in I}
    <2>1. \A i \in I : n - i \in D
      OBVIOUS
    <2>2. D # {}
      <3>1. PICK i : i \in I
        OBVIOUS
      <3>2. n - i \in D
        BY <2>1, <3>1
      <3>. QED
        BY <3>2
    <2>. HIDE DEF D
    <2>3. D \in SUBSET Nat
      BY DEF D
    <2>. USE DEF D
    <2>4. PICK d \in D : \A e \in D : d <= e
      <3>. HIDE DEF D
      <3>. QED
        BY <2>2, <2>3, Least
    <2>5. n - d \in I /\ \A j \in I : d <= n - j
      BY <2>1, <2>4
    <2>6. \A j \in I : j \in Int /\ (d <= n - j => j <= n - d)
      BY <2>4
    <2>. QED
      BY <2>5, <2>6
  <1>. QED
    BY <1>1, <1>2

\* A set that has zero, and with a number its successor, has all of them.
LEMMA Induction ==
    ASSUME NEW S, 0 \in S, \A n \in Nat : n \in S => n + 1 \in S
    PROVE  Nat \subseteq S
  <1>. SUFFICES ASSUME Nat \ S # {} PROVE FALSE
    OBVIOUS
  <1>1. PICK n \in Nat \ S : \A m \in Nat \ S : n <= m
    BY Least
  <1>2. n # 0 /\ n - 1 \in Nat /\ n - 1 \in S
    BY <1>1
  <1>. QED
    BY <1>2
=============================================================================
