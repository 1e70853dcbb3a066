---------------------------- MODULE DataInduction ----------------------------
(***************************************************************************)
(* Induction over numbers and finite sets in a form without predicates,    *)
(* for the proofs about folds, flattened lists and sorted positions: what  *)
(* is to hold of all n is that a set, of those it holds for, is Nat.       *)
(***************************************************************************)
EXTENDS Integers, WellFoundedInduction, FiniteSetTheorems, TLAPS

(* A set of naturals has a least element.                                   *)
LEMMA LeastNatural ==
  ASSUME NEW S, S \subseteq Nat, S # {}
  PROVE  \E n \in S : \A m \in S : n \leq m
<1>1. PICK n \in S : \A m \in S : ~ (<<m, n>> \in OpToRel(<, Nat))
  BY NatLessThanWellFounded, WFMin
<1>2. \A m \in S : <<m, n>> \in OpToRel(<, Nat) <=> m < n
  BY DEF OpToRel
<1>3. \A m \in S : ~ (m < n)
  BY <1>1, <1>2, Zenon
<1>. QED  BY <1>3

(* A set that holds 0 and with each number the next holds them all.         *)
LEMMA SetInduction ==
  ASSUME NEW S, 0 \in S, \A n \in Nat : n \in S => n + 1 \in S
  PROVE  Nat \subseteq S
<1>. SUFFICES ASSUME Nat \ S # {} PROVE FALSE
  OBVIOUS
<1>1. PICK n \in Nat \ S : \A m \in Nat \ S : n \leq m
  BY LeastNatural
<1>2. n - 1 \in Nat /\ n - 1 \in S
  BY <1>1
<1>. QED  BY <1>1, <1>2

(* A set that holds a finite set as soon as it holds what is left of it     *)
(* without any one element holds all of them.                               *)
LEMMA FiniteSetInduction ==
  ASSUME NEW G, IsFiniteSet(G),
         NEW P, \A T \in SUBSET G : (\A x \in T : T \ {x} \in P) => T \in P
  PROVE  SUBSET G \subseteq P
<1>. SUFFICES ASSUME NEW U \in SUBSET G, U \notin P PROVE FALSE
  OBVIOUS
<1>. DEFINE bad == {T \in SUBSET G : T \notin P}
            sizes == {Cardinality(T) : T \in bad}
<1>1. \A T \in SUBSET G : IsFiniteSet(T) /\ Cardinality(T) \in Nat
  BY FS_Subset, FS_CardinalityType
<1>2. sizes \subseteq Nat /\ sizes # {}
  BY <1>1
<1>. HIDE DEF sizes
<1>3. PICK n \in sizes : \A m \in sizes : n \leq m
  BY <1>2, LeastNatural
<1>4. PICK T \in bad : Cardinality(T) = n
  BY DEF sizes
<1>5. ASSUME NEW x \in T PROVE T \ {x} \in P
  <2>1. Cardinality(T \ {x}) = Cardinality(T) - 1
    BY <1>1, <1>4, FS_RemoveElement
  <2>2. Cardinality(T \ {x}) \notin sizes
    BY <1>1, <1>3, <1>4, <2>1
  <2>. QED  BY <1>4, <2>2 DEF sizes
<1>. QED  BY <1>4, <1>5
=============================================================================
