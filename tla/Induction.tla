------------------------------ MODULE Induction ------------------------------
(***************************************************************************)
(* Induction over the naturals for sets instead of predicates, and least   *)
(* and greatest elements.  The induction theorems of the library take an   *)
(* operator as a parameter, which first-order provers cannot instantiate;  *)
(* a set they can.                                                         *)
(***************************************************************************)
EXTENDS Integers, FiniteSets, FiniteSetTheorems, WellFoundedInduction, TLAPS

\* Every inhabited set of naturals has a least element
LEMMA LeastElement ==
  ASSUME NEW U \in SUBSET Nat, U # {}
  PROVE  \E x \in U : \A y \in U : ~(y < x)
  <1>1. \E x \in U : \A y \in U : <<y, x>> \notin OpToRel(<, Nat)
    BY WFMin, NatLessThanWellFounded, Zenon
  <1>2. \A x, y \in Nat : x < y => <<x, y>> \in OpToRel(<, Nat)
    BY DEF OpToRel
  <1> QED
    BY <1>1, <1>2, Zenon

\* A set of naturals that holds 0 and is closed under successor is Nat
LEMMA SetInduction ==
  ASSUME NEW T \in SUBSET Nat, 0 \in T, \A n \in T : n + 1 \in T
  PROVE  T = Nat
  <1> SUFFICES ASSUME Nat \ T # {} PROVE FALSE
    OBVIOUS
  <1>1. PICK x \in Nat \ T : \A y \in Nat \ T : ~(y < x)
    BY LeastElement
  <1>2. x # 0 /\ x - 1 \in Nat /\ x - 1 < x
    BY <1>1
  <1>3. x - 1 \in T
    BY <1>1, <1>2
  <1> QED
    BY <1>1, <1>2, <1>3

\* A finite inhabited set of integers has a greatest element
LEMMA GreatestElement ==
  ASSUME NEW S \in SUBSET Int, IsFiniteSet(S), S # {}
  PROVE  \E x \in S : \A y \in S : y <= x
  <1> DEFINE Good == {n \in Nat : \A T \in SUBSET Int : IsFiniteSet(T) /\ Cardinality(T) = n + 1
                                    => \E x \in T : \A y \in T : y <= x}
  <1>1. 0 \in Good
    <2> SUFFICES ASSUME NEW T \in SUBSET Int, IsFiniteSet(T), Cardinality(T) = 1
                 PROVE  \E x \in T : \A y \in T : y <= x
      OBVIOUS
    <2>1. PICK x : T = {x}
      BY FS_Singleton
    <2> QED
      BY <2>1
  <1>2. ASSUME NEW n \in Good PROVE n + 1 \in Good
    <2>1. n \in Nat /\ \A T \in SUBSET Int : IsFiniteSet(T) /\ Cardinality(T) = n + 1
                         => \E x \in T : \A y \in T : y <= x
      OBVIOUS
    <2> SUFFICES ASSUME NEW T \in SUBSET Int, IsFiniteSet(T), Cardinality(T) = (n + 1) + 1
                 PROVE  \E x \in T : \A y \in T : y <= x
      OBVIOUS
    <2> HIDE DEF Good
    <2>2. PICK z \in T : TRUE
      <3>1. T # {}
        BY <2>1, FS_EmptySet
      <3> QED
        BY <3>1
    <2>3. IsFiniteSet(T \ {z}) /\ Cardinality(T \ {z}) = Cardinality(T) - 1
      BY FS_RemoveElement
    <2>4. Cardinality(T \ {z}) = n + 1
      BY ONLY <2>1, <2>3, Cardinality(T) = (n + 1) + 1
    <2>5. PICK x \in T \ {z} : \A y \in T \ {z} : y <= x
      BY <2>1, <2>3, <2>4
    <2>6. CASE z <= x
      BY <2>5, <2>6
    <2>7. CASE ~(z <= x)
      BY <2>5, <2>7
    <2> QED
      BY <2>6, <2>7
  <1>3. Good = Nat
    BY <1>1, <1>2, SetInduction
  <1>4. Cardinality(S) - 1 \in Nat
    <2>1. Cardinality(S) \in Nat /\ Cardinality(S) # 0
      BY FS_EmptySet, FS_CardinalityType
    <2> QED
      BY <2>1
  <1>5. \E x \in S : \A y \in S : y <= x
    <2>1. Cardinality(S) = (Cardinality(S) - 1) + 1
      BY FS_CardinalityType
    <2> QED
      BY <1>3, <1>4, <2>1
  <1> QED
    BY <1>5
=============================================================================
