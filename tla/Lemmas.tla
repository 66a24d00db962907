------------------------------- MODULE Lemmas -------------------------------
(***************************************************************************)
(* Lemmas that several proofs need: induction over the naturals and over    *)
(* finite sets, in a form that speaks of a set and not of a predicate, and  *)
(* sums of stakes.                                                          *)
(***************************************************************************)
EXTENDS Staking, FiniteSetTheorems, WellFoundedInduction, TLAPS

-----------------------------------------------------------------------------
\* A set with 0 in it, and n + 1 whenever n is in it, holds all the naturals.
LEMMA SetInduction ==
  ASSUME NEW S, 0 \in S, \A n \in Nat : n \in S => n + 1 \in S
  PROVE Nat \subseteq S
<1> SUFFICES ASSUME NEW m \in Nat, m \notin S PROVE FALSE
  OBVIOUS
<1> PICK R : R = {ss \in Nat \X Nat : ss[1] < ss[2]}
  OBVIOUS
<1>1. \A x,y \in Nat : x < y => <<x,y>> \in R
  OBVIOUS
<1>2. IsWellFoundedOn(R, Nat)
  BY NatLessThanWellFounded DEF OpToRel
<1>3. PICK k \in Nat \ S : \A y \in Nat \ S : ~ (<<y,k>> \in R)
  <2>1. Nat \ S \subseteq Nat /\ Nat \ S # {}
    OBVIOUS
  <2>2. \E k \in Nat \ S : \A y \in Nat \ S : ~ (<<y,k>> \in R)
    BY <1>2, <2>1, WFMin, Zenon
  <2> QED BY <2>2, Zenon
<1> PICK j : j = k - 1
  OBVIOUS
<1>4. j \in Nat /\ k = j + 1 /\ j < k
  OBVIOUS
<1>5. j \in S
  BY <1>1, <1>3, <1>4
<1> QED BY <1>4, <1>5

\* A set of subsets of S with {} in it, and every T whose subsets that lack
\* one element of T are in it, holds all the subsets of the finite set S.
LEMMA SubsetInduction ==
  ASSUME NEW S, IsFiniteSet(S), NEW G, {} \in G,
         \A T \in SUBSET S : T # {} /\ (\A x \in T : T \ {x} \in G) => T \in G
  PROVE  SUBSET S \subseteq G
<1> DEFINE N == {n \in Nat : \A T \in SUBSET S : Cardinality(T) = n => T \in G}
<1>1. \A T \in SUBSET S : IsFiniteSet(T) /\ Cardinality(T) \in Nat
  BY FS_Subset, FS_CardinalityType
<1>2. 0 \in N
  <2> SUFFICES ASSUME NEW T \in SUBSET S, Cardinality(T) = 0 PROVE T \in G
    OBVIOUS
  <2>1. T = {}
    BY <1>1, FS_EmptySet
  <2> QED BY <2>1
<1>3. ASSUME NEW n \in Nat, n \in N PROVE n + 1 \in N
  <2> SUFFICES ASSUME NEW T \in SUBSET S, Cardinality(T) = n + 1 PROVE T \in G
    OBVIOUS
  <2>1. T # {}
    <3>1. Cardinality({}) = 0 /\ n + 1 # 0
      BY FS_EmptySet
    <3> QED BY <3>1
  <2>2. ASSUME NEW x \in T PROVE T \ {x} \in G
    <3>1. Cardinality(T \ {x}) = n /\ T \ {x} \in SUBSET S
      BY <1>1, FS_RemoveElement
    <3> QED BY <1>3, <3>1
  <2> QED BY <2>1, <2>2
<1> HIDE DEF N
<1>4. Nat \subseteq N
  BY <1>2, <1>3, SetInduction
<1> QED BY <1>1, <1>4 DEF N

\* A finite set of numbers has a largest one.
LEMMA Largest ==
  ASSUME NEW S, S \subseteq Nat, IsFiniteSet(S), S # {}
  PROVE  \E m \in S : \A x \in S : x <= m
<1> DEFINE G == {T \in SUBSET S : T # {} => \E m \in T : \A x \in T : x <= m}
<1>1. ASSUME NEW T \in SUBSET S, T # {}, \A x \in T : T \ {x} \in G PROVE T \in G
  <2> PICK y : y \in T
    BY <1>1
  <2>1. T \ {y} \in G
    BY <1>1
  <2>2. CASE T \ {y} = {}
    BY <2>2
  <2>3. CASE T \ {y} # {}
    <3> PICK m \in T \ {y} : \A x \in T \ {y} : x <= m
      BY <2>1, <2>3
    <3>1. y \in Nat /\ m \in Nat /\ \A x \in T : x \in Nat
      OBVIOUS
    <3>2. CASE y <= m
      BY <3>2
    <3>3. CASE m < y
      <4>1. \A x \in T : x <= y
        BY <3>1, <3>3
      <4> QED BY <4>1
    <3> QED BY <3>1, <3>2, <3>3
  <2> QED BY <2>2, <2>3
<1>2. {} \in G
  OBVIOUS
<1> HIDE DEF G
<1>3. SUBSET S \subseteq G
  BY <1>1, <1>2, SubsetInduction
<1> QED BY <1>3 DEF G

\* Some element of a set.
AnyOf(S) == CHOOSE x \in S : TRUE

-----------------------------------------------------------------------------
(***************************************************************************)
(* Sums of stakes, as cardinalities of sets of tokens.                      *)
(***************************************************************************)
LEMMA TokensOfOne ==
  ASSUME NEW b, b.stake \in Nat
  PROVE  IsFiniteSet({b} \X (1 .. b.stake)) /\ Cardinality({b} \X (1 .. b.stake)) = b.stake
<1>1. IsFiniteSet(1 .. b.stake) /\ Cardinality(1 .. b.stake) = b.stake
  BY FS_Interval
<1>2. IsFiniteSet({b}) /\ Cardinality({b}) = 1
  BY FS_Singleton
<1> QED BY <1>1, <1>2, FS_Product

LEMMA StakesType ==
  ASSUME NEW B, IsFiniteSet(B), \A b \in B : b.stake \in Nat
  PROVE  IsFiniteSet(TokensOf(B)) /\ Stakes(B) \in Nat
<1> DEFINE TT == {{b} \X (1 .. b.stake) : b \in B}
<1>1. IsFiniteSet(TT)
  <2> DEFINE f == [b \in B |-> {b} \X (1 .. b.stake)]
  <2>1. f \in Surjection(B, TT)
    BY DEF Surjection
  <2> QED BY <2>1, FS_Surjection
<1>2. \A t \in TT : IsFiniteSet(t)
  BY TokensOfOne
<1>3. IsFiniteSet(UNION TT)
  BY <1>1, <1>2, FS_UNION
<1> QED BY <1>3, FS_CardinalityType DEF TokensOf, Stakes

LEMMA FirstOfPair ==
  ASSUME NEW b, NEW S, NEW t \in {b} \X S
  PROVE  t[1] = b
OBVIOUS

LEMMA StakesDisjoint ==
  ASSUME NEW B, IsFiniteSet(B), NEW C, IsFiniteSet(C), B \cap C = {},
         \A b \in B \cup C : b.stake \in Nat
  PROVE  Stakes(B \cup C) = Stakes(B) + Stakes(C)
<1>1. TokensOf(B \cup C) = TokensOf(B) \cup TokensOf(C)
  BY DEF TokensOf
<1>2. TokensOf(B) \cap TokensOf(C) = {}
  <2> SUFFICES ASSUME NEW b \in B, NEW c \in C, NEW t, t \in {b} \X (1 .. b.stake),
                      t \in {c} \X (1 .. c.stake)
               PROVE  FALSE
    BY Zenon DEF TokensOf
  <2>1. t[1] = b /\ t[1] = c
    BY FirstOfPair
  <2> QED BY <2>1
<1>3. IsFiniteSet(TokensOf(B)) /\ IsFiniteSet(TokensOf(C))
  BY StakesType
<1>4. Stakes(B) \in Nat /\ Stakes(C) \in Nat
  BY StakesType
<1>5. Cardinality(TokensOf(B) \cup TokensOf(C))
        = Cardinality(TokensOf(B)) + Cardinality(TokensOf(C)) - 0
  BY <1>2, <1>3, FS_Union, FS_EmptySet
<1>6. Cardinality(TokensOf(B) \cup TokensOf(C)) = Stakes(B) + Stakes(C) - 0
  BY <1>5 DEF Stakes
<1>7. Stakes(B \cup C) = Cardinality(TokensOf(B) \cup TokensOf(C))
  BY <1>1 DEF Stakes
<1> QED BY <1>4, <1>6, <1>7

LEMMA StakesOfOne ==
  ASSUME NEW b, b.stake \in Nat
  PROVE  Stakes({b}) = b.stake
<1>1. TokensOf({b}) = {b} \X (1 .. b.stake)
  BY DEF TokensOf
<1> QED BY <1>1, TokensOfOne DEF Stakes

LEMMA StakesOfNone == Stakes({}) = 0
<1>1. TokensOf({}) = {}
  BY DEF TokensOf
<1> QED BY <1>1, FS_EmptySet DEF Stakes

\* Taking some bonds out of a set takes out what they hold.
LEMMA StakesWithout ==
  ASSUME NEW B, IsFiniteSet(B), NEW C, C \subseteq B, \A b \in B : b.stake \in Nat
  PROVE  /\ Stakes(B \ C) = Stakes(B) - Stakes(C)
         /\ Stakes(C) \in Nat /\ Stakes(C) <= Stakes(B)
<1>1. IsFiniteSet(C) /\ IsFiniteSet(B \ C)
  BY FS_Subset
<1>2. Stakes((B \ C) \cup C) = Stakes(B \ C) + Stakes(C)
  BY <1>1, StakesDisjoint
<1>3. (B \ C) \cup C = B
  OBVIOUS
<1>4. Stakes(C) \in Nat /\ Stakes(B \ C) \in Nat
  BY <1>1, StakesType
<1>5. Stakes(B) = Stakes(B \ C) + Stakes(C)
  BY <1>2, <1>3
<1> QED BY <1>4, <1>5

=============================================================================
