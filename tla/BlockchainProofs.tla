--------------------------- MODULE BlockchainProofs ---------------------------
(***************************************************************************)
(* Facts about the operators of module Blockchain: the finalized height is  *)
(* well defined, the validator set of a block depends on the blocks below   *)
(* it only, and adopting a chain keeps every finalized block.               *)
(***************************************************************************)
EXTENDS Blockchain, TLAPS, FiniteSetTheorems, WellFoundedInduction, NaturalsInduction

\* A nonempty set of numbers up to N has a maximum, and Max returns it.
LEMMA MaxOfBounded ==
  ASSUME NEW N \in Nat, NEW S, S \subseteq 0 .. N, S # {}
  PROVE  /\ Max(S) \in S
         /\ \A x \in S : Max(S) >= x
<1> DEFINE T == {N - x : x \in S}
<1>1. T \subseteq Nat /\ T # {}
  <2>1. ASSUME NEW x \in S PROVE N - x \in Nat
    <3>1. x \in 0 .. N
      OBVIOUS
    <3> QED BY <3>1
  <2> QED BY <2>1
<1>2. PICK t \in T : \A u \in T : <<u, t>> \notin OpToRel(<, Nat)
  <2> HIDE DEF T
  <2> QED BY <1>1, NatLessThanWellFounded, WFMin, Zenon
<1>3. \A u \in T : ~ (u < t)
  <2> HIDE DEF T
  <2> SUFFICES ASSUME NEW u \in T, u < t PROVE FALSE
    OBVIOUS
  <2>1. <<u, t>> \in Nat \X Nat /\ <<u, t>>[1] < <<u, t>>[2]
    BY <1>1, <1>2
  <2>2. <<u, t>> \in OpToRel(<, Nat)
    BY <2>1, Zenon DEF OpToRel
  <2> QED BY <2>2, <1>2, Zenon
<1>4. PICK m \in S : t = N - m
  BY <1>2
<1>5. \A x \in S : m >= x
  <2> SUFFICES ASSUME NEW x \in S PROVE m >= x
    OBVIOUS
  <2>1. N - x \in T /\ x \in Int /\ m \in Int
    OBVIOUS
  <2>2. ~ (N - x < N - m)
    BY <1>3, <1>4, <2>1
  <2> QED BY <2>1, <2>2
<1> QED BY <1>5 DEF Max

\* The finalized height is a height of the chain, no finalized block lies above
\* it, and unless it is genesis the block there is final.
LEMMA FinalizedHeightFacts ==
  ASSUME NEW made, NEW c \in Seq(Hash), NEW k
  PROVE  /\ FinalizedHeight(made, c, k) \in 0 .. Len(c)
         /\ \A i \in FinalizedIndices(made, c, k) : i <= FinalizedHeight(made, c, k)
         /\ FinalizedHeight(made, c, k) # 0
              => FinalizedHeight(made, c, k) \in FinalizedIndices(made, c, k)
<1> DEFINE S == {0} \cup FinalizedIndices(made, c, k)
<1>1. Len(c) \in Nat
  OBVIOUS
<1>2. S \subseteq 0 .. Len(c) /\ S # {} /\ \A x \in S : x \in Nat
  BY <1>1 DEF FinalizedIndices
<1>3. Max(S) \in S /\ \A x \in S : Max(S) >= x
  <2> HIDE DEF S
  <2> QED BY <1>1, <1>2, MaxOfBounded
<1>4. FinalizedHeight(made, c, k) = Max(S)
  BY DEF FinalizedHeight
<1> HIDE DEF S
<1>5. FinalizedHeight(made, c, k) \in S
  BY <1>3, <1>4
<1>6. \A x \in S : x <= FinalizedHeight(made, c, k)
  BY <1>2, <1>3, <1>4
<1> QED BY <1>2, <1>5, <1>6 DEF S

\* The validators a block is judged against depend on the blocks below it only.
LEMMA PrefixDeterminesValidators ==
  ASSUME NEW madeA, NEW c, NEW madeB, NEW d, NEW i,
         \A j \in 1 .. (i - 1) : madeA[c[j]] = madeB[d[j]]
  PROVE  validator_set(madeA, c, i) = validator_set(madeB, d, i)
<1>1. PrefixTxs(madeA, c, i) = PrefixTxs(madeB, d, i)
  BY DEF PrefixTxs
<1> QED BY <1>1 DEF validator_set

\* A validator set is a finite set of nodes.
LEMMA ValidatorsAreNodes ==
  ASSUME NEW made, NEW c, NEW i, \A j \in 1 .. (i - 1) : made[c[j]].txs \subseteq Tx
  PROVE  validator_set(made, c, i) \subseteq Node /\ IsFiniteSet(validator_set(made, c, i))
<1>1. PrefixTxs(made, c, i) \in SUBSET Tx
  BY DEF PrefixTxs
<1>2. validator_set(made, c, i) \subseteq Node
  BY <1>1, ValidatorsAssumption DEF validator_set
<1> QED BY <1>2, NodeAssumption, FS_Subset

\* More commits never lose a quorum.
LEMMA QuorumMonotone ==
  ASSUME NEW V, IsFiniteSet(V), NEW S, NEW T, S \subseteq T, HasQuorum(S, V)
  PROVE  HasQuorum(T, V)
<1>1. IsFiniteSet(T \cap V) /\ IsFiniteSet(S \cap V) /\ S \cap V \in SUBSET (T \cap V)
  BY FS_Subset, V \cap T \in SUBSET V, T \cap V = V \cap T, S \cap V \in SUBSET V
<1>2. Cardinality(S \cap V) <= Cardinality(T \cap V)
  BY <1>1, FS_Subset
<1>3. /\ Cardinality(S \cap V) \in Nat /\ Cardinality(T \cap V) \in Nat
      /\ Cardinality(V) \in Nat
  BY <1>1, FS_CardinalityType
<1>4. quorum_size(Cardinality(V)) \in Int
  BY <1>3 DEF quorum_size
<1> QED BY <1>2, <1>3, <1>4 DEF HasQuorum

-----------------------------------------------------------------------------
\* What chain c has finalized is at the bottom of what chain d has finalized.
KeepsFinality(madeA, c, k, madeB, d, l) ==
  /\ FinalizedHeight(madeA, c, k) <= FinalizedHeight(madeB, d, l)
  /\ SubSeq(d, 1, FinalizedHeight(madeA, c, k)) = SubSeq(c, 1, FinalizedHeight(madeA, c, k))

\* Every block of a chain names the chain below it.
Linked(made, c) == \A i \in 1 .. Len(c) : made[c[i]].previous = SubSeq(c, 1, i - 1)

\* Chains that agree up to a height have the same history up to that height.
LEMMA SameHistory ==
  ASSUME NEW c \in Seq(Hash), NEW d \in Seq(Hash), NEW m \in Nat,
         m <= Len(c), m <= Len(d),
         \A i \in 1 .. m : c[i] = d[i]
  PROVE  SubSeq(c, 1, m) = SubSeq(d, 1, m)
<1>1. /\ SubSeq(c, 1, m) \in Seq(Hash) /\ Len(SubSeq(c, 1, m)) = m
      /\ SubSeq(d, 1, m) \in Seq(Hash) /\ Len(SubSeq(d, 1, m)) = m
  OBVIOUS
<1>2. \A i \in 1 .. m : SubSeq(c, 1, m)[i] = c[i] /\ SubSeq(d, 1, m)[i] = d[i]
  OBVIOUS
<1> QED BY <1>1, <1>2

\* Linked chains that share a block share everything below it.
LEMMA LinkedHistory ==
  ASSUME NEW made, NEW c \in Seq(Hash), NEW d \in Seq(Hash), NEW m \in 1 .. Len(c),
         m <= Len(d), c[m] = d[m], Linked(made, c), Linked(made, d)
  PROVE  SubSeq(c, 1, m) = SubSeq(d, 1, m)
<1>1. SubSeq(c, 1, m - 1) = SubSeq(d, 1, m - 1)
  <2>1. m \in 1 .. Len(c) /\ m \in 1 .. Len(d)
    OBVIOUS
  <2>2. made[c[m]].previous = SubSeq(c, 1, m - 1)
    BY <2>1, Zenon DEF Linked
  <2>3. made[d[m]].previous = SubSeq(d, 1, m - 1)
    BY <2>1, Zenon DEF Linked
  <2> QED BY <2>2, <2>3
<1>2. \A i \in 1 .. (m - 1) : c[i] = d[i]
  <2> SUFFICES ASSUME NEW i \in 1 .. (m - 1) PROVE c[i] = d[i]
    OBVIOUS
  <2>1. SubSeq(c, 1, m - 1)[i] = c[i] /\ SubSeq(d, 1, m - 1)[i] = d[i]
    OBVIOUS
  <2> QED BY <1>1, <2>1
<1>3. \A i \in 1 .. m : c[i] = d[i]
  BY <1>2
<1> QED BY <1>3, SameHistory

\* A chain that only grows, and only gains commits, keeps what it has finalized.
LEMMA GrowthKeepsFinality ==
  ASSUME NEW madeA, NEW c \in Seq(Hash), NEW k, NEW madeB, NEW d \in Seq(Hash), NEW l,
         Len(c) <= Len(d),
         \A i \in 1 .. Len(c) : /\ d[i] = c[i]
                               /\ madeB[c[i]] = madeA[c[i]]
                               /\ madeA[c[i]].txs \subseteq Tx
                               /\ k[c[i]] \subseteq l[c[i]]
  PROVE  KeepsFinality(madeA, c, k, madeB, d, l)
<1> DEFINE f == FinalizedHeight(madeA, c, k)
<1>1. ASSUME NEW i \in FinalizedIndices(madeA, c, k)
      PROVE  i \in FinalizedIndices(madeB, d, l)
  <2>1. i \in 1 .. Len(c) /\ is_final(madeA, c, k, i)
    BY <1>1 DEF FinalizedIndices
  <2>2. validator_set(madeA, c, i) = validator_set(madeB, d, i)
    BY <2>1, PrefixDeterminesValidators
  <2>3. IsFiniteSet(validator_set(madeA, c, i))
    BY <2>1, ValidatorsAreNodes
  <2>4. HasQuorum(l[c[i]], validator_set(madeA, c, i))
    BY <2>1, <2>3, QuorumMonotone DEF is_final
  <2> QED BY <2>1, <2>2, <2>4 DEF is_final, FinalizedIndices
<1>2. f \in 0 .. Len(c) /\ FinalizedHeight(madeB, d, l) \in 0 .. Len(d)
  BY FinalizedHeightFacts
<1>3. f <= FinalizedHeight(madeB, d, l)
  <2>1. CASE f = 0
    BY <2>1, <1>2
  <2>2. CASE f # 0
    BY <2>2, <1>1, FinalizedHeightFacts
  <2> QED BY <2>1, <2>2
<1>4. SubSeq(d, 1, f) = SubSeq(c, 1, f)
  <2> HIDE DEF f
  <2> QED BY <1>2, SameHistory
<1> QED BY <1>3, <1>4 DEF KeepsFinality

\* Fork choice keeps what our chain has finalized: the candidate holds our last
\* finalized block, so by its links everything below it, and its finalized
\* height is not lower, or it would not outrank us.
LEMMA AdoptionKeepsFinality ==
  ASSUME NEW made, NEW c \in Seq(Hash), NEW k, NEW d \in Seq(Hash), NEW l,
         Linked(made, c), Adopts(made, c, k, d, l)
  PROVE  KeepsFinality(made, c, k, made, d, l)
<1> DEFINE f == FinalizedHeight(made, c, k)
           g == FinalizedHeight(made, d, l)
<1>1. f \in 0 .. Len(c) /\ g \in 0 .. Len(d)
  BY FinalizedHeightFacts
<1>2. f <= g
  BY <1>1 DEF Adopts, Outranks, RankBelow, fork_choice_rank
<1>3. SubSeq(d, 1, f) = SubSeq(c, 1, f)
  <2>1. CASE f = 0
    BY <2>1, <1>1, SameHistory
  <2>2. CASE f # 0
    <3>1. f \in FinalizedIndices(made, c, k)
      BY <2>2, FinalizedHeightFacts
    <3>2. f <= Len(d) /\ d[f] = c[f]
      BY <1>1, <3>1 DEF Adopts, RevertsOurFinality
    <3>3. Linked(made, d)
      BY DEF Adopts, is_valid_chain, ValidBlock, Linked
    <3> HIDE DEF f
    <3> QED BY <1>1, <2>2, <3>2, <3>3, LinkedHistory
  <2> QED BY <2>1, <2>2
<1> QED BY <1>2, <1>3 DEF KeepsFinality
-----------------------------------------------------------------------------
\* A block of two linked chains has the same height on both: its own link has the
\* length of the chain below it.
LEMMA SameHeight ==
  ASSUME NEW made, NEW c \in Seq(Hash), NEW d \in Seq(Hash), Linked(made, c), Linked(made, d),
         NEW i \in 1 .. Len(c), NEW j \in 1 .. Len(d), c[i] = d[j]
  PROVE  i = j
<1>1. made[c[i]].previous = SubSeq(c, 1, i - 1)
  BY Zenon DEF Linked
<1>2. made[d[j]].previous = SubSeq(d, 1, j - 1)
  BY Zenon DEF Linked
<1>3. Len(SubSeq(c, 1, i - 1)) = i - 1 /\ Len(SubSeq(d, 1, j - 1)) = j - 1
  OBVIOUS
<1>4. i - 1 = j - 1
  BY <1>1, <1>2, <1>3
<1> QED BY <1>4

\* A valid chain stays valid when valid blocks are put on top of it and the blocks
\* below gain commits of validators only.
LEMMA ValidGrowth ==
  ASSUME NEW madeA, NEW c \in Seq(Hash), NEW k, NEW madeB, NEW d \in Seq(Hash), NEW l,
         is_valid_chain(madeA, c, k), Len(c) <= Len(d),
         \A i \in 1 .. Len(c) : /\ d[i] = c[i]
                               /\ madeB[c[i]] = madeA[c[i]]
                               /\ l[c[i]] \subseteq validator_set(madeA, c, i),
         \A i \in 1 .. Len(d) : i > Len(c) => ValidBlock(madeB, d, l, i)
  PROVE  is_valid_chain(madeB, d, l)
<1> SUFFICES ASSUME NEW i \in 1 .. Len(d), i <= Len(c) PROVE ValidBlock(madeB, d, l, i)
  BY DEF is_valid_chain
<1>1. i \in 1 .. Len(c) /\ ValidBlock(madeA, c, k, i)
  BY DEF is_valid_chain
<1>2. SubSeq(d, 1, i - 1) = SubSeq(c, 1, i - 1)
  <2>1. i - 1 \in Nat /\ i - 1 <= Len(c) /\ i - 1 <= Len(d) /\ \A j \in 1 .. (i - 1) : d[j] = c[j]
    BY <1>1
  <2> QED BY <2>1, SameHistory
<1>3. validator_set(madeB, d, i) = validator_set(madeA, c, i)
  <2>1. \A j \in 1 .. (i - 1) : madeB[d[j]] = madeA[c[j]]
    BY <1>1
  <2> QED BY <2>1, PrefixDeterminesValidators
<1>4. d[i] = c[i] /\ madeB[c[i]] = madeA[c[i]] /\ l[c[i]] \subseteq validator_set(madeA, c, i)
  BY <1>1
<1> QED BY <1>1, <1>2, <1>3, <1>4 DEF ValidBlock

\* The same when nothing is put on top.
LEMMA ValidCopies ==
  ASSUME NEW madeA, NEW c \in Seq(Hash), NEW k, NEW madeB, NEW l,
         is_valid_chain(madeA, c, k),
         \A i \in 1 .. Len(c) : /\ madeB[c[i]] = madeA[c[i]]
                               /\ l[c[i]] \subseteq validator_set(madeA, c, i)
  PROVE  is_valid_chain(madeB, c, l)
<1>1. Len(c) \in Nat /\ Len(c) <= Len(c)
  OBVIOUS
<1>2. \A i \in 1 .. Len(c) : i > Len(c) => ValidBlock(madeB, c, l, i)
  BY <1>1
<1>3. PICK d \in Seq(Hash) : d = c
  OBVIOUS
<1>4. /\ Len(c) <= Len(d)
      /\ \A i \in 1 .. Len(c) : /\ d[i] = c[i]
                               /\ madeB[c[i]] = madeA[c[i]]
                               /\ l[c[i]] \subseteq validator_set(madeA, c, i)
      /\ \A i \in 1 .. Len(d) : i > Len(c) => ValidBlock(madeB, d, l, i)
  BY <1>1, <1>2, <1>3
<1>5. is_valid_chain(madeB, d, l)
  BY <1>4, ValidGrowth
<1> QED BY <1>3, <1>5

\* A new block on top of a chain, in turn and justified, with an own commit at most.
LEMMA TopIsValid ==
  ASSUME NEW madeA, NEW c \in Seq(Hash), NEW k, NEW madeB, NEW h \in Hash, NEW l,
         is_valid_chain(madeA, c, k),
         \A i \in 1 .. Len(c) : /\ madeB[c[i]] = madeA[c[i]]
                               /\ l[c[i]] = k[c[i]],
         madeB[h].previous = c,
         NEW V, V = validator_set(madeA, c, Len(c) + 1),
         IsScheduled(V, madeB[h].producer, Len(c) + 1, madeB[h].view),
         madeB[h].view > 0 => HasQuorum(madeB[h].justification, V),
         l[h] \subseteq V
  PROVE  is_valid_chain(madeB, Append(c, h), l)
<1>1. PICK d : d = Append(c, h)
  OBVIOUS
<1>2. /\ d \in Seq(Hash) /\ Len(c) \in Nat /\ Len(d) = Len(c) + 1 /\ d[Len(c) + 1] = h
      /\ \A i \in 1 .. Len(c) : d[i] = c[i]
  BY <1>1
<1>3. SubSeq(d, 1, Len(c)) = c
  <2>1. SubSeq(d, 1, Len(c)) = SubSeq(c, 1, Len(c))
    <3>1. Len(c) \in Nat /\ Len(c) <= Len(c) /\ Len(c) <= Len(d)
      BY <1>2
    <3> QED BY <1>2, <3>1, SameHistory
  <2> QED BY <2>1
<1>4. validator_set(madeB, d, Len(c) + 1) = V
  <2>1. \A j \in 1 .. ((Len(c) + 1) - 1) : madeB[d[j]] = madeA[c[j]]
    BY <1>2
  <2> QED BY <2>1, PrefixDeterminesValidators
<1>5. ValidBlock(madeB, d, l, Len(c) + 1)
  <2>1. (Len(c) + 1) - 1 = Len(c)
    BY <1>2
  <2> QED BY <1>2, <1>3, <1>4, <2>1 DEF ValidBlock
<1>6. \A i \in 1 .. Len(d) : i > Len(c) => ValidBlock(madeB, d, l, i)
  <2> SUFFICES ASSUME NEW i \in 1 .. Len(d), i > Len(c) PROVE ValidBlock(madeB, d, l, i)
    OBVIOUS
  <2>1. i = Len(c) + 1
    BY <1>2
  <2> QED BY <1>5, <2>1
<1>7. \A i \in 1 .. Len(c) : l[c[i]] \subseteq validator_set(madeA, c, i)
  BY DEF is_valid_chain, ValidBlock
<1>8. /\ Len(c) <= Len(d)
      /\ \A i \in 1 .. Len(c) : /\ d[i] = c[i]
                               /\ madeB[c[i]] = madeA[c[i]]
                               /\ l[c[i]] \subseteq validator_set(madeA, c, i)
  BY <1>2, <1>7
<1>9. is_valid_chain(madeB, d, l)
  BY <1>2, <1>6, <1>8, ValidGrowth
<1> QED BY <1>1, <1>9

-----------------------------------------------------------------------------
(***************************************************************************)
(* Quorum intersection (quorum_size). It is about the sizes of the two      *)
(* validator sets and of their union, so it survives a set that grows.      *)
(***************************************************************************)

\* Every quorum of V shares a validator with every quorum of W.
QuorumsMeet(V, W) ==
  \A A \in SUBSET V, B \in SUBSET W :
    /\ Cardinality(A) >= quorum_size(Cardinality(V))
    /\ Cardinality(B) >= quorum_size(Cardinality(W))
    => A \cap B # {}

\* Two quorums that the union of their sets has no room for meet.
LEMMA CrowdedQuorumsMeet ==
  ASSUME NEW V, NEW W, IsFiniteSet(V), IsFiniteSet(W),
         Cardinality(V \cup W) < quorum_size(Cardinality(V)) + quorum_size(Cardinality(W))
  PROVE  QuorumsMeet(V, W)
<1> SUFFICES ASSUME NEW A \in SUBSET V, NEW B \in SUBSET W,
                    Cardinality(A) >= quorum_size(Cardinality(V)),
                    Cardinality(B) >= quorum_size(Cardinality(W)),
                    A \cap B = {}
             PROVE  FALSE
  BY DEF QuorumsMeet
<1>1. IsFiniteSet(A) /\ IsFiniteSet(B) /\ IsFiniteSet(V \cup W)
  BY FS_Subset, FS_Union
<1>2. /\ Cardinality(A) \in Nat /\ Cardinality(B) \in Nat /\ Cardinality(V \cup W) \in Nat
      /\ Cardinality(V) \in Nat /\ Cardinality(W) \in Nat
  BY <1>1, FS_CardinalityType
<1>3. quorum_size(Cardinality(V)) \in Int /\ quorum_size(Cardinality(W)) \in Int
  BY <1>2 DEF quorum_size
<1>4. Cardinality(A) + Cardinality(B) > Cardinality(V \cup W)
  BY <1>2, <1>3
<1> QED BY <1>1, <1>4, FS_MajoritiesIntersect

\* The arithmetic of quorum_size: until the set has more than doubled, a quorum of
\* the old set and a quorum of the new one are together more than the new set.
LEMMA QuorumsOfGrownSet ==
  ASSUME NEW a \in Nat, NEW b \in Nat, b <= 2 * a + 1, a <= b
  PROVE  b < quorum_size(a) + quorum_size(b)
<1>1. quorum_size(a) \in Int /\ 3 * quorum_size(a) >= 2 * a + 1
  BY DEF quorum_size
<1>2. quorum_size(b) \in Int /\ 3 * quorum_size(b) >= 2 * b + 1
  BY DEF quorum_size
<1> QED BY <1>1, <1>2

\* Quorums intersect while the validator set grows to at most twice its size and
\* one more: a promoted cohort within the fraction cap is far below that.
THEOREM GrowingSetsMeet ==
  ASSUME NEW V, NEW W, IsFiniteSet(W), V \subseteq W,
         Cardinality(W) <= 2 * Cardinality(V) + 1
  PROVE  QuorumsMeet(V, W) /\ QuorumsMeet(W, V)
<1>1. IsFiniteSet(V) /\ Cardinality(V) <= Cardinality(W)
  BY FS_Subset
<1>2. Cardinality(V) \in Nat /\ Cardinality(W) \in Nat
  BY <1>1, FS_CardinalityType
<1>3. V \cup W = W /\ W \cup V = W
  OBVIOUS
<1>4. Cardinality(W) < quorum_size(Cardinality(V)) + quorum_size(Cardinality(W))
  BY <1>1, <1>2, QuorumsOfGrownSet
<1>5. quorum_size(Cardinality(V)) \in Int /\ quorum_size(Cardinality(W)) \in Int
  BY <1>2 DEF quorum_size
<1>6. Cardinality(W) < quorum_size(Cardinality(W)) + quorum_size(Cardinality(V))
  BY <1>2, <1>4, <1>5
<1>7. QuorumsMeet(V, W)
  BY <1>1, <1>3, <1>4, CrowdedQuorumsMeet
<1>8. QuorumsMeet(W, V)
  BY <1>1, <1>3, <1>6, CrowdedQuorumsMeet
<1> QED BY <1>7, <1>8
=============================================================================
