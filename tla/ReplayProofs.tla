---------------------------- MODULE ReplayProofs ----------------------------
(***************************************************************************)
(* Proofs about what is derived from a chain alone: that a replay of the    *)
(* chain ends where is_valid_chain is, for chains and blocks of any length, *)
(* and what follows from that.                                              *)
(***************************************************************************)
EXTENDS LedgerProofs

-----------------------------------------------------------------------------
(***************************************************************************)
(* The loops of the replay: over the transactions of a block, and over the  *)
(* blocks of a chain, for the weights and for the promotions.               *)
(***************************************************************************)
BlockFirst(x) == x.from

WeightStep(x, w, k) == apply_transaction(w, x.block[k], x.below, x.validators)

Weights == INSTANCE Iteration WITH First <- BlockFirst, Step <- WeightStep, Pick <- AnyOf

PromotionStep(x, at, k) == apply_promotion(at, x.block[k], x.weight, x.index)

Promotions == INSTANCE Iteration WITH First <- BlockFirst, Step <- PromotionStep, Pick <- AnyOf

FromGenesis(c) == Genesis

RegistryStep(c, w, n) == apply_block(w, c[n], Txs(Below(c, n)), consensus_authorities(w))

Registry == INSTANCE Iteration WITH First <- FromGenesis, Step <- RegistryStep, Pick <- AnyOf

FromNobody(c) == [p \in Person |-> 0]

CohortStep(c, at, n) == apply_promotions(at, c[n], derive_registry(c, n), n)

Cohorts == INSTANCE Iteration WITH First <- FromNobody, Step <- CohortStep, Pick <- AnyOf

WeightLoop(w, b, T, V) == [from |-> w, block |-> b, below |-> T, validators |-> V]

PromotionLoop(at, b, w, n) == [from |-> at, block |-> b, weight |-> w, index |-> n]

LEMMA Loops ==
  /\ \A w, b, T, V :
       apply_block(w, b, T, V) = Weights!iterate(WeightLoop(w, b, T, V), Len(b))
  /\ \A at, b, w, n :
       apply_promotions(at, b, w, n) = Promotions!iterate(PromotionLoop(at, b, w, n), Len(b))
  /\ \A c, i : derive_registry(c, i) = Registry!iterate(c, i - 1)
  /\ \A c, i : promotions(c, i) = Cohorts!iterate(c, i - 1)
<1>1. ASSUME NEW w, NEW b, NEW T, NEW V
      PROVE  apply_block(w, b, T, V) = Weights!iterate(WeightLoop(w, b, T, V), Len(b))
  BY DEF apply_block, Weights!iterate, WeightLoop, BlockFirst, WeightStep
<1>2. ASSUME NEW at, NEW b, NEW w, NEW n
      PROVE  apply_promotions(at, b, w, n)
               = Promotions!iterate(PromotionLoop(at, b, w, n), Len(b))
  BY DEF apply_promotions, Promotions!iterate, PromotionLoop, BlockFirst, PromotionStep
<1>3. ASSUME NEW c, NEW i PROVE derive_registry(c, i) = Registry!iterate(c, i - 1)
  BY DEF derive_registry, Registry!iterate, FromGenesis, RegistryStep
<1>4. ASSUME NEW c, NEW i PROVE promotions(c, i) = Cohorts!iterate(c, i - 1)
  BY DEF promotions, Cohorts!iterate, FromNobody, CohortStep
<1> QED BY <1>1, <1>2, <1>3, <1>4

LEMMA AppendOne ==
  ASSUME NEW S, NEW s \in Seq(S), NEW t \in S
  PROVE  /\ Append(s, t) \in Seq(S) /\ Len(Append(s, t)) = Len(s) + 1 /\ Len(s) \in Nat
         /\ Append(s, t)[Len(s) + 1] = t
         /\ \A k \in 1 .. Len(s) : Append(s, t)[k] = s[k]
OBVIOUS

\* The weights after a block, transaction by transaction.
LEMMA EmptyBlock == \A w, T, V : apply_block(w, <<>>, T, V) = w
<1> SUFFICES ASSUME NEW w, NEW T, NEW V PROVE apply_block(w, <<>>, T, V) = w
  OBVIOUS
<1>1. Weights!iterate(WeightLoop(w, <<>>, T, V), 0) = BlockFirst(WeightLoop(w, <<>>, T, V))
  BY Weights!Iterates
<1> QED BY <1>1, Loops DEF WeightLoop, BlockFirst

LEMMA BlockWeights ==
  ASSUME NEW w, NEW T, NEW V, NEW S, NEW b \in Seq(S), NEW t \in S
  PROVE  apply_block(w, Append(b, t), T, V)
           = apply_transaction(apply_block(w, b, T, V), t, T, V)
<1> PICK x : x = WeightLoop(w, Append(b, t), T, V)
  OBVIOUS
<1> PICK y : y = WeightLoop(w, b, T, V)
  OBVIOUS
<1>1. Weights!iterate(x, Len(b) + 1) = WeightStep(x, Weights!iterate(x, Len(b)), Len(b) + 1)
  BY AppendOne, Weights!Iterates
<1>2. \A k \in 1 .. Len(b) : \A v : WeightStep(x, v, k) = WeightStep(y, v, k)
  BY AppendOne DEF WeightStep, WeightLoop
<1>3. Weights!iterate(x, Len(b)) = Weights!iterate(y, Len(b))
  <2>1. BlockFirst(x) = BlockFirst(y)
    BY DEF BlockFirst, WeightLoop
  <2> QED BY <1>2, <2>1, AppendOne, Weights!SameLoop
<1>4. \A v : WeightStep(x, v, Len(b) + 1) = apply_transaction(v, t, T, V)
  BY AppendOne DEF WeightStep, WeightLoop
<1> QED BY <1>1, <1>3, <1>4, Loops, AppendOne

LEMMA NoMorePromotions == \A at, w, n : apply_promotions(at, <<>>, w, n) = at
<1> SUFFICES ASSUME NEW at, NEW w, NEW n PROVE apply_promotions(at, <<>>, w, n) = at
  OBVIOUS
<1>1. Promotions!iterate(PromotionLoop(at, <<>>, w, n), 0)
        = BlockFirst(PromotionLoop(at, <<>>, w, n))
  BY Promotions!Iterates
<1> QED BY <1>1, Loops DEF PromotionLoop, BlockFirst

LEMMA BlockPromotions ==
  ASSUME NEW at, NEW w, NEW n, NEW S, NEW b \in Seq(S), NEW t \in S
  PROVE  apply_promotions(at, Append(b, t), w, n)
           = apply_promotion(apply_promotions(at, b, w, n), t, w, n)
<1> PICK x : x = PromotionLoop(at, Append(b, t), w, n)
  OBVIOUS
<1> PICK y : y = PromotionLoop(at, b, w, n)
  OBVIOUS
<1>1. Promotions!iterate(x, Len(b) + 1)
        = PromotionStep(x, Promotions!iterate(x, Len(b)), Len(b) + 1)
  BY AppendOne, Promotions!Iterates
<1>2. \A k \in 1 .. Len(b) : \A v : PromotionStep(x, v, k) = PromotionStep(y, v, k)
  BY AppendOne DEF PromotionStep, PromotionLoop
<1>3. Promotions!iterate(x, Len(b)) = Promotions!iterate(y, Len(b))
  <2>1. BlockFirst(x) = BlockFirst(y)
    BY DEF BlockFirst, PromotionLoop
  <2> QED BY <1>2, <2>1, AppendOne, Promotions!SameLoop
<1>4. \A v : PromotionStep(x, v, Len(b) + 1) = apply_promotion(v, t, w, n)
  BY AppendOne DEF PromotionStep, PromotionLoop
<1> QED BY <1>1, <1>3, <1>4, Loops, AppendOne

LEMMA BelowAppend ==
  ASSUME NEW S, NEW c \in Seq(S), NEW b \in S, NEW i \in 1 .. Len(c) + 1
  PROVE  /\ Below(Append(c, b), i) = Below(c, i)
         /\ Below(Append(c, b), Len(c) + 1) = c
<1>1. ASSUME NEW j \in 1 .. Len(c) + 1
      PROVE  SubSeq(Append(c, b), 1, j - 1) = SubSeq(c, 1, j - 1)
  OBVIOUS
<1>2. SubSeq(c, 1, Len(c)) = c
  OBVIOUS
<1>3. Len(c) + 1 \in 1 .. Len(c) + 1 /\ (Len(c) + 1) - 1 = Len(c)
  OBVIOUS
<1> QED BY <1>1, <1>2, <1>3 DEF Below

\* A block changes nothing of what the blocks below it imply.
LEMMA RegistryOfPrefix ==
  ASSUME NEW S, NEW c \in Seq(S), NEW b \in S, NEW i \in 1 .. Len(c) + 1
  PROVE  derive_registry(Append(c, b), i) = derive_registry(c, i)
<1> PICK d : d = Append(c, b)
  OBVIOUS
<1>1. i - 1 \in Nat /\ i - 1 <= Len(c) /\ Len(c) \in Nat
  OBVIOUS
<1>2. ASSUME NEW n \in 1 .. (i - 1), NEW w
      PROVE  RegistryStep(d, w, n) = RegistryStep(c, w, n)
  <2>1. n \in 1 .. Len(c) /\ n \in 1 .. Len(c) + 1
    BY <1>1
  <2>2. d[n] = c[n] /\ Below(d, n) = Below(c, n)
    BY <2>1, AppendOne, BelowAppend
  <2> QED BY <2>2 DEF RegistryStep
<1>3. FromGenesis(d) = FromGenesis(c)
  BY DEF FromGenesis
<1>4. Registry!iterate(d, i - 1) = Registry!iterate(c, i - 1)
  BY <1>1, <1>2, <1>3, Registry!SameLoop
<1> QED BY <1>4, Loops

LEMMA PromotionsOfPrefix ==
  ASSUME NEW S, NEW c \in Seq(S), NEW b \in S, NEW i \in 1 .. Len(c) + 1
  PROVE  promotions(Append(c, b), i) = promotions(c, i)
<1> PICK d : d = Append(c, b)
  OBVIOUS
<1>1. i - 1 \in Nat /\ i - 1 <= Len(c) /\ Len(c) \in Nat
  OBVIOUS
<1>2. ASSUME NEW n \in 1 .. (i - 1), NEW at
      PROVE  CohortStep(d, at, n) = CohortStep(c, at, n)
  <2>1. n \in 1 .. Len(c) /\ n \in 1 .. Len(c) + 1
    BY <1>1
  <2>2. d[n] = c[n] /\ derive_registry(d, n) = derive_registry(c, n)
    BY <2>1, AppendOne, RegistryOfPrefix
  <2> QED BY <2>2 DEF CohortStep
<1>3. FromNobody(d) = FromNobody(c)
  BY DEF FromNobody
<1>4. Cohorts!iterate(d, i - 1) = Cohorts!iterate(c, i - 1)
  BY <1>1, <1>2, <1>3, Cohorts!SameLoop
<1> QED BY <1>4, Loops

\* What a chain implies, block by block.
LEMMA NextBlock ==
  ASSUME NEW S, NEW c \in Seq(S), NEW b \in S, NEW i, i = Len(c) + 1
  PROVE  /\ derive_registry(Append(c, b), i + 1)
              = apply_block(derive_registry(c, i), b, Txs(c),
                            consensus_authorities(derive_registry(c, i)))
         /\ promotions(Append(c, b), i + 1)
              = apply_promotions(promotions(c, i), b, derive_registry(c, i), i)
<1> PICK d : d = Append(c, b)
  OBVIOUS
<1>1. /\ i - 1 \in Nat /\ (i - 1) + 1 = i /\ (i + 1) - 1 = i /\ i \in 1 .. Len(c) + 1
      /\ i - 1 = Len(c)
  OBVIOUS
<1>2. d[i] = b /\ Below(d, i) = c /\ derive_registry(d, i) = derive_registry(c, i)
      /\ promotions(d, i) = promotions(c, i)
  BY <1>1, AppendOne, BelowAppend, RegistryOfPrefix, PromotionsOfPrefix
<1>3. Registry!iterate(d, i) = RegistryStep(d, Registry!iterate(d, i - 1), i)
  BY <1>1, Registry!Iterates
<1>4. Cohorts!iterate(d, i) = CohortStep(d, Cohorts!iterate(d, i - 1), i)
  BY <1>1, Cohorts!Iterates
<1>5. derive_registry(d, i + 1) = RegistryStep(d, derive_registry(d, i), i)
  BY <1>1, <1>3, Loops
<1>6. promotions(d, i + 1) = CohortStep(d, promotions(d, i), i)
  BY <1>1, <1>4, Loops
<1> QED BY <1>2, <1>5, <1>6 DEF RegistryStep, CohortStep

LEMMA NoBlocks ==
  derive_registry(<<>>, 1) = Genesis /\ promotions(<<>>, 1) = [p \in Person |-> 0]
<1>1. Registry!iterate(<<>>, 0) = Genesis
  BY Registry!Iterates DEF FromGenesis
<1>2. Cohorts!iterate(<<>>, 0) = [p \in Person |-> 0]
  BY Cohorts!Iterates DEF FromNobody
<1> QED BY <1>1, <1>2, Loops

-----------------------------------------------------------------------------
(***************************************************************************)
(* The invariant: the weights and the promotions that is_valid_chain has at *)
(* hand are those of the replay, at the start of the open block and after   *)
(* the transactions in it; and a promotion of the open block is told from   *)
(* an earlier one by its block.                                             *)
(***************************************************************************)
Earlier == promotions(chain, Index)

Replayed ==
  /\ prefix.weight = derive_registry(chain, Index)
  /\ weight = apply_block(prefix.weight, block, Txs(chain), consensus_authorities(prefix.weight))
  /\ promotedAt = apply_promotions(Earlier, block, prefix.weight, Index)
  /\ \A p \in Person :
       /\ Earlier[p] \in 0 .. Len(chain)
       /\ promotedAt[p] = Earlier[p] \/ (Earlier[p] = 0 /\ promotedAt[p] = Index)

LEMMA InitReplayed == Init => Replayed
<1> SUFFICES ASSUME Init PROVE Replayed
  OBVIOUS
<1>1. chain = <<>> /\ block = <<>> /\ Index = 1 /\ Len(chain) = 0
  BY DEF Init, Index
<1>2. prefix.weight = Genesis /\ weight = Genesis /\ promotedAt = [p \in Person |-> 0]
  BY DEF Init
<1>3. Earlier = [p \in Person |-> 0]
  BY <1>1, NoBlocks DEF Earlier
<1> QED BY <1>1, <1>2, <1>3, NoBlocks, EmptyBlock, NoMorePromotions DEF Replayed

\* A transaction does to the state what the replay of the block does.
LEMMA PackReplayed ==
  ASSUME IInv, Replayed, NEW t \in offered, Pack(t),
         weight' = apply_transaction(weight, t, Txs(chain), consensus_authorities(prefix.weight)),
         promotedAt' = apply_promotion(promotedAt, t, prefix.weight, Index),
         \/ promotedAt' = promotedAt
         \/ promotedAt[t.candidate] = 0
            /\ promotedAt' = [promotedAt EXCEPT ![t.candidate] = Index]
  PROVE  Replayed'
<1>1. /\ t \in Transaction /\ block \in Seq(Transaction)
      /\ block' = Append(block, t) /\ chain' = chain /\ prefix' = prefix
  BY OfferedTransactions DEF IInv, Shape, Pack
<1>2. Index' = Index /\ Earlier' = Earlier /\ Index \in Nat /\ Index > 0
  BY <1>1 DEF Index, Earlier, IInv, Shape
<1>3. weight' = apply_block(prefix.weight, block', Txs(chain),
                            consensus_authorities(prefix.weight))
  <2>1. \A w, T, V : apply_block(w, Append(block, t), T, V)
                       = apply_transaction(apply_block(w, block, T, V), t, T, V)
    BY <1>1, BlockWeights
  <2>2. weight = apply_block(prefix.weight, block, Txs(chain),
                             consensus_authorities(prefix.weight))
    BY DEF Replayed
  <2>3. weight' = apply_transaction(weight, t, Txs(chain),
                                    consensus_authorities(prefix.weight))
    OBVIOUS
  <2> QED BY <1>1, <2>1, <2>2, <2>3
<1>4. promotedAt' = apply_promotions(Earlier, block', prefix.weight, Index)
  <2>1. \A at, w, n : apply_promotions(at, Append(block, t), w, n)
                        = apply_promotion(apply_promotions(at, block, w, n), t, w, n)
    BY <1>1, BlockPromotions
  <2>2. promotedAt = apply_promotions(Earlier, block, prefix.weight, Index)
    BY DEF Replayed
  <2>3. promotedAt' = apply_promotion(promotedAt, t, prefix.weight, Index)
    OBVIOUS
  <2> QED BY <1>1, <2>1, <2>2, <2>3
<1>5. ASSUME NEW p \in Person
      PROVE  promotedAt'[p] = Earlier[p] \/ (Earlier[p] = 0 /\ promotedAt'[p] = Index)
  <2>1. promotedAt[p] = Earlier[p] \/ (Earlier[p] = 0 /\ promotedAt[p] = Index)
    BY DEF Replayed
  <2>2. promotedAt \in [Person -> 0 .. Index]
    BY DEF IInv, TypeOK
  <2>3. \/ promotedAt'[p] = promotedAt[p]
        \/ promotedAt[p] = 0 /\ promotedAt'[p] = Index
    BY <2>2
  <2> QED BY <1>2, <2>1, <2>3
<1> QED BY <1>1, <1>2, <1>3, <1>4, <1>5 DEF Replayed

\* A transaction of another type promotes nobody.
LEMMA NoPromotion ==
  ASSUME NEW t, t.type # "promotion", NEW at, NEW w, NEW n
  PROVE  apply_promotion(at, t, w, n) = at
BY DEF apply_promotion

LEMMA SealReplayed ==
  ASSUME IInv, Replayed, SealBlock
  PROVE  Replayed'
<1>1. /\ chain' = Append(chain, block) /\ block' = <<>> /\ prefix'.weight = weight
      /\ weight' = weight /\ promotedAt' = promotedAt
  BY DEF SealBlock
<1>2. /\ chain \in Seq(Seq(Transaction)) /\ block \in Seq(Transaction)
      /\ Index = Len(chain) + 1 /\ Index' = Index + 1 /\ Len(chain') = Index /\ Len(chain) \in Nat
  BY <1>1, AppendOne DEF IInv, Shape, Index
<1>3. derive_registry(chain', Index') = weight
  BY <1>1, <1>2, NextBlock DEF Replayed
<1>4. Earlier' = promotedAt
  BY <1>1, <1>2, NextBlock DEF Replayed, Earlier
<1>5. \A p \in Person : promotedAt[p] \in 0 .. Index
  BY DEF IInv, TypeOK
<1>6. weight' = apply_block(prefix'.weight, block', Txs(chain'),
                            consensus_authorities(prefix'.weight))
  BY <1>1, EmptyBlock
<1>7. promotedAt' = apply_promotions(Earlier', block', prefix'.weight, Index')
  BY <1>1, <1>4, NoMorePromotions
<1>8. \A p \in Person : Earlier'[p] \in 0 .. Len(chain') /\ promotedAt'[p] = Earlier'[p]
  BY <1>1, <1>2, <1>4, <1>5
<1> QED BY <1>1, <1>3, <1>6, <1>7, <1>8 DEF Replayed

LEMMA StepReplayed == IInv /\ Replayed /\ [Next]_vars => Replayed'
<1> SUFFICES ASSUME IInv, Replayed, [Next]_vars PROVE Replayed'
  OBVIOUS
<1>1. ASSUME NEW t \in offered, PostAttestation(t) \/ PostSubmission(t)
      PROVE  Replayed'
  <2>1. /\ Pack(t) /\ weight' = weight /\ promotedAt' = promotedAt
        /\ t.type = "attestation" \/ t.type = "submission"
    BY <1>1 DEF PostAttestation, PostSubmission
  <2>2. \A w, T, V : apply_transaction(w, t, T, V) = w
    BY <2>1 DEF apply_transaction
  <2>3. t.type # "promotion"
    BY <2>1
  <2>4. apply_promotion(promotedAt, t, prefix.weight, Index) = promotedAt
    BY <2>3, NoPromotion
  <2>5. weight' = apply_transaction(weight, t, Txs(chain), consensus_authorities(prefix.weight))
    BY <2>1, <2>2
  <2> QED BY <2>1, <2>4, <2>5, PackReplayed
<1>2. ASSUME NEW c \in offered, IssueCertificate(c)
      PROVE  Replayed'
  <2>1. /\ Pack(c) /\ c.type = "certificate" /\ promotedAt' = promotedAt
        /\ weight' = [weight EXCEPT ![c.scope.subject][c.scope.domain] = @ + CERTIFICATE_REWARD]
    BY <1>2 DEF IssueCertificate
  <2>2. weight' = apply_transaction(weight, c, Txs(chain), consensus_authorities(prefix.weight))
    BY <2>1 DEF apply_transaction
  <2>3. apply_promotion(promotedAt, c, prefix.weight, Index) = promotedAt
    <3>1. c.type # "promotion"
      BY <2>1
    <3> QED BY <3>1, NoPromotion
  <2> QED BY <2>1, <2>2, <2>3, PackReplayed
<1>3. ASSUME NEW s \in offered, ApplySlash(s)
      PROVE  Replayed'
  <2>1. /\ Pack(s) /\ s.type = "slash" /\ promotedAt' = promotedAt
        /\ weight' = [weight EXCEPT ![s.offender][s.domain] = Monus(@, Debit(s))]
        /\ validate_slash(s, Txs(chain), consensus_authorities(prefix.weight))
    BY <1>3 DEF ApplySlash
  <2>2. weight' = apply_transaction(weight, s, Txs(chain), consensus_authorities(prefix.weight))
    BY <2>1 DEF apply_transaction
  <2>3. apply_promotion(promotedAt, s, prefix.weight, Index) = promotedAt
    <3>1. s.type # "promotion"
      BY <2>1
    <3> QED BY <3>1, NoPromotion
  <2> QED BY <2>1, <2>2, <2>3, PackReplayed
<1>4. ASSUME NEW t \in offered, Promote(t)
      PROVE  Replayed'
  <2>1. /\ Pack(t) /\ t.type = "promotion" /\ weight' = weight
        /\ promotedAt' = [promotedAt EXCEPT ![t.candidate] = Index]
        /\ promotion_ok(t, BlockValidators, prefix.weight, Cardinality(FreshIn(promotedAt, Index)))
    BY <1>4 DEF Promote
  <2>2. t.candidate \in Person
    <3>1. t \in Transaction
      BY OfferedTransactions DEF IInv
    <3> QED BY <2>1, <3>1 DEF Transaction, Attestation, Submission, Certificate, Slash, Promotion
  <2>3. promotedAt \in [Person -> 0 .. Index] /\ Index \in Nat /\ Index > 0
    BY DEF IInv, TypeOK, Shape, Index
  <2>4. BlockValidators = consensus_authorities(prefix.weight)
                            \cup {p \in Person : promotedAt[p] > 0}
    BY <2>3 DEF BlockValidators, Validators, PromotedBefore
  <2>5. promotedAt' = apply_promotion(promotedAt, t, prefix.weight, Index)
    BY <2>1, <2>4 DEF apply_promotion
  <2>6. promotedAt[t.candidate] = 0
    <3>1. t.candidate \notin BlockValidators
      BY <2>1 DEF promotion_ok
    <3> QED BY <2>2, <2>3, <2>4, <3>1
  <2>7. weight' = apply_transaction(weight, t, Txs(chain), consensus_authorities(prefix.weight))
    BY <2>1 DEF apply_transaction
  <2> QED BY <2>1, <2>5, <2>6, <2>7, PackReplayed
<1>5. CASE UNCHANGED vars
  BY <1>5 DEF vars, Replayed, Earlier, Index
<1> QED BY <1>1, <1>2, <1>3, <1>4, <1>5, SealReplayed DEF Next

\* The state that consensus carries from block to block is what anybody who
\* replays the chain derives: the same weights, and the same validators.
THEOREM ReplayMatchesConsensus == Spec => []ReplayAgrees
<1>1. Spec => []Replayed
  BY InitReplayed, StepReplayed, Invariant, PTL DEF Spec
<1>2. IInv /\ Replayed => ReplayAgrees
  <2> SUFFICES ASSUME IInv, Replayed PROVE ReplayAgrees
    OBVIOUS
  <2>1. Index = Len(chain) + 1 /\ Len(chain) \in Nat
    BY DEF Index, IInv, Shape
  <2>2. replay_promotions(chain, Index) = PromotedBefore(promotedAt, Index)
    BY <2>1 DEF replay_promotions, PromotedBefore, Replayed, Earlier
  <2> QED BY <2>2 DEF ReplayAgrees, validator_set, Validators, Replayed
<1> QED BY <1>1, <1>2, Invariant, PTL

-----------------------------------------------------------------------------
(***************************************************************************)
(* Certificates: what becomes of the support of one that the tally mints    *)
(* on a prefix when a block is sealed above it.                             *)
(***************************************************************************)
\* A sum grows with its values.
LEMMA SumGrows ==
  ASSUME NEW S, IsFiniteSet(S), NEW f, NEW g,
         \A x \in S : f[x] \in Nat /\ g[x] \in Nat /\ f[x] <= g[x]
  PROVE  SumFunctionOnSet(f, S) <= SumFunctionOnSet(g, S)
<1> DEFINE Right(T) == SumFunctionOnSet(f, T) <= SumFunctionOnSet(g, T)
           G == {T \in SUBSET S : Right(T)}
<1>1. {} \in G
  <2>1. SumFunctionOnSet(f, {}) = 0 /\ SumFunctionOnSet(g, {}) = 0
    BY SumUnfolds, FS_EmptySet
  <2> QED BY <2>1
<1>2. ASSUME NEW T \in SUBSET S, T # {}, \A x \in T : T \ {x} \in G PROVE T \in G
  <2>1. PICK a : a = AnyOf(T)
    OBVIOUS
  <2>2. a \in T /\ IsFiniteSet(T) /\ IsFiniteSet(T \ {a})
    BY <1>2, <2>1, FS_Subset DEF AnyOf
  <2>3. Right(T \ {a})
    BY <1>2, <2>2
  <2>4. /\ SumFunctionOnSet(f, T) = f[a] + SumFunctionOnSet(f, T \ {a})
        /\ SumFunctionOnSet(g, T) = g[a] + SumFunctionOnSet(g, T \ {a})
    BY <1>2, <2>1, <2>2, SumUnfolds
  <2>5. SumFunctionOnSet(f, T \ {a}) \in Nat /\ SumFunctionOnSet(g, T \ {a}) \in Nat
    <3>1. (\A x \in T \ {a} : f[x] \in Nat) /\ \A x \in T \ {a} : g[x] \in Nat
      OBVIOUS
    <3> QED BY <2>2, <3>1, SumType
  <2>6. f[a] \in Nat /\ g[a] \in Nat /\ f[a] <= g[a]
    BY <2>2
  <2> QED BY <2>3, <2>4, <2>5, <2>6
<1> HIDE DEF G
<1>3. SUBSET S \subseteq G
  BY <1>1, <1>2, SubsetInduction
<1> QED BY <1>3 DEF G

\* So does the weight of a set of attesters.
LEMMA WeightGrows ==
  ASSUME NEW A, IsFiniteSet(A), NEW d, NEW v, NEW w,
         \A a \in A : v[a][d] \in Nat /\ w[a][d] \in Nat /\ v[a][d] <= w[a][d]
  PROVE  /\ Weight(v, d, A) \in Nat /\ Weight(w, d, A) \in Nat
         /\ Weight(v, d, A) <= Weight(w, d, A)
<1>1. PICK f : f = [a \in A |-> v[a][d]]
  OBVIOUS
<1>2. PICK g : g = [a \in A |-> w[a][d]]
  OBVIOUS
<1>3. \A a \in A : f[a] \in Nat /\ g[a] \in Nat /\ f[a] <= g[a]
  BY <1>1, <1>2
<1>4. SumFunctionOnSet(f, A) <= SumFunctionOnSet(g, A)
  BY <1>3, SumGrows
<1>5. DOMAIN f = A /\ DOMAIN g = A
  BY <1>1, <1>2
<1>6. Weight(v, d, A) <= Weight(w, d, A)
  BY <1>1, <1>2, <1>4, <1>5 DEF Weight, SumFunction, SumFunctionOnSet, FoldFunction
<1> QED BY <1>6, WeightType

\* The clusters are finitely many sets of attesters.
LEMMA ClusterShape ==
  ASSUME NEW T, NEW A, IsFiniteSet(A)
  PROVE  IsFiniteSet(attester_clusters(T, A)) /\ \A C \in attester_clusters(T, A) : C \subseteq A
<1>1. PICK P : P = united(MutualTies(T, A), A)
  OBVIOUS
<1>2. PICK S : S = attester_clusters(T, A)
  OBVIOUS
<1>3. S = {{b \in A : find(P, b) = r} : r \in {find(P, b) : b \in A}}
  BY <1>1, <1>2 DEF attester_clusters
<1>4. PICK h : h = [b \in A |-> {y \in A : find(P, y) = find(P, b)}]
  OBVIOUS
<1>5. h \in Surjection(A, S)
  <2>1. \A b \in A : h[b] \in S
    BY <1>3, <1>4
  <2>2. \A C \in S : \E b \in A : h[b] = C
    BY <1>3, <1>4
  <2> QED BY <1>4, <2>1, <2>2 DEF Surjection
<1>6. IsFiniteSet(S)
  BY <1>5, FS_Surjection
<1> QED BY <1>2, <1>3, <1>6

\* With the same ties, more weight is more support: the cap of a cluster is a
\* share of the total, and grows with it.
LEMMA SupportGrows ==
  ASSUME NEW T, NEW U, NEW A \in SUBSET Person, NEW d, NEW v, NEW w,
         MutualTies(T, A) = MutualTies(U, A),
         \A a \in A : v[a][d] \in Nat /\ w[a][d] \in Nat /\ v[a][d] <= w[a][d]
  PROVE  /\ capped_support(T, v, d, A) \in Nat /\ capped_support(U, w, d, A) \in Nat
         /\ capped_support(T, v, d, A) <= capped_support(U, w, d, A)
<1>1. IsFiniteSet(A)
  BY PersonAssumption, FS_Subset
<1>2. PICK S : S = attester_clusters(T, A)
  OBVIOUS
<1>3. attester_clusters(U, A) = S
  BY <1>2 DEF attester_clusters
<1>4. IsFiniteSet(S) /\ \A C \in S : C \subseteq A /\ IsFiniteSet(C)
  BY <1>1, <1>2, ClusterShape, FS_Subset
<1>5. PICK x : x = Weight(v, d, A)
  OBVIOUS
<1>6. PICK y : y = Weight(w, d, A)
  OBVIOUS
<1>7. x \in Nat /\ y \in Nat /\ x <= y
  BY <1>1, <1>5, <1>6, WeightGrows
<1> DEFINE capv == (34 * x) \div 100
           capw == (34 * y) \div 100
<1>8. capv \in Nat /\ capw \in Nat /\ capv <= capw
  BY <1>7
<1> HIDE DEF capv, capw
<1>9. PICK f : f = [C \in S |-> IF Cardinality(C) >= 2 /\ Weight(v, d, C) > capv
                                THEN capv ELSE Weight(v, d, C)]
  OBVIOUS
<1>10. PICK g : g = [C \in S |-> IF Cardinality(C) >= 2 /\ Weight(w, d, C) > capw
                                 THEN capw ELSE Weight(w, d, C)]
  OBVIOUS
<1>11. ASSUME NEW C \in S PROVE f[C] \in Nat /\ g[C] \in Nat /\ f[C] <= g[C]
  <2>1. \A a \in C : v[a][d] \in Nat /\ w[a][d] \in Nat /\ v[a][d] <= w[a][d]
    BY <1>4
  <2>2. /\ Weight(v, d, C) \in Nat /\ Weight(w, d, C) \in Nat
        /\ Weight(v, d, C) <= Weight(w, d, C)
    BY <1>4, <2>1, WeightGrows
  <2> QED BY <1>8, <1>9, <1>10, <2>2
<1>12. \A C \in S : f[C] \in Nat /\ g[C] \in Nat /\ f[C] <= g[C]
  BY <1>11
<1>13. /\ SumFunctionOnSet(f, S) \in Nat /\ SumFunctionOnSet(g, S) \in Nat
       /\ SumFunctionOnSet(f, S) <= SumFunctionOnSet(g, S)
  BY <1>4, <1>12, SumType, SumGrows
<1>14. capped_support(T, v, d, A) = SumFunctionOnSet(f, S)
  BY <1>2, <1>5, <1>9
     DEF capv, capped_support, ALPHA_NUM, ALPHA_DEN, SumFunction, SumFunctionOnSet, FoldFunction
<1>15. capped_support(U, w, d, A) = SumFunctionOnSet(g, S)
  BY <1>3, <1>6, <1>10
     DEF capw, capped_support, ALPHA_NUM, ALPHA_DEN, SumFunction, SumFunctionOnSet, FoldFunction
<1> QED BY <1>13, <1>14, <1>15

(***************************************************************************)
(* Within a block, a weight falls below that of the prefix only by a slash  *)
(* in the block, and rises above it only by a certificate.                  *)
(***************************************************************************)
Slashed(p, d) == \E s \in OfType(TxsIn(block), "slash") : s.offender = p /\ s.domain = d

Certified(p, d) ==
  \E c \in OfType(TxsIn(block), "certificate") : c.scope.subject = p /\ c.scope.domain = d

Drift ==
  \A p \in Person, d \in Domain :
    /\ weight[p][d] < prefix.weight[p][d] => Slashed(p, d)
    /\ weight[p][d] > prefix.weight[p][d] => Certified(p, d)

LEMMA InitDrift == Init => Drift
<1> SUFFICES ASSUME Init, NEW p \in Person, NEW d \in Domain
             PROVE  weight[p][d] = prefix.weight[p][d] /\ weight[p][d] \in Nat
  BY DEF Drift
<1> QED BY GenesisAssumption DEF Init

LEMMA StepDrift == IInv /\ Drift /\ [Next]_vars => Drift'
<1> SUFFICES ASSUME IInv, Drift, [Next]_vars
             PROVE  Drift'
  OBVIOUS
<1>1. CASE UNCHANGED vars
  BY <1>1 DEF vars, Drift, Slashed, Certified
<1>2. CASE SealBlock
  <2>1. prefix'.weight = weight /\ weight' = weight
    BY <1>2 DEF SealBlock
  <2>2. \A p \in Person, d \in Domain : weight[p][d] \in Nat
    BY DEF IInv, TypeOK
  <2> QED BY <2>1, <2>2 DEF Drift
<1>3. ASSUME NEW t \in offered, Pack(t)
      PROVE  /\ prefix' = prefix /\ TxsIn(block') = TxsIn(block) \cup {t}
             /\ \A p, d : /\ Slashed(p, d) => (Slashed(p, d))'
                          /\ Certified(p, d) => (Certified(p, d))'
  <2>1. TxsIn(block') = TxsIn(block) \cup {t}
    BY <1>3, TxsInAppend, OfferedTransactions DEF IInv, Shape, Pack
  <2>2. prefix' = prefix
    BY <1>3 DEF Pack
  <2> QED BY <2>1, <2>2 DEF Slashed, Certified, OfType
<1>4. ASSUME NEW t \in offered, PostAttestation(t) \/ PostSubmission(t) \/ Promote(t)
      PROVE  Drift'
  <2>1. Pack(t) /\ weight' = weight
    BY <1>4 DEF PostAttestation, PostSubmission, Promote
  <2> QED BY <1>3, <2>1 DEF Drift
<1>5. ASSUME NEW c \in offered, IssueCertificate(c)
      PROVE  Drift'
  <2>1. /\ Pack(c) /\ c.type = "certificate"
        /\ weight' = [weight EXCEPT ![c.scope.subject][c.scope.domain] = @ + CERTIFICATE_REWARD]
    BY <1>5 DEF IssueCertificate
  <2>2. SUFFICES ASSUME NEW p \in Person, NEW d \in Domain
                 PROVE  /\ weight'[p][d] < prefix'.weight[p][d] => (Slashed(p, d))'
                        /\ weight'[p][d] > prefix'.weight[p][d] => (Certified(p, d))'
    BY DEF Drift
  <2>3. CASE p = c.scope.subject /\ d = c.scope.domain
    <3>1. (Certified(p, d))'
      BY <1>3, <2>1, <2>3 DEF Certified, OfType
    <3>2. weight'[p][d] >= weight[p][d] /\ weight[p][d] \in Nat /\ weight'[p][d] \in Nat
      BY <2>1, <2>3, RewardsAssumption DEF IInv, TypeOK
    <3>3. prefix'.weight[p][d] = prefix.weight[p][d] /\ prefix.weight[p][d] \in Nat
      BY <1>3, <2>1 DEF IInv, TypeOK
    <3> QED BY <1>3, <2>1, <3>1, <3>2, <3>3 DEF Drift
  <2>4. CASE ~(p = c.scope.subject /\ d = c.scope.domain)
    <3>1. weight'[p][d] = weight[p][d]
      BY <2>1, <2>4 DEF IInv, TypeOK
    <3> QED BY <1>3, <2>1, <3>1 DEF Drift
  <2> QED BY <2>3, <2>4
<1>6. ASSUME NEW s \in offered, ApplySlash(s)
      PROVE  Drift'
  <2>1. /\ Pack(s) /\ s.type = "slash"
        /\ weight' = [weight EXCEPT ![s.offender][s.domain] = Monus(@, Debit(s))]
    BY <1>6 DEF ApplySlash
  <2>2. Debit(s) \in Nat
    <3>1. s \in Transaction
      BY OfferedTransactions DEF IInv
    <3>2. s.amount \in Nat
      BY <2>1, <3>1 DEF Transaction, Attestation, Submission, Certificate, Slash, Promotion
    <3> QED BY <3>2 DEF Debit, MAX_SLASH
  <2>3. SUFFICES ASSUME NEW p \in Person, NEW d \in Domain
                 PROVE  /\ weight'[p][d] < prefix'.weight[p][d] => (Slashed(p, d))'
                        /\ weight'[p][d] > prefix'.weight[p][d] => (Certified(p, d))'
    BY DEF Drift
  <2>4. CASE p = s.offender /\ d = s.domain
    <3>1. (Slashed(p, d))'
      BY <1>3, <2>1, <2>4 DEF Slashed, OfType
    <3>2. weight'[p][d] <= weight[p][d] /\ weight[p][d] \in Nat /\ weight'[p][d] \in Nat
      BY <2>1, <2>2, <2>4 DEF IInv, TypeOK, Monus
    <3>3. prefix'.weight[p][d] = prefix.weight[p][d] /\ prefix.weight[p][d] \in Nat
      BY <1>3, <2>1 DEF IInv, TypeOK
    <3> QED BY <1>3, <2>1, <3>1, <3>2, <3>3 DEF Drift
  <2>5. CASE ~(p = s.offender /\ d = s.domain)
    <3>1. weight'[p][d] = weight[p][d]
      BY <2>1, <2>5 DEF IInv, TypeOK
    <3> QED BY <1>3, <2>1, <3>1 DEF Drift
  <2> QED BY <2>4, <2>5
<1> QED BY <1>1, <1>2, <1>4, <1>5, <1>6 DEF Next
(***************************************************************************)
(* What a block leaves of the ground of a certificate that it does not      *)
(* shake: the same attesters, with the same ties, who carry at least as     *)
(* much weight, those without any still none.                               *)
(***************************************************************************)
LEMMA SameAttesters ==
  ASSUME NEW T, NEW B, NEW scope, NEW submission,
         \A a \in PositiveReviews(B, scope, submission) :
           a.sender \in positive_attesters(T, scope, submission)
  PROVE  /\ positive_attesters(T \cup B, scope, submission)
              = positive_attesters(T, scope, submission)
         /\ \A i : positive_attesters_by_item(T, scope, submission, i)
                     \subseteq positive_attesters_by_item(T \cup B, scope, submission, i)
<1>1. PositiveReviews(T \cup B, scope, submission)
        = PositiveReviews(T, scope, submission) \cup PositiveReviews(B, scope, submission)
  BY DEF PositiveReviews, OfType
<1>2. positive_attesters(T \cup B, scope, submission)
        = positive_attesters(T, scope, submission)
  BY <1>1 DEF positive_attesters
<1> QED BY <1>1, <1>2 DEF positive_attesters_by_item

LEMMA SameTies ==
  ASSUME NEW T, NEW B, NEW A,
         \A p \in positive_pairs(B) :
           p[1] # p[2] /\ p \in A \X A => <<p[2], p[1]>> \notin positive_pairs(T \cup B),
         A \subseteq Nat
  PROVE  MutualTies(T, A) = MutualTies(T \cup B, A)
<1>1. positive_pairs(T \cup B) = positive_pairs(T) \cup positive_pairs(B)
  BY DEF positive_pairs, OfType
<1>2. ASSUME NEW a \in A, NEW b \in A, a < b,
             <<a, b>> \in positive_pairs(T \cup B), <<b, a>> \in positive_pairs(T \cup B)
      PROVE  <<a, b>> \in positive_pairs(T) /\ <<b, a>> \in positive_pairs(T)
  <2>1. a # b
    BY <1>2
  <2>2. <<a, b>> \notin positive_pairs(B)
    BY <1>2, <2>1
  <2>3. <<b, a>> \notin positive_pairs(B)
    BY <1>2, <2>1
  <2> QED BY <1>1, <1>2, <2>2, <2>3
<1>3. ASSUME NEW tie \in A \X A
      PROVE  tie \in MutualTies(T, A) <=> tie \in MutualTies(T \cup B, A)
  <2>1. PICK a \in A, b \in A : tie = <<a, b>>
    OBVIOUS
  <2>2. \A X : tie \in MutualTies(X, A) <=>
               a < b /\ <<a, b>> \in positive_pairs(X) /\ <<b, a>> \in positive_pairs(X)
    BY <2>1 DEF MutualTies
  <2> QED BY <1>1, <1>2, <2>2
<1> QED BY <1>3 DEF MutualTies

LEMMA PositivePersons ==
  ASSUME IInv, NEW scope, NEW submission
  PROVE  positive_attesters(Txs(chain), scope, submission) \subseteq Person
<1>1. ASSUME NEW a \in PositiveReviews(Txs(chain), scope, submission)
      PROVE  a.sender \in Person
  <2>1. a \in offered /\ a.type = "attestation"
    BY DEF PositiveReviews, OfType, IInv, TypeOK
  <2>2. a \in Transaction
    BY <2>1, OfferedTransactions DEF IInv
  <2> QED BY <2>1, <2>2 DEF Transaction, Attestation, Submission, Certificate, Slash, Promotion
<1> QED BY <1>1 DEF positive_attesters

LEMMA SealedGround ==
  ASSUME IInv, Drift, NEW t \in offered, t.type = "certificate",
         NEW c \in certify(Txs(chain), prefix.weight, t.scope, t.submission,
                           CERTIFICATE_THRESHOLD, t.required_items),
         ~ Shaken(c)
  PROVE  validate_certificate(c, Txs(chain) \cup TxsIn(block), weight)
<1>1. PICK T : T = Txs(chain)
  OBVIOUS
<1>2. PICK B : B = TxsIn(block)
  OBVIOUS
<1>3. PICK v : v = prefix.weight
  OBVIOUS
<1>4. PICK d : d = c.scope.domain
  OBVIOUS
<1>5. PICK A : A = positive_attesters(T, c.scope, c.submission)
  OBVIOUS
<1>6. /\ c.scope = t.scope /\ c.submission = t.submission
      /\ c.required_items = t.required_items
      /\ c.granted_by = {a \in A : v[a][d] > 0}
      /\ capped_support(T, v, d, A) >= CERTIFICATE_THRESHOLD
      /\ required_items_covered(T, v, c.scope, c.submission, c.required_items)
  <2>1. /\ capped_support(T, v, t.scope.domain,
                          positive_attesters(T, t.scope, t.submission)) >= CERTIFICATE_THRESHOLD
        /\ required_items_covered(T, v, t.scope, t.submission, t.required_items)
        /\ c = [type |-> "certificate", scope |-> t.scope, submission |-> t.submission,
                granted_by |-> Credited(T, v, t.scope, t.submission),
                required_items |-> t.required_items]
    BY <1>1, <1>3 DEF certify
  <2> QED BY <2>1, <1>4, <1>5 DEF Credited
<1>7. A \in SUBSET Person /\ d \in Domain
  <2>1. t \in Transaction
    BY OfferedTransactions DEF IInv
  <2>2. t.scope \in Scope
    BY <2>1 DEF Transaction, Attestation, Submission, Certificate, Slash, Promotion
  <2> QED BY <1>1, <1>4, <1>5, <1>6, <2>2, PositivePersons DEF Scope
<1>8. /\ \A a \in PositiveReviews(B, c.scope, c.submission) : a.sender \in A
      /\ \A s \in OfType(B, "slash") : s.domain = d => s.offender \notin c.granted_by
      /\ \A e \in OfType(B, "certificate") :
           e.scope.domain = d => e.scope.subject \notin A \ c.granted_by
      /\ \A p \in positive_pairs(B) :
           p[1] # p[2] /\ p \in A \X A => <<p[2], p[1]>> \notin positive_pairs(T \cup B)
  BY <1>1, <1>2, <1>4, <1>5 DEF Shaken
<1>9. ASSUME NEW a \in A
      PROVE  /\ v[a][d] \in Nat /\ weight[a][d] \in Nat /\ v[a][d] <= weight[a][d]
             /\ weight[a][d] > 0 <=> v[a][d] > 0
  <2>1. a \in Person
    BY <1>7
  <2>2. v[a][d] \in Nat /\ weight[a][d] \in Nat
    BY <1>3, <1>7, <2>1 DEF IInv, TypeOK
  <2>3. /\ weight[a][d] < v[a][d] => Slashed(a, d)
        /\ weight[a][d] > v[a][d] => Certified(a, d)
    BY <1>3, <1>7, <2>1 DEF Drift
  <2>4. CASE v[a][d] > 0
    <3>1. a \in c.granted_by
      BY <1>6, <2>4
    <3>2. ~ Slashed(a, d)
      BY <1>2, <1>8, <3>1 DEF Slashed
    <3> QED BY <2>2, <2>3, <2>4, <3>2
  <2>5. CASE v[a][d] = 0
    <3>1. a \notin c.granted_by
      BY <1>6, <2>5
    <3>2. ~ Certified(a, d)
      BY <1>2, <1>8, <3>1 DEF Certified
    <3> QED BY <2>2, <2>3, <2>5, <3>2
  <2> QED BY <2>2, <2>4, <2>5
<1>10. /\ positive_attesters(T \cup B, c.scope, c.submission) = A
       /\ \A i : positive_attesters_by_item(T, c.scope, c.submission, i)
                   \subseteq positive_attesters_by_item(T \cup B, c.scope, c.submission, i)
  <2>1. \A a \in PositiveReviews(B, c.scope, c.submission) :
          a.sender \in positive_attesters(T, c.scope, c.submission)
    BY <1>5, <1>8
  <2>2. /\ positive_attesters(T \cup B, c.scope, c.submission)
             = positive_attesters(T, c.scope, c.submission)
        /\ \A i : positive_attesters_by_item(T, c.scope, c.submission, i)
                    \subseteq positive_attesters_by_item(T \cup B, c.scope, c.submission, i)
    BY <2>1, SameAttesters
  <2> QED BY <1>5, <2>2
<1>11. capped_support(T \cup B, weight, d, A) >= CERTIFICATE_THRESHOLD
  <2>1. MutualTies(T, A) = MutualTies(T \cup B, A)
    BY <1>7, <1>8, SameTies, PersonAssumption
  <2>2. \A a \in A : v[a][d] \in Nat /\ weight[a][d] \in Nat /\ v[a][d] <= weight[a][d]
    BY <1>9
  <2>3. /\ capped_support(T, v, d, A) \in Nat /\ capped_support(T \cup B, weight, d, A) \in Nat
        /\ capped_support(T, v, d, A) <= capped_support(T \cup B, weight, d, A)
    BY <1>7, <2>1, <2>2, SupportGrows
  <2> QED BY <1>6, <2>3 DEF CERTIFICATE_THRESHOLD
<1>12. required_items_covered(T \cup B, weight, c.scope, c.submission, c.required_items)
  <2> SUFFICES ASSUME NEW i \in c.required_items
               PROVE  \E a \in positive_attesters_by_item(T \cup B, c.scope, c.submission, i) :
                        weight[a][d] > 0
    BY <1>4 DEF required_items_covered
  <2>1. PICK a \in positive_attesters_by_item(T, c.scope, c.submission, i) : v[a][d] > 0
    BY <1>4, <1>6 DEF required_items_covered
  <2>2. a \in A
    BY <1>5 DEF positive_attesters_by_item, positive_attesters
  <2> QED BY <1>9, <1>10, <2>1, <2>2
<1>13. c.granted_by = Credited(T \cup B, weight, c.scope, c.submission)
  BY <1>4, <1>6, <1>9, <1>10 DEF Credited
<1> QED BY <1>1, <1>2, <1>4, <1>10, <1>11, <1>12, <1>13 DEF validate_certificate

\* A certificate that the tally supports is still accepted after a block that brings no
\* new attester, slashes none it credits, certifies none it does not and ties no two of
\* them: whatever else the block holds, its support does not fall and it credits the
\* same reviewers.
THEOREM MintedUnlessShaken == Spec => MintedStaysGood
<1> DEFINE Good ==
             \A t \in OfType(offered, "certificate") :
               \A c \in certify(Txs(chain), prefix.weight, t.scope, t.submission,
                                CERTIFICATE_THRESHOLD, t.required_items) :
                 validate_certificate(c, Txs(chain'), prefix'.weight) \/ Shaken(c)
<1>1. IInv /\ Drift /\ [Next]_vars => [Good]_vars
  <2> SUFFICES ASSUME IInv, Drift, Next,
                      NEW t \in offered, t.type = "certificate",
                      NEW c \in certify(Txs(chain), prefix.weight, t.scope, t.submission,
                                        CERTIFICATE_THRESHOLD, t.required_items),
                      ~ Shaken(c)
               PROVE  validate_certificate(c, Txs(chain'), prefix'.weight)
    BY DEF OfType
  <2>1. CASE SealBlock
    <3>1. chain' = Append(chain, block) /\ prefix'.weight = weight
      BY <2>1 DEF SealBlock
    <3>2. Txs(chain') = Txs(chain) \cup TxsIn(block)
      BY <3>1, TxsAppend DEF IInv, Shape
    <3> QED BY <3>1, <3>2, SealedGround
  <2>2. CASE ~ SealBlock
    <3>1. chain' = chain /\ prefix' = prefix
      BY <2>2 DEF Next, PostAttestation, PostSubmission, IssueCertificate, ApplySlash,
                  Promote, Pack
    <3>2. validate_certificate(c, Txs(chain), prefix.weight)
      BY DEF certify, validate_certificate
    <3> QED BY <3>1, <3>2
  <2> QED BY <2>1, <2>2
<1>2. Spec => []Drift
  BY InitDrift, StepDrift, Invariant, PTL DEF Spec
<1>3. Spec => [][Good]_vars
  BY <1>1, <1>2, Invariant, PTL DEF Spec
<1> QED BY <1>3 DEF MintedStaysGood

-----------------------------------------------------------------------------
(***************************************************************************)
(* Contested certificates: what a sealed block adds to them.                *)
(***************************************************************************)
LEMMA GenuineOfPrefix ==
  ASSUME NEW S, NEW c \in Seq(S), NEW b \in S, NEW j \in 1 .. Len(c)
  PROVE  GenuineSlashes(Append(c, b), j) = GenuineSlashes(c, j)
<1>1. j \in 1 .. Len(c) + 1
  OBVIOUS
<1>2. Append(c, b)[j] = c[j]
  BY AppendOne
<1>3. Below(Append(c, b), j) = Below(c, j)
  BY <1>1, BelowAppend
<1>4. derive_registry(Append(c, b), j) = derive_registry(c, j)
  BY <1>1, RegistryOfPrefix
<1> QED BY <1>2, <1>3, <1>4 DEF GenuineSlashes

LEMMA ContestedAppend ==
  ASSUME NEW S, NEW c \in Seq(S), NEW b \in S
  PROVE  /\ Contested(c) \subseteq Contested(Append(c, b))
         /\ \A t \in Contested(Append(c, b)) \ Contested(c) :
              /\ t \in Txs(c)
              /\ \E s \in OfType(TxsIn(b), "slash") :
                   s.offender \in t.granted_by
                   /\ \E e \in s.evidence : e.submission = t.submission
<1> PICK d : d = Append(c, b)
  OBVIOUS
<1> DEFINE Cause(e, t, i, j) ==
             \E s \in GenuineSlashes(e, j) :
               s.offender \in t.granted_by /\ t.submission \in evidence_submissions(s)
<1>1. /\ \A i \in 1 .. Len(c) : d[i] = c[i]
      /\ d[Len(c) + 1] = b /\ DOMAIN c = 1 .. Len(c) /\ Len(c) \in Nat
      /\ DOMAIN d = 1 .. Len(c) + 1 /\ Len(d) = Len(c) + 1
  OBVIOUS
<1>2. \A j \in 1 .. Len(c) : GenuineSlashes(d, j) = GenuineSlashes(c, j)
  BY GenuineOfPrefix
<1>3. ASSUME NEW e, NEW t
      PROVE  t \in Contested(e) <=>
               \E i \in DOMAIN e : /\ t \in OfType(TxsIn(e[i]), "certificate")
                                  /\ \E j \in (i + 1) .. Len(e) : Cause(e, t, i, j)
  BY DEF Contested
<1>4. ASSUME NEW t \in Contested(c) PROVE t \in Contested(d)
  <2>1. PICK i \in DOMAIN c : /\ t \in OfType(TxsIn(c[i]), "certificate")
                              /\ \E j \in (i + 1) .. Len(c) : Cause(c, t, i, j)
    BY <1>3
  <2>2. PICK j \in (i + 1) .. Len(c) : Cause(c, t, i, j)
    BY <2>1
  <2>3. j \in 1 .. Len(c) /\ j \in (i + 1) .. Len(d) /\ i \in DOMAIN d /\ d[i] = c[i]
    BY <1>1
  <2>4. Cause(d, t, i, j)
    BY <1>2, <2>2, <2>3
  <2> HIDE DEF Cause
  <2> QED BY <1>3, <2>1, <2>3, <2>4
<1>5. ASSUME NEW t \in Contested(d), t \notin Contested(c)
      PROVE  /\ t \in Txs(c)
             /\ \E s \in OfType(TxsIn(b), "slash") :
                  s.offender \in t.granted_by
                  /\ \E e \in s.evidence : e.submission = t.submission
  <2>1. PICK i \in DOMAIN d : /\ t \in OfType(TxsIn(d[i]), "certificate")
                              /\ \E j \in (i + 1) .. Len(d) : Cause(d, t, i, j)
    BY <1>3
  <2>2. PICK j \in (i + 1) .. Len(d) : Cause(d, t, i, j)
    BY <2>1
  <2>3. i \in 1 .. Len(c) /\ i \in DOMAIN c /\ d[i] = c[i]
    BY <1>1
  <2>4. j = Len(c) + 1
    <3>1. SUFFICES ASSUME j # Len(c) + 1 PROVE FALSE
      OBVIOUS
    <3>2. j \in 1 .. Len(c) /\ j \in (i + 1) .. Len(c)
      BY <1>1, <2>3, <3>1
    <3>3. Cause(c, t, i, j)
      BY <1>2, <2>2, <3>2
    <3> HIDE DEF Cause
    <3> QED BY <1>3, <1>5, <2>1, <2>3, <3>2, <3>3
  <2>5. t \in Txs(c)
    BY <2>1, <2>3 DEF Txs, OfType
  <2>6. PICK s \in GenuineSlashes(d, j) :
          s.offender \in t.granted_by /\ t.submission \in evidence_submissions(s)
    BY <2>2
  <2>7. s \in OfType(TxsIn(b), "slash")
    BY <1>1, <2>4 DEF GenuineSlashes
  <2> QED BY <2>5, <2>6, <2>7 DEF evidence_submissions
<1> QED BY <1>4, <1>5

\* A certificate becomes contested in one way only, by a genuine slash of a reviewer it
\* credits that comes in a block above it, and stays contested for good.
THEOREM CertificatesContestedForCause == Spec => ContestedForCause
<1> DEFINE Caused ==
      /\ Contested(chain) \subseteq Contested(chain')
      /\ \A c \in Contested(chain') \ Contested(chain) :
           /\ c \in Txs(chain)
           /\ \E s \in OfType(TxsIn(block), "slash") :
                s.offender \in c.granted_by
                /\ \E e \in s.evidence : e.submission = c.submission
<1>1. IInv /\ [Next]_vars => [Caused]_vars
  <2> SUFFICES ASSUME IInv, Next PROVE Caused
    BY DEF vars
  <2>1. CASE chain' = chain
    BY <2>1
  <2>2. CASE SealBlock
    <3>1. chain' = Append(chain, block) /\ chain \in Seq(Seq(Transaction))
          /\ block \in Seq(Transaction)
      BY <2>2 DEF SealBlock, IInv, Shape
    <3> QED BY <3>1, ContestedAppend
  <2>3. ASSUME NEW t \in offered,
               PostAttestation(t) \/ PostSubmission(t) \/ IssueCertificate(t)
                 \/ ApplySlash(t) \/ Promote(t)
        PROVE  chain' = chain
    BY <2>3 DEF PostAttestation, PostSubmission, IssueCertificate, ApplySlash, Promote, Pack
  <2> QED BY <2>1, <2>2, <2>3 DEF Next
<1> QED BY <1>1, Invariant, PTL DEF Spec, ContestedForCause

-----------------------------------------------------------------------------
(***************************************************************************)
(* The positions of the transactions: packing one adds a position after all *)
(* others, and sealing the block moves none.                                *)
(***************************************************************************)
PositionsIn(A) == UNION {{i} \X DOMAIN A[i] : i \in DOMAIN A}

IsPlace(x, c, b) ==
  \/ \E i \in 1 .. Len(c) : \E k \in 1 .. Len(c[i]) : x = <<i, k>>
  \/ \E k \in 1 .. Len(b) : x = <<Len(c) + 1, k>>

LEMMA Places ==
  ASSUME NEW S, NEW c \in Seq(Seq(S)), NEW b \in Seq(S), NEW x
  PROVE  x \in PositionsIn(Append(c, b)) <=> IsPlace(x, c, b)
<1> PICK A : A = Append(c, b)
  OBVIOUS
<1>1. /\ DOMAIN A = (1 .. Len(c)) \cup {Len(c) + 1} /\ A[Len(c) + 1] = b
      /\ \A i \in 1 .. Len(c) : A[i] = c[i] /\ DOMAIN c[i] = 1 .. Len(c[i])
      /\ DOMAIN b = 1 .. Len(b)
  OBVIOUS
<1>2. x \in PositionsIn(A) <=> \E i \in DOMAIN A : \E k \in DOMAIN A[i] : x = <<i, k>>
  BY DEF PositionsIn
<1> QED BY <1>1, <1>2 DEF IsPlace

\* n is the one position that A has beyond those of B, the last one, and t is there.
AddsLast(B, A, n, t) ==
  /\ PositionsIn(A) = PositionsIn(B) \cup {n}
  /\ A[n[1]][n[2]] = t
  /\ \A x \in PositionsIn(B) : /\ A[x[1]][x[2]] = B[x[1]][x[2]]
                               /\ Before(x, n) /\ ~Before(n, x) /\ x # n
  /\ ~Before(n, n)

LEMMA PlacesAfterPack ==
  ASSUME NEW S, NEW c \in Seq(Seq(S)), NEW b \in Seq(S), NEW t \in S,
         NEW n, n = <<Len(c) + 1, Len(b) + 1>>
  PROVE  AddsLast(Append(c, b), Append(c, Append(b, t)), n, t)
<1> PICK d : d = Append(b, t)
  OBVIOUS
<1>1. d \in Seq(S) /\ Len(d) = Len(b) + 1 /\ d[Len(b) + 1] = t /\ Len(b) \in Nat
      /\ Len(c) \in Nat /\ \A k \in 1 .. Len(b) : d[k] = b[k]
  OBVIOUS
<1>2. \A k : k \in 1 .. Len(d) <=> k \in 1 .. Len(b) \/ k = Len(b) + 1
  BY <1>1
<1>3. \A x : x \in PositionsIn(Append(c, d)) <=> x \in PositionsIn(Append(c, b)) \cup {n}
  <2> SUFFICES ASSUME NEW x
               PROVE  x \in PositionsIn(Append(c, d)) <=> x \in PositionsIn(Append(c, b)) \/ x = n
    OBVIOUS
  <2>1. c \in Seq(Seq(S)) /\ d \in Seq(S)
    BY <1>1
  <2>2. x \in PositionsIn(Append(c, d)) <=> IsPlace(x, c, d)
    BY <2>1, Places
  <2>3. x \in PositionsIn(Append(c, b)) <=> IsPlace(x, c, b)
    BY Places
  <2> QED BY <1>2, <2>2, <2>3 DEF IsPlace
<1>4. /\ \A i \in 1 .. Len(c) : Append(c, d)[i] = c[i] /\ Append(c, b)[i] = c[i]
                                /\ Len(c[i]) \in Nat
      /\ Append(c, d)[Len(c) + 1] = d /\ Append(c, b)[Len(c) + 1] = b
  BY <1>1
<1>5. n[1] = Len(c) + 1 /\ n[2] = Len(b) + 1
  OBVIOUS
<1>6. ASSUME NEW x \in PositionsIn(Append(c, b))
      PROVE  /\ Append(c, d)[x[1]][x[2]] = Append(c, b)[x[1]][x[2]]
             /\ Before(x, n) /\ ~Before(n, x) /\ x # n
  <2>1. CASE \E i \in 1 .. Len(c) : \E k \in 1 .. Len(c[i]) : x = <<i, k>>
    <3>1. PICK i \in 1 .. Len(c) : \E k \in 1 .. Len(c[i]) : x = <<i, k>>
      BY <2>1
    <3>2. PICK k \in 1 .. Len(c[i]) : x = <<i, k>>
      BY <3>1
    <3>3. x[1] = i /\ x[2] = k
      BY <3>2
    <3> QED BY <1>1, <1>4, <1>5, <3>3 DEF Before
  <2>2. CASE \E k \in 1 .. Len(b) : x = <<Len(c) + 1, k>>
    <3>1. PICK k \in 1 .. Len(b) : x = <<Len(c) + 1, k>>
      BY <2>2
    <3>2. x[1] = Len(c) + 1 /\ x[2] = k
      BY <3>1
    <3> QED BY <1>1, <1>4, <1>5, <3>2 DEF Before
  <2>3. IsPlace(x, c, b)
    BY Places
  <2> QED BY <2>1, <2>2, <2>3 DEF IsPlace
<1>7. ~Before(n, n)
  BY <1>1, <1>5 DEF Before
<1> QED BY <1>1, <1>3, <1>4, <1>5, <1>6, <1>7 DEF AddsLast

\* A has the positions of B, with the same transactions there.
AddsNone(B, A) ==
  /\ PositionsIn(A) = PositionsIn(B)
  /\ \A x \in PositionsIn(B) : A[x[1]][x[2]] = B[x[1]][x[2]]

LEMMA PlacesAfterSeal ==
  ASSUME NEW S, NEW c \in Seq(Seq(S)), NEW b \in Seq(S)
  PROVE  AddsNone(Append(c, b), Append(Append(c, b), <<>>))
<1> PICK d : d = Append(c, b)
  OBVIOUS
<1>1. d \in Seq(Seq(S)) /\ DOMAIN d = 1 .. Len(d) /\ <<>> \in Seq(S) /\ 1 .. Len(<<>>) = {}
      /\ \A i \in 1 .. Len(d) : DOMAIN d[i] = 1 .. Len(d[i]) /\ Append(d, <<>>)[i] = d[i]
  OBVIOUS
<1>2. ASSUME NEW x
      PROVE  x \in PositionsIn(d) <=> \E i \in 1 .. Len(d) : \E k \in 1 .. Len(d[i]) : x = <<i, k>>
  BY <1>1 DEF PositionsIn
<1>3. ASSUME NEW x PROVE x \in PositionsIn(Append(d, <<>>)) <=> x \in PositionsIn(d)
  <2>1. d \in Seq(Seq(S)) /\ <<>> \in Seq(S)
    BY <1>1
  <2>2. x \in PositionsIn(Append(d, <<>>)) <=> IsPlace(x, d, <<>>)
    BY <2>1, Places
  <2> QED BY <1>1, <1>2, <2>2 DEF IsPlace
<1>4. ASSUME NEW x \in PositionsIn(d) PROVE Append(d, <<>>)[x[1]][x[2]] = d[x[1]][x[2]]
  <2>1. PICK i \in 1 .. Len(d) : \E k \in 1 .. Len(d[i]) : x = <<i, k>>
    BY <1>2
  <2>2. x[1] = i
    BY <2>1
  <2> QED BY <1>1, <2>2
<1> QED BY <1>3, <1>4 DEF AddsNone

-----------------------------------------------------------------------------
(***************************************************************************)
(* The invariant of the fates: every transaction has one position; if       *)
(* anything after a bond resolves it, the bond has a first such fate; and   *)
(* the open bonds and the balances are what the fates say.                  *)
(***************************************************************************)
Open == {x \in BondsAt : Fate(x) = {}}

\* The certificates that paid p, and the bonds that p lost.
Paid(p) == UNION {Fate(x) : x \in {y \in Resolved("certificate") : At(y).sender = p}}

Lost(p) == {At(x) : x \in {y \in Resolved("slash") : At(y).sender = p}}

Fates ==
  /\ IsFiniteSet(Positions)
  /\ {At(x) : x \in Positions} = Past
  /\ \A x, y \in Positions : At(x) = At(y) => x = y
  /\ \A x, y \in Positions : Before(x, y) /\ Resolves(At(y), At(x)) => Fate(x) # {}
  /\ bonds = {At(x) : x \in Open}
  /\ \A p \in Person :
       total[p] = Endowment[p] + REVIEW_REWARD * Cardinality(Paid(p)) - Stakes(Lost(p))

LEMMA FatesDecide == Fates => FateDecides
BY DEF Fates, FateDecides, Open, Paid, Lost

LEMMA InitFates == Init => Fates
<1> SUFFICES ASSUME Init PROVE Fates
  OBVIOUS
<1>1. DOMAIN All = {1} /\ All[1] = <<>> /\ DOMAIN All[1] = {}
  BY DEF Init, All
<1>2. Positions = {}
  BY <1>1 DEF Positions
<1>3. Past = {}
  BY DEF Init, Past, Txs, TxsIn
<1>4. BondsAt = {}
  BY <1>2 DEF BondsAt
<1>5. Open = {} /\ \A p : Paid(p) = {} /\ Lost(p) = {}
  BY <1>4 DEF Open, Paid, Lost, Resolved
<1>6. ASSUME NEW p \in Person
      PROVE  total[p] = Endowment[p] + REVIEW_REWARD * Cardinality(Paid(p)) - Stakes(Lost(p))
  <2>1. Cardinality(Paid(p)) = 0 /\ Stakes(Lost(p)) = 0
    BY <1>5, FS_EmptySet, StakesOfNone
  <2>2. total[p] = Endowment[p] /\ Endowment[p] \in Nat
    BY BalanceAssumption DEF Init
  <2> QED BY <2>1, <2>2, RewardsAssumption
<1>7. bonds = {}
  BY DEF Init
<1> QED BY <1>2, <1>3, <1>5, <1>6, <1>7, FS_EmptySet DEF Fates

LEMMA PackPlaces ==
  ASSUME IInv, NEW t \in offered, Pack(t), NEW n, n = <<Len(chain) + 1, Len(block) + 1>>
  PROVE  /\ Positions' = Positions \cup {n} /\ n \notin Positions
         /\ (At(n))' = t
         /\ \A x \in Positions : (At(x))' = At(x) /\ Before(x, n) /\ ~Before(n, x)
         /\ ~Before(n, n)
<1>1. /\ chain \in Seq(Seq(Transaction)) /\ block \in Seq(Transaction) /\ t \in Transaction
      /\ chain' = chain /\ block' = Append(block, t)
  BY OfferedTransactions DEF IInv, Shape, Pack
<1>2. All = Append(chain, block) /\ All' = Append(chain, Append(block, t))
  BY <1>1 DEF All
<1>3. Positions = PositionsIn(All) /\ Positions' = PositionsIn(All')
  BY DEF Positions, PositionsIn
<1>4. \A x : At(x) = All[x[1]][x[2]] /\ (At(x))' = All'[x[1]][x[2]]
  BY DEF At
<1>5. AddsLast(All, All', n, t)
  BY <1>1, <1>2, PlacesAfterPack
<1> QED BY <1>3, <1>4, <1>5 DEF AddsLast

\* A new transaction resolves the bonds that were open, and no other.
LEMMA PackFates ==
  ASSUME IInv, Fates, NEW t \in offered, Pack(t),
         NEW n, n = <<Len(chain) + 1, Len(block) + 1>>
  PROVE  /\ \A x \in Positions :
              (Fate(x))' = IF Fate(x) = {} /\ Resolves(t, At(x)) THEN {n} ELSE Fate(x)
         /\ (Fate(n))' = {}
         /\ (\A x, y \in Positions : At(x) = At(y) => x = y)'
         /\ IsFiniteSet(Positions') /\ ({At(x) : x \in Positions} = Past)'
         /\ (\A x, y \in Positions : Before(x, y) /\ Resolves(At(y), At(x)) => Fate(x) # {})'
<1>1. /\ Positions' = Positions \cup {n} /\ n \notin Positions
      /\ (At(n))' = t
      /\ \A x \in Positions : (At(x))' = At(x) /\ Before(x, n) /\ ~Before(n, x)
      /\ ~Before(n, n)
  BY PackPlaces
<1>2. \A x, y : y \in Fate(x) <=>
        /\ y \in Positions /\ Before(x, y) /\ Resolves(At(y), At(x))
        /\ \A z \in Positions : Before(x, z) /\ Before(z, y) => ~Resolves(At(z), At(x))
  BY DEF Fate
<1>3. \A x, y : y \in (Fate(x))' <=>
        /\ y \in Positions' /\ Before(x, y) /\ Resolves((At(y))', (At(x))')
        /\ \A z \in Positions' : Before(x, z) /\ Before(z, y) => ~Resolves((At(z))', (At(x))')
  BY DEF Fate, Resolves
<1>4. \A x, y \in Positions : Before(x, y) /\ Resolves(At(y), At(x)) => Fate(x) # {}
  BY DEF Fates
<1>5. ASSUME NEW x \in Positions
      PROVE  (Fate(x))' = IF Fate(x) = {} /\ Resolves(t, At(x)) THEN {n} ELSE Fate(x)
  <2>1. ASSUME NEW y \in Positions PROVE y \in (Fate(x))' <=> y \in Fate(x)
    BY <1>1, <1>2, <1>3
  <2>2. n \in (Fate(x))' <=> Fate(x) = {} /\ Resolves(t, At(x))
    BY <1>1, <1>2, <1>3, <1>4
  <2>3. \A y \in (Fate(x))' : y \in Positions \/ y = n
    BY <1>1, <1>3
  <2>4. \A y \in Fate(x) : y \in Positions
    BY <1>2
  <2>5. n \notin Fate(x)
    BY <1>1, <2>4
  <2>6. CASE Fate(x) = {} /\ Resolves(t, At(x))
    <3>1. \A y : y \in (Fate(x))' <=> y = n
      BY <2>1, <2>2, <2>3, <2>6
    <3> QED BY <2>6, <3>1
  <2>7. CASE ~(Fate(x) = {} /\ Resolves(t, At(x)))
    <3>1. \A y : y \in (Fate(x))' <=> y \in Fate(x)
      BY <2>1, <2>2, <2>3, <2>4, <2>5, <2>7
    <3> QED BY <2>7, <3>1
  <2> QED BY <2>6, <2>7
<1>6. (Fate(n))' = {}
  BY <1>1, <1>3
<1>7. (Past)' = Past \cup {t} /\ t \notin Past
  <2>1. t \in Transaction /\ block \in Seq(Transaction)
    BY OfferedTransactions DEF IInv, Shape
  <2>2. TxsIn(block') = TxsIn(block) \cup {t}
    BY <2>1, TxsInAppend DEF Pack
  <2> QED BY <2>2 DEF Past, Pack
<1>8. \A x, y \in Positions' : (At(x))' = (At(y))' => x = y
  <2>1. \A x \in Positions : At(x) # t
    BY <1>7 DEF Fates
  <2> QED BY <1>1, <2>1 DEF Fates
<1>9. IsFiniteSet(Positions')
  BY <1>1, FS_AddElement DEF Fates
<1>10. {(At(x))' : x \in Positions'} = (Past)'
  BY <1>1, <1>7 DEF Fates
<1>11. \A x, y \in Positions' :
         Before(x, y) /\ Resolves((At(y))', (At(x))') => (Fate(x))' # {}
  BY <1>1, <1>4, <1>5
<1>12. (\A x, y \in Positions : Before(x, y) /\ Resolves(At(y), At(x)) => Fate(x) # {})'
  BY <1>11 DEF Resolves
<1> QED BY <1>5, <1>6, <1>8, <1>9, <1>10, <1>12

\* What the new transaction t makes of the bonds: it may be one, and it takes out of the
\* open ones those that it resolves.
LEMMA PackBonds ==
  ASSUME IInv, Fates, NEW t \in offered, Pack(t),
         NEW n, n = <<Len(chain) + 1, Len(block) + 1>>
  PROVE  /\ {(At(x))' : x \in Open'}
              = {b \in bonds : ~Resolves(t, b)}
                  \cup (IF t.type = "attestation" /\ t.verdict # "abstain" THEN {t} ELSE {})
         /\ \A p : (Paid(p))' =
              Paid(p) \cup (IF /\ t.type = "certificate"
                              /\ \E b \in bonds : Resolves(t, b) /\ b.sender = p
                           THEN {n} ELSE {})
         /\ \A p : (Lost(p))' =
              Lost(p) \cup (IF t.type = "slash"
                           THEN {b \in bonds : Resolves(t, b) /\ b.sender = p} ELSE {})
<1> DEFINE IsBond == t.type = "attestation" /\ t.verdict # "abstain"
           Hit(x) == x \in Open /\ Resolves(t, At(x))
<1>1. /\ Positions' = Positions \cup {n} /\ n \notin Positions
      /\ (At(n))' = t
      /\ \A x \in Positions : (At(x))' = At(x)
  BY PackPlaces
<1>2. /\ \A x \in Positions :
           (Fate(x))' = IF Fate(x) = {} /\ Resolves(t, At(x)) THEN {n} ELSE Fate(x)
      /\ (Fate(n))' = {}
  BY PackFates
<1>3. \A x : x \in BondsAt' <=> x \in BondsAt \/ (x = n /\ IsBond)
  BY <1>1 DEF BondsAt
<1>4. BondsAt \subseteq Positions /\ Open \subseteq BondsAt
  BY DEF BondsAt, Open
<1>5. \A x : x \in Open' <=> (x \in Open /\ ~Resolves(t, At(x))) \/ (x = n /\ IsBond)
  <2>1. \A x : x \in Open' <=> x \in BondsAt' /\ (Fate(x))' = {}
    BY DEF Open
  <2>2. \A x : x \in Open <=> x \in BondsAt /\ Fate(x) = {}
    BY DEF Open
  <2> QED BY <1>1, <1>2, <1>3, <1>4, <2>1, <2>2
<1>6. \A x, type : x \in (Resolved(type))' <=> x \in Resolved(type) \/ (Hit(x) /\ t.type = type)
  <2> SUFFICES ASSUME NEW x, NEW type
               PROVE  x \in (Resolved(type))' <=> x \in Resolved(type) \/ (Hit(x) /\ t.type = type)
    OBVIOUS
  <2>1. x \in (Resolved(type))' <=> x \in BondsAt' /\ \E y \in (Fate(x))' : (At(y))'.type = type
    BY DEF Resolved
  <2>2. x \in Resolved(type) <=> x \in BondsAt /\ \E y \in Fate(x) : At(y).type = type
    BY DEF Resolved
  <2>3. x \in Open <=> x \in BondsAt /\ Fate(x) = {}
    BY DEF Open
  <2>4. Fate(x) \subseteq Positions
    BY DEF Fate
  <2>5. CASE x = n
    BY <1>1, <1>2, <1>4, <2>1, <2>2, <2>3, <2>5
  <2>6. CASE x # n /\ ~Hit(x)
    BY <1>1, <1>2, <1>3, <1>4, <2>1, <2>2, <2>3, <2>4, <2>6
  <2>7. CASE x # n /\ Hit(x)
    <3>1. (Fate(x))' = {n} /\ Fate(x) = {} /\ x \in BondsAt /\ x \in BondsAt'
      BY <1>2, <1>3, <1>4, <2>3, <2>7
    <3> QED BY <1>1, <2>1, <2>2, <2>7, <3>1
  <2> QED BY <2>5, <2>6, <2>7
<1>7. bonds = {At(x) : x \in Open}
  BY DEF Fates
<1>8. {(At(x))' : x \in Open'} = {b \in bonds : ~Resolves(t, b)} \cup (IF IsBond THEN {t} ELSE {})
  BY <1>1, <1>4, <1>5, <1>7
<1>9. ASSUME NEW p
      PROVE  (Paid(p))' = Paid(p) \cup (IF /\ t.type = "certificate"
                                         /\ \E b \in bonds : Resolves(t, b) /\ b.sender = p
                                      THEN {n} ELSE {})
  <2>1. \A y : y \in (Paid(p))' <=> \E x \in (Resolved("certificate"))' :
                                       (At(x))'.sender = p /\ y \in (Fate(x))'
    BY DEF Paid
  <2>2. \A y : y \in Paid(p) <=> \E x \in Resolved("certificate") :
                                    At(x).sender = p /\ y \in Fate(x)
    BY DEF Paid
  <2>3. \A x \in Resolved("certificate") : x \in Positions /\ Fate(x) # {}
    BY <1>4 DEF Resolved
  <2>4. \A x : Hit(x) => x \in Positions /\ (Fate(x))' = {n} /\ (At(x))' = At(x)
    BY <1>1, <1>2, <1>4 DEF Open
  <2>5. \A y : y \in (Paid(p))' <=>
           y \in Paid(p) \/ (y = n /\ t.type = "certificate" /\ \E x : Hit(x) /\ At(x).sender = p)
    BY <1>1, <1>2, <1>6, <2>1, <2>2, <2>3, <2>4
  <2>6. (\E x : Hit(x) /\ At(x).sender = p)
           <=> \E b \in bonds : Resolves(t, b) /\ b.sender = p
    BY <1>7
  <2> HIDE DEF Hit
  <2> QED BY <2>5, <2>6
<1>10. ASSUME NEW p
       PROVE  (Lost(p))' = Lost(p) \cup (IF t.type = "slash"
                                        THEN {b \in bonds : Resolves(t, b) /\ b.sender = p}
                                        ELSE {})
  <2>1. \A b : b \in (Lost(p))' <=> \E x \in (Resolved("slash"))' :
                                       (At(x))'.sender = p /\ b = (At(x))'
    BY DEF Lost
  <2>2. \A b : b \in Lost(p) <=> \E x \in Resolved("slash") : At(x).sender = p /\ b = At(x)
    BY DEF Lost
  <2>3. \A x : x \in Resolved("slash") \/ Hit(x) => x \in Positions /\ (At(x))' = At(x)
    BY <1>1, <1>4 DEF Resolved
  <2>4. \A b : b \in (Lost(p))' <=>
           b \in Lost(p) \/ (t.type = "slash" /\ \E x : Hit(x) /\ At(x).sender = p /\ b = At(x))
    BY <1>6, <2>1, <2>2, <2>3
  <2>5. \A b : (\E x : Hit(x) /\ At(x).sender = p /\ b = At(x))
           <=> b \in bonds /\ Resolves(t, b) /\ b.sender = p
    BY <1>7
  <2> HIDE DEF Hit
  <2> QED BY <2>4, <2>5
<1> QED BY <1>8, <1>9, <1>10

\* The balance of one person, after one more reward or one more loss.
LEMMA OneMore ==
  ASSUME NEW S, IsFiniteSet(S), NEW n, n \notin S
  PROVE  Cardinality(S \cup {n}) = Cardinality(S) + 1 /\ Cardinality(S) \in Nat
BY FS_AddElement, FS_CardinalityType

LEMMA OneReward ==
  ASSUME NEW e \in Nat, NEW r \in Nat, NEW k \in Nat, NEW l \in Nat, NEW m, m = e + r * k - l
  PROVE  m + r = e + r * (k + 1) - l
<1>1. r * (k + 1) = r * k + r /\ r * k \in Nat
  OBVIOUS
<1> QED BY <1>1

LEMMA FateSets ==
  ASSUME IInv, Fates, NEW p
  PROVE  /\ Paid(p) \subseteq Positions /\ IsFiniteSet(Paid(p))
         /\ IsFiniteSet(Lost(p)) /\ Lost(p) \cap bonds = {} /\ \A b \in Lost(p) : b.stake \in Nat
<1>1. Paid(p) \subseteq Positions /\ IsFiniteSet(Paid(p))
  <2>1. Paid(p) \subseteq Positions
    BY DEF Paid, Fate
  <2> QED BY <2>1, FS_Subset DEF Fates
<1>2. Lost(p) \subseteq Past
  BY DEF Lost, Resolved, BondsAt, Fates
<1>3. IsFiniteSet(Lost(p))
  BY <1>2, FS_Subset DEF IInv, Shape
<1>4. Lost(p) \cap bonds = {}
  <2> SUFFICES ASSUME NEW b \in Lost(p), b \in bonds PROVE FALSE
    OBVIOUS
  <2>1. PICK x \in Resolved("slash") : b = At(x)
    BY DEF Lost
  <2>2. x \in Positions /\ Fate(x) # {}
    BY <2>1 DEF Resolved, BondsAt
  <2>3. PICK y \in Open : b = At(y)
    BY DEF Fates
  <2>4. y \in Positions /\ Fate(y) = {}
    BY <2>3 DEF Open, BondsAt
  <2> QED BY <2>1, <2>2, <2>3, <2>4 DEF Fates
<1>5. ASSUME NEW b \in Lost(p) PROVE b.stake \in Nat
  <2>1. b \in offered
    BY <1>2 DEF Past, IInv, TypeOK
  <2>2. b \in Transaction
    BY <2>1, OfferedTransactions DEF IInv
  <2>3. b.type = "attestation"
    BY DEF Lost, Resolved, BondsAt
  <2> QED BY <2>2, <2>3 DEF Transaction, Attestation, Submission, Certificate, Slash, Promotion
<1> QED BY <1>1, <1>3, <1>4, <1>5

\* What is left to show for each type of transaction: its effect on bonds and total.
LEMMA FatesAfterPack ==
  ASSUME IInv, Fates, NEW t \in offered, Pack(t), bonds' = {(At(x))' : x \in Open'},
         \A p \in Person :
           total'[p] = Endowment[p] + REVIEW_REWARD * Cardinality((Paid(p))') - Stakes((Lost(p))')
  PROVE  Fates'
<1> PICK n : n = <<Len(chain) + 1, Len(block) + 1>>
  OBVIOUS
<1>1. /\ (\A x, y \in Positions : At(x) = At(y) => x = y)'
      /\ IsFiniteSet(Positions') /\ ({At(x) : x \in Positions} = Past)'
      /\ (\A x, y \in Positions : Before(x, y) /\ Resolves(At(y), At(x)) => Fate(x) # {})'
  BY PackFates
<1>2. (\A p \in Person :
         total[p] = Endowment[p] + REVIEW_REWARD * Cardinality(Paid(p)) - Stakes(Lost(p)))'
  BY DEF Stakes, TokensOf
<1> QED BY <1>1, <1>2 DEF Fates

LEMMA OtherFates ==
  ASSUME IInv, Fates, NEW t \in offered, Pack(t), t.type \notin {"certificate", "slash"},
         total' = total,
         bonds' = IF t.type = "attestation" /\ t.verdict # "abstain" THEN bonds \cup {t} ELSE bonds
  PROVE  Fates'
<1> PICK n : n = <<Len(chain) + 1, Len(block) + 1>>
  OBVIOUS
<1>1. \A b : ~Resolves(t, b)
  BY DEF Resolves
<1>2. bonds' = {(At(x))' : x \in Open'}
  BY <1>1, PackBonds
<1>3. ASSUME NEW p PROVE (Paid(p))' = Paid(p) /\ (Lost(p))' = Lost(p)
  <2>1. (Paid(p))' = Paid(p) \cup (IF /\ t.type = "certificate"
                                    /\ \E b \in bonds : Resolves(t, b) /\ b.sender = p
                                 THEN {n} ELSE {})
    BY PackBonds
  <2>2. (Lost(p))' = Lost(p) \cup (IF t.type = "slash"
                                  THEN {b \in bonds : Resolves(t, b) /\ b.sender = p} ELSE {})
    BY PackBonds
  <2> QED BY <2>1, <2>2
<1>4. \A p \in Person :
        total'[p] = Endowment[p] + REVIEW_REWARD * Cardinality((Paid(p))') - Stakes((Lost(p))')
  BY <1>3 DEF Fates
<1> QED BY <1>2, <1>4, FatesAfterPack

LEMMA CertificateFates ==
  ASSUME IInv, Fates, NEW c \in offered, IssueCertificate(c)
  PROVE  Fates'
<1> PICK n : n = <<Len(chain) + 1, Len(block) + 1>>
  OBVIOUS
<1>1. Pack(c) /\ c.type = "certificate" /\ bonds' = bonds \ Contributing(c)
      /\ total' = [p \in Person |-> IF BondsOf(Contributing(c), p) = {} THEN total[p]
                                    ELSE total[p] + REVIEW_REWARD]
  BY DEF IssueCertificate
<1>2. \A b \in bonds : Resolves(c, b) <=> b \in Contributing(c)
  BY <1>1 DEF Resolves, Contributing, certificate_id
<1>3. bonds' = {(At(x))' : x \in Open'}
  BY <1>1, <1>2, PackBonds
<1>4. ASSUME NEW p \in Person
      PROVE  total'[p] = Endowment[p] + REVIEW_REWARD * Cardinality((Paid(p))')
                           - Stakes((Lost(p))')
  <2>1. (Lost(p))' = Lost(p)
    <3>1. (Lost(p))' = Lost(p) \cup (IF c.type = "slash"
                                    THEN {b \in bonds : Resolves(c, b) /\ b.sender = p} ELSE {})
      BY <1>1, PackBonds
    <3> QED BY <1>1, <3>1
  <2>2. (Paid(p))' = IF BondsOf(Contributing(c), p) = {} THEN Paid(p) ELSE Paid(p) \cup {n}
    <3>1. (\E b \in bonds : Resolves(c, b) /\ b.sender = p)
             <=> BondsOf(Contributing(c), p) # {}
      BY <1>2 DEF BondsOf, Contributing
    <3>2. (Paid(p))' = Paid(p) \cup (IF \E b \in bonds : Resolves(c, b) /\ b.sender = p
                                    THEN {n} ELSE {})
      BY <1>1, PackBonds
    <3> QED BY <3>1, <3>2
  <2>3. n \notin Paid(p) /\ IsFiniteSet(Paid(p))
    BY <1>1, PackPlaces, FateSets
  <2>4. total[p] = Endowment[p] + REVIEW_REWARD * Cardinality(Paid(p)) - Stakes(Lost(p))
    BY DEF Fates
  <2>5. IsFiniteSet(Lost(p)) /\ \A b \in Lost(p) : b.stake \in Nat
    BY FateSets
  <2>6. Stakes(Lost(p)) \in Nat /\ Endowment[p] \in Nat /\ REVIEW_REWARD \in Nat
    BY <2>5, StakesType, BalanceAssumption, RewardsAssumption
  <2>7. CASE BondsOf(Contributing(c), p) = {}
    BY <1>1, <2>1, <2>2, <2>4, <2>7
  <2>8. CASE BondsOf(Contributing(c), p) # {}
    <3>1. total'[p] = total[p] + REVIEW_REWARD /\ (Paid(p))' = Paid(p) \cup {n}
      BY <1>1, <2>2, <2>8
    <3>2. Cardinality(Paid(p) \cup {n}) = Cardinality(Paid(p)) + 1 /\ Cardinality(Paid(p)) \in Nat
      BY <2>3, OneMore
    <3>3. total[p] + REVIEW_REWARD
            = Endowment[p] + REVIEW_REWARD * (Cardinality(Paid(p)) + 1) - Stakes(Lost(p))
      BY <2>4, <2>6, <3>2, OneReward
    <3> QED BY <2>1, <3>1, <3>2, <3>3
  <2> QED BY <2>7, <2>8
<1> QED BY <1>1, <1>3, <1>4, FatesAfterPack

LEMMA SlashFates ==
  ASSUME IInv, Fates, NEW s \in offered, ApplySlash(s)
  PROVE  Fates'
<1>1. /\ Pack(s) /\ s.type = "slash" /\ bonds' = bonds \ Burned(s)
      /\ total' = [total EXCEPT ![s.offender] = Monus(@, Stakes(Burned(s)))]
  BY DEF ApplySlash
<1>2. \A b \in s.evidence : b.sender = s.offender
  <2>1. /\ Cardinality(s.evidence) = 2 /\ s.evidence \subseteq Txs(chain)
        /\ \A a, b \in s.evidence :
             a # b => conflicting_attestations(a, b, s.offender, s.domain)
    BY DEF ApplySlash, validate_slash, is_slash
  <2>2. IsFiniteSet(s.evidence)
    BY <2>1, FS_Subset DEF IInv, Shape, Past
  <2>3. PICK a \in s.evidence, b \in s.evidence : a # b
    BY <2>1, <2>2, TwoDiffer
  <2>4. \A d \in s.evidence : \E e \in s.evidence : d # e
    BY <2>3
  <2> QED BY <2>1, <2>4 DEF conflicting_attestations
<1>3. \A b \in bonds : Resolves(s, b) <=> b \in Burned(s)
  BY <1>1, <1>2 DEF Resolves, Burned
<1>4. bonds' = {(At(x))' : x \in Open'}
  BY <1>1, <1>3, PackBonds
<1>5. ASSUME NEW p \in Person
      PROVE  total'[p] = Endowment[p] + REVIEW_REWARD * Cardinality((Paid(p))')
                           - Stakes((Lost(p))')
  <2>1. (Paid(p))' = Paid(p)
    <3> PICK n : n = <<Len(chain) + 1, Len(block) + 1>>
      OBVIOUS
    <3>1. (Paid(p))' = Paid(p) \cup (IF /\ s.type = "certificate"
                                      /\ \E b \in bonds : Resolves(s, b) /\ b.sender = p
                                   THEN {n} ELSE {})
      BY <1>1, PackBonds
    <3> QED BY <1>1, <3>1
  <2>2. (Lost(p))' = Lost(p) \cup BondsOf(Burned(s), p)
    <3>1. (Lost(p))' = Lost(p) \cup {b \in bonds : Resolves(s, b) /\ b.sender = p}
      BY <1>1, PackBonds
    <3>2. {b \in bonds : Resolves(s, b) /\ b.sender = p} = BondsOf(Burned(s), p)
      BY <1>3 DEF BondsOf, Burned
    <3> QED BY <3>1, <3>2
  <2>3. total[p] = Endowment[p] + REVIEW_REWARD * Cardinality(Paid(p)) - Stakes(Lost(p))
    BY DEF Fates
  <2>4. Burned(s) \subseteq bonds
    BY DEF Burned
  <2>5. IsFiniteSet(BondsOf(Burned(s), p)) /\ \A b \in BondsOf(Burned(s), p) : b.stake \in Nat
    BY <2>4, BondsFinite DEF IInv
  <2>6. /\ IsFiniteSet(Lost(p)) /\ Lost(p) \cap bonds = {} /\ \A b \in Lost(p) : b.stake \in Nat
        /\ IsFiniteSet(Paid(p))
    BY FateSets
  <2>7. Lost(p) \cap BondsOf(Burned(s), p) = {}
    BY <2>4, <2>6 DEF BondsOf
  <2>8. Stakes((Lost(p))') = Stakes(Lost(p)) + Stakes(BondsOf(Burned(s), p))
    BY <2>2, <2>5, <2>6, <2>7, StakesDisjoint
  <2>9. total'[p] = total[p] - Stakes(BondsOf(Burned(s), p))
    <3>1. CASE p = s.offender
      <4>1. BondsOf(Burned(s), p) = Burned(s)
        BY <3>1 DEF BondsOf, Burned
      <4>2. Stakes(BondsOf(Burned(s), p)) \in Nat /\ Stakes(BondsOf(Burned(s), p)) <= locked[p]
        BY <2>4, ReleaseExact
      <4>3. locked[p] <= total[p] /\ locked[p] \in Nat /\ total[p] \in Nat
        BY DEF IInv, NoOverdraft, TypeOK
      <4>4. total'[p] = Monus(total[p], Stakes(BondsOf(Burned(s), p)))
        BY <1>1, <3>1, <4>1 DEF IInv, TypeOK
      <4> QED BY <4>2, <4>3, <4>4, MonusNat
    <3>2. CASE p # s.offender
      <4>1. BondsOf(Burned(s), p) = {}
        BY <3>2 DEF BondsOf, Burned
      <4>2. total'[p] = total[p] /\ total[p] \in Nat
        BY <1>1, <3>2 DEF IInv, TypeOK
      <4> QED BY <4>1, <4>2, StakesOfNone
    <3> QED BY <3>1, <3>2
  <2>10. /\ Stakes(Lost(p)) \in Nat /\ Stakes(BondsOf(Burned(s), p)) \in Nat
         /\ Endowment[p] \in Nat /\ REVIEW_REWARD * Cardinality(Paid(p)) \in Nat
    <3>1. Cardinality(Paid(p)) \in Nat
      BY <2>6, FS_CardinalityType
    <3>2. REVIEW_REWARD * Cardinality(Paid(p)) \in Nat
      BY <3>1, RewardsAssumption
    <3>3. Stakes(Lost(p)) \in Nat
      BY <2>6, StakesType
    <3>4. Stakes(BondsOf(Burned(s), p)) \in Nat
      BY <2>5, StakesType
    <3> QED BY <3>2, <3>3, <3>4, BalanceAssumption
  <2> QED BY <2>1, <2>3, <2>8, <2>9, <2>10
<1> QED BY <1>1, <1>4, <1>5, FatesAfterPack

LEMMA SealFates ==
  ASSUME IInv, Fates, SealBlock
  PROVE  Fates'
<1>1. /\ chain' = Append(chain, block) /\ block' = <<>>
      /\ total' = total /\ bonds' = bonds
      /\ chain \in Seq(Seq(Transaction)) /\ block \in Seq(Transaction)
  BY DEF SealBlock, IInv, Shape
<1>2. Positions = PositionsIn(All) /\ Positions' = PositionsIn(All')
  BY DEF Positions, PositionsIn
<1>3. All = Append(chain, block) /\ All' = Append(Append(chain, block), <<>>)
  BY <1>1 DEF All
<1>4. Positions' = Positions /\ \A x \in Positions : (At(x))' = At(x)
  <2>1. AddsNone(All, All')
    BY <1>1, <1>3, PlacesAfterSeal
  <2> QED BY <1>2, <2>1 DEF AddsNone, At
<1>5. ASSUME NEW x \in Positions PROVE (Fate(x))' = Fate(x)
  <2>1. \A y : y \in (Fate(x))' <=>
          /\ y \in Positions' /\ Before(x, y) /\ Resolves((At(y))', (At(x))')
          /\ \A z \in Positions' : Before(x, z) /\ Before(z, y) => ~Resolves((At(z))', (At(x))')
    BY DEF Fate, Resolves
  <2>2. \A y : y \in Fate(x) <=>
          /\ y \in Positions /\ Before(x, y) /\ Resolves(At(y), At(x))
          /\ \A z \in Positions : Before(x, z) /\ Before(z, y) => ~Resolves(At(z), At(x))
    BY DEF Fate
  <2>3. \A y : y \in (Fate(x))' <=> y \in Fate(x)
    BY <1>4, <2>1, <2>2
  <2> QED BY <2>3
<1>6. BondsAt' = BondsAt /\ BondsAt \subseteq Positions
  BY <1>4 DEF BondsAt
<1>7. Open' = Open /\ Open \subseteq Positions
  BY <1>5, <1>6 DEF Open
<1>8. \A type : (Resolved(type))' = Resolved(type) /\ Resolved(type) \subseteq Positions
  <2>1. \A x : Fate(x) \subseteq Positions
    BY DEF Fate
  <2> QED BY <1>4, <1>5, <1>6, <2>1 DEF Resolved
<1>9. \A p : (Paid(p))' = Paid(p) /\ (Lost(p))' = Lost(p)
  BY <1>4, <1>5, <1>8 DEF Paid, Lost
<1>10. (Past)' = Past
  <2>1. Txs(chain') = Txs(chain) \cup TxsIn(block)
    BY <1>1, TxsAppend
  <2>2. TxsIn(block') = {}
    BY <1>1 DEF TxsIn
  <2> QED BY <2>1, <2>2 DEF Past
<1>11. {(At(x))' : x \in Positions'} = (Past)' /\ {(At(x))' : x \in Open'} = bonds'
  BY <1>1, <1>4, <1>7, <1>10 DEF Fates
<1>12. \A p \in Person :
         total'[p] = Endowment[p] + REVIEW_REWARD * Cardinality((Paid(p))') - Stakes((Lost(p))')
  BY <1>1, <1>9 DEF Fates
<1>13. (\A x, y \in Positions : At(x) = At(y) => x = y)'
  BY <1>4 DEF Fates
<1>14. (\A x, y \in Positions : Before(x, y) /\ Resolves(At(y), At(x)) => Fate(x) # {})'
  <2>1. \A x, y \in Positions' :
          Before(x, y) /\ Resolves((At(y))', (At(x))') => (Fate(x))' # {}
    BY <1>4, <1>5 DEF Fates
  <2> QED BY <2>1 DEF Resolves
<1> QED BY <1>4, <1>11, <1>12, <1>13, <1>14 DEF Fates

LEMMA StepFates == IInv /\ Fates /\ [Next]_vars => Fates'
<1> SUFFICES ASSUME IInv, Fates, [Next]_vars PROVE Fates'
  OBVIOUS
<1>1. ASSUME NEW t \in offered, PostAttestation(t) \/ PostSubmission(t) \/ Promote(t)
      PROVE  Fates'
  <2>1. /\ Pack(t) /\ total' = total /\ t.type \notin {"certificate", "slash"}
        /\ bonds' = IF t.type = "attestation" /\ t.verdict # "abstain" THEN bonds \cup {t} ELSE bonds
    BY <1>1 DEF PostAttestation, PostSubmission, Promote, is_abstain
  <2> QED BY <2>1, OtherFates
<1>2. CASE UNCHANGED vars
  <2>1. chain' = chain /\ block' = block /\ total' = total /\ bonds' = bonds
    BY <1>2 DEF vars
  <2>2. All' = All
    BY <2>1 DEF All
  <2>3. Positions' = Positions /\ \A x : (At(x))' = At(x)
    BY <2>2 DEF Positions, At
  <2>4. \A x : (Fate(x))' = Fate(x)
    BY <2>3 DEF Fate, Resolves
  <2>5. BondsAt' = BondsAt
    BY <2>3 DEF BondsAt
  <2>6. Open' = Open /\ \A type : (Resolved(type))' = Resolved(type)
    BY <2>3, <2>4, <2>5 DEF Open, Resolved
  <2>7. \A p : (Paid(p))' = Paid(p) /\ (Lost(p))' = Lost(p)
    BY <2>3, <2>4, <2>6 DEF Paid, Lost
  <2>8. (Past)' = Past
    BY <2>1 DEF Past
  <2> QED BY <2>1, <2>3, <2>4, <2>6, <2>7, <2>8 DEF Fates, Resolves
<1> QED BY <1>1, <1>2, CertificateFates, SlashFates, SealFates DEF Next

\* The first certificate or slash after a bond that names it decides what becomes of it,
\* and of its reviewer's tokens: no bond is returned, paid or burned twice or on another's
\* account, whatever the order and number of certificates and slashes.
THEOREM FirstFateDecides == Spec => []FateDecides
<1>1. Spec => []Fates
  BY InitFates, StepFates, Invariant, PTL DEF Spec
<1> QED BY <1>1, FatesDecide, PTL
=============================================================================
