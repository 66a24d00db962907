---------------------------- MODULE LedgerProofs ----------------------------
(***************************************************************************)
(* Proofs about module Ledger: what holds of every valid chain, whatever    *)
(* the transactions, the anchors, the people and the stakes.                *)
(***************************************************************************)
EXTENDS Replay, Lemmas

-----------------------------------------------------------------------------
(***************************************************************************)
(* The inductive invariant. To TypeOK and NoOverdraft it adds the finite    *)
(* past, that a bond is on the chain (so a new transaction is not one), and *)
(* why the prefix rule is enough: what is free now is at least what was     *)
(* free before the block less what the block bonds.                         *)
(***************************************************************************)
Past == Txs(chain) \cup TxsIn(block)

Shape ==
  /\ chain \in Seq(Seq(Transaction))
  /\ block \in Seq(Transaction)
  /\ IsFiniteSet(Past)
  /\ bonds \subseteq Past

Covered == \A p \in Person : prefix.free[p] - posted[p] <= total[p] - locked[p]

IInv == TypeOK /\ Shape /\ NoOverdraft /\ Covered

LEMMA OfferedTransactions ==
  ASSUME TypeOK
  PROVE  \A t \in offered : t \in Transaction
BY OffersAssumption DEF TypeOK

LEMMA BondFields ==
  ASSUME TypeOK, NEW b \in bonds
  PROVE  b \in Attestation /\ b \in offered
<1>1. b \in offered /\ b.type = "attestation" /\ b \in Transaction
  BY OfferedTransactions DEF TypeOK, OfType
<1> QED BY <1>1 DEF Transaction, Attestation, Submission, Certificate, Slash, Promotion

\* The bonds of one person are finitely many, with natural stakes.
LEMMA BondsFinite ==
  ASSUME TypeOK, Shape, NEW p, NEW B \in SUBSET bonds
  PROVE  /\ IsFiniteSet(BondsOf(B, p)) /\ BondsOf(B, p) \subseteq BondsOf(bonds, p)
         /\ \A b \in BondsOf(bonds, p) : b.stake \in Nat
<1>1. IsFiniteSet(B)
  BY FS_Subset DEF Shape
<1>2. IsFiniteSet(BondsOf(B, p))
  BY <1>1, FS_Subset DEF BondsOf
<1> QED BY <1>2, BondFields DEF BondsOf, Attestation

LEMMA TxsInAppend ==
  ASSUME NEW S, NEW b \in Seq(S), NEW t \in S
  PROVE  TxsIn(Append(b, t)) = TxsIn(b) \cup {t}
<1>1. DOMAIN Append(b, t) = (1 .. Len(b)) \cup {Len(b) + 1} /\ DOMAIN b = 1 .. Len(b)
  OBVIOUS
<1>2. Append(b, t)[Len(b) + 1] = t
  OBVIOUS
<1>3. \A k \in 1 .. Len(b) : Append(b, t)[k] = b[k]
  OBVIOUS
<1> QED BY <1>1, <1>2, <1>3 DEF TxsIn

LEMMA TxsAppend ==
  ASSUME NEW S, NEW c \in Seq(Seq(S)), NEW b \in Seq(S)
  PROVE  Txs(Append(c, b)) = Txs(c) \cup TxsIn(b)
<1>1. \A i \in 1 .. Len(c) : Append(c, b)[i] = c[i]
  OBVIOUS
<1>2. Append(c, b)[Len(c) + 1] = b /\ DOMAIN Append(c, b) = (1 .. Len(c)) \cup {Len(c) + 1}
  OBVIOUS
<1>3. DOMAIN c = 1 .. Len(c)
  OBVIOUS
<1> DEFINE F(i) == TxsIn(Append(c, b)[i])
<1>4. {TxsIn(Append(c, b)[i]) : i \in DOMAIN Append(c, b)}
        = {TxsIn(c[i]) : i \in DOMAIN c} \cup {TxsIn(b)}
  BY <1>1, <1>2, <1>3
<1> QED BY <1>4 DEF Txs

-----------------------------------------------------------------------------
LEMMA InitInvariant == Init => IInv
<1> SUFFICES ASSUME Init
             PROVE  IInv
  OBVIOUS
<1> USE DEF Init
<1>1. TxsIn(block) = {} /\ Txs(chain) = {}
  BY DEF TxsIn, Txs
<1>2. Shape
  BY <1>1, FS_EmptySet DEF Shape, Past
<1>3. \A p \in Person : BondsOf(bonds, p) = {}
  BY DEF BondsOf
<1>4. TypeOK
  BY <1>1, GenesisAssumption, BalanceAssumption DEF TypeOK, Index
<1>5. NoOverdraft
  <2>1. \A p \in Person : Stakes(BondsOf(bonds, p)) = 0
    BY <1>3, StakesOfNone
  <2>2. \A p \in Person : locked[p] = 0 /\ total[p] \in Nat
    BY BalanceAssumption
  <2> QED BY <2>1, <2>2 DEF NoOverdraft
<1>6. Covered
  BY BalanceAssumption DEF Covered
<1> QED BY <1>2, <1>4, <1>5, <1>6 DEF IInv

\* Packing an offered transaction into the block keeps the past in shape.
LEMMA PackShape ==
  ASSUME IInv, NEW t \in offered, Pack(t), bonds' \subseteq bonds \cup {t}
  PROVE  /\ Shape' /\ (Past)' = Past \cup {t}
         /\ (Txs(chain) \cup TxsIn(block) \subseteq offered)'
         /\ t \notin bonds /\ offered' \in Offers
<1>1. t \in Transaction
  BY OfferedTransactions DEF IInv
<1>2. TxsIn(block') = TxsIn(block) \cup {t}
  BY <1>1, TxsInAppend DEF IInv, Shape, Pack
<1>3. (Past)' = Past \cup {t}
  BY <1>2 DEF Past, Pack
<1>4. IsFiniteSet(Past \cup {t})
  BY FS_AddElement DEF IInv, Shape
<1>5. block' \in Seq(Transaction) /\ chain' \in Seq(Seq(Transaction))
  BY <1>1 DEF IInv, Shape, Pack
<1>6. bonds' \subseteq (Past)'
  BY <1>3 DEF IInv, Shape
<1>7. Shape'
  BY <1>3, <1>4, <1>5, <1>6 DEF Shape
<1>8. t \notin bonds
  BY DEF Pack, IInv, Shape, Past
<1>9. (Txs(chain) \cup TxsIn(block) \subseteq offered)'
  BY <1>3 DEF Past, IInv, TypeOK, Pack
<1> QED BY <1>3, <1>7, <1>8, <1>9 DEF IInv, TypeOK, Pack

LEMMA MonusNat ==
  ASSUME NEW m \in Nat, NEW n \in Nat
  PROVE  Monus(m, n) \in Nat /\ (n <= m => Monus(m, n) = m - n)
BY DEF Monus

\* Taking bonds C away takes their stakes off the locked counter, unclamped.
LEMMA ReleaseExact ==
  ASSUME IInv, NEW p \in Person, NEW C \in SUBSET bonds
  PROVE  /\ Stakes(BondsOf(C, p)) \in Nat /\ Stakes(BondsOf(C, p)) <= locked[p]
         /\ Stakes(BondsOf(bonds \ C, p)) = locked[p] - Stakes(BondsOf(C, p))
<1>1. /\ IsFiniteSet(BondsOf(bonds, p)) /\ BondsOf(C, p) \subseteq BondsOf(bonds, p)
      /\ \A b \in BondsOf(bonds, p) : b.stake \in Nat
  BY BondsFinite DEF IInv
<1>2. BondsOf(bonds \ C, p) = BondsOf(bonds, p) \ BondsOf(C, p)
  BY DEF BondsOf
<1>3. locked[p] = Stakes(BondsOf(bonds, p))
  BY DEF IInv, NoOverdraft
<1> QED BY <1>1, <1>2, <1>3, StakesWithout

-----------------------------------------------------------------------------
(***************************************************************************)
(* Each action keeps the invariant.                                         *)
(***************************************************************************)
LEMMA PostAttestationStep ==
  ASSUME IInv, NEW t \in offered, PostAttestation(t)
  PROVE  IInv'
<1>1. t \in Attestation /\ t.sender \in Person /\ t.stake \in Nat
      /\ (is_abstain(t) => t.stake = 0)
  <2>1. t \in Transaction /\ t.type = "attestation"
    BY OfferedTransactions DEF IInv, PostAttestation
  <2> QED BY <2>1 DEF Transaction, Attestation, Submission, Certificate, Slash, Promotion,
                      is_abstain
<1> DEFINE p == t.sender
<1>2. /\ Shape' /\ (Txs(chain) \cup TxsIn(block) \subseteq offered)'
      /\ t \notin bonds /\ offered' \in Offers
  <2>1. Pack(t) /\ bonds' \subseteq bonds \cup {t}
    BY DEF PostAttestation
  <2> QED BY <2>1, PackShape
<1>3. /\ locked' = [locked EXCEPT ![p] = @ + t.stake] /\ total' = total
      /\ posted' = [posted EXCEPT ![p] = @ + t.stake] /\ prefix' = prefix
      /\ weight' = weight /\ promotedAt' = promotedAt /\ chain' = chain /\ offered' = offered
  BY DEF PostAttestation, Pack
<1>4. locked[p] \in Nat /\ total[p] \in Nat /\ locked[p] + t.stake <= total[p]
  <2>1. prefix.free[p] - posted[p] <= total[p] - locked[p]
    BY <1>1 DEF IInv, Covered
  <2>2. t.stake <= prefix.free[p] - posted[p]
    BY <1>1 DEF PostAttestation, Affordable, IInv, TypeOK
  <2> QED BY <1>1, <2>1, <2>2 DEF IInv, TypeOK
<1>5. \A q \in Person : Stakes(BondsOf(bonds', q)) = locked'[q]
  <2> SUFFICES ASSUME NEW q \in Person
               PROVE  Stakes(BondsOf(bonds', q)) = locked'[q]
    OBVIOUS
  <2>1. Stakes(BondsOf(bonds, q)) = locked[q]
    BY DEF IInv, NoOverdraft
  <2>2. locked'[q] = IF q = p THEN locked[p] + t.stake ELSE locked[q]
    BY <1>1, <1>3 DEF IInv, TypeOK
  <2>3. CASE is_abstain(t) \/ q # p
    <3>1. BondsOf(bonds', q) = BondsOf(bonds, q)
      BY <2>3 DEF PostAttestation, BondsOf
    <3>2. locked'[q] = locked[q]
      BY <1>1, <1>4, <2>2, <2>3
    <3> QED BY <2>1, <3>1, <3>2
  <2>4. CASE ~is_abstain(t) /\ q = p
    <3>1. BondsOf(bonds', q) = BondsOf(bonds, q) \cup {t}
      BY <2>4 DEF PostAttestation, BondsOf
    <3>2. IsFiniteSet(BondsOf(bonds, q)) /\ \A b \in BondsOf(bonds, q) : b.stake \in Nat
      BY BondsFinite DEF IInv
    <3>3. BondsOf(bonds, q) \cap {t} = {}
      BY <1>2 DEF BondsOf
    <3>4. Stakes(BondsOf(bonds, q) \cup {t}) = Stakes(BondsOf(bonds, q)) + Stakes({t})
      BY <1>1, <3>2, <3>3, StakesDisjoint, FS_Singleton
    <3> QED BY <1>1, <2>1, <2>2, <2>4, <3>1, <3>4, StakesOfOne
  <2> QED BY <2>3, <2>4
<1>6. NoOverdraft'
  <2>1. \A q \in Person : locked'[q] <= total'[q]
    BY <1>1, <1>3, <1>4 DEF IInv, TypeOK, NoOverdraft
  <2> QED BY <1>5, <2>1 DEF NoOverdraft
<1>7. Covered'
  BY <1>1, <1>3, <1>4 DEF IInv, TypeOK, Covered
<1>8. TypeOK'
  <2>1. bonds' \subseteq OfType(offered', "attestation")
    BY DEF PostAttestation, Pack, IInv, TypeOK, OfType
  <2>2. locked' \in [Person -> Nat] /\ posted' \in [Person -> Nat]
    BY <1>1, <1>3 DEF IInv, TypeOK
  <2> QED BY <1>2, <1>3, <2>1, <2>2 DEF IInv, TypeOK, Index
<1> QED BY <1>2, <1>6, <1>7, <1>8 DEF IInv

LEMMA PostSubmissionStep ==
  ASSUME IInv, NEW t \in offered, PostSubmission(t)
  PROVE  IInv'
<1>1. Pack(t) /\ UNCHANGED <<weight, total, locked, bonds, posted, promotedAt, certified>>
  BY DEF PostSubmission
<1>2. Shape' /\ (Txs(chain) \cup TxsIn(block) \subseteq offered)'
  BY <1>1, PackShape
<1>3. UNCHANGED <<offered, chain, prefix>>
  BY <1>1 DEF Pack
<1>4. TypeOK'
  BY <1>1, <1>2, <1>3 DEF IInv, TypeOK, Index
<1>5. NoOverdraft'
  BY <1>1 DEF IInv, NoOverdraft
<1>6. Covered'
  BY <1>1, <1>3 DEF IInv, Covered
<1> QED BY <1>2, <1>4, <1>5, <1>6 DEF IInv

LEMMA IssueCertificateStep ==
  ASSUME IInv, NEW c \in offered, IssueCertificate(c)
  PROVE  IInv'
<1> DEFINE C == Contributing(c)
           S(p) == Stakes(BondsOf(C, p))
<1>1. c \in Certificate /\ c.scope.subject \in Person /\ c.scope.domain \in Domain
  <2>1. c \in Transaction /\ c.type = "certificate"
    BY OfferedTransactions DEF IInv, IssueCertificate
  <2> QED BY <2>1 DEF Transaction, Attestation, Submission, Certificate, Slash, Promotion, Scope
<1>2. C \subseteq bonds
  BY DEF Contributing
<1>3. Shape' /\ (Txs(chain) \cup TxsIn(block) \subseteq offered)'
  <2>1. Pack(c) /\ bonds' \subseteq bonds \cup {c}
    BY DEF IssueCertificate
  <2> QED BY <2>1, PackShape
<1>4. /\ UNCHANGED <<offered, chain, prefix, posted, promotedAt>>
      /\ bonds' = bonds \ C
  BY DEF IssueCertificate, Pack
<1>5. \A p \in Person : /\ S(p) \in Nat /\ S(p) <= locked[p]
                        /\ Stakes(BondsOf(bonds \ C, p)) = locked[p] - S(p)
  BY <1>2, ReleaseExact
<1>6. locked' = [p \in Person |-> Monus(locked[p], S(p))]
  BY DEF IssueCertificate
<1>7. \A p \in Person : locked'[p] = locked[p] - S(p) /\ locked'[p] \in Nat
                        /\ locked'[p] <= locked[p]
  <2> SUFFICES ASSUME NEW p \in Person
               PROVE  locked'[p] = locked[p] - S(p) /\ locked'[p] \in Nat
                      /\ locked'[p] <= locked[p]
    OBVIOUS
  <2>1. locked[p] \in Nat
    BY DEF IInv, TypeOK
  <2>2. S(p) \in Nat /\ S(p) <= locked[p]
    BY <1>5
  <2>3. locked'[p] = Monus(locked[p], S(p))
    BY <1>6
  <2> HIDE DEF S
  <2> QED BY <2>1, <2>2, <2>3, MonusNat
<1>8. total' \in [Person -> Nat] /\ \A p \in Person : total[p] <= total'[p]
  <2> DEFINE paid(p) == BondsOf(C, p) # {}
  <2>1. total' = [p \in Person |-> IF paid(p) THEN total[p] + REVIEW_REWARD ELSE total[p]]
    BY Zenon DEF IssueCertificate
  <2> HIDE DEF paid
  <2> QED BY <2>1, RewardsAssumption DEF IInv, TypeOK
<1>9. weight' \in [Person -> [Domain -> Nat]]
  BY <1>1, RewardsAssumption DEF IssueCertificate, IInv, TypeOK
<1>10. TypeOK'
  <2>1. locked' \in [Person -> Nat]
    BY <1>6, <1>7
  <2>2. bonds' \subseteq OfType(offered', "attestation")
    BY <1>4 DEF IInv, TypeOK
  <2> QED BY <1>3, <1>4, <1>8, <1>9, <2>1, <2>2 DEF IInv, TypeOK, Index
<1>11. NoOverdraft'
  <2> SUFFICES ASSUME NEW p \in Person
               PROVE  locked'[p] = Stakes(BondsOf(bonds', p)) /\ locked'[p] <= total'[p]
    BY DEF NoOverdraft
  <2>1. locked[p] <= total[p] /\ locked[p] \in Nat /\ total[p] \in Nat /\ total'[p] \in Nat
    BY <1>8 DEF IInv, NoOverdraft, TypeOK
  <2>2. locked'[p] <= total'[p]
    BY <1>7, <1>8, <2>1
  <2>3. locked'[p] = Stakes(BondsOf(bonds', p))
    BY <1>4, <1>5, <1>7
  <2> QED BY <2>2, <2>3
<1>12. Covered'
  <2> SUFFICES ASSUME NEW p \in Person
               PROVE  prefix.free[p] - posted[p] <= total'[p] - locked'[p]
    BY <1>4 DEF Covered
  <2>1. prefix.free[p] - posted[p] <= total[p] - locked[p]
    BY DEF IInv, Covered
  <2>2. /\ total[p] \in Nat /\ locked[p] \in Nat /\ prefix.free[p] \in Nat /\ posted[p] \in Nat
        /\ total'[p] \in Nat /\ locked'[p] \in Nat
    BY <1>7, <1>8 DEF IInv, TypeOK
  <2> QED BY <1>7, <1>8, <2>1, <2>2
<1> QED BY <1>3, <1>10, <1>11, <1>12 DEF IInv

LEMMA ApplySlashStep ==
  ASSUME IInv, NEW s \in offered, ApplySlash(s)
  PROVE  IInv' /\ (s.offender \in Person /\ total'[s.offender] - locked'[s.offender]
                                              = total[s.offender] - locked[s.offender])
<1> DEFINE C == Burned(s)
           o == s.offender
           S == Stakes(BondsOf(C, o))
<1>1. s \in Slash /\ o \in Person /\ s.domain \in Domain /\ s.amount \in Nat
  <2>1. s \in Transaction /\ s.type = "slash"
    BY OfferedTransactions DEF IInv, ApplySlash
  <2> QED BY <2>1 DEF Transaction, Attestation, Submission, Certificate, Slash, Promotion
<1>2. C \subseteq bonds /\ BondsOf(C, o) = C
  BY DEF Burned, BondsOf
<1>3. Shape' /\ (Txs(chain) \cup TxsIn(block) \subseteq offered)'
  <2>1. Pack(s) /\ bonds' \subseteq bonds \cup {s}
    BY DEF ApplySlash
  <2> QED BY <2>1, PackShape
<1>4. /\ UNCHANGED <<offered, chain, prefix, posted, promotedAt>>
      /\ bonds' = bonds \ C
      /\ total' = [total EXCEPT ![o] = Monus(@, S)]
      /\ locked' = [locked EXCEPT ![o] = Monus(@, S)]
  BY <1>2 DEF ApplySlash, Pack
<1>5. /\ S \in Nat /\ S <= locked[o]
      /\ Stakes(BondsOf(bonds \ C, o)) = locked[o] - S
  BY <1>1, <1>2, ReleaseExact
<1>6. locked[o] \in Nat /\ total[o] \in Nat /\ locked[o] <= total[o]
  BY <1>1 DEF IInv, TypeOK, NoOverdraft
<1> HIDE DEF S, C, o
<1>7. /\ total'[o] = total[o] - S /\ locked'[o] = locked[o] - S
      /\ total' \in [Person -> Nat] /\ locked' \in [Person -> Nat]
      /\ \A q \in Person \ {o} : total'[q] = total[q] /\ locked'[q] = locked[q]
  <2>0. S \in Nat /\ S <= total[o] /\ S <= locked[o]
    BY <1>5, <1>6
  <2>1. Monus(total[o], S) = total[o] - S /\ Monus(total[o], S) \in Nat
    BY <1>6, <2>0, MonusNat
  <2>2. Monus(locked[o], S) = locked[o] - S /\ Monus(locked[o], S) \in Nat
    BY <1>6, <2>0, MonusNat
  <2> QED BY <1>1, <1>4, <2>1, <2>2 DEF IInv, TypeOK
<1>8. weight' \in [Person -> [Domain -> Nat]]
  <2>1. weight' = [weight EXCEPT ![o][s.domain] = Monus(@, Debit(s))]
    BY DEF ApplySlash, o
  <2>2. weight[o][s.domain] \in Nat /\ Debit(s) \in Nat
    BY <1>1 DEF IInv, TypeOK, Debit, MAX_SLASH
  <2>3. Monus(weight[o][s.domain], Debit(s)) \in Nat
    BY <2>2, MonusNat
  <2> QED BY <1>1, <2>1, <2>3 DEF IInv, TypeOK
<1>9. TypeOK'
  <2>1. bonds' \subseteq OfType(offered', "attestation")
    BY <1>4 DEF IInv, TypeOK
  <2> QED BY <1>3, <1>4, <1>7, <1>8, <2>1 DEF IInv, TypeOK, Index
<1>10. NoOverdraft'
  <2> SUFFICES ASSUME NEW p \in Person
               PROVE  locked'[p] = Stakes(BondsOf(bonds', p)) /\ locked'[p] <= total'[p]
    BY DEF NoOverdraft
  <2>1. CASE p = o
    BY <1>4, <1>5, <1>6, <1>7, <2>1
  <2>2. CASE p # o
    <3>1. BondsOf(bonds \ C, p) = BondsOf(bonds, p)
      BY <2>2 DEF BondsOf, C, Burned, o
    <3> QED BY <1>4, <1>7, <2>2, <3>1 DEF IInv, NoOverdraft
  <2> QED BY <2>1, <2>2
<1>11. total'[o] - locked'[o] = total[o] - locked[o]
  BY <1>5, <1>6, <1>7
<1>12. Covered'
  <2>1. \A p \in Person : total'[p] - locked'[p] = total[p] - locked[p]
    BY <1>7, <1>11
  <2> QED BY <1>4, <2>1 DEF IInv, Covered
<1> QED BY <1>1, <1>3, <1>9, <1>10, <1>11, <1>12 DEF IInv, o

LEMMA PromoteStep ==
  ASSUME IInv, NEW t \in offered, Promote(t)
  PROVE  IInv'
<1>1. t.candidate \in Person
  <2>1. t \in Transaction /\ t.type = "promotion"
    BY OfferedTransactions DEF IInv, Promote
  <2> QED BY <2>1 DEF Transaction, Attestation, Submission, Certificate, Slash, Promotion
<1>2. Pack(t) /\ UNCHANGED <<weight, total, locked, bonds, posted, certified>>
  BY DEF Promote
<1>3. Shape' /\ (Txs(chain) \cup TxsIn(block) \subseteq offered)'
  BY <1>2, PackShape
<1>4. UNCHANGED <<offered, chain, prefix>>
  BY <1>2 DEF Pack
<1>5. Index \in Nat /\ Index' = Index
  BY <1>4 DEF Index, IInv, Shape
<1>6. promotedAt' \in [Person -> 0 .. Index']
  BY <1>1, <1>5 DEF Promote, IInv, TypeOK
<1>7. TypeOK'
  BY <1>2, <1>3, <1>4, <1>6 DEF IInv, TypeOK
<1>8. NoOverdraft'
  BY <1>2 DEF IInv, NoOverdraft
<1>9. Covered'
  BY <1>2, <1>4 DEF IInv, Covered
<1> QED BY <1>3, <1>7, <1>8, <1>9 DEF IInv

LEMMA SealBlockStep ==
  ASSUME IInv, SealBlock
  PROVE  IInv'
<1>1. /\ chain' = Append(chain, block) /\ block' = <<>>
      /\ prefix' = [weight |-> weight, free |-> Free]
      /\ posted' = [p \in Person |-> 0]
      /\ UNCHANGED <<offered, weight, total, locked, bonds, promotedAt, certified>>
  BY DEF SealBlock
<1>2. Txs(chain') = Past /\ TxsIn(block') = {}
  <2>1. Txs(chain') = Txs(chain) \cup TxsIn(block)
    BY <1>1, TxsAppend DEF IInv, Shape
  <2>2. TxsIn(block') = {}
    BY <1>1 DEF TxsIn
  <2> QED BY <2>1, <2>2 DEF Past
<1>3. (Past)' = Past
  BY <1>2 DEF Past
<1>4. chain' \in Seq(Seq(Transaction)) /\ block' \in Seq(Transaction) /\ Len(chain') = Len(chain) + 1
  BY <1>1 DEF IInv, Shape
<1>5. Shape'
  BY <1>1, <1>3, <1>4 DEF IInv, Shape
<1>6. Free \in [Person -> Nat]
  BY DEF Free, IInv, TypeOK, NoOverdraft
<1>7. promotedAt \in [Person -> 0 .. Index']
  BY <1>1, <1>4 DEF IInv, TypeOK, Index, Shape
<1>8. TypeOK'
  BY <1>1, <1>2, <1>6, <1>7 DEF IInv, TypeOK, Past
<1>9. NoOverdraft'
  BY <1>1 DEF IInv, NoOverdraft
<1>10. Covered'
  BY <1>1, <1>6 DEF Covered, Free
<1> QED BY <1>5, <1>8, <1>9, <1>10 DEF IInv

LEMMA StepInvariant == IInv /\ [Next]_vars => IInv'
<1> SUFFICES ASSUME IInv, [Next]_vars
             PROVE  IInv'
  OBVIOUS
<1>1. CASE UNCHANGED vars
  BY <1>1 DEF vars, IInv, TypeOK, Shape, Past, NoOverdraft, Covered, Index
<1>2. ASSUME NEW t \in offered, PostAttestation(t)
      PROVE  IInv'
  BY <1>2, PostAttestationStep
<1>3. ASSUME NEW t \in offered, PostSubmission(t)
      PROVE  IInv'
  BY <1>3, PostSubmissionStep
<1>4. ASSUME NEW t \in offered, IssueCertificate(t)
      PROVE  IInv'
  BY <1>4, IssueCertificateStep
<1>5. ASSUME NEW t \in offered, ApplySlash(t)
      PROVE  IInv'
  BY <1>5, ApplySlashStep
<1>6. ASSUME NEW t \in offered, Promote(t)
      PROVE  IInv'
  BY <1>6, PromoteStep
<1>7. CASE SealBlock
  BY <1>7, SealBlockStep
<1> QED BY <1>1, <1>2, <1>3, <1>4, <1>5, <1>6, <1>7 DEF Next

LEMMA Invariant == Spec => []IInv
<1>1. IInv /\ [Next]_vars => IInv'
  BY StepInvariant
<1> QED BY <1>1, InitInvariant, PTL DEF Spec

-----------------------------------------------------------------------------
\* Every variable has its type: no weight and no balance is ever negative, although
\* BalanceLedger and ReputationRegistry subtract.
THEOREM LedgerTypes == Spec => []TypeOK
<1>1. IInv => TypeOK
  BY DEF IInv
<1> QED BY <1>1, Invariant, PTL

\* On a valid chain, whatever the stakes and in whatever order certificates and slashes
\* resolve them, nobody is overdrawn and the locked counter is what the open bonds hold.
THEOREM NobodyOverdrawn == Spec => []NoOverdraft
<1>1. IInv => NoOverdraft
  BY DEF IInv
<1> QED BY <1>1, Invariant, PTL

-----------------------------------------------------------------------------
(***************************************************************************)
(* The refinement: each step is an escrow step or leaves the escrow alone.  *)
(***************************************************************************)
EscrowStep == Account!Next \/ UNCHANGED <<Free, bonds>>

LEMMA SameBonds == \A B, p : Account!BondsOf(B, p) = BondsOf(B, p)
BY DEF BondsOf, Account!BondsOf

LEMMA SameStakes == \A B : Account!Stakes(B) = Stakes(B)
BY DEF Stakes, TokensOf, Account!Stakes, Account!TokensOf, Cardinality, Account!Cardinality

LEMMA PostIsEscrow ==
  ASSUME IInv, NEW t \in offered, PostAttestation(t)
  PROVE  EscrowStep
<1> DEFINE p == t.sender
<1>1. t \in Attestation /\ p \in Person /\ t.stake \in Nat /\ (is_abstain(t) => t.stake = 0)
  <2>1. t \in Transaction /\ t.type = "attestation"
    BY OfferedTransactions DEF IInv, PostAttestation
  <2> QED BY <2>1 DEF Transaction, Attestation, Submission, Certificate, Slash, Promotion,
                      is_abstain
<1>2. t \notin bonds
  <2>1. Pack(t) /\ bonds' \subseteq bonds \cup {t}
    BY DEF PostAttestation
  <2> QED BY <2>1, PackShape
<1>3. /\ locked[p] \in Nat /\ total[p] \in Nat /\ t.stake <= total[p] - locked[p]
  <2>1. prefix.free[p] - posted[p] <= total[p] - locked[p]
    BY <1>1 DEF IInv, Covered
  <2>2. prefix.free[p] \in Nat /\ posted[p] \in Nat /\ locked[p] \in Nat /\ total[p] \in Nat
    BY <1>1 DEF IInv, TypeOK
  <2>3. t.stake <= prefix.free[p] - posted[p]
    BY <1>1, <2>2 DEF PostAttestation, Affordable
  <2> QED BY <1>1, <2>1, <2>2, <2>3
<1>4. total' = total /\ locked' = [locked EXCEPT ![p] = @ + t.stake]
  BY DEF PostAttestation
<1>5. Free' = [Free EXCEPT ![p] = @ - t.stake]
  BY <1>1, <1>3, <1>4 DEF Free, IInv, TypeOK
<1>6. CASE is_abstain(t)
  <2>1. Free' = Free
    BY <1>1, <1>3, <1>5, <1>6 DEF Free, IInv, TypeOK
  <2>2. bonds' = bonds
    BY <1>6 DEF PostAttestation
  <2> QED BY <2>1, <2>2 DEF EscrowStep
<1>7. CASE ~is_abstain(t)
  <2>1. bonds' = bonds \cup {t}
    BY <1>7 DEF PostAttestation
  <2>2. t \in OfType(UNION Offers, "attestation")
    BY DEF IInv, TypeOK, OfType, PostAttestation
  <2>3. Free[p] = total[p] - locked[p]
    BY <1>1 DEF Free
  <2>4. Account!Post(t)
    BY <1>2, <1>3, <1>5, <2>1, <2>3 DEF Account!Post
  <2> QED BY <2>2, <2>4 DEF EscrowStep, Account!Next
<1> QED BY <1>6, <1>7

LEMMA CertificateIsEscrow ==
  ASSUME IInv, NEW c \in offered, IssueCertificate(c)
  PROVE  EscrowStep
<1> DEFINE C == Contributing(c)
           S(p) == Stakes(BondsOf(C, p))
<1>1. C \subseteq bonds /\ bonds' = bonds \ C
  BY DEF Contributing, IssueCertificate
<1>2. \A p \in Person : S(p) \in Nat /\ S(p) <= locked[p]
  BY <1>1, ReleaseExact
<1>3. \A p \in Person : BondsOf(C, p) = {} => S(p) = 0
  BY StakesOfNone
<1>4. \A p \in Person : /\ locked'[p] = Monus(locked[p], S(p))
                        /\ total'[p] = IF BondsOf(C, p) = {} THEN total[p]
                                       ELSE total[p] + REVIEW_REWARD
  BY DEF IssueCertificate
<1>5. \A p \in Person : locked[p] \in Nat /\ total[p] \in Nat /\ REVIEW_REWARD \in Nat
  BY RewardsAssumption DEF IInv, TypeOK
<1> DEFINE G(p) == IF BondsOf(C, p) = {} THEN Free[p] ELSE Free[p] + S(p) + REVIEW_REWARD
<1>6. \A p \in Person : total'[p] - locked'[p] = G(p)
  <2> SUFFICES ASSUME NEW p \in Person
               PROVE  total'[p] - locked'[p] = G(p)
    OBVIOUS
  <2>1. Free[p] = total[p] - locked[p]
    BY DEF Free
  <2>2. S(p) \in Nat /\ S(p) <= locked[p] /\ locked[p] \in Nat /\ total[p] \in Nat
    BY <1>2, <1>5
  <2>3. locked'[p] = locked[p] - S(p)
    <3>1. locked'[p] = Monus(locked[p], S(p))
      BY <1>4
    <3> HIDE DEF S
    <3> QED BY <2>2, <3>1, MonusNat
  <2>4. CASE BondsOf(C, p) = {}
    <3>1. total'[p] = total[p] /\ G(p) = Free[p] /\ S(p) = 0
      BY <1>3, <1>4, <2>4
    <3> HIDE DEF S, G
    <3> QED BY <2>1, <2>2, <2>3, <3>1
  <2>5. CASE BondsOf(C, p) # {}
    <3>1. total'[p] = total[p] + REVIEW_REWARD /\ G(p) = Free[p] + S(p) + REVIEW_REWARD
      BY <1>4, <2>5
    <3> HIDE DEF S, G
    <3> QED BY <1>5, <2>1, <2>2, <2>3, <3>1
  <2> QED BY <2>4, <2>5
<1>7. Free' = [p \in Person |-> G(p)]
  BY <1>6 DEF Free
<1>8. Account!Settle(C)
  BY <1>1, <1>7, SameBonds, SameStakes DEF Account!Settle
<1> QED BY <1>1, <1>8 DEF EscrowStep, Account!Next

LEMMA SlashIsEscrow ==
  ASSUME IInv, NEW s \in offered, ApplySlash(s)
  PROVE  EscrowStep
<1>1. /\ s.offender \in Person
      /\ total'[s.offender] - locked'[s.offender] = total[s.offender] - locked[s.offender]
  BY ApplySlashStep
<1>2. \A p \in Person \ {s.offender} : total'[p] = total[p] /\ locked'[p] = locked[p]
  BY DEF ApplySlash, IInv, TypeOK
<1>3. Free' = Free
  BY <1>1, <1>2 DEF Free
<1>4. Burned(s) \subseteq bonds /\ bonds' = bonds \ Burned(s)
  BY DEF Burned, ApplySlash
<1>5. Account!Forfeit(Burned(s))
  BY <1>3, <1>4 DEF Account!Forfeit
<1> QED BY <1>4, <1>5 DEF EscrowStep, Account!Next

\* The token table with its two clamped counters, its prefix rule and its per-block
\* reservations implements a plain escrow account.
THEOREM LedgerImplementsEscrow == Spec => BondsAreEscrowed
<1>1. Init => Account!Init
  BY BalanceAssumption DEF Init, Account!Init, Free
<1>2. IInv /\ [Next]_vars => [Account!Next]_(Account!vars)
  <2> SUFFICES ASSUME IInv, [Next]_vars
               PROVE  EscrowStep
    BY DEF EscrowStep, Account!vars
  <2>1. CASE UNCHANGED vars
    BY <2>1 DEF vars, EscrowStep, Free
  <2>2. ASSUME NEW t \in offered, PostSubmission(t) \/ Promote(t)
        PROVE  EscrowStep
    BY <2>2 DEF PostSubmission, Promote, EscrowStep, Free
  <2>3. CASE SealBlock
    BY <2>3 DEF SealBlock, EscrowStep, Free
  <2> QED BY <2>1, <2>2, <2>3, PostIsEscrow, CertificateIsEscrow, SlashIsEscrow DEF Next
<1> QED BY <1>1, <1>2, Invariant, PTL DEF Spec, BondsAreEscrowed, Account!Spec

-----------------------------------------------------------------------------
(***************************************************************************)
(* Slashes need a contradiction.                                            *)
(***************************************************************************)
LEMMA TwoDiffer ==
  ASSUME NEW S, IsFiniteSet(S), Cardinality(S) = 2
  PROVE  \E a, b \in S : a # b
<1>1. S # {}
  BY FS_EmptySet
<1>2. PICK a \in S : TRUE
  BY <1>1
<1>3. ~ \E x : S = {x}
  BY FS_Singleton
<1> QED BY <1>2, <1>3

LEMMA SlashedEquivocated ==
  ASSUME IInv, NEW s \in offered, ApplySlash(s)
  PROVE  s.offender \in Equivocators
<1>1. s \in Slash /\ s.offender \in Person /\ s.evidence \subseteq Attestation
  <2>1. s \in Transaction /\ s.type = "slash"
    BY OfferedTransactions DEF IInv, ApplySlash
  <2> QED BY <2>1 DEF Transaction, Attestation, Submission, Certificate, Slash, Promotion
<1>2. /\ Cardinality(s.evidence) = 2 /\ s.evidence \subseteq Txs(chain)
      /\ \A a, b \in s.evidence :
           a # b => conflicting_attestations(a, b, s.offender, s.domain)
  BY DEF ApplySlash, validate_slash, is_slash
<1>3. IsFiniteSet(s.evidence)
  BY <1>2, FS_Subset DEF IInv, Shape, Past
<1>4. PICK a \in s.evidence, b \in s.evidence : a # b
  BY <1>2, <1>3, TwoDiffer
<1>5. /\ a.sender = s.offender /\ b.sender = s.offender /\ SameClaim(a, b)
      /\ {a.verdict, b.verdict} = {"yes", "no"}
  BY <1>2, <1>4 DEF conflicting_attestations
<1>6. a \in OfType(Txs(chain), "attestation") /\ b \in OfType(Txs(chain), "attestation")
  BY <1>1, <1>2, <1>4 DEF OfType, Attestation
<1>7. (a.verdict = "yes" /\ b.verdict = "no") \/ (a.verdict = "no" /\ b.verdict = "yes")
  BY <1>5
<1>8. SameClaim(b, a)
  BY <1>5 DEF SameClaim
<1> QED BY <1>1, <1>5, <1>6, <1>7, <1>8 DEF Equivocators

\* Nobody who has not given two opposite verdicts on one claim ever loses weight or
\* tokens: no quorum of validators can take them by fiat.
THEOREM HonestReviewersKeepStanding == Spec => HonestKeepStanding
<1> DEFINE Keeps == \A p \in Person \ Equivocators :
                      total'[p] >= total[p] /\ \A d \in Domain : weight'[p][d] >= weight[p][d]
<1>1. ASSUME IInv, Next, NEW p \in Person \ Equivocators, NEW d \in Domain
      PROVE  total'[p] >= total[p] /\ weight'[p][d] >= weight[p][d]
  <2>1. total[p] \in Nat /\ weight[p][d] \in Nat /\ weight \in [Person -> [Domain -> Nat]]
    BY <1>1 DEF IInv, TypeOK
  <2>2. CASE total' = total /\ weight' = weight
    BY <2>1, <2>2
  <2>3. ASSUME NEW t \in offered, PostAttestation(t) \/ PostSubmission(t) \/ Promote(t)
        PROVE  total' = total /\ weight' = weight
    BY <2>3 DEF PostAttestation, PostSubmission, Promote
  <2>4. ASSUME SealBlock
        PROVE  total' = total /\ weight' = weight
    BY <2>4 DEF SealBlock
  <2>5. ASSUME NEW c \in offered, IssueCertificate(c)
        PROVE  total'[p] >= total[p] /\ weight'[p][d] >= weight[p][d]
    <3>1. total'[p] = total[p] \/ total'[p] = total[p] + REVIEW_REWARD
      BY <2>5 DEF IssueCertificate
    <3>2. weight' = [weight EXCEPT ![c.scope.subject][c.scope.domain] = @ + CERTIFICATE_REWARD]
      BY <2>5 DEF IssueCertificate
    <3>3. weight'[p][d] = weight[p][d] \/ weight'[p][d] = weight[p][d] + CERTIFICATE_REWARD
      BY <2>1, <3>2
    <3> QED BY <2>1, <3>1, <3>3, RewardsAssumption
  <2>6. ASSUME NEW s \in offered, ApplySlash(s)
        PROVE  total'[p] >= total[p] /\ weight'[p][d] >= weight[p][d]
    <3>1. p # s.offender
      BY <1>1, <2>6, SlashedEquivocated
    <3>2. total'[p] = total[p]
      BY <1>1, <2>6, <3>1 DEF ApplySlash, IInv, TypeOK
    <3>3. weight'[p][d] = weight[p][d]
      BY <2>1, <2>6, <3>1 DEF ApplySlash
    <3> QED BY <2>1, <3>2, <3>3
  <2> QED BY <1>1, <2>2, <2>3, <2>4, <2>5, <2>6 DEF Next
<1>2. PICK d \in Domain : TRUE
  BY DomainAssumption
<1>3. IInv /\ [Next]_vars => [Keeps]_vars
  BY <1>1, <1>2
<1> QED BY <1>3, Invariant, PTL DEF Spec, HonestKeepStanding

-----------------------------------------------------------------------------
(***************************************************************************)
(* The tally. Union-find first: what find returns in a forest, where every  *)
(* parent is at most its child, and what unite makes of it.                 *)
(***************************************************************************)
Forest(p, A) == p \in [A -> A] /\ \A y \in A : p[y] <= y

IsRoots(r, p) == r = [y \in DOMAIN p |-> IF p[y] = y THEN y ELSE r[p[y]]]

\* r is right for the elements below n.
RootsBelow(r, p, A, n) ==
  \A y \in A : y < n => r[y] = IF p[y] = y THEN y ELSE r[p[y]]

LEMMA RootsUpTo ==
  ASSUME NEW A, A \subseteq Nat, NEW p, Forest(p, A)
  PROVE  \A n \in Nat : \E r \in [A -> A] : RootsBelow(r, p, A, n)
<1> DEFINE S == {n \in Nat : \E r \in [A -> A] : RootsBelow(r, p, A, n)}
<1>1. 0 \in S
  <2>1. p \in [A -> A] /\ RootsBelow(p, p, A, 0)
    BY DEF Forest, RootsBelow
  <2> QED BY <2>1
<1>2. ASSUME NEW n \in Nat, n \in S PROVE n + 1 \in S
  <2>1. PICK r \in [A -> A] : RootsBelow(r, p, A, n)
    BY <1>2
  <2>2. PICK q : q = [y \in A |-> IF y = n THEN (IF p[n] = n THEN n ELSE r[p[n]]) ELSE r[y]]
    OBVIOUS
  <2>3. q \in [A -> A]
    BY <2>1, <2>2 DEF Forest
  <2>4. \A y \in A : y # n => q[y] = r[y]
    BY <2>2
  <2>5. ASSUME NEW y \in A, y < n + 1 PROVE q[y] = IF p[y] = y THEN y ELSE q[p[y]]
    <3>1. p[y] \in A /\ p[y] <= y /\ y \in Nat /\ p[y] \in Nat
      BY DEF Forest
    <3>2. p[y] # y => p[y] < n /\ q[p[y]] = r[p[y]]
      BY <2>4, <2>5, <3>1
    <3>3. CASE y = n
      BY <2>2, <3>2, <3>3
    <3>4. CASE y # n
      <4>1. r[y] = IF p[y] = y THEN y ELSE r[p[y]]
        BY <2>1, <2>5, <3>1, <3>4 DEF RootsBelow
      <4> QED BY <2>4, <3>2, <3>4, <4>1
    <3> QED BY <3>3, <3>4
  <2>6. RootsBelow(q, p, A, n + 1)
    BY <2>5 DEF RootsBelow
  <2> QED BY <2>3, <2>6
<1> HIDE DEF S
<1>3. Nat \subseteq S
  BY <1>1, <1>2, SetInduction
<1> QED BY <1>3 DEF S

LEMMA Bounded ==
  ASSUME NEW A, A \subseteq Nat, IsFiniteSet(A)
  PROVE  \E n \in Nat : \A y \in A : y < n
<1>1. CASE A = {}
  BY <1>1
<1>2. CASE A # {}
  <2>1. PICK m \in A : \A y \in A : y <= m
    BY <1>2, Largest
  <2>2. m + 1 \in Nat /\ \A y \in A : y < m + 1
    BY <2>1
  <2> QED BY <2>2
<1> QED BY <1>1, <1>2

\* find returns what the recursion says.
LEMMA FindUnfolds ==
  ASSUME NEW A, A \subseteq Nat, IsFiniteSet(A), NEW p, Forest(p, A)
  PROVE  \A x \in A : find(p, x) = IF p[x] = x THEN x ELSE find(p, p[x])
<1>1. PICK n \in Nat : \A y \in A : y < n
  BY Bounded
<1>2. PICK r \in [A -> A] : RootsBelow(r, p, A, n)
  BY RootsUpTo
<1>3. DOMAIN p = A
  BY DEF Forest
<1>4. \A y \in A : r[y] = IF p[y] = y THEN y ELSE r[p[y]]
  BY <1>1, <1>2 DEF RootsBelow
<1>5. r = [y \in A |-> r[y]]
  BY <1>2
<1>6. [y \in A |-> r[y]] = [y \in A |-> IF p[y] = y THEN y ELSE r[p[y]]]
  BY <1>4
<1>7. IsRoots(r, p)
  BY <1>3, <1>5, <1>6, Zenon DEF IsRoots
<1>8. PICK s : s = CHOOSE q : IsRoots(q, p)
  OBVIOUS
<1>9. IsRoots(s, p)
  BY <1>7, <1>8
<1>10. \A x \in A : s[x] = IF p[x] = x THEN x ELSE s[p[x]]
  BY <1>3, <1>9, Zenon DEF IsRoots
<1>11. \A x : find(p, x) = s[x]
  BY <1>8 DEF find, IsRoots
<1> QED BY <1>10, <1>11

\* It is a root, and at most x.
LEMMA FindsRoot ==
  ASSUME NEW A, A \subseteq Nat, IsFiniteSet(A), NEW p, Forest(p, A)
  PROVE  \A x \in A : find(p, x) \in A /\ find(p, x) <= x /\ p[find(p, x)] = find(p, x)
<1> DEFINE Right(x) == find(p, x) \in A /\ find(p, x) <= x /\ p[find(p, x)] = find(p, x)
           S == {n \in Nat : \A x \in A : x < n => Right(x)}
<1>1. 0 \in S
  OBVIOUS
<1>2. ASSUME NEW n \in Nat, n \in S PROVE n + 1 \in S
  <2> SUFFICES ASSUME NEW x \in A, x < n + 1 PROVE Right(x)
    OBVIOUS
  <2>1. find(p, x) = IF p[x] = x THEN x ELSE find(p, p[x])
    BY FindUnfolds
  <2>2. p[x] \in A /\ p[x] <= x /\ x \in Nat /\ p[x] \in Nat
    BY DEF Forest
  <2>3. CASE p[x] = x
    BY <2>1, <2>2, <2>3
  <2>4. CASE p[x] # x
    <3>1. Right(p[x])
      BY <1>2, <2>2, <2>4
    <3>2. find(p, p[x]) \in Nat
      BY <3>1
    <3> QED BY <2>1, <2>2, <2>4, <3>1, <3>2
  <2> QED BY <2>3, <2>4
<1>3. Nat \subseteq S
  <2> HIDE DEF S
  <2> QED BY <1>1, <1>2, SetInduction
<1> QED
  <2> SUFFICES ASSUME NEW x \in A PROVE Right(x)
    OBVIOUS
  <2>1. x + 1 \in S /\ x < x + 1
    BY <1>3
  <2> QED BY <2>1

\* The forest q joins what p joins, and a and b.
Joins(q, p, a, b, A) ==
  /\ Forest(q, A)
  /\ find(q, a) = find(q, b)
  /\ \A x, y \in A : find(p, x) = find(p, y) => find(q, x) = find(q, y)

\* unite puts what was found under the larger root under the smaller one, and
\* leaves the rest as it was.
LEMMA Unites ==
  ASSUME NEW A, A \subseteq Nat, IsFiniteSet(A), NEW p, Forest(p, A),
         NEW tie, tie[1] \in A, tie[2] \in A
  PROVE  Joins(unite(tie, p), p, tie[1], tie[2], A)
<1>1. tie[1] \in A /\ tie[2] \in A
  OBVIOUS
<1>2. PICK ra : ra = find(p, tie[1])
  OBVIOUS
<1>3. PICK rb : rb = find(p, tie[2])
  OBVIOUS
<1>4. ra \in A /\ rb \in A /\ p[ra] = ra /\ p[rb] = rb
  BY <1>1, <1>2, <1>3, FindsRoot
<1>5. PICK hi : hi = IF ra > rb THEN ra ELSE rb
  OBVIOUS
<1>6. PICK lo : lo = IF ra > rb THEN rb ELSE ra
  OBVIOUS
<1>7. /\ hi \in A /\ lo \in A /\ p[hi] = hi /\ p[lo] = lo /\ lo <= hi
      /\ {lo, hi} = {ra, rb}
  BY <1>4, <1>5, <1>6
<1>8. PICK q : q = [p EXCEPT ![hi] = lo]
  OBVIOUS
<1>9. unite(tie, p) = q
  BY <1>2, <1>3, <1>5, <1>6, <1>8 DEF unite
<1>10. q[hi] = lo /\ \A y \in A : y # hi => q[y] = p[y]
  BY <1>7, <1>8 DEF Forest
<1>11. Forest(q, A)
  <2>1. q \in [A -> A]
    BY <1>7, <1>8 DEF Forest
  <2>2. \A y \in A : q[y] <= y
    BY <1>7, <1>10 DEF Forest
  <2> QED BY <2>1, <2>2 DEF Forest
<1> DEFINE Right(x) == find(q, x) = IF find(p, x) = hi THEN lo ELSE find(p, x)
           S == {n \in Nat : \A x \in A : x < n => Right(x)}
<1>12. ASSUME NEW x \in A, p[x] # x => Right(p[x])
       PROVE  Right(x)
  <2>1. find(p, x) = IF p[x] = x THEN x ELSE find(p, p[x])
    BY FindUnfolds
  <2>2. \A y \in A : find(q, y) = IF q[y] = y THEN y ELSE find(q, q[y])
    BY <1>11, FindUnfolds
  <2>3. CASE p[x] # x
    <3>1. x # hi /\ q[x] = p[x]
      BY <1>7, <1>10, <2>3
    <3>2. find(q, x) = find(q, p[x]) /\ find(p, x) = find(p, p[x])
      BY <2>1, <2>2, <2>3, <3>1
    <3> QED BY <1>12, <2>3, <3>2
  <2>4. CASE p[x] = x /\ x # hi
    BY <1>10, <2>1, <2>2, <2>4
  <2>5. CASE x = hi
    <3>1. find(p, x) = hi
      BY <1>7, <2>1, <2>5
    <3>2. find(q, lo) = lo
      BY <1>7, <1>10, <2>2
    <3>3. find(q, hi) = lo
      BY <1>7, <1>10, <2>2, <3>2
    <3> QED BY <2>5, <3>1, <3>3
  <2> QED BY <2>3, <2>4, <2>5
<1>13. 0 \in S
  OBVIOUS
<1>14. ASSUME NEW n \in Nat, n \in S PROVE n + 1 \in S
  <2> SUFFICES ASSUME NEW x \in A, x < n + 1 PROVE Right(x)
    OBVIOUS
  <2>1. p[x] \in A /\ p[x] <= x /\ x \in Nat /\ p[x] \in Nat
    BY DEF Forest
  <2>2. p[x] # x => p[x] < n
    BY <2>1
  <2>3. p[x] # x => Right(p[x])
    BY <1>14, <2>1, <2>2
  <2> HIDE DEF Right, S
  <2> QED BY <1>12, <2>3
<1>15. Nat \subseteq S
  <2> HIDE DEF S
  <2> QED BY <1>13, <1>14, SetInduction
<1>16. \A x \in A : Right(x)
  <2> SUFFICES ASSUME NEW x \in A PROVE Right(x)
    OBVIOUS
  <2>1. x + 1 \in S /\ x < x + 1
    BY <1>15
  <2> QED BY <2>1
<1>17. find(q, tie[1]) = lo /\ find(q, tie[2]) = lo
  <2>1. Right(tie[1]) /\ Right(tie[2])
    BY <1>1, <1>16
  <2> QED BY <1>2, <1>3, <1>7, <2>1
<1>18. \A x, y \in A : find(p, x) = find(p, y) => find(q, x) = find(q, y)
  BY <1>16
<1> QED BY <1>9, <1>11, <1>17, <1>18 DEF Joins

-----------------------------------------------------------------------------
(***************************************************************************)
(* united folds unite over a set of ties, and a sum folds + over a set:     *)
(* module Iteration says what they return.                                  *)
(***************************************************************************)
FromAlone(A) == [a \in A |-> a]

UniteStep(A, p, tie) == unite(tie, p)

Unions == INSTANCE Iteration WITH First <- FromAlone, Step <- UniteStep, Pick <- LastTie

FromZero(f) == 0

AddStep(f, sum, e) == f[e] + sum

Sums == INSTANCE Iteration WITH First <- FromZero, Step <- AddStep, Pick <- AnyOf

\* The instances have definitions of their own of what a finite set is.
LEMMA FiniteIsFinite ==
  \A S : IsFiniteSet(S) => Unions!IsFiniteSet(S) /\ Sums!IsFiniteSet(S)
BY DEF IsFiniteSet, Unions!IsFiniteSet, Sums!IsFiniteSet

LEMMA Folds ==
  /\ \A ties, A : united(ties, A) = Unions!fold(A, ties)
  /\ \A f, S : SumFunctionOnSet(f, S) = Sums!fold(f, S)
<1>1. ASSUME NEW ties, NEW A PROVE united(ties, A) = Unions!fold(A, ties)
  BY DEF united, MapThenFoldSet, Unions!fold, FromAlone, UniteStep
<1>2. ASSUME NEW f, NEW S PROVE SumFunctionOnSet(f, S) = Sums!fold(f, S)
  BY DEF SumFunctionOnSet, FoldFunctionOnSet, MapThenFoldSet, Sums!fold, FromZero, AddStep, AnyOf
<1> QED BY <1>1, <1>2

\* A finite set of ties has a last one.
LEMMA LastTieIn ==
  ASSUME NEW ties, IsFiniteSet(ties), ties \subseteq Nat \X Nat, ties # {}
  PROVE  LastTie(ties) \in ties
<1>1. PICK left : left = {t[1] : t \in ties}
  OBVIOUS
<1>2. left \subseteq Nat /\ left # {} /\ IsFiniteSet(left)
  <2>1. left \subseteq Nat /\ left # {}
    BY <1>1
  <2>2. [t \in ties |-> t[1]] \in Surjection(ties, left)
    BY <1>1 DEF Surjection
  <2> QED BY <2>1, <2>2, FS_Surjection
<1>3. PICK a \in left : \A x \in left : x <= a
  BY <1>2, Largest
<1>4. PICK right : right = {t[2] : t \in {s \in ties : s[1] = a}}
  OBVIOUS
<1>5. right \subseteq Nat /\ right # {} /\ IsFiniteSet(right)
  <2>1. right \subseteq Nat /\ right # {}
    BY <1>1, <1>3, <1>4
  <2>2. PICK B : B = {s \in ties : s[1] = a}
    OBVIOUS
  <2>3. IsFiniteSet(B)
    BY <2>2, FS_Subset
  <2>4. [t \in B |-> t[2]] \in Surjection(B, right)
    BY <1>4, <2>2 DEF Surjection
  <2> QED BY <2>1, <2>3, <2>4, FS_Surjection
<1>6. PICK b \in right : \A x \in right : x <= b
  BY <1>5, Largest
<1>7. PICK t \in ties : t[1] = a /\ t[2] = b
  BY <1>4, <1>6
<1>8. ASSUME NEW s \in ties \ {t} PROVE Before(s, t)
  <2>1. s[1] \in left /\ s[1] \in Nat /\ s[2] \in Nat /\ a \in Nat /\ b \in Nat
    BY <1>1, <1>2, <1>3, <1>5, <1>6
  <2>2. CASE s[1] = a
    <3>1. s[2] \in right
      BY <1>4, <2>2
    <3>2. s[2] # b
      BY <1>7, <2>2
    <3> QED BY <1>6, <1>7, <2>1, <2>2, <3>1, <3>2 DEF Before
  <2>3. CASE s[1] # a
    <3>1. s[1] <= a
      BY <1>3, <2>1
    <3> QED BY <1>7, <2>1, <2>3, <3>1 DEF Before
  <2> QED BY <2>2, <2>3
<1> QED BY <1>8 DEF LastTie

\* Once all ties are united, the two ends of each are found in one place.
LEMMA UnitedTies ==
  ASSUME NEW A, A \subseteq Nat, IsFiniteSet(A),
         NEW ties, ties \subseteq A \X A, IsFiniteSet(ties)
  PROVE  /\ Forest(united(ties, A), A)
         /\ \A tie \in ties : find(united(ties, A), tie[1]) = find(united(ties, A), tie[2])
<1> DEFINE Right(s) == /\ Forest(Unions!fold(A, s), A)
                       /\ \A tie \in s : find(Unions!fold(A, s), tie[1])
                                           = find(Unions!fold(A, s), tie[2])
           G == {s \in SUBSET ties : Right(s)}
<1>1. ASSUME NEW s \in SUBSET ties
      PROVE  /\ IsFiniteSet(s) /\ \A u \in SUBSET s : u # {} => LastTie(u) \in u
             /\ s # {} => LastTie(s) \in s
  <2>1. \A u \in SUBSET ties : IsFiniteSet(u) /\ u \subseteq Nat \X Nat
    BY FS_Subset
  <2> QED BY <2>1, LastTieIn
<1>2. {} \in G
  <2>1. Unions!fold(A, {}) = FromAlone(A)
    <3>1. \A u \in SUBSET {} : u # {} => LastTie(u) \in u
      OBVIOUS
    <3> QED BY <3>1, FS_EmptySet, FiniteIsFinite, Unions!Folded DEF FromAlone
  <2>2. Forest(FromAlone(A), A)
    BY DEF Forest, FromAlone
  <2> QED BY <2>1, <2>2
<1>3. ASSUME NEW s \in SUBSET ties, s # {}, \A t \in s : s \ {t} \in G PROVE s \in G
  <2>1. PICK t \in s : t = LastTie(s)
    BY <1>1, <1>3
  <2>2. PICK p : p = Unions!fold(A, s \ {t})
    OBVIOUS
  <2>3. Unions!fold(A, s) = unite(t, p)
    <3>1. IsFiniteSet(s) /\ \A u \in SUBSET s : u # {} => LastTie(u) \in u
      BY <1>1
    <3> HIDE DEF Right, G
    <3>2. Unions!fold(A, s) = unite(LastTie(s), Unions!fold(A, s \ {LastTie(s)}))
      BY <1>3, <3>1, FiniteIsFinite, Unions!Folded DEF UniteStep
    <3> QED BY <2>1, <2>2, <3>2
  <2>4. Right(s \ {t})
    BY <1>3
  <2>5. Forest(p, A) /\ \A tie \in s \ {t} : find(p, tie[1]) = find(p, tie[2])
    BY <2>2, <2>4
  <2>6. PICK q : q = unite(t, p)
    OBVIOUS
  <2>7. t \in A \X A
    OBVIOUS
  <2>8. /\ Forest(q, A) /\ find(q, t[1]) = find(q, t[2])
        /\ \A x, y \in A : find(p, x) = find(p, y) => find(q, x) = find(q, y)
    <3>1. Forest(p, A) /\ t[1] \in A /\ t[2] \in A
      BY <2>5, <2>7
    <3> HIDE DEF Right, G
    <3>2. Joins(unite(t, p), p, t[1], t[2], A)
      BY <3>1, Unites
    <3> QED BY <2>6, <3>2 DEF Joins
  <2>9. ASSUME NEW tie \in s PROVE find(q, tie[1]) = find(q, tie[2])
    <3>1. CASE tie = t
      BY <2>8, <3>1
    <3>2. CASE tie # t
      <4>1. tie[1] \in A /\ tie[2] \in A /\ find(p, tie[1]) = find(p, tie[2])
        BY <2>5, <3>2
      <4> QED BY <2>8, <4>1
    <3> QED BY <3>1, <3>2
  <2>10. Right(s)
    BY <2>3, <2>6, <2>8, <2>9
  <2> QED BY <2>10
<1>4. SUBSET ties \subseteq G
  <2> HIDE DEF G
  <2> QED BY <1>2, <1>3, SubsetInduction
<1>5. Right(ties)
  BY <1>4
<1> QED BY <1>5, Folds

-----------------------------------------------------------------------------
(***************************************************************************)
(* Sums of weights, and what a group counts for under the cap.              *)
(***************************************************************************)
\* A sum takes one value at a time.
LEMMA SumUnfolds ==
  ASSUME NEW f, NEW S, IsFiniteSet(S)
  PROVE  SumFunctionOnSet(f, S)
           = IF S = {} THEN 0 ELSE f[AnyOf(S)] + SumFunctionOnSet(f, S \ {AnyOf(S)})
<1>1. \A u \in SUBSET S : u # {} => AnyOf(u) \in u
  BY DEF AnyOf
<1>2. Sums!fold(f, S) = IF S = {} THEN 0 ELSE f[AnyOf(S)] + Sums!fold(f, S \ {AnyOf(S)})
  BY <1>1, FiniteIsFinite, Sums!Folded DEF FromZero, AddStep
<1> QED BY <1>2, Folds

LEMMA SumType ==
  ASSUME NEW f, NEW S, IsFiniteSet(S), \A x \in S : f[x] \in Nat
  PROVE  SumFunctionOnSet(f, S) \in Nat
<1> DEFINE G == {T \in SUBSET S : SumFunctionOnSet(f, T) \in Nat}
<1>1. {} \in G
  <2>1. SumFunctionOnSet(f, {}) = 0
    BY SumUnfolds, FS_EmptySet
  <2> QED BY <2>1
<1>2. ASSUME NEW T \in SUBSET S, T # {}, \A x \in T : T \ {x} \in G PROVE T \in G
  <2>1. AnyOf(T) \in T /\ IsFiniteSet(T)
    BY <1>2, FS_Subset DEF AnyOf
  <2>2. SumFunctionOnSet(f, T \ {AnyOf(T)}) \in Nat
    BY <1>2, <2>1
  <2> QED BY <1>2, <2>1, <2>2, SumUnfolds
<1> HIDE DEF G
<1>3. SUBSET S \subseteq G
  BY <1>1, <1>2, SubsetInduction
<1> QED BY <1>3 DEF G

\* A sum in which all values but one are 0 is that value, and 0 if all are.
LEMMA SumOfOne ==
  ASSUME NEW f, NEW S, IsFiniteSet(S), NEW x, \A y \in S \ {x} : f[y] = 0,
         x \in S => f[x] \in Nat
  PROVE  SumFunctionOnSet(f, S) = IF x \in S THEN f[x] ELSE 0
<1> DEFINE Right(T) == SumFunctionOnSet(f, T) = IF x \in T THEN f[x] ELSE 0
           G == {T \in SUBSET S : Right(T)}
<1>1. {} \in G
  BY SumUnfolds, FS_EmptySet
<1>2. ASSUME NEW T \in SUBSET S, T # {}, \A y \in T : T \ {y} \in G PROVE T \in G
  <2>1. AnyOf(T) \in T /\ IsFiniteSet(T)
    BY <1>2, FS_Subset DEF AnyOf
  <2>2. Right(T \ {AnyOf(T)})
    BY <1>2, <2>1
  <2>3. SumFunctionOnSet(f, T) = f[AnyOf(T)] + SumFunctionOnSet(f, T \ {AnyOf(T)})
    BY <1>2, <2>1, SumUnfolds
  <2>4. CASE AnyOf(T) = x
    <3>1. SumFunctionOnSet(f, T \ {AnyOf(T)}) = 0 /\ f[x] \in Nat /\ x \in T
      BY <2>1, <2>2, <2>4
    <3> QED BY <2>3, <2>4, <3>1
  <2>5. CASE AnyOf(T) # x
    <3>1. f[AnyOf(T)] = 0
      BY <2>1, <2>5
    <3>2. x \in T \ {AnyOf(T)} <=> x \in T
      BY <2>5
    <3> QED BY <2>2, <2>3, <3>1, <3>2
  <2> QED BY <2>4, <2>5
<1> HIDE DEF G
<1>3. SUBSET S \subseteq G
  BY <1>1, <1>2, SubsetInduction
<1> QED BY <1>3 DEF G

LEMMA WeightType ==
  ASSUME NEW A, IsFiniteSet(A), NEW d, NEW w, \A a \in A : w[a][d] \in Nat
  PROVE  Weight(w, d, A) \in Nat
<1>1. PICK f : f = [a \in A |-> w[a][d]]
  OBVIOUS
<1>2. DOMAIN f = A /\ \A a \in A : f[a] \in Nat
  BY <1>1
<1>3. SumFunctionOnSet(f, A) \in Nat
  BY <1>2, SumType
<1> QED BY <1>1, <1>2, <1>3 DEF Weight, SumFunction, SumFunctionOnSet, FoldFunction

LEMMA WeightOfNone ==
  ASSUME NEW A, IsFiniteSet(A), NEW d, NEW w, \A a \in A : w[a][d] = 0
  PROVE  Weight(w, d, A) = 0
<1>1. PICK f : f = [a \in A |-> w[a][d]]
  OBVIOUS
<1>2. DOMAIN f = A /\ \A a \in A : f[a] = 0
  BY <1>1
<1>3. SumFunctionOnSet(f, A) = 0
  BY <1>2, SumOfOne
<1> QED BY <1>1, <1>2, <1>3 DEF Weight, SumFunction, SumFunctionOnSet, FoldFunction

\* A group that is linked, of two or more, and holds all the weight counts for
\* at most the cap.
LEMMA CappedGroup ==
  ASSUME NEW T, NEW w \in [Person -> [Domain -> Nat]], NEW d \in Domain,
         NEW A \in SUBSET Person, NEW a \in A, NEW x \in A, a # x, Linked(T, A, a, x),
         \A b \in A : w[b][d] > 0 => Linked(T, A, a, b)
  PROVE  capped_support(T, w, d, A) \in 0 .. (34 * Weight(w, d, A)) \div 100
<1>1. IsFiniteSet(A) /\ A \subseteq Nat
  BY PersonAssumption, FS_Subset
<1>2. PICK ties : ties = MutualTies(T, A)
  OBVIOUS
<1>3. ties \subseteq A \X A /\ IsFiniteSet(ties)
  <2>1. ties \subseteq A \X A
    BY <1>2 DEF MutualTies
  <2> QED BY <1>1, <2>1, FS_Product, FS_Subset
<1>4. PICK P : P = united(ties, A)
  OBVIOUS
<1>5. \A tie \in ties : find(P, tie[1]) = find(P, tie[2])
  BY <1>1, <1>3, <1>4, UnitedTies
<1>6. PICK K : K = {b \in A : find(P, b) = find(P, a)}
  OBVIOUS
<1>7. \A b \in A : Linked(T, A, a, b) => b \in K
  <2>1. \A tie \in ties : tie[1] \in A /\ tie[2] \in A
    BY <1>3
  <2>2. \A tie \in ties : tie[1] \in K <=> tie[2] \in K
    BY <1>5, <1>6, <2>1
  <2> QED BY <1>2, <1>6, <2>2 DEF Linked
<1>8. PICK S : S = attester_clusters(T, A)
  OBVIOUS
<1>9. S = {{b \in A : find(P, b) = r} : r \in {find(P, b) : b \in A}}
  BY <1>2, <1>4, <1>8 DEF attester_clusters
<1>10. K \in S
  BY <1>6, <1>9
<1>11. IsFiniteSet(S)
  <2>1. PICK h : h = [b \in A |-> {y \in A : find(P, y) = find(P, b)}]
    OBVIOUS
  <2>2. \A b \in A : h[b] \in S
    BY <1>9, <2>1
  <2>3. \A C \in S : \E b \in A : h[b] = C
    BY <1>9, <2>1
  <2>4. h \in Surjection(A, S)
    BY <2>1, <2>2, <2>3 DEF Surjection
  <2> QED BY <1>1, <2>4, FS_Surjection
<1>12. PICK raw : raw = Weight(w, d, A)
  OBVIOUS
<1>13. PICK cap : cap = (34 * raw) \div 100
  OBVIOUS
<1>14. raw \in Nat /\ cap \in Nat
  <2>1. \A b \in A : w[b][d] \in Nat
    OBVIOUS
  <2>2. raw \in Nat
    BY <1>1, <1>12, <2>1, WeightType
  <2> QED BY <1>13, <2>2
<1> DEFINE counted(C) == LET joint == Weight(w, d, C)
                         IN  IF Cardinality(C) >= 2 /\ joint > cap THEN cap ELSE joint
<1>15. PICK f : f = [C \in S |-> counted(C)]
  OBVIOUS
<1>16. capped_support(T, w, d, A) = SumFunctionOnSet(f, S)
  BY <1>8, <1>12, <1>13, <1>15
     DEF capped_support, ALPHA_NUM, ALPHA_DEN, SumFunction, SumFunctionOnSet, FoldFunction
<1>17. ASSUME NEW C \in S \ {K}
       PROVE  f[C] = 0
  <2>1. C \subseteq A /\ C \cap K = {}
    BY <1>6, <1>9
  <2>2. \A b \in C : w[b][d] = 0
    BY <1>7, <2>1
  <2>3. Weight(w, d, C) = 0
    BY <1>1, <2>1, <2>2, FS_Subset, WeightOfNone
  <2> QED BY <1>14, <1>15, <2>3
<1>18. f[K] \in Nat /\ f[K] <= cap
  <2>1. IsFiniteSet(K) /\ K \subseteq A
    BY <1>1, <1>6, FS_Subset
  <2>2. Weight(w, d, K) \in Nat
    BY <2>1, WeightType
  <2>3. Cardinality(K) >= 2
    <3>1. {a, x} \subseteq K
      BY <1>6, <1>7
    <3>2. Cardinality({a, x}) = 2
      <4>1. IsFiniteSet({a}) /\ Cardinality({a}) = 1 /\ x \notin {a} /\ {a, x} = {a} \cup {x}
        BY FS_Singleton
      <4>2. Cardinality({a} \cup {x}) = Cardinality({a}) + 1
        BY <4>1, FS_AddElement
      <4> QED BY <4>1, <4>2
    <3>3. Cardinality({a, x}) <= Cardinality(K)
      BY <2>1, <3>1, FS_Subset
    <3> QED BY <3>2, <3>3
  <2> QED BY <1>10, <1>14, <1>15, <2>2, <2>3
<1>19. \A C \in S \ {K} : f[C] = 0
  BY <1>17
<1> HIDE DEF counted
<1>20. SumFunctionOnSet(f, S) = f[K]
  BY <1>10, <1>11, <1>18, <1>19, SumOfOne
<1> QED BY <1>12, <1>13, <1>16, <1>18, <1>20

-----------------------------------------------------------------------------
(***************************************************************************)
(* A certificate in the open block was judged against the prefix, which     *)
(* has not changed since.                                                   *)
(***************************************************************************)
Accepted == \A c \in OfType(TxsIn(block), "certificate") :
              validate_certificate(c, Txs(chain), prefix.weight)

LEMMA InitAccepted == Init => Accepted
BY DEF Init, Accepted, OfType, TxsIn

LEMMA StepAccepted == IInv /\ Accepted /\ [Next]_vars => Accepted'
<1> SUFFICES ASSUME IInv, Accepted, [Next]_vars
             PROVE  Accepted'
  OBVIOUS
<1> USE DEF Accepted
<1>1. CASE UNCHANGED vars
  BY <1>1 DEF vars
<1>2. CASE SealBlock
  BY <1>2 DEF SealBlock, OfType, TxsIn
<1>3. ASSUME NEW t \in offered, Pack(t),
             t.type = "certificate" => validate_certificate(t, Txs(chain), prefix.weight)
      PROVE  Accepted'
  <2>1. TxsIn(block') = TxsIn(block) \cup {t}
    BY <1>3, TxsInAppend, OfferedTransactions DEF IInv, Shape, Pack
  <2>2. chain' = chain /\ prefix' = prefix
    BY <1>3 DEF Pack
  <2>3. OfType(TxsIn(block'), "certificate")
          \subseteq OfType(TxsIn(block), "certificate") \cup {u \in {t} : u.type = "certificate"}
    BY <2>1 DEF OfType
  <2> QED BY <1>3, <2>2, <2>3
<1>4. ASSUME NEW t \in offered, ~IssueCertificate(t),
             \/ PostAttestation(t) \/ PostSubmission(t) \/ ApplySlash(t) \/ Promote(t)
      PROVE  Pack(t) /\ t.type # "certificate"
  BY <1>4 DEF PostAttestation, PostSubmission, ApplySlash, Promote
<1>5. ASSUME NEW t \in offered, IssueCertificate(t)
      PROVE  Pack(t) /\ validate_certificate(t, Txs(chain), prefix.weight)
  BY <1>5 DEF IssueCertificate
<1> QED BY <1>1, <1>2, <1>3, <1>4, <1>5 DEF Next

\* On no valid chain do reviewers who vouched for each other, directly or
\* through others, carry a certificate by themselves on less than 736 weight:
\* whatever the reviews, the weights and the ties, the union-find of the tally
\* puts them in one group, and a cap of 34 percent holds that group below 250.
THEOREM CartelsPayForTheCap == Spec => []CartelsNeedMore
<1>1. ASSUME TypeOK, Accepted, NEW c \in OfType(TxsIn(block), "certificate"),
             NEW T, T = Txs(chain),
             NEW A, A = positive_attesters(T, c.scope, c.submission),
             NEW a \in A, NEW x \in A, a # x,
             \A b \in c.granted_by \cup {x} : Linked(T, A, a, b)
      PROVE  Weight(prefix.weight, c.scope.domain, A) >= 736
  <2>1. PICK w : w = prefix.weight
    OBVIOUS
  <2>2. PICK d : d = c.scope.domain
    OBVIOUS
  <2>3. w \in [Person -> [Domain -> Nat]]
    BY <1>1, <2>1 DEF TypeOK
  <2>4. d \in Domain
    <3>1. c \in Transaction /\ c.type = "certificate"
      BY <1>1, OfferedTransactions DEF TypeOK, OfType
    <3> QED BY <2>2, <3>1
            DEF Transaction, Attestation, Submission, Certificate, Slash, Promotion, Scope
  <2>5. A \in SUBSET Person
    <3>1. \A t \in T : t \in Transaction
      BY <1>1, OfferedTransactions DEF TypeOK
    <3>2. \A t \in OfType(T, "attestation") : t.sender \in Person
      BY <3>1 DEF OfType, Transaction, Attestation, Submission, Certificate, Slash, Promotion
    <3> QED BY <1>1, <3>2 DEF positive_attesters, PositiveReviews
  <2>6. validate_certificate(c, T, w)
    BY <1>1, <2>1 DEF Accepted
  <2>7. \A b \in A : w[b][d] > 0 => Linked(T, A, a, b)
    <3>1. \A b \in A : w[b][d] > 0 => b \in c.granted_by
      BY <1>1, <2>2, <2>6 DEF validate_certificate, Credited
    <3> QED BY <1>1, <3>1
  <2>8. capped_support(T, w, d, A) \in 0 .. (34 * Weight(w, d, A)) \div 100
    BY <1>1, <2>3, <2>4, <2>5, <2>7, CappedGroup
  <2>9. capped_support(T, w, d, A) >= 250
    BY <1>1, <2>2, <2>6 DEF validate_certificate, CERTIFICATE_THRESHOLD
  <2>10. Weight(w, d, A) \in Nat
    <3>1. IsFiniteSet(A) /\ \A b \in A : w[b][d] \in Nat
      BY <2>3, <2>4, <2>5, PersonAssumption, FS_Subset
    <3> QED BY <3>1, WeightType
  <2> QED BY <2>1, <2>2, <2>8, <2>9, <2>10
<1>2. TypeOK /\ Accepted => CartelsNeedMore
  BY <1>1 DEF CartelsNeedMore
<1>3. IInv => TypeOK
  BY DEF IInv
<1> QED BY <1>2, <1>3, InitAccepted, StepAccepted, Invariant, PTL DEF Spec

-----------------------------------------------------------------------------
(***************************************************************************)
(* The fraction cap of promotion_ok, 3 * fresh <= n, leaves the others a    *)
(* quorum of n exactly when the cohort stays below a third: with n divisible*)
(* by three, a cohort at the cap can block what the others would commit     *)
(* (blockchain.py:234 says that it never can).                              *)
(***************************************************************************)
THEOREM FreshCohort ==
  ASSUME NEW n \in Nat, NEW fresh \in Nat, 3 * fresh <= n
  PROVE  /\ 3 * fresh # n => n - fresh >= quorum_size(n)
         /\ 3 * fresh = n => n - fresh < quorum_size(n)
         /\ n > 0 => fresh < quorum_size(n)
<1>1. (2 * n) \div 3 \in Nat /\ 3 * ((2 * n) \div 3) <= 2 * n /\ 2 * n < 3 * ((2 * n) \div 3) + 3
  OBVIOUS
<1> QED BY <1>1 DEF quorum_size
=============================================================================
