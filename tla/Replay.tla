------------------------------- MODULE Replay -------------------------------
(***************************************************************************)
(* The same state derived from a chain alone, from scratch, as every caller *)
(* but is_valid_chain derives it (reputation/derive.py, Blockchain.         *)
(* validator_set, aggregator.certificate_statuses), and what must hold      *)
(* between a chain and the state of module Ledger.                          *)
(***************************************************************************)
EXTENDS Ledger

\* The blocks below index i.
Below(c, i) == SubSeq(c, 1, i - 1)

apply_transaction(w, t, T, validators) ==
  CASE t.type = "certificate" ->
         [w EXCEPT ![t.scope.subject][t.scope.domain] = @ + CERTIFICATE_REWARD]
    [] t.type = "slash" /\ validate_slash(t, T, validators) ->
         [w EXCEPT ![t.offender][t.domain] = Monus(@, Debit(t))]
    [] OTHER -> w

\* The weight table w after the transactions of the block b, above the prefix T.
apply_block(w, b, T, validators) ==
  LET after[k \in 0 .. Len(b)] ==
        IF k = 0 THEN w ELSE apply_transaction(after[k - 1], b[k], T, validators)
  IN  after[Len(b)]

\* The weight table that the blocks below index i imply.
derive_registry(c, i) ==
  LET after[n \in 0 .. (i - 1)] ==
        IF n = 0 THEN Genesis
        ELSE apply_block(after[n - 1], c[n], Txs(Below(c, n)),
                         consensus_authorities(after[n - 1]))
  IN  after[i - 1]

\* at, which maps each person to the block that promoted it, after one more
\* transaction of block n, where w is the weight table below that block.
apply_promotion(at, t, w, n) ==
  LET current == consensus_authorities(w) \cup {p \in Person : at[p] > 0}
  IN  IF /\ t.type = "promotion"
         /\ promotion_ok(t, current, w, Cardinality(FreshIn(at, n)))
      THEN [at EXCEPT ![t.candidate] = n]
      ELSE at

apply_promotions(at, b, w, n) ==
  LET after[k \in 0 .. Len(b)] ==
        IF k = 0 THEN at ELSE apply_promotion(after[k - 1], b[k], w, n)
  IN  after[Len(b)]

\* With a bug: a promotion is judged by the weights of today.
promotions_today(c, i) ==
  LET after[n \in 0 .. (i - 1)] ==
        IF n = 0 THEN [p \in Person |-> 0]
        ELSE apply_promotions(after[n - 1], c[n], derive_registry(c, i), n)
  IN  after[i - 1]

\* Who was promoted by the valid promotions below index i, and in which block.
promotions(c, i) ==
  LET after[n \in 0 .. (i - 1)] ==
        IF n = 0 THEN [p \in Person |-> 0]
        ELSE apply_promotions(after[n - 1], c[n], derive_registry(c, n), n)
  IN  after[i - 1]

replay_promotions(c, i) == {p \in Person : promotions(c, i)[p] > 0}

validator_set(c, i) ==
  consensus_authorities(derive_registry(c, i)) \cup replay_promotions(c, i)

\* The submissions that the evidence of a slash is about.
evidence_submissions(s) == {e.submission : e \in s.evidence}

\* With a bug: slashes are judged by the validators of today.
GenuineSlashes_today(c, i) ==
  {s \in OfType(TxsIn(c[i]), "slash") :
     validate_slash(s, Txs(Below(c, i)),
                    consensus_authorities(derive_registry(c, Len(c) + 1)))}

GenuineSlashes(c, i) ==
  {s \in OfType(TxsIn(c[i]), "slash") :
     validate_slash(s, Txs(Below(c, i)), consensus_authorities(derive_registry(c, i)))}

\* certificate_statuses: the certificates of a chain whose status is `contested'.
Contested(c) ==
  UNION {{t \in OfType(TxsIn(c[i]), "certificate") :
            \E j \in (i + 1) .. Len(c) : \E s \in GenuineSlashes(c, j) :
              s.offender \in t.granted_by /\ t.submission \in evidence_submissions(s)} :
         i \in DOMAIN c}

-----------------------------------------------------------------------------
(***************************************************************************)
(* The fate of a bond, read off the chain. A position is a block and an     *)
(* index in it; position <<Len(chain) + 1, k>> is in the open block.        *)
(***************************************************************************)
All == Append(chain, block)

Positions == UNION {{i} \X DOMAIN All[i] : i \in DOMAIN All}

At(x) == All[x[1]][x[2]]

\* e would resolve the bond b, if b were still open.
Resolves(e, b) ==
  \/ /\ e.type = "certificate"
     /\ b.verdict = "yes" /\ b.sender \in e.granted_by
     /\ <<b.scope, b.submission>> = certificate_id(e)
  \/ e.type = "slash" /\ b \in e.evidence

\* The first position after x that resolves the bond there: none, or one.
Fate(x) ==
  {y \in Positions : /\ Before(x, y) /\ Resolves(At(y), At(x))
                     /\ \A z \in Positions :
                          Before(x, z) /\ Before(z, y) => ~Resolves(At(z), At(x))}

BondsAt == {x \in Positions : At(x).type = "attestation" /\ At(x).verdict # "abstain"}

Resolved(type) == {x \in BondsAt : \E y \in Fate(x) : At(y).type = type}

-----------------------------------------------------------------------------
(***************************************************************************)
(* Properties.                                                              *)
(***************************************************************************)
TypeOK ==
  /\ offered \in Offers
  /\ Txs(chain) \cup TxsIn(block) \subseteq offered
  /\ weight \in [Person -> [Domain -> Nat]]
  /\ total \in [Person -> Nat]
  /\ locked \in [Person -> Nat]
  /\ bonds \subseteq OfType(offered, "attestation")
  /\ prefix.weight \in [Person -> [Domain -> Nat]]
  /\ prefix.free \in [Person -> Nat]
  /\ posted \in [Person -> Nat]
  /\ promotedAt \in [Person -> 0 .. Index]

(***************************************************************************)
(* Nobody is overdrawn on a valid chain, and the locked counter is exactly  *)
(* what the open bonds hold: a block cannot bond the same tokens twice, and *)
(* no clamp in BalanceLedger ever bites. (blockchain.py:711, balances.py:91)*)
(***************************************************************************)
NoOverdraft ==
  \A p \in Person : locked[p] = Stakes(BondsOf(bonds, p)) /\ locked[p] <= total[p]

(***************************************************************************)
(* The token table implements an escrow account: bonds are posted out of    *)
(* free tokens, leave once and whole, and burning one costs nothing else.   *)
(* (derive_balances, BalanceLedger.)                                        *)
(***************************************************************************)
Account == INSTANCE Escrow WITH Holder <- Person, free <- Free, held <- bonds,
                                Bond <- OfType(UNION Offers, "attestation")

BondsAreEscrowed == Account!Spec

(***************************************************************************)
(* What happened to a bond is decided by the first certificate or slash     *)
(* after it on the chain that names it: a bond is released or burned once,  *)
(* by that one, a certificate pays a reviewer at most once, and every other *)
(* bond is still locked. (_release_for_certificate, _burn_for_slash.)       *)
(***************************************************************************)
FateDecides ==
  /\ bonds = {At(x) : x \in {y \in BondsAt : Fate(y) = {}}}
  /\ \A p \in Person :
       LET mine(S) == {x \in S : At(x).sender = p}
           rewards == UNION {Fate(x) : x \in mine(Resolved("certificate"))}
       IN  total[p] = Endowment[p] + REVIEW_REWARD * Cardinality(rewards)
                        - Stakes({At(x) : x \in mine(Resolved("slash"))})

(***************************************************************************)
(* The state that is_valid_chain carries from block to block is the state   *)
(* that everyone else replays from the prefix: the same weights and, with   *)
(* promotions, the same validators. (blockchain.py:678, :165.)              *)
(***************************************************************************)
ReplayAgrees ==
  /\ derive_registry(chain, Index) = prefix.weight
  /\ validator_set(chain, Index) = Validators

(***************************************************************************)
(* Attesters who vouched for each other, directly or through others, do not *)
(* carry a certificate by themselves on less than ceil(250 / 0.34) = 736    *)
(* weight: the cap leaves such a group below the threshold. Groups are told *)
(* here by closure under ties, not by union-find. (tally.py:189, :233.)     *)
(***************************************************************************)
Linked(T, A, a, b) ==
  \A S \in SUBSET A :
    a \in S /\ (\A tie \in MutualTies(T, A) : tie[1] \in S <=> tie[2] \in S) => b \in S

CartelsNeedMore ==
  \A c \in OfType(TxsIn(block), "certificate") :
    LET T == Txs(chain)
        A == positive_attesters(T, c.scope, c.submission)
    IN  (\E a, x \in A : a # x /\ \A b \in c.granted_by \cup {x} : Linked(T, A, a, b))
          => Weight(prefix.weight, c.scope.domain, A) >= 736

(***************************************************************************)
(* What can take from the certificate c, minted on the prefix, the ground   *)
(* it stands on: the open block has a review by another attester, a slash   *)
(* of a credited one, a certificate for one who carried no weight so far,   *)
(* or the second half of a tie between two of the attesters.                *)
(***************************************************************************)
Shaken(c) ==
  LET A == positive_attesters(Txs(chain), c.scope, c.submission)
      pairs == positive_pairs(Txs(chain) \cup TxsIn(block))
  IN  \/ \E a \in PositiveReviews(TxsIn(block), c.scope, c.submission) : a.sender \notin A
      \/ \E s \in OfType(TxsIn(block), "slash") :
           s.domain = c.scope.domain /\ s.offender \in c.granted_by
      \/ \E d \in OfType(TxsIn(block), "certificate") :
           d.scope.domain = c.scope.domain /\ d.scope.subject \in A \ c.granted_by
      \/ \E p \in positive_pairs(TxsIn(block)) :
           p[1] # p[2] /\ p \in A \X A /\ <<p[2], p[1]>> \in pairs

(***************************************************************************)
(* A certificate that was minted on a prefix and is packed later, above     *)
(* other blocks, is still accepted there unless one of them shook it: no    *)
(* gain of weight, no negative, abstaining or repeated review, no one-sided *)
(* vouching and no slash of others costs it its support or changes whom it  *)
(* credits. (aggregator.py:154, :262: minting and consensus look at         *)
(* different prefixes.)                                                     *)
(***************************************************************************)
MintedStaysGood ==
  [][\A t \in OfType(offered, "certificate") :
       \A c \in certify(Txs(chain), prefix.weight, t.scope, t.submission,
                        CERTIFICATE_THRESHOLD, t.required_items) :
         validate_certificate(c, Txs(chain'), prefix'.weight) \/ Shaken(c)]_vars

(***************************************************************************)
(* A certificate's standing only ever turns from valid to contested, for a  *)
(* cause that comes in a later block: a slash of a reviewer it credits, on  *)
(* the very submission it certifies. It never turns back, whatever becomes  *)
(* of the validators who approved. (certificate_statuses.)                  *)
(***************************************************************************)
ContestedForCause ==
  [][/\ Contested(chain) \subseteq Contested(chain')
     /\ \A c \in Contested(chain') \ Contested(chain) :
          /\ c \in Txs(chain)
          /\ \E s \in OfType(TxsIn(block), "slash") :
               s.offender \in c.granted_by
               /\ \E e \in s.evidence : e.submission = c.submission]_vars

(***************************************************************************)
(* Whoever never gave two opposite verdicts on one claim cannot lose weight *)
(* or tokens, whoever approves what: an abstain, a late or a losing review  *)
(* costs at most that its bond stays locked. (validate_slash.)              *)
(***************************************************************************)
Equivocators ==
  {p \in Person : \E a, b \in OfType(Txs(chain), "attestation") :
     a.sender = p /\ b.sender = p /\ SameClaim(a, b)
     /\ a.verdict = "yes" /\ b.verdict = "no"}

HonestKeepStanding ==
  [][\A p \in Person \ Equivocators :
       total'[p] >= total[p] /\ \A d \in Domain : weight'[p][d] >= weight[p][d]]_vars

(***************************************************************************)
(* Beyond the genesis validators, whoever is a validator was promoted. (The *)
(* claim of blockchain.py:63; a certificate in the consensus domain makes   *)
(* an authority too.)                                                       *)
(***************************************************************************)
OnlyPromotionsJoin ==
  Validators \subseteq consensus_authorities(Genesis) \cup PromotedBefore(promotedAt, Index)
=============================================================================
