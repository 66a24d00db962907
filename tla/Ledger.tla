------------------------------- MODULE Ledger -------------------------------
(***************************************************************************)
(* A chain that is valid, transaction by transaction: what Blockchain.      *)
(* is_valid_chain accepts next, and what each transaction does to the state *)
(* that reputation/derive.py derives from the chain (the weight table, the  *)
(* token table and the validator set).                                      *)
(*                                                                          *)
(* A block is judged against the state at its start, `prefix', and so are   *)
(* the transactions in it; their effects apply one by one, to the variables *)
(* weight, total, locked and bonds. The block being filled is `block';      *)
(* SealBlock puts it on the chain.                                          *)
(*                                                                          *)
(* Who proposes a block, and that a transaction is on a chain at most once, *)
(* is the subject of module Community (theorem IncludedOnce).               *)
(***************************************************************************)
EXTENDS Reputation, Staking

CONSTANTS
  Genesis,           \* the trust anchor, [Person -> [Domain -> Nat]]
  Endowment,         \* the balance anchor, [Person -> Nat]
  CERTIFICATE_REWARD,
  REVIEW_REWARD,
  Offers,            \* sets of transactions: a run is given one of them
  MaxBlocks(_)       \* bound: the blocks sealed above genesis, by what is offered

ASSUME GenesisAssumption == Genesis \in [Person -> [Domain -> Nat]]
ASSUME BalanceAssumption == Endowment \in [Person -> Nat]
ASSUME RewardsAssumption == CERTIFICATE_REWARD \in Nat /\ REVIEW_REWARD \in Nat
ASSUME OffersAssumption == \A O \in Offers : \A t \in O : t \in Transaction

VARIABLES
  offered,     \* the transactions that exist
  chain,       \* the sealed blocks above genesis, each a sequence of transactions
  block,       \* the transactions of the open block, of index Len(chain) + 1
  weight,      \* ReputationRegistry._weights
  total,       \* BalanceLedger._total
  locked,      \* BalanceLedger._locked
  bonds,       \* the keys of derive_balances' `locked': bonds not resolved
  prefix,      \* the weights and free balances of the blocks below the open one
  posted,      \* block_locked: what the open block bonds, by reviewer
  promotedAt,  \* promoted and effect_indices: who was promoted in which block
  certified    \* seen_certificate_ids

vars == <<offered, chain, block, weight, total, locked, bonds, prefix, posted,
          promotedAt, certified>>

-----------------------------------------------------------------------------
\* The transactions of a block and of a list of blocks.
TxsIn(b) == {b[k] : k \in DOMAIN b}

Txs(c) == UNION {TxsIn(c[i]) : i \in DOMAIN c}

\* With a bug: nothing is floored at 0.
Monus_plain(m, n) == m - n

\* max(0, m - n)
Monus(m, n) == IF m >= n THEN m - n ELSE 0

Free == [p \in Person |-> total[p] - locked[p]]

Index == Len(chain) + 1

Validators == consensus_authorities(prefix.weight) \cup PromotedBefore(promotedAt, Index)

\* block_validators: promotions of the open block included.
BlockValidators == Validators \cup {p \in Person : promotedAt[p] = Index}

Init ==
  /\ offered \in Offers
  /\ chain = <<>>
  /\ block = <<>>
  /\ weight = Genesis
  /\ total = Endowment
  /\ locked = [p \in Person |-> 0]
  /\ bonds = {}
  /\ prefix = [weight |-> Genesis, free |-> Endowment]
  /\ posted = [p \in Person |-> 0]
  /\ promotedAt = [p \in Person |-> 0]
  /\ certified = {}

\* t is the next transaction of the open block.
Pack(t) ==
  /\ t \notin Txs(chain) \cup TxsIn(block)
  /\ block' = Append(block, t)
  /\ UNCHANGED <<offered, chain, prefix>>

-----------------------------------------------------------------------------
\* With a bug: each bond of a block is held against the prefix alone.
Affordable_alone(t) == prefix.free[t.sender] >= t.stake

\* The reviewer's free balance before the block, less what the block bonds.
Affordable(t) == prefix.free[t.sender] - posted[t.sender] >= t.stake

\* An attestation locks its stake; an abstain is no bond.
PostAttestation(t) ==
  /\ t.type = "attestation"
  /\ t.signed
  /\ Affordable(t)
  /\ posted' = [posted EXCEPT ![t.sender] = @ + t.stake]
  /\ locked' = [locked EXCEPT ![t.sender] = @ + t.stake]
  /\ bonds' = IF is_abstain(t) THEN bonds ELSE bonds \cup {t}
  /\ Pack(t)
  /\ UNCHANGED <<weight, total, promotedAt, certified>>

\* A submission declares a piece of work, and moves nothing.
PostSubmission(t) ==
  /\ t.type = "submission"
  /\ t.signed
  /\ Pack(t)
  /\ UNCHANGED <<weight, total, locked, bonds, posted, promotedAt, certified>>

\* With a bug: a certificate releases the bonds on every submission of its scope.
Contributing_anywork(c) ==
  {b \in bonds : b.sender \in c.granted_by /\ b.verdict = "yes" /\ b.scope = c.scope}

\* The bonds that a certificate releases: those of the attesters it credits.
Contributing(c) ==
  {b \in bonds : /\ b.sender \in c.granted_by
                 /\ b.verdict = "yes"
                 /\ b.scope = c.scope
                 /\ b.submission = c.submission}

(***************************************************************************)
(* A certificate credits its subject, returns the contributing bonds and    *)
(* pays each of their holders one reward.                                   *)
(***************************************************************************)
IssueCertificate(c) ==
  /\ c.type = "certificate"
  /\ certificate_id(c) \notin certified
  /\ validate_certificate(c, Txs(chain), prefix.weight)
  /\ certified' = certified \cup {certificate_id(c)}
  /\ weight' = [weight EXCEPT ![c.scope.subject][c.scope.domain] = @ + CERTIFICATE_REWARD]
  /\ total' = [p \in Person |-> IF BondsOf(Contributing(c), p) = {} THEN total[p]
                                ELSE total[p] + REVIEW_REWARD]
  /\ locked' = [p \in Person |->
                  Monus(locked[p], Stakes(BondsOf(Contributing(c), p)))]
  /\ bonds' = bonds \ Contributing(c)
  /\ Pack(c)
  /\ UNCHANGED <<posted, promotedAt>>

\* With a bug: evidence is burned whether or not it is still locked.
Burned_anyway(s) == {b \in s.evidence : b.sender = s.offender}

\* The bonds that a slash burns: its evidence, as far as it is still locked.
Burned(s) == {b \in s.evidence \cap bonds : b.sender = s.offender}

Debit(s) == IF s.amount > MAX_SLASH THEN MAX_SLASH ELSE s.amount

\* A slash debits the offender and burns the bonds behind the evidence.
ApplySlash(s) ==
  /\ s.type = "slash"
  /\ validate_slash(s, Txs(chain), consensus_authorities(prefix.weight))
  /\ weight' = [weight EXCEPT ![s.offender][s.domain] = Monus(@, Debit(s))]
  /\ total' = [total EXCEPT ![s.offender] = Monus(@, Stakes(Burned(s)))]
  /\ locked' = [locked EXCEPT ![s.offender] = Monus(@, Stakes(Burned(s)))]
  /\ bonds' = bonds \ Burned(s)
  /\ Pack(s)
  /\ UNCHANGED <<posted, promotedAt, certified>>

\* A promotion makes its candidate a validator of the blocks after this one.
Promote(t) ==
  /\ t.type = "promotion"
  /\ promotion_ok(t, BlockValidators, prefix.weight, Cardinality(FreshIn(promotedAt, Index)))
  /\ promotedAt' = [promotedAt EXCEPT ![t.candidate] = Index]
  /\ Pack(t)
  /\ UNCHANGED <<weight, total, locked, bonds, posted, certified>>

\* The open block is produced; the next one is judged against its effects.
SealBlock ==
  /\ Len(chain) < MaxBlocks(offered)
  /\ chain' = Append(chain, block)
  /\ block' = <<>>
  /\ prefix' = [weight |-> weight, free |-> Free]
  /\ posted' = [p \in Person |-> 0]
  /\ UNCHANGED <<offered, weight, total, locked, bonds, promotedAt, certified>>

Next ==
  \/ \E t \in offered : \/ PostAttestation(t) \/ PostSubmission(t) \/ IssueCertificate(t)
                        \/ ApplySlash(t) \/ Promote(t)
  \/ SealBlock

Spec == Init /\ [][Next]_vars
=============================================================================
