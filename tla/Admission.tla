------------------------------ MODULE Admission ------------------------------
(***************************************************************************)
(* What enters the mempool of one node, and when: its HTTP endpoints        *)
(* (network/http_bridge.py), the eligibility gate that they share with      *)
(* gossip (community.py, transaction_rejection), and the chain the gate     *)
(* reads. Each endpoint runs to completion on the event loop of the node,   *)
(* so each is one action.                                                   *)
(*                                                                          *)
(* The peers are the environment here: they gossip transactions, blocks,    *)
(* chains and commits that their own copy of this code would send. Their    *)
(* rounds are the subject of module Community, and what a block does to     *)
(* tokens and weights that of module Ledger: no certificate or slash occurs *)
(* here, so a bond stays locked while its block is on the chain.            *)
(***************************************************************************)
EXTENDS Credentials, Staking, Sequences, FiniteSetsExt

CONSTANTS
  TrustedIssuers,   \* trusted_issuer_dids of this node
  Endowment,
  Quorum,           \* commits that make a block final
  Foreign,          \* credentials the holders got elsewhere
  Settings          \* what a run is given, see SettingAssumption

Tx == [type : {"attestation"}, sender : Person, domain : Domain, stake : Nat, signed : BOOLEAN]
 \cup [type : {"submission"}, sender : Person, work : Nat, signed : BOOLEAN]

ASSUME TrustAssumption == TrustedIssuers \subseteq Issuer /\ Foreign \subseteq Credential
ASSUME EconomyAssumption == Endowment \in [Person -> Nat] /\ Quorum \in Nat \ {0}
ASSUME SettingAssumption ==
  \A s \in Settings :
    /\ s.posted \subseteq Tx      \* transactions that clients post to this node
    /\ s.gossiped \subseteq Tx    \* transactions that peers have
    /\ IsFiniteSet(s.gossiped)
    /\ s.validities \subseteq Int \* validity_days that clients ask for
    /\ s.MaxTime \in Nat          \* bounds: on the clock, the credentials and the
    /\ s.MaxIssued \in Nat        \* challenges issued, the blocks above genesis
    /\ s.MaxChallenges \in Nat    \* and the places a hash can take
    /\ s.MaxBlocks \in Nat
    /\ s.MaxHash \in Nat

VARIABLES
  setting,    \* the member of Settings that this run is given
  now,        \* the clock
  wallet,     \* credentials that holders can present
  issuedAt,   \* when each challenge was issued; challenge c is the c-th
  store,      \* ChallengeStore._issued: challenge to expiry
  mempool,    \* blockchain.mempool
  chain,      \* blockchain.blocks above genesis
  admitted    \* the attestations that spent a challenge, with the challenge

node == <<setting, now, wallet, issuedAt, store, mempool, chain, admitted>>

-----------------------------------------------------------------------------
(***************************************************************************)
(* The chain. A block holds its transactions, its commits, and the place    *)
(* of its hash in the order of hashes. What a hash commits to is everything *)
(* but the commits, here and below.                                         *)
(***************************************************************************)
Hashed(c) == [i \in DOMAIN c |-> <<c[i].txs, c[i].hash>>]

Committed(c) == UNION {c[i].txs : i \in DOMAIN c}

Bonds(T, p) == BondsOf({t \in T : t.type = "attestation"}, p)

free(c, p) == Endowment[p] - Stakes(Bonds(Committed(c), p))

\* No block bonds more than its reviewers had free before it.
is_valid_chain(c) ==
  \A i \in DOMAIN c : \A p \in Person :
    Stakes(Bonds(c[i].txs, p)) <= free(SubSeq(c, 1, i - 1), p)

is_final(b) == b.commits >= Quorum

Rank(c) ==
  <<Max({0} \cup {i \in DOMAIN c : is_final(c[i])}), Len(c),
    IF c = <<>> THEN 0 ELSE c[Len(c)].commits>>

\* d is preferred to our chain c: it is valid, reverts nothing final, and outranks c.
Preferred(c, d) ==
  LET r == Rank(c)
      s == Rank(d)
  IN /\ is_valid_chain(d)
     /\ \A i \in DOMAIN c : is_final(c[i]) => i <= Len(d) /\ Hashed(d)[i] = Hashed(c)[i]
     /\ \/ r[1] < s[1]
        \/ r[1] = s[1] /\ r[2] < s[2]
        \/ r[1] = s[1] /\ r[2] = s[2] /\ r[3] < s[3]
        \/ r = s /\ c # <<>> /\ d[Len(d)].hash < c[Len(c)].hash

-----------------------------------------------------------------------------
NodeInit ==
  /\ setting \in Settings
  /\ now = 0
  /\ wallet = Foreign
  /\ issuedAt = <<>>
  /\ store = <<>>
  /\ mempool = {}
  /\ chain = <<>>
  /\ admitted = {}

PassTime ==
  /\ now < setting.MaxTime
  /\ now' = now + 1
  /\ UNCHANGED <<setting, wallet, issuedAt, store, mempool, chain, admitted>>

\* POST /api/credentials/reviewer, by anybody, for any subject and domains.
IssueReviewerVC ==
  \E p \in Person, D \in (SUBSET Domain) \ {{}}, validity \in setting.validities :
    /\ validity > 0
    /\ Cardinality(wallet \ Foreign) < setting.MaxIssued
    /\ wallet' = wallet \cup {issue_reviewer_credential(AUTHORITY, p, D, now, validity)}
    /\ UNCHANGED <<setting, now, issuedAt, store, mempool, chain, admitted>>

\* POST /api/credentials/challenge.
CredentialChallenge ==
  /\ Len(issuedAt) < setting.MaxChallenges
  /\ issuedAt' = Append(issuedAt, now)
  /\ store' = issue(store, Len(issuedAt) + 1, now)
  /\ UNCHANGED <<setting, now, wallet, mempool, chain, admitted>>

-----------------------------------------------------------------------------
\* With a bug: any bond can be funded.
accepts_transaction_broke(t, p) ==
  /\ t.signed
  /\ t.type = "attestation" =>
       verify_presentation(p, t.sender, t.domain, TrustedIssuers, now)

\* transaction_rejection is None. p is the presentation that comes with t.
accepts_transaction(t, p) ==
  /\ t.signed
  /\ t.type = "attestation" =>
       /\ verify_presentation(p, t.sender, t.domain, TrustedIssuers, now)
       /\ free(chain, t.sender) >= t.stake

\* With a bug: the chain is not searched.
already_seen_in_pool(t) == t \in mempool

already_seen(t) == t \in mempool \cup Committed(chain)

Pooled(t) == IF already_seen(t) THEN mempool ELSE mempool \cup {t}

\* The attestation t, presented with the challenge c, is good for the mempool.
Admit(t, c) ==
  /\ mempool' = Pooled(t)
  /\ admitted' = admitted \cup {[tx |-> t, challenge |-> c, at |-> now]}

\* With a bug: the challenge is spent before the transaction is judged.
SubmitAttestation_first(t, p) ==
  /\ t.type = "attestation"
  /\ store' = consume(store, p.challenge, now)
  /\ IF usable(store, p.challenge, now) /\ accepts_transaction(t, p)
     THEN Admit(t, p.challenge)
     ELSE UNCHANGED <<mempool, admitted>>
  /\ UNCHANGED <<setting, now, wallet, issuedAt, chain>>

(***************************************************************************)
(* POST /api/tx. An attestation that passes the gate spends its challenge,  *)
(* even if the node knows it already, and is turned away if it cannot.      *)
(***************************************************************************)
SubmitAttestation(t, p) ==
  /\ t.type = "attestation"
  /\ accepts_transaction(t, p)
  /\ store' = consume(store, p.challenge, now)
  /\ IF usable(store, p.challenge, now)
     THEN Admit(t, p.challenge)
     ELSE UNCHANGED <<mempool, admitted>>
  /\ UNCHANGED <<setting, now, wallet, issuedAt, chain>>

\* Anything that spends no challenge: a submission that is posted, and
\* on_transaction, where the challenge is some other node's.
Receive(t, p) ==
  /\ accepts_transaction(t, p)
  /\ mempool' = Pooled(t)
  /\ UNCHANGED <<setting, now, wallet, issuedAt, store, chain, admitted>>

SubmitWork(t) == t.type = "submission" /\ Receive(t, {})

\* The presentations a holder can make, over one of these challenges.
Presentations(holder, challenges) ==
  {make_presentation(holder, vc, c) : vc \in wallet, c \in challenges}

\* A presentation travels with every attestation, over a challenge of its entry node.
OnTransaction(t) ==
  \/ t.type = "submission" /\ Receive(t, {})
  \/ t.type = "attestation" /\ \E p \in Presentations(t.sender, {0}) : Receive(t, p)

-----------------------------------------------------------------------------
\* POST /api/mine: the whole mempool, on our tip, unchecked; our commit rides with it.
Mine ==
  \E h \in 1 .. setting.MaxHash :
    /\ mempool # {}
    /\ Len(chain) < setting.MaxBlocks
    /\ chain' = Append(chain, [txs |-> mempool, hash |-> h, commits |-> 1])
    /\ mempool' = {}
    /\ UNCHANGED <<setting, now, wallet, issuedAt, store, admitted>>

\* The chain c becomes ours.
Adopt(c) ==
  /\ Len(c) <= setting.MaxBlocks
  /\ chain' = c
  /\ mempool' = mempool \ Committed(c)
  /\ UNCHANGED <<setting, now, wallet, issuedAt, store, admitted>>

\* A block of a peer, above the first k blocks of our chain.
PeerChains(k) ==
  LET below == SubSeq(chain, 1, k)
  IN  {Append(below, b) :
         b \in [txs : SUBSET (setting.gossiped \ Committed(below)),
               hash : 1 .. setting.MaxHash, commits : 1 .. Quorum]}

\* on_block: the block extends our chain, and the result is valid.
OnBlock ==
  \E c \in PeerChains(Len(chain)) : is_valid_chain(c) /\ Adopt(c)

\* on_chain_response: a fork from our chain, if preferred.
OnChainResponse ==
  \E k \in 0 .. Len(chain) - 1 : \E c \in PeerChains(k) : Preferred(chain, c) /\ Adopt(c)

\* on_commit: one more validator commits to a block we hold.
OnCommit ==
  \E i \in DOMAIN chain :
    /\ chain[i].commits < Quorum
    /\ chain' = [chain EXCEPT ![i].commits = @ + 1]
    /\ UNCHANGED <<setting, now, wallet, issuedAt, store, mempool, admitted>>

NodeNext ==
  \/ PassTime \/ IssueReviewerVC \/ CredentialChallenge
  \/ \E t \in setting.posted :
       \/ \E p \in Presentations(t.sender, DOMAIN issuedAt) : SubmitAttestation(t, p)
       \/ SubmitWork(t)
  \/ \E t \in setting.gossiped : OnTransaction(t)
  \/ Mine \/ OnBlock \/ OnChainResponse \/ OnCommit
=============================================================================
