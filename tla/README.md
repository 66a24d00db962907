# Verification of the competence-attestation chain

This directory holds TLA+ models of the system in `src/`, the TLC runs that check
them on small instances, and TLAPS proofs of the theorems that hold for every
instance. File and line references are to `src/`.

## 1. The system

Nodes keep one blockchain each, gossip transactions and blocks over IPv8, and
finalize blocks by collecting signed commits from a quorum of validators. What the
transactions mean (attestations, certificates, slashes, promotions) is derived from
the chain by replaying it; nothing but the chain is state.

| Component | Source | State | Operations |
|---|---|---|---|
| Chain and consensus rules | `blockchain/blockchain.py`, `block.py` | `blocks`, `mempool`; commits on each copy of a block | `validator_set`, `add_block`, `is_final`, `is_valid_chain`, `replace_chain` |
| Gossip, commit round, view change | `network/community.py` | `_view_change_votes`, `_view_advanced`, `_finalized_announced` | six message handlers, `submit_local`, `mine_and_broadcast_block`, `request_view_change` |
| Reputation, balances, slashing, tally | `reputation/*.py` | none: derived from a prefix of the chain | `derive_registry`, `derive_balances`, `validate_slash`, cluster caps |
| Attestations and certificates | `attestation/*.py` | none | `certify`, `validate_certificate` |
| Promotions, signatures | `blockchain/promotion.py`, `tx_signing.py`, `transaction.py` | none | `_promotion_ok`, `_replay_promotions` |
| Credentials | `credentials/*.py` | `ChallengeStore._issued` | issue, consume, purge a challenge |
| HTTP bridge | `network/http_bridge.py` | websocket clients, last fingerprints | `POST /api/tx`, `/api/mine`, push loop |
| Scenarios, benchmarks, demo | `network/scenarios.py`, `benchmarks.py`, `demo.py` | a lock, a cluster | scripted drivers |
| Wire format, Merkle tree, keys, DIDs | `network/wire.py`, `blockchain/merkle.py`, `crypto/*.py` | none | encoding and hashing |
| Front end | `frontend/` | browser state | display, signing |

**How they interact.** All nodes of a process share one asyncio event loop. A
message handler never awaits, so it is atomic; nodes interleave between messages.
`on_block` appends a block that makes the whole chain valid, commits to it and
gossips the commit; any other block makes it fetch the sender's chain, which
`replace_chain` adopts or refuses. `on_commit` and `on_view_change` relay what is
new. HTTP handlers and drivers call the same methods on the same loop.

**What is hard.** Messages are datagrams: late, lost, repeated, out of order. A
commit rides on a node's own *copy* of a block, outside its hash, so two nodes hold
different evidence for one block and an adopted chain can carry less evidence than
the one it replaces. Validators are derived from the chain, so a reorganisation
changes who they are while recorded votes stay. Nothing is persisted: there is no
crash recovery to model, a restarted node is a new one.

**What makes each component correct.** Chain and gossip: finality is irrevocable,
nodes agree on what is final, a node's chain obeys its own rules, a transaction is
included once, blocks become final, a stalled proposer is replaced. Ledger: nobody is
overdrawn, a bond is released or burned once and whole, only equivocators lose
weight or tokens, what is replayed from a prefix is what consensus carries along,
a certificate that is contested stays so. Challenges: a challenge lets in at most one
attestation, before it expires, and is not lost otherwise. Live push: a client that
stays connected ends up with the node's state.

## 2. The modules

| Module | What it is |
|---|---|
| `Blockchain` | The pure functions of `blockchain.py` on a chain and the commits on its copies: `quorum_size`, the proposer schedule (`IsScheduled`), `validator_set`, `is_final`, `is_valid_chain`, the fork-choice rank and `Adopts` (the three conditions of `replace_chain`). |
| `Community` | `AttestationCommunity` on every node and the network between them. One action per handler and per sender. |
| `FinalizedLog` | Abstract: each node's finalized history is an append-only log. |
| `Reputation` | The pure functions of a set of transactions: the tally and its collusion cap, `certify` and `validate_certificate`, `validate_slash`, `promotion_ok`. |
| `Ledger` | One valid chain, transaction by transaction: what `is_valid_chain` accepts next and what it does to weights, tokens, bonds and validators. Extends `Reputation`. |
| `Escrow` | Abstract: a token account whose bonds are posted, then returned with a reward or forfeited, once and whole. |
| `Replay` | The same state derived from the chain from scratch (`derive_registry`, `replay_promotions`, `certificate_statuses`), and the properties of `Ledger`. |
| `Credentials` | Reviewer credentials, presentations and the challenge store, as functions. |
| `Admission` | What enters one node's mempool and chain: its write endpoints and the gate they share with gossip. The peers are the environment. Extends `Credentials`. |
| `LivePush` | The websocket: snapshot, fingerprints, watcher, broadcast. Extends `Admission`. |
| `Bridge` | `Admission` and `LivePush` on one event loop, with fairness and the properties. |
| `MCCommunity`, `MCLedger`, `MCBridge` | Values of the constants for TLC. |
| `Staking` | The tokens in a set of bonds: their sum as the size of a set. Extended by `Escrow`, `Ledger` and `Admission`. |
| `BlockchainProofs`, `CommunityProofs`, `ConsensusProofs` | Theorems about chains and gossip: of the pure functions; types and finality; inclusion, validity and agreement. |
| `LedgerProofs`, `ReplayProofs` | Theorems about a valid chain: tokens, bonds and standing; what is replayed from it. |
| `BridgeProofs` | Theorems about one node's gate, challenges and feed. |
| `Lemmas`, `Iteration` | What the proofs share: induction in the form of sets, sums of stakes; what a recursive function over `0 .. n` and a fold over a finite set compute. |

The three families meet at constants. `Community` takes the validators that a set of
transactions implies as `ValidatorsAfter`; `Ledger` says what they are on one chain,
and relies on the theorem `IncludedOnce` of `Community` for a transaction being on a
chain at most once. `Admission` lets peers send any block, fork or commit that their
copy of the code could, which is what `Community` produces.

### Chain and gossip: state and code

| Variable | Code |
|---|---|
| `made` | the content of every block hash produced so far (hashes are collision free) |
| `chain[n]`, `mempool[n]` | `blockchain.blocks` without genesis, `blockchain.mempool` |
| `commits[n][h]` | `commit_signatures` of n's copy of h |
| `votes[n]`, `advanced[n]`, `announced[n]` | `_view_change_votes`, `_view_advanced`, `_finalized_announced` |
| `net` | messages in flight |

| Action | Code |
|---|---|
| `SubmitLocal`, `OnTransaction` | `submit_local` / `POST /api/tx`, `on_transaction` |
| `PoolProtocolTx` | drivers that pool a certificate, promotion or slash on the proposer (`mine_scheduled`) |
| `MineBlock` | `mine_and_broadcast_block` called by `mine_scheduled` (in turn) or by `POST /api/mine` (`OutOfTurn`, whoever's turn it is) |
| `Readvertise` | `broadcast_block(last_block)` |
| `AppendBlock`, `DivergingBlock` | the two branches of `on_block`, with `_try_append_block`, `_commit_if_validator`, `_note_if_finalized` |
| `OnChainRequest`, `AdoptChain`, `RefuseChain` | `on_chain_request`, the two branches of `on_chain_response` |
| `OnCommit`, `DropCommit` | `on_commit` with `_apply_commit` |
| `RequestViewChange`, `OnViewChange`, `DropViewChange` | `request_view_change`, `on_view_change` with `_apply_view_change`, `_maybe_advance_view` and the proposal it makes |
| `Lose` | a datagram that never arrives |

### Ledger: state and code

| Variable | Code |
|---|---|
| `chain`, `block` | the sealed blocks and the one that `is_valid_chain` is looking at |
| `weight` | `ReputationRegistry._weights` |
| `total`, `locked` | `BalanceLedger._total`, `_locked` |
| `bonds` | the keys of `locked` in `derive_balances`: bonds that nothing has resolved |
| `prefix`, `posted` | `prefix_registry` and `prefix_balances` of the block, `block_locked` |
| `promotedAt`, `certified` | `promoted` with `effect_indices`, `seen_certificate_ids` |

| Action | Code |
|---|---|
| `PostAttestation`, `PostSubmission` | the attestation and submission branches of `is_valid_chain`; `BalanceLedger.lock` |
| `IssueCertificate` | the certificate branch, `registry.credit`, `_release_for_certificate` |
| `ApplySlash` | the slash branch, `registry.debit`, `_burn_for_slash` |
| `Promote` | the promotion branch with `_promotion_ok` |
| `SealBlock` | the next round of the loop over blocks |

### Bridge: state and code

| Variable | Code |
|---|---|
| `store`, `issuedAt` | `ChallengeStore._issued`; when each challenge was issued (history) |
| `wallet` | credentials in the holders' browsers |
| `mempool`, `chain` | the node's `Blockchain`; a block has its transactions, a place in the order of hashes, and a number of commits |
| `admitted` | which attestation spent which challenge, and when (history) |
| `clients`, `closed`, `greeting`, `shown` | `ws_clients`; sockets that are gone; what is left of a snapshot; what a page shows |
| `last`, `todo`, `event`, `to` | `ws_fingerprints`; where `push_updates` and `_broadcast` are |
| `past` | the values a category had while somebody watched (history, for `KeepsUp`) |

| Action | Code |
|---|---|
| `IssueReviewerVC`, `CredentialChallenge` | the two credential endpoints |
| `SubmitAttestation`, `SubmitWork` | `submit_transaction` |
| `OnTransaction`, `OnBlock`, `OnChainResponse`, `OnCommit` | the handlers of `community.py`, as one node sees them |
| `Mine` | `produce_block` |
| `Connect`, `Greet`, `Leave` | `_ws` up to its first send, each send of the snapshot, the end of the socket |
| `Tick`, `NextEvent`, `SendTo` | a turn of `_state_watcher`, the next category of `push_updates`, each send of `_broadcast` |

### Abstractions

* In `Blockchain` and `Community` a transaction is opaque and valid wherever a node
  can place it; the validators that a prefix implies are the constant operator
  `ValidatorsAfter`.
* `previous_hash` is modelled by the chain it names. A node's pool is a set: the
  order of transactions in a block decides nothing in `Community`. In `Ledger`,
  where it matters, a block is a sequence.
* Signatures cannot be forged and every node runs this code. Byzantine nodes are
  out of scope, with one exception that the code itself offers: `OutOfTurn` nodes
  mine when it is not their turn.
* A message may be sent again before its first copy arrived: `net` is a set, and
  two equal datagrams in flight are one, kept after delivery if its kind is in
  `Duplicated`.
* A transaction of `Ledger` is its record, which stands for its hash; who signed is a
  field. `subject`, `rubric_root` and `domain` always travel together, as `scope`.
* `Stakes` counts the tokens of a set of bonds as the cardinality of a set of tokens,
  one per unit of stake (module `Staking`): the same number as the sum, and a form the
  prover can use.
* `Admission` has no certificate, slash or promotion, so a bond stays locked while its
  block is on the chain; what resolving one does is in `Ledger`. A handler is atomic
  with respect to the clock: it reads the time once or twice within a microsecond.
  A fork that peers send has one block of their own.
* `LivePush` has three of the five categories: reputation is derived from the chain
  like balances, and peers are independent of the rest.

## 3. The runs

| Run | Instance | Checks | Shows |
|---|---|---|---|
| `forks` | 2 validators, view change at height 1, 3 heights, 4 blocks, duplicated commits and votes | `TypeOK`, `ChainsValid`, `NoDoubleInclusion`, `AnnouncedStaysFinal`, `IrrevocableFinality` | The whole protocol with forks, chain fetches and reorganisations. `IrrevocableFinality` is the refinement of `FinalizedLog`. |
| `manual` | 3 nodes in a line, the third is promoted by a transaction; node 2 mines out of turn; blocks are lost; node 3 re-advertises its tip | `ChainsValid`, `Agreement` | The scheduled nodes never follow an out-of-turn block; with no view change no conflicting histories become final while the validator set grows from 2 to 3. |
| `conflict` | 4 validators, lossy partial mesh | `Agreement` violated | See findings. |
| `growth` | 2 validators, 2 heights | `ExtensionsAdopted` violated | See findings. |
| `stale_votes` | line of 3 with a promotion, no commits arrive | `ChainsValid` violated | See findings. |
| `rotation` | 4 validators, one offline, each timer fires once | `StalledRotatedOut` violated | See findings. |
| `overtaken` | 3 validators, 1 block, nothing lost | `EveryBlockFinal` violated | See findings. |
| `behind` | 3 validators, the proposer of height 2 stalls, no commits arrive | `QuorumRotates` violated | See findings. |
| `ledger` | 5 participants; 8 stories of up to 8 transactions, each in every order and every division into blocks | `TypeOK`, `NoOverdraft`, `FateDecides`, `ReplayAgrees`, `CartelsNeedMore`, `BondsAreEscrowed`, `MintedStaysGood`, `ContestedForCause`, `HonestKeepStanding` | Tokens, weights, certificates and validators of a valid chain. `BondsAreEscrowed` is the refinement of `Escrow`. |
| `joining` | three founders of weight 100, one participant of weight 40 | `OnlyPromotionsJoin` violated | See findings. |
| `bridge` | one node; four days: `Posting`, `Peering`, `Watching`, `Forking` | `TypeOK`, `UsedOnce`, `GoodUntilUsed`, `OneBondIsSafe`, `KeepsUp` | The gate, the challenges and the live feed, with everything peers may send in between. |
| `push` | day `Forking` | `PushedAsPolled` violated | See findings. |

**Bounds.** `MaxHeight` (1 to 3): a fork needs one height, an overtaking chain two,
committing above it three; an overtaking commit needs one. `Hash` bounds the number of blocks: two for a fork, and
two above one of them. `TimeoutHeights` and `MaxTimeouts` bound view-change votes:
a competing block needs one round of them. `overtaken` and `behind` have three validators, the fewest of whom one can be neither the
producer nor the one whose message comes too early. In `behind` commits are lost
(`ButCommits`), as finality decides nothing about votes. `MaxSync` = 1 chain response in flight
between two nodes; more would be equal or older snapshots. `Draw` gives a new block
the lowest unused hash, so the earlier of two competing blocks has the lower hash;
either node can be the earlier one, so both outcomes of the tie-break occur.
The runs stop when the bounds are reached, so none checks deadlock. No symmetry is
used: the schedule orders the nodes, and ties between attesters are united in order.

`ledger`: the stories are sets of transactions made for one question each, and TLC
takes every order and every division into blocks that the rules allow: a reviewer who
carries no weight until he is certified himself, and so is not credited before; a slash
presented twice, with different amounts, before and after the certificate that the
offender carried; a takeover, in which approving validators stop being a quorum; two
and three reviewers who vouch for each other; a promotion around a slash of its
candidate; promotions until the window of five blocks has passed; a bond that cannot
be afforded, an abstain offered as evidence, a slash without a quorum. `MaxBlocks` is
3 sealed blocks, 4 for the takeover and 7 for the window, after which nothing new can
happen in each. Weights and thresholds are those of the code.

`bridge`: `TTL` = 1 and a clock of 2 or 3 values make challenges that are fresh,
about to expire and expired; two challenges show that one's purge spares the other.
`Posting` has one reviewer with two bonds that exceed five tokens together and not
singly; `Peering` a credential that is asked for, one that is not valid yet and one
of an issuer that is not trusted, a bond that cannot be funded, and two blocks;
`Watching` a browser while a transaction, a block, a rival block and commits arrive;
`Forking` a browser while empty blocks, forks and commits arrive up to height 2. Peers
send blocks with any commits up to `Quorum` = 2. One browser is enough for `KeepsUp`
and `PushedAsPolled`: clients share nothing but the watcher, which `SendTo` serves in
any order.

**Fairness** (`LiveSpec`). asyncio runs every handler whose datagram has arrived, so
each node eventually handles each kind of message it has received and which is not
lost (`Delivers`). The drivers call `mine_scheduled` in a loop, so a node whose turn
it is mines. A waiting validator's timer fires. Nothing else is fair.

In `Bridge`, the watcher's turn (`Tick`, `NextEvent`) and every send (`Greet`, `SendTo`)
are weakly fair: the event loop runs each task that is ready, and a client that stays
connected reads. The second half is an assumption about browsers: the watcher awaits
each send, so one that stops reading without closing holds up everybody's updates.
Neither the node's own steps nor `Connect` and `Leave` are fair.

`KeepsUp` says that a category which agrees with the fingerprints when no broadcast is
under way keeps up with the node from then on. It excuses one case, told by `past`: the
node is back at what that category was before. A transaction pooled and mined between
two looks of the watcher leaves the fingerprint as it was, and an event built after the
fingerprint was taken can show the state in between.

## 4. Findings

1. **Conflicting blocks can both become final** (`conflict`). README 35-36 says they
   never can. Blocks X (view 0) and Y (view 1) compete at height 1. Some validators
   commit to X, and X becomes final on one node. Others, who have not seen that
   quorum, adopt the longer [Y, Z] and commit above it: no rule remembers that they
   committed to X. README 325-329 names the missing lock rules, without this.
2. **A longer extension is refused** (`growth`). The rank compares finalized heights
   computed from each side's copies. A node whose tip is final refuses a longer chain
   that extends its own when the sender has not yet received the same commits.
3. **Stale view-change votes** (`stale_votes`). `_maybe_advance_view` counts votes
   that were valid under an earlier validator set. A node can propose a block its own
   `is_valid_chain` rejects, and then accepts nothing any more.
4. **Votes scatter over views** (`rotation`). `_next_view` takes the maximum over
   everybody's votes. A validator that hears a vote before its own timer fires votes
   one view higher. Further timeouts repeat the pattern, as the maximum only grows.
5. **A commit that overtakes its block is lost** (`overtaken`). `community.py` 41-42 says that
   all honest nodes converge on the same finalized block, and 816-817 that a dropped
   commit does no harm, since the commit round re-converges. A commit is sent once
   and relayed once by each node that takes it; one that a node drops because
   the block has not come yet is not asked for. With a quorum of three out of three the
   block stays short of it on that node, until a later block becomes final above it or
   somebody advertises the tip again, as the scenarios and benchmarks do by hand.
6. **A vote above the tip is lost** (`behind`). By `community.py` 52-54 the proposer of a view
   proposes once a quorum of votes is collected, and by 651-652 votes flood the mesh. In a
   node that is a block behind, `validator_set` raises in the handler (`blockchain.py`
   290), so the vote is neither recorded nor relayed. If that node is the proposer of the
   view, the others hold the quorum and it does not; a next timeout votes for another view.
7. **A certificate makes a validator** (`joining`). `blockchain.py` 63-65 says that only
   promotions join the validator set. The domain `consensus` is a domain like any
   other for attestations and certificates, and the reward of a certificate in it
   raises the very weight that validators are told by. None of the gates of a
   promotion applies.
8. **Commits are not pushed** (`push`). `http_bridge.py` 227-229 promises identical data
   to pollers and subscribers. The chain's fingerprint does not see commits, and a
   block usually becomes final after it was pushed: the page shows it as pending until
   the next block. Two more ways to the same end show up when this one is excluded: an
   event of the snapshot arrives after a newer one of a broadcast (the socket joins
   the clients before its snapshot is sent), and a change that is undone between the
   watcher's look and the event it builds.

Seen while modelling and not checked by a run:

* The finality-first rank lets a node adopt a *shorter* chain and then propose and
  commit again at a height it had filled, so the conflict of finding 1 does not need a
  view change; the instance that shows it is too large for TLC.
* `on_chain_response` commits to none of the blocks it adopts. A validator that gets block 2
  before block 1 fetches both and never commits to either, although by `community.py` 34-36
  a validator signs every valid block that it receives.
* A node that adopts copies with fewer commits takes a commit it had before for new, and
  relays it again. Each adoption raises the rank, so the relaying ends.
* `community.py` 402-404 says that a node never mines a transaction that could not be valid.
  The gate funds each bond against the chain and not against the pool: two bonds of one
  reviewer, each affordable, are mined together, and the node's own chain is invalid from
  then on. `OneBondIsSafe` checks that it takes two; `NoOverdraft` that a valid chain never
  holds them.
* `blockchain.py` 233-235 says that a fresh cohort can never reach a blocking share. The
  cap admits exactly a third, and a third does block: theorem `FreshCohort`.
* The collusion cap (`tally.py` 233) is a share of the raw total, not of the support that
  counts. A cluster that alone reviewed a work counts for 34% of its weight, and with 736
  carries a certificate; `CartelsNeedMore` checks that it needs as much.
* A claim, for `_conflicting_attestations`, leaves out the submission: a reviewer who
  rejects a first version and approves the second can be slashed for it.
* A slash may be repeated for the same evidence, with another amount or later approvals;
  every one debits weight again, only the first can find the bonds to burn.

## 5. Proofs

All assumptions are the named `ASSUME`s of the modules: nodes, persons and hashes are
numbers (ordered like the hex strings), there are finitely many of them, anchors,
endowments and bounds have their types, what is offered are transactions, the
validators implied by a set of transactions are nodes, the authority is an issuer.
Topology, loss, duplication, delivery, who mines out of turn, the validator sets, the
transactions that are offered and what peers send are arbitrary.

Chain and gossip:

* `TypeCorrect`: `Spec => []TypeOK`. `TypeOK` is not inductive: `NextView` is a
  maximum, which exists only because recorded views are bounded (`BoundedVotes`).
  `TypeInv` adds that.
* `FinalityIsIrrevocable`: `Spec => IrrevocableFinality`, that is, `Community`
  implements `FinalizedLog`. The inductive invariant adds `LinkInv`: every block of a
  node's chain names the chain below it. Then
  - a chain that only grows keeps what it has finalized (`GrowthKeepsFinality`): the
    validators of a block depend on the blocks below it, and commits on the blocks
    of a growing chain only accumulate. That an appended block is not already on the
    chain, where appending would overwrite the commits on it, follows from the links;
  - an adopted chain keeps it too (`AdoptionKeepsFinality`): its finalized height is
    not lower, or it would not outrank ours, and it holds our last finalized block,
    so by the links all blocks below. That these are final *in the candidate* needs
    no argument about single commits: they are below its finalized height.
* `AnnouncementsStand`: `Spec => []AnnouncedStaysFinal`, also in the instance of run
  `conflict`, where two nodes do finalize different blocks: neither gives up its own, since a block is announced
  only when it is final on the announcer's new chain and that prefix never shrinks.
* `IncludedOnce`: `Spec => []NoDoubleInclusion`. No property of a single chain is
  inductive here, since an adopted chain was built elsewhere. The invariant is about
  blocks: a block shares no transaction with the history it names (`FreshBlocks`),
  because its producer's pool shared none with its chain (`FreshPools`). With the
  links this carries over to every chain that holds the block.

These hold for arbitrary validator changes, out-of-turn miners and bounds, so they cover
the instances where agreement *between* nodes fails. The next two properties do fail in
general (findings 1 and 3). What is proved of them names the one thing that the code
leaves open, and shows that nothing else is missing.

* `ChainsValid`. What a node appends or adopts it has checked; what it proposes it has
  not. A later view is justified by recorded votes, and `ChainsStayValid` shows that
  chains stay valid while the votes recorded for the next height are votes of
  validators of the node's present chain (`VotesCurrent`). Recording checks that; only a
  reorganisation can undo it. Three corollaries discharge the hypothesis:
  - `SteadyChainsStayValid` without any assumption on behaviours, when the transactions
    never change the validators or no height times out. The first is the instance of
    run `forks`, the second that of run `manual`.
  - `ExtendedChainsStayValid` with changing validators and timeouts, when nodes only
    ever extend their chains (`OnlyExtends`). The invariant is `VotesPast`: a recorded vote
    is not for a height above the tip's successor, so what its signer's standing depends
    on is on the chain already. Run `stale_votes` leaves `OnlyExtends` and ends invalid.
* `Agreement`, when quorums of any two validator sets meet (`QuorumsOverlap`).
  - `AgreementUnlessTwoBranches`: two histories that conflict need a validator with
    commits on two branches. The common signer of the two last finalized blocks has
    its commits on both, so one is below the other (`OneBranch`), and the links do the rest.
  - `LockedNodesAgree`: the lock of PBFT, which README 325-327 says is not implemented,
    would be enough. `KeepsCommitted` states it as a restriction of steps: a node does not
    leave a block of its chain while its own commit to it is on a copy or in a message.
    The invariant is `CommittedOnChain`, every commit that is about is to a block on its
    signer's chain; two blocks of one chain are on one branch. The lock is a strict one:
    nodes still fork, change views and refuse each other's chains, but a validator,
    who commits to what it appends, hardly ever reorganises again (in the instance of
    run `forks` never); who is no validator of a block may leave it. It buys agreement
    with liveness, and the rules by which PBFT unlocks are not part of it.
    Run `conflict` is the behaviour in which a node leaves a committed block.
  - `FoundersKeepOverlap` and `GrowingSetsMeet` say when quorums of changing sets meet: a set
    and a larger one as long as it has not more than doubled plus one; any two as long
    as all validators there ever are number fewer than two quorums of the founders,
    which is three for two founders (run `manual`) and five for four.

Ledger (`LedgerProofs`). The inductive invariant is `IInv`: `TypeOK`, `NoOverdraft`, `Shape`
(blocks are sequences of transactions, there are finitely many of them, and an open
bond is on the chain or in the open block) and `Covered`: what the block may still bond,
`prefix.free[p] - posted[p]`, is not more than what `p` has free at the moment.
`NoOverdraft` alone is not inductive, since a bond is judged against the prefix and not
against the balance of the moment, from which slashes and certificates of the same
block have taken or to which they have given.

* `LedgerTypes`: `Spec => []TypeOK`, and with `NobodyOverdrawn`: `Spec => []NoOverdraft`.
  The sum of open stakes is the cardinality of a set of tokens, so that resolving
  bonds splits it in two by a fact about finite sets instead of an induction over sums.
* `LedgerImplementsEscrow`: `Spec => BondsAreEscrowed`. Each action is `Post`, `Settle`,
  `Forfeit` or a stutter of `Escrow`: by `NoOverdraft` no clamp bites, so releasing
  gives back what was locked, and burning leaves the free balance alone.
* `HonestReviewersKeepStanding`: `Spec => HonestKeepStanding`. Only a slash takes anything,
  and its evidence, which is on the chain, makes the offender an equivocator.
* `CartelsPayForTheCap`: `Spec => []CartelsNeedMore`. `CartelsNeedMore` tells groups by closure
  under mutual reviews, the code by union-find, and the proof shows that the code finds
  at least the groups that closure does. Parents are at most their children (`Forest`), so `find`
  ends at a root (`FindsRoot`) and `unite` keeps together what was together (`Unites`); by
  induction over the set of ties the two ends of each are found in one place (`UnitedTies`),
  and a linked group is in one cluster. All other clusters then weigh nothing, and a sum
  with one value other than 0 is that value (`SumOfOne`), so the support is at most the cap
  (`CappedGroup`): 34 percent of less than 736 is below 250. The invariant `Accepted` says that a
  certificate in the open block was judged against the prefix as it still is.
* `FreshCohort`: what the fraction cap buys, for every size of the validator set.

Replay (`ReplayProofs`). The functions of `Replay` recurse over a chain. The prover has no
induction schema that takes an operator, so induction is stated for sets (`SetInduction`: a
set with 0 that is closed under successor holds every natural number), and `Iteration`
derives from it what any loop computes: its first value and each step from the one
before (`Iterates`), that two loops with equal steps are equal (`SameLoop`), and that
a loop stays in what its steps stay in (`LoopStays`). It is instantiated once for each
loop of `derive_registry` and `_replay_promotions`. For folds over a finite set, in whatever order
they take its elements, `Folded` says the same; the union-find over the ties
and the sums of weights are its two instances, in `LedgerProofs`, where `SubsetInduction`
takes the place of induction over numbers.

* `ReplayMatchesConsensus`: `Spec => []ReplayAgrees`. The invariant `Replayed` relates the
  carried state to the replay in the middle of a block: `weight` is what `apply_block` makes
  of the open block, and `promotedAt` what `apply_promotions` does. The cohort within the
  window, which consensus counts over a list of block numbers and the replay over its own,
  comes out the same because a promotion is never repeated.
* `MintedUnlessShaken`: `Spec => MintedStaysGood`. `certify` looks at one prefix and
  `validate_certificate` at a longer one. The invariant `Drift` bounds what an open block does to
  weights: they fall only by a slash and rise only by a certificate. Without a new
  attester (`SameAttesters`) and a new tie between two of them (`SameTies`) the clusters are
  the old ones (`ClusterShape`), and capped support grows with the weights (`SupportGrows`),
  since the cap is a share of a total that grows along. An attester who carried no weight
  before carries none now, so the same reviewers are credited.
* `CertificatesContestedForCause`: `Spec => ContestedForCause`. What is genuine in a block is
  judged by the blocks below, which sealing another one on top does not touch.
* `FirstFateDecides`: `Spec => []FateDecides`. The invariant `Fates` adds that no transaction is
  at two positions and that a bond with any candidate for its fate has one. Each step
  puts one transaction behind all others, so it decides the fate of the bonds that are
  still open and of no other.

Bridge (`BridgeProofs`). The invariant relates the store, the times of issue and the
history of admissions: every challenge in the store was issued and expires `TTL` later,
one that was spent is not in it, two admissions never share one, and one that is
unspent and unexpired is in it.

* `ChallengesUsedOnce`: `Spec => []UsedOnce`; `ChallengesStayGood`: `Spec => []GoodUntilUsed`,
  for every clock, lifetime, number of challenges and interleaving with everything else
  the node does.
* `OverdraftTakesTwoBonds`: `Spec => []OneBondIsSafe`. The invariant `Pool` says of mempool and
  chain together that no transaction is at two places and that every bond could be
  funded by itself (`Fundable`): by the gate if it came from a client or in gossip,
  because the chain is valid if it came with a peer's. A reviewer who overdraws it then
  has two.
* `BridgeTypes`: `Spec => []TypeOK`, from `Pool`, the types of what clients hold (`Desk`), and
  those of what is sent to browsers (`Screens`).

Model-checked only. The liveness property `KeepsUp` is beyond this prover. `Agreement` and `ChainsValid` without the hypotheses above are false, and
findings 1 and 3 are the counterexamples.

## 6. Not modelled

* Wire encoding, canonical JSON, Merkle trees, keys and DIDs: pure encodings and
  primitives. They enter as collision freedom and unforgeability.
* The texts of rubrics, the summaries of the read endpoints, the display and local
  signing of the front end: data and wording. Of the front end only the way a page takes
  an event of the feed is modelled.
* Scenarios, benchmarks and the demo story: scripts over the modelled layers and
  measurements. The lock of `ScenarioRegistry` keeps two scripts apart; that requests and
  gossip interleave with a script is what `Community` allows anyway.
* One composition of everything. A network of nodes that each carry a full ledger and a
  bridge is beyond TLC; the families are composed through the constants and the theorem
  named in section 2.
