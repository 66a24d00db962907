------------------------------- MODULE Community -------------------------------
(***************************************************************************)
(* The gossip layer of network/community.py: every node runs one            *)
(* AttestationCommunity over its own Blockchain, and the nodes exchange     *)
(* transactions, blocks, whole chains, commit votes and view-change votes.  *)
(* A handler runs to completion on the node's event loop (none of them      *)
(* awaits), so each is one action; nodes interleave at message granularity. *)
(*                                                                          *)
(* The network delivers in any order. Which kinds of message it may lose or *)
(* deliver more than once is a parameter, as is who is a peer of whom.      *)
(***************************************************************************)
EXTENDS Blockchain, SequencesExt

CONSTANTS
  Peers,         \* get_peers() of every node
  ProtocolTx,    \* the transactions that are pooled locally and never gossiped
  Duplicated,    \* the kinds of message the network may deliver repeatedly
  Lossy,         \* the kinds of message the network may lose
  Delivers(_),   \* the messages the network does not lose in any case
  Stalled,       \* nodes that never call the proposer path for view 0
  OutOfTurn,     \* nodes whose /api/mine ignores the proposer schedule
  Advertisers,   \* nodes that may re-broadcast the block at their tip
  Draw(_),       \* bound: the hashes, of those unused, a new block may get
  TimeoutHeights,\* bound: the heights at which proposers are timed out
  MaxTimeouts,   \* bound: timeouts of each node at one height
  MaxHeight,     \* bound: the highest block index
  MaxSync        \* bound: chain responses in flight from one node to another

Kinds == {"tx", "block", "request", "chain", "commit", "viewchange"}

ASSUME PeersAssumption == Peers \in [Node -> SUBSET Node]
ASSUME NetworkAssumption == Duplicated \subseteq Kinds /\ Lossy \subseteq Kinds
ASSUME RoleAssumption ==
  /\ Stalled \subseteq Node /\ OutOfTurn \subseteq Node /\ Advertisers \subseteq Node
  /\ ProtocolTx \subseteq Tx
ASSUME BoundAssumption ==
  /\ TimeoutHeights \subseteq Nat
  /\ MaxTimeouts \in [Node -> Nat] /\ MaxHeight \in Nat /\ MaxSync \in Nat
  /\ \A S \in SUBSET Hash : Draw(S) \subseteq S

VARIABLES
  made,       \* what every block hash produced so far commits to
  chain,      \* chain[n]: blockchain.blocks of n, above genesis
  commits,    \* commits[n][h]: commit_signatures on n's copy of h
  mempool,    \* mempool[n]: blockchain.mempool
  votes,      \* votes[n]: _view_change_votes, as a set of votes
  advanced,   \* advanced[n]: _view_advanced
  announced,  \* announced[n]: _finalized_announced
  net         \* the messages in flight

vars == <<made, chain, commits, mempool, votes, advanced, announced, net>>

-----------------------------------------------------------------------------
Copies == [Hash -> SUBSET Node]

Vote == [height : Nat \ {0}, view : Nat \ {0}, signer : Node]

Message ==
       [type : {"tx"}, to : Node, tx : Tx]
  \cup [type : {"block"}, from : Node, to : Node, hash : Hash, commits : SUBSET Node]
  \cup [type : {"request"}, from : Node, to : Node]
  \cup [type : {"chain"}, from : Node, to : Node, chain : Seq(Hash), commits : Copies]
  \cup [type : {"commit"}, to : Node, hash : Hash, signer : Node]
  \cup [type : {"viewchange"}, to : Node, vote : Vote]

TxMsgs(n, t) == {[type |-> "tx", to |-> p, tx |-> t] : p \in Peers[n]}

BlockMsgs(n, h, S) ==
  {[type |-> "block", from |-> n, to |-> p, hash |-> h, commits |-> S] : p \in Peers[n]}

CommitMsgs(n, h, signer) ==
  {[type |-> "commit", to |-> p, hash |-> h, signer |-> signer] : p \in Peers[n]}

VoteMsgs(n, vote) == {[type |-> "viewchange", to |-> p, vote |-> vote] : p \in Peers[n]}

ChainMsg(n, p) ==
  [type |-> "chain", from |-> n, to |-> p, chain |-> chain[n], commits |-> commits[n]]

\* The network once m is handed to its addressee.
Without(m) == IF m.type \in Duplicated THEN net ELSE net \ {m}

-----------------------------------------------------------------------------
Init ==
  /\ made = <<>>
  /\ chain = [n \in Node |-> <<>>]
  /\ commits = [n \in Node |-> [h \in Hash |-> {}]]
  /\ mempool = [n \in Node |-> {}]
  /\ votes = [n \in Node |-> {}]
  /\ advanced = [n \in Node |-> {}]
  /\ announced = [n \in Node |-> {}]
  /\ net = {}

\* The index the next block of n will have, len(blocks).
NextIndex(n) == Len(chain[n]) + 1

Committed(n) == UNION {made[chain[n][i]].txs : i \in 1 .. Len(chain[n])}

\* With a bug: the chain is not searched.
already_seen_in_pool(n, t) == t \in mempool[n]

already_seen(n, t) == t \in mempool[n] \cup Committed(n)

-----------------------------------------------------------------------------
(***************************************************************************)
(* Transactions. A participant's transaction is pooled and gossiped by the  *)
(* node it is submitted to; peers pool it and do not relay it. A protocol   *)
(* transaction is pooled on one node by the code that built it.             *)
(***************************************************************************)
SubmitLocal(n, t) ==
  /\ t \notin ProtocolTx
  /\ mempool' = [mempool EXCEPT ![n] = IF already_seen(n, t) THEN @ ELSE @ \cup {t}]
  /\ net' = net \cup TxMsgs(n, t)
  /\ UNCHANGED <<made, chain, commits, votes, advanced, announced>>

PoolProtocolTx(n, t) ==
  /\ t \in ProtocolTx
  /\ ~ already_seen(n, t)
  /\ mempool' = [mempool EXCEPT ![n] = @ \cup {t}]
  /\ UNCHANGED <<made, chain, commits, votes, advanced, announced, net>>

OnTransaction(m) ==
  /\ m.type = "tx"
  /\ mempool' = [mempool EXCEPT ![m.to] = IF already_seen(m.to, m.tx) THEN @ ELSE @ \cup {m.tx}]
  /\ net' = Without(m)
  /\ UNCHANGED <<made, chain, commits, votes, advanced, announced>>

-----------------------------------------------------------------------------
\* Who signs its commit: a validator for the block that has not done so yet.
OwnCommit(n, S) ==
  IF n \in validator_set(made, chain[n], NextIndex(n)) /\ n \notin S THEN {n} ELSE {}

\* _note_if_finalized on the block at the tip of c.
Announce(n, store, c, k) ==
  announced' = [announced EXCEPT ![n] =
                  IF is_final(store, c, k, Len(c)) THEN @ \cup {c[Len(c)]} ELSE @]

(***************************************************************************)
(* mine_and_broadcast_block: pack the whole mempool into a block on our tip *)
(* without validating it, commit to it, announce it, and gossip it. `sent'  *)
(* is the network the block and the commit are added to.                    *)
(***************************************************************************)
Produce(n, view, justification, sent) ==
  \E h \in Draw(Hash \ DOMAIN made) :
    LET b == [producer |-> n, previous |-> chain[n], txs |-> mempool[n],
              view |-> view, justification |-> justification]
        own == OwnCommit(n, {})
        store == [x \in DOMAIN made \cup {h} |-> IF x = h THEN b ELSE made[x]]
        c == Append(chain[n], h)
        k == [commits[n] EXCEPT ![h] = own]
    IN /\ NextIndex(n) <= MaxHeight
       /\ made' = store
       /\ chain' = [chain EXCEPT ![n] = c]
       /\ commits' = [commits EXCEPT ![n] = k]
       /\ mempool' = [mempool EXCEPT ![n] = {}]
       /\ IF own = {} THEN UNCHANGED announced ELSE Announce(n, store, c, k)
       /\ net' = sent \cup BlockMsgs(n, h, own)
                      \cup UNION {CommitMsgs(n, h, s) : s \in own}

\* The call its driver makes: the scheduled proposer's turn in view 0, or
\* POST /api/mine, which looks only at whether anything is pooled.
MineBlock(n) ==
  /\ \/ n \notin Stalled
        /\ IsScheduled(validator_set(made, chain[n], NextIndex(n)), n, NextIndex(n), 0)
     \/ n \in OutOfTurn /\ mempool[n] # {}
  /\ Produce(n, 0, {}, net)
  /\ UNCHANGED <<votes, advanced>>

\* broadcast_block(last_block), which drivers use to re-advertise a tip.
Readvertise(n) ==
  /\ n \in Advertisers
  /\ chain[n] # <<>>
  /\ LET tip == chain[n][Len(chain[n])]
     IN net' = net \cup BlockMsgs(n, tip, commits[n][tip])
  /\ UNCHANGED <<made, chain, commits, mempool, votes, advanced, announced>>

-----------------------------------------------------------------------------
\* With a bug: only the link is checked.
Extends_link(n, h, S) == made[h].previous = chain[n]

\* _try_append_block: the whole chain with the block on top must be valid.
Extends(n, h, S) ==
  is_valid_chain(made, Append(chain[n], h), [commits[n] EXCEPT ![h] = S])

(***************************************************************************)
(* on_block. A block that extends our valid chain is appended, its height   *)
(* counts as advanced if its view is above 0, and we commit to it. Any      *)
(* other block makes us ask its sender for its whole chain.                 *)
(***************************************************************************)
AppendBlock(m) ==
  LET n == m.to
      own == OwnCommit(n, m.commits)
      c == Append(chain[n], m.hash)
      k == [commits[n] EXCEPT ![m.hash] = m.commits \cup own]
  IN /\ m.type = "block"
     /\ Extends(n, m.hash, m.commits)
     /\ chain' = [chain EXCEPT ![n] = c]
     /\ commits' = [commits EXCEPT ![n] = k]
     /\ mempool' = [mempool EXCEPT ![n] = @ \ made[m.hash].txs]
     /\ advanced' = [advanced EXCEPT ![n] =
                       IF made[m.hash].view > 0 THEN @ \cup {Len(c)} ELSE @]
     /\ Announce(n, made, c, k)
     /\ net' = Without(m) \cup UNION {CommitMsgs(n, m.hash, s) : s \in own}
     /\ UNCHANGED <<made, votes>>

DivergingBlock(m) ==
  /\ m.type = "block"
  /\ ~ Extends(m.to, m.hash, m.commits)
  /\ net' = Without(m) \cup {[type |-> "request", from |-> m.to, to |-> m.from]}
  /\ UNCHANGED <<made, chain, commits, mempool, votes, advanced, announced>>

\* on_chain_request: our whole chain, as it is now.
OnChainRequest(m) ==
  /\ m.type = "request"
  /\ Cardinality({x \in net : x.type = "chain" /\ x.from = m.to /\ x.to = m.from}) < MaxSync
  /\ net' = Without(m) \cup {ChainMsg(m.to, m.from)}
  /\ UNCHANGED <<made, chain, commits, mempool, votes, advanced, announced>>

(***************************************************************************)
(* on_chain_response with replace_chain: the candidate's blocks replace     *)
(* ours, copies and commits included, or nothing changes. Transactions of   *)
(* blocks we abandon are not pooled again, and no commit is cast.           *)
(***************************************************************************)
AdoptChain(m) ==
  LET n == m.to
  IN /\ m.type = "chain"
     /\ Adopts(made, chain[n], commits[n], m.chain, m.commits)
     /\ chain' = [chain EXCEPT ![n] = m.chain]
     /\ commits' = [commits EXCEPT ![n] = m.commits]
     /\ mempool' = [mempool EXCEPT ![n] =
                      @ \ UNION {made[m.chain[i]].txs : i \in 1 .. Len(m.chain)}]
     /\ net' = Without(m)
     /\ UNCHANGED <<made, votes, advanced, announced>>

RefuseChain(m) ==
  /\ m.type = "chain"
  /\ ~ Adopts(made, chain[m.to], commits[m.to], m.chain, m.commits)
  /\ net' = Without(m)
  /\ UNCHANGED <<made, chain, commits, mempool, votes, advanced, announced>>

-----------------------------------------------------------------------------
\* _apply_commit accepts: a block we hold, a new signer, a validator for it.
CommitApplies(m) ==
  \E i \in 1 .. Len(chain[m.to]) :
    /\ chain[m.to][i] = m.hash
    /\ m.signer \notin commits[m.to][m.hash]
    /\ m.signer \in validator_set(made, chain[m.to], i)

\* on_commit: attach, announce finality, and relay what was new.
OnCommit(m) ==
  LET n == m.to
      k == [commits[n] EXCEPT ![m.hash] = @ \cup {m.signer}]
  IN /\ m.type = "commit"
     /\ CommitApplies(m)
     /\ commits' = [commits EXCEPT ![n] = k]
     /\ announced' = [announced EXCEPT ![n] =
                        IF \E i \in 1 .. Len(chain[n]) :
                             chain[n][i] = m.hash /\ is_final(made, chain[n], k, i)
                        THEN @ \cup {m.hash} ELSE @]
     /\ net' = Without(m) \cup CommitMsgs(n, m.hash, m.signer)
     /\ UNCHANGED <<made, chain, mempool, votes, advanced>>

DropCommit(m) ==
  /\ m.type = "commit"
  /\ ~ CommitApplies(m)
  /\ net' = Without(m)
  /\ UNCHANGED <<made, chain, commits, mempool, votes, advanced, announced>>

-----------------------------------------------------------------------------
VotesFor(S, height, view) == {v \in S : v.height = height /\ v.view = view}

\* With a bug: one vote less than a quorum advances the view.
MayAdvance_early(n, S, height, view) ==
  LET V == validator_set(made, chain[n], height)
  IN /\ height \notin advanced[n]
     /\ NextIndex(n) = height
     /\ Cardinality(VotesFor(S, height, view)) >= quorum_size(Cardinality(V)) - 1
     /\ IsScheduled(V, n, height, view)

\* _maybe_advance_view's conditions, S being the votes n has recorded.
MayAdvance(n, S, height, view) ==
  LET V == validator_set(made, chain[n], height)
  IN /\ height \notin advanced[n]
     /\ NextIndex(n) = height
     /\ Cardinality(VotesFor(S, height, view)) >= quorum_size(Cardinality(V))
     /\ IsScheduled(V, n, height, view)

(***************************************************************************)
(* A vote _apply_view_change has newly accepted: record it, gossip it, and  *)
(* if it completes a quorum for a view that is ours, propose in that view.  *)
(***************************************************************************)
RecordVote(n, v, rest) ==
  LET S == votes[n] \cup {v}
      sent == rest \cup VoteMsgs(n, v)
  IN /\ votes' = [votes EXCEPT ![n] = S]
     /\ \/ /\ MayAdvance(n, S, v.height, v.view)
           /\ advanced' = [advanced EXCEPT ![n] = @ \cup {v.height}]
           /\ Produce(n, v.view, {x.signer : x \in VotesFor(S, v.height, v.view)}, sent)
        \/ /\ ~ MayAdvance(n, S, v.height, v.view)
           /\ net' = sent
           /\ UNCHANGED <<made, chain, commits, mempool, advanced, announced>>

\* With a bug: the first vote is for view 0.
NextView_zero(n, height) == Max({0} \cup {v.view : v \in {x \in votes[n] : x.height = height}})

\* _next_view: one past the highest view any recorded vote names.
NextView(n, height) == Max({0} \cup {v.view : v \in {x \in votes[n] : x.height = height}}) + 1

\* request_view_change() at the height n is waiting to extend.
RequestViewChange(n) ==
  LET height == NextIndex(n)
  IN /\ height \in TimeoutHeights
     /\ Cardinality({v \in votes[n] : v.height = height /\ v.signer = n}) < MaxTimeouts[n]
     /\ n \in validator_set(made, chain[n], height)
     /\ RecordVote(n, [height |-> height, view |-> NextView(n, height), signer |-> n], net)

(***************************************************************************)
(* on_view_change. validator_set(height) raises when height is above our    *)
(* tip's successor, and the vote is lost with the exception.                *)
(***************************************************************************)
VoteCounts(m) ==
  /\ m.vote.height <= NextIndex(m.to)
  /\ m.vote.signer \in validator_set(made, chain[m.to], m.vote.height)
  /\ m.vote \notin votes[m.to]

OnViewChange(m) ==
  /\ m.type = "viewchange"
  /\ VoteCounts(m)
  /\ RecordVote(m.to, m.vote, Without(m))

DropViewChange(m) ==
  /\ m.type = "viewchange"
  /\ ~ VoteCounts(m)
  /\ net' = Without(m)
  /\ UNCHANGED <<made, chain, commits, mempool, votes, advanced, announced>>

\* The network loses a message.
Lose(m) ==
  /\ m.type \in Lossy
  /\ net' = net \ {m}
  /\ UNCHANGED <<made, chain, commits, mempool, votes, advanced, announced>>

-----------------------------------------------------------------------------
Receive(m) ==
  \/ OnTransaction(m)
  \/ AppendBlock(m) \/ DivergingBlock(m)
  \/ OnChainRequest(m)
  \/ AdoptChain(m) \/ RefuseChain(m)
  \/ OnCommit(m) \/ DropCommit(m)
  \/ OnViewChange(m) \/ DropViewChange(m)

Next ==
  \/ \E n \in Node : \/ \E t \in Tx : SubmitLocal(n, t) \/ PoolProtocolTx(n, t)
                     \/ MineBlock(n)
                     \/ Readvertise(n)
                     \/ RequestViewChange(n)
  \/ \E m \in net : (Delivers(m) /\ Receive(m)) \/ Lose(m)

Spec == Init /\ [][Next]_vars

(***************************************************************************)
(* Drivers and the event loop. A node whose turn it is keeps mining (the    *)
(* demo, the scenarios and the benchmarks call mine_scheduled in a loop), a *)
(* waiting validator eventually times out, and asyncio starves no handler.  *)
(***************************************************************************)
Fairness ==
  \A n \in Node : /\ WF_vars(MineBlock(n))
                  /\ WF_vars(RequestViewChange(n))
                  /\ \A kind \in Kinds :
                       WF_vars(\E m \in net : /\ m.to = n /\ m.type = kind
                                             /\ Delivers(m) /\ Receive(m))

LiveSpec == Spec /\ Fairness

-----------------------------------------------------------------------------
KnownChain(c) == c \in Seq(Hash) /\ \A i \in 1 .. Len(c) : c[i] \in DOMAIN made

KnownContent(m) ==
  /\ m.type = "block" => m.hash \in DOMAIN made
  /\ m.type = "chain" => KnownChain(m.chain)

\* Type correctness. Chains and messages name blocks that were produced, and no
\* vote is cast for view 0, which _apply_view_change refuses (community.py 715).

TypeOK ==
  /\ DOMAIN made \subseteq Hash /\ made \in [DOMAIN made -> Block]
  /\ chain \in [Node -> Seq(Hash)]
  /\ commits \in [Node -> Copies]
  /\ mempool \in [Node -> SUBSET Tx]
  /\ votes \in [Node -> SUBSET Vote]
  /\ advanced \in [Node -> SUBSET Nat]
  /\ announced \in [Node -> SUBSET Hash]
  /\ net \subseteq Message
  /\ \A n \in Node : KnownChain(chain[n])
  /\ \A m \in net : KnownContent(m)

(***************************************************************************)
(* What a node has finalized, oldest first.                                 *)
(***************************************************************************)
FinalizedPrefix(n) ==
  SubSeq(chain[n], 1, FinalizedHeight(made, chain[n], commits[n]))

\* Irrevocable finality, as a refinement: what each node has finalized is an
\* append-only log. blockchain.py 408-414: a finalized block "can never be
\* reverted", whatever chain a peer answers with and however few of our
\* commits its copies carry.
Log == INSTANCE FinalizedLog WITH log <- [n \in Node |-> FinalizedPrefix(n)]
IrrevocableFinality == Log!Spec

\* Two nodes never finalize conflicting histories. README.md 35-36: "two
\* conflicting blocks can never both finalize".
Agreement ==
  \A n, p \in Node : \/ IsPrefix(FinalizedPrefix(n), FinalizedPrefix(p))
                     \/ IsPrefix(FinalizedPrefix(p), FinalizedPrefix(n))

\* A transaction is in at most one block of a chain and is no longer pooled
\* once it is there, through every reorganisation.
NoDoubleInclusion ==
  \A n \in Node :
    /\ mempool[n] \cap Committed(n) = {}
    /\ \A i, j \in 1 .. Len(chain[n]) :
         i # j => made[chain[n][i]].txs \cap made[chain[n][j]].txs = {}

\* A node's own chain is valid by its own rules, whatever it has proposed,
\* appended and adopted. community.py 740-742: the bar a proposal clears is "the
\* same bar is_valid_chain enforces on the resulting block". A node whose chain
\* is not valid refuses every later block.
ChainsValid ==
  \A n \in Node \ OutOfTurn : is_valid_chain(made, chain[n], commits[n])

\* What a node has announced as FINALIZED stays in its finalized history,
\* through every reorganisation and however few commits the copies it adopts
\* carry. community.py 882-901.
AnnouncedStaysFinal ==
  \A n \in Node : announced[n] \subseteq Range(FinalizedPrefix(n))

\* A node that asks for a chain and is sent a longer valid one that extends its
\* own adopts it. blockchain.py 402-403: "a longer non-conflicting chain is still
\* adopted".
ExtensionsAdopted ==
  [][\A m \in net :
       /\ RefuseChain(m)
       /\ is_valid_chain(made, m.chain, m.commits)
       /\ IsPrefix(chain[m.to], m.chain)
       => m.chain = chain[m.to]]_vars

\* Every block becomes final on every node. community.py 41-42: "all honest nodes
\* converge on the same finalized block", for which a dropped commit does no harm
\* (816-817): the block gossip and the commit round "re-converge".
EveryBlockFinal ==
  <>[] (\A n \in Node : \A i \in 1 .. MaxHeight :
          i <= Len(chain[n]) /\ is_final(made, chain[n], commits[n], i))

\* Once a node has collected a quorum of votes for a view, the height is proposed.
\* community.py 52-54: then "the view advances; the validator the schedule assigns to
\* that view proposes a block".
QuorumCollected(height, view) ==
  \E n \in Node :
    /\ NextIndex(n) = height
    /\ HasQuorum({v.signer : v \in VotesFor(votes[n], height, view)},
                 validator_set(made, chain[n], height))

QuorumRotates ==
  \A height \in TimeoutHeights : \A view \in 1 .. Cardinality(Node) :
    QuorumCollected(height, view) ~> \E n \in Node : Len(chain[n]) >= height

\* A stalled proposer is replaced: once the waiting validators have timed out,
\* somebody proposes. README.md 42-43: a stalled or offline proposer is "rotated
\* out automatically".
StalledRotatedOut == <>(\E h \in DOMAIN made : made[h].producer \notin Stalled)
=============================================================================
