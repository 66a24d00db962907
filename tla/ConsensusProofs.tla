---------------------------- MODULE ConsensusProofs ----------------------------
(***************************************************************************)
(* What consensus buys the nodes of module Community together: no           *)
(* transaction is included twice, every chain is valid by its own rules,    *)
(* and finalized histories agree. The last two hold of this code under      *)
(* hypotheses that are named below and that it does not establish: the runs *)
(* stale_votes and conflict show what happens without them.                 *)
(***************************************************************************)
EXTENDS CommunityProofs

(***************************************************************************)
(* No transaction is included twice. The blocks of a chain are compared     *)
(* through the history each one names: a proposer packs its pool on top of  *)
(* its own chain, so a new block shares no transaction with the blocks      *)
(* below it, and every chain that holds the block holds those same blocks.  *)
(***************************************************************************)

\* A block shares no transaction with the chain it was built on.
FreshBlocks ==
  \A h \in DOMAIN made :
    \A i \in 1 .. Len(made[h].previous) :
      /\ made[h].previous[i] \in DOMAIN made
      /\ made[made[h].previous[i]].txs \cap made[h].txs = {}

\* What is pooled is not on the chain.
FreshPools == \A n \in Node : mempool[n] \cap Committed(n) = {}

InclusionInv == FinalityInv /\ FreshBlocks /\ FreshPools

-----------------------------------------------------------------------------
\* In a linked chain of fresh blocks no two blocks share a transaction.
LEMMA LinkedIsFresh ==
  ASSUME TypeOK, FreshBlocks, NEW n \in Node, Linked(made, chain[n]),
         NEW i \in 1 .. Len(chain[n]), NEW j \in 1 .. Len(chain[n]), i < j
  PROVE  made[chain[n][i]].txs \cap made[chain[n][j]].txs = {}
<1> DEFINE c == chain[n]
<1>1. c \in Seq(Hash) /\ c[j] \in DOMAIN made
  BY NodeType
<1>2. made[c[j]].previous = SubSeq(c, 1, j - 1)
  BY Zenon DEF Linked
<1>3. Len(SubSeq(c, 1, j - 1)) = j - 1 /\ i \in 1 .. (j - 1) /\ SubSeq(c, 1, j - 1)[i] = c[i]
  BY <1>1
<1>4. i \in 1 .. Len(made[c[j]].previous) /\ made[c[j]].previous[i] = c[i]
  BY <1>2, <1>3
<1> HIDE DEF c
<1>5. made[made[c[j]].previous[i]].txs \cap made[c[j]].txs = {}
  BY <1>1, <1>4 DEF FreshBlocks
<1> QED BY <1>4, <1>5 DEF c

\* The property follows from the invariant.
LEMMA InclusionImplies == InclusionInv => NoDoubleInclusion
<1> SUFFICES ASSUME InclusionInv, NEW n \in Node
             PROVE  /\ mempool[n] \cap Committed(n) = {}
                    /\ \A i, j \in 1 .. Len(chain[n]) :
                         i # j => made[chain[n][i]].txs \cap made[chain[n][j]].txs = {}
  BY DEF NoDoubleInclusion
<1>1. TypeOK /\ FreshBlocks /\ Linked(made, chain[n])
  BY DEF InclusionInv, FinalityInv, TypeInv, LinkInv
<1>2. ASSUME NEW i \in 1 .. Len(chain[n]), NEW j \in 1 .. Len(chain[n]), i # j
      PROVE  made[chain[n][i]].txs \cap made[chain[n][j]].txs = {}
  <2>1. CASE i < j
    BY <1>1, <2>1, LinkedIsFresh
  <2>2. CASE j < i
    BY <1>1, <2>2, LinkedIsFresh
  <2>3. i \in Int /\ j \in Int
    OBVIOUS
  <2> QED BY <1>2, <2>1, <2>2, <2>3
<1> QED BY <1>2 DEF InclusionInv, FreshPools

-----------------------------------------------------------------------------
\* A chain that stays as it is commits to the same transactions.
LEMMA CommittedKept ==
  ASSUME TypeOK, NEW n \in Node, chain'[n] = chain[n],
         \A h \in DOMAIN made : made'[h] = made[h]
  PROVE  Committed(n)' = Committed(n)
<1>1. \A i \in 1 .. Len(chain[n]) : made'[chain[n][i]] = made[chain[n][i]]
  BY NodeType
<1> QED BY <1>1 DEF Committed

\* Steps that leave blocks and chains alone and pool only what is not on the chain.
LEMMA PoolingKeepsFresh ==
  ASSUME TypeOK, FreshBlocks, FreshPools, UNCHANGED <<made, chain>>,
         \A n \in Node : \A t \in mempool'[n] : t \in mempool[n] \/ t \notin Committed(n)
  PROVE  FreshBlocks' /\ FreshPools'
<1>1. FreshBlocks'
  BY DEF FreshBlocks
<1>2. ASSUME NEW n \in Node PROVE mempool'[n] \cap Committed(n)' = {}
  <2>1. Committed(n)' = Committed(n)
    BY CommittedKept
  <2> QED BY <2>1 DEF FreshPools
<1> QED BY <1>1, <1>2 DEF FreshPools

LEMMA ProduceKeepsFresh ==
  ASSUME TypeOK, FreshBlocks, FreshPools,
         NEW n \in Node, NEW view, NEW justification, NEW sent,
         Produce(n, view, justification, sent)
  PROVE  FreshBlocks' /\ FreshPools'
<1>1. PICK h \in Hash :
           /\ h \notin DOMAIN made
           /\ DOMAIN made' = DOMAIN made \cup {h}
           /\ \A x \in DOMAIN made : made'[x] = made[x]
           /\ made'[h].previous = chain[n]
           /\ made'[h].txs = mempool[n]
           /\ chain' = [chain EXCEPT ![n] = Append(chain[n], h)]
           /\ mempool' = [mempool EXCEPT ![n] = {}]
  BY ProduceEffect
<1>2. FreshBlocks'
  <2> SUFFICES ASSUME NEW x \in DOMAIN made', NEW i \in 1 .. Len(made'[x].previous)
               PROVE  /\ made'[x].previous[i] \in DOMAIN made'
                      /\ made'[made'[x].previous[i]].txs \cap made'[x].txs = {}
    BY DEF FreshBlocks
  <2>1. CASE x = h
    <3>1. chain[n][i] \in DOMAIN made
      BY <1>1, <2>1, NodeType
    <3>2. made[chain[n][i]].txs \subseteq Committed(n)
      BY <1>1, <2>1 DEF Committed
    <3> QED BY <1>1, <2>1, <3>1, <3>2 DEF FreshPools
  <2>2. CASE x \in DOMAIN made
    BY <1>1, <2>2 DEF FreshBlocks
  <2> QED BY <1>1, <2>1, <2>2
<1>3. ASSUME NEW p \in Node PROVE mempool'[p] \cap Committed(p)' = {}
  <2>1. CASE p = n
    BY <1>1, <2>1 DEF TypeOK
  <2>2. CASE p # n
    <3>1. chain'[p] = chain[p] /\ mempool'[p] = mempool[p]
      BY <1>1, <2>2 DEF TypeOK
    <3>2. Committed(p)' = Committed(p)
      BY <1>1, <3>1, CommittedKept
    <3> QED BY <3>1, <3>2 DEF FreshPools
  <2> QED BY <2>1, <2>2
<1> QED BY <1>2, <1>3 DEF FreshPools

LEMMA AppendKeepsFresh ==
  ASSUME TypeOK, FreshBlocks, FreshPools, NEW m \in net, AppendBlock(m)
  PROVE  FreshBlocks' /\ FreshPools'
<1> DEFINE n == m.to
           d == Append(chain[n], m.hash)
<1>1. m \in Message /\ m.type = "block"
  BY DEF TypeOK, AppendBlock
<1>2. n \in Node /\ m.hash \in Hash
  BY <1>1, MessageContents
<1>3. /\ chain' = [chain EXCEPT ![n] = d]
      /\ mempool' = [mempool EXCEPT ![n] = @ \ made[m.hash].txs]
      /\ made' = made
  BY DEF AppendBlock
<1>4. FreshBlocks'
  BY <1>3 DEF FreshBlocks
<1>5. ASSUME NEW p \in Node PROVE mempool'[p] \cap Committed(p)' = {}
  <2>1. CASE p # n
    <3>1. chain'[p] = chain[p] /\ mempool'[p] = mempool[p]
      BY <1>3, <2>1 DEF TypeOK
    <3>2. Committed(p)' = Committed(p)
      BY <1>3, <3>1, CommittedKept
    <3> QED BY <3>1, <3>2 DEF FreshPools
  <2>2. CASE p = n
    <3>1. chain'[p] = d /\ mempool'[p] = mempool[n] \ made[m.hash].txs
      BY <1>2, <1>3, <2>2 DEF TypeOK
    <3>2. ASSUME NEW i \in 1 .. Len(d)
          PROVE  made[d[i]].txs \subseteq Committed(n) \cup made[m.hash].txs
      <4>1. chain[n] \in Seq(Hash)
        BY <1>2, NodeType
      <4>2. i = Len(chain[n]) + 1 \/ i \in 1 .. Len(chain[n])
        BY <1>2, <4>1
      <4>3. d[i] = IF i = Len(chain[n]) + 1 THEN m.hash ELSE chain[n][i]
        BY <1>2, <4>1
      <4> QED BY <4>2, <4>3 DEF Committed
    <3>3. Committed(p)' = UNION {made[d[i]].txs : i \in 1 .. Len(d)}
      BY <1>3, <3>1 DEF Committed
    <3>4. Committed(p)' \subseteq Committed(n) \cup made[m.hash].txs
      <4> HIDE DEF d
      <4> QED BY <3>2, <3>3
    <3>5. mempool[n] \cap Committed(n) = {}
      BY <1>2 DEF FreshPools
    <3> QED BY <3>1, <3>4, <3>5
  <2> QED BY <2>1, <2>2
<1> QED BY <1>4, <1>5 DEF FreshPools

LEMMA AdoptKeepsFresh ==
  ASSUME TypeOK, FreshBlocks, FreshPools, NEW m \in net, AdoptChain(m)
  PROVE  FreshBlocks' /\ FreshPools'
<1> DEFINE n == m.to
           T == UNION {made[m.chain[i]].txs : i \in 1 .. Len(m.chain)}
<1>1. m \in Message /\ m.type = "chain"
  BY DEF TypeOK, AdoptChain
<1>2. n \in Node
  BY <1>1, MessageContents
<1>3. /\ chain' = [chain EXCEPT ![n] = m.chain]
      /\ mempool' = [mempool EXCEPT ![n] = @ \ T]
      /\ made' = made
  BY DEF AdoptChain
<1>4. FreshBlocks'
  BY <1>3 DEF FreshBlocks
<1>5. ASSUME NEW p \in Node PROVE mempool'[p] \cap Committed(p)' = {}
  <2>1. CASE p # n
    <3>1. chain'[p] = chain[p] /\ mempool'[p] = mempool[p]
      BY <1>3, <2>1 DEF TypeOK
    <3>2. Committed(p)' = Committed(p)
      BY <1>3, <3>1, CommittedKept
    <3> QED BY <3>1, <3>2 DEF FreshPools
  <2>2. CASE p = n
    <3>1. chain'[p] = m.chain /\ mempool'[p] = mempool[n] \ T
      BY <1>2, <1>3, <2>2 DEF TypeOK
    <3>2. Committed(p)' = T
      BY <1>3, <3>1 DEF Committed
    <3> QED BY <3>1, <3>2
  <2> QED BY <2>1, <2>2
<1> QED BY <1>4, <1>5 DEF FreshPools

LEMMA NextKeepsFresh ==
  ASSUME TypeOK, FreshBlocks, FreshPools, [Next]_vars
  PROVE  FreshBlocks' /\ FreshPools'
<1>1. CASE UNCHANGED <<made, chain, mempool>>
  BY <1>1, PoolingKeepsFresh
<1>2. ASSUME NEW n \in Node, NEW t \in Tx, SubmitLocal(n, t) \/ PoolProtocolTx(n, t)
      PROVE  FreshBlocks' /\ FreshPools'
  <2>1. \A p \in Node : \A x \in mempool'[p] : x \in mempool[p] \/ x \notin Committed(p)
    BY <1>2 DEF SubmitLocal, PoolProtocolTx, already_seen, TypeOK
  <2>2. UNCHANGED <<made, chain>>
    BY <1>2 DEF SubmitLocal, PoolProtocolTx
  <2> QED BY <2>1, <2>2, PoolingKeepsFresh
<1>3. ASSUME NEW m \in net, OnTransaction(m)
      PROVE  FreshBlocks' /\ FreshPools'
  <2>1. \A p \in Node : \A x \in mempool'[p] : x \in mempool[p] \/ x \notin Committed(p)
    BY <1>3 DEF OnTransaction, already_seen, TypeOK
  <2>2. UNCHANGED <<made, chain>>
    BY <1>3 DEF OnTransaction
  <2> QED BY <2>1, <2>2, PoolingKeepsFresh
<1>4. ASSUME NEW n \in Node, MineBlock(n)
      PROVE  FreshBlocks' /\ FreshPools'
  BY <1>4, ProduceKeepsFresh DEF MineBlock
<1>5. ASSUME NEW n \in Node, NEW v, NEW rest, RecordVote(n, v, rest)
      PROVE  FreshBlocks' /\ FreshPools'
  BY <1>1, <1>5, ProduceKeepsFresh DEF RecordVote
<1>6. ASSUME NEW n \in Node, RequestViewChange(n)
      PROVE  FreshBlocks' /\ FreshPools'
  BY <1>5, <1>6 DEF RequestViewChange
<1>7. ASSUME NEW m \in net, OnViewChange(m)
      PROVE  FreshBlocks' /\ FreshPools'
  <2>1. m \in Message /\ m.type = "viewchange"
    BY <1>7 DEF TypeOK, OnViewChange
  <2>2. m.to \in Node
    BY <2>1, MessageContents
  <2> QED BY <1>5, <1>7, <2>2 DEF OnViewChange
<1>8. ASSUME NEW m \in net,
             \/ DivergingBlock(m) \/ OnChainRequest(m) \/ RefuseChain(m) \/ OnCommit(m)
             \/ DropCommit(m) \/ DropViewChange(m) \/ Lose(m)
      PROVE  FreshBlocks' /\ FreshPools'
  BY <1>1, <1>8 DEF DivergingBlock, OnChainRequest, RefuseChain, OnCommit, DropCommit,
                    DropViewChange, Lose
<1>9. ASSUME NEW n \in Node, Readvertise(n)
      PROVE  FreshBlocks' /\ FreshPools'
  BY <1>1, <1>9 DEF Readvertise
<1>10. CASE UNCHANGED vars
  BY <1>1, <1>10 DEF vars
<1> QED BY <1>2, <1>3, <1>4, <1>6, <1>7, <1>8, <1>9, <1>10, AppendKeepsFresh, AdoptKeepsFresh
        DEF Next, Receive

\* A transaction is in at most one block of a chain and is not pooled again once it
\* is there, however often it is gossiped and however chains are reorganised.
THEOREM IncludedOnce == Spec => []NoDoubleInclusion
<1>1. Init => FreshBlocks /\ FreshPools
  BY DEF Init, FreshBlocks, FreshPools, Committed
<1>2. FinalityInv /\ FreshBlocks /\ FreshPools /\ [Next]_vars => FreshBlocks' /\ FreshPools'
  BY NextKeepsFresh DEF FinalityInv, TypeInv
<1>3. FinalityInv /\ FreshBlocks /\ FreshPools => NoDoubleInclusion
  BY InclusionImplies DEF InclusionInv
<1> QED BY <1>1, <1>2, <1>3, FinalityInvariant, PTL DEF Spec
-----------------------------------------------------------------------------
(***************************************************************************)
(* Chains are valid. What a node appends or adopts it has checked; what it  *)
(* proposes it has not. A proposal in view 0 is in turn, and one in a later *)
(* view carries the votes the node has recorded, which were validators'     *)
(* votes when it recorded them. A reorganisation can take validators away,  *)
(* and nothing takes their votes away with them.                            *)
(***************************************************************************)

\* The votes a node would propose with are votes of validators of its chain.
VotesCurrent ==
  \A n \in Node : \A v \in votes[n] :
    v.height = NextIndex(n) => v.signer \in validator_set(made, chain[n], v.height)

\* The validity of n's chain, after a step and before it.
KeepsValid(n) ==
  is_valid_chain(made, chain[n], commits[n]) => is_valid_chain(made', chain'[n], commits'[n])

\* The blocks and copies of n's chain stay, or its copies gain validators' commits.
LEMMA StillValid ==
  ASSUME TypeOK, NEW n \in Node, chain'[n] = chain[n],
         \A h \in DOMAIN made : made'[h] = made[h],
         \A i \in 1 .. Len(chain[n]) :
           commits'[n][chain[n][i]] \subseteq commits[n][chain[n][i]]
                                              \cup validator_set(made, chain[n], i)
  PROVE  KeepsValid(n)
<1> SUFFICES ASSUME is_valid_chain(made, chain[n], commits[n])
             PROVE  is_valid_chain(made', chain[n], commits'[n])
  BY DEF KeepsValid
<1> DEFINE c == chain[n]
<1>1. c \in Seq(Hash) /\ Len(c) \in Nat
  BY NodeType
<1>2. \A i \in 1 .. Len(c) : commits[n][c[i]] \subseteq validator_set(made, c, i)
  BY DEF is_valid_chain, ValidBlock
<1>3. \A i \in 1 .. Len(c) : /\ made'[c[i]] = made[c[i]]
                             /\ commits'[n][c[i]] \subseteq validator_set(made, c, i)
  BY <1>2, NodeType
<1> HIDE DEF c
<1>4. is_valid_chain(made, c, commits[n])
  BY DEF c
<1>5. is_valid_chain(made', c, commits'[n])
  BY <1>1, <1>3, <1>4, ValidCopies
<1> QED BY <1>5 DEF c

\* The signers of the votes for one view are as many as the votes.
LEMMA SignersOfVotes ==
  ASSUME NEW S, S \subseteq Vote, NEW height, NEW view
  PROVE  /\ IsFiniteSet({x.signer : x \in VotesFor(S, height, view)})
         /\ Cardinality({x.signer : x \in VotesFor(S, height, view)})
              = Cardinality(VotesFor(S, height, view))
<1> DEFINE W == VotesFor(S, height, view)
           J == {x.signer : x \in W}
           f == [x \in W |-> x.signer]
<1>1. \A x \in W : x \in Vote /\ x.height = height /\ x.view = view /\ x.signer \in Node
  BY DEF VotesFor, Vote
<1>2. \A x, y \in W : x.signer = y.signer => x = y
  BY <1>1 DEF Vote
<1>3. J \subseteq Node
  BY <1>1
<1>4. IsFiniteSet(J)
  <2> HIDE DEF J
  <2> QED BY <1>3, NodeAssumption, FS_Subset
<1>5. f \in [W -> J] /\ \A x \in W : f[x] = x.signer
  OBVIOUS
<1>6. \A y \in J : \E x \in W : f[x] = y
  OBVIOUS
<1> HIDE DEF W, J, f
<1>7. f \in Injection(W, J)
  BY <1>2, <1>5 DEF Injection, IsInjective
<1>8. f \in Surjection(W, J)
  BY <1>5, <1>6 DEF Surjection
<1>9. Cardinality(W) = Cardinality(J)
  BY <1>4, <1>7, <1>8, FS_Injection
<1> QED BY <1>4, <1>9 DEF W, J

\* What one proposal needs to leave a valid chain valid: its turn and its votes.
LEMMA ProposalKeepsValid ==
  ASSUME TypeOK, NEW n \in Node, NEW view, NEW justification, NEW sent,
         Produce(n, view, justification, sent),
         NEW V, V = validator_set(made, chain[n], NextIndex(n)),
         IsScheduled(V, n, NextIndex(n), view),
         view > 0 => HasQuorum(justification, V)
  PROVE  KeepsValid(n)
<1> SUFFICES ASSUME is_valid_chain(made, chain[n], commits[n])
             PROVE  is_valid_chain(made', chain'[n], commits'[n])
  BY DEF KeepsValid
<1> DEFINE b == [producer |-> n, previous |-> chain[n], txs |-> mempool[n],
                 view |-> view, justification |-> justification]
<1>1. PICK h \in Draw(Hash \ DOMAIN made) :
        /\ made' = [x \in DOMAIN made \cup {h} |-> IF x = h THEN b ELSE made[x]]
        /\ chain' = [chain EXCEPT ![n] = Append(chain[n], h)]
        /\ commits' = [commits EXCEPT ![n] = [commits[n] EXCEPT ![h] = OwnCommit(n, {})]]
  BY DEF Produce
<1>2. h \in Hash /\ h \notin DOMAIN made
  <2>1. Hash \ DOMAIN made \in SUBSET Hash
    OBVIOUS
  <2> QED BY <2>1, <1>1, BoundAssumption
<1>3. /\ b.producer = n /\ b.previous = chain[n] /\ b.view = view
      /\ b.justification = justification
  OBVIOUS
<1> HIDE DEF b
<1>4. made'[h] = b /\ \A x \in DOMAIN made : made'[x] = made[x]
  BY <1>1, <1>2
<1>5. chain[n] \in Seq(Hash) /\ commits[n] \in Copies /\ chain'[n] = Append(chain[n], h)
      /\ commits'[n] = [commits[n] EXCEPT ![h] = OwnCommit(n, {})]
  BY <1>1, NodeType DEF TypeOK
<1>6. \A i \in 1 .. Len(chain[n]) : /\ made'[chain[n][i]] = made[chain[n][i]]
                                   /\ commits'[n][chain[n][i]] = commits[n][chain[n][i]]
  BY <1>2, <1>4, <1>5, NodeType DEF Copies
<1>7. commits'[n][h] \subseteq V
  BY <1>2, <1>5 DEF Copies, OwnCommit
<1>8. NextIndex(n) = Len(chain[n]) + 1
  BY DEF NextIndex
<1>9. is_valid_chain(made', Append(chain[n], h), commits'[n])
  <2>1. V = validator_set(made, chain[n], Len(chain[n]) + 1)
    BY <1>8
  <2>2. IsScheduled(V, made'[h].producer, Len(chain[n]) + 1, made'[h].view)
    BY <1>3, <1>4, <1>8
  <2>3. made'[h].view > 0 => HasQuorum(made'[h].justification, V)
    BY <1>3, <1>4
  <2>4. made'[h].previous = chain[n]
    BY <1>3, <1>4
  <2> QED BY <1>2, <1>5, <1>6, <1>7, <2>1, <2>2, <2>3, <2>4, TopIsValid
<1> QED BY <1>5, <1>9

\* The nodes that do not act.
LEMMA BystandersStayValid ==
  ASSUME TypeOK, NEW p \in Node, chain'[p] = chain[p], commits'[p] = commits[p],
         \A h \in DOMAIN made : made'[h] = made[h]
  PROVE  KeepsValid(p)
BY StillValid

\* Mining in turn.
LEMMA MiningKeepsValid ==
  ASSUME TypeOK, NEW n \in Node, MineBlock(n), NEW p \in Node \ OutOfTurn
  PROVE  KeepsValid(p)
<1>1. Produce(n, 0, {}, net)
  BY DEF MineBlock
<1>2. CASE p # n
  <2>1. PICK h \in Hash :
           /\ \A x \in DOMAIN made : made'[x] = made[x]
           /\ chain' = [chain EXCEPT ![n] = Append(chain[n], h)]
           /\ commits' = [commits EXCEPT ![n] = [commits[n] EXCEPT ![h] = OwnCommit(n, {})]]
    BY <1>1, ProduceEffect
  <2>2. chain'[p] = chain[p] /\ commits'[p] = commits[p]
    BY <1>2, <2>1 DEF TypeOK
  <2> QED BY <2>1, <2>2, BystandersStayValid
<1>3. CASE p = n
  <2>1. IsScheduled(validator_set(made, chain[n], NextIndex(n)), n, NextIndex(n), 0)
    BY <1>3 DEF MineBlock
  <2>2. ~ (0 > 0)
    OBVIOUS
  <2> QED BY <1>1, <1>3, <2>1, <2>2, ProposalKeepsValid
<1> QED BY <1>2, <1>3

\* Proposing in a later view, with votes of validators.
LEMMA AdvancingKeepsValid ==
  ASSUME TypeOK, VotesCurrent, NEW n \in Node, NEW v \in Vote, NEW rest, RecordVote(n, v, rest),
         v.height = NextIndex(n) => v.signer \in validator_set(made, chain[n], v.height),
         NEW p \in Node
  PROVE  KeepsValid(p)
<1> DEFINE S == votes[n] \cup {v}
           J == {x.signer : x \in VotesFor(S, v.height, v.view)}
           V == validator_set(made, chain[n], v.height)
           sent == rest \cup VoteMsgs(n, v)
<1>1. CASE UNCHANGED <<made, chain, commits>>
  BY <1>1, BystandersStayValid
<1>2. CASE MayAdvance(n, S, v.height, v.view) /\ Produce(n, v.view, J, sent)
  <2>1. CASE p # n
    <3>1. PICK h \in Hash :
             /\ \A x \in DOMAIN made : made'[x] = made[x]
             /\ chain' = [chain EXCEPT ![n] = Append(chain[n], h)]
             /\ commits' = [commits EXCEPT ![n] = [commits[n] EXCEPT ![h] = OwnCommit(n, {})]]
      <4> HIDE DEF J, sent
      <4> QED BY <1>2, ProduceEffect
    <3>2. chain'[p] = chain[p] /\ commits'[p] = commits[p]
      BY <2>1, <3>1 DEF TypeOK
    <3> QED BY <3>1, <3>2, BystandersStayValid
  <2>2. CASE p = n
    <3>1. /\ NextIndex(n) = v.height
          /\ Cardinality(VotesFor(S, v.height, v.view)) >= quorum_size(Cardinality(V))
          /\ IsScheduled(V, n, v.height, v.view)
      BY <1>2 DEF MayAdvance
    <3>2. J \subseteq V
      BY <3>1 DEF VotesFor, VotesCurrent
    <3>3. S \subseteq Vote
      BY DEF TypeOK
    <3>4. Cardinality(J) = Cardinality(VotesFor(S, v.height, v.view))
      <4> HIDE DEF S
      <4> QED BY <3>3, SignersOfVotes
    <3>5. HasQuorum(J, V)
      <4>1. J \cap V = J /\ V # {}
        BY <3>1, <3>2 DEF IsScheduled
      <4> HIDE DEF J, V, S
      <4> QED BY <3>1, <3>4, <4>1 DEF HasQuorum
    <3> HIDE DEF J, V, S, sent
    <3>6. V = validator_set(made, chain[n], NextIndex(n))
      BY <3>1 DEF V
    <3>7. IsScheduled(V, n, NextIndex(n), v.view)
      BY <3>1
    <3> QED BY <1>2, <2>2, <3>5, <3>6, <3>7, ProposalKeepsValid
  <2> QED BY <2>1, <2>2
<1> QED BY <1>1, <1>2 DEF RecordVote

\* Appending a block that was checked, and committing to it.
LEMMA AppendingKeepsValid ==
  ASSUME TypeOK, LinkInv, NEW m \in net, AppendBlock(m), NEW p \in Node
  PROVE  KeepsValid(p)
<1> DEFINE n == m.to
           c == chain[n]
           d == Append(c, m.hash)
           own == OwnCommit(n, m.commits)
           k == [commits[n] EXCEPT ![m.hash] = m.commits]
           l == [commits[n] EXCEPT ![m.hash] = m.commits \cup own]
<1>1. m \in Message /\ m.type = "block"
  BY DEF TypeOK, AppendBlock
<1>2. n \in Node /\ m.hash \in Hash
  BY <1>1, MessageContents
<1>3. /\ Extends(n, m.hash, m.commits)
      /\ chain' = [chain EXCEPT ![n] = d]
      /\ commits' = [commits EXCEPT ![n] = l]
      /\ made' = made
  BY DEF AppendBlock
<1>4. CASE p # n
  <2>1. chain'[p] = chain[p] /\ commits'[p] = commits[p]
    BY <1>3, <1>4 DEF TypeOK
  <2> QED BY <1>3, <2>1, BystandersStayValid
<1>5. CASE p = n
  <2>1. chain'[p] = d /\ commits'[p] = l
    BY <1>2, <1>3, <1>5 DEF TypeOK
  <2>2. is_valid_chain(made, d, k)
    BY <1>3 DEF Extends
  <2>3. /\ c \in Seq(Hash) /\ Len(c) \in Nat /\ d \in Seq(Hash) /\ Len(d) = Len(c) + 1
        /\ d[Len(c) + 1] = m.hash /\ \A i \in 1 .. Len(c) : d[i] = c[i]
        /\ commits[n] \in Copies
    BY <1>2, NodeType
  <2>4. \A i \in 1 .. Len(d) : k[d[i]] \subseteq validator_set(made, d, i)
    BY <2>2 DEF is_valid_chain, ValidBlock
  <2>5. own \subseteq validator_set(made, d, Len(c) + 1)
    <3>1. \A j \in 1 .. ((Len(c) + 1) - 1) : made[d[j]] = made[c[j]]
      BY <2>3
    <3>2. validator_set(made, d, Len(c) + 1) = validator_set(made, c, Len(c) + 1)
      <4> HIDE DEF c, d
      <4> QED BY <3>1, PrefixDeterminesValidators
    <3> QED BY <3>2 DEF OwnCommit, NextIndex
  <2>6. ASSUME NEW i \in 1 .. Len(d)
        PROVE  l[d[i]] \subseteq validator_set(made, d, i)
    <3>1. CASE i = Len(c) + 1
      <4>1. l[d[i]] = m.commits \cup own /\ k[d[i]] = m.commits
        BY <1>2, <2>3, <3>1 DEF Copies
      <4> HIDE DEF c, d, k, l, own
      <4> QED BY <2>4, <2>5, <3>1, <4>1
    <3>2. CASE i # Len(c) + 1
      <4>1. i \in 1 .. Len(c)
        BY <2>3, <3>2
      <4>2. Linked(made, c)
        BY <1>2 DEF LinkInv
      <4>3. d[i] # m.hash
        BY <1>2, <1>3, <2>3, <4>1, <4>2, ExtendsLinked
      <4>4. l[d[i]] = k[d[i]]
        BY <2>3, <4>1, <4>3 DEF Copies
      <4> HIDE DEF c, d, k, l, own
      <4> QED BY <2>4, <4>4
    <3> QED BY <3>1, <3>2
  <2> HIDE DEF c, d, k, l, own
  <2>7. \A i \in 1 .. Len(d) : made[d[i]] = made[d[i]] /\ l[d[i]] \subseteq validator_set(made, d, i)
    BY <2>6
  <2>8. is_valid_chain(made, d, l)
    BY <2>2, <2>3, <2>7, ValidCopies
  <2> QED BY <1>3, <2>1, <2>8 DEF KeepsValid
<1> QED BY <1>4, <1>5

\* Adopting a chain that was checked.
LEMMA AdoptingKeepsValid ==
  ASSUME TypeOK, NEW m \in net, AdoptChain(m), NEW p \in Node
  PROVE  KeepsValid(p)
<1>1. m \in Message /\ m.type = "chain"
  BY DEF TypeOK, AdoptChain
<1>2. m.to \in Node
  BY <1>1, MessageContents
<1>3. /\ is_valid_chain(made, m.chain, m.commits)
      /\ chain' = [chain EXCEPT ![m.to] = m.chain]
      /\ commits' = [commits EXCEPT ![m.to] = m.commits]
      /\ made' = made
  BY DEF AdoptChain, Adopts
<1>4. CASE p # m.to
  <2>1. chain'[p] = chain[p] /\ commits'[p] = commits[p]
    BY <1>3, <1>4 DEF TypeOK
  <2> QED BY <1>3, <2>1, BystandersStayValid
<1>5. CASE p = m.to
  <2>1. chain'[p] = m.chain /\ commits'[p] = m.commits
    BY <1>2, <1>3, <1>5 DEF TypeOK
  <2> QED BY <1>3, <2>1 DEF KeepsValid
<1> QED BY <1>4, <1>5

\* A commit is attached only if its signer is a validator for the block.
LEMMA CommittingKeepsValid ==
  ASSUME TypeOK, LinkInv, NEW m \in net, OnCommit(m), NEW p \in Node
  PROVE  KeepsValid(p)
<1> DEFINE n == m.to
           k == [commits[n] EXCEPT ![m.hash] = @ \cup {m.signer}]
<1>1. m \in Message /\ m.type = "commit"
  BY DEF TypeOK, OnCommit
<1>2. n \in Node /\ m.hash \in Hash
  BY <1>1, MessageContents
<1>3. commits' = [commits EXCEPT ![n] = k] /\ UNCHANGED <<made, chain>>
  BY DEF OnCommit
<1>4. CASE p # n
  <2>1. chain'[p] = chain[p] /\ commits'[p] = commits[p]
    BY <1>3, <1>4 DEF TypeOK
  <2> QED BY <1>3, <2>1, BystandersStayValid
<1>5. CASE p = n
  <2>1. PICK j \in 1 .. Len(chain[n]) :
          chain[n][j] = m.hash /\ m.signer \in validator_set(made, chain[n], j)
    BY DEF OnCommit, CommitApplies
  <2>2. chain[n] \in Seq(Hash) /\ commits[n] \in Copies /\ Linked(made, chain[n])
    BY <1>2, NodeType DEF LinkInv
  <2>3. ASSUME NEW i \in 1 .. Len(chain[n])
        PROVE  commits'[n][chain[n][i]] \subseteq commits[n][chain[n][i]]
                                                    \cup validator_set(made, chain[n], i)
    <3>1. CASE chain[n][i] = m.hash
      <4>1. i = j
        BY <2>1, <2>2, <3>1, SameHeight
      <4>2. commits'[n][m.hash] = commits[n][m.hash] \cup {m.signer}
        BY <1>2, <1>3, <2>2 DEF TypeOK, Copies
      <4> QED BY <2>1, <3>1, <4>1, <4>2
    <3>2. CASE chain[n][i] # m.hash
      <4>1. commits'[n][chain[n][i]] = commits[n][chain[n][i]]
        BY <1>2, <1>3, <2>2, <3>2 DEF TypeOK, Copies
      <4> QED BY <4>1
    <3> QED BY <3>1, <3>2
  <2> QED BY <1>2, <1>3, <1>5, <2>3, StillValid
<1> QED BY <1>4, <1>5

\* A vote a node records it has checked against its own chain.
LEMMA VoteIsChecked ==
  ASSUME TypeInv, NEW n \in Node, RequestViewChange(n)
  PROVE  \E v \in Vote : /\ RecordVote(n, v, net)
                         /\ v.height <= NextIndex(n)
                         /\ v.signer \in validator_set(made, chain[n], v.height)
                         /\ v.height \in TimeoutHeights
<1> DEFINE v == [height |-> NextIndex(n), view |-> NextView(n, NextIndex(n)), signer |-> n]
<1>1. NextIndex(n) \in Nat \ {0}
  BY DEF TypeInv, TypeOK, NextIndex
<1>2. v \in Vote
  BY <1>1, NextViewType DEF TypeInv, Vote
<1>3. v.height = NextIndex(n) /\ v.signer = n
  OBVIOUS
<1>4. RecordVote(n, v, net) /\ n \in validator_set(made, chain[n], NextIndex(n))
      /\ NextIndex(n) \in TimeoutHeights
  BY DEF RequestViewChange
<1> HIDE DEF v
<1> QED BY <1>1, <1>2, <1>3, <1>4

LEMMA HeardVoteIsChecked ==
  ASSUME TypeInv, NEW m \in net, OnViewChange(m)
  PROVE  /\ m.to \in Node /\ m.vote \in Vote /\ m.type = "viewchange"
         /\ RecordVote(m.to, m.vote, Without(m))
         /\ m.vote.height <= NextIndex(m.to)
         /\ m.vote.signer \in validator_set(made, chain[m.to], m.vote.height)
<1>1. m \in Message /\ m.type = "viewchange"
  BY DEF TypeInv, TypeOK, OnViewChange
<1> QED BY <1>1, MessageContents DEF OnViewChange, VoteCounts

LEMMA NextKeepsValid ==
  ASSUME FinalityInv, VotesCurrent, [Next]_vars, NEW p \in Node \ OutOfTurn
  PROVE  KeepsValid(p)
<1>0. TypeInv /\ TypeOK /\ LinkInv
  BY DEF FinalityInv, TypeInv
<1>1. CASE UNCHANGED <<made, chain, commits>>
  BY <1>0, <1>1, BystandersStayValid
<1>2. ASSUME NEW n \in Node, NEW t \in Tx, SubmitLocal(n, t) \/ PoolProtocolTx(n, t)
      PROVE  KeepsValid(p)
  BY <1>1, <1>2 DEF SubmitLocal, PoolProtocolTx
<1>3. ASSUME NEW n \in Node, Readvertise(n)
      PROVE  KeepsValid(p)
  BY <1>1, <1>3 DEF Readvertise
<1>4. ASSUME NEW n \in Node, RequestViewChange(n)
      PROVE  KeepsValid(p)
  <2>1. PICK v \in Vote : /\ RecordVote(n, v, net)
                          /\ v.signer \in validator_set(made, chain[n], v.height)
    BY <1>0, <1>4, VoteIsChecked
  <2> QED BY <1>0, <2>1, AdvancingKeepsValid
<1>5. ASSUME NEW m \in net, OnViewChange(m)
      PROVE  KeepsValid(p)
  BY <1>0, <1>5, HeardVoteIsChecked, AdvancingKeepsValid
<1>6. ASSUME NEW m \in net,
             \/ OnTransaction(m) \/ DivergingBlock(m) \/ OnChainRequest(m) \/ RefuseChain(m)
             \/ DropCommit(m) \/ DropViewChange(m) \/ Lose(m)
      PROVE  KeepsValid(p)
  BY <1>1, <1>6 DEF OnTransaction, DivergingBlock, OnChainRequest, RefuseChain, DropCommit,
                    DropViewChange, Lose
<1>7. CASE UNCHANGED vars
  BY <1>1, <1>7 DEF vars
<1> QED BY <1>0, <1>2, <1>3, <1>4, <1>5, <1>6, <1>7, MiningKeepsValid, AppendingKeepsValid,
           AdoptingKeepsValid, CommittingKeepsValid
        DEF Next, Receive

\* As long as the votes a node has recorded are votes of its chain's validators, the
\* chain of every node that keeps to the schedule is valid by its own rules. Recording
\* checks it (_apply_view_change); a reorganisation may undo it (_maybe_advance_view
\* counts what is recorded).
THEOREM ChainsStayValid == Spec /\ []VotesCurrent => []ChainsValid
<1>1. Init => ChainsValid
  BY DEF Init, ChainsValid, is_valid_chain
<1>2. FinalityInv /\ VotesCurrent /\ ChainsValid /\ [Next]_vars => ChainsValid'
  BY NextKeepsValid DEF ChainsValid, KeepsValid
<1> QED BY <1>1, <1>2, FinalityInvariant, PTL DEF Spec

-----------------------------------------------------------------------------
(***************************************************************************)
(* When the recorded votes stay current: when no node is ever reorganised,  *)
(* when the validator set never changes, and when nobody times out.         *)
(***************************************************************************)

\* What a step records.
LEMMA VotesRecorded ==
  ASSUME TypeInv, [Next]_vars, NEW n \in Node, NEW v \in votes'[n]
  PROVE  \/ v \in votes[n]
         \/ /\ v \in Vote /\ v.height <= NextIndex(n)
            /\ v.signer \in validator_set(made, chain[n], v.height)
<1> DEFINE New(p, x) == /\ x \in Vote /\ x.height <= NextIndex(p)
                        /\ x.signer \in validator_set(made, chain[p], x.height)
<1>1. ASSUME NEW p \in Node, NEW x, New(p, x), NEW rest, RecordVote(p, x, rest)
      PROVE  v \in votes[n] \/ New(n, v)
  <2>1. votes' = [votes EXCEPT ![p] = votes[p] \cup {x}]
    BY <1>1 DEF RecordVote
  <2>2. votes'[n] = IF n = p THEN votes[p] \cup {x} ELSE votes[n]
    BY <2>1 DEF TypeInv, TypeOK
  <2> QED BY <1>1, <2>2
<1>2. ASSUME votes' = votes PROVE v \in votes[n] \/ New(n, v)
  BY <1>2
<1>3. ASSUME NEW p \in Node, RequestViewChange(p) PROVE v \in votes[n] \/ New(n, v)
  <2>1. PICK x \in Vote : New(p, x) /\ RecordVote(p, x, net)
    BY <1>3, VoteIsChecked
  <2> HIDE DEF New
  <2> QED BY <1>1, <2>1
<1>4. ASSUME NEW m \in net, OnViewChange(m) PROVE v \in votes[n] \/ New(n, v)
  <2>1. m.to \in Node /\ New(m.to, m.vote) /\ RecordVote(m.to, m.vote, Without(m))
    BY <1>4, HeardVoteIsChecked
  <2> HIDE DEF New
  <2> QED BY <1>1, <2>1
<1>5. ASSUME NEW p \in Node, NEW t \in Tx, SubmitLocal(p, t) \/ PoolProtocolTx(p, t)
      PROVE  votes' = votes
  BY <1>5 DEF SubmitLocal, PoolProtocolTx
<1>6. ASSUME NEW p \in Node, MineBlock(p) \/ Readvertise(p)
      PROVE  votes' = votes
  BY <1>6 DEF MineBlock, Readvertise
<1>7. ASSUME NEW m \in net,
             \/ OnTransaction(m) \/ AppendBlock(m) \/ DivergingBlock(m) \/ OnChainRequest(m)
             \/ AdoptChain(m) \/ RefuseChain(m) \/ OnCommit(m) \/ DropCommit(m)
             \/ DropViewChange(m) \/ Lose(m)
      PROVE  votes' = votes
  BY <1>7 DEF OnTransaction, AppendBlock, DivergingBlock, OnChainRequest, AdoptChain,
              RefuseChain, OnCommit, DropCommit, DropViewChange, Lose
<1>8. \/ votes' = votes
      \/ \E p \in Node : RequestViewChange(p)
      \/ \E m \in net : OnViewChange(m)
  <2>1. UNCHANGED vars => votes' = votes
    BY DEF vars
  <2> QED BY <1>5, <1>6, <1>7, <2>1 DEF Next, Receive
<1>9. v \in votes[n] \/ New(n, v)
  <2> HIDE DEF New
  <2> QED BY <1>2, <1>3, <1>4, <1>8
<1> QED BY <1>9

\* Blocks are produced once and for all.
LEMMA MadeGrows ==
  ASSUME TypeOK, [Next]_vars, NEW h \in DOMAIN made
  PROVE  made'[h] = made[h]
<1>1. ASSUME NEW n \in Node, NEW view, NEW justification, NEW sent,
             Produce(n, view, justification, sent)
      PROVE  made'[h] = made[h]
  BY <1>1, ProduceEffect
<1>2. ASSUME NEW n \in Node, NEW v, NEW rest, RecordVote(n, v, rest)
      PROVE  made'[h] = made[h]
  BY <1>1, <1>2 DEF RecordVote
<1>3. ASSUME NEW n \in Node, MineBlock(n) \/ RequestViewChange(n)
      PROVE  made'[h] = made[h]
  BY <1>1, <1>2, <1>3 DEF MineBlock, RequestViewChange
<1>4. ASSUME NEW m \in net, OnViewChange(m)
      PROVE  made'[h] = made[h]
  <2>1. m \in Message /\ m.type = "viewchange"
    BY <1>4 DEF TypeOK, OnViewChange
  <2> QED BY <1>2, <1>4, <2>1, MessageContents DEF OnViewChange
<1>5. ASSUME NEW n \in Node, NEW t \in Tx,
             SubmitLocal(n, t) \/ PoolProtocolTx(n, t)
      PROVE  made' = made
  BY <1>5 DEF SubmitLocal, PoolProtocolTx
<1>6. ASSUME NEW n \in Node, Readvertise(n)
      PROVE  made' = made
  BY <1>6 DEF Readvertise
<1>7. ASSUME NEW m \in net,
             \/ OnTransaction(m) \/ AppendBlock(m) \/ DivergingBlock(m) \/ OnChainRequest(m)
             \/ AdoptChain(m) \/ RefuseChain(m) \/ OnCommit(m) \/ DropCommit(m)
             \/ DropViewChange(m) \/ Lose(m)
      PROVE  made' = made
  BY <1>7 DEF OnTransaction, AppendBlock, DivergingBlock, OnChainRequest, AdoptChain,
              RefuseChain, OnCommit, DropCommit, DropViewChange, Lose
<1>8. CASE UNCHANGED vars
  BY <1>8 DEF vars
<1> QED BY <1>3, <1>4, <1>5, <1>6, <1>7, <1>8 DEF Next, Receive

\* Every recorded vote is a vote of a validator at a height the chain has reached.
VotesPast ==
  \A n \in Node : \A v \in votes[n] :
    /\ v.height <= NextIndex(n)
    /\ v.signer \in validator_set(made, chain[n], v.height)

\* No step takes a block off a chain.
OnlyExtends == \A n \in Node : IsPrefix(chain[n], chain'[n])

LEMMA ExtendingKeepsVotes ==
  ASSUME TypeInv, TypeInv', VotesPast, [Next]_vars, OnlyExtends
  PROVE  VotesPast'
<1> SUFFICES ASSUME NEW n \in Node, NEW v \in votes'[n]
             PROVE  /\ v.height <= NextIndex(n)'
                    /\ v.signer \in validator_set(made', chain'[n], v.height)
  BY DEF VotesPast
<1> DEFINE c == chain[n]
           d == chain'[n]
<1>1. v.height <= NextIndex(n) /\ v.signer \in validator_set(made, c, v.height)
  BY VotesRecorded DEF VotesPast
<1>2. /\ c \in Seq(Hash) /\ d \in Seq(Hash) /\ v.height \in Nat
      /\ \A i \in 1 .. Len(c) : c[i] \in DOMAIN made
  BY NodeType DEF TypeInv, TypeOK, Vote
<1>3. Len(c) <= Len(d) /\ SubSeq(c, 1, Len(c)) = SubSeq(d, 1, Len(c))
  BY DEF OnlyExtends, IsPrefix
<1>4. ASSUME NEW j \in 1 .. (v.height - 1) PROVE made'[d[j]] = made[c[j]]
  <2>1. j \in 1 .. Len(c)
    BY <1>1, <1>2 DEF NextIndex
  <2>2. SubSeq(c, 1, Len(c))[j] = c[j] /\ SubSeq(d, 1, Len(c))[j] = d[j]
    BY <1>2, <1>3, <2>1
  <2>3. made'[c[j]] = made[c[j]]
    BY <1>2, <2>1, MadeGrows DEF TypeInv
  <2> QED BY <1>3, <2>2, <2>3
<1>5. validator_set(made', d, v.height) = validator_set(made, c, v.height)
  BY <1>4, PrefixDeterminesValidators
<1>6. NextIndex(n) <= NextIndex(n)' /\ NextIndex(n) \in Nat /\ NextIndex(n)' \in Nat
  BY <1>2, <1>3 DEF NextIndex
<1> QED BY <1>1, <1>2, <1>5, <1>6

\* Nodes whose chains are only ever extended keep valid chains, whatever promotions,
\* timeouts and view changes there are. (_next_view, _apply_view_change: a vote for a
\* height above the tip's successor is not recorded.)
THEOREM ExtendedChainsStayValid == Spec /\ [][OnlyExtends]_vars => []ChainsValid
<1>1. Init => VotesPast
  BY DEF Init, VotesPast
<1>2. TypeInv /\ TypeInv' /\ VotesPast /\ [Next]_vars /\ [OnlyExtends]_vars => VotesPast'
  <2>1. CASE UNCHANGED vars
    BY <2>1 DEF vars, VotesPast, NextIndex
  <2>2. CASE OnlyExtends
    BY <2>2, ExtendingKeepsVotes
  <2> QED BY <2>1, <2>2
<1>3. VotesPast => VotesCurrent
  BY DEF VotesPast, VotesCurrent
<1>4. FinalityInv => TypeInv
  BY DEF FinalityInv
<1> QED BY <1>1, <1>2, <1>3, <1>4, FinalityInvariant, ChainsStayValid, PTL DEF Spec

\* The validator set does not depend on what is on the chain.
SteadyValidators == \A S, T \in SUBSET Tx : ValidatorsAfter(S) = ValidatorsAfter(T)

\* Every validator set of a chain is the one of genesis.
LEMMA SteadySet ==
  ASSUME SteadyValidators, TypeOK, NEW n \in Node, NEW i \in Nat, i <= NextIndex(n)
  PROVE  validator_set(made, chain[n], i) = ValidatorsAfter({})
<1>1. \A j \in 1 .. (i - 1) : j \in 1 .. Len(chain[n])
  BY NodeType DEF NextIndex
<1>2. PrefixTxs(made, chain[n], i) \in SUBSET Tx
  BY <1>1, NodeType DEF PrefixTxs
<1>3. {} \in SUBSET Tx
  OBVIOUS
<1> QED BY <1>2, <1>3, Zenon DEF SteadyValidators, validator_set

FounderVotes == \A n \in Node : \A v \in votes[n] : v.signer \in ValidatorsAfter({})

\* Nobody has voted and no vote is on its way.
NoVotes == (\A n \in Node : votes[n] = {}) /\ \A m \in net : m.type # "viewchange"

LEMMA NoTimeoutNoVotes ==
  ASSUME TimeoutHeights = {}, NoVotes, TypeOK, [Next]_vars
  PROVE  NoVotes'
<1>0. \A p \in Node : ~ RequestViewChange(p)
  BY DEF RequestViewChange
<1>1. \A m \in net : ~ OnViewChange(m) /\ ~ DropViewChange(m)
  BY DEF NoVotes, OnViewChange, DropViewChange
<1>2. \A n : \A t : \A m \in TxMsgs(n, t) : m.type # "viewchange"
  BY DEF TxMsgs
<1>3. \A n, h, S : \A m \in BlockMsgs(n, h, S) : m.type # "viewchange"
  BY DEF BlockMsgs
<1>4. \A n, h, s : \A m \in CommitMsgs(n, h, s) : m.type # "viewchange"
  BY DEF CommitMsgs
<1>5. \A n, p : ChainMsg(n, p).type # "viewchange"
  BY DEF ChainMsg
<1>6. \A m : Without(m) \subseteq net
  BY WithoutShrinks
<1>7. SUFFICES votes' = votes /\ \A m \in net' : m.type # "viewchange"
  BY DEF NoVotes
<1> USE DEF NoVotes
<1>8. ASSUME NEW n \in Node, NEW t \in Tx, SubmitLocal(n, t) \/ PoolProtocolTx(n, t)
      PROVE  votes' = votes /\ \A m \in net' : m.type # "viewchange"
  BY <1>2, <1>8 DEF SubmitLocal, PoolProtocolTx
<1>9. ASSUME NEW n \in Node, MineBlock(n) \/ Readvertise(n)
      PROVE  votes' = votes /\ \A m \in net' : m.type # "viewchange"
  <2>1. CASE MineBlock(n)
    <3>1. Produce(n, 0, {}, net) /\ votes' = votes
      BY <2>1 DEF MineBlock
    <3>2. PICK h \in Draw(Hash \ DOMAIN made) :
            net' = net \cup BlockMsgs(n, h, OwnCommit(n, {}))
                       \cup UNION {CommitMsgs(n, h, s) : s \in OwnCommit(n, {})}
      BY <3>1 DEF Produce
    <3> QED BY <1>3, <1>4, <3>1, <3>2
  <2>2. CASE Readvertise(n)
    BY <1>3, <2>2 DEF Readvertise
  <2> QED BY <1>9, <2>1, <2>2
<1>10. ASSUME NEW m \in net, OnTransaction(m) \/ RefuseChain(m) \/ DropCommit(m) \/ Lose(m)
       PROVE  votes' = votes /\ \A x \in net' : x.type # "viewchange"
  BY <1>6, <1>10 DEF OnTransaction, RefuseChain, DropCommit, Lose
<1>11. ASSUME NEW m \in net, AppendBlock(m) \/ OnCommit(m)
       PROVE  votes' = votes /\ \A x \in net' : x.type # "viewchange"
  BY <1>4, <1>6, <1>11 DEF AppendBlock, OnCommit
<1>12. ASSUME NEW m \in net, DivergingBlock(m) \/ OnChainRequest(m) \/ AdoptChain(m)
       PROVE  votes' = votes /\ \A x \in net' : x.type # "viewchange"
  BY <1>5, <1>6, <1>12 DEF DivergingBlock, OnChainRequest, AdoptChain
<1>13. CASE UNCHANGED vars
  BY <1>13 DEF vars
<1> QED BY <1>0, <1>1, <1>8, <1>9, <1>10, <1>11, <1>12, <1>13 DEF Next, Receive

\* With a fixed validator set, or on a node nobody's timer disturbs, every chain is
\* valid in every behaviour: appended, adopted and proposed alike.
THEOREM SteadyChainsStayValid ==
  ASSUME SteadyValidators \/ TimeoutHeights = {}
  PROVE  Spec => []ChainsValid
<1>1. CASE SteadyValidators
  <2>1. Init => FounderVotes
    BY DEF Init, FounderVotes
  <2>2. TypeInv /\ FounderVotes /\ [Next]_vars => FounderVotes'
    <3> SUFFICES ASSUME TypeInv, FounderVotes, [Next]_vars, NEW n \in Node, NEW v \in votes'[n]
                 PROVE  v.signer \in ValidatorsAfter({})
      BY DEF FounderVotes
    <3>1. CASE v \in votes[n]
      BY <3>1 DEF FounderVotes
    <3>2. CASE v \notin votes[n]
      <4>1. /\ v \in Vote /\ v.height <= NextIndex(n)
            /\ v.signer \in validator_set(made, chain[n], v.height)
        BY <3>2, VotesRecorded
      <4> QED BY <1>1, <4>1, SteadySet DEF Vote, TypeInv
    <3> QED BY <3>1, <3>2
  <2>3. TypeInv /\ FounderVotes => VotesCurrent
    <3> SUFFICES ASSUME TypeInv, FounderVotes, NEW n \in Node, NEW v \in votes[n],
                        v.height = NextIndex(n)
                 PROVE  v.signer \in validator_set(made, chain[n], v.height)
      BY DEF VotesCurrent
    <3>1. v.height \in Nat /\ v.height <= NextIndex(n)
      BY DEF TypeInv, TypeOK, Vote
    <3> QED BY <1>1, <3>1, SteadySet DEF TypeInv, FounderVotes
  <2>4. FinalityInv => TypeInv
    BY DEF FinalityInv
  <2> QED BY <2>1, <2>2, <2>3, <2>4, FinalityInvariant, ChainsStayValid, PTL DEF Spec
<1>2. CASE TimeoutHeights = {}
  <2>1. Init => NoVotes
    BY DEF Init, NoVotes
  <2>2. FinalityInv /\ NoVotes /\ [Next]_vars => NoVotes'
    BY <1>2, NoTimeoutNoVotes DEF FinalityInv, TypeInv
  <2>3. NoVotes => VotesCurrent
    BY DEF NoVotes, VotesCurrent
  <2> QED BY <2>1, <2>2, <2>3, FinalityInvariant, ChainsStayValid, PTL DEF Spec
<1> QED BY <1>1, <1>2

-----------------------------------------------------------------------------
(***************************************************************************)
(* Agreement. Two final blocks have quorums of commits, and quorums meet,   *)
(* so one validator has committed to both. Nothing in the code keeps that   *)
(* validator from committing on two branches (run conflict): what is proved *)
(* is that this is all that is missing. If no validator's commits are on    *)
(* two branches, finalized histories agree; and they are not if no node     *)
(* leaves a block it has committed to while that commit is remembered by    *)
(* anybody, which is the lock that PBFT prescribes.                         *)
(***************************************************************************)

\* Quorums of any two validator sets that chains may imply share a validator.
QuorumsOverlap == \A S, T \in SUBSET Tx : QuorumsMeet(ValidatorsAfter(S), ValidatorsAfter(T))

\* n's commit to h, in a message.
Carries(m, n, h) ==
  \/ m.type = "block" /\ m.hash = h /\ n \in m.commits
  \/ m.type = "chain" /\ n \in m.commits[h]
  \/ m.type = "commit" /\ m.hash = h /\ m.signer = n

\* n's commit to h is on some node's copy, or on its way to one.
Signed(n, h) == (\E p \in Node : n \in commits[p][h]) \/ (\E m \in net : Carries(m, n, h))

\* g is in the history that h names.
Below(g, h) == \E i \in 1 .. Len(made[h].previous) : made[h].previous[i] = g

\* No validator has commits on two branches.
OneBranch ==
  \A n \in Node : \A g, h \in DOMAIN made :
    Signed(n, g) /\ Signed(n, h) => g = h \/ Below(g, h) \/ Below(h, g)

\* The last finalized block of a chain holds the commits of a quorum.
LEMMA FinalTip ==
  ASSUME TypeOK, NEW n \in Node,
         NEW f, f = FinalizedHeight(made, chain[n], commits[n]), f # 0
  PROVE  \E S \in SUBSET Tx :
           /\ f \in 1 .. Len(chain[n])
           /\ commits[n][chain[n][f]] \cap ValidatorsAfter(S) \in SUBSET ValidatorsAfter(S)
           /\ Cardinality(commits[n][chain[n][f]] \cap ValidatorsAfter(S))
                >= quorum_size(Cardinality(ValidatorsAfter(S)))
<1>1. f \in FinalizedIndices(made, chain[n], commits[n])
  BY NodeType, FinalizedHeightFacts
<1>2. f \in 1 .. Len(chain[n]) /\ is_final(made, chain[n], commits[n], f)
  BY <1>1 DEF FinalizedIndices
<1> DEFINE S == PrefixTxs(made, chain[n], f)
<1>3. S \in SUBSET Tx
  <2>1. \A j \in 1 .. (f - 1) : j \in 1 .. Len(chain[n])
    BY <1>2
  <2> QED BY <2>1, NodeType DEF PrefixTxs
<1>4. HasQuorum(commits[n][chain[n][f]], ValidatorsAfter(S))
  BY <1>2 DEF is_final, validator_set
<1> QED BY <1>2, <1>3, <1>4 DEF HasQuorum

\* Two last finalized blocks have a common signer.
LEMMA CommonSigner ==
  ASSUME QuorumsOverlap, TypeOK, NEW n \in Node, NEW p \in Node,
         NEW f, f = FinalizedHeight(made, chain[n], commits[n]), f # 0,
         NEW g, g = FinalizedHeight(made, chain[p], commits[p]), g # 0
  PROVE  /\ f \in 1 .. Len(chain[n]) /\ g \in 1 .. Len(chain[p])
         /\ \E s \in Node : Signed(s, chain[n][f]) /\ Signed(s, chain[p][g])
<1>1. PICK S \in SUBSET Tx :
           /\ f \in 1 .. Len(chain[n])
           /\ Cardinality(commits[n][chain[n][f]] \cap ValidatorsAfter(S))
                >= quorum_size(Cardinality(ValidatorsAfter(S)))
  BY FinalTip
<1>2. PICK T \in SUBSET Tx :
           /\ g \in 1 .. Len(chain[p])
           /\ Cardinality(commits[p][chain[p][g]] \cap ValidatorsAfter(T))
                >= quorum_size(Cardinality(ValidatorsAfter(T)))
  BY FinalTip
<1> DEFINE A == commits[n][chain[n][f]] \cap ValidatorsAfter(S)
           B == commits[p][chain[p][g]] \cap ValidatorsAfter(T)
<1>3. A \in SUBSET ValidatorsAfter(S) /\ B \in SUBSET ValidatorsAfter(T)
  OBVIOUS
<1>4. QuorumsMeet(ValidatorsAfter(S), ValidatorsAfter(T))
  BY DEF QuorumsOverlap
<1>5. A \cap B # {}
  BY <1>1, <1>2, <1>3, <1>4 DEF QuorumsMeet
<1>6. PICK s : s \in A /\ s \in B
  BY <1>5
<1>7. s \in Node
  BY <1>6, ValidatorsAssumption
<1>8. Signed(s, chain[n][f]) /\ Signed(s, chain[p][g])
  BY <1>6 DEF Signed
<1> QED BY <1>1, <1>2, <1>7, <1>8

\* A chain that holds, in the history of one of its blocks or as a block, the block
\* at height f of another linked chain, holds the same history up to there.
LEMMA HistoryBelow ==
  ASSUME TypeOK, LinkInv, NEW n \in Node, NEW p \in Node,
         NEW f \in 1 .. Len(chain[n]), NEW g \in 1 .. Len(chain[p]),
         chain[n][f] = chain[p][g] \/ Below(chain[n][f], chain[p][g])
  PROVE  f <= g /\ SubSeq(chain[n], 1, f) = SubSeq(chain[p], 1, f)
<1> DEFINE c == chain[n]
           d == chain[p]
<1>1. c \in Seq(Hash) /\ d \in Seq(Hash) /\ Linked(made, c) /\ Linked(made, d)
  BY NodeType DEF LinkInv
<1>2. \E j \in 1 .. g : d[j] = c[f]
  <2>1. CASE c[f] = d[g]
    BY <2>1, <1>1
  <2>2. CASE Below(c[f], d[g])
    <3>1. made[d[g]].previous = SubSeq(d, 1, g - 1)
      BY <1>1, Zenon DEF Linked
    <3>2. PICK i \in 1 .. Len(SubSeq(d, 1, g - 1)) : SubSeq(d, 1, g - 1)[i] = c[f]
      BY <2>2, <3>1 DEF Below
    <3>3. i \in 1 .. (g - 1) /\ SubSeq(d, 1, g - 1)[i] = d[i]
      BY <1>1, <3>2
    <3> QED BY <1>1, <3>2, <3>3
  <2> QED BY <2>1, <2>2
<1>3. PICK j \in 1 .. g : d[j] = c[f]
  BY <1>2
<1> HIDE DEF c, d
<1>4. j \in 1 .. Len(d) /\ Len(d) \in Nat /\ g \in 1 .. Len(d) /\ f \in 1 .. Len(c)
  BY <1>1, <1>3 DEF c, d
<1>5. f = j
  BY <1>1, <1>3, <1>4, SameHeight
<1>6. f <= g /\ f <= Len(d)
  BY <1>3, <1>4, <1>5
<1>7. SubSeq(c, 1, f) = SubSeq(d, 1, f)
  BY <1>1, <1>3, <1>4, <1>5, <1>6, LinkedHistory
<1> QED BY <1>6, <1>7 DEF c, d

\* A history up to f that two chains share is a prefix of the other up to g.
LEMMA SharedIsPrefix ==
  ASSUME NEW c \in Seq(Hash), NEW d \in Seq(Hash), NEW f \in 0 .. Len(c), NEW g \in 0 .. Len(d),
         f <= g, SubSeq(c, 1, f) = SubSeq(d, 1, f)
  PROVE  IsPrefix(SubSeq(c, 1, f), SubSeq(d, 1, g))
<1>1. /\ SubSeq(c, 1, f) \in Seq(Hash) /\ Len(SubSeq(c, 1, f)) = f
      /\ SubSeq(d, 1, g) \in Seq(Hash) /\ Len(SubSeq(d, 1, g)) = g
      /\ f \in Nat /\ f <= Len(d)
  OBVIOUS
<1>2. \A i \in 1 .. f : SubSeq(d, 1, g)[i] = d[i]
  OBVIOUS
<1>3. SubSeq(SubSeq(d, 1, g), 1, f) = SubSeq(d, 1, f)
  BY <1>1, <1>2, SameHistory
<1>4. SubSeq(SubSeq(c, 1, f), 1, f) = SubSeq(c, 1, f)
  BY <1>1
<1> QED BY <1>1, <1>3, <1>4 DEF IsPrefix

\* Finalized histories agree where no validator has committed on two branches, as
\* long as quorums overlap. (is_final, quorum_size.)
LEMMA OneBranchAgrees ==
  ASSUME QuorumsOverlap, FinalityInv, OneBranch
  PROVE  Agreement
<1> SUFFICES ASSUME NEW n \in Node, NEW p \in Node
             PROVE  \/ IsPrefix(FinalizedPrefix(n), FinalizedPrefix(p))
                    \/ IsPrefix(FinalizedPrefix(p), FinalizedPrefix(n))
  BY DEF Agreement
<1>0. TypeOK /\ LinkInv
  BY DEF FinalityInv, TypeInv
<1>1. PICK f : f = FinalizedHeight(made, chain[n], commits[n])
  OBVIOUS
<1>2. PICK g : g = FinalizedHeight(made, chain[p], commits[p])
  OBVIOUS
<1>3. /\ chain[n] \in Seq(Hash) /\ chain[p] \in Seq(Hash)
      /\ f \in 0 .. Len(chain[n]) /\ g \in 0 .. Len(chain[p])
  BY <1>0, <1>1, <1>2, NodeType, FinalizedHeightFacts
<1>4. FinalizedPrefix(n) = SubSeq(chain[n], 1, f) /\ FinalizedPrefix(p) = SubSeq(chain[p], 1, g)
  BY <1>1, <1>2 DEF FinalizedPrefix
<1>5. CASE f = 0
  <2>1. SubSeq(chain[n], 1, f) = SubSeq(chain[p], 1, f) /\ f <= g
    BY <1>3, <1>5
  <2> QED BY <1>3, <1>4, <2>1, SharedIsPrefix
<1>6. CASE g = 0
  <2>1. SubSeq(chain[p], 1, g) = SubSeq(chain[n], 1, g) /\ g <= f
    BY <1>3, <1>6
  <2> QED BY <1>3, <1>4, <2>1, SharedIsPrefix
<1>7. CASE f # 0 /\ g # 0
  <2>1. f \in 1 .. Len(chain[n]) /\ g \in 1 .. Len(chain[p])
    BY <1>0, <1>1, <1>2, <1>7, CommonSigner
  <2>2. PICK s \in Node : Signed(s, chain[n][f]) /\ Signed(s, chain[p][g])
    BY <1>0, <1>1, <1>2, <1>7, CommonSigner
  <2>3. chain[n][f] \in DOMAIN made /\ chain[p][g] \in DOMAIN made
    BY <1>0, <2>1, NodeType
  <2>4. \/ chain[n][f] = chain[p][g] \/ Below(chain[n][f], chain[p][g])
        \/ Below(chain[p][g], chain[n][f])
    BY <2>2, <2>3 DEF OneBranch
  <2>5. CASE chain[n][f] = chain[p][g] \/ Below(chain[n][f], chain[p][g])
    <3>1. f <= g /\ SubSeq(chain[n], 1, f) = SubSeq(chain[p], 1, f)
      BY <1>0, <2>1, <2>5, HistoryBelow
    <3> QED BY <1>3, <1>4, <3>1, SharedIsPrefix
  <2>6. CASE Below(chain[p][g], chain[n][f])
    <3>1. g <= f /\ SubSeq(chain[p], 1, g) = SubSeq(chain[n], 1, g)
      BY <1>0, <2>1, <2>6, HistoryBelow
    <3> QED BY <1>3, <1>4, <3>1, SharedIsPrefix
  <2> QED BY <2>4, <2>5, <2>6
<1> QED BY <1>3, <1>5, <1>6, <1>7

-----------------------------------------------------------------------------
\* h is on n's chain.
OnChain(n, h) == \E i \in 1 .. Len(chain[n]) : chain[n][i] = h

\* The lock: no node leaves a block while its own commit to it is about.
KeepsCommitted == \A n \in Node, h \in Hash : Signed(n, h) /\ OnChain(n, h) => OnChain(n, h)'

\* Whatever a node has committed to is on its chain.
CommittedOnChain == \A n \in Node, h \in Hash : Signed(n, h) => OnChain(n, h)

\* A commit n may have after a step: one it had, or one to a block now on its chain.
MayHave(n, h) == Signed(n, h) \/ OnChain(n, h)'

\* Commits after a step come from copies and messages before it, and from the node
\* that signs the block it has put on its own chain.
SignsOwnOnly == \A n \in Node, h \in Hash : Signed(n, h)' => MayHave(n, h)

\* The two places to look for a commit after a step.
LEMMA SignedAfter ==
  ASSUME \A p \in Node : \A n \in Node, h \in Hash : n \in commits'[p][h] => MayHave(n, h),
         NEW N, net' \subseteq net \cup N,
         \A m \in N : \A n \in Node, h \in Hash : Carries(m, n, h) => MayHave(n, h)
  PROVE  SignsOwnOnly
<1> SUFFICES ASSUME NEW n \in Node, NEW h \in Hash, Signed(n, h)'
             PROVE  MayHave(n, h)
  BY DEF SignsOwnOnly
<1>1. CASE \E p \in Node : n \in commits'[p][h]
  BY <1>1
<1>2. CASE \E m \in net' : Carries(m, n, h)
  <2>1. PICK m \in net' : Carries(m, n, h)
    BY <1>2
  <2>2. CASE m \in net
    BY <2>1, <2>2 DEF MayHave, Signed
  <2>3. CASE m \in N
    BY <2>1, <2>3
  <2> QED BY <2>1, <2>2, <2>3
<1> QED BY <1>1, <1>2 DEF Signed, Carries

\* Steps that leave the copies alone.
LEMMA SameCopies ==
  commits' = commits
    => \A p \in Node : \A n \in Node, h \in Hash : n \in commits'[p][h] => MayHave(n, h)
BY DEF MayHave, Signed

\* Messages that carry no commits, and those that carry what a node's copies hold.
LEMMA SilentMessages ==
  /\ \A n, t, p, h : \A m \in TxMsgs(n, t) : ~ Carries(m, p, h)
  /\ \A n, v, p, h : \A m \in VoteMsgs(n, v) : ~ Carries(m, p, h)
  /\ \A n, p, h, to, from : ~ Carries([type |-> "request", from |-> from, to |-> to], p, h)
BY DEF TxMsgs, VoteMsgs, Carries

LEMMA CarriedMessages ==
  /\ \A n, b, S, p, h : \A m \in BlockMsgs(n, b, S) : Carries(m, p, h) => h = b /\ p \in S
  /\ \A n, b, s, p, h : \A m \in CommitMsgs(n, b, s) : Carries(m, p, h) => h = b /\ p = s
  /\ \A n, q, p, h : Carries(ChainMsg(n, q), p, h) => p \in commits[n][h]
<1>1. \A n, b, S, p, h : \A m \in BlockMsgs(n, b, S) : Carries(m, p, h) => h = b /\ p \in S
  BY DEF BlockMsgs, Carries
<1>2. \A n, b, s, p, h : \A m \in CommitMsgs(n, b, s) : Carries(m, p, h) => h = b /\ p = s
  BY DEF CommitMsgs, Carries
<1>3. \A n, q, p, h : Carries(ChainMsg(n, q), p, h) => p \in commits[n][h]
  BY DEF ChainMsg, Carries
<1> QED BY <1>1, <1>2, <1>3

LEMMA ProduceSigns ==
  ASSUME TypeOK, NEW n \in Node, NEW view, NEW justification, NEW sent, NEW N,
         sent \subseteq net \cup N, \A m \in N : \A p, h : ~ Carries(m, p, h),
         Produce(n, view, justification, sent)
  PROVE  SignsOwnOnly
<1>1. PICK h \in Draw(Hash \ DOMAIN made) :
        /\ chain' = [chain EXCEPT ![n] = Append(chain[n], h)]
        /\ commits' = [commits EXCEPT ![n] = [commits[n] EXCEPT ![h] = OwnCommit(n, {})]]
        /\ net' = sent \cup BlockMsgs(n, h, OwnCommit(n, {}))
                       \cup UNION {CommitMsgs(n, h, s) : s \in OwnCommit(n, {})}
  BY DEF Produce
<1>2. h \in Hash
  <2>1. Hash \ DOMAIN made \in SUBSET Hash
    OBVIOUS
  <2> QED BY <2>1, <1>1, BoundAssumption
<1>3. OwnCommit(n, {}) \subseteq {n}
  BY OwnCommitIsOwn
<1>4. MayHave(n, h)
  <2>1. chain'[n] = Append(chain[n], h) /\ chain[n] \in Seq(Hash)
    BY <1>1, NodeType DEF TypeOK
  <2>2. /\ Len(chain[n]) + 1 \in 1 .. Len(Append(chain[n], h))
        /\ Append(chain[n], h)[Len(chain[n]) + 1] = h
    BY <1>2, <2>1
  <2> QED BY <2>1, <2>2 DEF MayHave, OnChain
<1>5. ASSUME NEW p \in Node, NEW q \in Node, NEW x \in Hash, q \in commits'[p][x]
      PROVE  MayHave(q, x)
  <2>1. CASE p = n /\ x = h
    <3>1. commits'[p][x] = OwnCommit(n, {})
      BY <1>1, <1>2, <2>1 DEF TypeOK, Copies
    <3> QED BY <1>3, <1>4, <1>5, <2>1, <3>1
  <2>2. CASE ~ (p = n /\ x = h)
    <3>1. commits'[p][x] = commits[p][x]
      BY <1>1, <2>2 DEF TypeOK, Copies
    <3> QED BY <1>5, <3>1 DEF MayHave, Signed
  <2> QED BY <2>1, <2>2
<1> DEFINE A == N \cup BlockMsgs(n, h, OwnCommit(n, {}))
                  \cup UNION {CommitMsgs(n, h, s) : s \in OwnCommit(n, {})}
<1>6. net' \subseteq net \cup A
  BY <1>1
<1>7. ASSUME NEW m \in A, NEW q \in Node, NEW x \in Hash, Carries(m, q, x)
      PROVE  MayHave(q, x)
  <2>1. CASE m \in N
    BY <1>7, <2>1
  <2>2. CASE m \in BlockMsgs(n, h, OwnCommit(n, {}))
    BY <1>3, <1>4, <1>7, <2>2, CarriedMessages
  <2>3. CASE m \in UNION {CommitMsgs(n, h, s) : s \in OwnCommit(n, {})}
    <3>1. PICK s \in OwnCommit(n, {}) : m \in CommitMsgs(n, h, s)
      BY <2>3
    <3> QED BY <1>3, <1>4, <1>7, <3>1, CarriedMessages
  <2> QED BY <1>7, <2>1, <2>2, <2>3
<1> HIDE DEF A
<1> QED BY <1>5, <1>6, <1>7, SignedAfter

LEMMA AppendSigns ==
  ASSUME TypeOK, NEW m \in net, AppendBlock(m)
  PROVE  SignsOwnOnly
<1> DEFINE n == m.to
           own == OwnCommit(n, m.commits)
           k == [commits[n] EXCEPT ![m.hash] = m.commits \cup own]
<1>1. m \in Message /\ m.type = "block"
  BY DEF TypeOK, AppendBlock
<1>2. n \in Node /\ m.hash \in Hash
  BY <1>1, MessageContents
<1>3. /\ chain' = [chain EXCEPT ![n] = Append(chain[n], m.hash)]
      /\ commits' = [commits EXCEPT ![n] = k]
      /\ net' = Without(m) \cup UNION {CommitMsgs(n, m.hash, s) : s \in own}
  BY DEF AppendBlock
<1>4. own \subseteq {n}
  BY OwnCommitIsOwn
<1>5. MayHave(n, m.hash)
  <2>1. chain'[n] = Append(chain[n], m.hash) /\ chain[n] \in Seq(Hash)
    BY <1>2, <1>3, NodeType DEF TypeOK
  <2>2. /\ Len(chain[n]) + 1 \in 1 .. Len(Append(chain[n], m.hash))
        /\ Append(chain[n], m.hash)[Len(chain[n]) + 1] = m.hash
    BY <1>2, <2>1
  <2> QED BY <2>1, <2>2 DEF MayHave, OnChain
<1>6. ASSUME NEW p \in Node, NEW q \in Node, NEW x \in Hash, q \in commits'[p][x]
      PROVE  MayHave(q, x)
  <2>1. CASE p = n /\ x = m.hash
    <3>1. commits'[p][x] = m.commits \cup own
      BY <1>2, <1>3, <2>1 DEF TypeOK, Copies
    <3>2. CASE q \in m.commits
      BY <1>1, <2>1, <3>2 DEF MayHave, Signed, Carries
    <3>3. CASE q \in own
      BY <1>4, <1>5, <2>1, <3>3
    <3> QED BY <1>6, <3>1, <3>2, <3>3
  <2>2. CASE ~ (p = n /\ x = m.hash)
    <3>1. commits'[p][x] = commits[p][x]
      BY <1>2, <1>3, <2>2 DEF TypeOK, Copies
    <3> QED BY <1>6, <3>1 DEF MayHave, Signed
  <2> QED BY <2>1, <2>2
<1> DEFINE A == UNION {CommitMsgs(n, m.hash, s) : s \in own}
<1>7. net' \subseteq net \cup A
  BY <1>3, WithoutShrinks
<1>8. ASSUME NEW y \in A, NEW q \in Node, NEW x \in Hash, Carries(y, q, x)
      PROVE  MayHave(q, x)
  <2>1. PICK s \in own : y \in CommitMsgs(n, m.hash, s)
    OBVIOUS
  <2> QED BY <1>4, <1>5, <1>8, <2>1, CarriedMessages
<1> HIDE DEF A
<1> QED BY <1>6, <1>7, <1>8, SignedAfter

LEMMA AdoptSigns ==
  ASSUME TypeOK, NEW m \in net, AdoptChain(m)
  PROVE  SignsOwnOnly
<1>1. m \in Message /\ m.type = "chain"
  BY DEF TypeOK, AdoptChain
<1>2. m.to \in Node
  BY <1>1, MessageContents
<1>3. commits' = [commits EXCEPT ![m.to] = m.commits] /\ net' = Without(m)
  BY DEF AdoptChain
<1>4. ASSUME NEW p \in Node, NEW q \in Node, NEW x \in Hash, q \in commits'[p][x]
      PROVE  MayHave(q, x)
  <2>1. CASE p = m.to
    <3>1. q \in m.commits[x]
      BY <1>3, <1>4, <2>1 DEF TypeOK
    <3> QED BY <1>1, <3>1 DEF MayHave, Signed, Carries
  <2>2. CASE p # m.to
    <3>1. commits'[p][x] = commits[p][x]
      BY <1>3, <2>2 DEF TypeOK
    <3> QED BY <1>4, <3>1 DEF MayHave, Signed
  <2> QED BY <2>1, <2>2
<1> DEFINE A == {}
<1>5. net' \subseteq net \cup A /\ \A y \in A : \A q \in Node, x \in Hash : Carries(y, q, x) => MayHave(q, x)
  BY <1>3, WithoutShrinks
<1> HIDE DEF A
<1> QED BY <1>4, <1>5, SignedAfter

LEMMA CommitSigns ==
  ASSUME TypeOK, NEW m \in net, OnCommit(m)
  PROVE  SignsOwnOnly
<1> DEFINE n == m.to
           k == [commits[n] EXCEPT ![m.hash] = @ \cup {m.signer}]
<1>1. m \in Message /\ m.type = "commit"
  BY DEF TypeOK, OnCommit
<1>2. n \in Node /\ m.hash \in Hash
  BY <1>1, MessageContents
<1>3. commits' = [commits EXCEPT ![n] = k] /\ net' = Without(m) \cup CommitMsgs(n, m.hash, m.signer)
  BY DEF OnCommit
<1>4. MayHave(m.signer, m.hash)
  BY <1>1 DEF MayHave, Signed, Carries
<1>5. ASSUME NEW p \in Node, NEW q \in Node, NEW x \in Hash, q \in commits'[p][x]
      PROVE  MayHave(q, x)
  <2>1. commits'[p][x] \subseteq commits[p][x] \/ (x = m.hash /\ commits'[p][x] = commits[p][x] \cup {m.signer})
    BY <1>2, <1>3 DEF TypeOK, Copies
  <2>2. CASE q \in commits[p][x]
    BY <2>2 DEF MayHave, Signed
  <2> QED BY <1>4, <1>5, <2>1, <2>2
<1> DEFINE A == CommitMsgs(n, m.hash, m.signer)
<1>6. net' \subseteq net \cup A
  BY <1>3, WithoutShrinks
<1>7. ASSUME NEW y \in A, NEW q \in Node, NEW x \in Hash, Carries(y, q, x)
      PROVE  MayHave(q, x)
  BY <1>4, <1>7, CarriedMessages
<1> HIDE DEF A
<1> QED BY <1>5, <1>6, <1>7, SignedAfter

\* Steps that leave the copies alone and send what carries no new commit.
LEMMA QuietSigns ==
  ASSUME commits' = commits, NEW N, net' \subseteq net \cup N,
         \A m \in N : \A n \in Node, h \in Hash : Carries(m, n, h) => Signed(n, h)
  PROVE  SignsOwnOnly
<1>1. \A m \in N : \A n \in Node, h \in Hash : Carries(m, n, h) => MayHave(n, h)
  BY DEF MayHave
<1> QED BY <1>1, SameCopies, SignedAfter

LEMMA ShrinkingSigns ==
  ASSUME commits' = commits, net' \subseteq net
  PROVE  SignsOwnOnly
<1> DEFINE N == {}
<1>1. net' \subseteq net \cup N /\ \A m \in N : \A n \in Node, h \in Hash : Carries(m, n, h) => Signed(n, h)
  OBVIOUS
<1> HIDE DEF N
<1> QED BY <1>1, QuietSigns

LEMMA RecordVoteSigns ==
  ASSUME TypeOK, NEW n \in Node, NEW v, NEW rest, rest \subseteq net, RecordVote(n, v, rest)
  PROVE  SignsOwnOnly
<1> DEFINE S == votes[n] \cup {v}
           sent == rest \cup VoteMsgs(n, v)
           J == {x.signer : x \in VotesFor(S, v.height, v.view)}
           N == VoteMsgs(n, v)
<1>1. sent \subseteq net \cup N /\ \A m \in N : \A p, h : ~ Carries(m, p, h)
  BY SilentMessages
<1>2. Produce(n, v.view, J, sent) \/ (net' = sent /\ commits' = commits)
  BY DEF RecordVote
<1> HIDE DEF S, sent, J, N
<1>3. CASE Produce(n, v.view, J, sent)
  BY <1>1, <1>3, ProduceSigns
<1>4. CASE net' = sent /\ commits' = commits
  BY <1>1, <1>4, QuietSigns
<1> QED BY <1>2, <1>3, <1>4

LEMMA LocalSigns ==
  ASSUME TypeInv, NEW n \in Node,
         \/ \E t \in Tx : SubmitLocal(n, t) \/ PoolProtocolTx(n, t)
         \/ MineBlock(n) \/ Readvertise(n) \/ RequestViewChange(n)
  PROVE  SignsOwnOnly
<1>1. ASSUME NEW t \in Tx, SubmitLocal(n, t) PROVE SignsOwnOnly
  <2>1. commits' = commits /\ net' \subseteq net \cup TxMsgs(n, t)
    BY <1>1 DEF SubmitLocal
  <2>2. \A m \in TxMsgs(n, t) : \A p \in Node, h \in Hash : Carries(m, p, h) => Signed(p, h)
    BY SilentMessages
  <2> QED BY <2>1, <2>2, QuietSigns
<1>2. ASSUME NEW t \in Tx, PoolProtocolTx(n, t) PROVE SignsOwnOnly
  BY <1>2, ShrinkingSigns DEF PoolProtocolTx
<1>3. CASE MineBlock(n)
  <2> DEFINE N == {}
  <2>1. net \subseteq net \cup N /\ \A m \in N : \A p, h : ~ Carries(m, p, h)
    OBVIOUS
  <2>2. Produce(n, 0, {}, net)
    BY <1>3 DEF MineBlock
  <2> HIDE DEF N
  <2> QED BY <2>1, <2>2, ProduceSigns DEF TypeInv
<1>4. CASE Readvertise(n)
  <2> DEFINE tip == chain[n][Len(chain[n])]
             N == BlockMsgs(n, tip, commits[n][tip])
  <2>1. commits' = commits /\ net' \subseteq net \cup N
    BY <1>4 DEF Readvertise
  <2>2. \A m \in N : \A p \in Node, h \in Hash : Carries(m, p, h) => Signed(p, h)
    <3> SUFFICES ASSUME NEW m \in N, NEW p \in Node, NEW h \in Hash, Carries(m, p, h)
                 PROVE  Signed(p, h)
      OBVIOUS
    <3>1. h = tip /\ p \in commits[n][tip]
      <4> HIDE DEF tip
      <4> QED BY CarriedMessages
    <3> HIDE DEF tip, N
    <3> QED BY <3>1 DEF Signed
  <2> HIDE DEF N
  <2> QED BY <2>1, <2>2, QuietSigns
<1>5. CASE RequestViewChange(n)
  <2>1. PICK v \in Vote : RecordVote(n, v, net)
    BY <1>5, VoteIsChecked
  <2>2. net \subseteq net
    OBVIOUS
  <2> QED BY <2>1, <2>2, RecordVoteSigns DEF TypeInv
<1> QED BY <1>1, <1>2, <1>3, <1>4, <1>5

LEMMA NextSigns ==
  ASSUME TypeInv, [Next]_vars
  PROVE  SignsOwnOnly
<1>1. CASE UNCHANGED vars
  BY <1>1, ShrinkingSigns DEF vars
<1>2. ASSUME NEW m \in net,
             \/ OnTransaction(m) \/ RefuseChain(m) \/ DropCommit(m) \/ DropViewChange(m) \/ Lose(m)
      PROVE  SignsOwnOnly
  <2>1. commits' = commits /\ net' \subseteq net
    BY <1>2, WithoutShrinks DEF OnTransaction, RefuseChain, DropCommit, DropViewChange, Lose
  <2> QED BY <2>1, ShrinkingSigns
<1>3. ASSUME NEW m \in net, DivergingBlock(m)
      PROVE  SignsOwnOnly
  <2> DEFINE N == {[type |-> "request", from |-> m.to, to |-> m.from]}
  <2>1. commits' = commits /\ net' \subseteq net \cup N
    BY <1>3, WithoutShrinks DEF DivergingBlock
  <2>2. \A x \in N : \A p \in Node, h \in Hash : Carries(x, p, h) => Signed(p, h)
    BY SilentMessages
  <2> HIDE DEF N
  <2> QED BY <2>1, <2>2, QuietSigns
<1>4. ASSUME NEW m \in net, OnChainRequest(m)
      PROVE  SignsOwnOnly
  <2> DEFINE N == {ChainMsg(m.to, m.from)}
  <2>1. m \in Message /\ m.type = "request"
    BY <1>4 DEF TypeInv, TypeOK, OnChainRequest
  <2>2. m.to \in Node
    BY <2>1, MessageContents
  <2>3. commits' = commits /\ net' \subseteq net \cup N
    BY <1>4, WithoutShrinks DEF OnChainRequest
  <2>4. \A x \in N : \A p \in Node, h \in Hash : Carries(x, p, h) => Signed(p, h)
    BY <2>2, CarriedMessages DEF Signed
  <2> HIDE DEF N
  <2> QED BY <2>3, <2>4, QuietSigns
<1>5. ASSUME NEW m \in net, OnViewChange(m)
      PROVE  SignsOwnOnly
  <2>1. m.to \in Node /\ RecordVote(m.to, m.vote, Without(m))
    BY <1>5, HeardVoteIsChecked
  <2>2. Without(m) \subseteq net
    BY WithoutShrinks
  <2> QED BY <2>1, <2>2, RecordVoteSigns DEF TypeInv
<1>6. ASSUME NEW m \in net, AppendBlock(m) \/ AdoptChain(m) \/ OnCommit(m)
      PROVE  SignsOwnOnly
  BY <1>6, AppendSigns, AdoptSigns, CommitSigns DEF TypeInv
<1> QED BY <1>1, <1>2, <1>3, <1>4, <1>5, <1>6, LocalSigns DEF Next, Receive

-----------------------------------------------------------------------------
\* Blocks of one chain are on one branch.
LEMMA ChainIsOneBranch ==
  ASSUME TypeOK, LinkInv, NEW n \in Node,
         NEW i \in 1 .. Len(chain[n]), NEW j \in 1 .. Len(chain[n]), i < j
  PROVE  Below(chain[n][i], chain[n][j])
<1> DEFINE c == chain[n]
<1>1. c \in Seq(Hash) /\ Linked(made, c)
  BY NodeType DEF LinkInv
<1>2. made[c[j]].previous = SubSeq(c, 1, j - 1)
  BY <1>1, Zenon DEF Linked
<1>3. i \in 1 .. Len(SubSeq(c, 1, j - 1)) /\ SubSeq(c, 1, j - 1)[i] = c[i]
  BY <1>1
<1> HIDE DEF c
<1>4. \E x \in 1 .. Len(made[c[j]].previous) : made[c[j]].previous[x] = c[i]
  BY <1>2, <1>3
<1> QED BY <1>4 DEF Below, c

LEMMA LockIsOneBranch ==
  ASSUME FinalityInv, CommittedOnChain
  PROVE  OneBranch
<1> SUFFICES ASSUME NEW n \in Node, NEW g \in DOMAIN made, NEW h \in DOMAIN made,
                    Signed(n, g), Signed(n, h)
             PROVE  g = h \/ Below(g, h) \/ Below(h, g)
  BY DEF OneBranch
<1>0. TypeOK /\ LinkInv
  BY DEF FinalityInv, TypeInv
<1>1. g \in Hash /\ h \in Hash
  BY <1>0 DEF TypeOK
<1>2. PICK i \in 1 .. Len(chain[n]) : chain[n][i] = g
  BY <1>1 DEF CommittedOnChain, OnChain
<1>3. PICK j \in 1 .. Len(chain[n]) : chain[n][j] = h
  BY <1>1 DEF CommittedOnChain, OnChain
<1>4. CASE i = j
  BY <1>2, <1>3, <1>4
<1>5. CASE i < j
  BY <1>0, <1>2, <1>3, <1>5, ChainIsOneBranch
<1>6. CASE j < i
  BY <1>0, <1>2, <1>3, <1>6, ChainIsOneBranch
<1>7. i \in Int /\ j \in Int
  OBVIOUS
<1> QED BY <1>4, <1>5, <1>6, <1>7

\* The lock is inductive: a commit is to a block the signer has just put on its chain.
LEMMA LockInvariant == Spec /\ [][KeepsCommitted]_vars => []CommittedOnChain
<1>1. Init => CommittedOnChain
  <2> SUFFICES ASSUME Init, NEW n \in Node, NEW h \in Hash PROVE ~ Signed(n, h)
    BY DEF CommittedOnChain
  <2> QED BY DEF Init, Signed
<1>2. FinalityInv /\ CommittedOnChain /\ [Next]_vars /\ [KeepsCommitted]_vars
        => CommittedOnChain'
  <2> SUFFICES ASSUME FinalityInv, CommittedOnChain, [Next]_vars, [KeepsCommitted]_vars
               PROVE  CommittedOnChain'
    OBVIOUS
  <2>1. CASE UNCHANGED vars
    BY <2>1 DEF vars, CommittedOnChain, Signed, OnChain
  <2>2. CASE KeepsCommitted
    <3> SUFFICES ASSUME NEW n \in Node, NEW h \in Hash, Signed(n, h)' PROVE OnChain(n, h)'
      BY DEF CommittedOnChain
    <3>1. SignsOwnOnly
      BY NextSigns DEF FinalityInv
    <3>2. Signed(n, h) \/ OnChain(n, h)'
      BY <3>1 DEF SignsOwnOnly, MayHave
    <3>3. Signed(n, h) => OnChain(n, h)
      BY DEF CommittedOnChain
    <3> QED BY <2>2, <3>2, <3>3 DEF KeepsCommitted
  <2> QED BY <2>1, <2>2
<1> QED BY <1>1, <1>2, FinalityInvariant, PTL DEF Spec

\* Two nodes never finalize conflicting histories as long as no validator has commits
\* on two branches, for any network, validator sets whose quorums overlap, and any
\* number of view changes. The run conflict violates OneBranch, and with it Agreement.
THEOREM AgreementUnlessTwoBranches ==
  ASSUME QuorumsOverlap
  PROVE  Spec /\ []OneBranch => []Agreement
<1>1. FinalityInv /\ OneBranch => Agreement
  BY OneBranchAgrees
<1> QED BY <1>1, FinalityInvariant, PTL

\* ... and so if every node kept a lock: if none left a block on its chain, whatever
\* chain fork choice prefers, while its own commit to it is on a copy or in a message.
\* _commit_if_validator and replace_chain remember no such commit.
THEOREM LockedNodesAgree ==
  ASSUME QuorumsOverlap
  PROVE  Spec /\ [][KeepsCommitted]_vars => []Agreement
<1>1. FinalityInv /\ CommittedOnChain => OneBranch
  BY LockIsOneBranch
<1>2. FinalityInv /\ OneBranch => Agreement
  BY OneBranchAgrees
<1> QED BY <1>1, <1>2, FinalityInvariant, LockInvariant, PTL

\* Quorums overlap in particular while all the validators there will ever be, W, are
\* fewer than two quorums of the founders F: three of two founders, five of four.
THEOREM FoundersKeepOverlap ==
  ASSUME NEW F, NEW W, IsFiniteSet(W), Cardinality(W) < 2 * quorum_size(Cardinality(F)),
         \A S \in SUBSET Tx : F \subseteq ValidatorsAfter(S) /\ ValidatorsAfter(S) \subseteq W
  PROVE  QuorumsOverlap
<1> SUFFICES ASSUME NEW S \in SUBSET Tx, NEW T \in SUBSET Tx
             PROVE  QuorumsMeet(ValidatorsAfter(S), ValidatorsAfter(T))
  BY DEF QuorumsOverlap
<1>1. PICK V : V = ValidatorsAfter(S)
  OBVIOUS
<1>2. PICK U : U = ValidatorsAfter(T)
  OBVIOUS
<1>3. F \subseteq V /\ V \subseteq W /\ F \subseteq U /\ U \subseteq W
  BY <1>1, <1>2
<1>4. IsFiniteSet(V) /\ IsFiniteSet(U) /\ IsFiniteSet(F) /\ IsFiniteSet(V \cup U)
  BY <1>3, FS_Subset, FS_Union
<1>5. /\ Cardinality(F) <= Cardinality(V) /\ Cardinality(F) <= Cardinality(U)
      /\ Cardinality(V \cup U) <= Cardinality(W)
  <2>1. F \in SUBSET V /\ F \in SUBSET U /\ V \cup U \in SUBSET W
    BY <1>3
  <2> QED BY <1>4, <2>1, FS_Subset
<1>6. /\ Cardinality(F) \in Nat /\ Cardinality(V) \in Nat /\ Cardinality(U) \in Nat
      /\ Cardinality(V \cup U) \in Nat /\ Cardinality(W) \in Nat
  BY <1>4, FS_CardinalityType
<1>7. \A a, b \in Nat : a <= b => quorum_size(a) <= quorum_size(b)
  BY DEF quorum_size
<1>8. \A a \in Nat : quorum_size(a) \in Int
  BY DEF quorum_size
<1>9. Cardinality(V \cup U) < quorum_size(Cardinality(V)) + quorum_size(Cardinality(U))
  <2>1. /\ quorum_size(Cardinality(F)) <= quorum_size(Cardinality(V))
        /\ quorum_size(Cardinality(F)) <= quorum_size(Cardinality(U))
    BY <1>5, <1>6, <1>7
  <2> QED BY <1>5, <1>6, <1>8, <2>1
<1> QED BY <1>1, <1>2, <1>4, <1>9, CrowdedQuorumsMeet
=============================================================================
