---------------------------- MODULE CommunityProofs ----------------------------
(***************************************************************************)
(* Theorems about module Community, for any nodes, topology, message loss,  *)
(* duplication, validator sets and bounds.                                  *)
(***************************************************************************)
EXTENDS Community, BlockchainProofs

USE PeersAssumption

-----------------------------------------------------------------------------
(***************************************************************************)
(* Type correctness.                                                        *)
(***************************************************************************)

\* What a message of each kind carries.
LEMMA MessageContents ==
  ASSUME NEW m \in Message
  PROVE  /\ m.to \in Node
         /\ m.type \in Kinds
         /\ m.type = "tx" => m.tx \in Tx
         /\ m.type = "block" => m.from \in Node /\ m.hash \in Hash /\ m.commits \in SUBSET Node
         /\ m.type = "request" => m.from \in Node
         /\ m.type = "chain" => m.chain \in Seq(Hash) /\ m.commits \in Copies
         /\ m.type = "commit" => m.hash \in Hash /\ m.signer \in Node
         /\ m.type = "viewchange" => m.vote \in Vote
BY DEF Message, Kinds

\* What the handlers send are messages.
LEMMA SentMessages ==
  ASSUME NEW n \in Node
  PROVE  /\ \A t \in Tx : TxMsgs(n, t) \subseteq Message
         /\ \A h \in Hash, S \in SUBSET Node : BlockMsgs(n, h, S) \subseteq Message
         /\ \A h \in Hash, s \in Node : CommitMsgs(n, h, s) \subseteq Message
         /\ \A v \in Vote : VoteMsgs(n, v) \subseteq Message
<1>1. Peers[n] \subseteq Node
  OBVIOUS
<1>2. ASSUME NEW t \in Tx PROVE TxMsgs(n, t) \subseteq Message
  BY <1>1 DEF TxMsgs, Message
<1>3. ASSUME NEW h \in Hash, NEW S \in SUBSET Node PROVE BlockMsgs(n, h, S) \subseteq Message
  BY <1>1 DEF BlockMsgs, Message
<1>4. ASSUME NEW h \in Hash, NEW s \in Node PROVE CommitMsgs(n, h, s) \subseteq Message
  BY <1>1 DEF CommitMsgs, Message
<1>5. ASSUME NEW v \in Vote PROVE VoteMsgs(n, v) \subseteq Message
  BY <1>1 DEF VoteMsgs, Message
<1> QED BY <1>2, <1>3, <1>4, <1>5

LEMMA InitType == Init => TypeOK
<1> SUFFICES ASSUME Init PROVE TypeOK
  OBVIOUS
<1>1. DOMAIN made = {} /\ made \in [DOMAIN made -> Block]
  BY DEF Init
<1>2. \A n \in Node : KnownChain(chain[n])
  BY DEF Init, KnownChain
<1>3. commits \in [Node -> Copies]
  BY DEF Init, Copies
<1>4. chain \in [Node -> Seq(Hash)]
  BY DEF Init
<1>5. /\ mempool \in [Node -> SUBSET Tx] /\ votes \in [Node -> SUBSET Vote]
      /\ advanced \in [Node -> SUBSET Nat] /\ announced \in [Node -> SUBSET Hash]
      /\ net = {}
  BY DEF Init
<1> QED BY <1>1, <1>2, <1>3, <1>4, <1>5 DEF TypeOK

\* A step that only adds blocks keeps what is in flight well typed, as long as
\* the messages it adds are.
LEMMA NetType ==
  ASSUME TypeOK, DOMAIN made \subseteq DOMAIN made',
         NEW N, N \subseteq Message, \A m \in N : KnownContent(m)',
         net' \subseteq net \cup N
  PROVE  net' \subseteq Message /\ \A m \in net' : KnownContent(m)'
<1>1. \A m \in net : KnownContent(m) => KnownContent(m)'
  BY DEF KnownContent, KnownChain
<1>2. net \subseteq Message /\ \A m \in net : KnownContent(m)
  BY DEF TypeOK
<1> QED BY <1>1, <1>2

\* The network an action leaves behind once it has handled m.
LEMMA WithoutShrinks == \A m : Without(m) \subseteq net
BY DEF Without

\* Only blocks and chains have content that must be known.
LEMMA PlainMessages ==
  ASSUME NEW n \in Node
  PROVE  /\ \A t : \A m \in TxMsgs(n, t) : KnownContent(m)'
         /\ \A h, s : \A m \in CommitMsgs(n, h, s) : KnownContent(m)'
         /\ \A v : \A m \in VoteMsgs(n, v) : KnownContent(m)'
         /\ \A h \in DOMAIN made' : \A S : \A m \in BlockMsgs(n, h, S) : KnownContent(m)'
<1>1. ASSUME NEW t, NEW m \in TxMsgs(n, t) PROVE KnownContent(m)'
  BY DEF TxMsgs, KnownContent
<1>2. ASSUME NEW h, NEW s, NEW m \in CommitMsgs(n, h, s) PROVE KnownContent(m)'
  BY DEF CommitMsgs, KnownContent
<1>3. ASSUME NEW v, NEW m \in VoteMsgs(n, v) PROVE KnownContent(m)'
  BY DEF VoteMsgs, KnownContent
<1>4. ASSUME NEW h \in DOMAIN made', NEW S, NEW m \in BlockMsgs(n, h, S) PROVE KnownContent(m)'
  BY DEF BlockMsgs, KnownContent
<1> QED BY <1>1, <1>2, <1>3, <1>4

\* What TypeOK says of the variables that Produce changes.
ProducedType ==
  /\ DOMAIN made \subseteq Hash /\ made \in [DOMAIN made -> Block]
  /\ chain \in [Node -> Seq(Hash)]
  /\ commits \in [Node -> Copies]
  /\ mempool \in [Node -> SUBSET Tx]
  /\ announced \in [Node -> SUBSET Hash]
  /\ net \subseteq Message
  /\ \A n \in Node : KnownChain(chain[n])
  /\ \A m \in net : KnownContent(m)

LEMMA OwnCommitIsOwn == \A n, S : OwnCommit(n, S) \subseteq {n}
BY DEF OwnCommit

LEMMA AnnounceType ==
  ASSUME TypeOK, NEW n \in Node, NEW store, NEW c, NEW k, c[Len(c)] \in Hash,
         Announce(n, store, c, k)
  PROVE  announced' \in [Node -> SUBSET Hash]
<1> DEFINE new == IF is_final(store, c, k, Len(c)) THEN announced[n] \cup {c[Len(c)]}
                                                   ELSE announced[n]
<1>1. announced' = [announced EXCEPT ![n] = new]
  BY DEF Announce
<1>2. announced \in [Node -> SUBSET Hash]
  BY DEF TypeOK
<1>3. new \in SUBSET Hash
  BY <1>2
<1> HIDE DEF new
<1> QED BY <1>1, <1>2, <1>3

LEMMA ProduceType ==
  ASSUME TypeOK, NEW n \in Node, NEW view \in Nat, NEW justification \in SUBSET Node,
         NEW N, N \subseteq Message, \A m \in N : m.type = "viewchange",
         NEW sent, sent \subseteq net \cup N,
         Produce(n, view, justification, sent)
  PROVE  ProducedType'
<1> DEFINE b == [producer |-> n, previous |-> chain[n], txs |-> mempool[n],
                 view |-> view, justification |-> justification]
           own == OwnCommit(n, {})
<1>1. PICK h \in Draw(Hash \ DOMAIN made) :
        /\ made' = [x \in DOMAIN made \cup {h} |-> IF x = h THEN b ELSE made[x]]
        /\ chain' = [chain EXCEPT ![n] = Append(chain[n], h)]
        /\ commits' = [commits EXCEPT ![n] = [commits[n] EXCEPT ![h] = own]]
        /\ mempool' = [mempool EXCEPT ![n] = {}]
        /\ \/ UNCHANGED announced
           \/ Announce(n, made', Append(chain[n], h), [commits[n] EXCEPT ![h] = own])
        /\ net' = sent \cup BlockMsgs(n, h, own) \cup UNION {CommitMsgs(n, h, s) : s \in own}
  BY DEF Produce
<1>2. h \in Hash /\ h \notin DOMAIN made
  <2>1. Hash \ DOMAIN made \in SUBSET Hash
    OBVIOUS
  <2> QED BY <2>1, <1>1, BoundAssumption
<1>3. own \in SUBSET Node
  BY OwnCommitIsOwn
<1>4. DOMAIN made' = DOMAIN made \cup {h}
  BY <1>1
<1>5. DOMAIN made' \subseteq Hash /\ made' \in [DOMAIN made' -> Block]
  <2>1. b \in Block
    BY DEF TypeOK, Block
  <2> HIDE DEF b
  <2> QED BY <2>1, <1>1, <1>2, <1>4 DEF TypeOK
<1>6. chain' \in [Node -> Seq(Hash)]
  BY <1>1, <1>2 DEF TypeOK
<1>7. commits' \in [Node -> Copies]
  BY <1>1, <1>2, <1>3 DEF TypeOK, Copies
<1>8. mempool' \in [Node -> SUBSET Tx]
  BY <1>1 DEF TypeOK
<1>9. announced' \in [Node -> SUBSET Hash]
  <2>1. Append(chain[n], h)[Len(Append(chain[n], h))] = h
    BY <1>2 DEF TypeOK
  <2>2. CASE UNCHANGED announced
    BY <2>2 DEF TypeOK
  <2>3. CASE Announce(n, made', Append(chain[n], h), [commits[n] EXCEPT ![h] = own])
    BY <1>2, <2>1, <2>3, AnnounceType
  <2> QED BY <1>1, <2>2, <2>3
<1>10. \A p \in Node : KnownChain(chain[p])'
  <2> SUFFICES ASSUME NEW p \in Node PROVE KnownChain(chain[p])'
    OBVIOUS
  <2>1. chain[p] \in Seq(Hash) /\ \A i \in 1 .. Len(chain[p]) : chain[p][i] \in DOMAIN made
    BY DEF TypeOK, KnownChain
  <2>2. chain'[p] = IF p = n THEN Append(chain[p], h) ELSE chain[p]
    BY <1>1 DEF TypeOK
  <2>3. \A i \in 1 .. Len(chain'[p]) : chain'[p][i] \in DOMAIN made'
    BY <2>1, <2>2, <1>2, <1>4
  <2> QED BY <2>3, <1>6 DEF KnownChain
<1>11. net' \subseteq Message /\ \A m \in net' : KnownContent(m)'
  <2> DEFINE A == N \cup BlockMsgs(n, h, own) \cup UNION {CommitMsgs(n, h, s) : s \in own}
  <2>1. A \subseteq Message
    BY <1>2, <1>3, SentMessages
  <2>2. \A m \in N : KnownContent(m)'
    BY DEF KnownContent
  <2>3. \A m \in A : KnownContent(m)'
    BY <1>2, <1>4, <2>2, PlainMessages
  <2>4. net' \subseteq net \cup A
    BY <1>1
  <2> HIDE DEF A
  <2> QED BY <1>4, <2>1, <2>3, <2>4, NetType
<1> QED BY <1>5, <1>6, <1>7, <1>8, <1>9, <1>10, <1>11 DEF ProducedType

\* Handlers that leave the chains alone and only send or receive.
LEMMA QuietType ==
  ASSUME TypeOK, UNCHANGED <<made, chain>>,
         NEW N, N \subseteq Message, \A m \in N : KnownContent(m)', net' \subseteq net \cup N,
         commits' \in [Node -> Copies],
         mempool' \in [Node -> SUBSET Tx],
         announced' \in [Node -> SUBSET Hash],
         UNCHANGED <<votes, advanced>>
  PROVE  TypeOK'
<1>1. net' \subseteq Message /\ \A m \in net' : KnownContent(m)'
  BY NetType
<1>2. \A n \in Node : KnownChain(chain[n])'
  BY DEF TypeOK, KnownChain
<1> QED BY <1>1, <1>2 DEF TypeOK

\* A vote that is recorded, with or without a proposal.
LEMMA RecordVoteType ==
  ASSUME TypeOK, NEW n \in Node, NEW v \in Vote, NEW rest, rest \subseteq net,
         RecordVote(n, v, rest)
  PROVE  TypeOK'
<1> DEFINE S == votes[n] \cup {v}
           sent == rest \cup VoteMsgs(n, v)
<1>1. votes' \in [Node -> SUBSET Vote]
  BY DEF TypeOK, RecordVote
<1>2. v.view \in Nat /\ v.height \in Nat
  BY DEF Vote
<1>3. VoteMsgs(n, v) \subseteq Message /\ \A m \in VoteMsgs(n, v) : m.type = "viewchange"
  BY SentMessages DEF VoteMsgs
<1>4. CASE /\ advanced' = [advanced EXCEPT ![n] = @ \cup {v.height}]
           /\ Produce(n, v.view, {x.signer : x \in VotesFor(S, v.height, v.view)}, sent)
  <2>1. {x.signer : x \in VotesFor(S, v.height, v.view)} \in SUBSET Node
    BY DEF VotesFor, TypeOK, Vote
  <2>2. ProducedType'
    <3> DEFINE J == {x.signer : x \in VotesFor(S, v.height, v.view)}
    <3>1. sent \subseteq net \cup VoteMsgs(n, v)
      OBVIOUS
    <3> HIDE DEF J, sent, S
    <3>2. J \in SUBSET Node /\ Produce(n, v.view, J, sent)
      BY <1>4, <2>1 DEF J, sent, S
    <3> QED BY <1>2, <1>3, <3>1, <3>2, ProduceType
  <2>3. advanced' \in [Node -> SUBSET Nat]
    BY <1>2, <1>4 DEF TypeOK
  <2> QED BY <1>1, <2>2, <2>3 DEF ProducedType, TypeOK
<1>5. CASE net' = sent /\ UNCHANGED <<made, chain, commits, mempool, advanced, announced>>
  <2>1. net' \subseteq Message /\ \A m \in net' : KnownContent(m)'
    <3>1. \A m \in VoteMsgs(n, v) : KnownContent(m)'
      BY PlainMessages
    <3> QED BY <1>3, <1>5, <3>1, NetType
  <2>2. \A p \in Node : KnownChain(chain[p])'
    BY <1>5 DEF TypeOK, KnownChain
  <2> QED BY <1>1, <1>5, <2>1, <2>2 DEF TypeOK
<1> QED BY <1>4, <1>5 DEF RecordVote

\* A node has recorded finitely many votes, so the views they name are bounded.
BoundedVotes == \A n \in Node : \E b \in Nat : \A v \in votes[n] : v.view <= b

\* The next view to vote for is above 0.
LEMMA NextViewType ==
  ASSUME TypeOK, BoundedVotes, NEW n \in Node, NEW height
  PROVE  NextView(n, height) \in Nat \ {0}
<1> DEFINE W == {0} \cup {v.view : v \in {x \in votes[n] : x.height = height}}
<1>1. \A v \in votes[n] : v.view \in Nat
  BY DEF TypeOK, Vote
<1>2. PICK b \in Nat : \A v \in votes[n] : v.view <= b
  BY DEF BoundedVotes
<1>3. W \subseteq 0 .. b /\ W \subseteq Nat /\ W # {}
  BY <1>1, <1>2
<1>4. NextView(n, height) = Max(W) + 1
  BY DEF NextView
<1> HIDE DEF W
<1>5. Max(W) \in W
  BY <1>3, MaxOfBounded
<1>6. Max(W) \in Nat
  BY <1>3, <1>5
<1> QED BY <1>4, <1>6

LEMMA RecordVoteBound ==
  ASSUME TypeOK, BoundedVotes, NEW n \in Node, NEW v \in Vote, NEW rest,
         RecordVote(n, v, rest)
  PROVE  BoundedVotes'
<1>1. votes' = [votes EXCEPT ![n] = votes[n] \cup {v}]
  BY DEF RecordVote
<1>2. SUFFICES ASSUME NEW p \in Node
               PROVE  \E b \in Nat : \A x \in votes'[p] : x.view <= b
  BY DEF BoundedVotes
<1>3. PICK b \in Nat : \A x \in votes[p] : x.view <= b
  BY DEF BoundedVotes
<1>4. v.view \in Nat /\ \A x \in votes[p] : x.view \in Nat
  BY DEF TypeOK, Vote
<1>5. votes'[p] = votes[p] \/ votes'[p] = votes[p] \cup {v}
  BY <1>1 DEF TypeOK
<1>6. b + v.view \in Nat /\ \A x \in votes'[p] : x.view <= b + v.view
  BY <1>3, <1>4, <1>5
<1> QED BY <1>6

TypeInv == TypeOK /\ BoundedVotes

LEMMA InitTypeInv == Init => TypeInv
<1>1. Init => BoundedVotes
  BY DEF Init, BoundedVotes
<1> QED BY <1>1, InitType DEF TypeInv

LEMMA QuietTypeInv ==
  ASSUME TypeInv, UNCHANGED <<made, chain>>,
         NEW N, N \subseteq Message, \A m \in N : KnownContent(m)', net' \subseteq net \cup N,
         commits' \in [Node -> Copies],
         mempool' \in [Node -> SUBSET Tx],
         announced' \in [Node -> SUBSET Hash],
         UNCHANGED <<votes, advanced>>
  PROVE  TypeInv'
<1>1. TypeOK'
  BY QuietType DEF TypeInv
<1>2. BoundedVotes'
  BY DEF TypeInv, BoundedVotes
<1> QED BY <1>1, <1>2 DEF TypeInv

\* A node's own steps.
LEMMA LocalType ==
  ASSUME TypeInv, NEW n \in Node,
         \/ \E t \in Tx : SubmitLocal(n, t) \/ PoolProtocolTx(n, t)
         \/ MineBlock(n) \/ Readvertise(n) \/ RequestViewChange(n)
  PROVE  TypeInv'
<1> USE DEF TypeInv
<1>0. /\ commits \in [Node -> Copies] /\ mempool \in [Node -> SUBSET Tx]
      /\ announced \in [Node -> SUBSET Hash]
  BY DEF TypeOK
<1>1. ASSUME NEW t \in Tx, SubmitLocal(n, t) PROVE TypeInv'
  <2>1. TxMsgs(n, t) \subseteq Message /\ \A m \in TxMsgs(n, t) : KnownContent(m)'
    BY SentMessages, PlainMessages
  <2>2. mempool' \in [Node -> SUBSET Tx]
    BY <1>0, <1>1 DEF SubmitLocal
  <2>3. net' = net \cup TxMsgs(n, t)
    BY <1>1 DEF SubmitLocal
  <2>4. UNCHANGED <<made, chain, commits, votes, advanced, announced>>
    BY <1>1 DEF SubmitLocal
  <2> QED BY <1>0, <2>1, <2>2, <2>3, <2>4, QuietTypeInv
<1>2. ASSUME NEW t \in Tx, PoolProtocolTx(n, t) PROVE TypeInv'
  <2>1. mempool' \in [Node -> SUBSET Tx]
    BY <1>0, <1>2 DEF PoolProtocolTx
  <2> DEFINE N == {}
  <2>2. UNCHANGED <<made, chain, commits, votes, advanced, announced>> /\ net' \subseteq net \cup N
    BY <1>2 DEF PoolProtocolTx
  <2>3. N \subseteq Message /\ \A m \in N : KnownContent(m)'
    OBVIOUS
  <2> HIDE DEF N
  <2> QED BY <1>0, <2>1, <2>2, <2>3, QuietTypeInv
<1>3. CASE MineBlock(n)
  <2>1. Produce(n, 0, {}, net) /\ UNCHANGED <<votes, advanced>>
    BY <1>3 DEF MineBlock
  <2> DEFINE N == {}
  <2>2. /\ net \subseteq net \cup N /\ N \subseteq Message /\ N \in SUBSET Node
        /\ \A m \in N : m.type = "viewchange"
    OBVIOUS
  <2>3. ProducedType'
    <3> HIDE DEF N
    <3>1. Produce(n, 0, N, net)
      BY <2>1 DEF N
    <3> QED BY <2>2, <3>1, ProduceType
  <2>4. BoundedVotes'
    BY <2>1 DEF BoundedVotes
  <2> QED BY <2>1, <2>3, <2>4 DEF ProducedType, TypeOK
<1>4. CASE Readvertise(n)
  <2> DEFINE tip == chain[n][Len(chain[n])]
             N == BlockMsgs(n, tip, commits[n][tip])
  <2>1. net' = net \cup N /\ chain[n] # <<>>
    BY <1>4 DEF Readvertise
  <2>2. UNCHANGED <<made, chain, commits, mempool, votes, advanced, announced>>
    BY <1>4 DEF Readvertise
  <2>3. tip \in DOMAIN made /\ tip \in Hash
    <3>1. chain[n] \in Seq(Hash) /\ \A i \in 1 .. Len(chain[n]) : chain[n][i] \in DOMAIN made
      BY DEF TypeOK, KnownChain
    <3>2. Len(chain[n]) \in 1 .. Len(chain[n])
      BY <2>1, <3>1
    <3> QED BY <3>1, <3>2
  <2>4. commits[n][tip] \in SUBSET Node
    BY <1>0, <2>3 DEF Copies
  <2>5. N \subseteq Message /\ \A m \in N : KnownContent(m)'
    <3> HIDE DEF tip
    <3> QED BY <2>2, <2>3, <2>4, SentMessages, PlainMessages
  <2> HIDE DEF N
  <2> QED BY <1>0, <2>1, <2>2, <2>5, QuietTypeInv
<1>5. CASE RequestViewChange(n)
  <2> DEFINE v == [height |-> NextIndex(n), view |-> NextView(n, NextIndex(n)), signer |-> n]
  <2>1. RecordVote(n, v, net)
    BY <1>5 DEF RequestViewChange
  <2>2. v \in Vote
    <3>1. NextIndex(n) \in Nat \ {0}
      BY DEF TypeOK, NextIndex
    <3> QED BY <3>1, NextViewType DEF Vote
  <2> HIDE DEF v
  <2> QED BY <2>1, <2>2, RecordVoteType, RecordVoteBound
<1> QED BY <1>1, <1>2, <1>3, <1>4, <1>5

\* Appending a received block, with or without a commit of our own.
LEMMA AppendType ==
  ASSUME TypeOK, NEW m \in net, AppendBlock(m)
  PROVE  TypeOK'
<1> DEFINE n == m.to
           own == OwnCommit(n, m.commits)
           c == Append(chain[n], m.hash)
           k == [commits[n] EXCEPT ![m.hash] = m.commits \cup own]
<1>1. m \in Message /\ m.type = "block" /\ KnownContent(m)
  BY DEF TypeOK, AppendBlock
<1>2. n \in Node /\ m.hash \in Hash /\ m.commits \in SUBSET Node /\ m.hash \in DOMAIN made
  BY <1>1, MessageContents DEF KnownContent
<1>3. own \in SUBSET Node
  BY <1>2, OwnCommitIsOwn
<1>4. chain[n] \in Seq(Hash) /\ commits[n] \in Copies
  BY <1>2 DEF TypeOK
<1>5. /\ chain' = [chain EXCEPT ![n] = c]
      /\ commits' = [commits EXCEPT ![n] = k]
      /\ mempool' = [mempool EXCEPT ![n] = @ \ made[m.hash].txs]
      /\ advanced' = [advanced EXCEPT ![n] =
                        IF made[m.hash].view > 0 THEN @ \cup {Len(c)} ELSE @]
      /\ Announce(n, made, c, k)
      /\ net' = Without(m) \cup UNION {CommitMsgs(n, m.hash, s) : s \in own}
      /\ UNCHANGED <<made, votes>>
  BY DEF AppendBlock
<1>6. c \in Seq(Hash) /\ Len(c) \in Nat /\ c[Len(c)] = m.hash
      /\ \A i \in 1 .. Len(c) : c[i] = m.hash \/ (i \in 1 .. Len(chain[n]) /\ c[i] = chain[n][i])
  BY <1>2, <1>4
<1>7. k \in Copies
  BY <1>2, <1>3, <1>4 DEF Copies
<1> HIDE DEF c, k, own
<1>8. chain' \in [Node -> Seq(Hash)] /\ commits' \in [Node -> Copies]
  BY <1>5, <1>6, <1>7 DEF TypeOK
<1>9. mempool' \in [Node -> SUBSET Tx]
  BY <1>5 DEF TypeOK
<1>10. advanced' \in [Node -> SUBSET Nat]
  BY <1>5, <1>6 DEF TypeOK
<1>11. announced' \in [Node -> SUBSET Hash]
  BY <1>2, <1>5, <1>6, AnnounceType
<1>12. \A p \in Node : KnownChain(chain[p])'
  <2> SUFFICES ASSUME NEW p \in Node PROVE KnownChain(chain[p])'
    OBVIOUS
  <2>1. \A q \in Node : \A i \in 1 .. Len(chain[q]) : chain[q][i] \in DOMAIN made
    BY DEF TypeOK, KnownChain
  <2>2. chain'[p] = IF p = n THEN c ELSE chain[p]
    BY <1>5 DEF TypeOK
  <2>3. \A i \in 1 .. Len(chain'[p]) : chain'[p][i] \in DOMAIN made
    BY <1>2, <1>6, <2>1, <2>2
  <2> QED BY <1>5, <1>8, <2>3 DEF KnownChain
<1>13. net' \subseteq Message /\ \A x \in net' : KnownContent(x)'
  <2> DEFINE A == UNION {CommitMsgs(n, m.hash, s) : s \in own}
  <2>1. A \subseteq Message /\ \A x \in A : KnownContent(x)'
    BY <1>2, <1>3, SentMessages, PlainMessages
  <2>2. net' \subseteq net \cup A
    BY <1>5, WithoutShrinks
  <2>3. DOMAIN made \subseteq DOMAIN made'
    BY <1>5
  <2> HIDE DEF A
  <2> QED BY <2>1, <2>2, <2>3, NetType
<1> QED BY <1>5, <1>8, <1>9, <1>10, <1>11, <1>12, <1>13 DEF TypeOK

\* Adopting a chain that was sent to us.
LEMMA AdoptType ==
  ASSUME TypeOK, NEW m \in net, AdoptChain(m)
  PROVE  TypeOK'
<1>1. m \in Message /\ m.type = "chain" /\ KnownContent(m)
  BY DEF TypeOK, AdoptChain
<1>2. m.to \in Node /\ m.chain \in Seq(Hash) /\ m.commits \in Copies /\ KnownChain(m.chain)
  BY <1>1, MessageContents DEF KnownContent
<1>3. /\ chain' = [chain EXCEPT ![m.to] = m.chain]
      /\ commits' = [commits EXCEPT ![m.to] = m.commits]
      /\ mempool' = [mempool EXCEPT ![m.to] =
                       @ \ UNION {made[m.chain[i]].txs : i \in 1 .. Len(m.chain)}]
      /\ net' = Without(m)
      /\ UNCHANGED <<made, votes, advanced, announced>>
  BY DEF AdoptChain
<1>4. chain' \in [Node -> Seq(Hash)] /\ commits' \in [Node -> Copies]
  BY <1>2, <1>3 DEF TypeOK
<1>5. mempool' \in [Node -> SUBSET Tx]
  BY <1>3 DEF TypeOK
<1>6. \A p \in Node : KnownChain(chain[p])'
  <2> SUFFICES ASSUME NEW p \in Node PROVE KnownChain(chain[p])'
    OBVIOUS
  <2>1. chain'[p] = m.chain \/ chain'[p] = chain[p]
    BY <1>3 DEF TypeOK
  <2>2. KnownChain(chain[p])
    BY DEF TypeOK
  <2> QED BY <1>2, <1>3, <2>1, <2>2 DEF KnownChain
<1>7. net' \subseteq Message /\ \A x \in net' : KnownContent(x)'
  <2> DEFINE A == {}
  <2>1. A \subseteq Message /\ \A x \in A : KnownContent(x)'
    OBVIOUS
  <2>2. net' \subseteq net \cup A /\ DOMAIN made \subseteq DOMAIN made'
    BY <1>3, WithoutShrinks
  <2> HIDE DEF A
  <2> QED BY <2>1, <2>2, NetType
<1> QED BY <1>3, <1>4, <1>5, <1>6, <1>7 DEF TypeOK

\* The handlers that change neither the chain nor the votes.
LEMMA QuietHandlers ==
  ASSUME TypeInv, NEW m \in net,
         \/ OnTransaction(m) \/ DivergingBlock(m) \/ OnChainRequest(m) \/ RefuseChain(m)
         \/ OnCommit(m) \/ DropCommit(m) \/ DropViewChange(m) \/ Lose(m)
  PROVE  TypeInv'
<1>0. /\ commits \in [Node -> Copies] /\ mempool \in [Node -> SUBSET Tx]
      /\ announced \in [Node -> SUBSET Hash] /\ chain \in [Node -> Seq(Hash)]
      /\ m \in Message
  BY DEF TypeInv, TypeOK
<1>1. CASE OnTransaction(m)
  <2> DEFINE N == {}
  <2>1. N \subseteq Message /\ \A x \in N : KnownContent(x)'
    OBVIOUS
  <2>2. net' \subseteq net \cup N /\ UNCHANGED <<made, chain, commits, votes, advanced, announced>>
    BY <1>1, WithoutShrinks DEF OnTransaction
  <2>3. m.to \in Node /\ m.tx \in Tx
    BY <1>0, <1>1, MessageContents DEF OnTransaction
  <2>4. mempool' \in [Node -> SUBSET Tx]
    BY <1>0, <1>1, <2>3 DEF OnTransaction
  <2> HIDE DEF N
  <2> QED BY <1>0, <2>1, <2>2, <2>4, QuietTypeInv
<1>2. CASE DivergingBlock(m)
  <2> DEFINE N == {[type |-> "request", from |-> m.to, to |-> m.from]}
  <2>1. m.to \in Node /\ m.from \in Node
    BY <1>0, <1>2, MessageContents DEF DivergingBlock
  <2>2. N \subseteq Message
    BY <2>1 DEF Message
  <2>3. \A x \in N : KnownContent(x)'
    BY DEF KnownContent
  <2>4. net' \subseteq net \cup N
        /\ UNCHANGED <<made, chain, commits, mempool, votes, advanced, announced>>
    BY <1>2, WithoutShrinks DEF DivergingBlock
  <2> HIDE DEF N
  <2> QED BY <1>0, <2>2, <2>3, <2>4, QuietTypeInv
<1>3. CASE OnChainRequest(m)
  <2> DEFINE N == {ChainMsg(m.to, m.from)}
  <2>1. m.to \in Node /\ m.from \in Node
    BY <1>0, <1>3, MessageContents DEF OnChainRequest
  <2>2. chain[m.to] \in Seq(Hash) /\ commits[m.to] \in Copies /\ KnownChain(chain[m.to])
    BY <2>1 DEF TypeInv, TypeOK
  <2>3. N \subseteq Message
    BY <2>1, <2>2 DEF Message, ChainMsg
  <2>4. net' \subseteq net \cup N
        /\ UNCHANGED <<made, chain, commits, mempool, votes, advanced, announced>>
    BY <1>3, WithoutShrinks DEF OnChainRequest
  <2>5. \A x \in N : KnownContent(x)'
    BY <2>2, <2>4 DEF KnownContent, ChainMsg, KnownChain
  <2> HIDE DEF N
  <2> QED BY <1>0, <2>3, <2>4, <2>5, QuietTypeInv
<1>4. CASE RefuseChain(m) \/ DropCommit(m) \/ DropViewChange(m) \/ Lose(m)
  <2> DEFINE N == {}
  <2>1. N \subseteq Message /\ \A x \in N : KnownContent(x)'
    OBVIOUS
  <2>2. net' \subseteq net \cup N
        /\ UNCHANGED <<made, chain, commits, mempool, votes, advanced, announced>>
    BY <1>4, WithoutShrinks DEF RefuseChain, DropCommit, DropViewChange, Lose
  <2> HIDE DEF N
  <2> QED BY <1>0, <2>1, <2>2, QuietTypeInv
<1>5. CASE OnCommit(m)
  <2> DEFINE N == CommitMsgs(m.to, m.hash, m.signer)
  <2>1. m.to \in Node /\ m.hash \in Hash /\ m.signer \in Node
    BY <1>0, <1>5, MessageContents DEF OnCommit
  <2>2. N \subseteq Message /\ \A x \in N : KnownContent(x)'
    BY <2>1, SentMessages, PlainMessages
  <2>3. net' \subseteq net \cup N /\ UNCHANGED <<made, chain, mempool, votes, advanced>>
    BY <1>5, WithoutShrinks DEF OnCommit
  <2>4. commits' \in [Node -> Copies]
    BY <1>0, <1>5, <2>1 DEF OnCommit, Copies
  <2>5. announced' \in [Node -> SUBSET Hash]
    BY <1>0, <1>5, <2>1 DEF OnCommit
  <2> HIDE DEF N
  <2> QED BY <1>0, <2>2, <2>3, <2>4, <2>5, QuietTypeInv
<1> QED BY <1>1, <1>2, <1>3, <1>4, <1>5

\* Every step of a node or of the network keeps the types.
LEMMA NextTypeInv == TypeInv /\ [Next]_vars => TypeInv'
<1> SUFFICES ASSUME TypeInv, [Next]_vars PROVE TypeInv'
  OBVIOUS
<1>1. CASE UNCHANGED vars
  BY <1>1 DEF vars, TypeInv, TypeOK, BoundedVotes, KnownChain, KnownContent
<1>2. ASSUME NEW n \in Node,
             \/ \E t \in Tx : SubmitLocal(n, t) \/ PoolProtocolTx(n, t)
             \/ MineBlock(n) \/ Readvertise(n) \/ RequestViewChange(n)
      PROVE  TypeInv'
  BY <1>2, LocalType
<1>3. ASSUME NEW m \in net, Receive(m) \/ Lose(m)
      PROVE  TypeInv'
  <2>1. CASE AppendBlock(m)
    BY <2>1, AppendType DEF TypeInv, BoundedVotes, AppendBlock
  <2>2. CASE AdoptChain(m)
    BY <2>2, AdoptType DEF TypeInv, BoundedVotes, AdoptChain
  <2>3. CASE OnViewChange(m)
    <3>1. m \in Message /\ m.type = "viewchange"
      BY <2>3 DEF TypeInv, TypeOK, OnViewChange
    <3>2. m.to \in Node /\ m.vote \in Vote
      BY <3>1, MessageContents
    <3>3. RecordVote(m.to, m.vote, Without(m)) /\ Without(m) \subseteq net
      BY <2>3, WithoutShrinks DEF OnViewChange
    <3> QED BY <3>2, <3>3, RecordVoteType, RecordVoteBound DEF TypeInv
  <2> QED BY <1>3, <2>1, <2>2, <2>3, QuietHandlers DEF Receive
<1> QED BY <1>1, <1>2, <1>3 DEF Next

\* In every reachable state the chains and the messages in flight name blocks that
\* were produced and every variable has its type.
THEOREM TypeCorrect == Spec => []TypeOK
<1>1. TypeInv => TypeOK
  BY DEF TypeInv
<1> QED BY <1>1, InitTypeInv, NextTypeInv, PTL DEF Spec

-----------------------------------------------------------------------------
(***************************************************************************)
(* Irrevocable finality. Fork choice compares a candidate with our own      *)
(* chain block by block, so the argument needs that a block names the whole *)
(* chain below it (LinkInv): then a candidate that holds our last finalized *)
(* block holds everything below it too. Commits only accumulate on the      *)
(* blocks of a chain that merely grows.                                     *)
(***************************************************************************)
LinkInv == \A n \in Node : Linked(made, chain[n])

\* What every step does to the finalized blocks of every node.
FinalityKept ==
  \A n \in Node : KeepsFinality(made, chain[n], commits[n], made', chain'[n], commits'[n])

\* The facts about one node that TypeOK gives.
LEMMA NodeType ==
  ASSUME TypeOK, NEW n \in Node
  PROVE  /\ chain[n] \in Seq(Hash) /\ commits[n] \in Copies
         /\ \A i \in 1 .. Len(chain[n]) :
              /\ chain[n][i] \in DOMAIN made
              /\ made[chain[n][i]] \in Block
              /\ made[chain[n][i]].txs \subseteq Tx
<1>1. chain[n] \in Seq(Hash) /\ commits[n] \in Copies /\ KnownChain(chain[n])
  BY DEF TypeOK
<1>2. \A h \in DOMAIN made : made[h] \in Block /\ made[h].txs \subseteq Tx
  BY DEF TypeOK, Block
<1> QED BY <1>1, <1>2 DEF KnownChain

\* A node whose chain and copies stay as they are, while blocks are added to made.
LEMMA BystanderKeeps ==
  ASSUME TypeOK, NEW n \in Node, Linked(made, chain[n]),
         \A h \in DOMAIN made : made'[h] = made[h],
         chain'[n] = chain[n],
         \A i \in 1 .. Len(chain[n]) : commits[n][chain[n][i]] \subseteq commits'[n][chain[n][i]]
  PROVE  /\ KeepsFinality(made, chain[n], commits[n], made', chain'[n], commits'[n])
         /\ Linked(made', chain'[n])
<1>1. KeepsFinality(made, chain[n], commits[n], made', chain'[n], commits'[n])
  <2>1. chain[n] \in Seq(Hash) /\ chain'[n] \in Seq(Hash) /\ Len(chain[n]) <= Len(chain'[n])
    BY NodeType
  <2>2. \A i \in 1 .. Len(chain[n]) : /\ chain'[n][i] = chain[n][i]
                                    /\ made'[chain[n][i]] = made[chain[n][i]]
                                    /\ made[chain[n][i]].txs \subseteq Tx
                                    /\ commits[n][chain[n][i]] \subseteq commits'[n][chain[n][i]]
    BY NodeType
  <2> QED BY <2>1, <2>2, GrowthKeepsFinality
<1>2. Linked(made', chain'[n])
  BY NodeType DEF Linked
<1> QED BY <1>1, <1>2

\* What Produce does to the chains.
LEMMA ProduceEffect ==
  ASSUME TypeOK, NEW n \in Node, NEW view, NEW justification, NEW sent,
         Produce(n, view, justification, sent)
  PROVE  \E h \in Hash :
           /\ h \notin DOMAIN made
           /\ DOMAIN made' = DOMAIN made \cup {h}
           /\ \A x \in DOMAIN made : made'[x] = made[x]
           /\ made'[h].previous = chain[n]
           /\ made'[h].txs = mempool[n]
           /\ chain' = [chain EXCEPT ![n] = Append(chain[n], h)]
           /\ commits' = [commits EXCEPT ![n] = [commits[n] EXCEPT ![h] = OwnCommit(n, {})]]
           /\ mempool' = [mempool EXCEPT ![n] = {}]
<1> DEFINE b == [producer |-> n, previous |-> chain[n], txs |-> mempool[n],
                 view |-> view, justification |-> justification]
<1>1. PICK h \in Draw(Hash \ DOMAIN made) :
        /\ made' = [x \in DOMAIN made \cup {h} |-> IF x = h THEN b ELSE made[x]]
        /\ chain' = [chain EXCEPT ![n] = Append(chain[n], h)]
        /\ commits' = [commits EXCEPT ![n] = [commits[n] EXCEPT ![h] = OwnCommit(n, {})]]
        /\ mempool' = [mempool EXCEPT ![n] = {}]
  BY DEF Produce
<1>2. h \in Hash /\ h \notin DOMAIN made
  <2>1. Hash \ DOMAIN made \in SUBSET Hash
    OBVIOUS
  <2> QED BY <2>1, <1>1, BoundAssumption
<1>3. b.previous = chain[n] /\ b.txs = mempool[n]
  OBVIOUS
<1> HIDE DEF b
<1>4. DOMAIN made' = DOMAIN made \cup {h} /\ made'[h] = b
  BY <1>1
<1>5. \A x \in DOMAIN made : made'[x] = made[x]
  BY <1>1, <1>2
<1> QED BY <1>1, <1>2, <1>3, <1>4, <1>5

LEMMA ProduceKeeps ==
  ASSUME TypeOK, LinkInv, NEW n \in Node, NEW view, NEW justification, NEW sent,
         Produce(n, view, justification, sent)
  PROVE  FinalityKept /\ LinkInv'
<1>1. PICK h \in Hash :
           /\ h \notin DOMAIN made
           /\ \A x \in DOMAIN made : made'[x] = made[x]
           /\ made'[h].previous = chain[n]
           /\ chain' = [chain EXCEPT ![n] = Append(chain[n], h)]
           /\ commits' = [commits EXCEPT ![n] = [commits[n] EXCEPT ![h] = OwnCommit(n, {})]]
  BY ProduceEffect
<1>2. SUFFICES ASSUME NEW p \in Node
               PROVE  /\ KeepsFinality(made, chain[p], commits[p], made', chain'[p], commits'[p])
                      /\ Linked(made', chain'[p])
  BY DEF FinalityKept, LinkInv
<1>3. Linked(made, chain[p])
  BY DEF LinkInv
<1>4. chain \in [Node -> Seq(Hash)] /\ commits \in [Node -> Copies]
  BY DEF TypeOK
<1>5. CASE p # n
  <2>1. chain'[p] = chain[p] /\ commits'[p] = commits[p]
    BY <1>1, <1>4, <1>5
  <2> QED BY <1>1, <1>3, <2>1, BystanderKeeps
<1>6. CASE p = n
  <2> DEFINE c == chain[n]
             d == Append(c, h)
  <2>1. chain'[p] = d /\ commits'[p] = [commits[n] EXCEPT ![h] = OwnCommit(n, {})]
    BY <1>1, <1>4, <1>6
  <2>2. /\ c \in Seq(Hash) /\ commits[n] \in Copies
        /\ \A i \in 1 .. Len(c) : c[i] \in DOMAIN made /\ made[c[i]].txs \subseteq Tx
    BY NodeType
  <2>3. d \in Seq(Hash) /\ Len(d) = Len(c) + 1 /\ d[Len(c) + 1] = h
        /\ \A i \in 1 .. Len(c) : d[i] = c[i]
    BY <2>2
  <2>4. \A i \in 1 .. Len(c) : commits[n][c[i]] \subseteq commits'[p][c[i]]
    BY <1>1, <2>1, <2>2 DEF Copies
  <2>5. KeepsFinality(made, c, commits[n], made', d, commits'[p])
    <3>1. \A i \in 1 .. Len(c) : /\ d[i] = c[i]
                                /\ made'[c[i]] = made[c[i]]
                                /\ made[c[i]].txs \subseteq Tx
                                /\ commits[n][c[i]] \subseteq commits'[p][c[i]]
      BY <1>1, <2>2, <2>3, <2>4
    <3>2. Len(c) <= Len(d)
      BY <2>2, <2>3
    <3> HIDE DEF c, d
    <3> QED BY <2>2, <2>3, <3>1, <3>2, GrowthKeepsFinality
  <2>6. Linked(made', d)
    <3> SUFFICES ASSUME NEW i \in 1 .. Len(d) PROVE made'[d[i]].previous = SubSeq(d, 1, i - 1)
      BY DEF Linked
    <3>1. SubSeq(d, 1, i - 1) = SubSeq(c, 1, i - 1)
      <4>1. i - 1 \in Nat /\ i - 1 <= Len(c) /\ i - 1 <= Len(d)
        BY <2>2, <2>3
      <4> HIDE DEF c, d
      <4> QED BY <2>2, <2>3, <4>1, SameHistory
    <3>2. CASE i = Len(c) + 1
      <4>1. SubSeq(c, 1, i - 1) = c
        BY <2>2, <3>2
      <4> QED BY <1>1, <2>3, <3>1, <3>2, <4>1
    <3>3. CASE i \in 1 .. Len(c)
      <4>1. made[c[i]].previous = SubSeq(c, 1, i - 1)
        BY <1>3, <1>6, <3>3, Zenon DEF Linked
      <4> QED BY <1>1, <2>2, <2>3, <3>1, <3>3, <4>1
    <3> QED BY <2>2, <2>3, <3>2, <3>3
  <2> QED BY <1>6, <2>1, <2>5, <2>6
<1> QED BY <1>5, <1>6

\* A valid chain is linked, and a block that extends a linked chain is not on it.
LEMMA ExtendsLinked ==
  ASSUME TypeOK, NEW n \in Node, Linked(made, chain[n]), NEW h \in Hash, NEW S,
         Extends(n, h, S)
  PROVE  /\ Linked(made, Append(chain[n], h))
         /\ \A i \in 1 .. Len(chain[n]) : chain[n][i] # h
         /\ made[h].previous = chain[n]
<1> DEFINE c == chain[n]
           d == Append(c, h)
<1>1. Linked(made, d)
  BY DEF Extends, is_valid_chain, ValidBlock, Linked
<1>2. c \in Seq(Hash) /\ Len(c) \in Nat /\ d \in Seq(Hash) /\ Len(d) = Len(c) + 1
      /\ d[Len(c) + 1] = h /\ \A i \in 1 .. Len(c) : d[i] = c[i]
  BY NodeType
<1>3. made[h].previous = c
  <2>1. Len(c) + 1 \in 1 .. Len(d) /\ (Len(c) + 1) - 1 = Len(c)
    BY <1>2
  <2>2. made[d[Len(c) + 1]].previous = SubSeq(d, 1, (Len(c) + 1) - 1)
    <3> HIDE DEF d, c
    <3> QED BY <1>1, <2>1, Zenon DEF Linked
  <2>3. SubSeq(d, 1, Len(c)) = SubSeq(c, 1, Len(c))
    <3>1. Len(c) <= Len(c) /\ Len(c) <= Len(d)
      BY <1>2
    <3> HIDE DEF d, c
    <3> QED BY <1>2, <3>1, SameHistory
  <2>4. SubSeq(c, 1, Len(c)) = c
    BY <1>2
  <2> HIDE DEF d, c
  <2> QED BY <1>2, <2>1, <2>2, <2>3, <2>4
<1>4. ASSUME NEW i \in 1 .. Len(c), c[i] = h PROVE FALSE
  <2>1. made[c[i]].previous = SubSeq(c, 1, i - 1)
    BY Zenon DEF Linked
  <2>2. Len(SubSeq(c, 1, i - 1)) = i - 1
    BY <1>2
  <2> QED BY <1>2, <1>3, <1>4, <2>1, <2>2
<1> QED BY <1>1, <1>3, <1>4

LEMMA AppendKeeps ==
  ASSUME TypeOK, LinkInv, NEW m \in net, AppendBlock(m)
  PROVE  FinalityKept /\ LinkInv'
<1> DEFINE n == m.to
           c == chain[n]
           d == Append(c, m.hash)
           k == [commits[n] EXCEPT ![m.hash] = m.commits \cup OwnCommit(n, m.commits)]
<1>1. m \in Message /\ m.type = "block"
  BY DEF TypeOK, AppendBlock
<1>2. n \in Node /\ m.hash \in Hash
  BY <1>1, MessageContents
<1>3. /\ Extends(n, m.hash, m.commits)
      /\ chain' = [chain EXCEPT ![n] = d]
      /\ commits' = [commits EXCEPT ![n] = k]
      /\ made' = made
  BY DEF AppendBlock
<1>4. chain \in [Node -> Seq(Hash)] /\ commits \in [Node -> Copies]
  BY DEF TypeOK
<1>5. \A p \in Node : Linked(made, chain[p])
  BY DEF LinkInv
<1>6. Linked(made, d) /\ \A i \in 1 .. Len(c) : c[i] # m.hash
  BY <1>2, <1>3, <1>5, ExtendsLinked
<1>7. c \in Seq(Hash) /\ Len(c) \in Nat /\ d \in Seq(Hash) /\ Len(c) <= Len(d)
      /\ \A i \in 1 .. Len(c) : d[i] = c[i] /\ made[c[i]].txs \subseteq Tx
  BY <1>2, NodeType
<1>8. \A i \in 1 .. Len(c) : k[c[i]] = commits[n][c[i]]
  BY <1>2, <1>4, <1>6, <1>7 DEF Copies
<1>9. SUFFICES ASSUME NEW p \in Node
               PROVE  /\ KeepsFinality(made, chain[p], commits[p], made', chain'[p], commits'[p])
                      /\ Linked(made', chain'[p])
  BY DEF FinalityKept, LinkInv
<1>10. CASE p # n
  <2>1. chain'[p] = chain[p] /\ commits'[p] = commits[p]
    BY <1>3, <1>4, <1>10
  <2> QED BY <1>3, <1>5, <2>1, BystanderKeeps
<1>11. CASE p = n
  <2>1. chain'[p] = d /\ commits'[p] = k
    BY <1>2, <1>3, <1>4, <1>11
  <2>2. KeepsFinality(made, c, commits[n], made, d, k)
    <3>1. \A i \in 1 .. Len(c) : /\ d[i] = c[i]
                                /\ made[c[i]] = made[c[i]]
                                /\ made[c[i]].txs \subseteq Tx
                                /\ commits[n][c[i]] \subseteq k[c[i]]
      BY <1>7, <1>8
    <3> HIDE DEF c, d, k
    <3> QED BY <1>7, <3>1, GrowthKeepsFinality
  <2> QED BY <1>3, <1>6, <1>11, <2>1, <2>2
<1> QED BY <1>10, <1>11

LEMMA AdoptKeeps ==
  ASSUME TypeOK, LinkInv, NEW m \in net, AdoptChain(m)
  PROVE  FinalityKept /\ LinkInv'
<1> DEFINE n == m.to
<1>1. m \in Message /\ m.type = "chain"
  BY DEF TypeOK, AdoptChain
<1>2. n \in Node /\ m.chain \in Seq(Hash)
  BY <1>1, MessageContents
<1>3. /\ Adopts(made, chain[n], commits[n], m.chain, m.commits)
      /\ chain' = [chain EXCEPT ![n] = m.chain]
      /\ commits' = [commits EXCEPT ![n] = m.commits]
      /\ made' = made
  BY DEF AdoptChain
<1>4. chain \in [Node -> Seq(Hash)] /\ commits \in [Node -> Copies]
  BY DEF TypeOK
<1>5. \A p \in Node : Linked(made, chain[p])
  BY DEF LinkInv
<1>6. Linked(made, m.chain)
  BY <1>3 DEF Adopts, is_valid_chain, ValidBlock, Linked
<1>7. KeepsFinality(made, chain[n], commits[n], made, m.chain, m.commits)
  BY <1>2, <1>3, <1>4, <1>5, AdoptionKeepsFinality
<1>8. SUFFICES ASSUME NEW p \in Node
               PROVE  /\ KeepsFinality(made, chain[p], commits[p], made', chain'[p], commits'[p])
                      /\ Linked(made', chain'[p])
  BY DEF FinalityKept, LinkInv
<1>9. CASE p # n
  <2>1. chain'[p] = chain[p] /\ commits'[p] = commits[p]
    BY <1>3, <1>4, <1>9
  <2> QED BY <1>3, <1>5, <2>1, BystanderKeeps
<1>10. CASE p = n
  <2>1. chain'[p] = m.chain /\ commits'[p] = m.commits
    BY <1>2, <1>3, <1>4, <1>10
  <2> QED BY <1>3, <1>6, <1>7, <1>10, <2>1
<1> QED BY <1>9, <1>10

\* Steps that move no chain and take no commit away.
LEMMA QuietKeeps ==
  ASSUME TypeOK, LinkInv, UNCHANGED <<made, chain>>,
         \A n \in Node : \A h \in Hash : commits[n][h] \subseteq commits'[n][h]
  PROVE  FinalityKept /\ LinkInv'
<1> SUFFICES ASSUME NEW p \in Node
             PROVE  /\ KeepsFinality(made, chain[p], commits[p], made', chain'[p], commits'[p])
                    /\ Linked(made', chain'[p])
  BY DEF FinalityKept, LinkInv
<1>1. Linked(made, chain[p])
  BY DEF LinkInv
<1>2. chain[p] \in Seq(Hash)
  BY NodeType
<1>3. \A i \in 1 .. Len(chain[p]) : commits[p][chain[p][i]] \subseteq commits'[p][chain[p][i]]
  BY <1>2
<1> QED BY <1>1, <1>3, BystanderKeeps

LEMMA NextKeeps ==
  ASSUME TypeOK, LinkInv, [Next]_vars
  PROVE  FinalityKept /\ LinkInv'
<1>1. CASE UNCHANGED vars
  BY <1>1, QuietKeeps DEF vars
<1>2. ASSUME NEW n \in Node, NEW t \in Tx, SubmitLocal(n, t) \/ PoolProtocolTx(n, t)
      PROVE  FinalityKept /\ LinkInv'
  BY <1>2, QuietKeeps DEF SubmitLocal, PoolProtocolTx
<1>3. ASSUME NEW n \in Node, Readvertise(n)
      PROVE  FinalityKept /\ LinkInv'
  BY <1>3, QuietKeeps DEF Readvertise
<1>4. ASSUME NEW n \in Node, MineBlock(n)
      PROVE  FinalityKept /\ LinkInv'
  BY <1>4, ProduceKeeps DEF MineBlock
<1>5. ASSUME NEW n \in Node, NEW v, NEW rest, RecordVote(n, v, rest)
      PROVE  FinalityKept /\ LinkInv'
  BY <1>5, ProduceKeeps, QuietKeeps DEF RecordVote
<1>6. ASSUME NEW m \in net, OnCommit(m)
      PROVE  FinalityKept /\ LinkInv'
  <2>1. UNCHANGED <<made, chain>>
    BY <1>6 DEF OnCommit
  <2>2. \A n \in Node : \A h \in Hash : commits[n][h] \subseteq commits'[n][h]
    BY <1>6 DEF OnCommit, TypeOK, Copies
  <2> QED BY <2>1, <2>2, QuietKeeps
<1>7. ASSUME NEW m \in net, OnViewChange(m)
      PROVE  FinalityKept /\ LinkInv'
  <2>1. m \in Message /\ m.type = "viewchange"
    BY <1>7 DEF TypeOK, OnViewChange
  <2>2. m.to \in Node
    BY <2>1, MessageContents
  <2> QED BY <1>5, <1>7, <2>2 DEF OnViewChange
<1>8. ASSUME NEW m \in net,
             \/ OnTransaction(m) \/ DivergingBlock(m) \/ OnChainRequest(m) \/ RefuseChain(m)
             \/ DropCommit(m) \/ DropViewChange(m) \/ Lose(m)
      PROVE  FinalityKept /\ LinkInv'
  BY <1>8, QuietKeeps DEF OnTransaction, DivergingBlock, OnChainRequest, RefuseChain,
                          DropCommit, DropViewChange, Lose
<1>9. ASSUME NEW n \in Node, RequestViewChange(n)
      PROVE  FinalityKept /\ LinkInv'
  BY <1>5, <1>9 DEF RequestViewChange
<1> QED BY <1>1, <1>2, <1>3, <1>4, <1>6, <1>7, <1>8, <1>9, AppendKeeps, AdoptKeeps
        DEF Next, Receive

FinalityInv == TypeInv /\ LinkInv

LEMMA FinalityInvariant == Spec => []FinalityInv
<1>1. Init => FinalityInv
  BY InitTypeInv DEF Init, FinalityInv, LinkInv, Linked
<1>2. FinalityInv /\ [Next]_vars => FinalityInv'
  BY NextTypeInv, NextKeeps DEF FinalityInv, TypeInv
<1> QED BY <1>1, <1>2, PTL DEF Spec

\* Keeping finality is appending to the log.
LEMMA KeptIsPrefix ==
  ASSUME NEW madeA, NEW c \in Seq(Hash), NEW k, NEW madeB, NEW d \in Seq(Hash), NEW l,
         KeepsFinality(madeA, c, k, madeB, d, l)
  PROVE  /\ SubSeq(c, 1, FinalizedHeight(madeA, c, k)) \in Seq(Hash)
         /\ IsPrefix(SubSeq(c, 1, FinalizedHeight(madeA, c, k)),
                     SubSeq(d, 1, FinalizedHeight(madeB, d, l)))
<1> DEFINE f == FinalizedHeight(madeA, c, k)
           g == FinalizedHeight(madeB, d, l)
<1>1. f \in 0 .. Len(c) /\ g \in 0 .. Len(d)
  BY FinalizedHeightFacts
<1>2. f <= g /\ SubSeq(d, 1, f) = SubSeq(c, 1, f)
  BY DEF KeepsFinality
<1> HIDE DEF f, g
<1>3. /\ SubSeq(c, 1, f) \in Seq(Hash) /\ Len(SubSeq(c, 1, f)) = f
      /\ SubSeq(d, 1, g) \in Seq(Hash) /\ Len(SubSeq(d, 1, g)) = g
      /\ f \in Nat /\ f <= Len(d)
  BY <1>1, <1>2
<1>4. \A i \in 1 .. f : SubSeq(d, 1, g)[i] = d[i]
  BY <1>1, <1>2
<1>5. SubSeq(SubSeq(d, 1, g), 1, f) = SubSeq(d, 1, f)
  BY <1>2, <1>3, <1>4, SameHistory
<1>6. SubSeq(SubSeq(c, 1, f), 1, f) = SubSeq(c, 1, f)
  BY <1>3
<1> QED BY <1>2, <1>3, <1>5, <1>6 DEF IsPrefix, f, g

\* The log that a node holds as final is an append-only log: no step of any node,
\* no chain adopted and no message lost, repeated or late ever takes back a block
\* that a node has seen final. (_reverts_our_finality, _fork_choice_rank.)
THEOREM FinalityIsIrrevocable == Spec => IrrevocableFinality
<1>1. Init => Log!Init
  <2> SUFFICES ASSUME Init PROVE Log!Init
    OBVIOUS
  <2>1. ASSUME NEW n \in Node PROVE FinalizedPrefix(n) = <<>>
    <3>1. chain[n] = <<>> /\ chain[n] \in Seq(Hash)
      BY DEF Init
    <3>2. FinalizedHeight(made, chain[n], commits[n]) \in 0 .. Len(chain[n])
      BY <3>1, FinalizedHeightFacts
    <3>3. FinalizedHeight(made, chain[n], commits[n]) = 0
      BY <3>1, <3>2
    <3> QED BY <3>1, <3>3 DEF FinalizedPrefix
  <2> QED BY <2>1 DEF Log!Init
<1>2. FinalityInv /\ FinalityInv' /\ [Next]_vars => Log!Next
  <2> SUFFICES ASSUME FinalityInv, FinalityInv', [Next]_vars PROVE Log!Next
    OBVIOUS
  <2>1. FinalityKept
    BY NextKeeps DEF FinalityInv, TypeInv
  <2>2. ASSUME NEW n \in Node
        PROVE  FinalizedPrefix(n)' \in Seq(Hash) /\ IsPrefix(FinalizedPrefix(n), FinalizedPrefix(n)')
    <3>1. chain[n] \in Seq(Hash) /\ chain'[n] \in Seq(Hash)
      BY DEF FinalityInv, TypeInv, TypeOK
    <3>2. KeepsFinality(made, chain[n], commits[n], made', chain'[n], commits'[n])
      BY <2>1 DEF FinalityKept
    <3>3. FinalizedHeight(made', chain'[n], commits'[n]) \in 0 .. Len(chain'[n])
      BY <3>1, FinalizedHeightFacts
    <3>4. FinalizedPrefix(n)' \in Seq(Hash)
      BY <3>1, <3>3 DEF FinalizedPrefix
    <3>5. IsPrefix(FinalizedPrefix(n), FinalizedPrefix(n)')
      BY <3>1, <3>2, KeptIsPrefix DEF FinalizedPrefix
    <3> QED BY <3>4, <3>5
  <2>3. [n \in Node |-> FinalizedPrefix(n)]' \in [Node -> Seq(Hash)]
    BY <2>2
  <2>4. \A n \in Node : Log!IsPrefix(FinalizedPrefix(n), FinalizedPrefix(n)')
    BY <2>2 DEF IsPrefix, Log!IsPrefix
  <2> QED BY <2>3, <2>4 DEF Log!Next
<1> QED BY <1>1, <1>2, FinalityInvariant, PTL DEF Spec, IrrevocableFinality, Log!Spec

-----------------------------------------------------------------------------
(***************************************************************************)
(* Announcements. A node announces a block when it becomes final on its own *)
(* chain, so the announced blocks follow the finalized prefix.              *)
(***************************************************************************)

\* A final block of a chain is in its finalized prefix.
LEMMA FinalIsInPrefix ==
  ASSUME NEW store, NEW c \in Seq(Hash), NEW k, NEW i \in 1 .. Len(c), is_final(store, c, k, i)
  PROVE  c[i] \in Range(SubSeq(c, 1, FinalizedHeight(store, c, k)))
<1> DEFINE f == FinalizedHeight(store, c, k)
<1>1. f \in 0 .. Len(c) /\ i <= f
  BY FinalizedHeightFacts DEF FinalizedIndices
<1> HIDE DEF f
<1>2. i \in 1 .. Len(SubSeq(c, 1, f)) /\ SubSeq(c, 1, f)[i] = c[i] /\ SubSeq(c, 1, f) \in Seq(Hash)
  BY <1>1
<1>3. i \in DOMAIN SubSeq(c, 1, f)
  BY <1>2
<1> QED BY <1>2, <1>3 DEF Range, f

\* Nothing leaves the finalized prefix of a node.
LEMMA PrefixGrows ==
  ASSUME TypeOK, TypeOK', FinalityKept, NEW n \in Node
  PROVE  Range(FinalizedPrefix(n)) \subseteq Range(FinalizedPrefix(n)')
<1> DEFINE s == FinalizedPrefix(n)
           t == FinalizedPrefix(n)'
<1>1. chain[n] \in Seq(Hash) /\ chain'[n] \in Seq(Hash)
  BY DEF TypeOK
<1>2. KeepsFinality(made, chain[n], commits[n], made', chain'[n], commits'[n])
  BY DEF FinalityKept
<1>3. s \in Seq(Hash) /\ IsPrefix(s, t)
  BY <1>1, <1>2, KeptIsPrefix DEF FinalizedPrefix
<1>4. t \in Seq(Hash)
  <2>1. FinalizedHeight(made', chain'[n], commits'[n]) \in 0 .. Len(chain'[n])
    BY <1>1, FinalizedHeightFacts
  <2> QED BY <1>1, <2>1 DEF FinalizedPrefix
<1> HIDE DEF s, t
<1>5. ASSUME NEW i \in DOMAIN s PROVE i \in DOMAIN t /\ t[i] = s[i]
  <2>1. Len(s) <= Len(t) /\ SubSeq(s, 1, Len(s)) = SubSeq(t, 1, Len(s))
    BY <1>3 DEF IsPrefix
  <2>2. i \in 1 .. Len(s) /\ i \in 1 .. Len(t)
    BY <1>3, <1>4, <2>1
  <2>3. SubSeq(s, 1, Len(s))[i] = s[i] /\ SubSeq(t, 1, Len(s))[i] = t[i]
    BY <1>3, <1>4, <2>1, <2>2
  <2> QED BY <1>4, <2>1, <2>2, <2>3
<1> QED BY <1>5 DEF Range, s, t

\* A step announces only blocks that are final on the announcer's new chain.
AnnouncesFinal ==
  \A n \in Node : announced'[n] \subseteq announced[n] \cup Range(FinalizedPrefix(n)')

LEMMA AnnounceIsFinal ==
  ASSUME TypeOK, NEW n \in Node, NEW c \in Seq(Hash), c # <<>>, NEW k,
         Announce(n, made', c, k), chain'[n] = c, commits'[n] = k
  PROVE  AnnouncesFinal
<1> SUFFICES ASSUME NEW p \in Node
             PROVE  announced'[p] \subseteq announced[p] \cup Range(FinalizedPrefix(p)')
  BY DEF AnnouncesFinal
<1>1. announced \in [Node -> SUBSET Hash]
  BY DEF TypeOK
<1>2. announced' = [announced EXCEPT ![n] =
                      IF is_final(made', c, k, Len(c)) THEN @ \cup {c[Len(c)]} ELSE @]
  BY DEF Announce
<1>3. CASE p # n \/ ~ is_final(made', c, k, Len(c))
  <2>1. announced'[p] = announced[p]
    BY <1>1, <1>2, <1>3
  <2> QED BY <2>1
<1>4. CASE p = n /\ is_final(made', c, k, Len(c))
  <2>1. announced'[p] = announced[n] \cup {c[Len(c)]}
    BY <1>1, <1>2, <1>4
  <2>2. Len(c) \in 1 .. Len(c)
    OBVIOUS
  <2>3. c[Len(c)] \in Range(SubSeq(c, 1, FinalizedHeight(made', c, k)))
    BY <1>4, <2>2, FinalIsInPrefix
  <2>4. FinalizedPrefix(p)' = SubSeq(c, 1, FinalizedHeight(made', c, k))
    BY <1>4 DEF FinalizedPrefix
  <2> QED BY <1>4, <2>1, <2>3, <2>4
<1> QED BY <1>3, <1>4

LEMMA SilentAnnounces == announced' = announced => AnnouncesFinal
BY DEF AnnouncesFinal

LEMMA AppendNotEmpty == \A c \in Seq(Hash), h \in Hash : Append(c, h) # <<>>
<1> SUFFICES ASSUME NEW c \in Seq(Hash), NEW h \in Hash PROVE Append(c, h) # <<>>
  OBVIOUS
<1>1. Len(Append(c, h)) = Len(c) + 1 /\ Len(c) \in Nat /\ Len(<<>>) = 0
  OBVIOUS
<1>2. Len(Append(c, h)) # Len(<<>>)
  BY <1>1
<1> QED BY <1>2, Zenon

LEMMA ProduceAnnounces ==
  ASSUME TypeOK, NEW n \in Node, NEW view, NEW justification, NEW sent,
         Produce(n, view, justification, sent)
  PROVE  AnnouncesFinal
<1> DEFINE b == [producer |-> n, previous |-> chain[n], txs |-> mempool[n],
                 view |-> view, justification |-> justification]
<1>1. PICK h \in Draw(Hash \ DOMAIN made) :
        /\ made' = [x \in DOMAIN made \cup {h} |-> IF x = h THEN b ELSE made[x]]
        /\ chain' = [chain EXCEPT ![n] = Append(chain[n], h)]
        /\ commits' = [commits EXCEPT ![n] = [commits[n] EXCEPT ![h] = OwnCommit(n, {})]]
        /\ \/ UNCHANGED announced
           \/ Announce(n, made', Append(chain[n], h),
                       [commits[n] EXCEPT ![h] = OwnCommit(n, {})])
  BY DEF Produce
<1>2. h \in Hash
  <2>1. Hash \ DOMAIN made \in SUBSET Hash
    OBVIOUS
  <2> QED BY <2>1, <1>1, BoundAssumption
<1>3. chain[n] \in Seq(Hash) /\ chain \in [Node -> Seq(Hash)] /\ commits \in [Node -> Copies]
  BY DEF TypeOK
<1>4. Append(chain[n], h) \in Seq(Hash) /\ Append(chain[n], h) # <<>>
  BY <1>2, <1>3, AppendNotEmpty
<1>5. chain'[n] = Append(chain[n], h)
      /\ commits'[n] = [commits[n] EXCEPT ![h] = OwnCommit(n, {})]
  BY <1>1, <1>3
<1> HIDE DEF b
<1> QED BY <1>1, <1>4, <1>5, AnnounceIsFinal, SilentAnnounces

LEMMA AppendAnnounces ==
  ASSUME TypeOK, NEW m \in net, AppendBlock(m)
  PROVE  AnnouncesFinal
<1> DEFINE n == m.to
           d == Append(chain[n], m.hash)
           k == [commits[n] EXCEPT ![m.hash] = m.commits \cup OwnCommit(n, m.commits)]
<1>1. m \in Message /\ m.type = "block"
  BY DEF TypeOK, AppendBlock
<1>2. n \in Node /\ m.hash \in Hash
  BY <1>1, MessageContents
<1>3. chain' = [chain EXCEPT ![n] = d] /\ commits' = [commits EXCEPT ![n] = k]
      /\ made' = made /\ Announce(n, made, d, k)
  BY DEF AppendBlock
<1>4. chain \in [Node -> Seq(Hash)] /\ commits \in [Node -> Copies]
  BY DEF TypeOK
<1>5. d \in Seq(Hash) /\ d # <<>>
  BY <1>2, <1>4, AppendNotEmpty
<1>6. chain'[n] = d /\ commits'[n] = k /\ Announce(n, made', d, k)
  BY <1>2, <1>3, <1>4
<1> HIDE DEF d, k
<1> QED BY <1>2, <1>5, <1>6, AnnounceIsFinal

LEMMA CommitAnnounces ==
  ASSUME TypeOK, NEW m \in net, OnCommit(m)
  PROVE  AnnouncesFinal
<1> DEFINE n == m.to
           k == [commits[n] EXCEPT ![m.hash] = @ \cup {m.signer}]
<1>1. m \in Message /\ m.type = "commit"
  BY DEF TypeOK, OnCommit
<1>2. n \in Node /\ m.hash \in Hash
  BY <1>1, MessageContents
<1>3. /\ UNCHANGED <<made, chain>> /\ commits' = [commits EXCEPT ![n] = k]
      /\ announced' = [announced EXCEPT ![n] =
                         IF \E i \in 1 .. Len(chain[n]) :
                              chain[n][i] = m.hash /\ is_final(made, chain[n], k, i)
                         THEN @ \cup {m.hash} ELSE @]
  BY DEF OnCommit
<1>4. announced \in [Node -> SUBSET Hash] /\ commits \in [Node -> Copies]
      /\ chain[n] \in Seq(Hash)
  BY <1>2 DEF TypeOK
<1>5. commits'[n] = k
  BY <1>2, <1>3, <1>4
<1> HIDE DEF k
<1> SUFFICES ASSUME NEW p \in Node
             PROVE  announced'[p] \subseteq announced[p] \cup Range(FinalizedPrefix(p)')
  BY DEF AnnouncesFinal
<1>6. CASE announced'[p] = announced[p]
  BY <1>6
<1>7. CASE announced'[p] # announced[p]
  <2>1. p = n /\ announced'[p] = announced[p] \cup {m.hash}
        /\ \E i \in 1 .. Len(chain[n]) : chain[n][i] = m.hash /\ is_final(made, chain[n], k, i)
    BY <1>3, <1>4, <1>7
  <2>2. PICK i \in 1 .. Len(chain[n]) : chain[n][i] = m.hash /\ is_final(made, chain[n], k, i)
    BY <2>1
  <2>3. m.hash \in Range(SubSeq(chain[n], 1, FinalizedHeight(made, chain[n], k)))
    BY <1>4, <2>2, FinalIsInPrefix
  <2>4. FinalizedPrefix(p)' = SubSeq(chain[n], 1, FinalizedHeight(made, chain[n], k))
    BY <1>3, <1>5, <2>1 DEF FinalizedPrefix
  <2> QED BY <2>1, <2>3, <2>4
<1> QED BY <1>6, <1>7

LEMMA NextAnnounces ==
  ASSUME TypeOK, [Next]_vars
  PROVE  AnnouncesFinal
<1>1. CASE UNCHANGED vars
  BY <1>1, SilentAnnounces DEF vars
<1>2. ASSUME NEW n \in Node, NEW t \in Tx, SubmitLocal(n, t) \/ PoolProtocolTx(n, t)
      PROVE  AnnouncesFinal
  BY <1>2, SilentAnnounces DEF SubmitLocal, PoolProtocolTx
<1>3. ASSUME NEW n \in Node, Readvertise(n)
      PROVE  AnnouncesFinal
  BY <1>3, SilentAnnounces DEF Readvertise
<1>4. ASSUME NEW n \in Node, MineBlock(n)
      PROVE  AnnouncesFinal
  BY <1>4, ProduceAnnounces DEF MineBlock
<1>5. ASSUME NEW n \in Node, NEW v, NEW rest, RecordVote(n, v, rest)
      PROVE  AnnouncesFinal
  BY <1>5, ProduceAnnounces, SilentAnnounces DEF RecordVote
<1>6. ASSUME NEW n \in Node, RequestViewChange(n)
      PROVE  AnnouncesFinal
  BY <1>5, <1>6 DEF RequestViewChange
<1>7. ASSUME NEW m \in net, OnViewChange(m)
      PROVE  AnnouncesFinal
  <2>1. m \in Message /\ m.type = "viewchange"
    BY <1>7 DEF TypeOK, OnViewChange
  <2>2. m.to \in Node
    BY <2>1, MessageContents
  <2> QED BY <1>5, <1>7, <2>2 DEF OnViewChange
<1>8. ASSUME NEW m \in net,
             \/ OnTransaction(m) \/ DivergingBlock(m) \/ OnChainRequest(m) \/ RefuseChain(m)
             \/ AdoptChain(m) \/ DropCommit(m) \/ DropViewChange(m) \/ Lose(m)
      PROVE  AnnouncesFinal
  BY <1>8, SilentAnnounces DEF OnTransaction, DivergingBlock, OnChainRequest, RefuseChain,
                               AdoptChain, DropCommit, DropViewChange, Lose
<1> QED BY <1>1, <1>2, <1>3, <1>4, <1>6, <1>7, <1>8, AppendAnnounces, CommitAnnounces
        DEF Next, Receive

\* What a node has announced as finalized is, for ever, in its finalized history.
THEOREM AnnouncementsStand == Spec => []AnnouncedStaysFinal
<1>1. Init => AnnouncedStaysFinal
  BY DEF Init, AnnouncedStaysFinal
<1>2. FinalityInv /\ FinalityInv' /\ AnnouncedStaysFinal /\ [Next]_vars => AnnouncedStaysFinal'
  <2> SUFFICES ASSUME FinalityInv, FinalityInv', AnnouncedStaysFinal, [Next]_vars,
                      NEW n \in Node
               PROVE  announced'[n] \subseteq Range(FinalizedPrefix(n)')
    BY DEF AnnouncedStaysFinal
  <2>1. FinalityKept /\ AnnouncesFinal /\ TypeOK /\ TypeOK'
    BY NextKeeps, NextAnnounces DEF FinalityInv, TypeInv
  <2>2. Range(FinalizedPrefix(n)) \subseteq Range(FinalizedPrefix(n)')
    BY <2>1, PrefixGrows
  <2>3. announced[n] \subseteq Range(FinalizedPrefix(n))
    BY DEF AnnouncedStaysFinal
  <2> QED BY <2>1, <2>2, <2>3 DEF AnnouncesFinal
<1> QED BY <1>1, <1>2, FinalityInvariant, PTL DEF Spec
=============================================================================
