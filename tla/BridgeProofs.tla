---------------------------- MODULE BridgeProofs ----------------------------
(***************************************************************************)
(* Proofs about the challenges of module Admission, for any clients, peers  *)
(* and clock. The invariant: the store holds exactly the challenges that    *)
(* were issued, with their expiry, but for those that let an attestation in *)
(* and for some that have expired.                                          *)
(***************************************************************************)
EXTENDS Bridge, SequenceTheorems, Lemmas

Expiry(c) == issuedAt[c] + TTL

Issued ==
  /\ now \in Nat
  /\ issuedAt \in Seq(Nat)

Held ==
  /\ store = [c \in DOMAIN store |-> store[c]]
  /\ DOMAIN store \subseteq DOMAIN issuedAt
  /\ \A c \in DOMAIN store : store[c] = Expiry(c)

Spent ==
  \A a \in admitted :
    /\ a.challenge \in DOMAIN issuedAt
    /\ a.challenge \notin DOMAIN store
    /\ a.at <= Expiry(a.challenge)

Unique == \A a, b \in admitted : a.challenge = b.challenge => a = b

Kept ==
  \A c \in DOMAIN issuedAt :
    now <= Expiry(c) /\ (\A a \in admitted : a.challenge # c) => c \in DOMAIN store

IInv == Issued /\ Held /\ Spent /\ Unique /\ Kept

challenges == <<now, issuedAt, store, admitted>>

\* What leaves the clock and the challenges alone keeps the invariant.
LEMMA Untouched ==
  ASSUME IInv, UNCHANGED challenges
  PROVE  IInv'
BY DEF IInv, Issued, Held, Spent, Unique, Kept, Expiry, challenges

LEMMA Initially == Init => IInv
<1> SUFFICES ASSUME Init PROVE IInv
  OBVIOUS
<1>1. now = 0 /\ issuedAt = <<>> /\ store = <<>> /\ admitted = {}
  BY DEF Init, NodeInit
<1>2. DOMAIN issuedAt = {} /\ DOMAIN store = {} /\ issuedAt \in Seq(Nat)
  BY <1>1
<1>3. store = [c \in DOMAIN store |-> store[c]]
  BY <1>1
<1> QED BY <1>1, <1>2, <1>3 DEF IInv, Issued, Held, Spent, Unique, Kept

\* Time passes: what is held stays held, and may have expired.
LEMMA TimePasses ==
  ASSUME IInv, PassTime
  PROVE  IInv'
<1>1. now' = now + 1 /\ UNCHANGED <<issuedAt, store, admitted>>
  BY DEF PassTime
<1>2. Issued' /\ Held' /\ Spent' /\ Unique'
  BY <1>1 DEF IInv, Issued, Held, Spent, Unique, Expiry
<1>3. Kept'
  <2> SUFFICES ASSUME NEW c \in DOMAIN issuedAt, now + 1 <= Expiry(c),
                      \A a \in admitted : a.challenge # c
               PROVE  c \in DOMAIN store
    BY <1>1 DEF Kept, Expiry
  <2>1. Expiry(c) \in Nat /\ now \in Nat
    BY TTLAssumption DEF IInv, Issued, Expiry
  <2> QED BY <2>1 DEF IInv, Kept
<1> QED BY <1>2, <1>3 DEF IInv

\* Purging a store that the invariant describes drops what has expired.
LEMMA Purged ==
  ASSUME IInv
  PROVE  /\ DOMAIN purge(store, now) = {c \in DOMAIN store : Expiry(c) >= now}
         /\ \A c \in DOMAIN purge(store, now) : store[c] = Expiry(c)
BY DEF IInv, Held, purge, Only

LEMMA ChallengeIssued ==
  ASSUME IInv, CredentialChallenge
  PROVE  IInv'
<1> PICK n : n = Len(issuedAt) + 1
  OBVIOUS
<1>1. /\ issuedAt' = Append(issuedAt, now) /\ store' = issue(store, n, now)
      /\ now' = now /\ admitted' = admitted
  BY DEF CredentialChallenge
<1>2. issuedAt \in Seq(Nat) /\ now \in Nat /\ TTL \in Nat
  BY TTLAssumption DEF IInv, Issued
<1>3. /\ issuedAt' \in Seq(Nat) /\ DOMAIN issuedAt' = DOMAIN issuedAt \cup {n}
      /\ n \notin DOMAIN issuedAt /\ issuedAt'[n] = now
      /\ \A c \in DOMAIN issuedAt : issuedAt'[c] = issuedAt[c]
  BY <1>1, <1>2
<1>4. /\ \A c \in DOMAIN issuedAt : Expiry(c)' = Expiry(c)
      /\ Expiry(n)' = now + TTL
  BY <1>3 DEF Expiry
<1>5. /\ DOMAIN store' = {c \in DOMAIN store : Expiry(c) >= now} \cup {n}
      /\ store' = [c \in DOMAIN store' |-> IF c = n THEN now + TTL ELSE store[c]]
  BY <1>1, Purged DEF issue
<1>6. Issued'
  BY <1>1, <1>2, <1>3 DEF Issued
<1>7. Held'
  <2>1. store' = [c \in DOMAIN store' |-> store'[c]]
    BY <1>5
  <2>2. DOMAIN store' \subseteq DOMAIN issuedAt'
    BY <1>3, <1>5 DEF IInv, Held
  <2>3. ASSUME NEW c \in DOMAIN store' PROVE store'[c] = Expiry(c)'
    BY <1>3, <1>4, <1>5 DEF IInv, Held
  <2> QED BY <2>1, <2>2, <2>3 DEF Held
<1>8. Spent'
  <2> SUFFICES ASSUME NEW a \in admitted
               PROVE  /\ a.challenge \in DOMAIN issuedAt'
                      /\ a.challenge \notin DOMAIN store'
                      /\ a.at <= Expiry(a.challenge)'
    BY <1>1 DEF Spent
  <2>1. a.challenge \in DOMAIN issuedAt /\ a.challenge \notin DOMAIN store
        /\ a.at <= Expiry(a.challenge)
    BY DEF IInv, Spent
  <2> QED BY <2>1, <1>3, <1>4, <1>5
<1>9. Unique'
  BY <1>1 DEF IInv, Unique
<1>10. Kept'
  <2> SUFFICES ASSUME NEW c \in DOMAIN issuedAt', now <= Expiry(c)',
                      \A a \in admitted : a.challenge # c
               PROVE  c \in DOMAIN store'
    BY <1>1 DEF Kept
  <2>1. CASE c = n
    BY <2>1, <1>5
  <2>2. CASE c \in DOMAIN issuedAt
    <3>1. now <= Expiry(c) /\ Expiry(c) \in Nat
      BY <2>2, <1>2, <1>4 DEF Expiry
    <3>2. c \in DOMAIN store
      BY <2>2, <3>1 DEF IInv, Kept
    <3> QED BY <3>1, <3>2, <1>2, <1>5
  <2> QED BY <2>1, <2>2, <1>3
<1> QED BY <1>6, <1>7, <1>8, <1>9, <1>10 DEF IInv

\* A post that passes the gate spends its challenge, if that is still good.
LEMMA AttestationPosted ==
  ASSUME IInv, NEW t, NEW p \in Presentations(t.sender, DOMAIN issuedAt),
         SubmitAttestation(t, p)
  PROVE  IInv'
<1> DEFINE x == p.challenge
           old == {c \in DOMAIN store : Expiry(c) >= now}
<1>1. x \in DOMAIN issuedAt
  BY DEF Presentations, make_presentation
<1>2. /\ store' = consume(store, x, now) /\ now' = now /\ issuedAt' = issuedAt
      /\ IF usable(store, x, now)
         THEN admitted' = admitted \cup {[tx |-> t, challenge |-> x, at |-> now]}
         ELSE admitted' = admitted
  BY DEF SubmitAttestation, Admit
<1>3. DOMAIN store' = old \ {x} /\ store' = [c \in old \ {x} |-> store[c]]
  <2>1. store' = [c \in old \ {x} |-> purge(store, now)[c]]
    BY <1>2, Purged DEF consume, Only
  <2>2. \A c \in old : purge(store, now)[c] = store[c]
    BY Purged DEF purge, Only
  <2> QED BY <2>1, <2>2
<1>4. usable(store, x, now) <=> x \in old
  BY Purged DEF usable
<1>5. now \in Nat /\ TTL \in Nat /\ \A c \in DOMAIN issuedAt : Expiry(c) \in Nat
  BY TTLAssumption DEF IInv, Issued, Expiry
<1>6. \A c : Expiry(c)' = Expiry(c)
  BY <1>2 DEF Expiry
<1>7. Issued'
  BY <1>2 DEF IInv, Issued
<1>8. Held'
  BY <1>2, <1>3, <1>6 DEF IInv, Held
<1>9. ASSUME NEW a \in admitted'
      PROVE  \/ a \in admitted
             \/ x \in old /\ a = [tx |-> t, challenge |-> x, at |-> now]
  BY <1>2, <1>4
<1>10. Spent'
  <2> SUFFICES ASSUME NEW a \in admitted'
               PROVE  /\ a.challenge \in DOMAIN issuedAt
                      /\ a.challenge \notin DOMAIN store'
                      /\ a.at <= Expiry(a.challenge)
    BY <1>2, <1>6 DEF Spent
  <2>1. CASE a \in admitted
    BY <2>1, <1>3 DEF IInv, Spent
  <2>2. CASE x \in old /\ a = [tx |-> t, challenge |-> x, at |-> now]
    BY <2>2, <1>1, <1>3, <1>5
  <2> QED BY <2>1, <2>2, <1>9
<1>11. Unique'
  <2> SUFFICES ASSUME NEW a \in admitted', NEW b \in admitted', a.challenge = b.challenge
               PROVE  a = b
    BY DEF Unique
  <2>1. \A d \in admitted : d.challenge \notin old
    BY DEF IInv, Spent
  <2> QED BY <2>1, <1>9 DEF IInv, Unique
<1>12. Kept'
  <2> SUFFICES ASSUME NEW c \in DOMAIN issuedAt, now <= Expiry(c),
                      \A a \in admitted' : a.challenge # c
               PROVE  c \in DOMAIN store'
    BY <1>2, <1>6 DEF Kept
  <2>1. admitted \subseteq admitted'
    BY <1>2
  <2>2. c \in old
    BY <2>1, <1>5 DEF IInv, Kept
  <2>3. ASSUME c = x PROVE FALSE
    <3>1. [tx |-> t, challenge |-> x, at |-> now] \in admitted'
      BY <2>2, <2>3, <1>2, <1>4
    <3> QED BY <3>1, <2>3
  <2> QED BY <2>2, <2>3, <1>3
<1> QED BY <1>7, <1>8, <1>10, <1>11, <1>12 DEF IInv

LEMMA Step == IInv /\ [Next]_vars => IInv'
<1> SUFFICES ASSUME IInv, [Next]_vars PROVE IInv'
  OBVIOUS
<1>1. CASE UNCHANGED challenges
  BY <1>1, Untouched
<1>2. CASE NodeNext
  <2>1. CASE PassTime
    BY <2>1, TimePasses
  <2>2. CASE CredentialChallenge
    BY <2>2, ChallengeIssued
  <2>3. ASSUME NEW t \in setting.posted, NEW p \in Presentations(t.sender, DOMAIN issuedAt),
               SubmitAttestation(t, p)
        PROVE  IInv'
    BY <2>3, AttestationPosted
  <2>4. ASSUME NEW t, SubmitWork(t) \/ OnTransaction(t)
        PROVE  UNCHANGED challenges
    BY <2>4 DEF SubmitWork, OnTransaction, Receive, challenges
  <2>5. ASSUME IssueReviewerVC \/ Mine \/ OnBlock \/ OnChainResponse \/ OnCommit
        PROVE  UNCHANGED challenges
    BY <2>5 DEF IssueReviewerVC, Mine, OnBlock, OnChainResponse, OnCommit, Adopt, challenges
  <2> QED BY <1>2, <1>1, <2>1, <2>2, <2>3, <2>4, <2>5 DEF NodeNext
<1>3. CASE PushNext
  BY <1>1, <1>3 DEF PushNext, Connect, Greet, Leave, SendTo, Tick, NextEvent, node, challenges
<1>4. CASE UNCHANGED vars
  BY <1>1, <1>4 DEF vars, node, challenges
<1> QED BY <1>2, <1>3, <1>4 DEF Next, NodeStep

THEOREM ChallengeInvariant == Spec => []IInv
BY Initially, Step, PTL DEF Spec

\* A challenge of a node lets at most one attestation in, before it expires.
THEOREM ChallengesUsedOnce == Spec => []UsedOnce
<1>1. IInv => UsedOnce
  BY DEF IInv, Spent, Unique, UsedOnce, Expiry
<1> QED BY <1>1, ChallengeInvariant, PTL

\* A challenge that let nothing in is good until it expires.
THEOREM ChallengesStayGood == Spec => []GoodUntilUsed
<1>1. IInv => GoodUntilUsed
  <2> SUFFICES ASSUME IInv, NEW c \in DOMAIN issuedAt, now <= issuedAt[c] + TTL,
                      \A a \in admitted : a.challenge # c
               PROVE  usable(store, c, now)
    BY DEF GoodUntilUsed
  <2>1. c \in DOMAIN store /\ Expiry(c) >= now
    <3>1. now \in Nat /\ Expiry(c) \in Nat
      BY TTLAssumption DEF IInv, Issued, Expiry
    <3> QED BY <3>1 DEF IInv, Kept, Expiry
  <2> QED BY <2>1, Purged DEF usable
<1> QED BY <1>1, ChallengeInvariant, PTL

-----------------------------------------------------------------------------
(***************************************************************************)
(* The mempool and the chain. A transaction is in at most one place, there  *)
(* are finitely many, and each bond could be funded when it came: by the    *)
(* gate, or because the peer's chain it is on is valid.                     *)
(***************************************************************************)
Known == setting.posted \cup setting.gossiped

BlockType ==
  [txs : SUBSET Known, hash : 1 .. setting.MaxHash, commits : 1 .. Quorum]

Fundable(T) == \A t \in T : t.type = "attestation" => t.stake <= Endowment[t.sender]

Fresh(c) == \A i \in DOMAIN c : \A j \in 1 .. (i - 1) : c[i].txs \cap c[j].txs = {}

\* What a chain must be to be ours.
Sound(c) ==
  /\ c \in Seq(BlockType)
  /\ IsFiniteSet(Committed(c))
  /\ Fresh(c)
  /\ Fundable(Committed(c))

Pool ==
  /\ setting \in Settings
  /\ Sound(chain)
  /\ mempool \subseteq Known
  /\ IsFiniteSet(mempool)
  /\ Fundable(mempool)
  /\ mempool \cap Committed(chain) = {}

LEMMA TxFields ==
  ASSUME setting \in Settings, NEW t \in Known, t.type = "attestation"
  PROVE  t.sender \in Person /\ t.stake \in Nat /\ Endowment[t.sender] \in Nat
<1>1. t \in Tx
  BY SettingAssumption DEF Known
<1> QED BY <1>1, EconomyAssumption DEF Tx

\* The transactions of a chain are those of its blocks.
LEMMA CommittedBlocks ==
  ASSUME NEW S, NEW c \in Seq(S)
  PROVE  /\ \A i \in 1 .. Len(c) : c[i].txs \subseteq Committed(c)
         /\ \A t \in Committed(c) : \E i \in 1 .. Len(c) : t \in c[i].txs
BY DEF Committed

LEMMA SeqElement ==
  ASSUME NEW S, NEW s \in Seq(S), NEW i \in DOMAIN s
  PROVE  s[i] \in S
OBVIOUS

LEMMA CommittedKnown ==
  ASSUME NEW c \in Seq(BlockType)
  PROVE  Committed(c) \subseteq Known
<1> SUFFICES ASSUME NEW i \in DOMAIN c
             PROVE  c[i].txs \subseteq Known
  BY DEF Committed
<1>1. c[i] \in BlockType
  OBVIOUS
<1> QED BY <1>1 DEF BlockType

LEMMA CommittedAppend ==
  ASSUME NEW S, NEW c \in Seq(S), NEW b \in S
  PROVE  Committed(Append(c, b)) = Committed(c) \cup b.txs
<1>1. /\ DOMAIN Append(c, b) = (1 .. Len(c)) \cup {Len(c) + 1} /\ DOMAIN c = 1 .. Len(c)
      /\ Append(c, b)[Len(c) + 1] = b /\ \A i \in 1 .. Len(c) : Append(c, b)[i] = c[i]
  OBVIOUS
<1> QED BY <1>1 DEF Committed

\* The blocks below a place in a chain.
LEMMA Cut ==
  ASSUME NEW S, NEW c \in Seq(S), NEW k \in 0 .. Len(c)
  PROVE  /\ SubSeq(c, 1, k) \in Seq(S) /\ Len(SubSeq(c, 1, k)) = k
         /\ \A i \in 1 .. k : SubSeq(c, 1, k)[i] = c[i]
         /\ Committed(SubSeq(c, 1, k)) \subseteq Committed(c)
<1>1. /\ SubSeq(c, 1, k) \in Seq(S) /\ Len(SubSeq(c, 1, k)) = k
      /\ \A i \in 1 .. k : SubSeq(c, 1, k)[i] = c[i]
  OBVIOUS
<1>2. DOMAIN SubSeq(c, 1, k) = 1 .. k /\ DOMAIN c = 1 .. Len(c)
  BY <1>1
<1> QED BY <1>1, <1>2 DEF Committed

\* One more block of new transactions, which its reviewers could fund.
LEMMA SoundAppend ==
  ASSUME setting \in Settings, NEW c, Sound(c), NEW b \in BlockType,
         IsFiniteSet(b.txs), b.txs \cap Committed(c) = {}, Fundable(b.txs)
  PROVE  Sound(Append(c, b)) /\ Committed(Append(c, b)) = Committed(c) \cup b.txs
<1>1. c \in Seq(BlockType) /\ Append(c, b) \in Seq(BlockType)
  BY DEF Sound
<1>2. Committed(Append(c, b)) = Committed(c) \cup b.txs
  BY <1>1, CommittedAppend
<1>3. IsFiniteSet(Committed(Append(c, b)))
  BY <1>2, FS_Union DEF Sound
<1>4. Fundable(Committed(Append(c, b)))
  BY <1>2 DEF Sound, Fundable
<1>5. Fresh(Append(c, b))
  <2> SUFFICES ASSUME NEW i \in DOMAIN Append(c, b), NEW j \in 1 .. (i - 1)
               PROVE  Append(c, b)[i].txs \cap Append(c, b)[j].txs = {}
    BY DEF Fresh
  <2>1. /\ i \in 1 .. Len(c) + 1 /\ j \in 1 .. Len(c)
        /\ Append(c, b)[j] = c[j] /\ DOMAIN c = 1 .. Len(c)
    BY <1>1
  <2>2. CASE i \in 1 .. Len(c)
    BY <1>1, <2>1, <2>2 DEF Sound, Fresh
  <2>3. CASE i = Len(c) + 1
    <3>1. Append(c, b)[i] = b /\ c[j].txs \subseteq Committed(c)
      BY <1>1, <2>1, <2>3, CommittedBlocks
    <3> QED BY <2>1, <3>1
  <2> QED BY <2>1, <2>2, <2>3
<1> QED BY <1>1, <1>2, <1>3, <1>4, <1>5 DEF Sound

LEMMA SoundCut ==
  ASSUME NEW c, Sound(c), NEW k \in 0 .. Len(c)
  PROVE  Sound(SubSeq(c, 1, k))
<1>1. c \in Seq(BlockType)
  BY DEF Sound
<1>2. /\ SubSeq(c, 1, k) \in Seq(BlockType) /\ Len(SubSeq(c, 1, k)) = k
      /\ \A i \in 1 .. k : SubSeq(c, 1, k)[i] = c[i]
      /\ Committed(SubSeq(c, 1, k)) \subseteq Committed(c)
  BY <1>1, Cut
<1>3. Fresh(SubSeq(c, 1, k))
  BY <1>1, <1>2 DEF Sound, Fresh
<1>4. IsFiniteSet(Committed(SubSeq(c, 1, k))) /\ Fundable(Committed(SubSeq(c, 1, k)))
  BY <1>2, FS_Subset DEF Sound, Fundable
<1> QED BY <1>2, <1>3, <1>4 DEF Sound

LEMMA SoundNext ==
  ASSUME NEW c, Sound(c), chain' = c, setting' = setting
  PROVE  Sound(chain)'
BY DEF Sound, Fresh, Fundable, Committed, BlockType, Known

\* What the bonds of one person among finitely many transactions hold.
LEMMA BondStakes ==
  ASSUME setting \in Settings, NEW T \in SUBSET Known, IsFiniteSet(T), NEW p
  PROVE  /\ IsFiniteSet(Bonds(T, p)) /\ Stakes(Bonds(T, p)) \in Nat
         /\ \A t \in Bonds(T, p) : t.stake \in Nat /\ t.stake <= Stakes(Bonds(T, p))
<1>1. Bonds(T, p) \subseteq T /\ \A t \in Bonds(T, p) : t.type = "attestation"
  BY DEF Bonds, BondsOf
<1>2. IsFiniteSet(Bonds(T, p)) /\ \A t \in Bonds(T, p) : t.stake \in Nat
  BY <1>1, FS_Subset, TxFields
<1>3. ASSUME NEW t \in Bonds(T, p) PROVE t.stake <= Stakes(Bonds(T, p))
  <2>1. {t} \subseteq Bonds(T, p)
    OBVIOUS
  <2>2. Stakes({t}) <= Stakes(Bonds(T, p)) /\ Stakes({t}) = t.stake
    BY <1>2, <2>1, StakesWithout, StakesOfOne
  <2> QED BY <2>2
<1> QED BY <1>2, <1>3, StakesType

\* A transaction that passes the gate can be funded, and joins the mempool.
LEMMA PoolReceives ==
  ASSUME Pool, NEW t \in Known, NEW p, accepts_transaction(t, p),
         mempool' = Pooled(t), UNCHANGED <<setting, chain>>
  PROVE  Pool'
<1>1. Committed(chain) \subseteq Known
  <2>1. chain \in Seq(BlockType)
    BY DEF Pool, Sound
  <2> QED BY <2>1, CommittedKnown
<1>2. ASSUME t.type = "attestation" PROVE t.stake <= Endowment[t.sender]
  <2>1. t.stake \in Nat /\ Endowment[t.sender] \in Nat
    BY <1>2, TxFields DEF Pool
  <2>2. Stakes(Bonds(Committed(chain), t.sender)) \in Nat
    BY <1>1, BondStakes DEF Pool, Sound
  <2>3. Endowment[t.sender] - Stakes(Bonds(Committed(chain), t.sender)) >= t.stake
    BY <1>2 DEF accepts_transaction, free
  <2> QED BY <2>1, <2>2, <2>3
<1>3. mempool' = mempool \/ (t \notin Committed(chain) /\ mempool' = mempool \cup {t})
  BY DEF Pooled, already_seen
<1>4. IsFiniteSet(mempool')
  BY <1>3, FS_AddElement DEF Pool
<1>5. Fundable(mempool')
  BY <1>2, <1>3 DEF Pool, Fundable
<1>6. mempool' \subseteq Known /\ mempool' \cap Committed(chain) = {}
  BY <1>3 DEF Pool
<1>7. Sound(chain)'
  BY DEF Pool, Sound, Fresh, Fundable, Committed, BlockType, Known
<1> QED BY <1>4, <1>5, <1>6, <1>7 DEF Pool, Known, Fundable, Committed

\* A node that mines moves its mempool to a block of its own.
LEMMA PoolMines ==
  ASSUME Pool, Mine
  PROVE  Pool'
<1>1. PICK h \in 1 .. setting.MaxHash :
        /\ chain' = Append(chain, [txs |-> mempool, hash |-> h, commits |-> 1])
        /\ mempool' = {} /\ setting' = setting
  BY DEF Mine
<1> PICK b : b = [txs |-> mempool, hash |-> h, commits |-> 1]
  OBVIOUS
<1>2. b \in BlockType /\ b.txs = mempool
  BY EconomyAssumption DEF Pool, BlockType
<1>3. Sound(Append(chain, b))
  BY <1>2, SoundAppend DEF Pool
<1>4. Sound(chain)'
  BY <1>1, <1>3 DEF Sound, Fresh, Fundable, Committed, BlockType, Known
<1> QED BY <1>1, <1>4, FS_EmptySet DEF Pool, Known, Fundable

\* A chain that is valid bonds what its reviewers could fund.
LEMMA ValidFunds ==
  ASSUME setting \in Settings, NEW c \in Seq(BlockType), IsFiniteSet(Committed(c)),
         is_valid_chain(c)
  PROVE  Fundable(Committed(c))
<1> SUFFICES ASSUME NEW t \in Committed(c), t.type = "attestation"
             PROVE  t.stake <= Endowment[t.sender]
  BY DEF Fundable
<1>1. Committed(c) \subseteq Known
  BY CommittedKnown
<1>2. PICK i \in 1 .. Len(c) : t \in c[i].txs
  BY CommittedBlocks
<1> PICK d : d = SubSeq(c, 1, i - 1)
  OBVIOUS
<1>3. t.sender \in Person /\ t.stake \in Nat /\ Endowment[t.sender] \in Nat
  BY <1>1, TxFields
<1>4. Stakes(Bonds(c[i].txs, t.sender)) <= Endowment[t.sender] - Stakes(Bonds(Committed(d), t.sender))
  BY <1>3 DEF is_valid_chain, free
<1>5. Committed(d) \subseteq Committed(c) /\ c[i].txs \subseteq Committed(c)
  <2>1. i - 1 \in 0 .. Len(c)
    OBVIOUS
  <2> QED BY <2>1, Cut, CommittedBlocks
<1>6. Stakes(Bonds(Committed(d), t.sender)) \in Nat
  <2>1. Committed(d) \subseteq Known /\ IsFiniteSet(Committed(d))
    BY <1>1, <1>5, FS_Subset
  <2> QED BY <2>1, BondStakes
<1>7. t.stake <= Stakes(Bonds(c[i].txs, t.sender)) /\ Stakes(Bonds(c[i].txs, t.sender)) \in Nat
  <2>1. c[i].txs \subseteq Known /\ IsFiniteSet(c[i].txs)
    BY <1>1, <1>5, FS_Subset
  <2>2. t \in Bonds(c[i].txs, t.sender)
    BY <1>2 DEF Bonds, BondsOf
  <2> QED BY <2>1, <2>2, BondStakes
<1> QED BY <1>3, <1>4, <1>6, <1>7

\* What a peer puts on a part of our chain, if the result is valid.
LEMMA SoundExtended ==
  ASSUME setting \in Settings, NEW d, Sound(d), NEW b \in BlockType,
         b.txs \subseteq setting.gossiped, b.txs \cap Committed(d) = {},
         is_valid_chain(Append(d, b))
  PROVE  Sound(Append(d, b))
<1>1. d \in Seq(BlockType) /\ IsFiniteSet(Committed(d))
  BY DEF Sound
<1>2. Append(d, b) \in Seq(BlockType) /\ Committed(Append(d, b)) = Committed(d) \cup b.txs
  BY <1>1, CommittedAppend
<1>3. IsFiniteSet(b.txs)
  BY SettingAssumption, FS_Subset
<1>4. IsFiniteSet(Committed(Append(d, b)))
  BY <1>1, <1>2, <1>3, FS_Union
<1>5. Fundable(b.txs)
  BY <1>2, <1>4, ValidFunds DEF Fundable
<1> QED BY <1>3, <1>5, SoundAppend

\* A valid chain of a peer, with a block of its own above a part of ours.
LEMMA PoolAdopts ==
  ASSUME Pool, NEW k \in 0 .. Len(chain), NEW c \in PeerChains(k), is_valid_chain(c), Adopt(c)
  PROVE  Pool'
<1> PICK d : d = SubSeq(chain, 1, k)
  OBVIOUS
<1>1. PICK b \in [txs : SUBSET (setting.gossiped \ Committed(d)),
                  hash : 1 .. setting.MaxHash, commits : 1 .. Quorum] : c = Append(d, b)
  BY DEF PeerChains
<1>2. Sound(d)
  BY SoundCut DEF Pool
<1>3. b \in BlockType /\ b.txs \subseteq setting.gossiped /\ b.txs \cap Committed(d) = {}
  BY DEF BlockType, Known
<1>4. Sound(c)
  BY <1>1, <1>2, <1>3, SoundExtended DEF Pool
<1>5. chain' = c /\ mempool' = mempool \ Committed(c) /\ setting' = setting
  BY DEF Adopt
<1>6. Sound(chain)'
  BY <1>4, <1>5, SoundNext
<1>7. mempool' \cap Committed(chain)' = {} /\ IsFiniteSet(mempool')
  BY <1>5, FS_Subset DEF Pool, Committed
<1> QED BY <1>5, <1>6, <1>7 DEF Pool, Known, Fundable

\* A commit changes no transaction.
LEMMA PoolCommits ==
  ASSUME Pool, OnCommit
  PROVE  Pool'
<1>1. PICK i \in DOMAIN chain : /\ chain[i].commits < Quorum
                                /\ chain' = [chain EXCEPT ![i].commits = @ + 1]
                                /\ UNCHANGED <<setting, mempool>>
  BY DEF OnCommit
<1>2. chain \in Seq(BlockType) /\ i \in 1 .. Len(chain) /\ DOMAIN chain = 1 .. Len(chain)
  BY DEF Pool, Sound
<1>3. ASSUME NEW j \in DOMAIN chain
      PROVE  chain'[j] \in BlockType /\ chain'[j].txs = chain[j].txs
  <2>1. chain[j] \in BlockType
    BY <1>2, <1>3
  <2>2. chain'[j] = IF j = i THEN [chain[j] EXCEPT !.commits = @ + 1] ELSE chain[j]
    BY <1>1, <1>2, <1>3
  <2>3. chain[i].commits + 1 \in 1 .. Quorum
    <3>1. chain[i] \in BlockType
      BY <1>2
    <3>2. chain[i].commits \in 1 .. Quorum
      BY <3>1 DEF BlockType
    <3> QED BY <1>1, <3>2, EconomyAssumption
  <2> QED BY <2>1, <2>2, <2>3 DEF BlockType
<1>4. DOMAIN chain' = DOMAIN chain /\ chain' \in Seq(BlockType)
  <2>1. DOMAIN chain' = 1 .. Len(chain) /\ chain' = [j \in 1 .. Len(chain) |-> chain'[j]]
    BY <1>1, <1>2
  <2> QED BY <1>2, <1>3, <2>1
<1>5. Committed(chain)' = Committed(chain)
  BY <1>3, <1>4 DEF Committed
<1>6. Fresh(chain)'
  <2> SUFFICES ASSUME NEW a \in DOMAIN chain, NEW j \in 1 .. (a - 1)
               PROVE  chain'[a].txs \cap chain'[j].txs = {}
    BY <1>4 DEF Fresh
  <2>1. j \in DOMAIN chain
    BY <1>2
  <2> QED BY <2>1, <1>3 DEF Pool, Sound, Fresh
<1>7. BlockType' = BlockType /\ Known' = Known
  BY <1>1 DEF BlockType, Known
<1>8. Sound(chain)'
  BY <1>4, <1>5, <1>6, <1>7 DEF Pool, Sound, Fundable
<1> QED BY <1>1, <1>5, <1>7, <1>8 DEF Pool, Fundable

LEMMA PoolSame ==
  ASSUME Pool, UNCHANGED <<setting, mempool, chain>>
  PROVE  Pool'
<1>1. Sound(chain)'
  BY SoundNext DEF Pool
<1> QED BY <1>1 DEF Pool, Known, Fundable, Committed

LEMMA PoolStep == Pool /\ [Next]_vars => Pool'
<1> SUFFICES ASSUME Pool, [Next]_vars PROVE Pool'
  OBVIOUS
<1>1. CASE NodeNext
  <2>1. ASSUME PassTime \/ IssueReviewerVC \/ CredentialChallenge
        PROVE  UNCHANGED <<setting, mempool, chain>>
    BY <2>1 DEF PassTime, IssueReviewerVC, CredentialChallenge
  <2>2. ASSUME NEW t \in setting.posted, NEW p, SubmitAttestation(t, p)
        PROVE  Pool'
    <3>1. CASE usable(store, p.challenge, now)
      BY <2>2, <3>1, PoolReceives DEF SubmitAttestation, Admit, Known
    <3>2. CASE ~usable(store, p.challenge, now)
      BY <2>2, <3>2, PoolSame DEF SubmitAttestation
    <3> QED BY <3>1, <3>2
  <2>3. ASSUME NEW t \in Known, NEW p, Receive(t, p)
        PROVE  Pool'
    BY <2>3, PoolReceives DEF Receive
  <2>4. ASSUME NEW t \in setting.posted, SubmitWork(t)
        PROVE  Pool'
    BY <2>3, <2>4 DEF SubmitWork, Known
  <2>5. ASSUME NEW t \in setting.gossiped, OnTransaction(t)
        PROVE  Pool'
    BY <2>3, <2>5 DEF OnTransaction, Known
  <2>6. CASE Mine
    BY <2>6, PoolMines
  <2>7. CASE OnBlock
    <3>1. chain \in Seq(BlockType)
      BY DEF Pool, Sound
    <3>2. Len(chain) \in 0 .. Len(chain)
      BY <3>1
    <3> QED BY <2>7, <3>2, PoolAdopts DEF OnBlock
  <2>8. CASE OnChainResponse
    <3>1. chain \in Seq(BlockType)
      BY DEF Pool, Sound
    <3>2. PICK k \in 0 .. Len(chain) - 1 :
            \E c \in PeerChains(k) : is_valid_chain(c) /\ Adopt(c)
      BY <2>8 DEF OnChainResponse, Preferred
    <3>3. k \in 0 .. Len(chain)
      BY <3>1
    <3> QED BY <3>2, <3>3, PoolAdopts
  <2>9. CASE OnCommit
    BY <2>9, PoolCommits
  <2> QED BY <1>1, <2>1, <2>2, <2>4, <2>5, <2>6, <2>7, <2>8, <2>9, PoolSame DEF NodeNext
<1>2. CASE PushNext
  <2>1. UNCHANGED <<setting, mempool, chain>>
    BY <1>2 DEF PushNext, Connect, Greet, Leave, SendTo, Tick, NextEvent, node
  <2> QED BY <2>1, PoolSame
<1>3. CASE UNCHANGED vars
  BY <1>3, PoolSame DEF vars, node
<1> QED BY <1>1, <1>2, <1>3 DEF Next, NodeStep

LEMMA PoolInvariant == Spec => []Pool
<1>1. Init => Pool
  <2> SUFFICES ASSUME Init PROVE Pool
    OBVIOUS
  <2>1. setting \in Settings /\ chain = <<>> /\ mempool = {}
    BY DEF Init, NodeInit
  <2>2. Committed(chain) = {} /\ Fresh(chain) /\ chain \in Seq(BlockType)
    BY <2>1 DEF Committed, Fresh
  <2> QED BY <2>1, <2>2, FS_EmptySet DEF Pool, Sound, Fundable
<1> QED BY <1>1, PoolStep, PTL DEF Spec

(***************************************************************************)
(* A block that overdraws a reviewer does so with what the reviewer bonds   *)
(* in it and below it. One bond by itself could be funded, so there are two.*)
(***************************************************************************)
THEOREM OverdraftTakesTwoBonds == Spec => []OneBondIsSafe
<1>1. ASSUME Pool, ~is_valid_chain(chain) PROVE OneBondIsSafe
  <2>1. /\ chain \in Seq(BlockType) /\ IsFiniteSet(Committed(chain))
        /\ Committed(chain) \subseteq Known /\ setting \in Settings
    BY <1>1, CommittedKnown DEF Pool, Sound
  <2>2. PICK i \in DOMAIN chain, p \in Person :
          ~(Stakes(Bonds(chain[i].txs, p)) <= free(SubSeq(chain, 1, i - 1), p))
    BY <1>1 DEF is_valid_chain
  <2> DEFINE B == Bonds(Committed(chain), p)
  <2> PICK d : d = SubSeq(chain, 1, i - 1)
    OBVIOUS
  <2> PICK X : X = Bonds(chain[i].txs, p)
    OBVIOUS
  <2> PICK Y : Y = Bonds(Committed(d), p)
    OBVIOUS
  <2>3. /\ d \in Seq(BlockType) /\ Len(d) = i - 1 /\ \A j \in 1 .. (i - 1) : d[j] = chain[j]
        /\ Committed(d) \subseteq Committed(chain) /\ chain[i].txs \subseteq Committed(chain)
    <3>1. i \in 1 .. Len(chain) /\ i - 1 \in 0 .. Len(chain)
      BY <2>1
    <3> QED BY <2>1, <3>1, Cut, CommittedBlocks
  <2>4. IsFiniteSet(Committed(d)) /\ IsFiniteSet(chain[i].txs)
    BY <2>1, <2>3, FS_Subset
  <2>5. /\ IsFiniteSet(X) /\ Stakes(X) \in Nat /\ IsFiniteSet(Y) /\ Stakes(Y) \in Nat
        /\ \A t \in X \cup Y : t.stake \in Nat
    <3>1. Committed(d) \in SUBSET Known /\ chain[i].txs \in SUBSET Known
      BY <2>1, <2>3
    <3> QED BY <2>1, <2>4, <3>1, BondStakes
  <2>6. X \cap Y = {}
    <3> SUFFICES ASSUME NEW t \in chain[i].txs, t \in Committed(d)
                 PROVE  FALSE
      BY DEF Bonds, BondsOf
    <3>1. PICK j \in 1 .. (i - 1) : t \in chain[j].txs
      BY <2>3, CommittedBlocks
    <3>2. chain[i].txs \cap chain[j].txs = {}
      BY <1>1 DEF Pool, Sound, Fresh
    <3> QED BY <3>1, <3>2
  <2>7. Stakes(X \cup Y) = Stakes(X) + Stakes(Y)
    BY <2>5, <2>6, StakesDisjoint
  <2>8. X \cup Y \subseteq B
    BY <2>3 DEF Bonds, BondsOf
  <2>9. \A t \in B : t.stake <= Endowment[p] /\ t.type = "attestation" /\ t.sender = p
    BY <1>1 DEF Bonds, BondsOf, Pool, Sound, Fundable
  <2>10. Stakes(X) + Stakes(Y) > Endowment[p] /\ Endowment[p] \in Nat
    BY <2>2, <2>5, EconomyAssumption DEF free
  <2>11. IsFiniteSet(B)
    BY <2>1, BondStakes
  <2>12. ASSUME ~(Cardinality(B) > 1) PROVE FALSE
    <3>1. Cardinality(B) = 0 \/ Cardinality(B) = 1
      BY <2>11, <2>12, FS_CardinalityType
    <3>2. CASE B = {}
      <4>1. Stakes(X \cup Y) = 0
        BY <2>8, <3>2, StakesOfNone
      <4> QED BY <2>5, <2>7, <2>10, <4>1
    <3>3. ASSUME NEW t, B = {t} PROVE FALSE
      <4>1. t.stake <= Endowment[p] /\ t.stake \in Nat
        <5>1. t \in Committed(chain)
          BY <3>3 DEF Bonds, BondsOf
        <5> QED BY <2>1, <2>9, <3>3, <5>1, TxFields
      <4>2. X \cup Y = {} \/ X \cup Y = {t}
        BY <2>8, <3>3
      <4>3. Stakes(X \cup Y) = 0 \/ Stakes(X \cup Y) = t.stake
        BY <4>1, <4>2, StakesOfNone, StakesOfOne
      <4> QED BY <2>7, <2>10, <4>1, <4>3
    <3> QED BY <2>11, <3>1, <3>2, <3>3, FS_EmptySet, FS_Singleton
  <2> QED BY <2>9, <2>12 DEF OneBondIsSafe
<1>2. Pool => OneBondIsSafe
  BY <1>1 DEF OneBondIsSafe
<1> QED BY <1>2, PoolInvariant, PTL

-----------------------------------------------------------------------------
(***************************************************************************)
(* Types: of the clock, the wallets and the record of what challenges let   *)
(* in, then of what is sent to browsers, where every event is of a          *)
(* category.                                                                *)
(***************************************************************************)
Entry == [tx : setting.posted, challenge : DOMAIN issuedAt, at : 0 .. now]

Desk ==
  /\ now \in 0 .. setting.MaxTime
  /\ wallet \subseteq Credential
  /\ issuedAt \in Seq(0 .. setting.MaxTime)
  /\ admitted \subseteq Entry

LEMMA DeskStep ==
  ASSUME Pool, Desk, [Next]_vars
  PROVE  Desk'
<1> PICK n \in Nat : n = setting.MaxTime
  BY SettingAssumption DEF Pool
<1>1. /\ now \in 0 .. n /\ issuedAt \in Seq(0 .. n) /\ wallet \subseteq Credential
  BY DEF Desk
<1>2. setting' = setting
  BY DEF Next, NodeStep, vars, node, NodeNext, PassTime, IssueReviewerVC, CredentialChallenge,
         SubmitAttestation, SubmitWork, OnTransaction, Receive, Mine, OnBlock, OnChainResponse,
         Adopt, OnCommit, PushNext, Connect, Greet, Leave, SendTo, Tick, NextEvent
<1>3. ASSUME UNCHANGED <<now, wallet, issuedAt, admitted>> PROVE Desk'
  BY <1>2, <1>3 DEF Desk, Entry
<1>4. CASE PassTime
  <2>1. now' = now + 1 /\ now < n /\ UNCHANGED <<wallet, issuedAt, admitted>>
    BY <1>4 DEF PassTime
  <2>2. now' \in 0 .. n /\ 0 .. now \subseteq 0 .. now'
    BY <1>1, <2>1
  <2> QED BY <1>2, <2>1, <2>2 DEF Desk, Entry
<1>5. CASE IssueReviewerVC
  <2>1. PICK p \in Person, D \in (SUBSET Domain) \ {{}}, validity \in setting.validities :
          /\ validity > 0
          /\ wallet' = wallet \cup {issue_reviewer_credential(AUTHORITY, p, D, now, validity)}
          /\ UNCHANGED <<now, issuedAt, admitted>>
    BY <1>5 DEF IssueReviewerVC
  <2>2. validity \in Int /\ now + validity \in Nat /\ now \in Nat
    BY <1>1, <2>1, SettingAssumption DEF Pool
  <2>3. issue_reviewer_credential(AUTHORITY, p, D, now, validity) \in Credential
    BY <2>2, IssuerAssumption DEF issue_reviewer_credential, Credential
  <2> QED BY <1>2, <2>1, <2>3 DEF Desk, Entry
<1>6. CASE CredentialChallenge
  <2>1. issuedAt' = Append(issuedAt, now) /\ UNCHANGED <<now, wallet, admitted>>
    BY <1>6 DEF CredentialChallenge
  <2>2. issuedAt' \in Seq(0 .. n) /\ DOMAIN issuedAt \subseteq DOMAIN issuedAt'
    BY <1>1, <2>1
  <2> QED BY <1>2, <2>1, <2>2 DEF Desk, Entry
<1>7. ASSUME NEW t \in setting.posted, NEW p \in Presentations(t.sender, DOMAIN issuedAt),
             SubmitAttestation(t, p)
      PROVE  Desk'
  <2>1. p.challenge \in DOMAIN issuedAt /\ now \in 0 .. now
    BY <1>1 DEF Presentations, make_presentation
  <2>2. UNCHANGED <<now, wallet, issuedAt>>
    BY <1>7 DEF SubmitAttestation
  <2>3. \/ admitted' = admitted
        \/ admitted' = admitted \cup {[tx |-> t, challenge |-> p.challenge, at |-> now]}
    BY <1>7 DEF SubmitAttestation, Admit
  <2>4. [tx |-> t, challenge |-> p.challenge, at |-> now] \in Entry
    BY <2>1 DEF Entry
  <2> QED BY <1>2, <2>2, <2>3, <2>4 DEF Desk, Entry
<1>8. ASSUME NEW t, SubmitWork(t) \/ OnTransaction(t) PROVE Desk'
  BY <1>3, <1>8 DEF SubmitWork, OnTransaction, Receive
<1>9. CASE Mine \/ OnBlock \/ OnChainResponse \/ OnCommit
  BY <1>3, <1>9 DEF Mine, OnBlock, OnChainResponse, OnCommit, Adopt
<1>10. CASE PushNext \/ UNCHANGED vars
  BY <1>3, <1>10 DEF PushNext, Connect, Greet, Leave, SendTo, Tick, NextEvent, node, vars
<1> QED BY <1>4, <1>5, <1>6, <1>7, <1>8, <1>9, <1>10 DEF Next, NodeStep, NodeNext

Message == [type : Category, value : Seq(BlockType) \cup (SUBSET Known) \cup [Person -> Int]]

Screens ==
  /\ clients \cup closed \subseteq setting.visitors
  /\ to \subseteq clients
  /\ event.type \in Category
  /\ todo \in Seq(Category)
  /\ DOMAIN greeting = Visitor /\ DOMAIN shown = Visitor
  /\ \A c \in Visitor : /\ greeting[c] \in Seq(Message) /\ Len(greeting[c]) <= 3
                        /\ DOMAIN shown[c] \subseteq Category

\* What a poll returns, and so what is sent.
LEMMA Polled ==
  ASSUME Pool, NEW k \in Category
  PROVE  Event(k) \in Message /\ Event(k).type = k
<1>1. chain \in Seq(BlockType) /\ mempool \in SUBSET Known
  BY DEF Pool, Sound
<1>2. [p \in Person |-> free(chain, p)] \in [Person -> Int]
  <2> SUFFICES ASSUME NEW p \in Person PROVE free(chain, p) \in Int
    OBVIOUS
  <2>1. Stakes(Bonds(Committed(chain), p)) \in Nat
    BY <1>1, CommittedKnown, BondStakes DEF Pool, Sound
  <2> QED BY <2>1, EconomyAssumption DEF free
<1>3. State[k] \in Seq(BlockType) \cup (SUBSET Known) \cup [Person -> Int]
  <2>1. /\ State["chain"] = chain /\ State["mempool"] = mempool
        /\ State["balances"] = [p \in Person |-> free(chain, p)]
    BY DEF State
  <2>2. CASE k = "chain"
    BY <1>1, <2>1, <2>2
  <2>3. CASE k = "mempool"
    BY <1>1, <2>1, <2>3
  <2>4. CASE k = "balances"
    BY <1>2, <2>1, <2>4
  <2> QED BY <2>2, <2>3, <2>4 DEF Category
<1> QED BY <1>3 DEF Event, Message

\* A client that is sent a message shows it under its category.
LEMMA Shows ==
  ASSUME Screens, NEW c \in Visitor, NEW e, e.type \in Category, shown' = Replace(c, e)
  PROVE  DOMAIN shown' = Visitor /\ \A v \in Visitor : DOMAIN shown'[v] \subseteq Category
<1>1. DOMAIN shown' = Visitor /\ \A v \in Visitor \ {c} : shown'[v] = shown[v]
  BY DEF Replace, Screens
<1>2. DOMAIN shown'[c] = DOMAIN shown[c] \cup {e.type}
  BY DEF Replace, Screens
<1> QED BY <1>1, <1>2 DEF Screens

LEMMA BroadcastTypes ==
  ASSUME Pool, Screens, NEW L \in Seq(Category), L # <<>>, Broadcast(L)
  PROVE  todo' \in Seq(Category) /\ event'.type \in Category /\ to' = clients
<1>1. Head(L) \in Category /\ Tail(L) \in Seq(Category)
  OBVIOUS
<1> QED BY <1>1, Polled DEF Broadcast

LEMMA ScreensSame ==
  ASSUME Screens, setting' = setting, UNCHANGED push
  PROVE  Screens'
BY DEF Screens, push, Message, BlockType, Known

LEMMA ScreensStep ==
  ASSUME Pool, Screens, [Next]_vars
  PROVE  Screens'
<1>1. setting' = setting
  BY DEF Next, NodeStep, vars, node, NodeNext, PassTime, IssueReviewerVC, CredentialChallenge,
         SubmitAttestation, SubmitWork, OnTransaction, Receive, Mine, OnBlock, OnChainResponse,
         Adopt, OnCommit, PushNext, Connect, Greet, Leave, SendTo, Tick, NextEvent
<1>2. Message' = Message
  BY <1>1 DEF Message, BlockType, Known
<1>3. setting.visitors \subseteq Visitor
  BY VisitorAssumption DEF Pool
<1> USE <1>1, <1>2
<1>4. ASSUME NEW c \in setting.visitors, Connect(c) PROVE Screens'
  <2> PICK g : g = [i \in DOMAIN Categories |-> Event(Categories[i])]
    OBVIOUS
  <2>1. g \in Seq(Message) /\ Len(g) = 3
    <3>1. DOMAIN Categories = 1 .. 3 /\ \A i \in 1 .. 3 : Categories[i] \in Category
      BY DEF Categories, Category
    <3>2. \A i \in 1 .. 3 : Event(Categories[i]) \in Message
      BY <3>1, Polled
    <3> QED BY <3>1, <3>2
  <2>2. /\ clients' = clients \cup {c} /\ greeting' = [greeting EXCEPT ![c] = g]
        /\ UNCHANGED <<closed, shown, todo, event, to>>
    BY <1>4 DEF Connect
  <2> QED BY <2>1, <2>2 DEF Screens
<1>5. ASSUME NEW c \in setting.visitors, Greet(c) PROVE Screens'
  <2>1. /\ greeting[c] # <<>> /\ greeting' = [greeting EXCEPT ![c] = Tail(@)]
        /\ shown' = Replace(c, Head(greeting[c]))
        /\ UNCHANGED <<clients, closed, todo, event, to>>
    BY <1>5 DEF Greet
  <2>2. c \in Visitor /\ greeting[c] \in Seq(Message) /\ Len(greeting[c]) <= 3
    BY <1>3 DEF Screens
  <2>3. /\ Head(greeting[c]) \in Message /\ Tail(greeting[c]) \in Seq(Message)
        /\ Len(Tail(greeting[c])) <= 3
    BY <2>1, <2>2
  <2>4. DOMAIN shown' = Visitor /\ \A v \in Visitor : DOMAIN shown'[v] \subseteq Category
    BY <2>1, <2>2, <2>3, Shows DEF Message
  <2>5. DOMAIN greeting' = Visitor
        /\ \A v \in Visitor : greeting'[v] \in Seq(Message) /\ Len(greeting'[v]) <= 3
    BY <2>1, <2>2, <2>3 DEF Screens
  <2> QED BY <2>1, <2>4, <2>5 DEF Screens
<1>6. ASSUME NEW c \in setting.visitors, Leave(c) PROVE Screens'
  <2>1. /\ clients' = clients \ {c} /\ closed' = closed \cup {c} /\ to' = to \ {c}
        /\ greeting' = [greeting EXCEPT ![c] = <<>>] /\ shown' = [shown EXCEPT ![c] = <<>>]
        /\ todo' = todo /\ (event' = event \/ event' = Nothing)
    BY <1>6 DEF Leave, StillTo
  <2>2. event'.type \in Category
    BY <2>1 DEF Screens, Nothing, Category
  <2>3. <<>> \in Seq(Message) /\ Len(<<>>) <= 3
    OBVIOUS
  <2>4. \A v \in Visitor : DOMAIN shown'[v] \subseteq Category
    BY <2>1 DEF Screens
  <2>5. DOMAIN greeting' = Visitor
        /\ \A v \in Visitor : greeting'[v] \in Seq(Message) /\ Len(greeting'[v]) <= 3
    BY <2>1, <2>3 DEF Screens
  <2> QED BY <2>1, <2>2, <2>4, <2>5 DEF Screens
<1>7. ASSUME NEW c \in setting.visitors, SendTo(c) PROVE Screens'
  <2>1. /\ shown' = Replace(c, event) /\ to' = to \ {c}
        /\ (event' = event \/ event' = Nothing)
        /\ UNCHANGED <<clients, closed, greeting, todo>>
    BY <1>7 DEF SendTo, StillTo
  <2>2. event'.type \in Category
    BY <2>1 DEF Screens, Nothing, Category
  <2>3. DOMAIN shown' = Visitor /\ \A v \in Visitor : DOMAIN shown'[v] \subseteq Category
    BY <1>3, <2>1, Shows DEF Screens
  <2> QED BY <2>1, <2>2, <2>3 DEF Screens
<1>8. CASE Tick
  <2>1. Changed(State) \in Seq(Category)
    <3> DEFINE moved(k) == IF FingerprintsOf(State)[k] # last[k] THEN <<k>> ELSE <<>>
    <3>1. Changed(State) = moved("chain") \o moved("mempool") \o moved("balances")
      BY DEF Changed
    <3>2. \A k \in Category : moved(k) \in Seq(Category)
      OBVIOUS
    <3> HIDE DEF moved
    <3>3. /\ moved("chain") \in Seq(Category) /\ moved("mempool") \in Seq(Category)
          /\ moved("balances") \in Seq(Category)
      BY <3>2 DEF Category
    <3> QED BY <3>1, <3>3
  <2>2. UNCHANGED <<clients, closed, greeting, shown>>
    BY <1>8 DEF Tick
  <2>3. CASE clients = {} \/ Changed(State) = <<>>
    BY <1>8, <2>2, <2>3 DEF Tick, Screens
  <2>4. CASE clients # {} /\ Changed(State) # <<>>
    <3>1. todo' \in Seq(Category) /\ event'.type \in Category /\ to' = clients
      BY <1>8, <2>1, <2>4, BroadcastTypes DEF Tick
    <3> QED BY <2>2, <3>1 DEF Screens
  <2> QED BY <2>3, <2>4
<1>9. CASE NextEvent
  <2>1. UNCHANGED <<clients, closed, greeting, shown>>
    BY <1>9 DEF NextEvent
  <2>2. todo' \in Seq(Category) /\ event'.type \in Category /\ to' = clients
    BY <1>9, BroadcastTypes DEF NextEvent, Screens
  <2> QED BY <2>1, <2>2 DEF Screens
<1>10. CASE NodeStep \/ UNCHANGED vars
  BY <1>10, ScreensSame DEF NodeStep, vars
<1> QED BY <1>4, <1>5, <1>6, <1>7, <1>8, <1>9, <1>10 DEF Next, PushNext

\* Every variable of the bridge keeps its type, and a transaction is in the
\* mempool or in one block, and nowhere else.
THEOREM BridgeTypes == Spec => []TypeOK
<1> DEFINE Inv == IInv /\ Pool /\ Desk /\ Screens
<1>1. Init => Inv
  <2> SUFFICES ASSUME Init PROVE Inv
    OBVIOUS
  <2>1. IInv
    BY Initially
  <2>2. setting \in Settings /\ chain = <<>> /\ mempool = {}
    BY DEF Init, NodeInit
  <2>3. Pool
    <3>1. Committed(chain) = {} /\ Fresh(chain) /\ chain \in Seq(BlockType)
      BY <2>2 DEF Committed, Fresh
    <3> QED BY <2>2, <3>1, FS_EmptySet DEF Pool, Sound, Fundable
  <2>4. Desk
    BY <2>2, TrustAssumption, SettingAssumption DEF Init, NodeInit, Desk
  <2>5. Screens
    BY <2>2 DEF Init, PushInit, Screens, Nothing, Category
  <2> QED BY <2>1, <2>3, <2>4, <2>5
<1>2. Inv /\ [Next]_vars => Inv'
  BY Step, PoolStep, DeskStep, ScreensStep
<1>3. Inv => TypeOK
  <2> SUFFICES ASSUME Inv PROVE TypeOK
    OBVIOUS
  <2>1. /\ setting \in Settings /\ now \in 0 .. setting.MaxTime
        /\ wallet \subseteq Credential /\ issuedAt \in Seq(0 .. setting.MaxTime)
        /\ mempool \subseteq setting.posted \cup setting.gossiped
        /\ admitted \subseteq [tx : setting.posted, challenge : DOMAIN issuedAt, at : 0 .. now]
    BY DEF Pool, Desk, Entry, Known
  <2>2. /\ DOMAIN store \subseteq DOMAIN issuedAt
        /\ \A c \in DOMAIN store : store[c] \in 0 .. setting.MaxTime + TTL
    <3> SUFFICES ASSUME NEW c \in DOMAIN store
                 PROVE  store[c] \in 0 .. setting.MaxTime + TTL
      BY DEF IInv, Held
    <3>1. c \in DOMAIN issuedAt /\ store[c] = issuedAt[c] + TTL
      BY DEF IInv, Held, Expiry
    <3>2. issuedAt[c] \in 0 .. setting.MaxTime
      <4> PICK S : S = 0 .. setting.MaxTime
        OBVIOUS
      <4>1. issuedAt \in Seq(S)
        BY <2>1
      <4>2. c \in DOMAIN issuedAt
        BY <3>1
      <4>3. issuedAt[c] \in S
        BY <4>1, <4>2, SeqElement
      <4> QED BY <4>3
    <3> QED BY <2>1, <3>1, <3>2, TTLAssumption, SettingAssumption
  <2>3. ASSUME NEW i \in DOMAIN chain
        PROVE  /\ chain[i].hash \in 1 .. setting.MaxHash /\ chain[i].commits \in 1 .. Quorum
               /\ chain[i].txs \subseteq (setting.posted \cup setting.gossiped) \ mempool
               /\ \A j \in 1 .. (i - 1) : chain[i].txs \cap chain[j].txs = {}
    <3>1. chain \in Seq(BlockType) /\ chain[i] \in BlockType
      BY DEF Pool, Sound
    <3>2. chain[i].txs \subseteq Committed(chain)
      BY DEF Committed
    <3> QED BY <3>1, <3>2 DEF BlockType, Known, Pool, Sound, Fresh
  <2>4. /\ clients \cup closed \subseteq setting.visitors /\ to \subseteq clients
        /\ \A c \in Visitor : DOMAIN shown[c] \subseteq Category /\ Len(greeting[c]) <= 3
    BY DEF Screens
  <2> QED BY <2>1, <2>2, <2>3, <2>4 DEF TypeOK
<1> QED BY <1>1, <1>2, <1>3, PTL DEF Spec
=============================================================================
