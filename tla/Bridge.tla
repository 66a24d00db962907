------------------------------- MODULE Bridge -------------------------------
(***************************************************************************)
(* A node's HTTP bridge: what clients post to it, what its peers send it,   *)
(* and what it pushes to browsers, and what a client may rely on.           *)
(***************************************************************************)
EXTENDS LivePush

VARIABLE
  past    \* past[k]: what the category k was before, as far as clients looked on

vars == <<node, push, past>>

\* A state of the node by category, without the commits.
Hashes(s) == [s EXCEPT !.chain = Hashed(@)]

Init ==
  /\ NodeInit
  /\ PushInit
  /\ past = [k \in Category |-> {}]

NodeStep ==
  /\ NodeNext
  /\ past' = [k \in Category |->
                IF clients = {} \/ Hashes(State)'[k] = Hashes(State)[k] THEN past[k]
                ELSE past[k] \cup {Hashes(State)[k]}]
  /\ UNCHANGED push

Next == NodeStep \/ (PushNext /\ UNCHANGED past)

(***************************************************************************)
(* The watcher's loop and every send go on: the event loop runs each task   *)
(* that is ready, and a client that stays connected reads.                  *)
(***************************************************************************)
Fairness ==
  /\ WF_vars(Tick /\ UNCHANGED past)
  /\ WF_vars(NextEvent /\ UNCHANGED past)
  /\ \A c \in Visitor : /\ WF_vars(Greet(c) /\ UNCHANGED past)
                        /\ WF_vars(SendTo(c) /\ UNCHANGED past)

Spec == Init /\ [][Next]_vars /\ Fairness

-----------------------------------------------------------------------------

TypeOK ==
  /\ setting \in Settings /\ now \in 0 .. setting.MaxTime
  /\ wallet \subseteq Credential
  /\ issuedAt \in Seq(0 .. setting.MaxTime)
  /\ DOMAIN store \subseteq DOMAIN issuedAt
  /\ \A c \in DOMAIN store : store[c] \in 0 .. setting.MaxTime + TTL
  /\ mempool \subseteq setting.posted \cup setting.gossiped
  /\ \A i \in DOMAIN chain :
       /\ chain[i].hash \in 1 .. setting.MaxHash /\ chain[i].commits \in 1 .. Quorum
       /\ chain[i].txs \subseteq (setting.posted \cup setting.gossiped) \ mempool
       /\ \A j \in 1 .. (i - 1) : chain[i].txs \cap chain[j].txs = {}
  /\ admitted \subseteq [tx : setting.posted, challenge : DOMAIN issuedAt, at : 0 .. now]
  /\ clients \cup closed \subseteq setting.visitors /\ to \subseteq clients
  /\ \A c \in Visitor : DOMAIN shown[c] \subseteq Category /\ Len(greeting[c]) <= 3

(***************************************************************************)
(* A challenge lets one attestation in, once, while it has not expired. (A  *)
(* post that is retried in time, and one that comes late, are turned away.) *)
(***************************************************************************)
UsedOnce ==
  \A a \in admitted :
    /\ a.at <= issuedAt[a.challenge] + TTL
    /\ \A b \in admitted : b.challenge = a.challenge => b = a

(***************************************************************************)
(* A challenge that was issued and let nothing in is good until it expires: *)
(* no post that is refused, no other challenge and no purge takes it away.  *)
(* (`a failed attempt never burns a challenge', http_bridge.py:463.)        *)
(***************************************************************************)
GoodUntilUsed ==
  \A c \in DOMAIN issuedAt :
    now <= issuedAt[c] + TTL /\ (\A a \in admitted : a.challenge # c)
      => usable(store, c, now)

(***************************************************************************)
(* The gate funds each bond against the chain and not against the pool, and *)
(* Mine checks nothing, so the node can break its own chain. It takes one   *)
(* reviewer with two bonds, each of which could be funded: a reviewer who   *)
(* waits for one bond to settle never breaks a chain. (community.py:385.)   *)
(***************************************************************************)
OneBondIsSafe ==
  ~ is_valid_chain(chain) =>
    \E p \in Person : LET B == Bonds(Committed(chain), p)
                      IN  Cardinality(B) > 1 /\ \A t \in B : t.stake <= Endowment[p]

(***************************************************************************)
(* A category of a client's screen that agrees with the fingerprints, with  *)
(* no broadcast under way, keeps up with the node, whatever the node does,  *)
(* unless the node is back at what that category was before: then a change  *)
(* and its undoing between two looks of the watcher can go unseen.          *)
(* (push_updates, http_bridge.py:572.)                                      *)
(***************************************************************************)
Open(c) == c \in clients /\ greeting[c] = <<>> /\ DOMAIN shown[c] = Category

Synced(c, k) ==
  Open(c) /\ to = {} /\ todo = <<>> /\ FingerprintsOf(shown[c])[k] = last[k]

Current(c, k) == Open(c) /\ Hashes(shown[c])[k] = Hashes(State)[k]

Back(k) == Hashes(State)[k] \in past[k]

KeepsUp ==
  \A c \in Visitor, k \in Category :
    [](Synced(c, k) => []<>(Current(c, k) \/ Back(k) \/ c \in closed))

(***************************************************************************)
(* A client sees identical data whether it polls or subscribes, some time   *)
(* after it got its snapshot. (The claim of http_bridge.py:227. A commit    *)
(* changes what a poll says of a block, and no fingerprint; an event of the *)
(* snapshot can come after a newer one of a broadcast; and what changed     *)
(* before a client came, and changed back after, is not pushed.)            *)
(***************************************************************************)
PushedAsPolled ==
  \A c \in Visitor : [](Open(c) => <>(c \in closed \/ shown[c] = State))
=============================================================================
