------------------------------ MODULE MCCommunity ------------------------------
(***************************************************************************)
(* Values of Community's constants for TLC.                                 *)
(***************************************************************************)
EXTENDS Community

\* Every node is everyone else's peer (demo.py introduces all pairs).
FullMesh == [n \in Node |-> Node \ {n}]

\* All nodes are genesis validators and nobody is promoted.
EveryNode(T) == Node

\* A partial mesh: only node 2 is a peer of the two others.
Line == [n \in Node |-> IF n = 2 THEN Node \ {2} ELSE {2}]

\* Node 2 is offline.
Without2 == [n \in Node |-> Node \ {2, n}]

\* Nodes 1 and 2 are the genesis validators and "promote" promotes node 3.
Promoting(T) == IF "promote" \in T THEN {1, 2, 3} ELSE {1, 2}

\* A new block gets the lowest unused hash.
LowestHash(S) == IF S = {} THEN {} ELSE {Min(S)}

\* Each node's timer fires once per height; or that of every node but 2.
Once == [n \in Node |-> 1]
OnceBut2 == [n \in Node |-> IF n = 2 THEN 0 ELSE 1]

\* Every message may arrive.
Everything(m) == TRUE

\* Commits are lost.
ButCommits(m) == m.type # "commit"

(***************************************************************************)
(* A lossy network of four. Nodes 2 and 3, who propose competing blocks,    *)
(* are not peers. Node 3 hears the view-change votes and serves its chain   *)
(* to 1 and 4; 2 hears the commits of 1 and 4 and the chain of 4, who hears *)
(* the commits of 1 and 3.                                                  *)
(***************************************************************************)
Split == [n \in Node |-> Node \ (IF n \in {2, 3} THEN {2, 3} ELSE {n})]

TwoCamps(m) ==
  CASE m.type = "viewchange" -> m.to = 3
    [] m.type = "commit" -> <<m.signer, m.to>> \in {<<1, 2>>, <<4, 2>>, <<1, 4>>, <<3, 4>>}
    [] m.type = "request" -> <<m.from, m.to>> \in {<<1, 3>>, <<4, 3>>, <<2, 4>>}
    [] OTHER -> TRUE

(***************************************************************************)
(* The partial mesh, on which commits are lost and only node 2 may fetch a  *)
(* chain, from node 1.                                                      *)
(***************************************************************************)
NoCommits(m) ==
  CASE m.type = "commit" -> FALSE
    [] m.type = "request" -> m.from = 2 /\ m.to = 1
    [] OTHER -> TRUE
=============================================================================
