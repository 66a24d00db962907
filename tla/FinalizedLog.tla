----------------------------- MODULE FinalizedLog -----------------------------
(***************************************************************************)
(* What finality promises to the owner of one node, whatever the network    *)
(* does: the history it has seen finalized is an append-only log. Module    *)
(* Community implements this with chains, commit votes and fork choice.     *)
(***************************************************************************)
EXTENDS Sequences, SequencesExt

CONSTANTS Node, Hash

VARIABLE log  \* log[n]: the blocks node n holds as final, oldest first

Init == log = [n \in Node |-> <<>>]

\* Any logs may be extended; no entry of one is ever rewritten or dropped.
Next ==
  /\ log' \in [Node -> Seq(Hash)]
  /\ \A n \in Node : IsPrefix(log[n], log'[n])

Spec == Init /\ [][Next]_log
=============================================================================
