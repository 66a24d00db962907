------------------------------ MODULE Blockchain ------------------------------
(***************************************************************************)
(* One node's chain, as blockchain/blockchain.py judges it: the validator   *)
(* set a block is measured against, the proposer schedule, BFT finality,    *)
(* chain validity and the fork choice. Everything here is a pure function   *)
(* of a chain; module Community keeps the state.                            *)
(*                                                                          *)
(* Abstractions.                                                            *)
(*  - SHA-256 is collision free, so a hash names one block and everything   *)
(*    the block commits to. `made' maps each hash produced so far to that   *)
(*    content. A hash is a number because fork choice compares hashes.      *)
(*  - previous_hash names a block and so, link by link, the whole chain     *)
(*    below it: it is modelled by that chain, in the field `previous'.      *)
(*  - A chain is the sequence of the hashes above genesis: c[i] is the      *)
(*    block of index i, and len(blocks) is Len(c) + 1.                      *)
(*  - Commit signatures ride on a node's own copy of a block, outside the   *)
(*    hash: k[h] is the set of signers on the copy of h that goes with c.   *)
(*  - Signatures are unforgeable, and transactions are members of Tx, each  *)
(*    valid on its own wherever a node can place it.                        *)
(***************************************************************************)
EXTENDS Integers, FiniteSets, Sequences, FiniteSetsExt

CONSTANTS
  Node,               \* the public keys of the nodes; sorted() is < on them
  Hash,               \* the block hashes there are, ordered as hex strings are
  Tx,                 \* the transactions there are
  ValidatorsAfter(_)  \* the validators that the transactions of a prefix imply

(***************************************************************************)
(* Keys and hashes are totally ordered, like the hex strings they stand     *)
(* for. The validator set is derived from the prefix alone: the anchor's    *)
(* consensus authorities and whoever the prefix promotes.                   *)
(***************************************************************************)
ASSUME NodeAssumption == Node \subseteq Nat /\ IsFiniteSet(Node)
ASSUME HashAssumption == Hash \subseteq Nat
ASSUME ValidatorsAssumption == \A T \in SUBSET Tx : ValidatorsAfter(T) \subseteq Node

(***************************************************************************)
(* What a hash commits to (producer, previous_hash, transactions, view),    *)
(* with the view-change votes the producer attached as justification.       *)
(***************************************************************************)
Block == [producer : Node,
          previous : Seq(Hash),
          txs : SUBSET Tx,
          view : Nat,
          justification : SUBSET Node]

\* With a bug: half the validators are a quorum.
quorum_size_half(n) == n \div 2

quorum_size(n) == (2 * n) \div 3 + 1

\* p is the validator that sorted(V)[(height + view) % len(V)] names.
IsScheduled(V, p, height, view) ==
  /\ p \in V
  /\ Cardinality({q \in V : q < p}) = (height + view) % Cardinality(V)

-----------------------------------------------------------------------------
\* The transactions of the blocks below index i.
PrefixTxs(made, c, i) == UNION {made[c[j]].txs : j \in 1 .. (i - 1)}

validator_set(made, c, i) == ValidatorsAfter(PrefixTxs(made, c, i))

\* The signers on a block's copy that are validators for it.
ValidCommits(made, c, k, i) == k[c[i]] \cap validator_set(made, c, i)

HasQuorum(S, V) == V # {} /\ Cardinality(S \cap V) >= quorum_size(Cardinality(V))

is_final(made, c, k, i) == HasQuorum(k[c[i]], validator_set(made, c, i))

FinalizedIndices(made, c, k) == {i \in 1 .. Len(c) : is_final(made, c, k, i)}

FinalizedHeight(made, c, k) == Max({0} \cup FinalizedIndices(made, c, k))

-----------------------------------------------------------------------------
(***************************************************************************)
(* Chain validity. `Transactions are valid on their own' leaves the checks  *)
(* that concern the block itself: its link, its turn, the justification of  *)
(* a view above 0, and that no commit on it comes from a non-validator.     *)
(***************************************************************************)
ValidBlock(made, c, k, i) ==
  LET b == made[c[i]]
      V == validator_set(made, c, i)
  IN /\ b.previous = SubSeq(c, 1, i - 1)
     /\ IsScheduled(V, b.producer, i, b.view)
     /\ b.view > 0 => HasQuorum(b.justification, V)
     /\ k[c[i]] \subseteq V

is_valid_chain(made, c, k) == \A i \in 1 .. Len(c) : ValidBlock(made, c, k, i)

-----------------------------------------------------------------------------
(***************************************************************************)
(* Fork choice between our chain c (copies k) and a candidate d (copies l). *)
(***************************************************************************)
TipCommitWeight(made, c, k) ==
  IF c = <<>> THEN 0 ELSE Cardinality(ValidCommits(made, c, k, Len(c)))

RevertsOurFinality(made, c, k, d) ==
  \E i \in FinalizedIndices(made, c, k) : i > Len(d) \/ d[i] # c[i]

\* With a bug: finality does not count.
fork_choice_rank_length(made, c, k) == <<0, Len(c), TipCommitWeight(made, c, k)>>

\* _fork_choice_rank: finalized height, then length, then commits on the tip.
fork_choice_rank(made, c, k) ==
  <<FinalizedHeight(made, c, k), Len(c), TipCommitWeight(made, c, k)>>

\* Tuple comparison, and between equal ranks the lower tip hash.
RankBelow(r, s) ==
  \/ r[1] < s[1]
  \/ r[1] = s[1] /\ r[2] < s[2]
  \/ r[1] = s[1] /\ r[2] = s[2] /\ r[3] < s[3]

LowerTip(d, c) == c # <<>> /\ d # <<>> /\ d[Len(d)] < c[Len(c)]

Outranks(made, c, k, d, l) ==
  LET ours == fork_choice_rank(made, c, k)
      theirs == fork_choice_rank(made, d, l)
  IN RankBelow(ours, theirs) \/ (ours = theirs /\ LowerTip(d, c))

\* With a bug: the longest valid chain wins.
Adopts_longest(made, c, k, d, l) == is_valid_chain(made, d, l) /\ Len(d) > Len(c)

\* The three conditions under which replace_chain adopts the candidate.
Adopts(made, c, k, d, l) ==
  /\ is_valid_chain(made, d, l)
  /\ ~ RevertsOurFinality(made, c, k, d)
  /\ Outranks(made, c, k, d, l)
=============================================================================
