------------------------------- MODULE Staking -------------------------------
(***************************************************************************)
(* The tokens that a set of bonds holds: b.stake of them for each bond b.   *)
(* The sum of the stakes is how many tokens there are, in which form it can *)
(* be reasoned about with what is known of finite sets.                     *)
(***************************************************************************)
EXTENDS Integers, FiniteSets

TokensOf(B) == UNION {{b} \X (1 .. b.stake) : b \in B}

Stakes(B) == Cardinality(TokensOf(B))

\* The bonds of a set that p posted.
BondsOf(B, p) == {b \in B : b.sender = p}
=============================================================================
