------------------------------- MODULE Escrow -------------------------------
(***************************************************************************)
(* What the token economy promises: a stake is an escrow account. A bond is *)
(* posted out of free tokens and no others, and leaves escrow whole, once:  *)
(* back to its holder with one flat reward, or destroyed. Nothing else      *)
(* moves a token. There are no counters here to drift from the bonds, and   *)
(* nothing is ever clamped (reputation/balances.py: total, locked, free).   *)
(***************************************************************************)
EXTENDS Staking

CONSTANTS
  Holder,         \* who has an account
  Bond,           \* the bonds there may be, with fields sender and stake
  Endowment,      \* what each account starts with
  REVIEW_REWARD

VARIABLES
  free,    \* the tokens each account may bond
  held     \* the bonds in escrow

vars == <<free, held>>

Init ==
  /\ free = Endowment
  /\ held = {}

Post(b) ==
  /\ b \notin held
  /\ b.stake <= free[b.sender]
  /\ free' = [free EXCEPT ![b.sender] = @ - b.stake]
  /\ held' = held \cup {b}

\* The bonds of B go back to their holders, each of whom earns one reward.
Settle(B) ==
  /\ free' = [p \in Holder |->
                IF BondsOf(B, p) = {} THEN free[p]
                ELSE free[p] + Stakes(BondsOf(B, p)) + REVIEW_REWARD]
  /\ held' = held \ B

Forfeit(B) ==
  /\ free' = free
  /\ held' = held \ B

Next ==
  \/ \E b \in Bond : Post(b)
  \/ \E B \in SUBSET held : Settle(B) \/ Forfeit(B)

Spec == Init /\ [][Next]_vars
=============================================================================
