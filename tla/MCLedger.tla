------------------------------ MODULE MCLedger ------------------------------
(***************************************************************************)
(* Values of Ledger's constants for TLC. 1 and 5 are validators, 2 and 3    *)
(* review, 4 submits and is reviewed.                                       *)
(***************************************************************************)
EXTENDS Replay

Anchor == [p \in Person |->
             CASE p = 1 -> [consensus |-> 260, bio |-> 0]
               [] p = 5 -> [consensus |-> 100, bio |-> 0]
               [] p = 2 -> [consensus |-> 0, bio |-> 260]
               [] p = 3 -> [consensus |-> 0, bio |-> 120]
               [] p = 4 -> [consensus |-> 40, bio |-> 0]]

\* Reviewer 2 can fund two bonds of four and no more.
Tokens == [p \in Person |-> IF p = 2 THEN 8 ELSE 10]

About(p) == [subject |-> p, rubric |-> "r", domain |-> "bio"]

Review(p, q, work, verdict, n) ==
  [type |-> "attestation", sender |-> p, scope |-> About(q), submission |-> work,
   item |-> 1, verdict |-> verdict, stake |-> n, signed |-> TRUE]

Yes2 == Review(2, 4, "w1", "yes", 4)
Yes3 == Review(3, 4, "w1", "yes", 3)
No2  == Review(2, 4, "w1", "no", 4)
No3  == Review(3, 4, "w1", "no", 3)

\* Validator 1 reviews 4 in the consensus domain.
YesC1 == [Review(1, 4, "w1", "yes", 1) EXCEPT !.scope.domain = "consensus"]

\* Reviewer 2 reads the second version of the work and likes it.
Again2 == Review(2, 4, "w2", "yes", 1)
Abstain3 == Review(3, 4, "w1", "abstain", 0)

\* p approves of the work "w2" of q.
Vouch(p, q) == Review(p, q, "w2", "yes", 2)

Certifying(q, work, S, required) ==
  [type |-> "certificate", scope |-> About(q), submission |-> work,
   granted_by |-> S, required_items |-> required]

CertifyingC1 == [Certifying(4, "w1", {1}, {}) EXCEPT !.scope.domain = "consensus"]

Slashing(p, amount, evidence, S) ==
  [type |-> "slash", offender |-> p, domain |-> "bio", amount |-> amount,
   evidence |-> evidence, approvals |-> S]

Promoting(p, S) ==
  [type |-> "promotion", candidate |-> p, domain |-> "bio", approvals |-> S]

Work == [type |-> "submission", sender |-> 4, scope |-> About(4), artifact |-> "w1",
         signed |-> TRUE]

LongStory == {Promoting(2, {1, 5}), Promoting(3, {1, 5, 2})}

\* The validators who approved a slash are no quorum once 4 is an authority.
Takeover == {Yes2, No2, Slashing(2, 30, {Yes2, No2}, {1, 5}), Certifying(4, "w1", {2}, {}),
             YesC1, CertifyingC1}

(***************************************************************************)
(* The stories: in each, the transactions come in any order and any blocks. *)
(***************************************************************************)
Stories ==
  { \* Certificates, a slash of one who carried them, and the same slash again.
    {Yes2, Yes3, No2, Slashing(2, 30, {Yes2, No2}, {1, 5}),
     Slashing(2, 120, {Yes2, No2}, {1, 5}), Certifying(4, "w1", {2, 3}, {1}),
     Certifying(4, "w1", {2}, {})},
    Takeover,
    \* Two who vouch for each other, and the certificate they could carry.
    {Yes2, Yes3, Again2, Vouch(2, 3), Vouch(3, 2), Certifying(4, "w1", {2, 3}, {})},
    \* One who reviews his own work, tied to both others who do.
    {Vouch(2, 3), Vouch(5, 3), Vouch(3, 3), Vouch(3, 2), Vouch(3, 5),
     Certifying(3, "w2", {2, 3}, {1})},
    \* A reviewer who carries no weight until he is certified himself.
    {Yes2, Review(5, 4, "w1", "yes", 1), Vouch(2, 5), Certifying(5, "w2", {2}, {}),
     Certifying(4, "w1", {2}, {}), Certifying(4, "w1", {2, 5}, {})},
    \* A promotion, of one who is slashed before or after, and of another.
    {Yes3, No3, Slashing(3, 120, {Yes3, No3}, {1, 5}), Slashing(3, 50, {Yes3, No3}, {1, 5}),
     Promoting(3, {1, 5}), Promoting(2, {1, 5, 3})},
    \* Only promotions, for as long as the window lasts.
    LongStory,
    \* A bond too many, an abstain taken for a verdict, slashes that fail.
    {Work, Yes2, No2, Again2, Yes3, Abstain3, Slashing(3, 10, {Yes3, Abstain3}, {1, 5}),
     Slashing(2, 10, {No2, Again2}, {1})} }

\* Three authorities of weight 100, as demo.py founds them, review 4 in the
\* consensus domain, and their certificate.
Founders == [p \in Person |->
               IF p <= 3 THEN [consensus |-> 100, bio |-> 0]
               ELSE [consensus |-> IF p = 4 THEN 40 ELSE 0, bio |-> 0]]

Joining ==
  {{[YesC1 EXCEPT !.sender = p] : p \in {1, 2, 3}}
     \cup {[CertifyingC1 EXCEPT !.granted_by = {1, 2, 3}]}}

Blocks(O) == CASE O = LongStory -> 7
               [] O = Takeover -> 4
               [] OTHER -> 3
=============================================================================
