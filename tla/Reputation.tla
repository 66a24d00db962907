----------------------------- MODULE Reputation -----------------------------
(***************************************************************************)
(* What the transactions of a chain prefix decide, as pure functions of the *)
(* prefix: the tally of reviews and its collusion cap (reputation/tally.py),*)
(* certificates (attestation/aggregator.py), slashes (reputation/           *)
(* slashing.py) and promotions (blockchain/blockchain.py). Module Ledger    *)
(* keeps the state.                                                         *)
(*                                                                          *)
(* Abstractions.                                                            *)
(*  - A transaction is its record: hashes are collision free, so the hash   *)
(*    of a transaction names it and the record stands for both.             *)
(*  - Signatures are unforgeable: `signed' says that a participant's         *)
(*    transaction carries its sender's signature, and `approvals' is the    *)
(*    set of keys whose signature over the statement verifies.              *)
(*  - A rubric item is a number, a submission a name; subject, rubric_root  *)
(*    and domain always travel together, as the field `scope'.              *)
(*  - T is the set of the transactions of a prefix: nothing here depends on *)
(*    their order.                                                          *)
(***************************************************************************)
EXTENDS Integers, FiniteSets, Sequences, FiniteSetsExt, SequencesExt

CONSTANTS
  Person,      \* public keys; sorted() is < on them
  Domain,      \* domains of competence, CONSENSUS_DOMAIN among them
  Rubric,      \* rubric roots
  Submitted    \* hashes of submissions

CONSENSUS_DOMAIN == "consensus"

ASSUME PersonAssumption == Person \subseteq Nat /\ IsFiniteSet(Person)
ASSUME DomainAssumption == CONSENSUS_DOMAIN \in Domain

AUTHORITY_THRESHOLD == 50
PROMOTION_THRESHOLD == 100
MAX_NEW_VALIDATORS_PER_WINDOW == 2
PROMOTION_WINDOW == 5
CERTIFICATE_THRESHOLD == 250
MAX_SLASH == 100
ALPHA_NUM == 34
ALPHA_DEN == 100

quorum_size(n) == (2 * n) \div 3 + 1

-----------------------------------------------------------------------------
(***************************************************************************)
(* The transactions, by the field `type' of their payload.                  *)
(***************************************************************************)
Scope == [subject : Person, rubric : Rubric, domain : Domain]

\* An abstain is a verdict that bonds nothing.
Attestation ==
  {a \in [type : {"attestation"}, sender : Person, scope : Scope,
          submission : Submitted, item : Nat, verdict : {"yes", "no", "abstain"},
          stake : Nat, signed : BOOLEAN] :
     a.verdict = "abstain" => a.stake = 0}

Submission == [type : {"submission"}, sender : Person, scope : Scope,
               artifact : Submitted, signed : BOOLEAN]

Certificate == [type : {"certificate"}, scope : Scope, submission : Submitted,
                granted_by : SUBSET Person, required_items : SUBSET Nat]

Slash == [type : {"slash"}, offender : Person, domain : Domain, amount : Nat,
          evidence : SUBSET Attestation, approvals : SUBSET Person]

Promotion == [type : {"promotion"}, candidate : Person, domain : Domain,
              approvals : SUBSET Person]

Transaction == Attestation \cup Submission \cup Certificate \cup Slash \cup Promotion

OfType(T, type) == {t \in T : t.type = type}

is_abstain(a) == a.verdict = "abstain"

-----------------------------------------------------------------------------
(***************************************************************************)
(* The tally. Reviews are pooled per (subject, rubric_root, domain,         *)
(* submission) and counted once per attester.                               *)
(***************************************************************************)
PositiveReviews(T, scope, submission) ==
  {a \in OfType(T, "attestation") :
     a.scope = scope /\ a.submission = submission /\ a.verdict = "yes"}

positive_attesters(T, scope, submission) ==
  {a.sender : a \in PositiveReviews(T, scope, submission)}

\* The positive attesters of one item, by_item[item].
positive_attesters_by_item(T, scope, submission, item) ==
  {a.sender : a \in {b \in PositiveReviews(T, scope, submission) : b.item = item}}

positive_pairs(T) ==
  {<<a.sender, a.scope.subject>> :
     a \in {b \in OfType(T, "attestation") : b.verdict = "yes"}}

\* With a bug: one of two who vouches for the other ties them.
MutualTies_oneway(T, attesters) ==
  {tie \in attesters \X attesters :
     tie[1] < tie[2] /\ {tie, <<tie[2], tie[1]>>} \cap positive_pairs(T) # {}}

\* Who vouched for whom in both directions, anywhere in the prefix.
MutualTies(T, attesters) ==
  {tie \in attesters \X attesters :
     tie[1] < tie[2] /\ {tie, <<tie[2], tie[1]>>} \subseteq positive_pairs(T)}

(***************************************************************************)
(* Union-find over the ties, in sorted order, the last one last: union      *)
(* attaches the larger root under the smaller. (Path compression moves no   *)
(* root.)                                                                   *)
(***************************************************************************)
find(parent, x) ==
  LET root[y \in DOMAIN parent] == IF parent[y] = y THEN y ELSE root[parent[y]]
  IN  root[x]

unite(tie, parent) ==
  LET ra == find(parent, tie[1])
      rb == find(parent, tie[2])
      hi == IF ra > rb THEN ra ELSE rb
      lo == IF ra > rb THEN rb ELSE ra
  IN  [parent EXCEPT ![hi] = lo]

Before(s, t) == s[1] < t[1] \/ (s[1] = t[1] /\ s[2] < t[2])

LastTie(ties) == CHOOSE t \in ties : \A s \in ties \ {t} : Before(s, t)

united(ties, attesters) ==
  MapThenFoldSet(unite, [a \in attesters |-> a], LAMBDA tie : tie, LastTie, ties)

attester_clusters(T, attesters) ==
  LET parent == united(MutualTies(T, attesters), attesters)
  IN  {{a \in attesters : find(parent, a) = r} : r \in {find(parent, a) : a \in attesters}}

-----------------------------------------------------------------------------
\* The summed weight of a set of attesters in a domain.
Weight(weight, domain, attesters) ==
  SumFunction([a \in attesters |-> weight[a][domain]])

\* With a bug: clusters are not capped.
capped_support_uncapped(T, weight, domain, attesters) == Weight(weight, domain, attesters)

\* Each cluster of two or more counts for at most ALPHA of the raw total.
capped_support(T, weight, domain, attesters) ==
  LET total == Weight(weight, domain, attesters)
      cap == (ALPHA_NUM * total) \div ALPHA_DEN
      counted(C) == LET joint == Weight(weight, domain, C)
                    IN  IF Cardinality(C) >= 2 /\ joint > cap THEN cap ELSE joint
  IN  SumFunction([C \in attester_clusters(T, attesters) |-> counted(C)])

-----------------------------------------------------------------------------
(***************************************************************************)
(* Certificates. weight is the registry of the same prefix T.               *)
(***************************************************************************)
Credited(T, weight, scope, submission) ==
  {a \in positive_attesters(T, scope, submission) : weight[a][scope.domain] > 0}

\* Every required item has a positive attester who carries weight.
required_items_covered(T, weight, scope, submission, required_items) ==
  \A i \in required_items :
    \E a \in positive_attesters_by_item(T, scope, submission, i) : weight[a][scope.domain] > 0

\* The certificate that a prefix supports: a set of at most one.
certify(T, weight, scope, submission, threshold, required_items) ==
  LET attesters == positive_attesters(T, scope, submission)
  IN  IF /\ capped_support(T, weight, scope.domain, attesters) >= threshold
         /\ required_items_covered(T, weight, scope, submission, required_items)
      THEN {[type |-> "certificate", scope |-> scope, submission |-> submission,
             granted_by |-> Credited(T, weight, scope, submission),
             required_items |-> required_items]}
      ELSE {}

\* What is certified, whoever is credited for it.
certificate_id(c) == <<c.scope, c.submission>>

validate_certificate(c, T, weight) ==
  /\ capped_support(T, weight, c.scope.domain,
                    positive_attesters(T, c.scope, c.submission)) >= CERTIFICATE_THRESHOLD
  /\ required_items_covered(T, weight, c.scope, c.submission, c.required_items)
  /\ c.granted_by = Credited(T, weight, c.scope, c.submission)

-----------------------------------------------------------------------------
(***************************************************************************)
(* Slashes. A claim is (subject, rubric_root, domain, item), whichever      *)
(* submission it was made on.                                               *)
(***************************************************************************)
SameClaim(a, b) == a.scope = b.scope /\ a.item = b.item

\* With a bug: an abstain contradicts a verdict.
conflicting_attestations_abstain(a, b, offender, domain) ==
  /\ a.sender = offender /\ b.sender = offender
  /\ a.signed /\ b.signed
  /\ a.scope.domain = domain
  /\ SameClaim(a, b)
  /\ a.verdict # b.verdict

conflicting_attestations(a, b, offender, domain) ==
  /\ a.sender = offender /\ b.sender = offender
  /\ a.signed /\ b.signed
  /\ a.scope.domain = domain
  /\ SameClaim(a, b)
  /\ {a.verdict, b.verdict} = {"yes", "no"}

is_slash(s) == s.type = "slash" /\ Cardinality(s.evidence) = 2

\* A BFT quorum of V is among the signers S.
Approved(S, V) == V # {} /\ Cardinality(S \cap V) >= quorum_size(Cardinality(V))

\* T holds both pieces of evidence, and validators are those of T's registry.
validate_slash(s, T, validators) ==
  /\ is_slash(s)
  /\ s.evidence \subseteq T
  /\ \A a, b \in s.evidence :
       a # b => conflicting_attestations(a, b, s.offender, s.domain)
  /\ Approved(s.approvals, validators)

-----------------------------------------------------------------------------
(***************************************************************************)
(* Validators: the consensus authorities of a registry, and promotions. at  *)
(* maps each person to the block that promoted it (0: none did).            *)
(***************************************************************************)
consensus_authorities(weight) ==
  {p \in Person : weight[p][CONSENSUS_DOMAIN] >= AUTHORITY_THRESHOLD}

PromotedBefore(at, i) == {p \in Person : at[p] \in 1 .. (i - 1)}

\* The promotions that count against the caps in block i.
FreshIn(at, i) == {p \in Person : at[p] > 0 /\ at[p] > i - PROMOTION_WINDOW}

\* The weight is of the prefix; fresh counts the promotions in the window.
promotion_ok(t, validators_before, weight, fresh) ==
  /\ t.candidate \notin validators_before
  /\ weight[t.candidate][t.domain] >= PROMOTION_THRESHOLD
  /\ Cardinality(t.approvals \cap validators_before)
       >= quorum_size(Cardinality(validators_before))
  /\ fresh + 1 <= MAX_NEW_VALIDATORS_PER_WINDOW
  /\ 3 * (fresh + 1) <= Cardinality(validators_before) + 1
=============================================================================
