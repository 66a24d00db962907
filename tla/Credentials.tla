----------------------------- MODULE Credentials -----------------------------
(***************************************************************************)
(* Reviewer credentials (credentials/vc.py), the proof that their holder    *)
(* presents them (credentials/presentation.py), and the operations of the   *)
(* challenge store of a node, as functions of the store.                    *)
(*                                                                          *)
(* Abstractions.                                                            *)
(*  - A did:key renders one public key and is not told from it.             *)
(*  - Signatures are unforgeable: `proven' says that the proof of a         *)
(*    credential is its issuer's over this document, and a challenge        *)
(*    signature is the key that made it with what it was made over.         *)
(*  - The clock is a number; dates and the store's seconds share it.        *)
(*  - A document whose shape is wrong is refused like one that is not       *)
(*    proven.                                                               *)
(***************************************************************************)
EXTENDS Integers, FiniteSets

CONSTANTS
  Person,       \* public keys of participants
  Domain,       \* domains of competence
  Issuer,       \* DIDs that issue credentials
  AUTHORITY,    \* the issuer that runs on every node
  TTL           \* CHALLENGE_TTL_SECONDS

ASSUME IssuerAssumption == AUTHORITY \in Issuer
ASSUME TTLAssumption == TTL \in Nat

Credential == [issuer : Issuer, subject : Person, domains : SUBSET Domain,
               validFrom : Nat, validUntil : Nat, proven : BOOLEAN]

\* What an issuer signs, for `validity' units of time from `now'.
issue_reviewer_credential(issuer, subject, domains, now, validity) ==
  [issuer |-> issuer, subject |-> subject, domains |-> domains,
   validFrom |-> now, validUntil |-> now + validity, proven |-> TRUE]

verify_credential(vc, trusted, now) ==
  /\ vc.issuer \in trusted
  /\ vc.domains # {}
  /\ vc.validFrom <= now /\ now <= vc.validUntil
  /\ vc.proven

-----------------------------------------------------------------------------
\* What the holder of a key attaches to an attestation. The bytes it signs are
\* those of pop_signing_bytes: the challenge and the DID that the credential names.
make_presentation(holder, vc, challenge) ==
  [credential |-> vc, challenge |-> challenge,
   challenge_signature |-> [by |-> holder, over |-> <<challenge, vc.subject>>]]

\* Freshness of the challenge is not checked here.
verify_presentation(p, sender, domain, trusted, now) ==
  /\ verify_credential(p.credential, trusted, now)
  /\ p.credential.subject = sender
  /\ p.challenge_signature = [by |-> sender, over |-> <<p.challenge, sender>>]
  /\ domain \in p.credential.domains

-----------------------------------------------------------------------------
(***************************************************************************)
(* ChallengeStore: a store maps the challenges that are issued and unspent  *)
(* to their expiry.                                                         *)
(***************************************************************************)
Only(store, S) == [c \in S |-> store[c]]

purge(store, now) == Only(store, {c \in DOMAIN store : store[c] >= now})

\* c is fresh.
issue(store, c, now) ==
  [x \in DOMAIN purge(store, now) \cup {c} |->
     IF x = c THEN now + TTL ELSE store[x]]

\* With a bug: an expiry that was checked is not spent.
consume_keeps(store, c, now) == purge(store, now)

\* The store once c is spent, and whether c was good for that.
consume(store, c, now) == Only(purge(store, now), DOMAIN purge(store, now) \ {c})

usable(store, c, now) == c \in DOMAIN purge(store, now)
=============================================================================
