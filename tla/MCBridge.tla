------------------------------ MODULE MCBridge ------------------------------
(***************************************************************************)
(* Values of Bridge's constants for TLC: reviewers 1 and 2, author 3.       *)
(***************************************************************************)
EXTENDS Bridge

Review(p, n, domain) ==
  [type |-> "attestation", sender |-> p, domain |-> domain, stake |-> n, signed |-> TRUE]

Work == [type |-> "submission", sender |-> 3, work |-> 1, signed |-> TRUE]

Held(issuer, p, from, until, proven) ==
  [issuer |-> issuer, subject |-> p, domains |-> {"bio"}, validFrom |-> from,
   validUntil |-> until, proven |-> proven]

\* Good until 1, good from 1, and from elsewhere.
Elsewhere == {Held("authority", 1, 0, 1, TRUE), Held("academy", 2, 0, 9, TRUE)}

Tokens == [p \in Person |-> 5]

\* Posts, over two challenges and the time it takes them to expire.
Posting ==
  [posted |-> {Review(1, 3, "bio"), Review(1, 4, "bio"), Work}, gossiped |-> {},
   validities |-> {}, visitors |-> {}, MaxTime |-> 2, MaxIssued |-> 0, MaxChallenges |-> 2,
   MaxBlocks |-> 1, MaxHash |-> 1]

\* A credential asked for, a bond that cannot be funded, and what peers gossip.
Peering ==
  [posted |-> {Review(2, 6, "bio")}, gossiped |-> {Review(2, 3, "bio"), Review(1, 4, "law")},
   validities |-> {0, 1}, visitors |-> {}, MaxTime |-> 1, MaxIssued |-> 1, MaxChallenges |-> 1,
   MaxBlocks |-> 2, MaxHash |-> 1]

\* A browser, while a transaction, blocks, forks and commits arrive.
Watching ==
  [posted |-> {}, gossiped |-> {Review(1, 4, "bio")}, validities |-> {},
   visitors |-> {"v1"}, MaxTime |-> 0, MaxIssued |-> 0, MaxChallenges |-> 0, MaxBlocks |-> 1,
   MaxHash |-> 2]

\* A browser, while longer forks arrive.
Forking == [Watching EXCEPT !.gossiped = {}, !.MaxBlocks = 2]

Days == {Posting, Peering, Watching, Forking}

Pushing == {Forking}
=============================================================================
