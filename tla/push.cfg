SPECIFICATION Spec
CONSTANTS
  Person = {1, 2, 3}
  Domain = {"bio", "law"}
  Issuer = {"authority", "academy"}
  AUTHORITY = "authority"
  TTL = 1
  TrustedIssuers = {"authority"}
  Endowment <- Tokens
  Quorum = 2
  Foreign <- Elsewhere
  Settings <- Pushing
  Visitor = {"v1"}
PROPERTIES PushedAsPolled
CHECK_DEADLOCK FALSE
