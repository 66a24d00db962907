SPECIFICATION Spec
CONSTANTS
  Person = {1, 2, 3, 4, 5}
  Domain = {"consensus", "bio"}
  Rubric = {"r"}
  Submitted = {"w1", "w2"}
  Genesis <- Anchor
  Endowment <- Tokens
  CERTIFICATE_REWARD = 10
  REVIEW_REWARD = 5
  Offers <- Stories
  MaxBlocks <- Blocks
INVARIANTS TypeOK NoOverdraft FateDecides ReplayAgrees CartelsNeedMore
PROPERTIES BondsAreEscrowed MintedStaysGood ContestedForCause HonestKeepStanding
CHECK_DEADLOCK FALSE
