SPECIFICATION Spec
CONSTANTS
  Person = {1, 2, 3, 4, 5}
  Domain = {"consensus", "bio"}
  Rubric = {"r"}
  Submitted = {"w1", "w2"}
  Genesis <- Founders
  Endowment <- Tokens
  CERTIFICATE_REWARD = 10
  REVIEW_REWARD = 5
  Offers <- Joining
  MaxBlocks <- Blocks
INVARIANT OnlyPromotionsJoin
CHECK_DEADLOCK FALSE
