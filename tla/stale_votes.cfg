SPECIFICATION Spec
CONSTANTS
  Node = {1, 2, 3}
  Hash = {1, 2, 3}
  Tx = {"promote"}
  ProtocolTx = {"promote"}
  ValidatorsAfter <- Promoting
  Peers <- Line
  Draw <- LowestHash
  Duplicated = {"commit", "viewchange"}
  Lossy = {}
  Delivers <- NoCommits
  Stalled = {}
  OutOfTurn = {}
  Advertisers = {}
  TimeoutHeights = {1, 2}
  MaxTimeouts <- Once
  MaxHeight = 2
  MaxSync = 1
INVARIANTS ChainsValid
CHECK_DEADLOCK FALSE
