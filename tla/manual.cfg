SPECIFICATION Spec
CONSTANTS
  Node = {1, 2, 3}
  Hash = {1, 2, 3, 4}
  Tx = {"promote"}
  ProtocolTx = {"promote"}
  ValidatorsAfter <- Promoting
  Peers <- Line
  Draw <- LowestHash
  Duplicated = {"commit"}
  Lossy = {"block"}
  Delivers <- Everything
  Stalled = {}
  OutOfTurn = {2}
  Advertisers = {3}
  TimeoutHeights = {}
  MaxTimeouts <- Once
  MaxHeight = 2
  MaxSync = 1
INVARIANTS ChainsValid Agreement
CHECK_DEADLOCK FALSE
