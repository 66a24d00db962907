SPECIFICATION LiveSpec
CONSTANTS
  Node = {1, 2, 3, 4}
  Hash = {1}
  Tx = {}
  ProtocolTx = {}
  ValidatorsAfter <- EveryNode
  Peers <- Without2
  Draw <- LowestHash
  Duplicated = {"viewchange"}
  Lossy = {}
  Delivers <- Everything
  Stalled = {2}
  OutOfTurn = {}
  Advertisers = {}
  TimeoutHeights = {1}
  MaxTimeouts <- OnceBut2
  MaxHeight = 1
  MaxSync = 1
PROPERTY StalledRotatedOut
CHECK_DEADLOCK FALSE
