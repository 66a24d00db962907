SPECIFICATION LiveSpec
CONSTANTS
  Node = {1, 2, 3}
  Hash = {1}
  Tx = {}
  ProtocolTx = {}
  ValidatorsAfter <- EveryNode
  Peers <- FullMesh
  Draw <- LowestHash
  Duplicated = {}
  Lossy = {}
  Delivers <- Everything
  Stalled = {}
  OutOfTurn = {}
  Advertisers = {}
  TimeoutHeights = {}
  MaxTimeouts <- Once
  MaxHeight = 1
  MaxSync = 1
PROPERTY EveryBlockFinal
CHECK_DEADLOCK FALSE
