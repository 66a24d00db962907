SPECIFICATION LiveSpec
CONSTANTS
  Node = {1, 2, 3}
  Hash = {1, 2}
  Tx = {}
  ProtocolTx = {}
  ValidatorsAfter <- EveryNode
  Peers <- FullMesh
  Draw <- LowestHash
  Duplicated = {}
  Lossy = {}
  Delivers <- ButCommits
  Stalled = {3}
  OutOfTurn = {}
  Advertisers = {}
  TimeoutHeights = {2}
  MaxTimeouts <- Once
  MaxHeight = 2
  MaxSync = 1
PROPERTY QuorumRotates
CHECK_DEADLOCK FALSE
