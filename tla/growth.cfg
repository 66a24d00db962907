SPECIFICATION Spec
CONSTANTS
  Node = {1, 2}
  Hash = {1, 2, 3}
  Tx = {}
  ProtocolTx = {}
  ValidatorsAfter <- EveryNode
  Peers <- FullMesh
  Draw <- LowestHash
  Duplicated = {"commit", "viewchange"}
  Lossy = {}
  Delivers <- Everything
  Stalled = {}
  OutOfTurn = {}
  Advertisers = {}
  TimeoutHeights = {1}
  MaxTimeouts <- Once
  MaxHeight = 2
  MaxSync = 1
PROPERTY ExtensionsAdopted
CHECK_DEADLOCK FALSE
