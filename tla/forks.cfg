SPECIFICATION Spec
CONSTANTS
  Node = {1, 2}
  Hash = {1, 2, 3, 4}
  Tx = {"t"}
  ProtocolTx = {}
  ValidatorsAfter <- EveryNode
  Peers <- FullMesh
  Draw <- LowestHash
  Duplicated = {"commit", "viewchange"}
  Lossy = {}
  Delivers <- Everything
  Stalled = {}
  OutOfTurn = {}
  Advertisers = {}
  TimeoutHeights = {1}
  MaxTimeouts <- Once
  MaxHeight = 3
  MaxSync = 1
INVARIANTS TypeOK ChainsValid NoDoubleInclusion AnnouncedStaysFinal
PROPERTY IrrevocableFinality
CHECK_DEADLOCK FALSE
