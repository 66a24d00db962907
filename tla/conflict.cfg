SPECIFICATION Spec
CONSTANTS
  Node = {1, 2, 3, 4}
  Hash = {1, 2, 3, 4}
  Tx = {}
  ProtocolTx = {}
  ValidatorsAfter <- EveryNode
  Peers <- Split
  Draw <- LowestHash
  Duplicated = {"commit"}
  Lossy = {}
  Delivers <- TwoCamps
  Stalled = {}
  OutOfTurn = {}
  Advertisers = {}
  TimeoutHeights = {1}
  MaxTimeouts <- OnceBut2
  MaxHeight = 3
  MaxSync = 1
CHECK_DEADLOCK FALSE

INVARIANT Agreement
