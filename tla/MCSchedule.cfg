SPECIFICATION MCSpec
SYMMETRY PeerSymmetry
CONSTANTS
  p1 = p1 p2 = p2 b1 = b1 b2 = b2 t1 = t1 t2 = t2 root = root
  NoPeer = NoPeer NoRef = NoRef
  Peers = {p1, p2}
  Blocks = {b1, b2}
  Txs = {}
  Roots = {root}
  BlockPrev <- ChainPrev
  BlockHeight <- ChainHeights
  PoaBlocks = {}
  LocalBlocks = {}
  BlockRef <- ChainRefs
  TxFrom <- None
  TxNonce <- None
  MAX_INV_COUNT = 2
  MAX_PEER_BLOCK_INV_COUNT = 2
  MAX_PEER_TX_INV_COUNT = 1
  MAX_REGETDATA_COUNT = 2
  LOCAL_POA_WINDOW = 1
  MAX_BLOCK_SCHED = 1
  MAX_TX_SCHED = 1
INVARIANTS KnownAgree AssignedAgree LinksTracked TablesAgree
PROPERTIES ReceivedKept
