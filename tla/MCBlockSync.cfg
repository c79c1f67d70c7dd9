CONSTANTS
    p1 = p1
    p2 = p2
    Peers = {p1, p2}
    Origin = 0
    BlockPrev <- LinePrev
    OwnTip = 2
    PeerTips <- LineTips
    Unreliable = {p2}
    OtherBlocks = {}
    MAX_GETBLOCKS_COUNT = 3
    MAX_BLOCK_SCHED = 2
    MAX_PEER_BLOCK_INV_COUNT = 40
    MAX_INV_COUNT = 100
    MAX_REGETDATA_COUNT = 2
    MaxQueue = 1
    MaxLeaves = 1
    MaxFails = 1
    NoPeer = NoPeer
    NoBlock = NoBlock
SPECIFICATION MCSpec
CHECK_DEADLOCK FALSE
 
PROPERTIES NodeCatchesUp
