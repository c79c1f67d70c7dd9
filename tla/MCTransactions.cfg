CONSTANTS
    t1 = t1
    t2 = t2
    t3 = t3
    u1 = u1
    alice = alice
    bob = bob
    Nodes = {1, 2}
    Links <- Pair
    Txs = {t1, t2, t3, u1}
    TxFrom <- From
    TxNonce <- Nonces
    Pools <- OneTx
    Refused <- None
    MinedTxs = {}
    MIN_INV_COUNT = 1
    MAX_INV_COUNT = 2
    MAX_TX_SCHED = 2
    MAX_PEER_TX_INV_COUNT = 4
    MAX_SCHED_INV_COUNT = 8
    MAX_REGETDATA_COUNT = 2
    MaxLosses = 1
    MaxLate = 1
    MaxQueue = 1
    AsksAgain = FALSE
    NoPeer = NoPeer
    NoTx = NoTx
SPECIFICATION MCSpec
CHECK_DEADLOCK FALSE
 
PROPERTIES TxsSpread
