CONSTANTS
    g = g  j = j  x1 = x1  x2 = x2  x3 = x3  y1 = y1  y2 = y2  fe = fe  ff = ff
    NoEntry = NoEntry
    NoFile = NoFile
    Partial = Partial
    Genesis = g
    Blocks <- MCBlocks
    Prev <- MCPrev
    Forks = {fe, ff}
    Creates <- MCCreates
    Joint <- MCJoint
    RefBlock <- MCRef
    fAllowAnyFork = TRUE
    setForkAllowed = {}
    setGroupAllowed = {}
    setForkExcluded = {fe}
    Threads = {t1, t2}
    MaxRestarts = 1
SPECIFICATION MCSpec
CHECK_DEADLOCK FALSE
INVARIANTS PoolFollowsChain ForkHeals FillsFollowOrders
PROPERTIES ForksFollowed
