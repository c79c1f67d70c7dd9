SPECIFICATION MCSpec
CONSTANTS
  b1 = b1 b2 = b2 b3 = b3 c2 = c2
  Origin = Origin NoBlock = NoBlock
  Blocks = {b1, b2, b3}
  Prev <- MCPrev Height <- MCHeight ChainId <- MCChainId Rank <- MCRank Size <- MCSize
  Hashes = {Origin, b1, b2, b3, c2} NoHash = NoBlock
  HashPrev <- MCHashPrev Lists <- MCLists
  RecentLimit = 1
  MaxCacheCount = 2 MaxCacheSize = 3 MaxQueue = 1
PROPERTIES RecentOnly
