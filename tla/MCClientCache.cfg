SPECIFICATION FairCacheSpec
CONSTANTS
  Callers = {u1, u2}
  Users = {u1, u2}
  Operators = {c1, c2}
  MaxConfig = 3
  Nobody = Nobody
  Trees <- MCTrees
INVARIANTS CacheInv NoStaleClient
PROPERTIES CacheCallsReturn
