SPECIFICATION Spec
CONSTANTS
  Path <- MCPath
  KindOf <- MCKinds
  ShardsOf <- MCShards
  Volatile <- MCVolatile
  Cases <- TwoTopics
  SysDirs <- MCSysDirs
  Threads = 2
INVARIANT SaysTrue
