SPECIFICATION FairSpec
CONSTANTS
  Path <- MCPath
  KindOf <- MCKinds
  ShardsOf <- MCShards
  Volatile <- MCVolatile
  Cases <- MCCases
  SysDirs <- MCSysDirs
  Threads = 2
INVARIANTS
  OnlySelected
  OneThreadPerTablet
  ZeroMeansDone
  NoFalseAlarm
PROPERTY RunEnds
