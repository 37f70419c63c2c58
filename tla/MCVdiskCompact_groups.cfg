SPECIFICATION FairSpec
CONSTANTS
  v1 = v1  v2 = v2  v3 = v3
  VDisk = {v1, v2, v3}
  Inputs <- MCInputs
  Threads = 2
INVARIANTS
  WaitedFor
  SuccessMeansCarriedOut
PROPERTY RunEnds
