SPECIFICATION FairSpec
CONSTANTS
  InitialFins = {}
  Pods = {p1, p2}
  Policies = {"OnFailure"}
  MaxLag = 1
  MaxBehind = 1
  MaxFaults = 0
  MaxEvictions = 1
  MaxRestarts = 0
  MaxUid = 1
PROPERTY LifeOfTest
CHECK_DEADLOCK FALSE
