SPECIFICATION FairSpec
CONSTANTS
  InitialFins = {}
  Pods = {p1, p2}
  Policies = {"Always", "Never", "OnFailure"}
  MaxLag = 0
  MaxBehind = 2
  MaxFaults = 0
  MaxEvictions = 1
  MaxRestarts = 0
  MaxUid = 1
PROPERTY Decided
PROPERTY DeletedTestGone
PROPERTY DeletedPodGone
CHECK_DEADLOCK FALSE
