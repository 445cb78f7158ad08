SPECIFICATION Spec
CONSTANTS
  InitialFins = {}
  Pods = {p1, p2}
  Policies = {"OnFailure"}
  MaxLag = 0
  MaxBehind = 1
  MaxFaults = 1
  MaxEvictions = 0
  MaxRestarts = 0
  MaxUid = 1
SYMMETRY PodSymmetry
INVARIANT DeletedTestReleased
CHECK_DEADLOCK FALSE
