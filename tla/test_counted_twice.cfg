SPECIFICATION Spec
CONSTANTS
  InitialFins = {}
  Pods = {p1, p2}
  Policies = {"OnFailure"}
  MaxLag = 1
  MaxBehind = 1
  MaxFaults = 0
  MaxEvictions = 0
  MaxRestarts = 0
  MaxUid = 1
SYMMETRY PodSymmetry
INVARIANT CountedOnce
CHECK_DEADLOCK FALSE
