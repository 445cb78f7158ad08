SPECIFICATION Spec
CONSTANTS
  InitialFins = {}
  Pods = {p1, p2}
  Policies = {"OnFailure"}
  MaxLag = 0
  MaxBehind = 1
  MaxFaults = 0
  MaxEvictions = 0
  MaxRestarts = 0
  MaxUid = 2
SYMMETRY PodSymmetry
INVARIANT DecidedByOwnPod
CHECK_DEADLOCK FALSE
