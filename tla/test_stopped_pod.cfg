SPECIFICATION Spec
CONSTANTS
  InitialFins = {}
  Pods = {p1, p2}
  Policies = {"OnFailure"}
  MaxLag = 0
  MaxBehind = 1
  MaxFaults = 0
  MaxEvictions = 1
  MaxRestarts = 0
  MaxUid = 1
SYMMETRY PodSymmetry
INVARIANT DecidedByFinishedPod
CHECK_DEADLOCK FALSE
