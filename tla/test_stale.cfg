SPECIFICATION Spec
CONSTANTS
  InitialFins = {}
  Pods = {p1, p2}
  Policies = {"OnFailure"}
  MaxLag = 1
  MaxBehind = 1
  MaxFaults = 1
  MaxEvictions = 1
  MaxRestarts = 0
  MaxUid = 1
SYMMETRY PodSymmetry
INVARIANT TypeOK
INVARIANT VerdictSound
INVARIANT PodProtected
INVARIANT Converged
CHECK_DEADLOCK FALSE
