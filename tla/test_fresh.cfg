SPECIFICATION Spec
CONSTANTS
  InitialFins = {}
  Pods = {p1, p2}
  Policies = {"OnFailure"}
  MaxLag = 0
  MaxBehind = 2
  MaxFaults = 1
  MaxEvictions = 1
  MaxRestarts = 1
  MaxUid = 2
SYMMETRY PodSymmetry
INVARIANT CountedOnce
INVARIANT SinglePod
INVARIANT NoOrphanPods
PROPERTY LifeOfTest
PROPERTY EvidenceKept
CHECK_DEADLOCK FALSE
