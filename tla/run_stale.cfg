SPECIFICATION Spec
CONSTANTS
  Names = {t1, t2}
  NumTests = 2
  Radix = 10
  InitialFins = {{}}
  Policies = {"OnFailure"}
  MaxLag = 1
  MaxBehind = 1
  MaxFaults = 1
  MaxDeletions = 1
  MaxEdits = 1
  MaxRestarts = 0
SYMMETRY NameSymmetry
INVARIANT ResultsSound
INVARIANT DeletionGoesOn
INVARIANT Converged
CHECK_DEADLOCK FALSE
