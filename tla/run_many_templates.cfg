SPECIFICATION Spec
CONSTANTS
  Names = {t1, t2, t3, t4}
  NumTests = 3
  Radix = 2
  InitialFins = {{}, {"konfirm.goraft.tech/testsuite-controller"}}
  Policies = {"OnFailure"}
  MaxLag = 0
  MaxBehind = 1
  MaxFaults = 0
  MaxDeletions = 0
  MaxEdits = 0
  MaxRestarts = 0
SYMMETRY NameSymmetry
INVARIANT OneTestPerTemplate
CHECK_DEADLOCK FALSE
