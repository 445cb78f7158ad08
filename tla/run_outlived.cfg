SPECIFICATION Spec
CONSTANTS
  Names = {t1, t2}
  NumTests = 2
  Radix = 10
  InitialFins = {{"konfirm.goraft.tech/testsuite-controller"}}
  Policies = {"OnFailure"}
  MaxLag = 0
  MaxBehind = 1
  MaxFaults = 0
  MaxDeletions = 0
  MaxEdits = 0
  MaxRestarts = 0
CHECK_DEADLOCK FALSE
INVARIANT TestsFirst
