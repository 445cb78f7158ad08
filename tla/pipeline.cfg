SPECIFICATION FairSpec
CONSTANTS
  Name = t1
  Pods = {p1}
  Policies = {"OnFailure"}
  RunFins = {{"konfirm.goraft.tech/testsuite-controller"}}
  MaxBehind = 1
  MaxFaults = 0
  MaxEvictions = 0
  MaxRestarts = 1
INVARIANT EndToEndSound
INVARIANT FailureEvidence
PROPERTY RunImplemented
PROPERTY RunFinished
PROPERTY Cleared
CHECK_DEADLOCK FALSE
