SPECIFICATION FairSpec
CONSTANTS
  Names = {t1, t2}
  NumTests = 2
  Radix = 10
  InitialFins = {{}}
  Policies = {"OnFailure"}
  MaxLag = 0
  MaxBehind = 1
  MaxFaults = 1
  MaxDeletions = 0
  MaxEdits = 0
  MaxRestarts = 1
INVARIANT RunVerdictSound
INVARIANT OneTestPerTemplate
INVARIANT NeverPanics
INVARIANT TestsFirst
PROPERTY LifeOfRun
PROPERTY TestsRetained
PROPERTY RunEnds
CHECK_DEADLOCK FALSE
