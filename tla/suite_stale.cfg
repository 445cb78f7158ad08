SPECIFICATION Spec
CONSTANTS
  Names = {r1, r2}
  HistoryLimit = 1
  Schedules = {0}
  BadSchedule = 9
  HelmTrigger = FALSE
  Grace = 1
  MaxTime = 0
  MaxTriggers = 2
  MaxReleases = 0
  MaxEdits = 0
  MaxDeletions = 1
  MaxLag = 1
  MaxBehind = 1
  MaxFaults = 1
  MaxRestarts = 0
SYMMETRY NameSymmetry
INVARIANT Converged
INVARIANT DeletionGoesOn
CHECK_DEADLOCK FALSE
