SPECIFICATION Spec
CONSTANTS
  Names = {r1, r2}
  HistoryLimit = 0
  Schedules = {0}
  BadSchedule = 9
  HelmTrigger = FALSE
  Grace = 1
  MaxTime = 0
  MaxTriggers = 2
  MaxReleases = 0
  MaxEdits = 0
  MaxDeletions = 1
  MaxLag = 0
  MaxBehind = 1
  MaxFaults = 0
  MaxRestarts = 0
SYMMETRY NameSymmetry
INVARIANT DeletedRunsReleased
CHECK_DEADLOCK FALSE
