SPECIFICATION Spec
CONSTANTS
  Names = {r1, r2}
  HistoryLimit = 1
  Schedules = {0}
  BadSchedule = 9
  HelmTrigger = TRUE
  Grace = 1
  MaxTime = 0
  MaxTriggers = 1
  MaxReleases = 1
  MaxEdits = 0
  MaxDeletions = 0
  MaxLag = 0
  MaxBehind = 1
  MaxFaults = 0
  MaxRestarts = 0
SYMMETRY NameSymmetry
INVARIANT TriggeredOnce
CHECK_DEADLOCK FALSE
