SPECIFICATION Spec
CONSTANTS
  Names = {r1, r2}
  HistoryLimit = 1
  Schedules = {3}
  BadSchedule = 9
  HelmTrigger = FALSE
  Grace = 1
  MaxTime = 4
  MaxTriggers = 1
  MaxReleases = 0
  MaxEdits = 0
  MaxDeletions = 0
  MaxLag = 0
  MaxBehind = 1
  MaxFaults = 0
  MaxRestarts = 0
SYMMETRY NameSymmetry
INVARIANT TriggeredOnce
CHECK_DEADLOCK FALSE
