SPECIFICATION Spec
CONSTANTS
  Names = {r1}
  HistoryLimit = 1
  Schedules = {0, 2, 9}
  BadSchedule = 9
  HelmTrigger = FALSE
  Grace = 1
  MaxTime = 5
  MaxTriggers = 0
  MaxReleases = 0
  MaxEdits = 1
  MaxDeletions = 0
  MaxLag = 1
  MaxBehind = 1
  MaxFaults = 0
  MaxRestarts = 0
SYMMETRY NameSymmetry
INVARIANT ScheduleKnown
CHECK_DEADLOCK FALSE
