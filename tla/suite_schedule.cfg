SPECIFICATION Spec
CONSTANTS
  Names = {r1}
  HistoryLimit = 1
  Schedules = {0, 3, 9}
  BadSchedule = 9
  HelmTrigger = TRUE
  Grace = 1
  MaxTime = 5
  MaxTriggers = 0
  MaxReleases = 1
  MaxEdits = 1
  MaxDeletions = 0
  MaxLag = 1
  MaxBehind = 1
  MaxFaults = 0
  MaxRestarts = 1
SYMMETRY NameSymmetry
INVARIANT ScheduleArmed
CHECK_DEADLOCK FALSE
