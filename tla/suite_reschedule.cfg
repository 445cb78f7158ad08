SPECIFICATION Spec
CONSTANTS
  Names = {r1}
  HistoryLimit = 1
  Schedules = {0, 2, 3, 9}
  BadSchedule = 9
  HelmTrigger = FALSE
  Grace = 1
  MaxTime = 5
  MaxTriggers = 0
  MaxReleases = 0
  MaxEdits = 2
  MaxDeletions = 0
  MaxLag = 0
  MaxBehind = 1
  MaxFaults = 0
  MaxRestarts = 1
SYMMETRY NameSymmetry
INVARIANTS ScheduleArmed ScheduleKnown
CHECK_DEADLOCK FALSE
