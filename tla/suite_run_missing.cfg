SPECIFICATION FairSpec
CONSTANTS
  Names = {r1, r2}
  HistoryLimit = 1
  Schedules = {0}
  BadSchedule = 9
  HelmTrigger = FALSE
  Grace = 1
  MaxTime = 0
  MaxTriggers = 1
  MaxReleases = 0
  MaxEdits = 0
  MaxDeletions = 1
  MaxLag = 0
  MaxBehind = 1
  MaxFaults = 0
  MaxRestarts = 0
PROPERTY MissingRunForgotten
CHECK_DEADLOCK FALSE
