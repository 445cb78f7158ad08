SPECIFICATION FairSpec
CONSTANTS
  MaxLen = 6
INVARIANT InRange
INVARIANT LeavesLive
INVARIANT ReleasesDeleted
PROPERTY Terminates
CHECK_DEADLOCK FALSE
