SPECIFICATION Spec
CONSTANTS
  MaxLen = 3
INVARIANT ReleasesAll
CHECK_DEADLOCK FALSE
