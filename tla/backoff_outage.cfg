SPECIFICATION Spec
CONSTANTS
  MaxAttempts = 64
CHECK_DEADLOCK FALSE
INVARIANTS
  BackoffRecorded
