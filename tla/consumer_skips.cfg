SPECIFICATION Spec
CONSTANTS
  Records <- MCRecords
  MaxFaults = 1
CHECK_DEADLOCK FALSE
INVARIANTS
  CommittedIsDurable
