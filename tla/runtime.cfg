SPECIFICATION Spec
CONSTANTS
  Requests <- MCRequests
  MaxFaults = 1
CHECK_DEADLOCK FALSE
INVARIANTS
  CloseWaits
  SignalEndsReadiness
PROPERTIES
  OutageIsNoticed
  RecoveryIsNoticed
  ShutdownEnds
