SPECIFICATION Spec
CONSTANTS
  consumer = consumer
  operator = operator
  nobody = nobody
  none = none
  Consumer <- consumer
  Operator <- operator
  NoProc <- nobody
  NoMsg <- none
  Msgs <- MCMsgs
  History <- MCHistory
  MaxDeliveries = 3
  MaxFaults = 2
CHECK_DEADLOCK FALSE
INVARIANTS
  AppliedIsProjected
  CompleteIsProofUnlessLive
  ForecastCompleteIsTrue
  ForecastStaleIsLate
PROPERTIES
  OneVersionAtATime
