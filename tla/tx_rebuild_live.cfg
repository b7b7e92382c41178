SPECIFICATION Spec
CONSTANTS
  consumer = consumer
  operator = operator
  nobody = nobody
  none = none
  Consumer <- consumer
  Operator <- operator
  NoProc <- nobody
  NoMsg <- none
  Msgs <- MCMsgs
  History <- MCHistory
  MaxDeliveries = 3
  MaxFaults = 0
CHECK_DEADLOCK FALSE
INVARIANTS
  CompleteIsProof
