SPECIFICATION Spec
CONSTANTS
  MAX_RETRANSMISSIONS = 1
  Faults = 0
  Scenarios <- Orders
INVARIANTS TypeOK FinAfterData EofAfterData FinCompletes
PROPERTIES AckedWhenReceived FollowsDiagram
CHECK_DEADLOCK FALSE
