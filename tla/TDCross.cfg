SPECIFICATION Spec
CONSTANTS
  MAX_RETRANSMISSIONS = 1
  Faults = 0
  Scenarios <- WriteAndClose
INVARIANTS DoneWhenReceived
CHECK_DEADLOCK FALSE
