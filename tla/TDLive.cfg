SPECIFICATION FairSpec
CONSTANTS
  MAX_RETRANSMISSIONS = 1
  Faults = 1
  Scenarios <- Closings
PROPERTIES CloseNotified
CHECK_DEADLOCK FALSE
