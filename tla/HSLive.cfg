SPECIFICATION FairSpec
CONSTANTS
  c1 = c1
  c2 = c2
  Conns = {c1, c2}
  MAX_RETRANSMISSIONS = 1
  MaxTCBs = 2
  Faults = 2
  IPErrors = 1
  Scenarios <- Calm
PROPERTIES AllAccepted ConnectEnds
CHECK_DEADLOCK FALSE
