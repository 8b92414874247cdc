SPECIFICATION Spec
CONSTANTS
  c1 = c1
  c2 = c2
  Conns = {c1, c2}
  MAX_RETRANSMISSIONS = 1
  MaxTCBs = 2
  Faults = 1
  IPErrors = 1
  Scenarios <- Schedules
INVARIANTS TypeOK AcceptedOnce NothingLost SamePeer
PROPERTIES EstablishedStays
SYMMETRY Symmetry
CHECK_DEADLOCK FALSE
