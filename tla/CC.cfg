SPECIFICATION FairSpec
CONSTANTS
  MAX_BUF_SIZE = 3
  MSS_DATA = 1
  MAX_RETRANSMISSIONS = 1
  INIT_THRESHOLD = 3
  Word = 32
  MaxBytes = 3
  ChatterMax = 1
  LossMax = 1
INVARIANTS TypeOK BurstFits
PROPERTIES ResendsTheGap AllDelivered
CHECK_DEADLOCK FALSE
