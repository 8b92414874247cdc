SPECIFICATION FairSpec
CONSTANTS
  MAX_BUF_SIZE = 4
  MSS_DATA = 2
  MAX_RETRANSMISSIONS = 1
  INIT_THRESHOLD = 4
  Word = 32
  MaxBytes = 4
  ChatterMax = 0
  LossMax = 0
PROPERTIES KeepsToCwnd
CHECK_DEADLOCK FALSE
