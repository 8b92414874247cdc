SPECIFICATION Spec
CONSTANTS
  MAX_BUF_SIZE = 2
  MSS_DATA = 1
  MAX_RETRANSMISSIONS = 1
  ISS = 1
  Word = 32
  MaxBytes = 4
  MaxDups = 0
  Races = {"readWindow", "queueAppend", "lateProbe"}
INVARIANT CopyLoopEnds
CHECK_DEADLOCK FALSE
