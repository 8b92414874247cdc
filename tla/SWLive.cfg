SPECIFICATION FairSpec
CONSTANTS
  MAX_BUF_SIZE = 2
  MSS_DATA = 1
  MAX_RETRANSMISSIONS = 1
  ISS = 1
  Word = 32
  MaxBytes = 3
  MaxDups = 0
  Races = {}
PROPERTIES AllRead WriteReturns
CHECK_DEADLOCK FALSE
