SPECIFICATION Spec
CONSTANTS
  MAX_BUF_SIZE = 2
  MSS_DATA = 2
  MAX_RETRANSMISSIONS = 1
  ISS = 1
  Word = 32
  MaxBytes = 3
  MaxDups = 1
  Races = {}
INVARIANTS BytesInOrder SegmentsFit SendInWindow Retransmittable HighestAck WholeInv
PROPERTIES WindowNeverShrinks ImplementsStream
CHECK_DEADLOCK FALSE
