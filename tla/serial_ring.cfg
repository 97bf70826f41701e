SPECIFICATION FairSpec
CONSTANTS
  Cap = 3
  Readers = {r1, r2}
  MaxLen = 4
  MaxTotal = 7
INVARIANTS
  RingHoldsTail
PROPERTIES
  ReadsTheTail
  Delivered
  CloseEndsReaders
CHECK_DEADLOCK FALSE
