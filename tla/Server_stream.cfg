SPECIFICATION FairSpec
CONSTANTS
  PSIZE = 3
  MaxPackets = 4
CHECK_DEADLOCK FALSE
INVARIANTS ServerInv OneAnswerEach
PROPERTIES EndsAfterProxy EndsOnEoj
