SPECIFICATION FairSpec
CONSTANTS
  OutLen <- TwoOut
  InLen <- TwoIn
  WRITE_TICK_MAX_BYTES = 2
  WRITE_TICK_MAX_MESSAGES = 1
  WRITE_CALL_MAX_BYTES = 2
  ReadMax = 2
  WireCapacity = 2
INVARIANTS TypeOK
PROPERTIES MessagesInOrder PacketsInOrder MessageLeaves PacketArrives ThreadEnds
\* the thread ends
CHECK_DEADLOCK FALSE
