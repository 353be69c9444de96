SPECIFICATION Spec
CONSTANTS
  Nodes = {n1}
  Lengths = {0, 3, 4, 5}
  PayloadSize = 2
  QueueCapacity = 2
  FifoDepth = 2
  None = None
  Other = Other
  MaxRecords = 4
INVARIANTS
  TypeOK
  OneLossIsSeen
  WaitingEnds
PROPERTY FramesInOrder
