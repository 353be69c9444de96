SPECIFICATION Spec
CONSTANTS
  Nodes = {n1, n2}
  Lengths = {3}
  PayloadSize = 2
  QueueCapacity = 2
  FifoDepth = 2
  None = None
  Other = Other
  MaxRecords = 1
INVARIANT OneRecordAtATime
