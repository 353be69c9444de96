SPECIFICATION Spec
CONSTANTS
  CAN_RX_QUEUE_CAPACITY = 6
  BlockSize = 2
  SnModulus = 3
  PduFrames = 4
  Pdus = {p, q}
  NodeIds = {n1}
  CO_LSS_NODE_ID_ASSIGNMENT = none
  BadNodeId = bad
  CAN_BIT_RATE_KBIT = 1000
  OtherBitRate = 500
  Torn = Torn
INVARIANTS
  TypeOK
  PduIsWhole
  RingKeepsUp
  ResetCutsNothingShort
  NoLostAssignment
PROPERTIES
  StoredIdentifierComesBack
SYMMETRY Names
