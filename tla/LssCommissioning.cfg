SPECIFICATION FairSpec
CONSTANTS
  Clients = {c1, c2}
  NoClient = NoClient
  FirstId = 2
  LastId = 3
  Addresses = {0, 1}
  OneUpdater = TRUE
  MaxUnread = 2
  NodeIds = {2, 3}
  CO_LSS_NODE_ID_ASSIGNMENT = 255
  BadNodeId = 0
  CAN_BIT_RATE_KBIT = 1000
  OtherBitRate = 500
  Torn = Torn
INVARIANTS
  ReplyIsOwn
  QueriedIsAddressed
PROPERTIES
  AssignedIsStored
  EveryClientIsServed
