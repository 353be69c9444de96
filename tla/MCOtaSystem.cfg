SPECIFICATION Spec
CONSTANTS
  a = a
  b = b
  confirm = confirm
  blank = blank
  torn = torn
  MaxSeeds = 1
  ProgramUnit = 1
  PageSize = 1
  SlotSize = 2
  Data <- MCData
  Erased = blank
  Torn = torn
  BscModulus = 3
  MaxPayload = 2
  Lengths = {1}
  Sizes = {2}
  ConfirmField = confirm
  Images <- MCImages
  Packages <- MCPackages
  TRANSFER_BLOCK_PAYLOAD = 1
  MaxAnswers = 1
INVARIANTS
  TransferredIsInFlash
  StrandedOnlyByCutTransfer
PROPERTIES
  ConfirmedIsInstalled
  OnlyReadsTakeLateAnswers
  TokenSkippedOnlyWhenUnlocked
