SPECIFICATION Spec
CONSTANTS
  a = a
  confirm = confirm
  blank = blank
  torn = torn
  MaxSeeds = 2
  ProgramUnit = 1
  PageSize = 1
  SlotSize = 2
  Data <- MCData
  Erased = blank
  Torn = torn
  BscModulus = 3
  MaxPayload = 2
  Lengths = {0, 1, 2, 3}
  Sizes = {0, 1, 2, 3}
  ConfirmField = confirm
  Images <- MCImages
INVARIANT EraseEnablesDownload
