SPECIFICATION Spec
CONSTANTS
  a = a
  b = b
  confirm = confirm
  blank = blank
  torn = torn
  ProgramUnit = 2
  PageSize = 4
  SlotSize = 8
  Data <- MCData
  Erased = blank
  Torn = torn
  BscModulus = 3
  MaxPayload = 4
  Lengths = {0, 1, 2, 4, 6}
  Sizes = {0, 3, 6, 8, 9}
  ConfirmField = confirm
  Images <- MCImages
INVARIANTS
  TypeOK
  RunningImagePreserved
  PreparedSlotIsBlank
  JobMatchesSession
PROPERTIES
  ProgrammedOnce
  PreparationEnds
